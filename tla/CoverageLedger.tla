--------------------------- MODULE CoverageLedger ----------------------------
(***************************************************************************)
(* The coverage tables of one conversation under any sequence of store     *)
(* calls: gmcli commands are separate processes on one SQLite file, so a   *)
(* start, a page and a finish of different runs interleave freely, and a   *)
(* run that dies leaves its calls unfinished.                              *)
(*                                                                         *)
(* `clock` is the millisecond wall clock that time.Now() supplies, read    *)
(* anew by every call; `lastSeen` is a history variable: when each         *)
(* millisecond of history was last inside a traversed page (0: never), and *)
(* `turn` alternates with every page.                                      *)
(***************************************************************************)
EXTENDS CoverageStore

VARIABLES clock, lastSeen, turn

ledger == <<row, segments, clock, lastSeen, turn>>

LedgerInit ==
    /\ row = NoRow
    /\ segments = {}
    /\ clock = 1
    /\ lastSeen = [t \in Time |-> 0]
    /\ turn = 0

Start ==
    /\ row' = StartConversationCoverage(row)
    /\ UNCHANGED <<segments, clock, lastSeen, turn>>

\* startMS >= endMS is an error return that writes nothing.
Page(s, e) ==
    /\ s < e
    /\ segments' = RecordSegment(segments, s, e, clock)
    /\ row' = RecordRow(row)
    /\ turn' = 1 - turn
    /\ lastSeen' = [t \in Time |-> IF t \in s .. (e - 1) THEN clock ELSE lastSeen[t]]
    /\ UNCHANGED clock

FinishAttempt(status, reason, historyStart) ==
    /\ row' = FinishConversationCoverage(row, status, reason, historyStart, clock)
    /\ UNCHANGED <<segments, clock, lastSeen, turn>>

\* The status and reason pairs that runHistoryBackfillConnected passes.
FinishCall ==
    \/ \E h \in Time : FinishAttempt("source_exhausted", "empty_page", h)
    \/ \E h \in Time : FinishAttempt("source_exhausted", "no_older_messages", h)
    \/ \E r \in {"missing_cursor", "request_budget"} : FinishAttempt("partial", r, NoTime)
    \/ \E r \in {"error", "persistence_or_connection_error"} : FinishAttempt("failed", r, NoTime)

Tick ==
    /\ clock < MaxClock
    /\ clock' = clock + 1
    /\ UNCHANGED <<row, segments, lastSeen, turn>>

LedgerNext ==
    \/ Start
    \/ \E s, e \in Time : Page(s, e)
    \/ FinishCall
    \/ Tick

LedgerSpec == LedgerInit /\ [][LedgerNext]_ledger

-----------------------------------------------------------------------------

\* Types of the two tables and of the history variable.
LedgerTypeOK ==
    /\ row \in CoverageRow \cup {NoRow}
    /\ segments \subseteq Segment
    /\ clock \in Clock \ {0}
    /\ lastSeen \in [Time -> Clock]
    /\ turn \in 0 .. 1

Apart(g, h) == g.end < h.start \/ h.end < g.start

\* The segment table stays in normal form whatever order pages arrive in: two
\* stored segments never overlap or even touch, so adding up their lengths
\* never counts a millisecond twice and the (start, end) key never collides.
NormalForm == \A g, h \in segments : g = h \/ Apart(g, h)

\* verified_at is the weakest claim about its segment: every millisecond of
\* it was traversed then or later, however the segment was merged together.
WeakestClaim ==
    \A g \in segments : \A t \in Span(g) : lastSeen[t] >= g.verifiedAt

\* No traversed page is ever dropped from the table, and the table claims
\* nothing that was not traversed.
ClaimsWhatWasTraversed ==
    \A t \in Time : t \in Covered(segments) <=> lastSeen[t] # 0

\* The exhaustion proof keeps its date: whenever the row says source_exhausted
\* it carries a history start and a non-zero exhausted_at.
ExhaustedHasEvidence ==
    row # NoRow /\ row.status = "source_exhausted" =>
        /\ row.historyStart # NoTime
        /\ row.exhaustedAt # 0
        /\ row.reason \in {"empty_page", "no_older_messages"}

\* The two tables implement the abstract ledger.
Abstract == INSTANCE VerifiedHistory
    WITH covered   <- Covered(segments),
         certified <- row # NoRow /\ row.status = "source_exhausted"

ImplementsVerifiedHistory == Abstract!Spec
=============================================================================
