---------------------------- MODULE CoverageStore ----------------------------
(***************************************************************************)
(* The per-conversation half of internal/store/coverage.go: the two tables *)
(* it writes, and its methods as operators on them:                        *)
(*                                                                         *)
(*   conversation_coverage           one row, or NoRow                     *)
(*   conversation_coverage_segments  a set of half-open intervals          *)
(*                                   [start, end) with verified_at         *)
(*                                                                         *)
(* Every store method is one SQL statement or one transaction, so each     *)
(* operator below is one atomic step of the modules that use it.  The      *)
(* bookkeeping columns (last_attempt_ts, last_success_ts, last_error,      *)
(* last_requests, last_records_fetched, updated_at) only feed reports and  *)
(* are left out.                                                           *)
(*                                                                         *)
(* Here and in the other modules a definition named ...Mutant is not used  *)
(* by the model: it is the definition after it with a plausible bug, kept  *)
(* so that every property can be shown to notice one.                      *)
(***************************************************************************)
EXTENDS Naturals, FiniteSetsExt

CONSTANTS NoRow,     \* there is no conversation_coverage row
          NoTime,    \* SQL NULL in history_start_ms
          MaxTime,   \* largest end of a page, in history milliseconds
          MaxClock   \* bound on the wall clock

Time  == 0 .. MaxTime
Clock == 0 .. MaxClock

ASSUME LimitsAssumption == MaxTime \in Nat /\ MaxClock \in Nat \ {0}

CoverageStatus == {"in_progress", "partial", "source_exhausted", "failed"}

TerminalReason == {"", "empty_page", "no_older_messages", "missing_cursor",
                   "request_budget", "error", "persistence_or_connection_error"}

CoverageRow ==
    [status : CoverageStatus, reason : TerminalReason,
     historyStart : Time \cup {NoTime}, exhaustedAt : Clock]

Segment ==
    {g \in [start : Time, end : Time, verifiedAt : Clock] : g.start < g.end}

ASSUME NullAssumption == NoRow \notin CoverageRow /\ NoTime \notin Time

VARIABLES row, segments    \* the two tables

\* Milliseconds a segment claims, and those a whole table claims.
Span(g)    == g.start .. (g.end - 1)
Covered(S) == UNION {Span(g) : g \in S}

-----------------------------------------------------------------------------

\* Mutant: a new attempt forgets an earlier exhaustion.
StartAfreshMutant(r) ==
    IF r = NoRow
    THEN [status |-> "in_progress", reason |-> "",
          historyStart |-> NoTime, exhaustedAt |-> 0]
    ELSE [r EXCEPT !.status = "in_progress", !.reason = ""]

\* A first attempt inserts the row; a later one keeps an exhaustion proof.
StartConversationCoverage(r) ==
    IF r = NoRow
    THEN [status |-> "in_progress", reason |-> "",
          historyStart |-> NoTime, exhaustedAt |-> 0]
    ELSE IF r.status = "source_exhausted"
    THEN r
    ELSE [r EXCEPT !.status = "in_progress", !.reason = ""]

\* Mutant: strict comparisons miss segments that only touch the page.
OverlapOnlyMutant(S, s, e) == {g \in S : g.start < e /\ g.end > s}

\* The rows RecordConversationCoveragePage reads and deletes: overlapping or
\* touching the half-open interval [s, e).
Touching(S, s, e) == {g \in S : g.start <= e /\ g.end >= s}

\* Mutant: the merged segment is dated by its newest part.
FreshMergeMutant(S, s, e, now) ==
    LET old == Touching(S, s, e)
    IN  [start      |-> Min({s} \cup {g.start : g \in old}),
         end        |-> Max({e} \cup {g.end : g \in old}),
         verifiedAt |-> now]

\* Mutant: the merged segment ends where the page ends.
ShortMergeMutant(S, s, e, now) ==
    LET old == Touching(S, s, e)
    IN  [start      |-> Min({s} \cup {g.start : g \in old}),
         end        |-> e,
         verifiedAt |-> Min({now} \cup {g.verifiedAt : g \in old})]

\* The union of the page and what it touches, dated by its oldest part.
Merged(S, s, e, now) ==
    LET old == Touching(S, s, e)
    IN  [start      |-> Min({s} \cup {g.start : g \in old}),
         end        |-> Max({e} \cup {g.end : g \in old}),
         verifiedAt |-> Min({now} \cup {g.verifiedAt : g \in old})]

RecordSegment(S, s, e, now) ==
    (S \ Touching(S, s, e)) \cup {Merged(S, s, e, now)}

\* A page that was traversed always demotes the row to partial; a missing row
\* is not created (UPDATE matches nothing).
RecordRow(r) ==
    IF r = NoRow THEN r ELSE [r EXCEPT !.status = "partial"]

\* A recheck that fails or stops early keeps an earlier exhaustion; only the
\* history start (COALESCE) and exhausted_at survive from call to call.
FinishConversationCoverage(r, status, reason, historyStart, now) ==
    IF r = NoRow THEN r
    ELSE LET keep == r.status = "source_exhausted"
                       /\ status # "source_exhausted"
         IN  [status       |-> IF keep THEN r.status ELSE status,
              reason       |-> IF keep THEN r.reason ELSE reason,
              historyStart |-> IF historyStart = NoTime
                               THEN r.historyStart ELSE historyStart,
              exhaustedAt  |-> IF status = "source_exhausted"
                               THEN now ELSE r.exhaustedAt]
=============================================================================
