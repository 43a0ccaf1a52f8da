--------------------------- MODULE HistoryBackfill ---------------------------
(***************************************************************************)
(* `gmcli history backfill` on one conversation (cmd/history.go), writing  *)
(* the message table and the coverage tables while live events, a sync     *)
(* process and other backfills write them too.                             *)
(*                                                                         *)
(* Messages are numbered in the relay's order, oldest first; Ts gives the  *)
(* timestamp of each in normalized milliseconds (0: the record carries     *)
(* none).  A cursor is the message it names, or NoCursor.                  *)
(*                                                                         *)
(* A pass is a process p with a program counter; every database            *)
(* transaction and every network call is one step, the local computation   *)
(* that follows it is part of the same step, and a pass may die between    *)
(* any two steps.                                                          *)
(***************************************************************************)
EXTENDS CoverageStore

CONSTANTS MaxMessage,  \* messages the relay will ever hold
          Ts,          \* timestamp of each message
          MaxTs,       \* largest timestamp
          PageSize,    \* --count: messages one FetchMessages asks for
          Requests,    \* --requests: FetchMessages calls of one pass
          Pass         \* concurrent backfill passes

Message  == 1 .. MaxMessage
NoCursor == 0
Cursor   == Message \cup {NoCursor}

ASSUME BoundsAssumption ==
    /\ MaxMessage \in Nat /\ MaxTs \in Nat
    /\ PageSize \in Nat \ {0} /\ Requests \in Nat \ {0}
    /\ MaxTime = MaxTs + 1 /\ MaxClock = 1
ASSUME TsAssumption ==
    /\ Ts \in [Message -> 0 .. MaxTs]
    /\ \A m, n \in Message : m <= n => Ts[m] <= Ts[n]

VARIABLES
    newest,    \* the relay holds messages 1 .. newest
    known,     \* the conversations row exists
    archived,  \* the messages rows of the conversation
    pc, cursor, page, pending, next, left, verdict,  \* locals of each pass
    fatal      \* an error waits in the pump's one-slot channel

store == <<known, archived, row, segments>>
locals == <<cursor, page, pending, next, left, verdict>>
vars == <<newest, store, pc, locals, fatal>>

Control == {"idle", "start", "oldest", "fetch", "import", "record", "finish"}

NoVerdict == [status |-> "in_progress", reason |-> "", historyStart |-> NoTime]

Verdict(status, reason, historyStart) ==
    [status |-> status, reason |-> reason, historyStart |-> historyStart]

Init ==
    /\ newest = 0
    /\ known = FALSE
    /\ archived = {}
    /\ row = NoRow
    /\ segments = {}
    /\ pc = [p \in Pass |-> "idle"]
    /\ cursor = [p \in Pass |-> NoCursor]
    /\ page = [p \in Pass |-> {}]
    /\ pending = [p \in Pass |-> {}]
    /\ next = [p \in Pass |-> NoCursor]
    /\ left = [p \in Pass |-> 0]
    /\ verdict = [p \in Pass |-> NoVerdict]
    /\ fatal = [p \in Pass |-> FALSE]

-----------------------------------------------------------------------------
(* The relay and the phone behind it: external code.                       *)

\* A response without a cursor argument is the newest page.  With one, the
\* page reaches back from just below the named message, or includes that
\* message itself.  A page is contiguous, it is as short as the phone likes,
\* and it is empty, or brings nothing older, only when nothing older exists.
Pages(c) ==
    LET top == IF c = NoCursor THEN newest ELSE c - 1
    IN  IF top = 0
        THEN {{}} \cup {{m} : m \in {c} \ {NoCursor}}
        ELSE {lo .. top : lo \in {m \in 1 .. top : top - m < PageSize}} \cup
             {lo .. c : lo \in {m \in 1 .. top : c # NoCursor /\ c - m <= PageSize}}

\* The cursor of a response: none, the oldest message of the page, or the
\* cursor of the request repeated.
NextCursors(c, messages) ==
    {NoCursor, c} \cup (IF messages = {} THEN {} ELSE {Min(messages)})

\* A message reaches the relay.
Arrive ==
    /\ newest < MaxMessage
    /\ newest' = newest + 1
    /\ UNCHANGED <<store, pc, locals, fatal>>

-----------------------------------------------------------------------------
(* Pump.Handle and the other writers of the message table.                 *)

\* UpsertMessage succeeds: a live event, an update of an old message (status,
\* reaction), or a row another gmcli process imports.
Persist(m) ==
    /\ archived' = archived \cup {m}
    /\ known' = TRUE

LiveMessage ==
    \E m \in 1 .. newest :
        /\ Persist(m)
        /\ UNCHANGED <<newest, row, segments, pc, locals, fatal>>

\* A live event this pass's pump could not store, a logged-out phone or a
\* fatal listen error: fail() fills the channel, or drops the error when one
\* is already waiting.
PumpFails(p) ==
    /\ pc[p] # "idle"
    /\ fatal' = [fatal EXCEPT ![p] = TRUE]
    /\ UNCHANGED <<newest, store, pc, locals>>

-----------------------------------------------------------------------------
(* runHistoryBackfillConnected.                                            *)

\* Mutant: the comparison points the other way.
MovesForwardMutant(c, n) ==
    /\ n # NoCursor
    /\ IF c = NoCursor THEN Ts[n] > 0
       ELSE Ts[n] > Ts[c] \/ (Ts[n] = Ts[c] /\ n # c)

\* A cursor names something older, or something else of the same millisecond.
CursorMovesBackward(c, n) ==
    /\ n # NoCursor
    /\ IF c = NoCursor THEN Ts[n] > 0
       ELSE Ts[n] < Ts[c] \/ (Ts[n] = Ts[c] /\ n # c)

Stamped(messages) == {m \in messages : Ts[m] > 0}

\* oldestMessageCursor: of several oldest messages it names one, whichever
\* comes last in the response.
OldestMessageCursor(messages) ==
    IF Stamped(messages) = {} THEN {NoCursor}
    ELSE {m \in Stamped(messages) : \A n \in Stamped(messages) : Ts[m] <= Ts[n]}

\* Mutant: the lower bound is exclusive as well.
RoundedOutMutant(messages, c) ==
    IF Stamped(messages) = {} THEN {}
    ELSE LET stamps == {Ts[m] : m \in Stamped(messages)}
         IN  {<<Min(stamps) - 1, Max(stamps) + 1>>}

\* historyPageBounds, as a set that holds one interval or none.
HistoryPageBounds(messages, c) ==
    IF Stamped(messages) = {} THEN {}
    ELSE LET stamps == {Ts[m] : m \in Stamped(messages)}
             ends   == {Max(stamps) + 1} \cup
                           (IF c = NoCursor THEN {} ELSE {Ts[c] + 1})
         IN  {<<Min(stamps), Max(ends)>>}

\* Mutant: ORDER BY timestamp_ms DESC.
NewestArchivedMutant ==
    IF archived = {} THEN {NoCursor}
    ELSE {m \in archived : \A n \in archived : Ts[n] <= Ts[m]}

\* oldestCursor: ORDER BY timestamp_ms names any one of the oldest rows.
OldestArchived ==
    IF archived = {} THEN {NoCursor}
    ELSE {m \in archived : \A n \in archived : Ts[m] <= Ts[n]}

Goto(p, where) == pc' = [pc EXCEPT ![p] = where]

Conclude(p, v) ==
    /\ Goto(p, "finish")
    /\ verdict' = [verdict EXCEPT ![p] = v]

\* The locals of a pass that has returned.
Forget(p) ==
    /\ Goto(p, "idle")
    /\ cursor' = [cursor EXCEPT ![p] = NoCursor]
    /\ page' = [page EXCEPT ![p] = {}]
    /\ pending' = [pending EXCEPT ![p] = {}]
    /\ next' = [next EXCEPT ![p] = NoCursor]
    /\ left' = [left EXCEPT ![p] = 0]
    /\ verdict' = [verdict EXCEPT ![p] = NoVerdict]
    /\ fatal' = [fatal EXCEPT ![p] = FALSE]

\* GetConversation.  An answer is stored by pump.Handle, which may fail into
\* the channel; without an answer the conversation must be known already.
\* backfill-all shares one pump, so an error that an earlier conversation
\* left in the channel may still be there.
Begin(p) ==
    /\ pc[p] = "idle"
    /\ \E leftover, answered, stored \in BOOLEAN :
          /\ answered \/ known
          /\ known' = (known \/ (answered /\ stored))
          /\ fatal' = [fatal EXCEPT ![p] = leftover \/ (answered /\ ~stored)]
    /\ left' = [left EXCEPT ![p] = Requests]
    /\ Goto(p, "start")
    /\ UNCHANGED <<newest, archived, row, segments, cursor, page, pending, next, verdict>>

StartCoverage(p) ==
    /\ pc[p] = "start"
    /\ known
    /\ row' = StartConversationCoverage(row)
    /\ Goto(p, "oldest")
    /\ UNCHANGED <<newest, known, archived, segments, locals, fatal>>

\* A coverage row of an unknown conversation breaks its foreign key.
StartCoverageFails(p) ==
    /\ pc[p] = "start"
    /\ ~known
    /\ Forget(p)
    /\ UNCHANGED <<newest, store>>

ReadOldest(p) ==
    /\ pc[p] = "oldest"
    /\ \E c \in OldestArchived : cursor' = [cursor EXCEPT ![p] = c]
    /\ Goto(p, "fetch")
    /\ UNCHANGED <<newest, store, page, pending, next, left, verdict, fatal>>

FetchPage(p) ==
    /\ pc[p] = "fetch"
    /\ \E messages \in Pages(cursor[p]) :
       \E n \in NextCursors(cursor[p], messages) :
          /\ page' = [page EXCEPT ![p] = messages]
          /\ pending' = [pending EXCEPT ![p] = messages]
          /\ next' = [next EXCEPT ![p] = n]
    /\ left' = [left EXCEPT ![p] = @ - 1]
    /\ Goto(p, "import")
    /\ UNCHANGED <<newest, store, cursor, verdict, fatal>>

FetchFails(p) ==
    /\ pc[p] = "fetch"
    /\ Conclude(p, Verdict("failed", "error", NoTime))
    /\ UNCHANGED <<newest, store, cursor, page, pending, next, left, fatal>>

\* ImportMessages, one UpsertMessage at a time; an error goes to the channel
\* and the loop continues.
ImportMessage(p) ==
    /\ pc[p] = "import"
    /\ \E m \in pending[p] :
          /\ pending' = [pending EXCEPT ![p] = @ \ {m}]
          /\ \/ Persist(m) /\ UNCHANGED fatal
             \/ /\ fatal' = [fatal EXCEPT ![p] = TRUE]
                /\ UNCHANGED <<known, archived>>
    /\ UNCHANGED <<newest, row, segments, pc, cursor, page, next, left, verdict>>

\* Mutant: the channel is not looked at.
NoFatalCheckMutant(p) ==
    /\ pc[p] = "import"
    /\ pending[p] = {}
    /\ Goto(p, "record")
    /\ UNCHANGED <<newest, store, locals, fatal>>

\* The select on pump.Fatal(): takes the waiting error, or goes on.
CheckFatal(p) ==
    /\ pc[p] = "import"
    /\ pending[p] = {}
    /\ fatal' = [fatal EXCEPT ![p] = FALSE]
    /\ IF fatal[p]
       THEN Conclude(p, Verdict("failed", "persistence_or_connection_error", NoTime))
       ELSE Goto(p, "record") /\ UNCHANGED verdict
    /\ UNCHANGED <<newest, store, cursor, page, pending, next, left>>

\* An empty page proves the history back to its beginning.
RecordEmptyPage(p) ==
    LET c == cursor[p]
        h == IF c = NoCursor THEN 0 ELSE Ts[c]
    IN  /\ pc[p] = "record"
        /\ page[p] = {}
        /\ IF h > 0
           THEN /\ segments' = RecordSegment(segments, 0, h + 1, 1)
                /\ row' = RecordRow(row)
           ELSE UNCHANGED <<row, segments>>
        /\ Conclude(p, Verdict("source_exhausted", "empty_page", h))
        /\ UNCHANGED <<newest, known, archived, cursor, page, pending, next, left, fatal>>

\* Where the loop goes after a page: on to an older cursor, or to an end.
Advance(p, c, n) ==
    IF c # NoCursor /\ ~CursorMovesBackward(c, n)
    THEN /\ Conclude(p, Verdict("source_exhausted", "no_older_messages", Ts[c]))
         /\ UNCHANGED cursor
    ELSE IF n = NoCursor
    THEN /\ Conclude(p, Verdict("partial", "missing_cursor", NoTime))
         /\ UNCHANGED cursor
    ELSE /\ cursor' = [cursor EXCEPT ![p] = n]
         /\ IF left[p] = 0
            THEN Conclude(p, Verdict("partial", "request_budget", NoTime))
            ELSE Goto(p, "fetch") /\ UNCHANGED verdict

RecordPage(p) ==
    LET c == cursor[p]
        bounds == HistoryPageBounds(page[p], c)
    IN  /\ pc[p] = "record"
        /\ page[p] # {}
        /\ IF bounds = {}
           THEN UNCHANGED <<row, segments>>
           ELSE \E b \in bounds :
                   /\ segments' = RecordSegment(segments, b[1], b[2], 1)
                   /\ row' = RecordRow(row)
        /\ \E n \in IF CursorMovesBackward(c, next[p]) THEN {next[p]}
                    ELSE OldestMessageCursor(page[p]) :
              Advance(p, c, n)
        /\ UNCHANGED <<newest, known, archived, page, pending, next, left, fatal>>

Finish(p) ==
    LET v == verdict[p]
    IN  /\ pc[p] = "finish"
        /\ row' = FinishConversationCoverage(row, v.status, v.reason, v.historyStart, 1)
        /\ Forget(p)
        /\ UNCHANGED <<newest, known, archived, segments>>

\* The process dies, is interrupted, or a store call returns an error.
Abandon(p) ==
    /\ pc[p] # "idle"
    /\ Forget(p)
    /\ UNCHANGED <<newest, store>>

PassStep(p) ==
    \/ StartCoverage(p) \/ StartCoverageFails(p) \/ ReadOldest(p)
    \/ FetchPage(p) \/ FetchFails(p) \/ ImportMessage(p) \/ CheckFatal(p)
    \/ RecordEmptyPage(p) \/ RecordPage(p) \/ Finish(p)

Next ==
    \/ Arrive
    \/ LiveMessage
    \/ \E p \in Pass : Begin(p) \/ PassStep(p) \/ PumpFails(p) \/ Abandon(p)

Spec == Init /\ [][Next]_vars

\* The operator (or the supervisor of `backfill-all`) reruns passes, and a
\* running pass is a thread of a live process.
FairSpec == Spec /\ \A p \in Pass : WF_vars(Begin(p)) /\ WF_vars(PassStep(p))

-----------------------------------------------------------------------------

\* Types of the tables and of the locals of a pass.
TypeOK ==
    /\ newest \in 0 .. MaxMessage
    /\ known \in BOOLEAN
    /\ archived \subseteq 1 .. newest
    /\ row \in CoverageRow \cup {NoRow}
    /\ segments \subseteq Segment
    /\ pc \in [Pass -> Control]
    /\ cursor \in [Pass -> Cursor]
    /\ page \in [Pass -> SUBSET Message]
    /\ pending \in [Pass -> SUBSET Message]
    /\ next \in [Pass -> Cursor]
    /\ left \in [Pass -> 0 .. Requests]
    /\ verdict \in [Pass -> [status : CoverageStatus, reason : TerminalReason,
                             historyStart : Time \cup {NoTime}]]
    /\ fatal \in [Pass -> BOOLEAN]

Exhausted == row # NoRow /\ row.status = "source_exhausted"

\* Coverage is evidence: of each claimed millisecond in which the relay holds
\* messages one is in the archive, so all that have theirs to themselves,
\* whatever failed, raced or died while it was recorded.  Of several messages of
\* one millisecond a page may bring a part, and claims it (history.go:470).
CoverageSound ==
    \A m \in 1 .. newest : Ts[m] \in Covered(segments) => \E n \in archived : Ts[n] = Ts[m]

\* The recorded beginning of history is real, unless several messages are of
\* that very millisecond: no message that the relay holds and that has a
\* timestamp at or before history_start_ms is missing from the archive.
HistoryStartSound ==
    LET h == row.historyStart IN
    /\ row # NoRow /\ h # NoTime
    /\ \A m, n \in 1 .. newest : Ts[m] = h /\ Ts[n] = h => m = n
    => \A m \in 1 .. newest : Ts[m] \in 1 .. h => m \in archived

WithdrawnByPage ==
    Exhausted /\ ~Exhausted' =>
        \E p \in Pass : /\ pc[p] = "record" /\ pc'[p] \in {"fetch", "finish"}
                        /\ page[p] \subseteq archived

\* An exhaustion proof is withdrawn only by a page that a pass traversed
\* without an error, never by a start, a failed recheck or a crash.  An empty
\* page is one of them: it withdraws the proof that Finish then restores.
OnlyAPageWithdrawsExhaustion == [][WithdrawnByPage]_vars

\* `coverage verify` is documented as the completeness gate, and it accepts a
\* conversation that is exhausted: at the step that makes it so, no message of
\* the relay is missing between two archived ones.
NoHoleWhenCertified ==
    [][~Exhausted /\ Exhausted' =>
          \A l, n \in archived : l .. n \subseteq archived]_vars

\* A step in which nothing fails and no pass dies.
Healthy ==
    \A p \in Pass : /\ ~fatal'[p]
                    /\ verdict'[p].status # "failed"
                    /\ (pc[p] # "idle" /\ pc'[p] = "idle") => Finish(p)

\* Budgeted passes converge: if failures cease, rerunning `history backfill`
\* archives the oldest message the relay holds, however small the budget.
ReachesTheBeginning ==
    <>[][Healthy]_vars => (newest = MaxMessage ~> 1 \in archived)
=============================================================================
