---------------------------- MODULE UnifiedServer ---------------------------
(***************************************************************************)
(* `gmcli archive unified serve`: the view of UnifiedArchive in memory     *)
(* (internal/viewer/unified.go), the sync requests that renew it           *)
(* (archiveSyncer, cmd/archive.go), the archives that exports replace      *)
(* under it, and a client that pages through a conversation.               *)
(*                                                                         *)
(* The step of a refresh is what it reads of one archive between two       *)
(* moments at which the archive may be replaced; of a request, one look at *)
(* the view under its read lock.                                           *)
(***************************************************************************)
EXTENDS UnifiedArchive

CONSTANTS
    Histories,            \* what exports put in place, one state of the disk after another
    Relays, Telephonies,  \* the directories given, in order, perhaps twice
    Startup,              \* the refresh with which the server starts
    Request,              \* POST /api/v1/sync
    Limit,                \* messages per page
    None

Job == {Startup} \cup Request

\* The messages of a state of the disk.
SourcesOf(disk) ==
    (UNION {{Source(Relay, d, "message", m.id) : m \in disk.relay[d].messages} : d \in ToSet(Relays)})
    \cup (UNION {{Source(Telephony, d, row.type, row.id) : row \in disk.telephony[d].rows}
                    : d \in ToSet(Telephonies)})

AllSources == UNION {UNION {SourcesOf(h[i]) : i \in 1 .. Len(h)} : h \in Histories}

\* A relay archive has a message ID once (the primary key of messages), and a
\* Telephony archive a row of its provider (_id).
ASSUME HistoriesAssumption ==
    \A h \in Histories :
        /\ Len(h) \in Nat \ {0}
        /\ \A i \in 1 .. Len(h) :
              /\ \A d \in ToSet(Relays) :
                    LET messages == h[i].relay[d].messages IN
                    /\ IsFiniteSet(messages) /\ IsFiniteSet(h[i].relay[d].me)
                    /\ \A m \in messages : m.ts \in Int
                    /\ \A m, n \in messages : m.id = n.id => m = n
              /\ \A d \in ToSet(Telephonies) :
                    LET rows == h[i].telephony[d].rows IN
                    /\ IsFiniteSet(rows)
                    /\ \A r \in rows : r.date \in Int
                    /\ \A r, s \in rows : r.type = s.type /\ r.id = s.id => r = s

\* No two messages have one hash.
ASSUME HashAssumption ==
    \A s, t \in AllSources : HashOrder(s) \in Int /\ (HashOrder(s) = HashOrder(t) => s = t)

\* OpenMany wants a directory of each kind, ListMessages a page of some length.
ASSUME ServerAssumption ==
    /\ Relays \in Seq(Int) \ {<<>>} /\ Telephonies \in Seq(Int) \ {<<>>}
    /\ Limit \in Nat \ {0}
    /\ Startup \notin Request /\ None \notin Job
    /\ None \notin Number /\ None \notin [ts : Int, id : AllSources]

VARIABLES
    history, now,    \* the disk is history[now]
    served,          \* Unified.dataset, with the moment its refresh began and whether
                     \* nothing was replaced until it had read everything
    lock,            \* who holds archiveSyncer.mu
    job,             \* the refresh of each job
    walk             \* the client

vars == <<history, now, served, lock, job, walk>>

Disk == history[now]

Idle == [pc |-> "idle", at |-> 1, self |-> None, people |-> <<>>, loaded |-> {},
         began |-> 0, clean |-> TRUE, due |-> 0]

NoWalk == [pc |-> "none", conv |-> None, newer |-> FALSE, cursor |-> None,
           got |-> <<>>, seen |-> {}, steady |-> {}]

Init ==
    /\ history \in Histories /\ now = 1
    /\ served = None
    /\ lock = None
    /\ job = [j \in Job |-> IF j = Startup THEN [Idle EXCEPT !.pc = "verifyRelay", !.began = 1]
                                           ELSE Idle]
    /\ walk = NoWalk

-----------------------------------------------------------------------------
(* OpenMany and Refresh.                                                   *)

\* The seen map: a directory counts once.
WithoutRepeats(dirs) ==
    LET first == {i \in DOMAIN dirs : \A k \in DOMAIN dirs : dirs[k] = dirs[i] => i <= k}
        order == InOrder(first, {ik \in first \X first : ik[1] < ik[2]})
    IN  [i \in DOMAIN order |-> dirs[order[i]]]

RelayDirs     == WithoutRepeats(Relays)
TelephonyDirs == WithoutRepeats(Telephonies)

\* Mutant: a sync that fails keeps the mutex.
KeepLockMutant(j, result) ==
    /\ job' = [job EXCEPT ![j] = [Idle EXCEPT !.pc = result]]
    /\ lock' = IF lock = j /\ result = "ok" THEN None ELSE lock

\* The job is over: what it had read is dropped and the mutex released.
End(j, result) ==
    /\ job' = [job EXCEPT ![j] = [Idle EXCEPT !.pc = result]]
    /\ lock' = IF lock = j THEN None ELSE lock

Fail(j) == End(j, "failed") /\ UNCHANGED <<history, now, served, walk>>

Continue(j, changed) ==
    /\ job' = [job EXCEPT ![j] = changed]
    /\ UNCHANGED <<history, now, served, lock, walk>>

\* On to the next directory of the round, or to the next round.
Proceed(j, dirs, again, next, changed) ==
    Continue(j, IF job[j].at < Len(dirs) THEN [changed EXCEPT !.pc = again, !.at = @ + 1]
                                         ELSE [changed EXCEPT !.pc = next, !.at = 1])

RelayDir(j)     == RelayDirs[job[j].at]
TelephonyDir(j) == TelephonyDirs[job[j].at]

\* archive.VerifyJSONL
VerifyRelay(j) ==
    /\ job[j].pc = "verifyRelay"
    /\ IF Disk.relay[RelayDir(j)].verified
       THEN Continue(j, [job[j] EXCEPT !.pc = "conversations"])
       ELSE Fail(j)

\* Mutant: archives of two phones are taken together.
AnyPhoneMutant(j) ==
    LET a    == Disk.relay[RelayDir(j)]
        mine == a.me \cap Number
    IN
    /\ job[j].pc = "conversations"
    /\ IF Cardinality(mine) = 1
       THEN Proceed(j, RelayDirs, "verifyRelay", "relayMessages",
                    [job[j] EXCEPT !.self   = CHOOSE n \in mine : TRUE,
                                   !.people = Append(@, a.people)])
       ELSE Fail(j)

\* The manifest and loadRelayConversations: one owner, everywhere the same.
LoadConversations(j) ==
    LET a    == Disk.relay[RelayDir(j)]
        mine == a.me \cap Number
    IN
    /\ job[j].pc = "conversations"
    /\ IF Cardinality(mine) = 1 /\ job[j].self \in mine \cup {None}
       THEN Proceed(j, RelayDirs, "verifyRelay", "relayMessages",
                    [job[j] EXCEPT !.self   = CHOOSE n \in mine : TRUE,
                                   !.people = Append(@, a.people)])
       ELSE Fail(j)

RelayRecords(dir, a, people, self) ==
    {RelayMessage(dir, people, m, self) : m \in {r \in a.messages : r.conv \in DOMAIN people}}

\* loadRelayMessages: the files of the conversations that the manifest listed.
LoadRelayMessages(j) ==
    LET a      == Disk.relay[RelayDir(j)]
        people == job[j].people[job[j].at]
    IN
    /\ job[j].pc = "relayMessages"
    /\ IF DOMAIN people \subseteq DOMAIN a.people
       THEN Proceed(j, RelayDirs, "relayMessages", "verifyTelephony",
                    [job[j] EXCEPT !.loaded =
                        @ \cup RelayRecords(RelayDir(j), a, people, job[j].self)])
       ELSE Fail(j)

\* androidtelephony.Verify
VerifyTelephony(j) ==
    /\ job[j].pc = "verifyTelephony"
    /\ IF Disk.telephony[TelephonyDir(j)].verified
       THEN Continue(j, [job[j] EXCEPT !.pc = "rows"])
       ELSE Fail(j)

TelephonyRecords(dir, a, self) ==
    {TelephonyMessage(dir, row, self) : row \in {r \in a.rows : HasMessage(r)}}

\* Mutant: each archive starts with no builds.
StartOverMutant(j) ==
    /\ job[j].pc = "rows"
    /\ Proceed(j, TelephonyDirs, "verifyTelephony", "swap",
               [job[j] EXCEPT !.loaded = TelephonyRecords(TelephonyDir(j),
                                  Disk.telephony[TelephonyDir(j)], job[j].self)])

LoadTelephonyMessages(j) ==
    /\ job[j].pc = "rows"
    /\ Proceed(j, TelephonyDirs, "verifyTelephony", "swap",
               [job[j] EXCEPT !.loaded = @ \cup TelephonyRecords(TelephonyDir(j),
                                  Disk.telephony[TelephonyDir(j)], job[j].self)])

\* A file does not open or decode, or a row lacks a column.
LoadFails(j) ==
    /\ job[j].pc \in {"conversations", "relayMessages", "rows"}
    /\ Fail(j)

\* What identifies a message to a client, and orders it.
Key(m) == [ts |-> m.ts, id |-> m.sources[1]]

\* The records that messages show, each with the key of its message.
Keyed(messages) == UNION {Sources(m) \X {Key(m)} : m \in messages}

KeyedIn(dataset, c) == IF c \in DOMAIN dataset THEN Keyed(ToSet(dataset[c])) ELSE {}

\* The conversations that the relay archives list.
RelayConversations(people, self) ==
    UNION {{CanonicalConversationID(CanonicalNumbers(people[i][c], self), <<Relay, RelayDirs[i], c>>)
               : c \in DOMAIN people[i]} : i \in DOMAIN people}

\* The merge, and the view replaced under its lock.  A sync then reports the
\* metadata of the view.
Swap(j) ==
    LET dataset == Dataset(RelayConversations(job[j].people, job[j].self), job[j].loaded) IN
    /\ job[j].pc = "swap"
    /\ served' = [dataset |-> dataset, began |-> job[j].began, clean |-> job[j].clean]
    /\ walk' = [walk EXCEPT !.steady = @ \cap KeyedIn(dataset, walk.conv)]
    /\ IF j = Startup THEN End(j, "ok")
       ELSE job' = [job EXCEPT ![j].pc = "metadata"] /\ UNCHANGED lock
    /\ UNCHANGED <<history, now>>

\* relayExportedAt fails, and the new view is dropped.
ExportedAtFails(j) == job[j].pc = "swap" /\ Fail(j)

-----------------------------------------------------------------------------
(* archiveSyncer.Sync and other exporters.                                 *)

\* Mutant: two syncs at once.
NoTryLockMutant(j) ==
    /\ served # None /\ job[j].pc = "idle"
    /\ job' = [job EXCEPT ![j].pc = "command"]
    /\ UNCHANGED <<history, now, served, lock, walk>>

\* TryLock, or 409.
Begin(j) ==
    /\ served # None /\ job[j].pc = "idle"
    /\ IF lock = None THEN lock' = j /\ job' = [job EXCEPT ![j].pc = "command"]
       ELSE UNCHANGED lock /\ job' = [job EXCEPT ![j].pc = "conflict"]
    /\ UNCHANGED <<history, now, served, walk>>

\* A refresh that is reading now reads two archives.
Torn(jobs) ==
    [k \in Job |-> IF jobs[k].pc \in {"idle", "command", "swap", "metadata"} THEN jobs[k]
                   ELSE [jobs[k] EXCEPT !.clean = FALSE]]

\* The next export is in place, unless there is none.
Exported == now' = IF now < Len(history) THEN now + 1 ELSE now

\* The sync and export commands have run; the refresh begins.
Command(j) ==
    /\ job[j].pc = "command"
    /\ Exported
    /\ LET jobs == IF now' = now THEN job ELSE Torn(job) IN
       job' = [jobs EXCEPT ![j].pc = "verifyRelay", ![j].began = now', ![j].due = now']
    /\ UNCHANGED <<history, served, lock, walk>>

\* One of them has failed, or the request was given up.
CommandFails(j) == job[j].pc = "command" /\ Fail(j)

\* Somebody else exports.
Export ==
    /\ now < Len(history)
    /\ Exported
    /\ job' = Torn(job)
    /\ UNCHANGED <<history, served, lock, walk>>

Metadata(j) ==
    /\ job[j].pc = "metadata"
    /\ End(j, "ok")
    /\ UNCHANGED <<history, now, served, walk>>

-----------------------------------------------------------------------------
(* ListMessages, for a client that goes to the oldest message by the before *)
(* cursors and back to the newest by the after cursors.                     *)

Less(k, l) == k.ts < l.ts \/ (k.ts = l.ts /\ HashOrder(k.id) < HashOrder(l.id))

\* The page before the cursor: sort.Search counts the messages below it.
PageBefore(ks, cursor) ==
    LET end == IF cursor = None THEN Len(ks)
               ELSE Cardinality({i \in DOMAIN ks : Less(ks[i], cursor)})
    IN  [first |-> IF end > Limit THEN end - Limit + 1 ELSE 1, last |-> end]

\* Mutant: the page starts one later.
SkipOneMutant(ks, cursor) ==
    LET start == Cardinality({i \in DOMAIN ks : ~Less(cursor, ks[i])}) + 1
    IN  [first |-> start + 1, last |-> IF start + Limit > Len(ks) THEN Len(ks) ELSE start + Limit]

PageAfter(ks, cursor) ==
    LET start == Cardinality({i \in DOMAIN ks : ~Less(cursor, ks[i])})
    IN  [first |-> start + 1, last |-> IF start + Limit > Len(ks) THEN Len(ks) ELSE start + Limit]

OpenConversation(c) ==
    /\ served # None /\ c \in DOMAIN served.dataset
    /\ walk.pc = "none"
    /\ walk' = [NoWalk EXCEPT !.pc = "check", !.conv = c, !.steady = KeyedIn(served.dataset, c)]
    /\ UNCHANGED <<history, now, served, lock, job>>

\* GetConversation looks at the view, then ListMessages does again.
GetConversation ==
    /\ walk.pc = "check"
    /\ walk' = [walk EXCEPT !.pc = IF walk.conv \in DOMAIN served.dataset THEN "list" ELSE "gone"]
    /\ UNCHANGED <<history, now, served, lock, job>>

ListMessages ==
    /\ walk.pc = "list"
    /\ IF walk.conv \notin DOMAIN served.dataset THEN walk' = [walk EXCEPT !.pc = "gone"]
       ELSE
       LET messages == served.dataset[walk.conv]
           ks   == [i \in DOMAIN messages |-> Key(messages[i])]
           page == IF walk.newer THEN PageAfter(ks, walk.cursor) ELSE PageBefore(ks, walk.cursor)
           part == SubSeq(ks, page.first, page.last)
           more == IF walk.newer THEN page.last < Len(ks) ELSE page.first > 1
           got  == IF walk.newer THEN walk.got \o part ELSE part \o walk.got
       IN  walk' = [walk EXCEPT
               !.got    = got,
               !.seen   = @ \cup Keyed(ToSet(SubSeq(messages, page.first, page.last))),
               !.cursor = IF part = <<>> THEN @ ELSE IF walk.newer THEN Last(part) ELSE Head(part),
               !.pc     = IF more /\ part # <<>> THEN "check"
                          ELSE IF walk.newer THEN "newest" ELSE "oldest"]
    /\ UNCHANGED <<history, now, served, lock, job>>

\* From the oldest message back.
TurnBack ==
    /\ walk.pc = "oldest" /\ walk.got # <<>>
    /\ walk' = [walk EXCEPT !.pc = "check", !.newer = TRUE,
                            !.got = <<Head(walk.got)>>, !.cursor = Head(walk.got),
                            !.seen = {},
                            !.steady = {p \in KeyedIn(served.dataset, walk.conv) :
                                           Less(Head(walk.got), p[2])}]
    /\ UNCHANGED <<history, now, served, lock, job>>

Refresh(j) ==
    \/ VerifyRelay(j) \/ LoadConversations(j) \/ LoadRelayMessages(j)
    \/ VerifyTelephony(j) \/ LoadTelephonyMessages(j) \/ LoadFails(j)
    \/ Swap(j) \/ ExportedAtFails(j)

Sync(j) == Begin(j) \/ Command(j) \/ CommandFails(j) \/ Metadata(j)

Browse ==
    \/ \E c \in IF served = None THEN {} ELSE DOMAIN served.dataset : OpenConversation(c)
    \/ GetConversation \/ ListMessages \/ TurnBack

Next ==
    \/ \E j \in Job : Refresh(j)
    \/ \E j \in Request : Sync(j)
    \/ Export \/ Browse

Spec == Init /\ [][Next]_vars

-----------------------------------------------------------------------------
(* Properties.                                                             *)

\* The state has its type, and the mutex is held by the sync that runs.
TypeOK ==
    /\ now \in 1 .. Len(history)
    /\ served = None \/ served.began \in 1 .. now
    /\ \A j \in Request :
          lock = j <=> job[j].pc \notin {"idle", "ok", "failed", "conflict"}
    /\ walk.pc \in {"none", "check", "list", "oldest", "newest", "gone"}

\* The records of a state of the disk.
Records(disk) ==
    LET owner == CHOOSE n \in disk.relay[RelayDirs[1]].me \cap Number : TRUE IN
    (UNION {RelayRecords(d, disk.relay[d], disk.relay[d].people, owner) : d \in ToSet(Relays)})
    \cup (UNION {TelephonyRecords(d, disk.telephony[d], owner) : d \in ToSet(Telephonies)})

Quiet == served # None /\ served.clean

\* The view has every record of the archives once (unified.go:258 calls a
\* message deduplicated and source-attributed), whatever order they come in.
NothingLostNorTwice == Quiet => EachRecordOnce(served.dataset, Records(history[served.began]))

\* Only records of one conversation, direction and text, close in time and of
\* different archives, are taken for one message, so that a short answer given
\* twice stays two.
OnlyTheSameMerge == Quiet => RecordsOfAMessageAgree(served.dataset, Records(history[served.began]))

\* A message that two archives hold, each with its own clock, is shown once if
\* no third record could be meant.
SeenByBothIsOne == Quiet => UnmistakablePairIsOne(served.dataset, Records(history[served.began]))

\* The relay archives of a view are of one owner, though some of them were
\* replaced while it was read; if none was, each archive has verified.  The code
\* does not ask whose a Telephony archive is (unified.go:112-131).
ServedIsOfOneOwner ==
    /\ served # None =>
          \E owner \in Number : \A d \in ToSet(Relays) : \E i \in served.began .. now :
              history[i].relay[d].me \cap Number = {owner}
    /\ Quiet => LET disk == history[served.began] IN
                /\ \A d \in ToSet(Relays)      : disk.relay[d].verified
                /\ \A d \in ToSet(Telephonies) : disk.telephony[d].verified

\* Going through a conversation page by page, in either direction, shows the
\* messages in order, and each record that was in the view all along, in a
\* message of one timestamp and one first record, once and in that message,
\* though views are replaced between two pages (unified.go:212) and other
\* records join the message.  A record whose message takes another timestamp or
\* first record meanwhile may be shown twice or passed over.
PagesShowEachOnce ==
    /\ \A i \in 1 .. Len(walk.got) - 1 : Less(walk.got[i], walk.got[i + 1])
    /\ \A p \in walk.steady, q \in walk.seen : p[1] = q[1] => p = q
    /\ walk.pc \in {"oldest", "newest"} => walk.steady \subseteq walk.seen

\* A sync that succeeds reports, and leaves behind, a view no older than the
\* export it made: a slower refresh does not overwrite it.
SyncIsServed == \A j \in Request : job[j].pc = "metadata" => served.began >= job[j].due

=============================================================================
