----------------------------- MODULE FolderSync ------------------------------
(***************************************************************************)
(* `gmcli sync` discovering conversations folder by folder                 *)
(* (runInitialSync, cmd/sync.go) and the folder_coverage table it keeps.   *)
(* CoverageGate adds the command that reads the table.                     *)
(*                                                                         *)
(* A page cursor is the number of conversations of the folder's listing    *)
(* that earlier pages returned.                                            *)
(***************************************************************************)
EXTENDS Naturals, Sequences, SequencesExt

CONSTANTS Conv,       \* conversations
          Folders,    \* the folders to discover, in order
          Listing,    \* the relay's listing of each folder
          Limit,      \* --conversation-limit
          MaxPages,   \* maxConversationPages
          NoCursor, Opaque   \* no cursor; one this protocol version cannot use

Folder == ToSet(Folders)

ASSUME FoldersAssumption == Folders \in Seq(Folder) /\ Folders # <<>>
ASSUME ListingAssumption == Listing \in [Folder -> Seq(Conv)]
ASSUME LimitAssumption == Limit \in Nat \ {0} /\ MaxPages \in Nat \ {0}
ASSUME CursorAssumption == NoCursor # Opaque /\ {NoCursor, Opaque} \cap Nat = {}

FolderStatus == {"missing", "in_progress", "partial", "complete", "failed"}

VARIABLES
    conversations,                \* rows of the conversations table
    coverage,                     \* folder_coverage status
    pc, folder,                   \* sync: control, index into Folders
    page, cursor, firstSize,      \* the paging loop
    pending, size, next,          \* conversations of the page to persist
    verdict, errors, fatal,       \* ending of the folder, syncErrors, channel
    result,                       \* how the last sync ended
    seen                          \* history: handed out since the folder's start

store   == <<conversations, coverage>>
loop    == <<page, cursor, firstSize, pending, size, next, verdict>>
sync    == <<folder, loop, errors, fatal, result, seen>>
vars    == <<store, pc, sync>>

Control == {"idle", "start", "list", "persist", "record", "finish", "recent", "following"}

Init ==
    /\ conversations = {}
    /\ coverage = [f \in Folder |-> "missing"]
    /\ pc = "idle" /\ folder = 1
    /\ page = 1 /\ cursor = 0 /\ firstSize = 0 /\ verdict = "partial"
    /\ pending = {} /\ size = 0 /\ next = NoCursor
    /\ errors = FALSE /\ fatal = FALSE
    /\ result = "none"
    /\ seen = [f \in Folder |-> {}]

Current == Folders[folder]

-----------------------------------------------------------------------------
(* runInitialSync.                                                         *)

\* The locals of the paging loop, before its first page.
NewLoop ==
    /\ page' = 1 /\ cursor' = 0 /\ firstSize' = 0 /\ verdict' = "partial"
    /\ pending' = {} /\ size' = 0 /\ next' = NoCursor

\* The command is over, and its locals with it.
Exit ==
    /\ pc' = "idle" /\ folder' = 1 /\ NewLoop
    /\ errors' = FALSE /\ fatal' = FALSE

\* ListContacts may fail; the sync goes on and reports it at the end.
Begin ==
    /\ pc = "idle"
    /\ pc' = "start"
    /\ errors' \in BOOLEAN
    /\ result' = "none"
    /\ UNCHANGED <<store, folder, loop, fatal, seen>>

\* Mutant: a new attempt leaves the old status standing.
KeepStatusMutant ==
    /\ pc = "start"
    /\ coverage' = [coverage EXCEPT ![Current] = IF @ = "missing" THEN "in_progress" ELSE @]
    /\ pc' = "list"
    /\ NewLoop
    /\ seen' = [seen EXCEPT ![Current] = {}]
    /\ UNCHANGED <<conversations, folder, errors, fatal, result>>

StartFolder ==
    /\ pc = "start"
    /\ coverage' = [coverage EXCEPT ![Current] = "in_progress"]
    /\ pc' = "list"
    /\ NewLoop
    /\ seen' = [seen EXCEPT ![Current] = {}]
    /\ UNCHANGED <<conversations, folder, errors, fatal, result>>

\* The relay's answer: the next Limit conversations.  The cursor it adds leads
\* on, repeats the request's, is opaque bytes, or is absent, which it is only
\* at the end of the listing.
ListPage ==
    /\ pc = "list"
    /\ LET total == Len(Listing[Current])
           end   == IF cursor + Limit < total THEN cursor + Limit ELSE total
           items == {Listing[Current][i] : i \in cursor + 1 .. end}
       IN  /\ pending' = items
           /\ size' = end - cursor
           /\ seen' = [seen EXCEPT ![Current] = @ \cup items]
           /\ \/ next' \in {end, Opaque}
              \/ cursor # 0 /\ next' = cursor
              \/ end = total /\ next' = NoCursor
    /\ pc' = "persist"
    /\ UNCHANGED <<store, folder, page, cursor, firstSize, verdict, errors, fatal, result>>

\* No answer before the timeout, or an error.
ListFails ==
    /\ pc = "list"
    /\ verdict' = "failed"
    /\ pc' = "finish"
    /\ UNCHANGED <<store, folder, page, cursor, firstSize, pending, size, next, errors, fatal, result, seen>>

\* pump.Handle: an error goes to the channel, and the loop does not look.
Persist ==
    /\ pc = "persist"
    /\ \E c \in pending :
          /\ pending' = pending \ {c}
          /\ \/ conversations' = conversations \cup {c} /\ UNCHANGED fatal
             \/ fatal' = TRUE /\ UNCHANGED conversations
    /\ UNCHANGED <<coverage, pc, folder, page, cursor, firstSize, size, next, verdict, errors, result, seen>>

RecordFolderCoveragePage ==
    /\ pc = "persist"
    /\ pending = {}
    /\ coverage' = [coverage EXCEPT ![Current] = "partial"]
    /\ firstSize' = IF page = 1 THEN size ELSE firstSize
    /\ pc' = "record"
    /\ UNCHANGED <<conversations, folder, page, cursor, pending, size, next, verdict, errors, fatal, result, seen>>

\* How the loop judges a page: short_page, opaque_cursor, no_cursor,
\* empty_page, same_cursor, page_budget, or on to the next page.
Judgement ==
    IF page > 1 /\ size < firstSize THEN "complete"
    ELSE IF next = Opaque THEN "partial"
    ELSE IF next = NoCursor \/ size = 0 THEN "complete"
    ELSE IF next = cursor \/ page = MaxPages THEN "partial"
    ELSE "more"

NextPage ==
    /\ pc = "record"
    /\ IF Judgement = "more"
       THEN /\ pc' = "list" /\ page' = page + 1 /\ cursor' = next
            /\ UNCHANGED verdict
       ELSE /\ pc' = "finish" /\ verdict' = Judgement
            /\ UNCHANGED <<page, cursor>>
    /\ UNCHANGED <<store, folder, firstSize, pending, size, next, errors, fatal, result, seen>>

FinishFolderCoverage ==
    /\ pc = "finish"
    /\ coverage' = [coverage EXCEPT ![Current] = verdict]
    /\ errors' = (errors \/ verdict # "complete")
    /\ IF folder = Len(Folders)
       THEN pc' = "recent" /\ UNCHANGED folder
       ELSE pc' = "start" /\ folder' = folder + 1
    /\ UNCHANGED <<conversations, loop, fatal, result, seen>>

\* Mutant: the pump's channel is not read before returning.
NoFatalCheckMutant ==
    /\ pc = "recent"
    /\ \E failed \in BOOLEAN : result' = IF errors \/ failed THEN "error" ELSE "ok"
    /\ Exit
    /\ UNCHANGED <<store, seen>>

\* Recent messages of 50 inbox conversations, then the one look at the channel
\* and the joined errors; with --follow, a sync without any stays connected.
Return ==
    /\ pc = "recent"
    /\ \E failed \in BOOLEAN :
          result' = IF errors \/ fatal \/ failed THEN "error" ELSE "ok"
    /\ \/ Exit
       \/ result' = "ok" /\ pc' = "following" /\ UNCHANGED <<folder, loop, errors, fatal>>
    /\ UNCHANGED <<store, seen>>

\* Mutant: the loop waits for the interrupt alone.
DeafMutant == pc = "following" /\ fatal /\ UNCHANGED vars

\* An error of the pump ends --follow.
FollowFails ==
    /\ pc = "following" /\ fatal
    /\ result' = "error" /\ Exit
    /\ UNCHANGED <<store, seen>>

\* Ctrl-C, which select may prefer to an error.
Interrupt ==
    /\ pc = "following" /\ Exit
    /\ UNCHANGED <<store, result, seen>>

\* The process dies or a coverage statement fails.
Abandon ==
    /\ pc # "idle"
    /\ result' = "none" /\ Exit
    /\ UNCHANGED <<store, seen>>

SyncStep ==
    \/ StartFolder \/ ListPage \/ ListFails \/ Persist
    \/ RecordFolderCoveragePage \/ NextPage \/ FinishFolderCoverage \/ Return
    \/ FollowFails

-----------------------------------------------------------------------------
(* Live events, handled by the same pump in another goroutine.             *)

PumpFails ==
    /\ pc # "idle"
    /\ fatal' = TRUE
    /\ UNCHANGED <<store, pc, folder, loop, errors, result, seen>>

Discover(c) ==
    /\ conversations' = conversations \cup {c}
    /\ UNCHANGED <<coverage, pc, sync>>

Next ==
    \/ Begin \/ SyncStep \/ Interrupt \/ Abandon \/ PumpFails
    \/ \E c \in Conv : Discover(c)

Spec == Init /\ [][Next]_vars

-----------------------------------------------------------------------------
(* Properties.                                                             *)

\* The state has its type; a folder is never asked for more than MaxPages
\* pages.
TypeOK ==
    /\ conversations \subseteq Conv
    /\ coverage \in [Folder -> FolderStatus]
    /\ pc \in Control /\ folder \in 1 .. Len(Folders)
    /\ page \in 1 .. MaxPages
    /\ cursor \in Nat /\ firstSize \in 0 .. Limit
    /\ pending \subseteq Conv /\ size \in 0 .. Limit
    /\ next \in Nat \cup {NoCursor, Opaque}
    /\ verdict \in FolderStatus
    /\ errors \in BOOLEAN /\ fatal \in BOOLEAN
    /\ result \in {"none", "ok", "error"}
    /\ seen \in [Folder -> SUBSET Conv]

\* A folder's row says complete only when the latest attempt was handed every
\* conversation of the folder: not when it was cut short by an error, a crash,
\* an opaque or repeated cursor or the page budget, and not on the strength of
\* an attempt before it.
CompleteIsTraversed ==
    \A f \in Folder : coverage[f] = "complete" => ToSet(Listing[f]) \subseteq seen[f]

\* `gmcli sync` that succeeds has a row for every conversation of every folder
\* it discovers, although the loop that hands them to the pump ignores its
\* errors (cmd/sync.go:193, 245-252).
SuccessIsStored ==
    result = "ok" => \A f \in Folder : ToSet(Listing[f]) \subseteq conversations
=============================================================================
