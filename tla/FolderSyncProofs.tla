-------------------------- MODULE FolderSyncProofs --------------------------
(***************************************************************************)
(* What a complete folder, a successful sync and a complete verdict of     *)
(* coverage verify mean, for any folders, listings and limits.             *)
(***************************************************************************)
EXTENDS CoverageGate, TLAPS

\* Inside the paging loop of a folder.
Paging == {"list", "persist", "record"}
InFolder == Paging \cup {"finish"}

\* The first n conversations of a folder, and where the next page ends.
First(f, n) == {Listing[f][i] : i \in 1 .. n}
PageEnd == IF cursor + Limit < Len(Listing[Current]) THEN cursor + Limit ELSE Len(Listing[Current])

\* What the loop knows of the listing: all up to the cursor has been handed
\* out, then all up to the end of the page, and all of it at a good end.
LoopInv ==
    /\ pc \in Paging =>
          cursor <= Len(Listing[Current]) /\ First(Current, cursor) \subseteq seen[Current]
    /\ pc \in {"persist", "record"} =>
          /\ size = PageEnd - cursor
          /\ First(Current, PageEnd) \subseteq seen[Current]
          /\ \/ next \in {PageEnd, Opaque, cursor}
             \/ PageEnd = Len(Listing[Current]) /\ next = NoCursor
    /\ (pc = "finish" /\ verdict = "complete") => ToSet(Listing[Current]) \subseteq seen[Current]

\* While the pump has not failed, what was handed out is stored or still at hand.
Handed == (pc \in InFolder /\ ~fatal) => seen[Current] \subseteq conversations \cup pending

\* ... and while no folder has failed either, the folders behind are stored.
Behind ==
    (pc \in InFolder \cup {"start", "recent"} /\ ~fatal /\ ~errors) =>
        \A i \in DOMAIN Folders :
            (pc = "recent" \/ i < folder) => ToSet(Listing[Folders[i]]) \subseteq conversations

Drained ==
    /\ pc \in {"list", "record", "finish"} => pending = {}
    /\ pc = "idle" => folder = 1

StoreInv == Handed /\ Behind /\ Drained

SyncInv == TypeOK /\ LoopInv /\ StoreInv /\ CompleteIsTraversed /\ SuccessIsStored

\* What a folder in progress was handed is stored, dropped or at hand ...
Open == pc \in InFolder =>
          /\ coverage[Current] # "complete"
          /\ seen[Current] \subseteq conversations \cup dropped \cup pending

\* ... and what a complete one was handed is stored or dropped.
Closed == \A f \in Folder : coverage[f] = "complete" => seen[f] \subseteq conversations \cup dropped

\* What verify found exhausted when it looked, or saw stored since, is accounted
\* for, and its verdict stands on both of its queries.
Verdict ==
    /\ (gate # "idle" /\ allExhausted) => conversations \subseteq accounted
    /\ gate = "complete" =>
          /\ allExhausted
          /\ \A f \in Folder : ToSet(Listing[f]) \subseteq conversations \cup dropped

AccountInv == Open /\ Closed /\ Verdict

\* The folder being listed is one.
LEMMA CurrentIsFolder == ASSUME TypeOK PROVE Current \in Folder
BY FoldersAssumption DEF TypeOK, Current, Folder, ToSet

\* A listing is a finite sequence.
LEMMA ListingIsSeq == \A f \in Folder : Listing[f] \in Seq(Conv) /\ Len(Listing[f]) \in Nat
BY ListingAssumption

\* All of a listing are its first conversations, up to its length.
LEMMA AllIsFirst ==
    ASSUME NEW f \in Folder
    PROVE  ToSet(Listing[f]) = First(f, Len(Listing[f]))
BY ListingIsSeq DEF ToSet, First

-----------------------------------------------------------------------------

\* A page ends within the listing.
LEMMA PageEndType ==
    ASSUME TypeOK, LoopInv, pc \in Paging
    PROVE  /\ Current \in Folder /\ Len(Listing[Current]) \in Nat
           /\ PageEnd \in Nat /\ PageEnd <= Len(Listing[Current])
           /\ cursor <= PageEnd /\ PageEnd <= cursor + Limit
           /\ PageEnd = cursor => PageEnd = Len(Listing[Current])
           /\ PageEnd < cursor + Limit => PageEnd = Len(Listing[Current])
BY CurrentIsFolder, ListingIsSeq, LimitAssumption DEF TypeOK, LoopInv, PageEnd

\* What the relay's answer does.
LEMMA ListPageEffect ==
    ASSUME TypeOK, LoopInv, ListPage
    PROVE  /\ pending' = {Listing[Current][i] : i \in cursor + 1 .. PageEnd} /\ pending' \subseteq Conv
           /\ size' = PageEnd - cursor
           /\ \/ next' \in {PageEnd, Opaque, cursor}
              \/ PageEnd = Len(Listing[Current]) /\ next' = NoCursor
           /\ seen' = [seen EXCEPT ![Current] = @ \cup pending']
<1>1. /\ pending' = {Listing[Current][i] : i \in cursor + 1 .. PageEnd}
      /\ size' = PageEnd - cursor
      /\ \/ next' \in {PageEnd, Opaque, cursor}
         \/ PageEnd = Len(Listing[Current]) /\ next' = NoCursor
      /\ seen' = [seen EXCEPT ![Current] = @ \cup pending']
  BY DEF ListPage, PageEnd
<1>2. pending' \subseteq Conv
  <2>1. Listing[Current] \in Seq(Conv) /\ PageEnd <= Len(Listing[Current]) /\ PageEnd \in Nat /\ cursor \in Nat
    BY PageEndType, ListingIsSeq DEF ListPage, Paging, TypeOK
  <2> QED BY <1>1, <2>1
<1> QED BY <1>1, <1>2

\* The locals of a fresh loop.
LEMMA NewLoopType ==
    ASSUME NewLoop
    PROVE  /\ page' \in 1 .. MaxPages /\ cursor' \in Nat /\ firstSize' \in 0 .. Limit
           /\ pending' \subseteq Conv /\ size' \in 0 .. Limit
           /\ next' \in Nat \cup {NoCursor, Opaque}
           /\ verdict' \in FolderStatus
BY LimitAssumption DEF NewLoop, FolderStatus

\* A command that returns keeps the type of the state.
LEMMA ExitType ==
    ASSUME TypeOK, Exit, UNCHANGED <<store, seen>>, result' \in {"none", "ok", "error"}
    PROVE  TypeOK'
<1>1. 1 \in 1 .. Len(Folders)
  BY FoldersAssumption
<1> QED
  BY <1>1, NewLoopType DEF TypeOK, Exit, store, Control

\* The state keeps its type.
LEMMA TypeStep == TypeOK /\ LoopInv /\ [Next]_vars => TypeOK'
<1> SUFFICES ASSUME TypeOK, LoopInv, [Next]_vars PROVE TypeOK'
  OBVIOUS
<1> USE LimitAssumption, CursorAssumption
<1>1. CASE Begin
  BY <1>1 DEF TypeOK, Begin, Control, store, loop
<1>2. CASE StartFolder
  <2>1. coverage' \in [Folder -> FolderStatus] /\ seen' \in [Folder -> SUBSET Conv]
    BY <1>2 DEF TypeOK, StartFolder, FolderStatus
  <2> QED BY <1>2, <2>1, NewLoopType DEF TypeOK, StartFolder, Control
<1>3. CASE ListPage
  <2>1. size' \in 0 .. Limit /\ next' \in Nat \cup {NoCursor, Opaque} /\ pending' \subseteq Conv
    BY <1>3, ListPageEffect, PageEndType DEF ListPage, Paging, TypeOK
  <2>2. seen' \in [Folder -> SUBSET Conv]
    BY <1>3, <2>1, ListPageEffect DEF TypeOK
  <2> QED BY <1>3, <2>1, <2>2 DEF ListPage, TypeOK, Control, store
<1>4. CASE ListFails
  BY <1>4 DEF TypeOK, ListFails, Control, FolderStatus, store
<1>5. CASE Persist
  BY <1>5 DEF TypeOK, Persist
<1>6. CASE RecordFolderCoveragePage
  BY <1>6 DEF TypeOK, RecordFolderCoveragePage, Control, FolderStatus
<1>7. CASE NextPage
  <2>1. CASE Judgement = "more"
    <3>1. page # MaxPages /\ next \in Nat
      BY <2>1 DEF Judgement, TypeOK
    <3> QED BY <1>7, <2>1, <3>1 DEF TypeOK, NextPage, Control, store
  <2>2. CASE Judgement # "more"
    <3>1. Judgement \in FolderStatus
      BY <2>2 DEF Judgement, FolderStatus
    <3> QED BY <1>7, <2>2, <3>1 DEF TypeOK, NextPage, Control, store
  <2> QED BY <2>1, <2>2
<1>8. CASE FinishFolderCoverage
  <2>1. folder' \in 1 .. Len(Folders) /\ pc' \in Control
    BY <1>8, FoldersAssumption DEF TypeOK, FinishFolderCoverage, Control
  <2>2. errors' \in BOOLEAN
    BY <1>8 DEF FinishFolderCoverage
  <2>3. coverage' \in [Folder -> FolderStatus]
    BY <1>8 DEF FinishFolderCoverage, TypeOK
  <2> QED BY <1>8, <2>1, <2>2, <2>3 DEF TypeOK, FinishFolderCoverage, loop
<1>9. CASE Return
  <2>1. CASE Exit
    BY <1>9, <2>1, ExitType DEF Return
  <2>2. CASE ~Exit
    BY <1>9, <2>2 DEF Return, TypeOK, Control, store, loop
  <2> QED BY <2>1, <2>2
<1>10. CASE FollowFails
  BY <1>10, ExitType DEF FollowFails
<1>11. CASE Interrupt
  BY <1>11, ExitType DEF Interrupt, TypeOK
<1>12. CASE Abandon
  BY <1>12, ExitType DEF Abandon
<1>13. CASE PumpFails \/ UNCHANGED vars
  BY <1>13 DEF PumpFails, TypeOK, vars, store, loop, sync
<1>14. ASSUME NEW c \in Conv, Discover(c) PROVE TypeOK'
  BY <1>14 DEF Discover, TypeOK, sync, loop
<1> QED BY <1>1, <1>2, <1>3, <1>4, <1>5, <1>6, <1>7, <1>8, <1>9, <1>10, <1>11, <1>12, <1>13, <1>14
           DEF Next, SyncStep

-----------------------------------------------------------------------------

\* Steps outside the paging loop.
LEMMA OutOfLoop == pc' \notin InFolder => LoopInv'
BY DEF LoopInv, InFolder, Paging

\* ... and steps beside it.
LEMMA BesideLoop ==
    ASSUME LoopInv, UNCHANGED <<pc, folder, page, cursor, size, next, verdict, seen>>
    PROVE  LoopInv'
BY DEF LoopInv, First, PageEnd, Current

\* Every step keeps what the loop knows of its folder.
LEMMA LoopStep == TypeOK /\ LoopInv /\ [Next]_vars => LoopInv'
<1> SUFFICES ASSUME TypeOK, LoopInv, [Next]_vars PROVE LoopInv'
  OBVIOUS
<1>1. CASE Begin \/ FinishFolderCoverage \/ Return \/ FollowFails \/ Interrupt \/ Abandon
  BY <1>1, OutOfLoop
     DEF Begin, FinishFolderCoverage, Return, FollowFails, Interrupt, Abandon, Exit, InFolder, Paging
<1>2. CASE StartFolder
  <2>1. pc' = "list" /\ cursor' = 0 /\ UNCHANGED folder
    BY <1>2 DEF StartFolder, NewLoop
  <2>2. Len(Listing[Current]) \in Nat
    BY CurrentIsFolder, ListingIsSeq
  <2> QED BY <2>1, <2>2 DEF LoopInv, First, Current, Paging
<1>3. CASE ListPage
  <2> DEFINE f == Current
  <2>1. /\ pc = "list" /\ pc' = "persist" /\ f \in Folder /\ PageEnd \in Nat /\ cursor \in Nat
        /\ UNCHANGED <<folder, cursor>> /\ cursor <= PageEnd
    BY <1>3, PageEndType DEF ListPage, Paging, TypeOK
  <2>2. Current' = f /\ PageEnd' = PageEnd
    BY <2>1 DEF Current, PageEnd
  <2>3. First(f, cursor) \subseteq seen[f] /\ cursor <= Len(Listing[f])
    BY <2>1 DEF LoopInv, Paging
  <2>4. seen'[f] = seen[f] \cup {Listing[f][i] : i \in cursor + 1 .. PageEnd}
    BY <1>3, <2>1, ListPageEffect DEF TypeOK
  <2>5. First(f, PageEnd) \subseteq seen'[f]
    BY <2>1, <2>3, <2>4 DEF First
  <2>6. /\ size' = PageEnd - cursor
        /\ \/ next' \in {PageEnd, Opaque, cursor}
           \/ PageEnd = Len(Listing[f]) /\ next' = NoCursor
    BY <1>3, ListPageEffect
  <2>7. First(f, cursor) \subseteq seen'[f]
    BY <2>3, <2>4
  <2> HIDE DEF f
  <2> QED BY <2>1, <2>2, <2>3, <2>5, <2>6, <2>7 DEF LoopInv, First
<1>4. CASE ListFails
  BY <1>4 DEF ListFails, LoopInv, Paging
<1>5. CASE Persist \/ PumpFails \/ UNCHANGED vars \/ \E c \in Conv : Discover(c)
  BY <1>5, BesideLoop DEF Persist, PumpFails, vars, store, sync, loop, Discover
<1>6. CASE RecordFolderCoveragePage
  BY <1>6 DEF RecordFolderCoveragePage, LoopInv, First, PageEnd, Current, Paging
<1>7. CASE NextPage
  <2>1. /\ pc = "record" /\ Current \in Folder /\ Current' = Current /\ seen' = seen
        /\ cursor \in Nat /\ PageEnd \in Nat /\ size = PageEnd - cursor
        /\ First(Current, PageEnd) \subseteq seen[Current] /\ PageEnd <= Len(Listing[Current])
        /\ \/ next \in {PageEnd, Opaque, cursor}
           \/ PageEnd = Len(Listing[Current]) /\ next = NoCursor
    BY <1>7, PageEndType DEF NextPage, LoopInv, Paging, TypeOK, Current
  <2>2. CASE Judgement = "more"
    <3>1. next = PageEnd
      BY <2>1, <2>2 DEF Judgement
    <3>2. pc' = "list" /\ cursor' = PageEnd
      BY <1>7, <2>2, <3>1 DEF NextPage
    <3> QED BY <2>1, <3>2 DEF LoopInv, First
  <2>3. CASE Judgement = "complete"
    <3>1. PageEnd = Len(Listing[Current])
      <4>1. CASE page > 1 /\ size < firstSize
        BY <2>1, <4>1, PageEndType, LimitAssumption DEF TypeOK, Paging
      <4>2. CASE next = NoCursor
        BY <2>1, <4>2, CursorAssumption
      <4>3. CASE size = 0
        BY <2>1, <4>3, PageEndType DEF Paging
      <4> QED BY <2>3, <4>1, <4>2, <4>3 DEF Judgement
    <3>2. ToSet(Listing[Current]) \subseteq seen[Current]
      BY <2>1, <3>1, AllIsFirst
    <3>3. pc' = "finish" /\ verdict' = "complete"
      BY <1>7, <2>3 DEF NextPage
    <3> QED BY <2>1, <3>2, <3>3 DEF LoopInv, Paging
  <2>4. CASE Judgement \notin {"more", "complete"}
    BY <1>7, <2>4 DEF NextPage, LoopInv, Paging
  <2> QED BY <2>2, <2>3, <2>4
<1> QED BY <1>1, <1>2, <1>3, <1>4, <1>5, <1>6, <1>7 DEF Next, SyncStep

-----------------------------------------------------------------------------

\* No conversation is deleted.
LEMMA ConversationsGrow == [Next]_vars => conversations \subseteq conversations'
BY DEF Next, SyncStep, Begin, StartFolder, ListPage, ListFails, Persist, RecordFolderCoveragePage,
       NextPage, FinishFolderCoverage, Return, FollowFails, Interrupt, Abandon, PumpFails,
       Discover, vars, store

\* Steps out of a folder's loop, and those that leave it where it is.
LEMMA BesideStore ==
    ASSUME StoreInv, UNCHANGED <<pc, folder, seen, pending, errors>>, fatal => fatal',
           conversations \subseteq conversations'
    PROVE  StoreInv'
BY DEF StoreInv, Handed, Behind, Drained, Current, InFolder, Paging

\* Outside of the loop nothing is owed to the table.
LEMMA OutOfStore ==
    ASSUME pc' \in {"idle", "following"}, pc' = "idle" => folder' = 1
    PROVE  StoreInv'
BY DEF StoreInv, Handed, Behind, Drained, InFolder, Paging

\* What was handed out is stored, while nothing has failed.
LEMMA StoreStep == TypeOK /\ LoopInv /\ StoreInv /\ [Next]_vars => StoreInv'
<1> SUFFICES ASSUME TypeOK, LoopInv, StoreInv, [Next]_vars PROVE StoreInv'
  OBVIOUS
<1>1. CASE Begin
  <2>1. DOMAIN Folders = 1 .. Len(Folders) /\ Len(Folders) \in Nat
    BY FoldersAssumption
  <2>2. pc' = "start" /\ folder' = 1
    BY <1>1 DEF Begin, StoreInv, Drained
  <2> QED BY <2>1, <2>2 DEF StoreInv, Handed, Behind, Drained, InFolder, Paging
<1>2. CASE StartFolder
  <2>1. Current \in Folder /\ Current' = Current /\ seen'[Current] = {}
    BY <1>2, CurrentIsFolder DEF StartFolder, Current, TypeOK
  <2>2. Handed'
    BY <2>1 DEF Handed
  <2>3. Behind'
    BY <1>2 DEF StartFolder, StoreInv, Behind, InFolder, Paging
  <2>4. Drained'
    BY <1>2 DEF StartFolder, NewLoop, Drained
  <2> QED BY <2>2, <2>3, <2>4 DEF StoreInv
<1>3. CASE ListPage
  <2>1. Current \in Folder /\ Current' = Current /\ seen'[Current] = seen[Current] \cup pending'
    BY <1>3, ListPageEffect, CurrentIsFolder DEF ListPage, Current, TypeOK
  <2>2. Handed'
    BY <1>3, <2>1 DEF ListPage, store, StoreInv, Handed, Drained, InFolder, Paging
  <2>3. Behind'
    BY <1>3 DEF ListPage, store, StoreInv, Behind, InFolder, Paging
  <2>4. Drained'
    BY <1>3 DEF ListPage, Drained
  <2> QED BY <2>2, <2>3, <2>4 DEF StoreInv
<1>4. CASE ListFails \/ NextPage \/ RecordFolderCoveragePage
  BY <1>4 DEF ListFails, NextPage, RecordFolderCoveragePage, store,
              StoreInv, Handed, Behind, Drained, Current, InFolder, Paging
<1>5. CASE Persist
  BY <1>5 DEF Persist, StoreInv, Handed, Behind, Drained, Current, InFolder, Paging
<1>6. CASE FinishFolderCoverage
  <2>1. /\ pc = "finish" /\ pc' \in {"start", "recent"} /\ UNCHANGED <<conversations, fatal>>
        /\ pending = {} /\ errors' = (errors \/ verdict # "complete")
        /\ folder \in 1 .. Len(Folders) /\ DOMAIN Folders = 1 .. Len(Folders) /\ Len(Folders) \in Nat
        /\ IF folder = Len(Folders) THEN pc' = "recent" ELSE pc' = "start" /\ folder' = folder + 1
    BY <1>6, FoldersAssumption DEF FinishFolderCoverage, StoreInv, Drained, TypeOK
  <2>2. Behind'
    <3> SUFFICES ASSUME ~fatal, ~errors, verdict = "complete", NEW i \in DOMAIN Folders,
                        pc' = "recent" \/ i < folder'
                 PROVE  ToSet(Listing[Folders[i]]) \subseteq conversations
      BY <2>1 DEF Behind
    <3>1. i < folder \/ i = folder
      <4>1. i \in 1 .. Len(Folders)
        BY <2>1
      <4>2. folder = Len(Folders) \/ i < folder + 1
        BY <2>1
      <4>3. folder \in 1 .. Len(Folders) /\ Len(Folders) \in Nat
        BY <2>1
      <4> QED BY <4>1, <4>2, <4>3
    <3>2. CASE i < folder
      BY <2>1, <3>2 DEF StoreInv, Behind, InFolder
    <3>3. CASE i = folder
      BY <2>1, <3>3 DEF LoopInv, StoreInv, Handed, InFolder, Current
    <3> QED BY <3>1, <3>2, <3>3
  <2> QED BY <2>1, <2>2 DEF StoreInv, Handed, Drained, InFolder, Paging
<1>7. CASE Return \/ FollowFails \/ Interrupt \/ Abandon
  BY <1>7, OutOfStore DEF Return, FollowFails, Interrupt, Abandon, Exit
<1>8. CASE PumpFails \/ UNCHANGED vars \/ \E c \in Conv : Discover(c)
  BY <1>8, BesideStore, ConversationsGrow DEF PumpFails, Discover, vars, sync, loop
<1> QED BY <1>1, <1>2, <1>3, <1>4, <1>5, <1>6, <1>7, <1>8 DEF Next, SyncStep

\* A sync that reports success has stored every listing.
LEMMA SuccessStep == TypeOK /\ StoreInv /\ SuccessIsStored /\ [Next]_vars => SuccessIsStored'
<1> SUFFICES ASSUME TypeOK, StoreInv, SuccessIsStored, [Next]_vars PROVE SuccessIsStored'
  OBVIOUS
<1>1. CASE Return
  <2> SUFFICES ASSUME ~errors, ~fatal, NEW f \in Folder PROVE ToSet(Listing[f]) \subseteq conversations'
    BY <1>1 DEF Return, SuccessIsStored
  <2>1. PICK i \in DOMAIN Folders : f = Folders[i]
    BY DEF Folder, ToSet
  <2> QED BY <1>1, <2>1 DEF Return, store, StoreInv, Behind
<1>2. CASE ~Return
  <2>1. result' = result \/ result' # "ok"
    BY <1>2 DEF Next, SyncStep, Begin, StartFolder, ListPage, ListFails, Persist,
                RecordFolderCoveragePage, NextPage, FinishFolderCoverage, FollowFails,
                Interrupt, Abandon, PumpFails, Discover, vars, sync
  <2> QED BY <2>1, ConversationsGrow DEF SuccessIsStored
<1> QED BY <1>1, <1>2

\* A folder becomes complete only at the end of its listing.
LEMMA TraversedStep == TypeOK /\ LoopInv /\ CompleteIsTraversed /\ [Next]_vars => CompleteIsTraversed'
<1> SUFFICES ASSUME TypeOK, LoopInv, CompleteIsTraversed, [Next]_vars,
                    NEW f \in Folder, coverage'[f] = "complete"
             PROVE  ToSet(Listing[f]) \subseteq seen'[f]
  BY DEF CompleteIsTraversed
<1>1. CASE StartFolder
  BY <1>1, CurrentIsFolder DEF StartFolder, TypeOK, CompleteIsTraversed
<1>2. CASE ListPage
  BY <1>2, ListPageEffect, CurrentIsFolder DEF ListPage, store, TypeOK, CompleteIsTraversed
<1>3. CASE RecordFolderCoveragePage
  BY <1>3, CurrentIsFolder DEF RecordFolderCoveragePage, TypeOK, CompleteIsTraversed
<1>4. CASE FinishFolderCoverage
  <2>1. CASE f = Current
    BY <1>4, <2>1 DEF FinishFolderCoverage, TypeOK, LoopInv
  <2>2. CASE f # Current
    BY <1>4, <2>2 DEF FinishFolderCoverage, TypeOK, CompleteIsTraversed
  <2> QED BY <2>1, <2>2
<1>5. CASE ~(StartFolder \/ ListPage \/ RecordFolderCoveragePage \/ FinishFolderCoverage)
  <2>1. UNCHANGED <<coverage, seen>>
    BY <1>5 DEF Next, SyncStep, Begin, ListFails, Persist, NextPage, Return, FollowFails,
                Interrupt, Abandon, PumpFails, Discover, vars, sync, store
  <2> QED BY <2>1 DEF CompleteIsTraversed
<1> QED BY <1>1, <1>2, <1>3, <1>4, <1>5

-----------------------------------------------------------------------------
(* coverage verify.                                                        *)

\* A step of verify, or of a backfill, leaves the sync alone.
LEMMA StepOfSync == [GateNext]_allVars => [Next]_vars
BY DEF GateNext, Command, Exhaust, Demote, ListConversationCoverage, ListFolderCoverage, Report, allVars

\* What is stored or dropped stays so, and what the pump lets go of is either.
LEMMA DroppedGrow ==
    ASSUME [GateNext]_allVars
    PROVE  /\ conversations \cup dropped \subseteq conversations' \cup dropped'
           /\ pc = "persist" /\ pc' = "persist" => pending \subseteq pending' \cup conversations' \cup dropped'
<1>1. conversations \subseteq conversations'
  BY StepOfSync, ConversationsGrow
<1>2. CASE GateNext
  BY <1>1, <1>2 DEF GateNext, Observe
<1>3. CASE UNCHANGED allVars
  BY <1>3 DEF allVars, vars, store, sync, loop
<1> QED BY <1>2, <1>3

\* What the folder in progress was handed stays stored, dropped or at hand.
LEMMA OpenStep ==
    ASSUME TypeOK, LoopInv, StoreInv, Open, [GateNext]_allVars
    PROVE  Open'
<1> DEFINE Kept == conversations \cup dropped
<1>1. [Next]_vars /\ Kept \subseteq Kept' /\ Current \in Folder
  BY StepOfSync, DroppedGrow, CurrentIsFolder
<1>2. CASE pc' \notin InFolder
  BY <1>2 DEF Open
<1>3. CASE StartFolder
  BY <1>1, <1>3 DEF StartFolder, Open, Current, TypeOK
<1>4. CASE ListPage
  <2>1. Current' = Current /\ UNCHANGED coverage /\ seen'[Current] = seen[Current] \cup pending'
    BY <1>1, <1>4, ListPageEffect DEF ListPage, store, Current, TypeOK
  <2>2. pc \in InFolder /\ pending = {}
    BY <1>4 DEF ListPage, StoreInv, Drained, InFolder, Paging
  <2> QED BY <1>1, <2>1, <2>2 DEF Open
<1>5. CASE RecordFolderCoveragePage
  BY <1>1, <1>5 DEF RecordFolderCoveragePage, Open, Current, TypeOK, InFolder, Paging
<1>6. CASE Persist
  BY <1>1, <1>6, DroppedGrow DEF Persist, Open, Current, InFolder, Paging
<1>7. CASE pc' \in InFolder /\ ~(StartFolder \/ ListPage \/ RecordFolderCoveragePage \/ Persist)
  <2>1. pc \in InFolder /\ UNCHANGED <<coverage, folder, pending, seen>>
    BY <1>1, <1>7 DEF Next, SyncStep, Begin, ListFails, NextPage, FinishFolderCoverage, Return, FollowFails,
           Interrupt, Abandon, Exit, PumpFails, Discover, vars, sync, loop, store, InFolder, Paging
  <2> QED BY <1>1, <2>1 DEF Open, Current
<1> QED BY <1>2, <1>3, <1>4, <1>5, <1>6, <1>7

\* What a complete folder was handed stays stored or dropped.
LEMMA ClosedStep ==
    ASSUME TypeOK, LoopInv, StoreInv, Open, Closed, [GateNext]_allVars
    PROVE  Closed'
<1> DEFINE Kept == conversations \cup dropped
<1>1. [Next]_vars /\ Kept \subseteq Kept' /\ Current \in Folder
  BY StepOfSync, DroppedGrow, CurrentIsFolder
<1> SUFFICES ASSUME NEW f \in Folder, coverage'[f] = "complete" PROVE seen'[f] \subseteq Kept'
  BY DEF Closed
<1>2. CASE coverage[f] # "complete"
  <2>1. FinishFolderCoverage /\ f = Current
    BY <1>1, <1>2 DEF Next, SyncStep, Begin, StartFolder, ListPage, ListFails, Persist,
           RecordFolderCoveragePage, NextPage, FinishFolderCoverage, Return, FollowFails,
           Interrupt, Abandon, PumpFails, Discover, vars, sync, store, TypeOK
  <2>2. seen' = seen /\ pending = {} /\ seen[Current] \subseteq Kept \cup pending
    BY <2>1 DEF FinishFolderCoverage, StoreInv, Drained, Open, InFolder
  <2> QED BY <1>1, <2>1, <2>2
<1>3. CASE coverage[f] = "complete"
  <2>1. ListPage => f # Current
    BY <1>3 DEF ListPage, Open, InFolder, Paging
  <2>2. seen'[f] \subseteq seen[f]
    BY <1>1, <2>1, ListPageEffect DEF Next, SyncStep, Begin, StartFolder, ListFails, Persist,
           RecordFolderCoveragePage, NextPage, FinishFolderCoverage, Return, FollowFails,
           Interrupt, Abandon, PumpFails, Discover, vars, sync, TypeOK
  <2> QED BY <1>1, <1>3, <2>2 DEF Closed
<1> QED BY <1>2, <1>3

\* The verdict of verify stands on both of its queries.
LEMMA VerdictStep ==
    ASSUME Closed, CompleteIsTraversed, Verdict, [GateNext]_allVars
    PROVE  Verdict'
<1> DEFINE Kept == conversations \cup dropped
<1>1. Kept \subseteq Kept'
  BY DroppedGrow
<1>2. CASE ListConversationCoverage /\ Observe
  BY <1>2 DEF ListConversationCoverage, Observe, vars, store, Verdict
<1>3. CASE ListFolderCoverage /\ Observe
  <2>1. UNCHANGED <<conversations, coverage, allExhausted>> /\ gate = "folders"
    BY <1>3 DEF ListFolderCoverage, vars, store
  <2>2. accounted \subseteq accounted' /\ (gate # "idle" /\ allExhausted => conversations \subseteq accounted)
    BY <1>3, <2>1 DEF ListFolderCoverage, Observe, Verdict
  <2>3. ASSUME gate' = "complete"
        PROVE  allExhausted /\ \A f \in Folder : ToSet(Listing[f]) \subseteq Kept
    BY <1>3, <2>3 DEF ListFolderCoverage, FoldersComplete, Closed, CompleteIsTraversed
  <2> QED BY <1>1, <2>1, <2>2, <2>3 DEF Verdict
<1>4. CASE Report
  BY <1>4 DEF Report, Verdict
<1>5. CASE GateNext /\ UNCHANGED verify
  <2>1. gate # "idle" => accounted' = accounted \cup (conversations' \ conversations)
    BY <1>5 DEF GateNext, Observe, verify
  <2>2. conversations \subseteq conversations'
    BY StepOfSync, ConversationsGrow
  <2> QED BY <1>1, <1>5, <2>1, <2>2 DEF Verdict, verify
<1>6. CASE UNCHANGED allVars
  BY <1>6 DEF allVars, vars, store, verify, Verdict
<1> QED BY <1>2, <1>3, <1>4, <1>5, <1>6 DEF GateNext, Command, Exhaust, Demote

-----------------------------------------------------------------------------

GateInv == SyncInv /\ AccountInv

\* Nothing is listed, stored or verified at first.
LEMMA InitGateInv == GateInit => GateInv
<1> SUFFICES ASSUME GateInit PROVE GateInv
  OBVIOUS
<1>1. pc = "idle" /\ folder = 1 /\ result = "none" /\ conversations = {}
  BY DEF GateInit, Init
<1>2. TypeOK
  <2>1. 1 \in 1 .. Len(Folders)
    BY FoldersAssumption
  <2>2. 1 \in 1 .. MaxPages /\ 0 \in 0 .. Limit
    BY LimitAssumption
  <2>3. coverage \in [Folder -> FolderStatus] /\ seen \in [Folder -> SUBSET Conv]
    BY DEF GateInit, Init, FolderStatus
  <2> QED BY <2>1, <2>2, <2>3 DEF GateInit, Init, TypeOK, Control, FolderStatus
<1>3. \A f \in Folder : coverage[f] = "missing"
  BY DEF GateInit, Init
<1> QED
  BY <1>1, <1>2, <1>3
     DEF GateInit, GateInv, SyncInv, LoopInv, StoreInv, Handed, Behind, Drained, CompleteIsTraversed,
         SuccessIsStored, AccountInv, Open, Closed, Verdict, InFolder, Paging

\* The invariant is kept by the sync and by verify beside it.
LEMMA GateStep == GateInv /\ [GateNext]_allVars => GateInv'
<1> SUFFICES ASSUME GateInv, [GateNext]_allVars PROVE GateInv'
  OBVIOUS
<1>1. SyncInv'
  BY StepOfSync, TypeStep, LoopStep, StoreStep, TraversedStep, SuccessStep DEF GateInv, SyncInv
<1>2. AccountInv'
  BY OpenStep, ClosedStep, VerdictStep DEF GateInv, SyncInv, AccountInv
<1> QED BY <1>1, <1>2 DEF GateInv

\* The invariant, for any folders, listings and limits.
LEMMA Invariance == GateSpec => []GateInv
BY InitGateInv, GateStep, PTL DEF GateSpec

\* The state of sync keeps its type: no folder is asked for more than MaxPages
\* pages (maxConversationPages).
THEOREM TypeCorrect == GateSpec => []TypeOK
<1>1. GateInv => TypeOK
  BY DEF GateInv, SyncInv
<1> QED BY <1>1, Invariance, PTL

\* A folder's row says complete only when its latest attempt was handed every
\* conversation of the folder, wherever other attempts ended.
THEOREM Traversed == GateSpec => []CompleteIsTraversed
<1>1. GateInv => CompleteIsTraversed
  BY DEF GateInv, SyncInv
<1> QED BY <1>1, Invariance, PTL

\* A sync that reports success has a row for every listed conversation.
THEOREM Stored == GateSpec => []SuccessIsStored
<1>1. GateInv => SuccessIsStored
  BY DEF GateInv, SyncInv
<1> QED BY <1>1, Invariance, PTL

\* When coverage verify says complete, each listed conversation was exhausted
\* when it looked, stored since, or lost to an error of the pump.
THEOREM Accounted == GateSpec => []CompleteIsAccounted
<1>1. GateInv => CompleteIsAccounted
  <2>1. Verdict => CompleteIsAccounted
    BY DEF Verdict, CompleteIsAccounted
  <2> QED BY <2>1 DEF GateInv, AccountInv
<1> QED BY <1>1, Invariance, PTL
=============================================================================
