------------------------ MODULE ArchiveExportProofs ------------------------
(***************************************************************************)
(* An archive survives any number of exports into one directory, and the   *)
(* cache of its viewers stays the image of one archive (ViewerCache).      *)
(***************************************************************************)
EXTENDS ViewerCache, TLAPS

\* A writer between its two renames.
Replacing(w) == pc[w] \in {"place", "restore"}

\* Who is about to install has something to install, and who has moved an
\* archive aside has --force and still holds it.
Equipped ==
    \A w \in Writer :
        /\ pc[w] \in {"inspect", "install", "move", "place", "restore"} => tmp[w] # None
        /\ Replacing(w) => backup[w] # None
        /\ pc[w] \in {"move", "place", "restore"} => force[w]

\* Where the archive is when it is not in --out.
Kept ==
    installed /\ target = None =>
        /\ orphaned \/ \E w \in Writer : Replacing(w)
        /\ cut \/ \E w \in Writer : Replacing(w)

IInv == ExportTypeOK /\ Equipped /\ Kept

\* No writer has anything at first.
LEMMA InitInvariant == ExportInit => IInv
BY DEF ExportInit, IInv, ExportTypeOK, Equipped, Kept, Replacing

\* Every step keeps the type of the export's state.
LEMMA StepTypes == ExportTypeOK /\ [ExportNext]_exportVars => ExportTypeOK'
<1> SUFFICES ASSUME ExportTypeOK, [ExportNext]_exportVars PROVE ExportTypeOK'
  OBVIOUS
<1> USE DEF ExportTypeOK, Goto, Return
<1>1. ASSUME NEW w \in Writer, NEW f \in BOOLEAN, WriteJSONL(w, f) PROVE ExportTypeOK'
  BY <1>1 DEF WriteJSONL
<1>2. ASSUME NEW w \in Writer, WriteSnapshot(w) PROVE ExportTypeOK'
  BY <1>2 DEF WriteSnapshot
<1>3. ASSUME NEW w \in Writer, Inspect(w) PROVE ExportTypeOK'
  BY <1>3 DEF Inspect
<1>4. ASSUME NEW w \in Writer, Install(w) PROVE ExportTypeOK'
  BY <1>4 DEF Install
<1>5. ASSUME NEW w \in Writer, MoveAside(w) PROVE ExportTypeOK'
  BY <1>5 DEF MoveAside
<1>6. ASSUME NEW w \in Writer, Place(w) PROVE ExportTypeOK'
  BY <1>6 DEF Place
<1>7. ASSUME NEW w \in Writer, Restore(w) PROVE ExportTypeOK'
  BY <1>7 DEF Restore
<1>8. ASSUME NEW w \in Writer, RemoveBackup(w) PROVE ExportTypeOK'
  BY <1>8 DEF RemoveBackup
<1>9. ASSUME NEW w \in Writer, RemoveRest(w) PROVE ExportTypeOK'
  BY <1>9 DEF RemoveRest
<1>10. ASSUME NEW w \in Writer, Die(w) PROVE ExportTypeOK'
  BY <1>10 DEF Die
<1>11. CASE UNCHANGED exportVars
  BY <1>11 DEF exportVars
<1>12. QED
  BY <1>1, <1>2, <1>3, <1>4, <1>5, <1>6, <1>7, <1>8, <1>9, <1>10, <1>11 DEF ExportNext

\* Every step leaves each writer with what it needs where it is.
LEMMA StepEquipped == IInv /\ [ExportNext]_exportVars => Equipped'
<1> SUFFICES ASSUME IInv, [ExportNext]_exportVars PROVE Equipped'
  OBVIOUS
<1> USE NoneAssumption DEF IInv, ExportTypeOK, Equipped, Replacing, Goto, Return
<1>1. ASSUME NEW w \in Writer, NEW f \in BOOLEAN, WriteJSONL(w, f) PROVE Equipped'
  BY <1>1 DEF WriteJSONL
<1>2. ASSUME NEW w \in Writer, WriteSnapshot(w) PROVE Equipped'
  BY <1>2 DEF WriteSnapshot
<1>3. ASSUME NEW w \in Writer, Inspect(w) PROVE Equipped'
  BY <1>3 DEF Inspect
<1>4. ASSUME NEW w \in Writer, Install(w) PROVE Equipped'
  BY <1>4 DEF Install
<1>5. ASSUME NEW w \in Writer, MoveAside(w) PROVE Equipped'
  BY <1>5 DEF MoveAside
<1>6. ASSUME NEW w \in Writer, Place(w) PROVE Equipped'
  BY <1>6 DEF Place
<1>7. ASSUME NEW w \in Writer, Restore(w) PROVE Equipped'
  BY <1>7 DEF Restore
<1>8. ASSUME NEW w \in Writer, RemoveBackup(w) PROVE Equipped'
  BY <1>8 DEF RemoveBackup
<1>9. ASSUME NEW w \in Writer, RemoveRest(w) PROVE Equipped'
  BY <1>9 DEF RemoveRest
<1>10. ASSUME NEW w \in Writer, Die(w) PROVE Equipped'
  BY <1>10 DEF Die
<1>11. CASE UNCHANGED exportVars
  BY <1>11 DEF exportVars
<1>12. QED
  BY <1>1, <1>2, <1>3, <1>4, <1>5, <1>6, <1>7, <1>8, <1>9, <1>10, <1>11 DEF ExportNext

\* The archive leaves --out only into the backup of a writer that is then
\* between its renames; that writer puts one back, or ends with it aside.
LEMMA StepKept == IInv /\ [ExportNext]_exportVars => Kept'
<1> SUFFICES ASSUME IInv, [ExportNext]_exportVars PROVE Kept'
  OBVIOUS
<1> USE NoneAssumption DEF IInv, ExportTypeOK, Equipped, Kept, Replacing, Goto, Return
<1>1. ASSUME NEW w \in Writer, NEW f \in BOOLEAN, WriteJSONL(w, f) PROVE Kept'
  BY <1>1 DEF WriteJSONL
<1>2. ASSUME NEW w \in Writer, WriteSnapshot(w) PROVE Kept'
  BY <1>2 DEF WriteSnapshot
<1>3. ASSUME NEW w \in Writer, Inspect(w) PROVE Kept'
  BY <1>3 DEF Inspect
<1>4. ASSUME NEW w \in Writer, Install(w) PROVE Kept'
  BY <1>4 DEF Install
<1>5. ASSUME NEW w \in Writer, MoveAside(w) PROVE Kept'
  BY <1>5 DEF MoveAside
<1>6. ASSUME NEW w \in Writer, Place(w) PROVE Kept'
  BY <1>6 DEF Place
<1>7. ASSUME NEW w \in Writer, Restore(w) PROVE Kept'
  BY <1>7 DEF Restore
<1>8. ASSUME NEW w \in Writer, RemoveBackup(w) PROVE Kept'
  BY <1>8 DEF RemoveBackup
<1>9. ASSUME NEW w \in Writer, RemoveRest(w) PROVE Kept'
  BY <1>9 DEF RemoveRest
<1>10. ASSUME NEW w \in Writer, Die(w) PROVE Kept'
  BY <1>10 DEF Die
<1>11. CASE UNCHANGED exportVars
  BY <1>11 DEF exportVars
<1>12. QED
  BY <1>1, <1>2, <1>3, <1>4, <1>5, <1>6, <1>7, <1>8, <1>9, <1>10, <1>11 DEF ExportNext

\* The invariant of the exports, for any number of writers.
LEMMA Invariant == ExportSpec => []IInv
<1>1. IInv /\ [ExportNext]_exportVars => IInv'
  BY StepTypes, StepEquipped, StepKept DEF IInv
<1>2. QED
  BY <1>1, InitInvariant, PTL DEF ExportSpec

-----------------------------------------------------------------------------

\* The control of every writer, and its directories, have their types.
THEOREM ExportTypes == ExportSpec => []ExportTypeOK
<1>1. IInv => ExportTypeOK
  BY DEF IInv
<1>2. QED
  BY <1>1, Invariant, PTL

\* installDirectory loses no archive, whichever of any number of writers
\* fail, race or die between its renames.
THEOREM NothingIsLost == ExportSpec => []NeverLost
<1>1. IInv => NeverLost
  BY DEF IInv, Kept, Equipped, NeverLost
<1>2. QED
  BY <1>1, Invariant, PTL

\* Nor is one missing from --out when all writers have returned by themselves.
THEOREM OneIsInPlace == ExportSpec => []ArchiveInPlace
<1>1. IInv => ArchiveInPlace
  BY DEF IInv, Kept, ArchiveInPlace, Replacing
<1>2. QED
  BY <1>1, Invariant, PTL

\* An archive is replaced by a writer with --force and by no other.
THEOREM OnlyForceReplaces == ExportSpec => ForceRequired
<1>1. ASSUME IInv, [ExportNext]_exportVars
      PROVE  [target # None /\ target' # target
                => \E w \in Writer : force[w] /\ pc'[w] # pc[w]]_exportVars
  <2> SUFFICES ASSUME target # None, target' # target
               PROVE  \E w \in Writer : force[w] /\ pc'[w] # pc[w]
    OBVIOUS
  <2>1. ASSUME NEW w \in Writer, MoveAside(w)
        PROVE  force[w] /\ pc'[w] # pc[w]
    BY <1>1, <2>1 DEF MoveAside, Goto, Return, IInv, Equipped, ExportTypeOK
  <2>2. ASSUME NEW w \in Writer, ~MoveAside(w),
               \/ \E f \in BOOLEAN : WriteJSONL(w, f)
               \/ WriteSnapshot(w) \/ Inspect(w) \/ Install(w) \/ Place(w)
               \/ Restore(w) \/ RemoveBackup(w) \/ RemoveRest(w) \/ Die(w)
        PROVE  FALSE
    BY <2>2 DEF WriteJSONL, WriteSnapshot, Inspect, Install, Place, Restore,
                RemoveBackup, RemoveRest, Die
  <2>3. CASE UNCHANGED exportVars
    BY <2>3 DEF exportVars
  <2>4. QED
    BY <1>1, <2>1, <2>2, <2>3 DEF ExportNext
<1>2. QED
  BY <1>1, Invariant, PTL DEF ExportSpec, ForceRequired

-----------------------------------------------------------------------------
(* The viewers' cache.                                                     *)

\* A table that any refresh leaves, and that SQLite accepts.
Sound(t) ==
    /\ t \in Table
    /\ \A m \in Message : t.where[m] \in t.convs \cup {None}
    /\ t.convsHash \in {Unindexed, t.convs}

Clean(t) == t = Empty \/ \E s \in Snapshot : Holds(t, s)

\* What a hash stands for is in the conversation, for the conversations of C.
Indexed(t, C) == \A c \in C : t.hash[c] # Unindexed => t.hash[c] = In(t, c)

\* How far the transaction is, whatever it has read.
ControlInv ==
    /\ manifest \in [Reader -> Snapshot \cup {None}]
    /\ phase \in {"none", "conversations", "files", "messages"}
    /\ phase # "none" => tx \in Reader /\ manifest[tx] \in Snapshot
    /\ phase \in {"files", "messages"} =>
          work.convs = manifest[tx].convs /\ work.convsHash = work.convs
    /\ open # None => phase = "messages" /\ open \in manifest[tx].convs
    /\ torn \in BOOLEAN

\* What its tables are as long as no file was replaced under it: the files with
\* the hash of the manifest are indexed as the manifest's archive has them.
WorkInv ==
    ~torn =>
        /\ Clean(cache)
        /\ phase = "conversations" => Indexed(work, Conv)
        /\ phase = "files" => Indexed(work, work.convs)
        /\ phase = "messages" =>
              \A c \in Conv :
                  IF c \in work.convs
                  THEN work.hash[c] = In(manifest[tx], c) => In(work, c) = In(manifest[tx], c)
                  ELSE work.hash[c] = Unindexed

CacheInv == ExportTypeOK /\ Sound(cache) /\ Sound(work) /\ ControlInv /\ WorkInv

\* The parts of an archive.
LEMMA SnapshotParts ==
    ASSUME NEW s \in Snapshot
    PROVE  /\ s # None /\ s.convs \subseteq Conv /\ s.convs # Unindexed
           /\ \A m \in Message : s.where[m] \in s.convs \cup {None}
           /\ \A c : In(s, c) \subseteq Message /\ In(s, c) # Unindexed
BY NoneAssumption, ConvAssumption, SnapshotAssumption DEF Unindexed, In

\* A cache without conversations is sound.
LEMMA EmptySound == Sound(Empty) /\ Empty.convsHash = Unindexed
BY DEF Sound, Empty, Table, Where, Unindexed

\* A clean cache is indexed.
LEMMA CleanIndexed == ASSUME NEW t, Clean(t) PROVE Indexed(t, Conv)
<1>1. CASE t = Empty
  BY <1>1 DEF Empty, Indexed
<1>2. ASSUME NEW s \in Snapshot, Holds(t, s) PROVE Indexed(t, Conv)
  BY <1>2 DEF Holds, Indexed, In
<1> QED BY <1>1, <1>2 DEF Clean

\* A refresh that ends leaves no transaction of its own behind.
LEMMA EndKeeps ==
    ASSUME CacheInv, NEW r \in Reader, End(r), UNCHANGED exportVars, UNCHANGED torn,
           cache' = cache \/ (Sound(cache') /\ (torn \/ Clean(cache')))
    PROVE  CacheInv'
<1> USE DEF CacheInv
<1>1. ExportTypeOK'
  BY DEF exportVars, ExportTypeOK
<1>2. Sound(cache') /\ (torn \/ Clean(cache'))
  BY DEF WorkInv
<1>3. CASE tx = r
  <2>1. work' = Empty /\ phase' = "none" /\ open' = None
    BY <1>3 DEF End
  <2>2. ControlInv'
    BY <2>1 DEF ControlInv, End
  <2>3. WorkInv'
    BY <1>2, <2>1 DEF WorkInv, Clean
  <2> QED BY <1>1, <1>2, <2>1, <2>2, <2>3, EmptySound DEF Sound
<1>4. CASE tx # r
  <2>1. UNCHANGED <<tx, work, phase, open>> /\ (tx \in Reader => manifest'[tx] = manifest[tx])
    BY <1>4 DEF End, ControlInv, txVars
  <2>2. ControlInv'
    BY <2>1 DEF ControlInv, End
  <2>3. WorkInv'
    BY <1>2, <2>1 DEF WorkInv, ControlInv, Clean, Indexed, In
  <2> QED BY <1>1, <1>2, <2>1, <2>2, <2>3 DEF Sound
<1> QED BY <1>3, <1>4

\* The invariant of the cache is kept by exports and by viewers.
LEMMA CacheStep == CacheInv /\ [Next]_vars => CacheInv'
<1> SUFFICES ASSUME CacheInv, [Next]_vars PROVE CacheInv'
  OBVIOUS
<1> USE DEF CacheInv
<1>1. CASE ExportNext /\ UNCHANGED viewerVars
  <2>1. ExportTypeOK'
    BY <1>1, StepTypes
  <2> QED BY <1>1, <2>1 DEF viewerVars, txVars, Sound, ControlInv, WorkInv, Clean, Indexed, In
<1>2. CASE UNCHANGED vars
  BY <1>2 DEF vars, viewerVars, txVars, exportVars, ExportTypeOK, Sound, ControlInv, WorkInv,
              Clean, Indexed, In
<1>3. ASSUME NEW r \in Reader, ReadManifest(r), UNCHANGED exportVars PROVE CacheInv'
  <2>1. UNCHANGED <<cache, tx, work, phase, open, torn>>
    BY <1>3 DEF ReadManifest, txVars
  <2>2. ControlInv' /\ (phase # "none" => manifest'[tx] = manifest[tx])
    <3>1. target \in Snapshot /\ None \notin Snapshot
      BY <1>3, NoneAssumption DEF ReadManifest, ExportTypeOK
    <3>2. manifest' \in [Reader -> Snapshot \cup {None}]
      BY <1>3, <3>1 DEF ReadManifest, ControlInv
    <3>3. phase # "none" => tx # r
      BY <1>3, <3>1 DEF ReadManifest, ControlInv
    <3>4. phase # "none" => manifest'[tx] = manifest[tx]
      BY <1>3, <3>3 DEF ReadManifest, ControlInv
    <3> QED BY <2>1, <3>2, <3>4 DEF ControlInv
  <2>3. WorkInv'
    BY <2>1, <2>2 DEF WorkInv, Clean, Indexed, In
  <2>4. ExportTypeOK'
    BY <1>3 DEF exportVars, ExportTypeOK
  <2> QED BY <2>1, <2>2, <2>3, <2>4 DEF Sound
<1>4. ASSUME NEW r \in Reader, BeginTx(r), UNCHANGED exportVars PROVE CacheInv'
  <2>1. /\ tx' = r /\ work' = cache /\ phase' = "conversations" /\ open' = None
        /\ UNCHANGED <<cache, manifest, torn>> /\ manifest[r] # None
    BY <1>4 DEF BeginTx
  <2>2. ControlInv'
    BY <2>1 DEF ControlInv
  <2>3. WorkInv'
    <3>1. ~torn => Indexed(cache, Conv)
      BY CleanIndexed DEF WorkInv
    <3> QED BY <2>1, <3>1 DEF WorkInv, Clean, Indexed, In
  <2>4. ExportTypeOK'
    BY <1>4 DEF exportVars, ExportTypeOK
  <2> QED BY <2>1, <2>2, <2>3, <2>4 DEF Sound
<1>5. ASSUME NEW r \in Reader, IndexConversations(r), UNCHANGED exportVars PROVE CacheInv'
  <2> DEFINE M == manifest[r]
  <2>1. /\ tx = r /\ phase = "conversations" /\ phase' = "files"
        /\ UNCHANGED <<cache, manifest, tx, open, torn>>
    BY <1>5 DEF IndexConversations
  <2>2. M \in Snapshot /\ open = None
    BY <2>1 DEF ControlInv
  <2>3. ExportTypeOK'
    BY <1>5 DEF exportVars, ExportTypeOK
  <2>4. /\ Sound(work') /\ work'.convs = M.convs /\ work'.convsHash = M.convs
        /\ ~torn => Indexed(work', M.convs)
    <3>1. CASE work.convsHash = M.convs /\ UNCHANGED work
      <4>1. work.convs = M.convs
        BY <2>2, <3>1, SnapshotParts DEF Sound
      <4> QED BY <2>1, <2>2, <3>1, <4>1, SnapshotParts DEF Sound, WorkInv, Indexed
    <3>2. CASE work' = Stored(work, M.convs)
      <4> DEFINE W == Stored(work, M.convs)
      <4>1. /\ W.convs = M.convs /\ W.convsHash = M.convs /\ W.hash = work.hash
            /\ W.where = [m \in Message |-> IF work.where[m] \in M.convs THEN work.where[m] ELSE None]
        BY DEF Stored, Sound, Table
      <4>2. M.convs \subseteq Conv
        BY <2>2, SnapshotParts
      <4>3. W.where \in Where
        BY <4>1, <4>2 DEF Where
      <4>4. W \in Table
        BY <4>2, <4>3, <4>1 DEF Stored, Sound, Table
      <4>5. \A m \in Message : W.where[m] \in W.convs \cup {None}
        BY <4>1
      <4>6. \A c \in M.convs : In(W, c) = In(work, c)
        BY <4>1, <4>2, ConvAssumption DEF In
      <4> HIDE DEF W
      <4>7. ~torn => Indexed(W, M.convs)
        BY <2>1, <4>1, <4>2, <4>6 DEF WorkInv, Indexed
      <4> QED BY <3>2, <4>1, <4>4, <4>5, <4>7 DEF Sound, W
    <3> QED BY <1>5, <3>1, <3>2 DEF IndexConversations
  <2>5. ControlInv'
    BY <2>1, <2>2, <2>4 DEF ControlInv
  <2>6. WorkInv'
    BY <2>1, <2>4 DEF WorkInv, Clean
  <2> QED BY <2>1, <2>3, <2>4, <2>5, <2>6 DEF Sound
<1>6. ASSUME NEW r \in Reader, DropFiles(r), UNCHANGED exportVars PROVE CacheInv'
  <2> DEFINE M == manifest[r]
             gone == {c \in Conv : work.hash[c] # Unindexed /\ c \notin M.convs}
             W == [work EXCEPT
                     !.where = [m \in Message |-> IF @[m] \in gone THEN None ELSE @[m]],
                     !.hash  = [c \in Conv |-> IF c \in gone THEN Unindexed ELSE @[c]]]
  <2>1. /\ tx = r /\ phase = "files" /\ phase' = "messages" /\ work' = W
        /\ UNCHANGED <<cache, manifest, tx, open, torn>>
    BY <1>6 DEF DropFiles
  <2>2. M \in Snapshot /\ open = None /\ work.convs = M.convs /\ work.convsHash = M.convs
    BY <2>1 DEF ControlInv
  <2>3. ExportTypeOK'
    BY <1>6 DEF exportVars, ExportTypeOK
  <2>4. /\ W.convs = M.convs /\ W.convsHash = M.convs
        /\ W.where = [m \in Message |-> IF work.where[m] \in gone THEN None ELSE work.where[m]]
        /\ W.hash = [c \in Conv |-> IF c \in gone THEN Unindexed ELSE work.hash[c]]
    BY <2>2 DEF Sound, Table
  <2>5. W.where = work.where
    BY <2>2, <2>4, ConvAssumption DEF Sound, Table, Where
  <2>6. W \in Table
    <3>1. W.hash \in [Conv -> {Unindexed} \cup SUBSET Message]
      BY <2>4 DEF Sound, Table
    <3>2. work \in Table
      BY DEF Sound
    <3> QED BY <2>5, <3>1, <3>2 DEF Table
  <2>7. \A c \in Conv : IF c \in M.convs THEN W.hash[c] = work.hash[c] ELSE W.hash[c] = Unindexed
    BY <2>4
  <2>8. \A c : In(W, c) = In(work, c)
    BY <2>5 DEF In
  <2> HIDE DEF W
  <2>9. Sound(work')
    BY <2>1, <2>2, <2>4, <2>5, <2>6 DEF Sound
  <2>10. ControlInv'
    BY <2>1, <2>2, <2>4 DEF ControlInv
  <2>11. ASSUME ~torn, NEW c \in Conv
         PROVE  IF c \in M.convs THEN W.hash[c] = In(M, c) => In(W, c) = In(M, c)
                                 ELSE W.hash[c] = Unindexed
    <3>1. c \in M.convs /\ work.hash[c] # Unindexed => work.hash[c] = In(work, c)
      BY <2>1, <2>2, <2>11 DEF WorkInv, Indexed
    <3>2. In(M, c) # Unindexed
      BY <2>2, SnapshotParts
    <3> QED BY <2>7, <2>8, <3>1, <3>2
  <2>12. WorkInv'
    BY <2>1, <2>2, <2>4, <2>11 DEF WorkInv, Clean, In
  <2> QED BY <2>1, <2>3, <2>9, <2>10, <2>12 DEF Sound
<1>7. ASSUME NEW r \in Reader, NEW c \in Conv, VerifyHash(r, c), UNCHANGED exportVars PROVE CacheInv'
  BY <1>7 DEF VerifyHash, Changed, exportVars, ExportTypeOK, Sound, ControlInv, WorkInv, Clean, Indexed, In
<1>8. ASSUME NEW r \in Reader, ReadFile(r), UNCHANGED exportVars PROVE CacheInv'
  <2> DEFINE M == manifest[r]
             read == In(target, open)
             W == [work EXCEPT !.where = IndexMessages(work, open, read), !.hash[open] = In(M, open)]
  <2>1. /\ tx = r /\ open # None /\ open' = None /\ work' = W
        /\ torn' = (torn \/ read # In(M, open))
        /\ UNCHANGED <<cache, manifest, tx, phase>>
    BY <1>8 DEF ReadFile
  <2>2. /\ phase = "messages" /\ M \in Snapshot /\ open \in M.convs
        /\ work.convs = M.convs /\ work.convsHash = M.convs
    BY <2>1 DEF ControlInv
  <2>3. ExportTypeOK' /\ read \subseteq Message /\ open \in Conv
    <3>1. ExportTypeOK'
      BY <1>8 DEF exportVars, ExportTypeOK
    <3>2. read \subseteq Message /\ open \in Conv
      BY <2>2, SnapshotParts DEF In
    <3> QED BY <3>1, <3>2
  <2>4. /\ W.convs = M.convs /\ W.convsHash = M.convs
        /\ W.where = [m \in Message |-> IF m \in read THEN open
                                        ELSE IF work.where[m] = open THEN None ELSE work.where[m]]
        /\ W.hash = [work.hash EXCEPT ![open] = In(M, open)]
    BY <2>2 DEF Sound, Table, IndexMessages
  <2> HIDE DEF read
  <2>5. W.where \in Where /\ \A m \in Message : W.where[m] \in M.convs \cup {None}
    BY <2>2, <2>3, <2>4 DEF Sound, Table, Where
  <2>6. W.hash \in [Conv -> {Unindexed} \cup SUBSET Message]
    <3>1. In(M, open) \in SUBSET Message
      BY DEF In
    <3>2. work.hash \in [Conv -> {Unindexed} \cup SUBSET Message]
      BY DEF Sound, Table
    <3> HIDE DEF W
    <3> QED BY <2>4, <3>1, <3>2
  <2>7. W \in Table
    <3>1. work \in Table
      BY DEF Sound
    <3> QED BY <2>5, <2>6, <3>1 DEF Table
  <2> HIDE DEF W
  <2>8. Sound(work')
    BY <2>1, <2>4, <2>5, <2>7 DEF Sound
  <2>9. ControlInv'
    BY <2>1, <2>2, <2>4 DEF ControlInv
  <2>10. ASSUME ~torn', NEW c \in Conv
         PROVE  IF c \in M.convs THEN W.hash[c] = In(M, c) => In(W, c) = In(M, c)
                                 ELSE W.hash[c] = Unindexed
    <3>1. ~torn /\ read = In(M, open)
      BY <2>1, <2>10
    <3>2. CASE c = open
      <4>1. In(W, open) = read
        BY <2>3, <2>4, ConvAssumption DEF In
      <4> QED BY <2>2, <3>1, <3>2, <4>1
    <3>3. CASE c # open
      <4>1. In(W, c) = In(work, c) \ read
        BY <2>3, <2>4, <3>3, ConvAssumption DEF In
      <4>2. In(M, c) \cap read = {}
        BY <3>1, <3>3 DEF In
      <4>3. W.hash[c] = work.hash[c]
        BY <2>3, <2>4, <3>3 DEF Sound, Table
      <4>4. IF c \in M.convs THEN work.hash[c] = In(M, c) => In(work, c) = In(M, c)
                             ELSE work.hash[c] = Unindexed
        BY <2>1, <2>2, <3>1 DEF WorkInv
      <4> QED BY <4>1, <4>2, <4>3, <4>4
    <3> QED BY <3>2, <3>3
  <2>11. WorkInv'
    <3>1. ~torn' => Clean(cache)'
      BY <2>1 DEF WorkInv, Clean
    <3>2. phase' = "messages" /\ work'.convs = M.convs /\ manifest'[tx'] = M
      BY <2>1, <2>2, <2>4
    <3>3. \A c : In(W, c) = In(work', c) /\ In(M, c) = In(manifest'[tx'], c)
      BY <2>1, <3>2
    <3>4. ~torn' => \A c \in Conv :
             IF c \in work'.convs
             THEN work'.hash[c] = In(manifest'[tx'], c) => In(work', c) = In(manifest'[tx'], c)
             ELSE work'.hash[c] = Unindexed
      BY <2>1, <2>10, <3>2, <3>3
    <3> QED BY <3>1, <3>2, <3>4 DEF WorkInv, In
  <2> QED BY <2>1, <2>3, <2>8, <2>9, <2>11 DEF Sound
<1>9. ASSUME NEW r \in Reader, Commit(r), UNCHANGED exportVars PROVE CacheInv'
  <2> DEFINE M == manifest[r]
  <2>1. tx = r /\ phase = "messages" /\ Changed(r) = {} /\ cache' = work /\ End(r) /\ torn' = torn
    BY <1>9 DEF Commit
  <2>2. M \in Snapshot /\ work.convs = M.convs /\ work.convsHash = M.convs
    BY <2>1 DEF ControlInv
  <2>3. ASSUME ~torn PROVE Holds(work, M)
    <3>1. \A c \in M.convs : c \in Conv /\ work.hash[c] = In(M, c) /\ In(work, c) = In(M, c)
      BY <2>1, <2>2, <2>3, SnapshotParts DEF WorkInv, Changed
    <3>2. \A c \in Conv : c \notin M.convs => work.hash[c] = Unindexed
      BY <2>1, <2>2, <2>3 DEF WorkInv
    <3>3. \A m \in Message : work.where[m] = M.where[m]
      <4> SUFFICES ASSUME NEW m \in Message PROVE work.where[m] = M.where[m]
        OBVIOUS
      <4>1. work.where[m] \in M.convs \cup {None} /\ M.where[m] \in M.convs \cup {None}
        BY <2>2, SnapshotParts DEF Sound
      <4>2. \A c \in M.convs : work.where[m] = c <=> M.where[m] = c
        BY <3>1 DEF In
      <4> QED BY <4>1, <4>2
    <3>4. work.where \in Where /\ M.where \in Where /\ work.hash \in [Conv -> {Unindexed} \cup SUBSET Message]
      BY <2>2, SnapshotAssumption DEF Sound, Table
    <3>5. work.where = M.where
      BY <3>3, <3>4 DEF Where
    <3>6. work.hash = [c \in Conv |-> IF c \in M.convs THEN In(M, c) ELSE Unindexed]
      BY <3>1, <3>2, <3>4
    <3> QED BY <2>2, <3>5, <3>6 DEF Holds
  <2>4. Sound(cache') /\ (torn \/ Clean(cache'))
    BY <2>1, <2>2, <2>3 DEF Clean, Sound
  <2> QED BY <1>9, <2>1, <2>4, EndKeeps
<1>10. ASSUME NEW r \in Reader, Rollback(r), UNCHANGED exportVars PROVE CacheInv'
  BY <1>10, EndKeeps DEF Rollback
<1> HIDE DEF CacheInv
<1> QED BY <1>1, <1>2, <1>3, <1>4, <1>5, <1>6, <1>7, <1>8, <1>9, <1>10 DEF Next, Refresh

\* The cache is the image of one archive that was exported, for any number of
\* exporters, viewers, conversations and messages, unless a file was replaced
\* between the two times it was opened.
THEOREM CacheOfOneArchive == Spec => []CacheIsOneArchive
<1>1. Init => CacheInv
  BY InitInvariant, EmptySound DEF Init, IInv, CacheInv, ControlInv, WorkInv, Clean
<1>2. CacheInv => CacheIsOneArchive
  BY DEF CacheInv, WorkInv, Clean, CacheIsOneArchive, Sound
<1> QED BY <1>1, <1>2, CacheStep, PTL DEF Spec

\* With viewers beside it, a directory behaves as with exports alone: the theorems
\* above hold beside any number of viewers.
THEOREM ViewersOnlyRead == Spec => ExportSpec
<1>1. Init => ExportInit
  BY DEF Init
<1>2. [Next]_vars => [ExportNext]_exportVars
  BY DEF Next, vars
<1> QED BY <1>1, <1>2, PTL DEF Spec, ExportSpec
=============================================================================
