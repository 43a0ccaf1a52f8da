--------------------------- MODULE TelephonyExport ---------------------------
(***************************************************************************)
(* `gmcli android export-telephony` (internal/androidtelephony/export.go): *)
(* the helper on the phone queries a provider that keeps changing, its     *)
(* records are segmented into a temporary directory, and the directory     *)
(* takes the place of the archive, between two verifications.  Exporters   *)
(* into one directory run side by side, fail at any call and may be        *)
(* killed.  The pipe of the helper holds the rows of one query.            *)
(***************************************************************************)
EXTENDS TelephonyArchive, SequencesExt

CONSTANTS
    Exporter,
    Histories,          \* what the phone holds, one state after another
    OldArchives,        \* what the output directory may hold at first
    IncludePartData,    \* --include-part-data
    MaxOpenFiles        \* maxOpenSegmentFiles

ASSUME LimitAssumption == MaxOpenFiles \in Nat \ {0}

\* A table, in some order.
Listed(table) == Len(table) \in Nat /\ DOMAIN table = 1 .. Len(table)

\* The phone is in some state; the ID of an MMS is its primary key.
ASSUME HistoriesAssumption ==
    \A h \in Histories :
        /\ Len(h) \in Nat \ {0}
        /\ \A i \in 1 .. Len(h) :
              /\ Listed(h[i].sms) /\ Listed(h[i].mms) /\ Listed(h[i].parts) /\ Listed(h[i].threads)
              /\ \A m, n \in DOMAIN h[i].mms : h[i].mms[m].id = h[i].mms[n].id => m = n

VARIABLES
    history, now,       \* the phone holds history[now]
    forced,             \* exporters with --force
    dir,                \* the directories that exist
    pc,                 \* control of each exporter
    helper, pipe,       \* the helper it listens to, and what that wrote and nobody read
    segment,            \* segmentRaw
    had,                \* hadExisting
    result,             \* what the command says
    trouble,            \* history: a call failed for a reason of its own
    decayed,            \* history: the disk has lost a file
    taken               \* history: a rollback has taken an archive found good

phone   == <<history, now>>
stream  == <<helper, pipe, segment>>
outcome == <<had, result, trouble>>
mishaps == <<decayed, taken>>
vars    == <<phone, forced, dir, pc, stream, outcome, mishaps>>

Destination == <<"out", 0>>
Tmp(e)      == <<".gmcli-telephony", e>>
Old(e)      == <<".out.old", e>>
Directories == {Destination} \cup {Tmp(e) : e \in Exporter} \cup {Old(e) : e \in Exporter}

\* Maps: a value or a default, a value put, a key removed.
At(f, x, default) == IF x \in DOMAIN f THEN f[x] ELSE default
With(f, x, y)     == [k \in DOMAIN f \cup {x} |-> IF k = x THEN y ELSE f[k]]
Without(f, x)     == [k \in DOMAIN f \ {x} |-> f[k]]

Exists(d) == d \in DOMAIN dir
Good(d)   == Exists(d) /\ Verify(dir[d])

\* An empty directory, with what a reader should know of its making.
NewDirectory(e) == [sealed |-> FALSE, manifest |-> <<>>, files |-> <<>>, by |-> e,
                    sent |-> <<>>, from |-> now, until |-> now, checked |-> FALSE]

NoHelper  == [state |-> "none", query |-> 0, ids |-> <<>>]
NoSegment == [mmsThreads |-> <<>>, records |-> <<>>, recent |-> <<>>]

Init ==
    /\ history \in Histories /\ now = 1
    /\ forced \in SUBSET Exporter
    /\ \/ dir = <<>>
       \/ \E old \in OldArchives : dir = [d \in {Destination} |-> old]
    /\ pc = [e \in Exporter |-> "idle"]
    /\ helper = [e \in Exporter |-> NoHelper] /\ pipe = [e \in Exporter |-> <<>>]
    /\ segment = [e \in Exporter |-> NoSegment]
    /\ had = [e \in Exporter |-> FALSE] /\ result = [e \in Exporter |-> "none"]
    /\ trouble = [e \in Exporter |-> FALSE]
    /\ decayed = FALSE /\ taken = FALSE

Goto(e, next) == pc' = [pc EXCEPT ![e] = next]

\* The command is over with an error; the temporary directory goes, if it is there.
End(e, directories, says) ==
    /\ Goto(e, "failed")
    /\ dir' = Without(directories, Tmp(e))
    /\ result' = [result EXCEPT ![e] = says]

Trouble(e) == trouble' = [trouble EXCEPT ![e] = TRUE]

-----------------------------------------------------------------------------
(* The phone and the helper on it (TelephonyExport.java).                  *)

Changes ==
    /\ now < Len(history) /\ now' = now + 1
    /\ UNCHANGED <<history, forced, dir, pc, stream, outcome, mishaps>>

\* Mutant: the parts come before the messages.
PartsFirstMutant ==
    <<"metadata", "sms", "part", "mms", "address", "thread", "canonical", "summary">>

Queries == <<"metadata", "sms", "mms", "address", "part", "thread", "canonical", "summary">>

\* A part, and its content if it is wanted.
PartRows(part) ==
    <<Record("mms_part", 0, part.id, part.mms, 0)>>
    \o IF IncludePartData /\ part.data # 0
       THEN <<Record("mms_part_data", 0, part.id, part.mms, part.data)>> ELSE <<>>

Rows(at, query, ids) ==
    CASE query = "metadata"  -> <<Record("metadata", 0, 0, 0, 0)>>
      [] query = "sms"       -> [i \in DOMAIN at.sms |-> Record("sms", at.sms[i].thread, at.sms[i].id, 0, 0)]
      [] query = "mms"       -> [i \in DOMAIN at.mms |-> Record("mms", at.mms[i].thread, at.mms[i].id, 0, 0)]
      [] query = "address"   ->
            FlattenSeq([i \in DOMAIN ids |->
                IF ids[i] \in at.addressed THEN <<Record("mms_address", 0, 0, ids[i], 0)>> ELSE <<>>])
      [] query = "part"      -> FlattenSeq([i \in DOMAIN at.parts |-> PartRows(at.parts[i])])
      [] query = "thread"    -> [i \in DOMAIN at.threads |-> Record("thread", at.threads[i], 0, 0, 0)]
      [] query = "canonical" -> <<Record("canonical_address", 0, 0, 0, 0)>>
      [] query = "summary"   -> <<Record("summary", 0, 0, 0, 0)>>

\* One query, of the provider as it is now.  The addresses are really asked for
\* message by message, and a part's content after its row; no property is about
\* the addresses, and a part whose content has gone makes the helper fail.
Query(e) ==
    LET h    == helper[e]
        rows == Rows(history[now], Queries[h.query], h.ids)
    IN
    /\ h.state = "running" /\ h.query <= Len(Queries) /\ pipe[e] = <<>>
    /\ pipe' = [pipe EXCEPT ![e] = rows]
    /\ helper' = [helper EXCEPT ![e].query = @ + 1,
                                ![e].ids   = IF Queries[h.query] = "mms"
                                             THEN [i \in DOMAIN rows |-> rows[i].id] ELSE @]
    /\ dir' = [dir EXCEPT ![Tmp(e)].sent = @ \o rows, ![Tmp(e)].until = now]
    /\ UNCHANGED <<phone, forced, pc, segment, outcome, mishaps>>

HelperExits(e) ==
    /\ helper[e].state = "running" /\ helper[e].query > Len(Queries)
    /\ helper' = [helper EXCEPT ![e].state = "exited"]
    /\ UNCHANGED <<phone, forced, dir, pc, pipe, segment, outcome, mishaps>>

\* A query fails, a part cannot be opened, the phone is unplugged.
HelperFails(e) ==
    /\ helper[e].state = "running"
    /\ helper' = [helper EXCEPT ![e].state = "failed"]
    /\ Trouble(e)
    /\ UNCHANGED <<phone, forced, dir, pc, pipe, segment, had, result, mishaps>>

-----------------------------------------------------------------------------
(* Export and segmentRaw.                                                  *)

Start(e) ==
    /\ pc[e] = "idle"
    /\ IF e \notin forced /\ Exists(Destination)
       THEN End(e, dir, "refused") /\ UNCHANGED helper
       ELSE /\ dir' = With(dir, Tmp(e), NewDirectory(e))
            /\ helper' = [helper EXCEPT ![e] = [NoHelper EXCEPT !.state = "running", !.query = 1]]
            /\ Goto(e, "reading")
            /\ UNCHANGED result
    /\ UNCHANGED <<phone, forced, pipe, segment, had, trouble, mishaps>>

\* No device, no helper on it, a full disk, an invalid line, a part that does
\* not have its checksum, an interrupt.
Aborts(e) ==
    /\ pc[e] \in {"reading", "waiting", "manifest"}
    /\ End(e, dir, "failed") /\ Trouble(e)
    /\ helper' = [helper EXCEPT ![e] = NoHelper] /\ pipe' = [pipe EXCEPT ![e] = <<>>]
    /\ UNCHANGED <<phone, forced, segment, had, mishaps>>

\* Mutant: one file too many is open.
OneMoreMutant(recent, key) ==
    IF Contains(recent, key) THEN <<key>> \o RemoveFirst(recent, key)
    ELSE <<key>> \o IF Len(recent) > MaxOpenFiles THEN Front(recent) ELSE recent

\* outputFiles: at most MaxOpenFiles are open, the one longest unused is closed.
Used(recent, key) ==
    IF Contains(recent, key) THEN <<key>> \o RemoveFirst(recent, key)
    ELSE <<key>> \o IF Len(recent) >= MaxOpenFiles THEN Front(recent) ELSE recent

\* Mutant: a file that is not open is created.
TruncatingMutant(file, open, records) == IF open THEN file ELSE <<>>

\* openFile: what a record is written to the end of.  A file that is not open is
\* created for its first record, and opened for appending after it was closed.
Opened(file, open, records) == IF ~open /\ records = 0 THEN <<>> ELSE file

\* To the end of its file, the content of a part to a file of its own.
Store(e, r, key) ==
    LET s     == segment[e]
        files == dir[Tmp(e)].files
        count == At(s.records, key, 0)
        file  == Append(Opened(At(files, key, <<>>), Contains(s.recent, key), count), r)
        media == IF r.type = "mms_part_data" THEN With(files, MediaFile(r.data), <<r.data>>)
                                             ELSE files
    IN
    /\ dir' = [dir EXCEPT ![Tmp(e)].files = With(media, key, file)]
    /\ segment' = [segment EXCEPT ![e] =
          [mmsThreads |-> IF r.type = "mms" THEN With(s.mmsThreads, r.id, r.thread) ELSE s.mmsThreads,
           records    |-> With(s.records, key, count + 1),
           recent     |-> Used(s.recent, key)]]

\* Mutant: what belongs to a message that is not there is dropped.
DropOrphanMutant(e, r) ==
    LET key == FileOf(r, segment[e].mmsThreads) IN
    IF key = Orphaned THEN UNCHANGED <<dir, segment>> ELSE Store(e, r, key)

Segment(e, r) == Store(e, r, FileOf(r, segment[e].mmsThreads))

\* A row without its thread ends the export; the summary ends the reading.
Read(e) ==
    LET r == Head(pipe[e]) IN
    /\ pc[e] = "reading" /\ pipe[e] # <<>>
    /\ IF r.type \in OfThread /\ r.thread = 0
       THEN /\ End(e, dir, "failed") /\ Trouble(e)
            /\ helper' = [helper EXCEPT ![e] = NoHelper] /\ pipe' = [pipe EXCEPT ![e] = <<>>]
            /\ UNCHANGED segment
       ELSE /\ Segment(e, r)
            /\ pipe' = [pipe EXCEPT ![e] = Tail(@)]
            /\ IF r.type = "summary" THEN Goto(e, "waiting") ELSE UNCHANGED pc
            /\ UNCHANGED <<helper, result, trouble>>
    /\ UNCHANGED <<phone, forced, had, mishaps>>

\* The pipe ends without a summary.
EndOfStream(e) ==
    /\ pc[e] = "reading" /\ pipe[e] = <<>> /\ helper[e].state = "failed"
    /\ End(e, dir, "failed")
    /\ UNCHANGED <<phone, forced, stream, had, trouble, mishaps>>

\* Mutant: a helper that does not end is waited for.
WaitForeverMutant(e) ==
    /\ pc[e] = "waiting" /\ helper[e].state # "running"
    /\ IF helper[e].state = "failed" THEN End(e, dir, "failed")
                                     ELSE Goto(e, "manifest") /\ UNCHANGED <<dir, result>>
    /\ helper' = [helper EXCEPT ![e] = NoHelper]
    /\ UNCHANGED <<phone, forced, pipe, segment, had, trouble, mishaps>>

\* The helper has ended, or is killed after the grace period.
Wait(e) ==
    /\ pc[e] = "waiting"
    /\ IF helper[e].state = "failed" THEN End(e, dir, "failed")
                                     ELSE Goto(e, "manifest") /\ UNCHANGED <<dir, result>>
    /\ helper' = [helper EXCEPT ![e] = NoHelper]
    /\ UNCHANGED <<phone, forced, pipe, segment, had, trouble, mishaps>>

Manifest(files, records) ==
    [p \in DOMAIN files |-> [records |-> At(records, p, 0), sha256 |-> files[p]]]

WriteManifest(e) ==
    /\ pc[e] = "manifest"
    /\ dir' = [dir EXCEPT ![Tmp(e)].manifest = Manifest(dir[Tmp(e)].files, segment[e].records),
                          ![Tmp(e)].sealed   = TRUE]
    /\ Goto(e, "verifying")
    /\ UNCHANGED <<phone, forced, stream, outcome, mishaps>>

-----------------------------------------------------------------------------
(* installDirectoryWithVerifier.  A rename needs its source and no target. *)

CanRename(d, to) == Exists(d) /\ ~Exists(to)
Renamed(d, to)   == With(Without(dir, d), to, dir[d])

VerifyNew(e) ==
    /\ pc[e] = "verifying"
    /\ IF Good(Tmp(e))
       THEN Goto(e, IF e \in forced THEN "preserving" ELSE "placing") /\ UNCHANGED <<dir, result>>
       ELSE End(e, dir, "failed")
    /\ UNCHANGED <<phone, forced, stream, had, trouble, mishaps>>

\* The old archive is moved aside, if there is one.
Preserve(e) ==
    /\ pc[e] = "preserving"
    /\ \/ /\ had' = [had EXCEPT ![e] = Exists(Destination)]
          /\ dir' = IF Exists(Destination) THEN Renamed(Destination, Old(e)) ELSE dir
          /\ Goto(e, "placing")
          /\ UNCHANGED <<result, trouble>>
       \/ End(e, dir, "failed") /\ Trouble(e) /\ UNCHANGED had
    /\ UNCHANGED <<phone, forced, stream, mishaps>>

Place(e) ==
    /\ pc[e] = "placing"
    /\ \/ /\ CanRename(Tmp(e), Destination)
          /\ dir' = Renamed(Tmp(e), Destination)
          /\ Goto(e, "checking")
          /\ UNCHANGED <<result, trouble>>
       \/ /\ IF had[e] THEN Goto(e, "restoring") /\ UNCHANGED <<dir, result>>
                       ELSE End(e, dir, "failed")
          /\ IF CanRename(Tmp(e), Destination) THEN Trouble(e) ELSE UNCHANGED trouble
    /\ UNCHANGED <<phone, forced, stream, had, mishaps>>

\* The old archive back in place, or an error that says where it is.
Restore(e) ==
    /\ pc[e] = "restoring"
    /\ \/ /\ CanRename(Old(e), Destination)
          /\ End(e, Renamed(Old(e), Destination), "failed")
          /\ UNCHANGED trouble
       \/ /\ End(e, dir, "remains")
          /\ IF CanRename(Old(e), Destination) THEN Trouble(e) ELSE UNCHANGED trouble
    /\ UNCHANGED <<phone, forced, stream, had, mishaps>>

\* Mutant: what is in place is not looked at again.
NoCheckMutant(e) ==
    /\ pc[e] = "checking"
    /\ Goto(e, "removing")
    /\ UNCHANGED <<phone, forced, dir, stream, outcome, mishaps>>

\* What is in place now is verified.
Check(e) ==
    /\ pc[e] = "checking"
    /\ IF Good(Destination)
       THEN Goto(e, "removing") /\ dir' = [dir EXCEPT ![Destination].checked = TRUE]
       ELSE Goto(e, "rolling back") /\ UNCHANGED dir
    /\ UNCHANGED <<phone, forced, stream, outcome, mishaps>>

\* It is moved back to the temporary path, and so removed.
RollBack(e) ==
    /\ pc[e] = "rolling back"
    /\ \/ /\ CanRename(Destination, Tmp(e))
          /\ IF had[e] THEN /\ dir' = Renamed(Destination, Tmp(e))
                            /\ Goto(e, "restoring") /\ UNCHANGED result
                       ELSE End(e, Renamed(Destination, Tmp(e)), "failed")
          /\ taken' = (taken \/ dir[Destination].checked)
          /\ UNCHANGED trouble
       \/ /\ End(e, dir, IF had[e] THEN "remains" ELSE "failed")
          /\ IF CanRename(Destination, Tmp(e)) THEN Trouble(e) ELSE UNCHANGED trouble
          /\ UNCHANGED taken
    /\ UNCHANGED <<phone, forced, stream, had, decayed>>

Debris(a) == [a EXCEPT !.sealed = FALSE, !.files = <<>>]

\* The old archive goes, or some of it stays and the command fails after all.
RemoveOld(e) ==
    /\ pc[e] = "removing"
    /\ \/ /\ Goto(e, "done")
          /\ dir' = Without(dir, Old(e))
          /\ result' = [result EXCEPT ![e] = "ok"]
          /\ UNCHANGED trouble
       \/ /\ had[e] /\ Exists(Old(e))
          /\ End(e, [dir EXCEPT ![Old(e)] = Debris(@)], "failed") /\ Trouble(e)
    /\ UNCHANGED <<phone, forced, stream, had, mishaps>>

-----------------------------------------------------------------------------
(* Kills, and a disk that loses a file of what is being installed.         *)

\* Whatever goes on on the phone is of no consequence any more.
Dies(e) ==
    /\ pc[e] \notin {"idle", "done", "failed", "dead"}
    /\ Goto(e, "dead")
    /\ helper' = [helper EXCEPT ![e] = NoHelper] /\ pipe' = [pipe EXCEPT ![e] = <<>>]
    /\ UNCHANGED <<phone, forced, dir, segment, outcome, mishaps>>

Decays(e) ==
    LET d == IF pc[e] = "checking" THEN Destination ELSE Tmp(e) IN
    /\ pc[e] \in {"verifying", "preserving", "placing", "checking"}
    /\ ~decayed /\ Exists(d) /\ dir[d].by = e /\ ~dir[d].checked
    /\ \E p \in DOMAIN dir[d].files : dir' = [dir EXCEPT ![d].files[p] = <<>>]
    /\ decayed' = TRUE
    /\ UNCHANGED <<phone, forced, pc, stream, outcome, taken>>

Helper(e) == Query(e) \/ HelperExits(e) \/ HelperFails(e)

Export(e) ==
    \/ Read(e) \/ EndOfStream(e) \/ Wait(e) \/ WriteManifest(e)
    \/ VerifyNew(e) \/ Preserve(e) \/ Place(e) \/ Restore(e)
    \/ Check(e) \/ RollBack(e) \/ RemoveOld(e)

Next ==
    \/ \E e \in Exporter : Start(e) \/ Export(e) \/ Aborts(e) \/ Helper(e) \/ Dies(e) \/ Decays(e)
    \/ Changes

Spec == Init /\ [][Next]_vars

\* An exporter that can go on does; the helper need not.
FairSpec == Spec /\ \A e \in Exporter : WF_vars(Export(e))

-----------------------------------------------------------------------------
(* Properties.                                                             *)

Running(e) == pc[e] \notin {"idle", "done", "failed", "dead"}

\* The state has its type, with no more open files than allowed.
TypeOK ==
    /\ now \in 1 .. Len(history)
    /\ \A e \in Exporter :
          /\ Len(segment[e].recent) <= MaxOpenFiles
          /\ result[e] = "ok" <=> pc[e] = "done"
          /\ Exists(Old(e)) => e \in forced

\* The thread of every MMS that was sent at all.
ThreadsOf(sent) ==
    LET mms == {r \in ToSet(sent) : r.type = "mms"}
    IN  [m \in {r.id : r \in mms} |-> (CHOOSE r \in mms : r.id = m).thread]

\* The records that belong into one file, in the order in which they were sent.
Filed(sent, threads, path) ==
    LET upTo[i \in 0 .. Len(sent)] ==
            IF i = 0 THEN <<>>
            ELSE IF FileOf(sent[i], threads) = path THEN Append(upTo[i - 1], sent[i]) ELSE upTo[i - 1]
    IN  upTo[Len(sent)]

\* An archive that has every record the phone has sent, up to the summary, in
\* the file of its thread and in the order of the stream.
Lossless(a) ==
    LET threads == ThreadsOf(a.sent) IN
    /\ a.sent # <<>> /\ Last(a.sent).type = "summary"
    /\ \A i \in DOMAIN a.sent : FileOf(a.sent[i], threads) \in DOMAIN a.files
    /\ \A p \in DOMAIN a.files : ~IsMedia(p) => a.files[p] = Filed(a.sent, threads, p)

\* What is there at first was put there by exports that are over.
ASSUME OldArchivesAssumption ==
    \A a \in OldArchives :
        /\ DOMAIN a = {"sealed", "manifest", "files", "by", "sent", "from", "until", "checked"}
        /\ a.by \notin Exporter
        /\ Verify(a) => Lossless(a)

\* cmd/android.go:101 calls the export lossless: so is every archive that
\* verifies, whatever the disk has done to it.
VerifiedIsLossless == \A d \in DOMAIN dir : Verify(dir[d]) => Lossless(dir[d])

\* A message that is on the phone from the first query to the last is whole in
\* the archive, with its parts and what they hold, though others come and go.
Steady(states, a) ==
    LET seen  == {states[i] : i \in a.from .. a.until}
        first == states[a.from]
    IN  \A m \in ToSet(first.mms) : (\A at \in seen : m \in ToSet(at.mms)) =>
          /\ ThreadFile(m.thread) \in DOMAIN a.files
          /\ LET file == ToSet(a.files[ThreadFile(m.thread)]) IN
             /\ Record("mms", m.thread, m.id, 0, 0) \in file
             /\ \A p \in ToSet(first.parts) :
                   (p.mms = m.id /\ \A at \in seen : p \in ToSet(at.parts))
                   => ToSet(PartRows(p)) \subseteq file

SteadyIsWhole ==
    \A d \in DOMAIN dir : (Verify(dir[d]) /\ dir[d].by \in Exporter) => Steady(history, dir[d])

\* What segmentRaw makes passes the verification before the installation, and
\* the one after it: an export on its own that succeeds has put its archive in
\* place; one that fails had a cause, and has not, unless the rollback or the
\* removal of the old archive failed.
AllOrNothing ==
    \A e \in Exporter :
        (pc[e] \in {"done", "failed"} /\ \A o \in Exporter \ {e} : pc[o] = "idle")
        => LET mine == Exists(Destination) /\ dir[Destination].by = e
           IN  IF result[e] = "ok"
               THEN mine /\ Good(Destination)
               ELSE /\ trouble[e] \/ decayed \/ result[e] = "refused"
                    /\ mine => trouble[e]

\* An archive that was found good in its place, and is.
Secure(d) == Good(d) /\ dir[d].checked

Kept == \E d \in {Destination} \cup {Old(e) : e \in Exporter} : Secure(d)

\* With an archive in place, exporters may race, fail or be killed at any
\* point, and the disk may spoil what they install: a good archive remains,
\* unless a rollback took what was found good meanwhile for its own failure.
NeverLost == [][Kept => Kept' \/ taken']_vars

\* A complete summary is enough: the export ends though the helper does not.
EndsAfterSummary ==
    \A e \in Exporter : pc[e] = "waiting" ~> ~Running(e)
=============================================================================
