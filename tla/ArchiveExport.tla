--------------------------- MODULE ArchiveExport ---------------------------
(***************************************************************************)
(* `gmcli export jsonl`: WriteJSONL and installDirectory                   *)
(* (internal/archive/jsonl.go).  A directory is renamed as a whole, and a  *)
(* rename onto a directory with files in it fails.                         *)
(*                                                                         *)
(* A snapshot stands for all files of one archive: which conversations     *)
(* there are and which of them holds each message.  Manifest and hashes    *)
(* are functions of it.                                                    *)
(***************************************************************************)
EXTENDS FiniteSets

CONSTANTS
    Writer,      \* export processes with the same --out
    Snapshot,    \* what a read transaction on a store may see
    None         \* no such directory

ASSUME NoneAssumption == None \notin Snapshot

VARIABLES
    pc,          \* control of each writer
    force,       \* its --force
    tmp,         \* its .gmcli-jsonl-* directory
    backup,      \* its .gmcli-replaced-* directory, as long as that is complete
    target,      \* the directory --out
    orphaned,    \* a complete archive was left under the other name, half-way
    installed, cut  \* history: --out has existed; a replacement ended half-way

exportVars == <<pc, force, tmp, backup, target, orphaned, installed, cut>>

ExportInit ==
    /\ pc = [w \in Writer |-> "idle"]
    /\ force = [w \in Writer |-> FALSE]
    /\ tmp = [w \in Writer |-> None]
    /\ backup = [w \in Writer |-> None]
    /\ target = None
    /\ orphaned = FALSE /\ installed = FALSE /\ cut = FALSE

Goto(w, label) == pc' = [pc EXCEPT ![w] = label]

\* Return: the deferred RemoveAll of tmp.
Return(w) ==
    /\ Goto(w, "idle")
    /\ tmp' = [tmp EXCEPT ![w] = None]
    /\ force' = [force EXCEPT ![w] = FALSE]

-----------------------------------------------------------------------------

\* WriteJSONL up to the temporary directory; without --force it gives up
\* here already if --out exists.
WriteJSONL(w, f) ==
    /\ pc[w] = "idle"
    /\ f \/ target = None
    /\ Goto(w, "snapshot")
    /\ force' = [force EXCEPT ![w] = f]
    /\ UNCHANGED <<tmp, backup, target, orphaned, installed, cut>>

\* writeJSONLSnapshot and writeManifest: one read transaction.
WriteSnapshot(w) ==
    /\ pc[w] = "snapshot"
    /\ \/ \E s \in Snapshot :
             /\ tmp' = [tmp EXCEPT ![w] = s]
             /\ Goto(w, "inspect")
             /\ UNCHANGED force
       \/ Return(w)
    /\ UNCHANGED <<backup, target, orphaned, installed, cut>>

\* The os.Stat of installDirectory.
Inspect(w) ==
    /\ pc[w] = "inspect"
    /\ \/ target = None /\ Goto(w, "install") /\ UNCHANGED <<tmp, force>>
       \/ target # None /\ force[w] /\ Goto(w, "move") /\ UNCHANGED <<tmp, force>>
       \/ target # None /\ ~force[w] /\ Return(w)
    /\ UNCHANGED <<backup, target, orphaned, installed, cut>>

\* Nothing was there: one rename, which fails if something is now, or on its own.
Install(w) ==
    /\ pc[w] = "install"
    /\ \/ target = None /\ target' = tmp[w] /\ installed' = TRUE
       \/ UNCHANGED <<target, installed>>
    /\ Return(w)
    /\ UNCHANGED <<backup, orphaned, cut>>

\* The first rename of a replacement, which fails if nothing is there any more,
\* or on its own.
MoveAside(w) ==
    /\ pc[w] = "move"
    /\ \/ /\ target # None
          /\ backup' = [backup EXCEPT ![w] = target]
          /\ target' = None
          /\ Goto(w, "place")
          /\ UNCHANGED <<tmp, force>>
       \/ Return(w) /\ UNCHANGED <<backup, target>>
    /\ UNCHANGED <<orphaned, installed, cut>>

\* Mutant: a failure is returned at once.
ReturnAtOnceMutant(w) ==
    /\ pc[w] = "place"
    /\ \/ /\ target = None
          /\ target' = tmp[w]
          /\ Goto(w, "remove")
          /\ UNCHANGED <<force, tmp, backup, orphaned>>
       \/ /\ orphaned' = TRUE
          /\ backup' = [backup EXCEPT ![w] = None]
          /\ Return(w)
          /\ UNCHANGED target
    /\ UNCHANGED <<installed, cut>>

\* The second rename, which fails if somebody was faster, or on its own.
Place(w) ==
    /\ pc[w] = "place"
    /\ \/ target = None /\ target' = tmp[w] /\ Goto(w, "remove")
       \/ UNCHANGED target /\ Goto(w, "restore")
    /\ UNCHANGED <<force, tmp, backup, orphaned, installed, cut>>

\* Mutant: after a failure the backup is cleaned up as well.
NoRestoreMutant(w) ==
    /\ pc[w] = "restore"
    /\ backup' = [backup EXCEPT ![w] = None]
    /\ Return(w)
    /\ UNCHANGED <<target, orphaned, installed, cut>>

\* The rename back, whose error is ignored: somebody was faster again, whose
\* archive is there, or it fails on its own.
Restore(w) ==
    /\ pc[w] = "restore"
    /\ backup' = [backup EXCEPT ![w] = None]
    /\ \/ target = None /\ target' = backup[w] /\ UNCHANGED <<orphaned, cut>>
       \/ target # None /\ UNCHANGED <<target, orphaned, cut>>
       \/ /\ orphaned' = (orphaned \/ backup[w] # None)
          /\ cut' = TRUE
          /\ UNCHANGED target
    /\ Return(w)
    /\ UNCHANGED installed

\* RemoveAll goes file by file: it fails before the first, or the replaced
\* archive is no longer complete.
RemoveBackup(w) ==
    /\ pc[w] = "remove"
    /\ backup' = [backup EXCEPT ![w] = None]
    /\ Return(w) \/ (Goto(w, "removing") /\ UNCHANGED <<force, tmp>>)
    /\ UNCHANGED <<target, orphaned, installed, cut>>

\* ... and it ends with the directory gone, or with an error and a rest of it.
RemoveRest(w) ==
    /\ pc[w] = "removing"
    /\ Return(w)
    /\ UNCHANGED <<backup, target, orphaned, installed, cut>>

\* The process dies; nobody ever looks for what it leaves.
Die(w) ==
    /\ pc[w] # "idle"
    /\ orphaned' = (orphaned \/ (pc[w] \in {"place", "restore"} /\ backup[w] # None))
    /\ cut' = (cut \/ pc[w] \in {"place", "restore"})
    /\ backup' = [backup EXCEPT ![w] = None]
    /\ Return(w)
    /\ UNCHANGED <<target, installed>>

ExportNext ==
    \E w \in Writer :
        \/ \E f \in BOOLEAN : WriteJSONL(w, f)
        \/ WriteSnapshot(w) \/ Inspect(w) \/ Install(w)
        \/ MoveAside(w) \/ Place(w) \/ Restore(w)
        \/ RemoveBackup(w) \/ RemoveRest(w) \/ Die(w)

ExportSpec == ExportInit /\ [][ExportNext]_exportVars

-----------------------------------------------------------------------------
(* Properties.                                                             *)

ExportTypeOK ==
    /\ pc \in [Writer -> {"idle", "snapshot", "inspect", "install", "move",
                          "place", "restore", "remove", "removing"}]
    /\ force \in [Writer -> BOOLEAN]
    /\ tmp \in [Writer -> Snapshot \cup {None}]
    /\ backup \in [Writer -> Snapshot \cup {None}]
    /\ target \in Snapshot \cup {None}
    /\ {orphaned, installed, cut} \subseteq BOOLEAN

\* Once there has been an archive, a complete one is on the disk at every
\* moment: in --out, or where a writer that is at work, or that ended between
\* its two renames, has moved it.  What another writer leaves, because it died
\* or failed while it removed a replaced archive, is never needed for that.
NeverLost ==
    installed => target # None \/ orphaned \/ \E w \in Writer : backup[w] # None

\* It is in --out whenever no writer is between its two renames and none
\* ended there, by its death or because it could not even rename back: a race
\* of two replacements, or a failing rename, leaves one.
ArchiveInPlace ==
    installed /\ ~cut /\ (\A w \in Writer : pc[w] \notin {"place", "restore"})
        => target # None

\* Only an export with --force replaces an archive, although the check and the
\* rename of one without are two steps.
ForceRequired ==
    [][target # None /\ target' # target
          => \E w \in Writer : force[w] /\ pc'[w] # pc[w]]_exportVars
=============================================================================
