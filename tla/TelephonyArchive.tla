-------------------------- MODULE TelephonyArchive --------------------------
(***************************************************************************)
(* The Android Telephony archive (internal/androidtelephony): the records  *)
(* that the helper sends, the file each of them goes to (segmentRaw), and  *)
(* what verification asks of a directory (verify.go).                      *)
(*                                                                         *)
(* A file is the sequence of its records, a media file the one content it  *)
(* has.  SHA-256 has no collisions: a checksum is what it was taken of.    *)
(* Paths, permissions and JSON are always well formed here.                *)
(***************************************************************************)
EXTENDS Naturals, FiniteSets, Sequences

\* A record has a type; the thread it names, 0 for a null column; its own ID;
\* the MMS it is of; and the content of a part, 0 if it has none.
Record(type, thread, id, mms, data) ==
    [type |-> type, thread |-> thread, id |-> id, mms |-> mms, data |-> data]

OfThread == {"sms", "mms", "thread"}
OfMms    == {"mms_address", "mms_part", "mms_part_data"}

Metadata           == <<"metadata.jsonl", 0>>
CanonicalAddresses == <<"canonical-addresses.jsonl", 0>>
Orphaned           == <<"orphaned-mms.jsonl", 0>>
ThreadFile(t)      == <<"threads", t>>
MediaFile(content) == <<"media", content>>

IsThread(path) == path[1] = "threads"
IsMedia(path)  == path[1] = "media"

\* Where a record is written, mmsThreads being the thread of every MMS before it.
FileOf(r, mmsThreads) ==
    CASE r.type \in OfThread -> ThreadFile(r.thread)
      [] r.type \in OfMms /\ r.mms \in DOMAIN mmsThreads -> ThreadFile(mmsThreads[r.mms])
      [] r.type \in OfMms /\ r.mms \notin DOMAIN mmsThreads -> Orphaned
      [] r.type = "canonical_address" -> CanonicalAddresses
      [] OTHER -> Metadata

-----------------------------------------------------------------------------
(* Verify.                                                                 *)

HasType(file, types) == \A i \in DOMAIN file : file[i].type \in types

\* verifyThreadJSONL: every row is of the thread, and what is of an MMS comes
\* after it.
ThreadIsValid(file, thread) ==
    \A i \in DOMAIN file :
        \/ file[i].type \in OfThread /\ file[i].thread = thread
        \/ file[i].type \in OfMms
           /\ \E j \in 1 .. i - 1 : file[j].type = "mms" /\ file[j].id = file[i].mms

\* verifyGlobalJSONL
GlobalIsValid(path, file) ==
    CASE path = Metadata ->
            /\ HasType(file, {"metadata", "summary"})
            /\ \A type \in {"metadata", "summary"} : \E i \in DOMAIN file : file[i].type = type
      [] path = CanonicalAddresses -> HasType(file, {"canonical_address"})
      [] path = Orphaned -> HasType(file, OfMms)
      [] OTHER -> FALSE

\* The media files that the records refer to.
References(files) ==
    UNION {{MediaFile(files[p][i].data) :
               i \in {k \in DOMAIN files[p] : files[p][k].type = "mms_part_data"}} :
           p \in {q \in DOMAIN files : ~IsMedia(q)}}

\* A directory with a manifest (sealed) that lists what is there, each file as it
\* was, with as many records as it should have, all of them where they belong.
Verify(a) ==
    /\ a.sealed
    /\ DOMAIN a.files = DOMAIN a.manifest
    /\ \A p \in DOMAIN a.files :
          /\ a.files[p] = a.manifest[p].sha256
          /\ IF IsMedia(p) THEN a.files[p] = <<p[2]>>
             ELSE /\ Len(a.files[p]) = a.manifest[p].records
                  /\ IF IsThread(p) THEN ThreadIsValid(a.files[p], p[2])
                                    ELSE GlobalIsValid(p, a.files[p])
    /\ References(a.files) = {p \in DOMAIN a.files : IsMedia(p)}
=============================================================================
