---------------------------- MODULE ViewerCache ----------------------------
(***************************************************************************)
(* The viewer's SQLite cache of an archive that exports replace: Open and  *)
(* Refresh (internal/viewer/archive.go), by any number of processes that   *)
(* share the cache.                                                        *)
(*                                                                         *)
(* The manifest of an archive is read at one moment and its files later,   *)
(* each by its path.  A file's hash is its contents.  The step of a reader *)
(* is what it does with one file.  SQLite lets one transaction commit of   *)
(* those that overlap and write: the model has the one that will.          *)
(***************************************************************************)
EXTENDS ArchiveExport

CONSTANTS
    Conv,        \* conversations, each with a file of its messages
    Message,
    Reader       \* processes that refresh the cache

Where == [Message -> Conv \cup {None}]

ASSUME ConvAssumption == None \notin Conv \cup Message
ASSUME SnapshotAssumption ==
    \A s \in Snapshot : /\ s.convs \subseteq Conv /\ s.where \in Where
                        /\ \A m \in Message : s.where[m] \in s.convs \cup {None}

VARIABLES
    cache,       \* the committed tables
    manifest,    \* the manifest each reader has read, or None
    tx,          \* the reader whose transaction will commit, or None
    work,        \* the tables as that transaction sees them
    phase,       \* how far it is
    open,        \* the message file it has verified and not read, or None
    torn         \* history: a file was replaced between the two

txVars     == <<tx, work, phase, open>>
viewerVars == <<cache, manifest, txVars, torn>>
vars       == <<exportVars, viewerVars>>

\* The messages of a file, or of a conversation in the cache.
In(t, c) == {m \in Message : t.where[m] = c}

\* The hash of a file that is not in archive_cache_files.
Unindexed == {None}

Empty == [convs |-> {}, where |-> [m \in Message |-> None],
          convsHash |-> Unindexed, hash |-> [c \in Conv |-> Unindexed]]

Init ==
    /\ ExportInit
    /\ cache = Empty
    /\ manifest = [r \in Reader |-> None]
    /\ tx = None /\ work = Empty /\ phase = "none" /\ open = None
    /\ torn = FALSE

-----------------------------------------------------------------------------

ReadManifest(r) ==
    /\ manifest[r] = None
    /\ target # None
    /\ manifest' = [manifest EXCEPT ![r] = target]
    /\ UNCHANGED <<cache, txVars, torn>>

\* BEGIN, and the SELECT from archive_cache_files.  What the reader has read
\* may be older than what another has put into the cache since.
BeginTx(r) ==
    /\ tx = None /\ manifest[r] # None
    /\ tx' = r /\ work' = cache /\ phase' = "conversations" /\ open' = None
    /\ UNCHANGED <<cache, manifest, torn>>

\* Conversations that are gone take their messages with them.
Stored(t, convs) ==
    [t EXCEPT !.convs = convs,
              !.convsHash = convs,
              !.where = [m \in Message |-> IF t.where[m] \in convs THEN t.where[m] ELSE None]]

\* indexConversations, if the hash is new.  The file must list what the
\* manifest does, so that one of another archive is an error even if it comes
\* after the hash has been verified.
IndexConversations(r) ==
    /\ tx = r /\ phase = "conversations"
    /\ \/ work.convsHash = manifest[r].convs /\ UNCHANGED work
       \/ /\ work.convsHash # manifest[r].convs
          /\ target # None /\ target.convs = manifest[r].convs
          /\ work' = Stored(work, target.convs)
    /\ phase' = "files"
    /\ UNCHANGED <<cache, manifest, tx, open, torn>>

\* Message files that the manifest lists no more are dropped before others
\* are indexed.
DropFiles(r) ==
    LET gone == {c \in Conv : work.hash[c] # Unindexed /\ c \notin manifest[r].convs} IN
    /\ tx = r /\ phase = "files"
    /\ work' = [work EXCEPT
          !.where = [m \in Message |-> IF @[m] \in gone THEN None ELSE @[m]],
          !.hash  = [c \in Conv |-> IF c \in gone THEN Unindexed ELSE @[c]]]
    /\ phase' = "messages"
    /\ UNCHANGED <<cache, manifest, tx, open, torn>>

\* The files whose hash is new; the code visits them in any order.
Changed(r) == {c \in manifest[r].convs : work.hash[c] # In(manifest[r], c)}

\* verifySourceHash opens the file and closes it.
VerifyHash(r, c) ==
    /\ tx = r /\ phase = "messages" /\ open = None /\ c \in Changed(r)
    /\ target # None /\ c \in target.convs /\ In(target, c) = In(manifest[r], c)
    /\ open' = c
    /\ UNCHANGED <<cache, manifest, tx, work, phase, torn>>

\* Mutant: deletes what the old file had, wherever it is now.
DeleteMovedMutant(t, c, messages) ==
    [m \in Message |-> IF m \in messages THEN c
                       ELSE IF m \in t.hash[c] THEN None ELSE t.where[m]]

\* indexMessages: the file's messages come into its conversation from wherever
\* they were, and what else is in the conversation goes.
IndexMessages(t, c, messages) ==
    [m \in Message |-> IF m \in messages THEN c
                       ELSE IF t.where[m] = c THEN None ELSE t.where[m]]

\* readJSONL opens it again, and recordIndexedFile notes the manifest's hash.
ReadFile(r) ==
    /\ tx = r /\ open # None
    /\ target # None /\ open \in target.convs
    /\ work' = [work EXCEPT !.where      = IndexMessages(work, open, In(target, open)),
                            !.hash[open] = In(manifest[r], open)]
    /\ torn' = (torn \/ In(target, open) # In(manifest[r], open))
    /\ open' = None
    /\ UNCHANGED <<cache, manifest, tx, phase>>

\* Refresh returns.
End(r) ==
    /\ manifest' = [manifest EXCEPT ![r] = None]
    /\ IF tx = r THEN tx' = None /\ work' = Empty /\ phase' = "none" /\ open' = None
                 ELSE UNCHANGED txVars

Commit(r) ==
    /\ tx = r /\ phase = "messages" /\ open = None /\ Changed(r) = {}
    /\ cache' = work
    /\ End(r)
    /\ UNCHANGED torn

\* A file that is missing or has another hash, a busy database, an interrupt:
\* what was done is rolled back.
Rollback(r) ==
    /\ manifest[r] # None
    /\ End(r)
    /\ UNCHANGED <<cache, torn>>

Refresh(r) ==
    \/ ReadManifest(r) \/ BeginTx(r) \/ IndexConversations(r) \/ DropFiles(r)
    \/ \E c \in Conv : VerifyHash(r, c)
    \/ ReadFile(r) \/ Commit(r) \/ Rollback(r)

Next ==
    \/ ExportNext /\ UNCHANGED viewerVars
    \/ (\E r \in Reader : Refresh(r)) /\ UNCHANGED exportVars

Spec == Init /\ [][Next]_vars

-----------------------------------------------------------------------------
(* Properties.                                                             *)

Table == [convs : SUBSET Conv, where : Where,
          convsHash : {Unindexed} \cup SUBSET Conv,
          hash : [Conv -> {Unindexed} \cup SUBSET Message]]

Holds(t, s) ==
    /\ t.convs = s.convs /\ t.where = s.where /\ t.convsHash = s.convs
    /\ t.hash = [c \in Conv |-> IF c \in s.convs THEN In(s, c) ELSE Unindexed]

\* README.md:216 calls the cache derived from an archive that stays the source
\* of truth: it has every row of one archive that was exported and no other,
\* though its files are indexed one at a time, in any order, by several
\* processes, and the archive is replaced under them, with messages that move
\* between conversations.  The exception is a file replaced between the two
\* times it is opened.  Not even that one leaves a message without its
\* conversation (a foreign key).
CacheIsOneArchive ==
    /\ torn \/ cache = Empty \/ \E s \in Snapshot : Holds(cache, s)
    /\ \A t \in {cache, work} :
          t \in Table /\ \A m \in Message : t.where[m] \in t.convs \cup {None}
=============================================================================
