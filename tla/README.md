# gmcli in TLA+

Specifications of the parts of gmcli whose correctness depends on the order in
which things happen: what the coverage tables claim about the archive, how a
history backfill earns those claims, how a sync discovers conversations, how
`coverage verify` judges both, how the send command waits for the phone, what
becomes of a conversation whose ID is used again, how the session file and the
database bound to it survive pairings and refreshes, how exported archives are
replaced under their readers, how several archives are merged into one view,
and what an export of a phone's Telephony provider contains.
Paths are relative to the repository; `history.go` is `cmd/history.go`,
`coverage.go` without a directory is `internal/store/coverage.go`.

## The system

| Part | State | Operations | Talks to |
| --- | --- | --- | --- |
| store (`internal/store`) | SQLite: conversations, messages, contacts, coverage tables, settings, source identity | one SQL statement or transaction per method | every command, each a process of its own |
| gm client (`internal/gm`) | subscribers under a mutex, `ready`, `settings`, session.json | Connect, dispatch, WaitForReady, WaitForSettings, SendTextWithMode, pairing, refreshes | libgm's goroutines call dispatch |
| pump (`internal/sync`) | a one-slot channel of fatal errors | Handle, ImportMessages, ImportContacts | dispatch and the paging loops call it; it writes the store |
| auth (`cmd/auth.go`) | AuthData in memory | pair, refresh-cookies, refresh-web-storage | relay, browser, session.json |
| sync (`cmd/sync.go`) | locals of a paging loop | folder discovery, `--follow`, settings refresh | relay, pump, folder coverage |
| backfill (`cmd/history.go`) | locals of a paging loop | backfill, backfill-all | relay, pump, conversation coverage |
| coverage (`cmd/coverage.go`) | none | report, verify | reads both coverage tables |
| send (`cmd/send.go`) | locals of two goroutines | text, react, preflight, inspect | client, relay, cached settings |
| JSONL archive (`internal/archive`) | a directory and its manifest | write, install, verify | reads the store; the viewer reads it |
| viewer (`internal/viewer`, `viewerapi`) | derived SQLite cache | refresh, page queries | archive, HTTP clients, desktop |
| unified archive (`internal/unifiedarchive`, `internal/viewer/unified.go`) | a merged dataset in memory | load, merge, refresh, page | relay and Telephony archives |
| archive server (`cmd/archive.go`) | the mutex of the running sync | serve, sync | an export command, the view |
| telephony export (`internal/androidtelephony`) | a temporary directory, the archive | query, segment, verify, install | the helper on the phone, over adb |
| hidden folders | files | verify | |

What is hard here: several gmcli processes share one database and one
session.json with no lock above SQLite and rename; every transaction of a
backfill is separate, so a crash, another process or a live event may fall
between any two; the pump swallows errors into a channel that holds one; the
relay's paging protocol is loosely defined (repeated, missing and opaque
cursors, short and empty pages, equal timestamps); the client's waiters edit a
shared list of handlers while it is being dispatched; the relay rotates
credentials that only the memory of a process then holds; archives are read
file by file while exports replace them; and a phone is queried table by table
while messages come and go. `PROJECT.json` lists each hazard at its line with
the property that guards it.

What makes each part correct, in a line:

- **coverage store**: claims exactly what was traversed, in normal form, dated
  by its oldest evidence; an exhaustion proof is not lost to a failure.
- **backfill**: every claim is backed by archived messages; reruns reach the
  beginning.
- **sync**: a folder is complete only when its whole listing was handed out by
  the latest attempt; success means stored.
- **verify**: each listed conversation is accounted for.
- **send**: no lost wakeup, no double send, the echo is heard, its own waits end.
- **identity**: a reused conversation ID does not move a message to other people,
  as long as the lists of participants have numbers.
- **session**: the file is always one session, and rotated credentials reach it;
  a database holds the messages of one pairing.
- **archive**: no failure or crash loses it; without one it is always in place
  but for the moment of a replacement.
- **viewer**: the cache is all of one archive.
- **unified archive**: every record is in one message, and only records of one
  message are taken for one; **server**: pages neither skip nor repeat a record
  whose message stays the same, and a sync is not overwritten by an older one.
- **telephony export**: what verifies is complete, and replaces the old archive
  entirely or not at all.

## Modules

| Module | Models | State and its code |
| --- | --- | --- |
| `CoverageStore` | the SQL of `coverage.go:50-150` as operators on a row and a set of segments | `row`, `segments`, and the store's calls on them |
| `VerifiedHistory` | what a reader of the tables is promised: traversed milliseconds and a certificate | abstract |
| `CoverageLedger` | any sequence of store calls on one conversation | `row`, `segments` are the tables of `CoverageStore`; `clock` is time.Now; `lastSeen` and `turn`, which flips with every page so that the refinement can tell a page from a stutter, are history |
| `HistoryBackfill` | `runHistoryBackfillConnected` and all it calls, one or more passes | tables `known`, `archived`, `row`, `segments`; per pass the locals of the loop, `pc`, and `fatal`, the pump's channel |
| `ClientEvents` | `gm.Client`'s subscribers and `dispatch` | `subscribers`, `ready`, `settings`; per dispatching goroutine the event, the copy of the list, whether it was taken |
| `SendText` | `runWithConnectedClient` with `SendTextWithMode` on top of `ClientEvents` | `wait` is the ready goroutine, `pc` main (`InLibgm`: in a call without a deadline), `accepted` and `echoed` the phone |
| `FolderSync` | `runInitialSync`, `--follow` and folder coverage | `coverage` the table, the locals of the loop, `errors` is syncErrors, `fatal` the pump's channel, `seen` is history |
| `CoverageGate` | `coverage verify` over `FolderSync` | `gate` is verify's control, `allExhausted` the first query's result; `accounted`, `dropped` are history |
| `ConversationIdentity` | `UpsertConversation`, `UpsertMessage` and a backfill's coverage calls on one conversation ID | `row`, `legacy`, `place`, `coverage` are the tables; `phone` is whom the ID belongs to, `Incoming` the lists an event may bring for them, with or without numbers; `announced`, `orderly` are history |
| `Session` | session.json under `auth`, its refreshes and connecting commands; BindSource | `file`; `bound`, `rows` of the database; per command `pc` and `mem`, its AuthData; `issued`, `newest` are the relay's; `overlapped`, `lost` are history |
| `ArchiveExport` | `WriteJSONL` and `installDirectory`, any number of processes | `target`, `tmp`, `backup` are the directories; per writer `pc`, `force`; `orphaned`, `installed`, `cut` are history |
| `ViewerCache` | the viewer's `Refresh` over `ArchiveExport`, several processes with one cache | `cache` and `work` are the tables, committed and as the transaction sees them; `manifest` per reader; `torn` is history |
| `UnifiedArchive` | `unified.go`: what a record becomes, its conversation, the merge | no variables; with it, what a merged dataset must satisfy |
| `UnifiedServer` | the unified view in memory, its sync requests and a paging client | `history[now]` is the disk; `served` the dataset; `lock` archiveSyncer.mu; `job` per refresh; `walk` the client |
| `TelephonyArchive` | the file of a record and `Verify` | no variables |
| `TelephonyExport` | `Export`, `segmentRaw` and `installDirectoryWithVerifier`, any number of processes | `history[now]` is the phone; `dir` the directories that exist; `helper`, `pipe`, `segment`, `had` per exporter; `trouble`, `decayed`, `taken` and what a directory notes of its making (`by`, `sent`, `from`, `until`, `checked`) are history |
| `...Proofs` | the proofs about the module they are named after (`CoverageProofs` about `CoverageLedger` and `HistoryBackfill`, `FolderSyncProofs` about `CoverageGate` too, `ArchiveExportProofs` about `ViewerCache`) | |
| `MC...` | instances | |

`HistoryBackfill` and `CoverageLedger` use the same operators of
`CoverageStore`, so the ledger's theorems are about the very definitions the
backfill runs. `SendText` extends `ClientEvents`, `CoverageGate` extends
`FolderSync`, `ViewerCache` extends `ArchiveExport`, `UnifiedServer` extends
`UnifiedArchive`, `TelephonyExport` extends `TelephonyArchive`; the exhaustion of
a conversation, which `HistoryBackfill` works out in full, is one step in
`CoverageGate`.

The step of a model is one database transaction, one network call, one rename
or one critical section of a mutex, with the local computation around it. A
message is a number in the relay's order, with a timestamp per number; a page
cursor of a folder is how many conversations came before; a session is its
device, phone, pairing and the serial numbers of its token and cookies. The
relay and phone are external: `Pages` and `NextCursors` (backfill), `ListPage`
(sync), `Deliver` (send), `Accepts` (session) and `Rows` (telephony) are what the
code must expect of them, no better: short pages, pages that include the
cursor's own message, repeated or absent cursors, answers that never come. They
are trusted in two things, since they are the evidence the code builds on: that
an empty page, or one with nothing older, is returned only at the beginning, and
that an answer to a send with another status than success means that the phone
has taken nothing (`AcceptedAtMostOnce`, `gm.go:315`).

A definition named `...Mutant` is not part of a model: it is the definition
after it with a plausible bug, kept so that each property can be shown to
notice one.

## What is checked

| Run | Instance | States | Shows |
| --- | --- | --- | --- |
| `ledger` | `MaxTime` = 4, `MaxClock` = 3 | 191,606 | `NormalForm`, `WeakestClaim`, refinement of `VerifiedHistory` |
| `backfill` | 4 messages with gaps, pages of 2, 2 requests a pass, one pass at a time | 62,579 | `CoverageSound`, `HistoryStartSound`, `OnlyAPageWithdrawsExhaustion`, `ReachesTheBeginning` |
| `backfill_race` | 3 messages, two of one millisecond, pages of 1, 2 interchangeable passes of one request | 1,746,467 | `CoverageSound` with concurrent processes |
| `send_text` | every mode, one dispatching goroutine | 54,185 | `NoLostWakeup`, `AcceptedAtMostOnce`, `EchoIsHeard`, `RemovesOnlyItsOwn`, `Returns` |
| `folder_sync` | an empty folder, a one-page folder, one the page budget cuts; verify beside it | 472,736 | `CompleteIsTraversed`, `SuccessIsStored`, `CompleteIsAccounted`, `SyncReturns` |
| `identity` | one correspondent under two names and under a list without her number, a group she is in, a message of each | 581,239 | `TypeOK` (no reference without its row), `OrderlyStayWithTheirPeople`, `PreservedForGood` |
| `session` | two commands, two phones, 3 pairings, 3 tokens, 2 cookie jars | 781,176 | `OnePhonePerDatabase`, `FileIsOneSession`, `CredentialsSurvive`, `GoesForward` |
| `viewer` | two exporters, two readers, two archives between which a conversation goes and a message moves | 171,174 | `NeverLost`, `ArchiveInPlace`, `CacheIsOneArchive` |
| `unified` | two relay and two Telephony archives, two sync requests, pages of 2 | 217,681 | `NothingLostNorTwice`, `OnlyTheSameMerge`, `SeenByBothIsOne`, `ServedIsOfOneOwner`, `PagesShowEachOnce`, `SyncIsServed`, and in `TypeOK` that the mutex is held by the sync that runs |
| `telephony` | one exporter on a phone that changes twice; two exporters on an empty one; two files open | 64,080 | `VerifiedIsLossless`, `SteadyIsWhole`, `AllOrNothing`, `NeverLost`, `EndsAfterSummary`, and in `TypeOK` the limit of open files |
| `backfill_gap`, `session_refresh` | as `backfill`, as `session` | | violated: see below |

Bounds. Four messages with timestamps 1, 2, 4, 5 are the least with pages that
touch, pages that leave a gap, a live event above a hole and a second page
below the first; in `backfill_race` a page boundary parts two of one millisecond.
The half-open interval arithmetic meets every relation of
two intervals (disjoint, touching, overlapping, nested) within five
milliseconds, and three segments at once. A race of two passes needs one page
each. In the folder instance one folder ends by each rule that a listing can
end by, and a conversation is listed in two, as when it is archived meanwhile. The send command has two registering goroutines and at most one
retry, so its state space is complete apart from the event names.
For a reused ID four participant lists are enough for a rename, a list that has
lost its numbers, a change between a direct conversation and a group, and a way
back to an ID that already has a preserved row. Two archives are enough for the cache: in one direction a
conversation and a message go and a message moves, in the other they come and
files change whose messages are indexed in either order. Exploration stops
after a torn read (`Untorn`), of which nothing is promised; the theorem has no
such limit.
Three pairings are a first one, a second device or phone, and one that is
paired again by its browser; two jars and three tokens let every command of a
sequence be the one that holds the newest.

For the merge, `Coincidences` are all the ways in which three archives can hold
up to two copies of one short text at any of five times, with a window of two:
inside, at the edge, outside, ties, and messages that a first merge moves into
or out of the reach of a third archive. The other histories add a picture with
its layout, a group, a note to self, drafts, short codes, two owners, and
archives that stop verifying; they are the ones that syncs are explored over
(`SyncsThatMatter`). The hash of a message ID is an arbitrary fixed order. In
the telephony instance three states of the phone let every query see a different
one: a message and its part arrive, another goes and leaves a part behind. Four
record files and `MaxOpenFiles` = 2 make the cache of open files evict and
reopen. Racing exporters are explored over a phone that holds nothing
(`CompetitionThatMatters`), since what they race for does not depend on it.
`SYMMETRY` permutes processes and phones that are alike, in runs without
liveness.

What a property leaves out.

- *Backfill.* `CoverageSound` promises one message of each claimed millisecond,
  hence all that have theirs to themselves. Of several in one millisecond a page
  may bring a part, it claims them all (`history.go:470`), and the rest may never
  be fetched. For the same reason `HistoryStartSound` says nothing if several
  messages share the millisecond of the start. In `OnlyAPageWithdrawsExhaustion`
  an empty page counts as a traversed one: it too makes the row in-progress
  (`coverage.go:120`), so a death between `history.go:414` and the finish leaves
  the proof withdrawn until the next pass. `ReachesTheBeginning` is checked with
  increasing timestamps, since a relay that answers as badly as it may can keep a
  pass among equal ones for ever; the resume cursor of `backfill-all`
  (`history.go:306`) is not in it.
- *Send.* `LateGoroutine` = FALSE assumes that the goroutine which waits for
  readiness is scheduled within the five seconds that main waits for it. `Returns`
  has the return of each libgm call as its hypothesis (see Fairness).
- *Sync.* `CompleteIsAccounted` excuses a conversation that the pump failed to
  store, because the sync reports that and verify cannot see it, and what was
  stored after verify had begun.
- *Identity.* `ConversationIdentity` stores a message in the step that delivers
  it, and `OrderlyStayWithTheirPeople` is about messages whose conversation had
  been stored with numbers. A message that comes first, or a page that is imported
  after the ID has changed hands, does join the wrong row: the tables hold nothing
  that would tell (see the hazards). A list without numbers (`participantsJSON`
  makes one of a conversation without participants, or whose participants have
  none) is stored over one that has them and is never taken for other people
  (`conversations.go:107`): whoever gets the ID next gets the messages as well,
  so the property lets go of them there (`orderly`).
- *Session.* `CredentialsSurvive` and `GoesForward` are about commands that run one
  after the other.
- *Archives.* Once a replacement has ended between its renames, by a death or
  because it could not rename back, `NeverLost` is satisfied by what it left aside
  (`orphaned`) and `ArchiveInPlace` lets go (`cut`). A backup counts only while it
  is complete: `RemoveAll` may fail or be cut at any file, and what it leaves is
  never counted.
- *Unified view.* The code asks the relay archives for their owner and never a
  Telephony archive (`unified.go:112-131`), so `ServedIsOfOneOwner` is about relay
  archives only: a Telephony archive of another phone is merged with them.
  `PagesShowEachOnce` is about records. A cursor is the timestamp of a message and
  the hash of its first source, so a record whose message is re-dated, or begins
  with another record, in the view that a sync puts in place may be shown again or
  passed over (`viewer/unified.go:212`): a Telephony message that page one shows and
  that the next view merges under a relay message of the same time and a lower
  hash is shown again by an older page. Such records are not among those the
  property is about (`steady`); a record whose message is joined by others behind
  its first is.
- *Telephony.* `NeverLost` is about archives that an export has found good in
  their place; once a rollback has taken another exporter's it says no more
  (`taken`). `SteadyIsWhole` claims MMS and their parts, nothing of SMS rows and of
  addresses, which the model asks for in one step and the helper message by
  message (`TelephonyExport.java:92`). A helper that goes on on the phone after its
  adb was killed is out of the model: nobody reads what it writes.

Fairness. `HistoryBackfill` assumes a running pass continues and that somebody
reruns passes (the repository README's supervisor of `backfill-all`);
convergence is claimed only if failures cease, as the hypothesis of
`ReachesTheBeginning` says. In `FolderSync` each page is bounded by
`conversationFolderTimeout`; that ListContacts and FetchMessages return is
assumed of libgm, which the code calls with no deadline. In `SendText` goroutines
run and the context's deadline passes, and a step of main is fair only outside
the calls of libgm (`InLibgm`), which have neither context nor deadline
(`gm.go:263`, `gm.go:476`, `send.go:527`) and which a silent phone can hold for
ever. `Returns` therefore says: if each such call returns, so does the command,
with no echo, no readiness and no settings ever coming. In
`TelephonyExport` an exporter that can go on does, since it waits for nothing but
local files and, after the summary, a timer; nothing is assumed of the helper or
of the phone, so before the summary an export may wait for ever.
`CHECK_DEADLOCK` is off where the system really stops: the send command ends
(`send_text`), what the relay issues is bounded (`session`), and exports, syncs
and the paging client come to an end (`telephony`, `unified`).

### Where the code and its words differ

- `backfill_gap`: a pass starts below the oldest local row. A hole between two
  archived messages is never looked at, and the conversation is still certified.
- `session_refresh`: a command writes back the whole session that it loaded when
  it started, so one that began before `auth refresh-cookies` and ends after it
  restores the cookies that were just replaced.

Seen while modelling, without a run:

- *Coverage.* `source_exhausted` is also reached by a page that brings no older
  cursor (`Advance`), where the comment at `coverage.go:250` speaks of an empty
  page, and where README.md:223-229 and :256 have repeated and missing cursors
  stay partial and completeness reached by an empty page only. An exhausted conversation without messages keeps its status
  when the phone gives its ID to other people (`conversations.go:65`). Verify
  reads two tables at two moments (`cmd/coverage.go:267`), and an upsert error
  that the pump swallows (`sync.go:193`) leaves the folder complete, so that
  verify may say complete with a listed conversation missing.
- *Sync.* A record without an ID is not counted, and makes a full page look
  short (`sync.go:190`). A page request that times out leaves its goroutine on
  the shared client (`sync.go:266`). The settings refresh waits for a value that
  dispatch sets before the handler has stored it (`sync.go:360`). With
  `--follow`, an interrupt may be selected before an error of the pump.
- *Backfill.* More messages in one millisecond than requests × count make the
  timestamp cursor alternate among them (`history.go:388`). When a page parts the
  messages of one millisecond, the millisecond is claimed, and may be recorded as
  the beginning of history, without all of them.
- *Send.* Beyond the grace period `WaitForReady` removes a handler by an index
  that has shifted (`gm.go:227`; the comment there says it removes only its own).
  RequestUpdates, GetConversation and SendMessage wait without a limit for a phone
  of which `sync.go:161` says that it may never answer.
- *Identity.* An ID that goes from A to B and again to A and B needs one
  preserved row twice, and the INSERT fails (`conversations.go:150`); the model
  has that failure. A list without numbers makes the row of A one that B inherits
  (`conversations.go:107`, `sync.go:337`).
- *Session.* refresh-web-storage makes a new PairingID (`gm.go:1043`), which is
  part of the fingerprint, so the existing database is refused afterwards though
  `auth.go:126` calls it "Rekey an existing account session". A long sync also
  overwrites a session paired meanwhile. A connection that fails after the relay
  has answered loses the rotated cookies (`sync.go:100`). An alias set before the
  first sync makes the database look like one from before bindings.
- *Archives.* A replacement is two renames (`jsonl.go:520`), where
  `docs/archive-api.md:5` has it atomic; a reader, or whoever comes after a crash
  in between, finds none. A file replaced between being hashed and being read is
  cached under the wrong hash (`torn`), and the unified view verifies and then
  reads again without hashes, so that it too can be of two archives (`clean`).
- *Unified view.* The ID and the time of a message are those of its first
  source, so when a later relay export contains it, links to it break and a client
  that is paging may see it twice or not at all. Whose a Telephony archive is
  nobody asks. A second
  Telephony archive can double a message on a tie. ListMessages looks at the view
  twice, and conversations are paged by offset.
- *Telephony.* Of two forced exports that race, the one whose check fails,
  because the other has moved its archive aside, rolls back and deletes the
  other's good archive, which the other reports as success (`export.go:664`;
  `taken`). A RemoveAll that fails makes a complete replacement report an error.
  Verify accepts a manifest without metadata.jsonl. Before the summary nothing
  times out.

## What is proved

Every theorem holds for all values of the constants under the named assumptions
of the module, which are evaluated by a run that extends it. The eight proof
modules state every safety property of the passing runs as a theorem of the
specification; the properties that no run repeats, because a theorem states
them (`LedgerTypeOK`, `ClaimsWhatWasTraversed`, `ExhaustedHasEvidence` of the
ledger, `NormalForm` of backfill, `ForceRequired` of the archive, `BoundForGood`
of the session, and `TypeOK` of backfill, send, sync and session), are proved
only.

**`CoverageProofs`**, first for the ledger and every bound on time and clock:
`LedgerTypeCorrect`, `SegmentsNormalForm`, `ClaimsAreExact`, `ClaimsAreWeakest`,
`ExhaustionHasEvidence`, each from `LedgerTypeOK` together with the property
itself (a row's shape, and that a segment is never empty, are what the step
needs), and `LedgerRefinesVerifiedHistory`: a page maps to `Traverse` of its
milliseconds, a start or a failed finish to a stutter, an exhausting finish to
`Certify`. The step that does the work is the recorded page, and it rests on the
interval arithmetic: the minimum and maximum of a finite set of naturals exist
(`MinOfNat`, `MaxOfNat`; by a bounded choice, without induction on data), the
merged segment is bounded by what it replaces (`MergedBounds`), it claims
exactly the page and what it touched (`MergedSpan`: two segments that each touch
the page leave no millisecond between them and it), and so recording adds
exactly the page's milliseconds (`RecordCovers`).

Then for the backfill and any number of passes, page size and budget.
`WithdrawnByAPage` and `TypeCorrect` hold as they are; so do
`BackfillDrivesTheLedger`, that a step of a pass changes the tables by a call of
the ledger or not at all, and with it `BackfillNormalForm`, `Sound`
(`CoverageSound`) and `StartSound` (`HistoryStartSound`). None assumes anything of
the timestamps but that they do not decrease in the relay's order. The invariant
is `PassInv` (a page reaches back from its cursor without a gap, the cursor's own
message is archived, and what has been imported without an error is) with
`ClaimInv` (of each claimed millisecond a message is in the archive, and up to a
beginning of history that is alone in its millisecond all are, also for a verdict
that is still to be written). A page claims from its oldest timestamp to its
cursor's, and a message with a timestamp between the two lies between them in the
relay's order or shares the millisecond of one of them. A message that arrives
later has a timestamp no lower than all claims, and if it has the highest claimed
one, another message of that millisecond is in the archive already.

**`SendTextProofs`**, for any number of dispatching goroutines: `TypeCorrect` and
`AtMostOnce` as they are (a rejection being trusted), `WakesUp`, `EchoHeard` and `RemovesOwn` for
`LateGoroutine` = FALSE. `Slots` says where in the list each handler is (the
goroutine's second, main's last, whatever their indices say by now), which is why
removal by index removes the right one; `EventInv` says that an event under way
has happened and that a handler which has not fired is on every copy of the list
that was taken for its event.

**`FolderSyncProofs`**, for any folders, listings and limits: `TypeCorrect`,
`Traversed`, `Stored` and `Accounted`. `LoopInv` relates the cursor, the page and
the ending of a folder to what was handed out; `StoreInv` what was handed out to
the table while nothing has failed; `AccountInv` carries that through failures
(what is missing was dropped) and between the two queries of verify.

**`SessionProofs`**, for any commands, phones and amount of credentials:
`TypeCorrect`, `OnePhone` and `Binding` from `CommandInv` (a connected command has
the binding of its session; a transaction that will bind has seen an empty
database, or is stale), and `OneSession` from `SessionInv`, which says of every
session in memory what the property says of the file. `Survive`
(`CredentialsSurvive`) and `Forward` (`GoesForward`) come from `AloneInv`: while no
two commands have overlapped, at most one runs, and `Saved` says what it and the
file hold of the newest credentials at each point. A candidate pairing may be
behind the file's until the relay has accepted it (`AcceptedIsNewest`).

**`ConversationIdentityProofs`**, for any participant lists, with numbers or
without, and any messages:
`TypeCorrect`, `Preserved` and, where no two groups share a member
(`GroupsApart`), `StayWithTheirPeople`. Of two groups that do, the code takes the
later for the earlier with a changed membership, and keeps their messages
together. The invariant adds that while a conversation is stored with numbers the
active row has the people the phone has (`AnnouncedInv`).

**`ArchiveExportProofs`**, for any number of writers and any snapshots:
`ExportTypes`, `NothingIsLost`, `OneIsInPlace` and `OnlyForceReplaces`. None is
inductive alone. `IInv` adds what a writer holds at each point (`Equipped`: a
temporary directory until it is installed, a backup between the renames,
`--force` when it replaces) and where the archive is when it is not in place
(`Kept`: with a writer between its renames, or left aside by one that ended
there).
`CacheOfOneArchive` (`CacheIsOneArchive`), for any viewers, conversations and
messages beside them, rests on `CacheInv`: a committed cache has in each
conversation what the file's hash stands for (`Indexed`), and in a transaction
the files that have the hash of the manifest are indexed as the manifest's
archive has them (`WorkInv`). Indexing one file keeps that for the others because
an archive has a message in one file only. `ViewersOnlyRead` carries the theorems
about exports over to the module with viewers.

**`UnifiedServerProofs`**, for any archives that change in any way, any number
of requests, jobs, directories and any page length: all properties of the run.
`DatasetIsRight` says of any finite set of records that the merge puts each into
one message, joins only records that agree, joins the pair that nothing else can
be mistaken for, and sorts; it follows `mergeCrossSource` record by record with
an invariant of its loop. Four invariants carry it to the server. `ServerInv`
says which job may run when, whose the mutex is, and that a sync reads what its
own export has left (`TypeCorrect`, `SyncIsAlwaysServed`). `ViewInv` says that
what a job has read so far, and then the dataset served, is of archives that
verified, and while nothing changed under the job is the merge of what is on the
disk (`NothingIsLost`, `OnlyTheSameMerges`, `SeenByBothIsAlwaysOne`), and
`OwnersInv` that all relay archives in it were of one owner when they were read,
whatever was replaced meanwhile (`OnlyOneOwnerIsServed`). `WalkInv` says that each
record the client is to see, in the message it has in every view of the walk, has
been seen or lies ahead of its cursor, never both (`PagesAlwaysShowEachOnce`).
The assumptions are that a message's ID is a primary key in its archive
(`schema.go`) and in the provider, that two records differ in what is hashed for
their ID, that there is a directory of each kind (`unified.go:57`) and that a page
has a length (`unified.go:212`).

**`TelephonyExportProofs`**, for every history of the phone, any number of
exporters, any archives there were and any limit of open files: all safety
properties of the run. The first half follows the data. `RowsAnswer` and
`QueryAdds` say what the stream holds after each query: the MMS come before what
belongs to them, the summary last, and the messages and parts are those of some
moment of the export (`SentUpTo`). `FiledUpOneMore` is the loop of segmentRaw:
one record more, and every file has the records of its thread in the order of
the stream, with their number and the contents of the parts, however often the
file was evicted and opened again (`FiledUp`, `OpenedGoesOn`). `WhatIsMade` concludes that what is
sealed verifies, is lossless, and has whole what was on the phone throughout. The
second half follows the control. `ExportInv` says of each exporter that what it
has read is filed up and the rest is in the pipe, that its temporary and old
directory are where `pc` says, and of every archive that it is fine if it is
intact, which it is until the disk loses a file; `OthersKeepTheirs` keeps it from
the steps of the others. `VerifiedArchivesAreLossless` and
`SteadyMessagesAreWhole` are parts of it. `InstallationIsAllOrNothing` needs
`AloneInv`, what is in place at each point of an export without competition.
`GoodArchivesAreNeverLost` needs `KeptInv`: while any exporter removes its old
archive, another good one is in place or aside. Assumed are that the ID of an MMS
is the provider's primary key, that at least one file may be open, and that an
archive of an earlier day is lossless if it verifies, which is what the theorem
gives to exports that are over.

Where an operator goes through data (a stream into its files, records into
messages), it is written as a recursive function, and the induction is over the
set of steps after which the claim holds (`LoopInduction`): the library's
theorems with an operator parameter cannot be instantiated here.

Model-checked only: liveness (`ReachesTheBeginning`, `Returns`, `SyncReturns`,
`EndsAfterSummary`), since the prover handles neither fairness nor ENABLED, and the
two properties that are violated.

## Plan

Done: all of the modules above. Worth doing next, in this order:

1. The settings refresh command with versions of the settings, and the send
   command that composes a message with them (`send.go:433`).
2. Delay between the delivery and the import of a page under an ID that changes
   hands (`messages.go:51`).
3. The pages of the cached viewer (`query.go`), whose cursors are of the same kind
   as those of `UnifiedServer`; pinning and rebuilding of its cache.
4. `backfill-all`: the cursor file and the selection of conversations.
5. Proofs: an abstract archive (a directory that is replaced) that both
   `ArchiveExport` and `TelephonyExport` implement.

Not modelled: formatting, flags and read-only queries, which change no state;
adb, the installation of the helper and the messages of the pairing protocols,
which are external; the verifiers of the JSONL archive and of hidden folders,
which are sequential and keep no state; search, message context and HTTP of the
servers; rendering of the desktop viewer.
