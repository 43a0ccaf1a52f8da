------------------------------ MODULE Session -------------------------------
(***************************************************************************)
(* session.json and the database it may fill (internal/gm/gm.go, cmd/auth, *)
(* store/source.go).  Commands of a user who may run two at a time: those  *)
(* that connect, `gmcli auth` and its two refreshes.  The file is replaced *)
(* as a whole (saveAuth renames), the credentials in it are rotated by the *)
(* relay, and a browser beside gmcli may pair the same device again.       *)
(***************************************************************************)
EXTENDS Naturals, Sequences, FiniteSets

CONSTANTS
    Command,
    Phone,
    None,           \* no file, no binding
    Legacy, Alias,  \* rows from before bindings, rows that the user has made
    MaxPairings, MaxTokens, MaxJars     \* bounds on what the relay issues

VARIABLES
    issued,         \* the relay: device and phone of every pairing, in order
    newest,         \* the relay: the last token and the last cookie jar
    file,           \* session.json
    bound, rows,    \* the database: source_identity, where its rows are from
    pc, mem,        \* each command, and the AuthData it holds
    snapshot,       \* its transaction, if it has one: "current" or "stale"
    overlapped,     \* history: two commands have run at the same time
    lost            \* history: what has never reached the file

relay    == <<issued, newest>>
database == <<bound, rows, snapshot>>
history  == <<overlapped, lost>>
vars     == <<relay, file, database, pc, mem, history>>

\* AuthData: the browser device (SessionID) and the phone, the PairingID with
\* its keys, the Tachyon token and the cookies.
AuthData == [device : Nat, phone : Phone, pairing : Nat, token : Nat, jar : Nat]

\* Where rows may be from, as pairingFingerprint tells pairings apart.
Source == Phone \X Nat

ASSUME NullAssumption ==
    /\ None \notin AuthData
    /\ {None, Legacy, Alias} \cap Source = {} /\ Legacy # Alias

\* pairingFingerprint: neither the token nor the cookies are part of it.
Fingerprint(auth) == <<auth.phone, auth.pairing>>

\* The relay knows the last pairing of a device only, whatever else is in the file.
Accepts(auth) ==
    \A p \in auth.pairing + 1 .. Len(issued) : issued[p].device # issued[auth.pairing].device

Init ==
    /\ issued = <<>> /\ newest = [token |-> 0, jar |-> 0]
    /\ file = None
    /\ bound = None /\ rows \in {{}, {Legacy}}
    /\ pc = [c \in Command |-> "idle"] /\ mem = [c \in Command |-> None]
    /\ snapshot = [c \in Command |-> "current"]
    /\ overlapped = FALSE /\ lost = {}

Running(c) == pc[c] # "idle"
Goto(c, next) == pc' = [pc EXCEPT ![c] = next]

\* A command starts, with what the file holds or what it makes of that.
Begin(c, auth, next) ==
    /\ pc[c] = "idle"
    /\ mem' = [mem EXCEPT ![c] = auth] /\ Goto(c, next)
    /\ overlapped' = (overlapped \/ \E d \in Command : Running(d))
    /\ UNCHANGED <<relay, file, database, lost>>

\* The process ends, and what only its memory held with it.
End(c, forgotten) ==
    /\ Goto(c, "idle") /\ mem' = [mem EXCEPT ![c] = None]
    /\ lost' = lost \cup forgotten
    /\ UNCHANGED overlapped

\* saveAuth: a temporary file is renamed, or the error leaves all as it was.
Saves(c)     == file' = mem[c]
SaveFails(c) == UNCHANGED file

-----------------------------------------------------------------------------
(* Commands that connect: sync, send, history, media.                      *)

Open(c) == file # None /\ Begin(c, file, "binding")

\* BindSource, its queries: the database is bound to this pairing, to another,
\* to none with rows in it, or to none and empty.
BindSource(c) ==
    /\ pc[c] = "binding"
    /\ IF bound = None /\ rows = {}
       THEN snapshot' = [snapshot EXCEPT ![c] = "current"] /\ Goto(c, "inserting") /\ UNCHANGED <<mem, history>>
       ELSE /\ UNCHANGED snapshot
            /\ IF bound = Fingerprint(mem[c]) THEN Goto(c, "connecting") /\ UNCHANGED <<mem, history>>
                                              ELSE End(c, {})
    /\ UNCHANGED <<relay, file, bound, rows>>

\* What a transaction has read is stale once another one has written (WAL).
Written == snapshot' = [c \in Command |-> "stale"]

\* Mutant: the row is written outside the transaction that found none.
UpsertMutant(c) ==
    /\ pc[c] = "inserting"
    /\ bound' = Fingerprint(mem[c]) /\ Written
    /\ Goto(c, "connecting")
    /\ UNCHANGED <<relay, file, rows, mem, history>>

\* Its INSERT, which SQLite refuses to a transaction that has read stale data.
Insert(c) ==
    /\ pc[c] = "inserting"
    /\ IF snapshot[c] = "current"
       THEN bound' = Fingerprint(mem[c]) /\ Written /\ Goto(c, "connecting") /\ UNCHANGED <<mem, history>>
       ELSE End(c, {}) /\ UNCHANGED <<bound, snapshot>>
    /\ UNCHANGED <<relay, file, rows>>

\* A pairing that was replaced is not accepted.  A connection that fails after
\* the relay has answered ends the command without Close.
Connect(c) ==
    /\ pc[c] = "connecting"
    /\ \/ Accepts(mem[c]) /\ Goto(c, "connected") /\ UNCHANGED <<newest, mem, history>>
       \/ End(c, {}) /\ UNCHANGED newest
       \/ /\ newest.jar < MaxJars /\ newest' = [newest EXCEPT !.jar = @ + 1]
          /\ End(c, {"jar"})
    /\ UNCHANGED <<issued, file, database>>

\* The pump stores what arrives.
Receive(c) ==
    /\ pc[c] = "connected" /\ Accepts(mem[c])
    /\ rows' = rows \cup {Fingerprint(mem[c])} /\ Written
    /\ UNCHANGED <<relay, file, bound, pc, mem, history>>

\* A response rotates the cookies, in memory.
UpdateCookies(c) ==
    /\ pc[c] = "connected" /\ newest.jar < MaxJars
    /\ newest' = [newest EXCEPT !.jar = @ + 1]
    /\ mem' = [mem EXCEPT ![c].jar = newest.jar + 1]
    /\ UNCHANGED <<issued, file, database, pc, history>>

\* libgm refreshes the token and calls dispatch.
RefreshToken(c) ==
    /\ pc[c] = "connected" /\ Accepts(mem[c]) /\ newest.token < MaxTokens
    /\ newest' = [newest EXCEPT !.token = @ + 1]
    /\ mem' = [mem EXCEPT ![c].token = newest.token + 1]
    /\ Goto(c, "dispatch")
    /\ UNCHANGED <<issued, file, database, history>>

\* Mutant: only the tokens of a clean exit are saved.
NoDispatchMutant(c) ==
    /\ pc[c] = "dispatch" /\ Goto(c, "connected")
    /\ UNCHANGED <<relay, file, database, mem, history>>

\* The file is written at once; an error is logged.
Dispatch(c) ==
    /\ pc[c] = "dispatch" /\ Goto(c, "connected")
    /\ \/ Saves(c) /\ UNCHANGED lost
       \/ SaveFails(c) /\ lost' = lost \cup {"token"}
    /\ UNCHANGED <<relay, database, mem, overlapped>>

Close(c) ==
    /\ pc[c] = "connected"
    /\ \/ Saves(c) /\ End(c, {})
       \/ SaveFails(c) /\ End(c, {"jar", "token"})
    /\ UNCHANGED <<relay, database>>

-----------------------------------------------------------------------------
(* gmcli auth.                                                             *)

\* Pair, PairGoogle: everything is new, the file is not looked at.
Pair(c) == Begin(c, None, "pairing")

Paired(c) ==
    /\ pc[c] = "pairing"
    /\ \/ End(c, {}) /\ UNCHANGED relay
       \/ \E phone \in Phone :
             LET device == Len(issued) + 1 IN
             /\ Len(issued) < MaxPairings /\ newest.token < MaxTokens /\ newest.jar < MaxJars
             /\ issued' = Append(issued, [device |-> device, phone |-> phone])
             /\ newest' = [token |-> newest.token + 1, jar |-> newest.jar + 1]
             /\ mem' = [mem EXCEPT ![c] = [device |-> device, phone |-> phone, pairing |-> device,
                                           token |-> newest.token + 1, jar |-> newest.jar + 1]]
             /\ Goto(c, "saving")
             /\ UNCHANGED history
    /\ UNCHANGED <<file, database>>

\* refresh-cookies: the candidate is the session with the cookies of the user.
RefreshCookies(c) == file # None /\ Begin(c, file, "fetching config")

\* Google rejects it, or accepts the cookies of a browser that has newer ones.
FetchConfig(c) ==
    /\ pc[c] = "fetching config"
    /\ \/ End(c, {}) /\ UNCHANGED newest
       \/ /\ newest.jar < MaxJars
          /\ newest' = [newest EXCEPT !.jar = @ + 1]
          /\ mem' = [mem EXCEPT ![c].jar = newest.jar + 1]
          /\ Goto(c, "saving")
          /\ UNCHANGED history
    /\ UNCHANGED <<issued, file, database>>

\* Mutant: the storage of any browser will do.
AnyBrowserMutant(auth, p) == [auth EXCEPT !.pairing = p]

\* applyWebStorageSession, for a browser that holds pairing p: None unless its
\* device and its phone are those of the session.
ApplyWebStorage(auth, p) ==
    IF issued[p] = [device |-> auth.device, phone |-> auth.phone]
    THEN [auth EXCEPT !.pairing = p] ELSE None

RefreshWebStorage(c) ==
    /\ file # None
    /\ \E p \in DOMAIN issued :
          /\ ApplyWebStorage(file, p) # None
          /\ Begin(c, ApplyWebStorage(file, p), "validating")

\* Mutant: the candidate is saved without the signed refresh.
NoValidationMutant(c) ==
    /\ pc[c] = "validating" /\ Goto(c, "saving")
    /\ UNCHANGED <<relay, file, database, mem, history>>

\* The signed refresh proves the candidate and gives it its token.
Validate(c) ==
    /\ pc[c] = "validating"
    /\ \/ End(c, {}) /\ UNCHANGED newest
       \/ /\ Accepts(mem[c]) /\ newest.token < MaxTokens
          /\ newest' = [newest EXCEPT !.token = @ + 1]
          /\ mem' = [mem EXCEPT ![c].token = newest.token + 1]
          /\ Goto(c, "saving")
          /\ UNCHANGED history
    /\ UNCHANGED <<issued, file, database>>

SaveAuth(c) ==
    /\ pc[c] = "saving"
    /\ \/ Saves(c) /\ End(c, {})
       \/ SaveFails(c) /\ End(c, {"jar", "token"})
    /\ UNCHANGED <<relay, database>>

-----------------------------------------------------------------------------
(* Beside them.                                                            *)

Crash(c) ==
    /\ Running(c) /\ End(c, {"jar"} \cup IF pc[c] \in {"dispatch", "saving"} THEN {"token"} ELSE {})
    /\ UNCHANGED <<relay, file, database>>

\* The browser whose storage is used pairs its device again.
Rekey ==
    /\ Len(issued) < MaxPairings
    /\ \E p \in DOMAIN issued : issued' = Append(issued, issued[p])
    /\ UNCHANGED <<newest, file, database, pc, mem, history>>

SetAlias ==
    /\ rows' = rows \cup {Alias} /\ Written
    /\ UNCHANGED <<relay, file, bound, pc, mem, history>>

Connecting(c) ==
    Open(c) \/ BindSource(c) \/ Insert(c) \/ Connect(c)
    \/ Receive(c) \/ UpdateCookies(c) \/ RefreshToken(c) \/ Dispatch(c) \/ Close(c)

Auth(c) ==
    Pair(c) \/ Paired(c) \/ RefreshCookies(c) \/ FetchConfig(c)
    \/ RefreshWebStorage(c) \/ Validate(c) \/ SaveAuth(c)

Next ==
    \/ \E c \in Command : Connecting(c) \/ Auth(c) \/ Crash(c)
    \/ Rekey
    \/ SetAlias

Spec == Init /\ [][Next]_vars

-----------------------------------------------------------------------------
(* Properties.                                                             *)

\* The state has its type.
TypeOK ==
    /\ issued \in Seq([device : Nat, phone : Phone])
    /\ newest \in [token : Nat, jar : Nat]
    /\ file \in AuthData \cup {None}
    /\ bound \in Source \cup {None} /\ rows \subseteq Source \cup {Legacy, Alias}
    /\ mem \in [Command -> AuthData \cup {None}]
    /\ snapshot \in [Command -> {"current", "stale"}]
    /\ pc \in [Command -> {"idle", "binding", "inserting", "connecting", "connected", "dispatch",
                           "pairing", "fetching config", "validating", "saving"}]
    /\ \A c \in Command : mem[c] = None <=> pc[c] \in {"idle", "pairing"}

\* store/source.go:10, "prevents live writes from mixing phone-local IDs across
\* pairings": whatever is paired, refreshed and run side by side, all rows from
\* a relay are of the one pairing the database is bound to, and none joins the
\* rows that were there before there were bindings.
OnePhonePerDatabase ==
    /\ \A r \in rows \ {Legacy, Alias} : r = bound
    /\ Legacy \in rows => bound = None

\* A binding is never changed.
BoundForGood == [][bound # None => bound' = bound]_bound

\* The file holds one session, whoever wrote it last and whatever browser the
\* storage came from: its pairing was made by its device with its phone.
FileIsOneSession ==
    file # None =>
        /\ file.pairing \in DOMAIN issued
        /\ issued[file.pairing] = [device |-> file.device, phone |-> file.phone]

Alone == ~overlapped

\* gm.go:178: of commands that run one after the other and end on their own,
\* each finds the cookies as the one before has left them.  A refreshed token
\* is on the disk as soon as the event has been handled, and stays there if
\* the command is killed afterwards.
CredentialsSurvive ==
    (Alone /\ file # None) =>
        /\ ("jar" \notin lost /\ \A c \in Command : ~Running(c)) => file.jar = newest.jar
        /\ ("token" \notin lost /\ \A c \in Command : pc[c] \notin {"dispatch", "saving"})
           => file.token = newest.token

\* gm.go:910: a refresh brings the session to a newer pairing of its device, or
\* fails; a browser that is behind never takes it back.
GoesForward ==
    [][(Alone' /\ file # None /\ file'.device = file.device) => file'.pairing >= file.pairing]_file

\* gm.go:179, "saving at a clean command boundary is necessary for those
\* rotated cookies to survive the next process start": no command puts older
\* cookies of a session over newer ones.
NeverOlder ==
    [][(file # None /\ file'.device = file.device) => file'.jar >= file.jar]_file
=============================================================================
