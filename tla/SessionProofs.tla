--------------------------- MODULE SessionProofs ----------------------------
(***************************************************************************)
(* One database, one phone, and one session in the file, for every set of  *)
(* commands and phones and however often the relay issues credentials.     *)
(***************************************************************************)
EXTENDS Session, SequenceTheorems, TLAPS

Connected == {"connecting", "connected", "dispatch"}

\* A command that may talk to the relay has seen the binding of its session;
\* one that will bind has, unless its transaction is stale, an empty database.
CommandInv ==
    \A c \in Command :
        /\ pc[c] \in Connected => bound = Fingerprint(mem[c])
        /\ (pc[c] = "inserting" /\ snapshot[c] = "current") => bound = None /\ rows = {}

DatabaseInv == TypeOK /\ CommandInv /\ OnePhonePerDatabase

\* A session as a whole: its pairing was made by its device with its phone.
IsOneSession(auth) ==
    /\ auth.pairing \in DOMAIN issued
    /\ issued[auth.pairing] = [device |-> auth.device, phone |-> auth.phone]

\* Sessions in memory are what the file was or will be.
SessionInv ==
    /\ TypeOK
    /\ file # None => IsOneSession(file)
    /\ \A c \in Command : mem[c] # None => IsOneSession(mem[c])

\* Nothing that stands for a missing value is a value.
LEMMA Distinct ==
    /\ None \notin AuthData
    /\ None \notin Source /\ Legacy \notin Source /\ Alias \notin Source
    /\ Legacy # Alias
PROOF
BY NullAssumption

\* The fingerprint of a session is what a database can be bound to.
LEMMA FingerprintType ==
    ASSUME NEW auth \in AuthData
    PROVE  Fingerprint(auth) \in Source
PROOF
BY DEF AuthData, Fingerprint, Source

\* Credentials are renewed one at a time, by the relay
LEMMA NewestType ==
    ASSUME NEW n \in [token : Nat, jar : Nat]
    PROVE  /\ n.token + 1 \in Nat /\ n.jar + 1 \in Nat
           /\ [n EXCEPT !.jar = @ + 1] \in [token : Nat, jar : Nat]
           /\ [n EXCEPT !.token = @ + 1] \in [token : Nat, jar : Nat]
           /\ [token |-> n.token + 1, jar |-> n.jar + 1] \in [token : Nat, jar : Nat]
PROOF
OBVIOUS

\* ... and in a session.
LEMMA RenewedType ==
    ASSUME NEW auth \in AuthData, NEW n \in Nat
    PROVE  /\ [auth EXCEPT !.jar = n] \in AuthData
           /\ [auth EXCEPT !.token = n] \in AuthData
           /\ [auth EXCEPT !.pairing = n] \in AuthData
PROOF
BY DEF AuthData

\* An end leaves the type alone.
LEMMA EndType ==
    ASSUME TypeOK, NEW c \in Command, NEW forgotten, End(c, forgotten)
    PROVE  /\ mem' \in [Command -> AuthData \cup {None}]
           /\ pc' \in [Command -> {"idle", "binding", "inserting", "connecting", "connected",
                                   "dispatch", "pairing", "fetching config", "validating", "saving"}]
           /\ \A d \in Command : mem'[d] = None <=> pc'[d] \in {"idle", "pairing"}
PROOF
BY DEF TypeOK, End, Goto

\* ... and so does a move to a point at which there is a session.
LEMMA BeginType ==
    ASSUME TypeOK, NEW c \in Command, NEW auth \in AuthData \cup {None},
           NEW next \in {"binding", "pairing", "fetching config", "validating"},
           auth = None <=> next = "pairing",
           Begin(c, auth, next)
    PROVE  TypeOK'
PROOF
BY DEF TypeOK, Begin, Goto, relay, database

\* ... and a change to a session that stays one.
LEMMA MemType ==
    ASSUME TypeOK, NEW c \in Command, NEW auth \in AuthData,
           NEW next \in {"connected", "dispatch", "saving"},
           mem' = [mem EXCEPT ![c] = auth], pc' = [pc EXCEPT ![c] = next]
    PROVE  /\ mem' \in [Command -> AuthData \cup {None}]
           /\ pc' \in [Command -> {"idle", "binding", "inserting", "connecting", "connected",
                                   "dispatch", "pairing", "fetching config", "validating", "saving"}]
           /\ \A d \in Command : mem'[d] = None <=> pc'[d] \in {"idle", "pairing"}
PROOF
BY Distinct DEF TypeOK

\* Every variable keeps its type.
LEMMA TypeStep == TypeOK /\ [Next]_vars => TypeOK'
PROOF
<1> SUFFICES ASSUME TypeOK, [Next]_vars PROVE TypeOK'
  OBVIOUS
<1>1. ASSUME NEW c \in Command, Open(c) PROVE TypeOK'
  BY <1>1, BeginType DEF Open, TypeOK
<1>2. ASSUME NEW c \in Command, BindSource(c) PROVE TypeOK'
  <2>1. CASE bound = None /\ rows = {}
    BY <1>2, <2>1 DEF BindSource, TypeOK, relay, history, Goto
  <2>2. CASE ~(bound = None /\ rows = {}) /\ bound = Fingerprint(mem[c])
    BY <1>2, <2>2 DEF BindSource, TypeOK, relay, history, Goto
  <2>3. CASE ~(bound = None /\ rows = {}) /\ bound # Fingerprint(mem[c])
    BY <1>2, <2>3, EndType DEF BindSource, TypeOK, relay
  <2> QED BY <2>1, <2>2, <2>3
<1>3. ASSUME NEW c \in Command, Insert(c) PROVE TypeOK'
  <2>1. CASE snapshot[c] = "current"
    <3>1. mem[c] \in AuthData
      BY <1>3 DEF Insert, TypeOK
    <3> QED BY <1>3, <2>1, <3>1, FingerprintType DEF Insert, Written, TypeOK, relay, history, Goto
  <2>2. CASE snapshot[c] # "current"
    BY <1>3, <2>2, EndType DEF Insert, TypeOK, relay
  <2> QED BY <2>1, <2>2
<1>4. ASSUME NEW c \in Command, Connect(c) PROVE TypeOK'
  <2>1. CASE Accepts(mem[c]) /\ Goto(c, "connected") /\ UNCHANGED <<newest, mem, history>>
    BY <1>4, <2>1 DEF Connect, TypeOK, database, history, Goto
  <2>2. CASE End(c, {}) /\ UNCHANGED newest
    BY <1>4, <2>2, EndType DEF Connect, TypeOK, database
  <2>3. CASE newest' = [newest EXCEPT !.jar = @ + 1] /\ End(c, {"jar"})
    <3>1. newest' \in [token : Nat, jar : Nat]
      <4>1. newest \in [token : Nat, jar : Nat]
        BY DEF TypeOK
      <4> QED BY <2>3, <4>1, NewestType
    <3> QED BY <1>4, <2>3, <3>1, EndType DEF Connect, TypeOK, database
  <2> QED BY <1>4, <2>1, <2>2, <2>3 DEF Connect
<1>5. ASSUME NEW c \in Command, Receive(c) PROVE TypeOK'
  <2>1. mem[c] \in AuthData
    BY <1>5 DEF Receive, TypeOK
  <2> QED BY <1>5, <2>1, FingerprintType DEF Receive, Written, TypeOK, relay, history
<1>6. ASSUME NEW c \in Command, UpdateCookies(c) PROVE TypeOK'
  <2>1. mem[c] \in AuthData
    BY <1>6 DEF UpdateCookies, TypeOK
  <2> DEFINE auth == [mem[c] EXCEPT !.jar = newest.jar + 1]
  <2>2. auth \in AuthData /\ newest' \in [token : Nat, jar : Nat]
    <3>1. newest \in [token : Nat, jar : Nat]
      BY DEF TypeOK
    <3> QED BY <1>6, <2>1, <3>1, NewestType, RenewedType DEF UpdateCookies
  <2>3. mem' = [mem EXCEPT ![c] = auth] /\ pc' = [pc EXCEPT ![c] = "connected"]
    BY <1>6 DEF UpdateCookies, TypeOK
  <2> HIDE DEF auth
  <2> QED BY <1>6, <2>2, <2>3, MemType DEF UpdateCookies, TypeOK, database
<1>7. ASSUME NEW c \in Command, RefreshToken(c) PROVE TypeOK'
  <2>1. mem[c] \in AuthData
    BY <1>7 DEF RefreshToken, TypeOK
  <2> DEFINE auth == [mem[c] EXCEPT !.token = newest.token + 1]
  <2>2. auth \in AuthData /\ newest' \in [token : Nat, jar : Nat]
    <3>1. newest \in [token : Nat, jar : Nat]
      BY DEF TypeOK
    <3> QED BY <1>7, <2>1, <3>1, NewestType, RenewedType DEF RefreshToken
  <2>3. mem' = [mem EXCEPT ![c] = auth] /\ pc' = [pc EXCEPT ![c] = "dispatch"]
    BY <1>7 DEF RefreshToken, Goto
  <2> HIDE DEF auth
  <2> QED BY <1>7, <2>2, <2>3, MemType DEF RefreshToken, TypeOK, database
<1>8. ASSUME NEW c \in Command, Dispatch(c) PROVE TypeOK'
  BY <1>8 DEF Dispatch, Saves, SaveFails, TypeOK, relay, database, Goto
<1>9. ASSUME NEW c \in Command, Close(c) \/ SaveAuth(c) PROVE TypeOK'
  <2>1. PICK forgotten : End(c, forgotten)
    BY <1>9 DEF Close, SaveAuth
  <2> QED BY <1>9, <2>1, EndType DEF Close, SaveAuth, Saves, SaveFails, TypeOK, relay, database
<1>10. ASSUME NEW c \in Command, Pair(c) PROVE TypeOK'
  BY <1>10, BeginType DEF Pair
<1>11. ASSUME NEW c \in Command, Paired(c) PROVE TypeOK'
  <2>1. CASE End(c, {}) /\ UNCHANGED relay
    BY <1>11, <2>1, EndType DEF Paired, TypeOK, relay, database
  <2>2. CASE ~(End(c, {}) /\ UNCHANGED relay)
    <3>1. PICK phone \in Phone :
             LET device == Len(issued) + 1 IN
             /\ issued' = Append(issued, [device |-> device, phone |-> phone])
             /\ newest' = [token |-> newest.token + 1, jar |-> newest.jar + 1]
             /\ mem' = [mem EXCEPT ![c] = [device |-> device, phone |-> phone, pairing |-> device,
                                           token |-> newest.token + 1, jar |-> newest.jar + 1]]
             /\ Goto(c, "saving")
      BY <1>11, <2>2 DEF Paired
    <3>2. /\ Len(issued) + 1 \in Nat /\ newest.token + 1 \in Nat /\ newest.jar + 1 \in Nat
          /\ newest' \in [token : Nat, jar : Nat]
      <4>1. newest \in [token : Nat, jar : Nat] /\ issued \in Seq([device : Nat, phone : Phone])
        BY DEF TypeOK
      <4>2. Len(issued) \in Nat
        BY <4>1, LenProperties
      <4> QED BY <3>1, <4>1, <4>2, NewestType
    <3> DEFINE auth == [device |-> Len(issued) + 1, phone |-> phone, pairing |-> Len(issued) + 1,
                        token |-> newest.token + 1, jar |-> newest.jar + 1]
    <3>3. auth \in AuthData
      BY <3>2 DEF AuthData
    <3>4. issued' \in Seq([device : Nat, phone : Phone])
      BY <3>1, <3>2, AppendProperties DEF TypeOK
    <3>5. mem' = [mem EXCEPT ![c] = auth] /\ pc' = [pc EXCEPT ![c] = "saving"]
      BY <3>1 DEF Goto
    <3> HIDE DEF auth
    <3> QED BY <1>11, <3>2, <3>3, <3>4, <3>5, MemType DEF Paired, TypeOK, database
  <2> QED BY <2>1, <2>2
<1>12. ASSUME NEW c \in Command, RefreshCookies(c) PROVE TypeOK'
  BY <1>12, BeginType DEF RefreshCookies, TypeOK
<1>13. ASSUME NEW c \in Command, FetchConfig(c) PROVE TypeOK'
  <2>1. CASE End(c, {}) /\ UNCHANGED newest
    BY <1>13, <2>1, EndType DEF FetchConfig, TypeOK, database
  <2>2. CASE ~(End(c, {}) /\ UNCHANGED newest)
    <3>1. mem[c] \in AuthData
      BY <1>13 DEF FetchConfig, TypeOK
    <3> DEFINE auth == [mem[c] EXCEPT !.jar = newest.jar + 1]
    <3>2. auth \in AuthData /\ newest' \in [token : Nat, jar : Nat]
      <4>1. newest \in [token : Nat, jar : Nat]
        BY DEF TypeOK
      <4> QED BY <1>13, <2>2, <3>1, <4>1, NewestType, RenewedType DEF FetchConfig
    <3>3. mem' = [mem EXCEPT ![c] = auth] /\ pc' = [pc EXCEPT ![c] = "saving"]
      BY <1>13, <2>2 DEF FetchConfig, Goto
    <3> HIDE DEF auth
    <3> QED BY <1>13, <3>2, <3>3, MemType DEF FetchConfig, TypeOK, database
  <2> QED BY <2>1, <2>2
<1>14. ASSUME NEW c \in Command, RefreshWebStorage(c) PROVE TypeOK'
  <2>1. PICK p \in DOMAIN issued :
           ApplyWebStorage(file, p) # None /\ Begin(c, ApplyWebStorage(file, p), "validating")
    BY <1>14 DEF RefreshWebStorage
  <2>2. file \in AuthData /\ p \in Nat
    <3>1. issued \in Seq([device : Nat, phone : Phone]) /\ file \in AuthData
      BY <1>14 DEF RefreshWebStorage, TypeOK
    <3> QED BY <2>1, <3>1, LenProperties
  <2>3. ApplyWebStorage(file, p) \in AuthData
    BY <2>1, <2>2, RenewedType DEF ApplyWebStorage
  <2> DEFINE auth == ApplyWebStorage(file, p)
  <2> HIDE DEF auth
  <2>4. auth \in AuthData /\ auth # None /\ Begin(c, auth, "validating")
    BY <2>1, <2>3 DEF auth
  <2> QED BY <2>4, BeginType
<1>15. ASSUME NEW c \in Command, Validate(c) PROVE TypeOK'
  <2>1. CASE End(c, {}) /\ UNCHANGED newest
    BY <1>15, <2>1, EndType DEF Validate, TypeOK, database
  <2>2. CASE ~(End(c, {}) /\ UNCHANGED newest)
    <3>1. mem[c] \in AuthData
      BY <1>15 DEF Validate, TypeOK
    <3> DEFINE auth == [mem[c] EXCEPT !.token = newest.token + 1]
    <3>2. auth \in AuthData /\ newest' \in [token : Nat, jar : Nat]
      <4>1. newest \in [token : Nat, jar : Nat]
        BY DEF TypeOK
      <4> QED BY <1>15, <2>2, <3>1, <4>1, NewestType, RenewedType DEF Validate
    <3>3. mem' = [mem EXCEPT ![c] = auth] /\ pc' = [pc EXCEPT ![c] = "saving"]
      BY <1>15, <2>2 DEF Validate, Goto
    <3> HIDE DEF auth
    <3> QED BY <1>15, <3>2, <3>3, MemType DEF Validate, TypeOK, database
  <2> QED BY <2>1, <2>2
<1>16. ASSUME NEW c \in Command, Crash(c) PROVE TypeOK'
  <2>1. PICK forgotten : End(c, forgotten)
    BY <1>16 DEF Crash
  <2> QED BY <1>16, <2>1, EndType DEF Crash, TypeOK, relay, database
<1>17. CASE Rekey
  <2>1. PICK p \in DOMAIN issued : issued' = Append(issued, issued[p])
    BY <1>17 DEF Rekey
  <2>2. issued[p] \in [device : Nat, phone : Phone]
    <3>1. issued \in Seq([device : Nat, phone : Phone])
      BY DEF TypeOK
    <3> QED BY <2>1, <3>1, LenProperties, ElementOfSeq
  <2>3. issued' \in Seq([device : Nat, phone : Phone])
    BY <2>1, <2>2, AppendProperties DEF TypeOK
  <2> QED BY <1>17, <2>3 DEF Rekey, TypeOK, database
<1>18. CASE SetAlias
  BY <1>18 DEF SetAlias, Written, TypeOK, relay, history
<1>19. CASE UNCHANGED vars
  BY <1>19 DEF vars, TypeOK, relay, database, history
<1> QED BY <1>1, <1>2, <1>3, <1>4, <1>5, <1>6, <1>7, <1>8, <1>9, <1>10, <1>11, <1>12, <1>13,
           <1>14, <1>15, <1>16, <1>17, <1>18, <1>19 DEF Next, Connecting, Auth

\* The state keeps its type: no command goes on without a session.
THEOREM TypeCorrect == Spec => []TypeOK
PROOF
<1>1. Init => TypeOK
  BY EmptySeq DEF Init, TypeOK
<1> QED BY <1>1, TypeStep, PTL DEF Spec

-----------------------------------------------------------------------------

\* An end of one command disturbs no other.
LEMMA EndCommand ==
    ASSUME TypeOK, CommandInv, NEW c \in Command, NEW forgotten, End(c, forgotten),
           UNCHANGED database
    PROVE  CommandInv'
PROOF
BY DEF TypeOK, CommandInv, End, Goto, Connected, database

\* The binding of a command holds while its session keeps its fingerprint.
LEMMA SameFingerprint ==
    ASSUME TypeOK, CommandInv, NEW c \in Command, NEW auth, NEW next \in Connected,
           pc[c] \in Connected, Fingerprint(auth) = Fingerprint(mem[c]),
           mem' = [mem EXCEPT ![c] = auth], pc' = [pc EXCEPT ![c] = next],
           UNCHANGED database
    PROVE  CommandInv'
PROOF
BY DEF TypeOK, CommandInv, Connected, database

\* A command that is at none of the points that CommandInv is about.
LEMMA OtherCommand ==
    ASSUME TypeOK, CommandInv, NEW c \in Command, NEW auth,
           NEW next \in {"binding", "pairing", "fetching config", "validating", "saving"},
           mem' = [mem EXCEPT ![c] = auth], pc' = [pc EXCEPT ![c] = next],
           UNCHANGED database
    PROVE  CommandInv'
PROOF
BY DEF TypeOK, CommandInv, Connected, database

\* Only an insertion binds, only a connected command stores, and both know why
\* they may.
LEMMA DatabaseStep == DatabaseInv /\ [Next]_vars => DatabaseInv' /\ (bound # None => bound' = bound)
PROOF
<1> SUFFICES ASSUME TypeOK, CommandInv, OnePhonePerDatabase, [Next]_vars
             PROVE  CommandInv' /\ OnePhonePerDatabase' /\ (bound # None => bound' = bound)
  BY TypeStep DEF DatabaseInv
<1>0. ASSUME UNCHANGED <<bound, rows>>
      PROVE  OnePhonePerDatabase' /\ (bound # None => bound' = bound)
  BY <1>0 DEF OnePhonePerDatabase
<1>1. ASSUME NEW c \in Command, Open(c) \/ Pair(c) \/ RefreshCookies(c) \/ RefreshWebStorage(c)
      PROVE  CommandInv' /\ UNCHANGED <<bound, rows>>
  <2> DEFINE Points == {"binding", "pairing", "fetching config", "validating"}
  <2>1. \E auth : \E next \in Points : Begin(c, auth, next)
    <3>1. CASE Open(c) \/ RefreshCookies(c)
      BY <3>1 DEF Open, RefreshCookies
    <3>2. CASE Pair(c)
      BY <3>2 DEF Pair
    <3>3. CASE RefreshWebStorage(c)
      BY <3>3 DEF RefreshWebStorage
    <3> QED BY <1>1, <3>1, <3>2, <3>3
  <2> QED BY <2>1, OtherCommand DEF Begin, Goto, database
<1>2. ASSUME NEW c \in Command, BindSource(c)
      PROVE  CommandInv' /\ UNCHANGED <<bound, rows>>
  <2>1. CASE bound = None /\ rows = {}
    BY <1>2, <2>1 DEF BindSource, CommandInv, TypeOK, Connected, Goto, history
  <2>2. CASE ~(bound = None /\ rows = {}) /\ bound = Fingerprint(mem[c])
    BY <1>2, <2>2 DEF BindSource, CommandInv, TypeOK, Connected, Goto, history
  <2>3. CASE ~(bound = None /\ rows = {}) /\ bound # Fingerprint(mem[c])
    BY <1>2, <2>3, EndCommand DEF BindSource, database
  <2> QED BY <1>2, <2>1, <2>2, <2>3 DEF BindSource
<1>3. ASSUME NEW c \in Command, Insert(c)
      PROVE  CommandInv' /\ OnePhonePerDatabase' /\ (bound # None => bound' = bound)
  <2>1. CASE snapshot[c] = "current"
    <3>1. bound = None /\ rows = {} /\ rows' = {}
      BY <1>3, <2>1 DEF Insert, CommandInv
    <3>2. \A d \in Command : pc[d] \notin Connected
      <4> SUFFICES ASSUME NEW d \in Command, pc[d] \in Connected PROVE FALSE
        OBVIOUS
      <4>1. mem[d] \in AuthData
        BY DEF TypeOK, Connected
      <4> QED BY <3>1, <4>1, FingerprintType, Distinct DEF CommandInv
    <3>3. CommandInv'
      BY <1>3, <2>1, <3>2 DEF Insert, CommandInv, TypeOK, Connected, Written, Goto, history
    <3> QED BY <3>1, <3>3 DEF OnePhonePerDatabase
  <2>2. CASE snapshot[c] # "current"
    <3>1. UNCHANGED database
      BY <1>3, <2>2 DEF Insert, database
    <3> QED BY <1>3, <2>2, <3>1, <1>0, EndCommand DEF Insert, database
  <2> QED BY <2>1, <2>2
<1>4. ASSUME NEW c \in Command, Connect(c)
      PROVE  CommandInv' /\ UNCHANGED <<bound, rows>>
  <2>1. CASE Accepts(mem[c]) /\ Goto(c, "connected") /\ UNCHANGED <<newest, mem, history>>
    BY <1>4, <2>1 DEF Connect, CommandInv, TypeOK, Connected, Goto, database
  <2>2. ASSUME NEW forgotten, End(c, forgotten) PROVE CommandInv'
    BY <1>4, <2>2, EndCommand DEF Connect
  <2> QED BY <1>4, <2>1, <2>2 DEF Connect, database
<1>5. ASSUME NEW c \in Command, Receive(c)
      PROVE  CommandInv' /\ OnePhonePerDatabase' /\ (bound # None => bound' = bound)
  <2>1. bound = Fingerprint(mem[c]) /\ mem[c] \in AuthData
    BY <1>5 DEF Receive, CommandInv, Connected, TypeOK
  <2>2. bound # None /\ bound # Legacy
    BY <2>1, FingerprintType, Distinct
  <2>3. CommandInv'
    BY <1>5 DEF Receive, Written, CommandInv, history
  <2> QED BY <1>5, <2>1, <2>2, <2>3 DEF Receive, OnePhonePerDatabase
<1>6. ASSUME NEW c \in Command, UpdateCookies(c) \/ RefreshToken(c)
      PROVE  CommandInv' /\ UNCHANGED <<bound, rows>>
  <2>1. mem[c] \in AuthData /\ pc[c] = "connected"
    BY <1>6 DEF UpdateCookies, RefreshToken, TypeOK
  <2> DEFINE cookies == [mem[c] EXCEPT !.jar = newest.jar + 1]
             token   == [mem[c] EXCEPT !.token = newest.token + 1]
  <2>2. Fingerprint(cookies) = Fingerprint(mem[c]) /\ Fingerprint(token) = Fingerprint(mem[c])
    BY <2>1 DEF Fingerprint, AuthData
  <2>3. CASE UpdateCookies(c)
    <3>1. mem' = [mem EXCEPT ![c] = cookies] /\ pc' = [pc EXCEPT ![c] = "connected"]
      BY <2>3, <2>1 DEF UpdateCookies, TypeOK
    <3> HIDE DEF cookies
    <3> QED BY <2>1, <2>2, <2>3, <3>1, SameFingerprint DEF UpdateCookies, database, Connected
  <2>4. CASE RefreshToken(c)
    <3>1. mem' = [mem EXCEPT ![c] = token] /\ pc' = [pc EXCEPT ![c] = "dispatch"]
      BY <2>4 DEF RefreshToken, Goto
    <3> HIDE DEF token
    <3> QED BY <2>1, <2>2, <2>4, <3>1, SameFingerprint DEF RefreshToken, database, Connected
  <2> QED BY <1>6, <2>3, <2>4
<1>7. ASSUME NEW c \in Command, Dispatch(c)
      PROVE  CommandInv' /\ UNCHANGED <<bound, rows>>
  BY <1>7 DEF Dispatch, CommandInv, TypeOK, Connected, Goto, database
<1>8. ASSUME NEW c \in Command, Close(c) \/ SaveAuth(c) \/ Crash(c)
      PROVE  CommandInv' /\ UNCHANGED <<bound, rows>>
  <2>1. PICK forgotten : End(c, forgotten)
    BY <1>8 DEF Close, SaveAuth, Crash
  <2> QED BY <1>8, <2>1, EndCommand DEF Close, SaveAuth, Crash, database
<1>9. ASSUME NEW c \in Command, Paired(c) \/ FetchConfig(c) \/ Validate(c)
      PROVE  CommandInv' /\ UNCHANGED <<bound, rows>>
  <2>1. CASE \E forgotten : End(c, forgotten)
    BY <1>9, <2>1, EndCommand DEF Paired, FetchConfig, Validate, database
  <2>2. CASE ~\E forgotten : End(c, forgotten)
    <3>1. PICK auth : mem' = [mem EXCEPT ![c] = auth] /\ pc' = [pc EXCEPT ![c] = "saving"]
      BY <1>9, <2>2 DEF Paired, FetchConfig, Validate, Goto
    <3> QED BY <1>9, <3>1, OtherCommand DEF Paired, FetchConfig, Validate, database
  <2> QED BY <2>1, <2>2
<1>10. CASE Rekey \/ UNCHANGED vars
  <2>1. CommandInv' /\ UNCHANGED <<bound, rows>>
    BY <1>10 DEF Rekey, CommandInv, vars, database
  <2> QED BY <2>1, <1>0
<1>11. CASE SetAlias
  BY <1>11, Distinct DEF SetAlias, Written, CommandInv, OnePhonePerDatabase, history
<1> QED BY <1>0, <1>1, <1>2, <1>3, <1>4, <1>5, <1>6, <1>7, <1>8, <1>9, <1>10, <1>11
           DEF Next, Connecting, Auth

\* Rows of a relay are of the pairing that the database is bound to.
THEOREM OnePhone == Spec => []OnePhonePerDatabase
PROOF
<1>1. Init => DatabaseInv
  BY EmptySeq, Distinct DEF Init, DatabaseInv, TypeOK, CommandInv, OnePhonePerDatabase, Connected
<1>2. DatabaseInv => OnePhonePerDatabase
  BY DEF DatabaseInv
<1> QED BY <1>1, <1>2, DatabaseStep, PTL DEF Spec

\* A database stays bound to the pairing it was first used with.
THEOREM Binding == Spec => BoundForGood
PROOF
<1>1. Init => DatabaseInv
  BY EmptySeq, Distinct DEF Init, DatabaseInv, TypeOK, CommandInv, OnePhonePerDatabase, Connected
<1>2. DatabaseInv /\ [Next]_vars => [bound # None => bound' = bound]_bound
  BY DatabaseStep
<1> QED BY <1>1, <1>2, DatabaseStep, PTL DEF Spec, BoundForGood

-----------------------------------------------------------------------------

\* What is one session stays one: pairings are only added, and neither cookies
\* nor tokens are part of it.
LEMMA StaysOneSession ==
    ASSUME NEW auth, NEW p, IsOneSession(auth), issued \in Seq([device : Nat, phone : Phone]),
           issued' = issued \/ issued' = Append(issued, p)
    PROVE  auth.pairing \in DOMAIN issued' /\ issued'[auth.pairing] = issued[auth.pairing]
PROOF
<1> DEFINE i == auth.pairing
<1>1. i \in DOMAIN issued
  BY DEF IsOneSession
<1>2. CASE issued' = issued
  BY <1>1, <1>2
<1>3. CASE issued' = Append(issued, p)
  <2>1. Len(issued) \in Nat /\ DOMAIN issued = 1 .. Len(issued)
    OBVIOUS
  <2>2. DOMAIN issued' = 1 .. Len(issued) + 1 /\ \A j \in 1 .. Len(issued) : issued'[j] = issued[j]
    BY <1>3, <2>1, SMT
  <2> QED BY <1>1, <2>1, <2>2
<1> QED BY <1>2, <1>3

\* Every step leaves one session in the file and in each memory.
LEMMA SessionStep == SessionInv /\ [Next]_vars => SessionInv'
PROOF
<1> SUFFICES ASSUME SessionInv, [Next]_vars
             PROVE  /\ file' # None => IsOneSession(file)'
                    /\ \A c \in Command : mem'[c] # None => IsOneSession(mem[c])'
  BY TypeStep DEF SessionInv
<1> TypeOK /\ issued \in Seq([device : Nat, phone : Phone]) /\ mem \in [Command -> AuthData \cup {None}]
  BY DEF SessionInv, TypeOK
<1> DEFINE Whole(auth) == auth # None => auth.pairing \in DOMAIN issued'
                             /\ issued'[auth.pairing] = [device |-> auth.device, phone |-> auth.phone]
           Goal == Whole(file') /\ \A c \in Command : Whole(mem'[c])
<1>0. ASSUME NEW p, issued' = issued \/ issued' = Append(issued, p)
      PROVE  Whole(file) /\ \A c \in Command : Whole(mem[c])
  BY <1>0, StaysOneSession DEF SessionInv, IsOneSession
<1>1. ASSUME NEW c \in Command, NEW auth, UNCHANGED issued, mem' = [mem EXCEPT ![c] = auth], Whole(auth),
             UNCHANGED file
      PROVE  Goal
  BY <1>0, <1>1
<1>2. ASSUME NEW c \in Command, NEW forgotten, UNCHANGED issued, End(c, forgotten), file' \in {file, mem[c]}
      PROVE  Goal
  BY <1>0, <1>2 DEF End
<1>3. ASSUME UNCHANGED issued, UNCHANGED mem, NEW c \in Command, file' \in {file, mem[c]}
      PROVE  Goal
  BY <1>0, <1>3
<1>4. ASSUME NEW c \in Command, Open(c) \/ RefreshCookies(c) \/ Pair(c) PROVE Goal
  <2>1. PICK auth \in {file, None}, next \in {"binding", "pairing", "fetching config"} : Begin(c, auth, next)
    BY <1>4 DEF Open, RefreshCookies, Pair
  <2>2. UNCHANGED issued /\ UNCHANGED file /\ mem' = [mem EXCEPT ![c] = auth]
    BY <2>1 DEF Begin, relay
  <2>3. Whole(auth)
    BY <1>0, <2>1, <2>2
  <2> QED BY <1>1, <2>2, <2>3
<1>5. ASSUME NEW c \in Command, RefreshWebStorage(c) PROVE Goal
  <2>1. PICK p \in DOMAIN issued :
           ApplyWebStorage(file, p) # None /\ Begin(c, ApplyWebStorage(file, p), "validating")
    BY <1>5 DEF RefreshWebStorage
  <2> DEFINE auth == [file EXCEPT !.pairing = p]
  <2>2. file \in AuthData
    BY <1>5 DEF RefreshWebStorage, TypeOK
  <2>3. /\ issued[p] = [device |-> file.device, phone |-> file.phone]
        /\ Begin(c, auth, "validating")
    BY <2>1 DEF ApplyWebStorage
  <2>4. UNCHANGED issued /\ UNCHANGED file /\ mem' = [mem EXCEPT ![c] = auth]
    BY <2>3 DEF Begin, relay
  <2>5. auth.pairing = p /\ auth.device = file.device /\ auth.phone = file.phone
    BY <2>2 DEF AuthData
  <2> HIDE DEF auth
  <2>6. Whole(auth)
    BY <2>1, <2>3, <2>4, <2>5
  <2> QED BY <1>1, <2>4, <2>6
<1>6. ASSUME NEW c \in Command, BindSource(c) \/ Insert(c) \/ Connect(c) \/ Receive(c) PROVE Goal
  <2>1. UNCHANGED issued /\ UNCHANGED file
    BY <1>6 DEF BindSource, Insert, Connect, Receive, relay
  <2>2. UNCHANGED mem \/ \E forgotten : End(c, forgotten)
    BY <1>6 DEF BindSource, Insert, Connect, Receive, relay
  <2> QED BY <1>2, <1>3, <2>1, <2>2
<1>7. ASSUME NEW c \in Command, UpdateCookies(c) \/ RefreshToken(c) \/ FetchConfig(c) \/ Validate(c) PROVE Goal
  <2>1. UNCHANGED issued /\ UNCHANGED file /\ pc[c] \notin {"idle", "pairing"}
    BY <1>7 DEF UpdateCookies, RefreshToken, FetchConfig, Validate
  <2>2. mem[c] \in AuthData
    BY <2>1 DEF TypeOK
  <2> DEFINE cookies == [mem[c] EXCEPT !.jar = newest.jar + 1]
             token   == [mem[c] EXCEPT !.token = newest.token + 1]
  <2>3. Whole(cookies) /\ Whole(token)
    <3>1. /\ cookies.pairing = mem[c].pairing /\ cookies.device = mem[c].device
          /\ cookies.phone = mem[c].phone
          /\ token.pairing = mem[c].pairing /\ token.device = mem[c].device
          /\ token.phone = mem[c].phone
      BY <2>2 DEF AuthData
    <3>2. Whole(mem[c])
      BY <2>1, <1>0
    <3> HIDE DEF cookies, token
    <3> QED BY <2>2, <3>1, <3>2, Distinct
  <2>4. \/ mem' = [mem EXCEPT ![c] = cookies] \/ mem' = [mem EXCEPT ![c] = token]
        \/ \E forgotten : End(c, forgotten)
    BY <1>7 DEF UpdateCookies, RefreshToken, FetchConfig, Validate
  <2> HIDE DEF cookies, token
  <2> QED BY <1>1, <1>2, <2>1, <2>3, <2>4
<1>8. ASSUME NEW c \in Command, Dispatch(c) PROVE Goal
  BY <1>3, <1>8 DEF Dispatch, Saves, SaveFails, relay
<1>9. ASSUME NEW c \in Command, Close(c) \/ SaveAuth(c) \/ Crash(c) PROVE Goal
  <2>1. PICK forgotten : End(c, forgotten)
    BY <1>9 DEF Close, SaveAuth, Crash
  <2>2. UNCHANGED issued /\ file' \in {file, mem[c]}
    BY <1>9 DEF Close, SaveAuth, Crash, Saves, SaveFails, relay
  <2> QED BY <1>2, <2>1, <2>2
<1>10. ASSUME NEW c \in Command, Paired(c) PROVE Goal
  <2>1. CASE UNCHANGED issued /\ UNCHANGED file /\ \E forgotten : End(c, forgotten)
    BY <1>2, <2>1
  <2>2. CASE ~(UNCHANGED issued /\ UNCHANGED file /\ \E forgotten : End(c, forgotten))
    <3>1. PICK phone \in Phone :
             LET device == Len(issued) + 1 IN
             /\ issued' = Append(issued, [device |-> device, phone |-> phone])
             /\ mem' = [mem EXCEPT ![c] = [device |-> device, phone |-> phone, pairing |-> device,
                                           token |-> newest.token + 1, jar |-> newest.jar + 1]]
             /\ UNCHANGED file
      BY <1>10, <2>2 DEF Paired, relay
    <3> DEFINE auth == [device |-> Len(issued) + 1, phone |-> phone, pairing |-> Len(issued) + 1,
                        token |-> newest.token + 1, jar |-> newest.jar + 1]
    <3>2. Len(issued) + 1 \in DOMAIN issued'
          /\ issued'[Len(issued) + 1] = [device |-> Len(issued) + 1, phone |-> phone]
      <4>1. [device |-> Len(issued) + 1, phone |-> phone] \in [device : Nat, phone : Phone]
        BY LenProperties
      <4> QED BY <3>1, <4>1, AppendProperties, LenProperties
    <3>3. Whole(auth)
      BY <3>2
    <3>4. mem' = [mem EXCEPT ![c] = auth]
      BY <3>1
    <3> HIDE DEF auth
    <3> QED BY <1>0, <3>1, <3>3, <3>4
  <2> QED BY <2>1, <2>2
<1>11. ASSUME NEW p, issued' = issued \/ issued' = Append(issued, p), UNCHANGED <<file, mem>>
       PROVE  Goal
  BY <1>0, <1>11
<1>12. ASSUME Rekey \/ SetAlias \/ UNCHANGED vars PROVE Goal
  <2>1. PICK p : issued' = issued \/ issued' = Append(issued, p)
    BY <1>12 DEF Rekey, SetAlias, vars, relay
  <2>2. UNCHANGED <<file, mem>>
    BY <1>12 DEF Rekey, SetAlias, vars
  <2> HIDE DEF Goal
  <2> QED BY <1>11, <2>1, <2>2
<1>13. Goal
  <2> HIDE DEF Goal
  <2>1. ASSUME NEW c \in Command, Connecting(c) PROVE Goal
    BY <2>1, <1>4, <1>6, <1>7, <1>8, <1>9 DEF Connecting
  <2>2. ASSUME NEW c \in Command, Auth(c) PROVE Goal
    BY <2>2, <1>4, <1>5, <1>7, <1>9, <1>10 DEF Auth
  <2>3. ASSUME NEW c \in Command, Crash(c) PROVE Goal
    BY <2>3, <1>9
  <2> QED BY <2>1, <2>2, <2>3, <1>12 DEF Next
<1> QED BY <1>13 DEF IsOneSession

\* The file never mixes two sessions, whatever commands overlap or die.
THEOREM OneSession == Spec => []FileIsOneSession
PROOF
<1>1. Init => SessionInv
  BY EmptySeq DEF Init, SessionInv, TypeOK
<1>2. SessionInv => FileIsOneSession
  BY DEF SessionInv, IsOneSession, FileIsOneSession
<1> QED BY <1>1, <1>2, SessionStep, PTL DEF Spec

-----------------------------------------------------------------------------
(* Commands that run one after the other.                                  *)

\* What the file f and a command at x with session a hold of the newest
\* credentials n, when l is lost; and that the command leads to no older pairing.
Saved(f, n, l, x, a) ==
    /\ "jar" \notin l =>
          /\ (f # None /\ x \notin {"connected", "dispatch", "saving"}) => f.jar = n.jar
          /\ a # None => a.jar = n.jar
    /\ "token" \notin l =>
          /\ (f # None /\ x \notin {"dispatch", "saving"}) => f.token = n.token
          /\ a # None => a.token = n.token
    /\ (f # None /\ a # None /\ x # "validating" /\ a.device = f.device) => a.pairing >= f.pairing

AloneInv ==
    Alone =>
        /\ \A c, d \in Command : Running(c) /\ Running(d) => c = d
        /\ (\A c \in Command : ~Running(c)) => Saved(file, newest, lost, "idle", None)
        /\ \A c \in Command : Running(c) => Saved(file, newest, lost, pc[c], mem[c])

\* No pairing is behind itself.
LEMMA NotOlder == \A auth \in AuthData : auth.pairing >= auth.pairing
PROOF
BY DEF AuthData

\* A step of the only command that runs.
LEMMA OnlyCommand ==
    ASSUME TypeOK, AloneInv, NEW c \in Command, Running(c), UNCHANGED overlapped,
           NEW x, NEW a, pc' = [pc EXCEPT ![c] = x], mem' = [mem EXCEPT ![c] = a],
           x = "idle" => a = None,
           Alone => Saved(file', newest', lost', x, a)
    PROVE  AloneInv'
PROOF
<1> SUFFICES ASSUME Alone' PROVE AloneInv!2'
  BY DEF AloneInv
<1>1. Alone /\ \A d \in Command : Running(d) => d = c
  BY DEF AloneInv, Alone
<1>2. pc'[c] = x /\ mem'[c] = a /\ \A d \in Command \ {c} : pc'[d] = "idle"
  BY <1>1 DEF TypeOK, Running
<1>3. \A d \in Command : Running(d)' => d = c
  BY <1>2 DEF Running
<1>4. (\A d \in Command : ~Running(d)') => x = "idle" /\ a = None
  BY <1>2 DEF Running
<1> HIDE DEF Saved
<1> QED BY <1>1, <1>2, <1>3, <1>4

\* A command that starts while no other runs.
LEMMA FirstCommand ==
    ASSUME TypeOK, AloneInv, NEW c \in Command, NEW auth, NEW x, x # "idle", Begin(c, auth, x),
           (\A d \in Command : ~Running(d)) /\ Saved(file, newest, lost, "idle", None)
               => Saved(file, newest, lost, x, auth)
    PROVE  AloneInv'
PROOF
<1> SUFFICES ASSUME Alone' PROVE AloneInv!2'
  BY DEF AloneInv
<1>1. Alone /\ \A d \in Command : ~Running(d)
  BY DEF Begin, Alone
<1>2. UNCHANGED <<file, newest, lost>> /\ Saved(file, newest, lost, x, auth)
  BY <1>1 DEF Begin, AloneInv, relay
<1>3. pc'[c] = x /\ mem'[c] = auth /\ \A d \in Command \ {c} : pc'[d] = "idle"
  BY <1>1 DEF TypeOK, Running, Begin, Goto
<1>4. Running(c)' /\ \A d \in Command : Running(d)' => d = c
  BY <1>3 DEF Running
<1>5. Saved(file', newest', lost', pc'[c], mem'[c])
  BY <1>2, <1>3
<1> HIDE DEF Saved
<1> QED BY <1>4, <1>5

\* A command that is not idle is the one that the invariant speaks of.
LEMMA RunsAlone ==
    ASSUME TypeOK, AloneInv, NEW c \in Command, pc[c] # "idle"
    PROVE  /\ Running(c)
           /\ Alone => Saved(file, newest, lost, pc[c], mem[c])
PROOF
BY DEF AloneInv, Running

\* A session that the relay accepts is not behind the file's.
LEMMA AcceptedIsNewest ==
    ASSUME SessionInv, NEW auth, IsOneSession(auth), Accepts(auth), file # None,
           auth.device = file.device
    PROVE  auth.pairing >= file.pairing
PROOF
<1>1. /\ file.pairing \in DOMAIN issued /\ issued[file.pairing].device = file.device
      /\ auth.pairing \in DOMAIN issued /\ issued[auth.pairing].device = auth.device
  BY DEF SessionInv, IsOneSession
<1>2. issued \in Seq([device : Nat, phone : Phone])
  BY DEF SessionInv, TypeOK
<1>3. Len(issued) \in Nat /\ DOMAIN issued = 1 .. Len(issued)
  BY <1>2, LenProperties
<1>4. ~(file.pairing \in auth.pairing + 1 .. Len(issued))
  BY <1>1 DEF Accepts
<1> QED BY <1>1, <1>3, <1>4

\* Every step keeps what the only command and the file hold.
LEMMA AloneStep == SessionInv /\ AloneInv /\ [Next]_vars => AloneInv'
PROOF
<1> SUFFICES ASSUME SessionInv, AloneInv, [Next]_vars PROVE AloneInv'
  OBVIOUS
<1> TypeOK /\ newest \in [token : Nat, jar : Nat] /\ mem \in [Command -> AuthData \cup {None}]
  BY DEF SessionInv, TypeOK
<1>1. ASSUME NEW c \in Command, Open(c) \/ RefreshCookies(c) PROVE AloneInv'
  <2>1. PICK x \in {"binding", "fetching config"} : Begin(c, file, x)
    BY <1>1 DEF Open, RefreshCookies
  <2>2. file \in AuthData
    BY <1>1 DEF Open, RefreshCookies, TypeOK
  <2>3. Saved(file, newest, lost, "idle", None) => Saved(file, newest, lost, x, file)
    BY <2>1, <2>2, NotOlder DEF Saved
  <2> QED BY <2>1, <2>3, FirstCommand
<1>2. ASSUME NEW c \in Command, Pair(c) PROVE AloneInv'
  <2>1. Saved(file, newest, lost, "idle", None) => Saved(file, newest, lost, "pairing", None)
    BY DEF Saved
  <2> QED BY <1>2, <2>1, FirstCommand DEF Pair
<1>3. ASSUME NEW c \in Command, RefreshWebStorage(c) PROVE AloneInv'
  <2>1. PICK p \in DOMAIN issued :
           ApplyWebStorage(file, p) # None /\ Begin(c, ApplyWebStorage(file, p), "validating")
    BY <1>3 DEF RefreshWebStorage
  <2> DEFINE auth == [file EXCEPT !.pairing = p]
  <2>2. file \in AuthData /\ file # None
    BY <1>3 DEF RefreshWebStorage, TypeOK
  <2>3. Begin(c, auth, "validating") /\ auth.jar = file.jar /\ auth.token = file.token
    BY <2>1, <2>2 DEF ApplyWebStorage, AuthData
  <2> HIDE DEF auth
  <2>4. Saved(file, newest, lost, "idle", None) => Saved(file, newest, lost, "validating", auth)
    BY <2>2, <2>3 DEF Saved
  <2> QED BY <2>3, <2>4, FirstCommand
<1>4. ASSUME NEW c \in Command, Running(c), UNCHANGED <<file, newest>>, End(c, {}),
             pc[c] \notin {"connected", "dispatch", "saving"}
      PROVE  AloneInv'
  <2>1. Alone => Saved(file', newest', lost', "idle", None)
    BY <1>4, RunsAlone DEF Saved, End, Running
  <2> QED BY <1>4, <2>1, OnlyCommand DEF End, Goto
<1>5. ASSUME NEW c \in Command, Running(c), UNCHANGED <<file, newest, mem, history>>,
             NEW x, x # "validating", x # "idle", Goto(c, x),
             pc[c] \in {"binding", "inserting", "connecting"}
      PROVE  AloneInv'
  <2>1. Alone => Saved(file', newest', lost', x, mem[c])
    BY <1>5, RunsAlone DEF Saved, Running, history
  <2>2. mem' = [mem EXCEPT ![c] = mem[c]]
    BY <1>5
  <2> QED BY <1>5, <2>1, <2>2, OnlyCommand DEF Goto, history
<1>6. ASSUME NEW c \in Command, BindSource(c) PROVE AloneInv'
  BY <1>4, <1>5, <1>6 DEF BindSource, Running, relay, Goto
<1>7. ASSUME NEW c \in Command, Insert(c) PROVE AloneInv'
  BY <1>4, <1>5, <1>7 DEF Insert, Running, relay, Goto
<1>8. ASSUME NEW c \in Command, Connect(c) PROVE AloneInv'
  <2>1. CASE Accepts(mem[c]) /\ Goto(c, "connected") /\ UNCHANGED <<newest, mem, history>>
    BY <1>5, <1>8, <2>1 DEF Connect, Running, Goto
  <2>2. CASE End(c, {}) /\ UNCHANGED newest
    BY <1>4, <1>8, <2>2 DEF Connect, Running
  <2>3. CASE newest' = [newest EXCEPT !.jar = @ + 1] /\ End(c, {"jar"})
    <3>1. newest'.token = newest.token /\ file' = file /\ pc[c] = "connecting"
      BY <1>8, <2>3 DEF Connect
    <3>2. Alone => Saved(file', newest', lost', "idle", None)
      BY <2>3, <3>1, RunsAlone DEF Saved, End
    <3> QED BY <2>3, <3>1, <3>2, OnlyCommand DEF End, Goto, Running
  <2> QED BY <1>8, <2>1, <2>2, <2>3 DEF Connect
<1>9. ASSUME UNCHANGED <<file, newest, mem, pc, history>> PROVE AloneInv'
  BY <1>9 DEF AloneInv, Alone, Running, history
<1>10. ASSUME NEW c \in Command, UpdateCookies(c) PROVE AloneInv'
  <2> DEFINE auth == [mem[c] EXCEPT !.jar = newest.jar + 1]
  <2>1. mem[c] \in AuthData /\ mem[c] # None /\ pc[c] = "connected" /\ file' = file /\ lost' = lost
    BY <1>10 DEF UpdateCookies, TypeOK, history
  <2>2. /\ auth.jar = newest'.jar /\ auth.token = mem[c].token /\ newest'.token = newest.token
        /\ auth.device = mem[c].device /\ auth.pairing = mem[c].pairing
    BY <1>10, <2>1 DEF UpdateCookies, AuthData
  <2>3. mem' = [mem EXCEPT ![c] = auth] /\ pc' = [pc EXCEPT ![c] = "connected"] /\ overlapped' = overlapped
    BY <1>10 DEF UpdateCookies, TypeOK, history
  <2> HIDE DEF auth
  <2>4. Alone => Saved(file', newest', lost', "connected", auth)
    BY <2>1, <2>2, RunsAlone DEF Saved
  <2> QED BY <2>1, <2>3, <2>4, OnlyCommand DEF Running
<1>11. ASSUME NEW c \in Command, RefreshToken(c) PROVE AloneInv'
  <2> DEFINE auth == [mem[c] EXCEPT !.token = newest.token + 1]
  <2>1. mem[c] \in AuthData /\ mem[c] # None /\ pc[c] = "connected" /\ file' = file /\ lost' = lost
    BY <1>11 DEF RefreshToken, TypeOK, history
  <2>2. /\ auth.token = newest'.token /\ auth.jar = mem[c].jar /\ newest'.jar = newest.jar
        /\ auth.device = mem[c].device /\ auth.pairing = mem[c].pairing
    BY <1>11, <2>1 DEF RefreshToken, AuthData
  <2>3. mem' = [mem EXCEPT ![c] = auth] /\ pc' = [pc EXCEPT ![c] = "dispatch"] /\ overlapped' = overlapped
    BY <1>11 DEF RefreshToken, Goto, history
  <2> HIDE DEF auth
  <2>4. Alone => Saved(file', newest', lost', "dispatch", auth)
    BY <2>1, <2>2, RunsAlone DEF Saved
  <2> QED BY <2>1, <2>3, <2>4, OnlyCommand DEF Running
<1>12. ASSUME NEW c \in Command, Dispatch(c) PROVE AloneInv'
  <2>1. /\ mem[c] \in AuthData /\ mem[c] # None /\ pc[c] = "dispatch" /\ newest' = newest
        /\ overlapped' = overlapped
    BY <1>12 DEF Dispatch, TypeOK, relay
  <2>2. mem' = [mem EXCEPT ![c] = mem[c]] /\ pc' = [pc EXCEPT ![c] = "connected"]
    BY <1>12 DEF Dispatch, Goto
  <2>3. \/ file' = mem[c] /\ lost' = lost
        \/ file' = file /\ lost' = lost \cup {"token"}
    BY <1>12 DEF Dispatch, Saves, SaveFails
  <2>4. mem[c].pairing >= mem[c].pairing
    BY <2>1, NotOlder
  <2>5. Alone => Saved(file', newest', lost', "connected", mem[c])
    BY <2>1, <2>3, <2>4, RunsAlone DEF Saved
  <2> QED BY <2>1, <2>2, <2>5, OnlyCommand DEF Running
<1>13. ASSUME NEW c \in Command, Close(c) \/ SaveAuth(c) PROVE AloneInv'
  <2>1. mem[c] \in AuthData /\ mem[c] # None /\ pc[c] \in {"connected", "saving"} /\ newest' = newest
    BY <1>13 DEF Close, SaveAuth, TypeOK, relay
  <2>2. \/ file' = mem[c] /\ End(c, {})
        \/ file' = file /\ End(c, {"jar", "token"})
    BY <1>13 DEF Close, SaveAuth, Saves, SaveFails
  <2>3. Alone => Saved(file', newest', lost', "idle", None)
    BY <2>1, <2>2, RunsAlone DEF Saved, End
  <2> QED BY <2>1, <2>2, <2>3, OnlyCommand DEF End, Goto, Running
<1>14. ASSUME NEW c \in Command, Crash(c) PROVE AloneInv'
  <2>1. file' = file /\ newest' = newest /\ Running(c)
    BY <1>14 DEF Crash, relay
  <2>2. "jar" \in lost' /\ lost \subseteq lost' /\ (pc[c] \in {"dispatch", "saving"} => "token" \in lost')
    BY <1>14 DEF Crash, End
  <2>3. Alone => Saved(file', newest', lost', "idle", None)
    BY <2>1, <2>2, RunsAlone DEF Saved, Running
  <2> QED BY <1>14, <2>1, <2>3, OnlyCommand DEF Crash, End, Goto
<1>15. ASSUME NEW c \in Command, Paired(c) PROVE AloneInv'
  <2>1. CASE End(c, {}) /\ UNCHANGED relay
    BY <1>4, <1>15, <2>1 DEF Paired, Running, relay
  <2>2. CASE ~(End(c, {}) /\ UNCHANGED relay)
    <3>1. PICK phone \in Phone :
             LET device == Len(issued) + 1 IN
             /\ newest' = [token |-> newest.token + 1, jar |-> newest.jar + 1]
             /\ mem' = [mem EXCEPT ![c] = [device |-> device, phone |-> phone, pairing |-> device,
                                           token |-> newest.token + 1, jar |-> newest.jar + 1]]
             /\ Goto(c, "saving") /\ UNCHANGED history /\ UNCHANGED file
      BY <1>15, <2>2 DEF Paired
    <3> DEFINE auth == [device |-> Len(issued) + 1, phone |-> phone, pairing |-> Len(issued) + 1,
                        token |-> newest.token + 1, jar |-> newest.jar + 1]
    <3>2. file # None => auth.pairing >= file.pairing
      <4>1. issued \in Seq([device : Nat, phone : Phone])
        BY DEF TypeOK
      <4>2. Len(issued) \in Nat /\ DOMAIN issued = 1 .. Len(issued)
        BY <4>1, LenProperties
      <4> QED BY <4>2 DEF SessionInv, IsOneSession
    <3>3. auth.token = newest'.token /\ auth.jar = newest'.jar
      BY <3>1
    <3>4. mem' = [mem EXCEPT ![c] = auth] /\ pc' = [pc EXCEPT ![c] = "saving"] /\ overlapped' = overlapped
      BY <3>1 DEF Goto, history
    <3> HIDE DEF auth
    <3>5. Alone => Saved(file', newest', lost', "saving", auth)
      BY <3>1, <3>2, <3>3 DEF Saved
    <3> QED BY <1>15, <3>4, <3>5, OnlyCommand DEF Paired, Running
  <2> QED BY <2>1, <2>2
<1>16. ASSUME NEW c \in Command, FetchConfig(c) PROVE AloneInv'
  <2>1. CASE End(c, {}) /\ UNCHANGED newest
    BY <1>4, <1>16, <2>1 DEF FetchConfig, Running
  <2>2. CASE ~(End(c, {}) /\ UNCHANGED newest)
    <3> DEFINE auth == [mem[c] EXCEPT !.jar = newest.jar + 1]
    <3>1. /\ mem[c] \in AuthData /\ mem[c] # None /\ pc[c] = "fetching config" /\ file' = file
          /\ lost' = lost /\ overlapped' = overlapped
      BY <1>16, <2>2 DEF FetchConfig, TypeOK, history
    <3>2. /\ auth.jar = newest'.jar /\ auth.token = mem[c].token /\ newest'.token = newest.token
          /\ auth.device = mem[c].device /\ auth.pairing = mem[c].pairing
      BY <1>16, <2>2, <3>1 DEF FetchConfig, AuthData
    <3>3. mem' = [mem EXCEPT ![c] = auth] /\ pc' = [pc EXCEPT ![c] = "saving"]
      BY <1>16, <2>2 DEF FetchConfig, Goto
    <3> HIDE DEF auth
    <3>4. Alone => Saved(file', newest', lost', "saving", auth)
      BY <3>1, <3>2, RunsAlone DEF Saved
    <3> QED BY <3>1, <3>3, <3>4, OnlyCommand DEF Running
  <2> QED BY <2>1, <2>2
<1>17. ASSUME NEW c \in Command, Validate(c) PROVE AloneInv'
  <2>1. CASE End(c, {}) /\ UNCHANGED newest
    BY <1>4, <1>17, <2>1 DEF Validate, Running
  <2>2. CASE ~(End(c, {}) /\ UNCHANGED newest)
    <3> DEFINE auth == [mem[c] EXCEPT !.token = newest.token + 1]
    <3>1. /\ mem[c] \in AuthData /\ mem[c] # None /\ pc[c] = "validating" /\ file' = file
          /\ lost' = lost /\ overlapped' = overlapped
      BY <1>17, <2>2 DEF Validate, TypeOK, history
    <3>2. /\ auth.token = newest'.token /\ auth.jar = mem[c].jar /\ newest'.jar = newest.jar
          /\ auth.device = mem[c].device /\ auth.pairing = mem[c].pairing
      BY <1>17, <2>2, <3>1 DEF Validate, AuthData
    <3>3. mem' = [mem EXCEPT ![c] = auth] /\ pc' = [pc EXCEPT ![c] = "saving"]
      BY <1>17, <2>2 DEF Validate, Goto
    <3>4. (file # None /\ mem[c].device = file.device) => mem[c].pairing >= file.pairing
      BY <1>17, <2>2, <3>1, AcceptedIsNewest DEF Validate, SessionInv
    <3> HIDE DEF auth
    <3>5. Alone => Saved(file', newest', lost', "saving", auth)
      BY <3>1, <3>2, <3>4, RunsAlone DEF Saved
    <3> QED BY <3>1, <3>3, <3>5, OnlyCommand DEF Running
  <2> QED BY <2>1, <2>2
<1>18. ASSUME NEW c \in Command, Receive(c) PROVE AloneInv'
  BY <1>9, <1>18 DEF Receive, relay
<1>19. CASE Rekey \/ SetAlias \/ UNCHANGED vars
  BY <1>9, <1>19 DEF Rekey, SetAlias, vars, relay
<1> HIDE DEF AloneInv
<1> QED BY <1>1, <1>2, <1>3, <1>6, <1>7, <1>8, <1>10, <1>11, <1>12, <1>13, <1>14, <1>15, <1>16, <1>17,
           <1>18, <1>19 DEF Next, Connecting, Auth

\* There is no session and no command at first.
LEMMA AloneInit == Init => SessionInv /\ AloneInv
PROOF
BY EmptySeq DEF Init, SessionInv, TypeOK, AloneInv, Saved, Running

\* Of commands that run one after the other, each finds the credentials as the
\* one before has left them, unless a kill or a failing save has lost them.
THEOREM Survive == Spec => []CredentialsSurvive
PROOF
<1>1. SessionInv /\ AloneInv => CredentialsSurvive
  <2> SUFFICES ASSUME SessionInv, AloneInv, Alone, file # None
               PROVE  CredentialsSurvive!2
    BY DEF CredentialsSurvive
  <2>1. CASE \A c \in Command : ~Running(c)
    BY <2>1 DEF AloneInv, Saved
  <2>2. ASSUME NEW c \in Command, Running(c) PROVE CredentialsSurvive!2
    BY <2>2 DEF AloneInv, Saved
  <2> QED BY <2>1, <2>2
<1> QED BY <1>1, AloneInit, AloneStep, SessionStep, PTL DEF Spec

\* Of commands that run one after the other, none takes the session back to an
\* older pairing of its device.
THEOREM Forward == Spec => GoesForward
PROOF
<1>1. SessionInv /\ AloneInv /\ [Next]_vars
      => [(Alone' /\ file # None /\ file'.device = file.device) => file'.pairing >= file.pairing]_file
  <2> SUFFICES ASSUME SessionInv, AloneInv, [Next]_vars, file' # file,
                      Alone', file # None, file'.device = file.device
               PROVE  file'.pairing >= file.pairing
    OBVIOUS
  <2>1. PICK c \in Command : file' = mem[c] /\ pc[c] \in {"connected", "dispatch", "saving"}
                             /\ overlapped' = overlapped
    BY DEF Next, Connecting, Auth, vars, Open, Begin, BindSource, Insert, Connect, Receive, UpdateCookies,
           RefreshToken, Dispatch, Close, Pair, Paired, RefreshCookies, FetchConfig, RefreshWebStorage,
           Validate, SaveAuth, Crash, Rekey, SetAlias, Saves, SaveFails, End
  <2>2. mem[c] # None /\ Alone
    BY <2>1 DEF SessionInv, TypeOK, Alone
  <2>3. Saved(file, newest, lost, pc[c], mem[c])
    BY <2>1, <2>2, RunsAlone DEF SessionInv
  <2> QED BY <2>1, <2>2, <2>3 DEF Saved
<1> QED BY <1>1, AloneInit, AloneStep, SessionStep, PTL DEF Spec, GoesForward
=============================================================================
