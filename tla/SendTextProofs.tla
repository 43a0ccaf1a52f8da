--------------------------- MODULE SendTextProofs ---------------------------
(***************************************************************************)
(* What `gmcli send text` and its ready goroutine keep, with any number of *)
(* goroutines dispatching events.                                          *)
(***************************************************************************)
EXTENDS SendText, SequenceTheorems, TLAPS

\* Whose handler is in the list.
ReadyListens == wait \in {"wait", "remove"}
MainListens  == pc \in {"wait", "remove", "post", "echo", "unwatch"}
MainHandler  == IF pc \in {"wait", "remove"} THEN "settings" ELSE attempt

\* Where the handlers are: the goroutine's is the second, and main's the last,
\* wherever its index points by now.
Slots ==
    /\ Len(subscribers) >= 1
    /\ wait \in {"check", "register"} =>
          Len(subscribers) = 1 /\ pc \in {"connect", "grace", "done"}
    /\ ReadyListens => Len(subscribers) >= 2 /\ subscribers[2] = "ready" /\ waitIndex = 2
    /\ MainListens =>
          /\ Len(subscribers) >= IF ReadyListens THEN 3 ELSE 2
          /\ subscribers[Len(subscribers)] = MainHandler
          /\ index >= Len(subscribers)

\* An event under way has happened, and none is before the connection.
Announced ==
    \A d \in Dispatcher :
        /\ event[d] = "ready" => ready
        /\ event[d] = "settings" => settings
        /\ event[d] \in Attempt => event[d] \in echoed
        /\ pc = "connect" => event[d] = Idle
        /\ copied[d] => event[d] # Idle

\* A handler that has not fired is on every copy of the list taken for its event.
Reaches(h) ==
    h \notin fired =>
        \A d \in Dispatcher : event[d] = h /\ copied[d] => h \in ToSet(todo[d])

WakeInv ==
    /\ wait = "wait" => Reaches("ready")
    /\ pc = "wait" => Reaches("settings")
    /\ pc = "echo" => Reaches(attempt)

\* Nothing is accepted for an attempt that is not posted yet or was rejected.
OnceInv ==
    /\ attempt = "first" => "retry" \notin accepted
    /\ attempt = "retry" => "first" \notin accepted
    /\ pc \notin {"echo", "unwatch", "done"} => attempt \notin accepted
    /\ outcome = "rejected_unknown" => attempt \notin accepted
    /\ pc \notin {"unwatch", "done"} => outcome = "none"

-----------------------------------------------------------------------------

\* A handler more at the end of the list.
LEMMA Appended ==
    ASSUME NEW S, NEW s \in Seq(S), NEW h \in S
    PROVE  /\ Append(s, h) \in Seq(S)
           /\ Len(s) \in Nat /\ Len(Append(s, h)) = Len(s) + 1
           /\ \A i \in 1 .. Len(s) : Append(s, h)[i] = s[i]
           /\ Append(s, h)[Len(s) + 1] = h
OBVIOUS

\* A list with one handler less: those behind it move up.
LEMMA Removed ==
    ASSUME NEW S, NEW s \in Seq(S), NEW i \in 1 .. Len(s)
    PROVE  /\ RemoveAt(s, i) \in Seq(S)
           /\ Len(s) \in Nat /\ Len(RemoveAt(s, i)) = Len(s) - 1
           /\ \A j \in 1 .. Len(s) - 1 : RemoveAt(s, i)[j] = IF j < i THEN s[j] ELSE s[j + 1]
<1> DEFINE before == SubSeq(s, 1, i - 1)
           after  == SubSeq(s, i + 1, Len(s))
<1>1. Len(s) \in Nat /\ i \in Nat /\ i >= 1 /\ i <= Len(s)
  OBVIOUS
<1>2. /\ before \in Seq(S) /\ Len(before) = i - 1
      /\ \A j \in 1 .. i - 1 : before[j] = s[j]
  BY <1>1
<1>3. /\ after \in Seq(S) /\ Len(after) = Len(s) - i
      /\ \A j \in 1 .. Len(s) - i : after[j] = s[i + j]
  BY <1>1
<1>4. RemoveAt(s, i) = before \o after
  BY DEF RemoveAt
<1> HIDE DEF before, after
<1>5. /\ before \o after \in Seq(S) /\ Len(before \o after) = Len(before) + Len(after)
      /\ \A j \in 1 .. Len(before) + Len(after) :
            (before \o after)[j] = IF j <= Len(before) THEN before[j] ELSE after[j - Len(before)]
  BY <1>2, <1>3, ConcatProperties
<1>6. Len(before) + Len(after) = Len(s) - 1
  BY <1>1, <1>2, <1>3
<1>7. ASSUME NEW j \in 1 .. Len(s) - 1
      PROVE  (before \o after)[j] = IF j < i THEN s[j] ELSE s[j + 1]
  <2>1. j \in Int /\ (before \o after)[j] = IF j <= i - 1 THEN before[j] ELSE after[j - (i - 1)]
    BY <1>2, <1>5, <1>6
  <2>2. CASE j < i
    BY <1>1, <1>2, <2>1, <2>2
  <2>3. CASE ~(j < i)
    <3>1. j - (i - 1) \in 1 .. Len(s) - i /\ i + (j - (i - 1)) = j + 1 /\ ~(j <= i - 1)
      BY <1>1, <2>3
    <3>2. after[j - (i - 1)] = s[j + 1]
      BY <1>3, <3>1
    <3> QED BY <2>1, <2>3, <3>1, <3>2
  <2> QED BY <2>2, <2>3
<1> QED BY <1>1, <1>4, <1>5, <1>6, <1>7

\* Removal by an index leaves a list, whatever the index.
LEMMA WithoutType ==
    ASSUME subscribers \in Seq(Handler), NEW i \in Nat
    PROVE  Without(i) \in Seq(Handler)
BY Removed DEF Without

\* The dispatcher's steps keep the types of what they touch.
LEMMA DispatchType ==
    ASSUME TypeOK, NEW d \in Dispatcher, DispatchStep(d)
    PROVE  ClientTypeOK'
<1> USE DEF TypeOK, ClientTypeOK
<1>1. CASE CopySubscribers(d)
  BY <1>1 DEF CopySubscribers, client
<1>2. CASE CallHandler(d)
  <2>1. todo[d] \in Seq(Handler) /\ Head(todo[d]) \in Handler /\ Tail(todo[d]) \in Seq(Handler)
    BY <1>2 DEF CallHandler
  <2> QED BY <1>2, <2>1 DEF CallHandler, client
<1>3. CASE Return(d)
  BY <1>3 DEF Return, client
<1> QED BY <1>1, <1>2, <1>3 DEF DispatchStep

\* ... and every step the types of all.
LEMMA TypeStep == TypeOK /\ [Next]_vars => TypeOK'
<1> SUFFICES ASSUME TypeOK, [Next]_vars PROVE TypeOK'
  OBVIOUS
<1> \A i \in Nat : Without(i) \in Seq(Handler)
  BY WithoutType DEF TypeOK, ClientTypeOK
<1> \A h \in Handler : Registered(h) \in Seq(Handler) /\ NextIndex \in Nat
  BY DEF TypeOK, ClientTypeOK, Registered, NextIndex
<1> Event \subseteq Handler /\ Attempt \subseteq Event
  BY DEF Event, Handler
<1>1. ASSUME NEW d \in Dispatcher, Deliver(d) PROVE TypeOK'
  <2>1. PICK e \in {"ready", "settings"} \cup (accepted \ echoed) :
           Accept(d, e) /\ echoed' = echoed \cup ({e} \cap Attempt)
    BY <1>1 DEF Deliver
  <2>2. e \in Event
    BY <2>1 DEF TypeOK, Event
  <2>3. ready' \in BOOLEAN /\ settings' \in BOOLEAN
    BY <2>1 DEF Accept
  <2>4. event' \in [Dispatcher -> Event \cup {Idle}]
    BY <2>1, <2>2 DEF Accept, TypeOK, ClientTypeOK
  <2>5. echoed' \subseteq accepted
    BY <2>1 DEF TypeOK, Attempt
  <2> QED BY <1>1, <2>1, <2>3, <2>4, <2>5 DEF Deliver, Accept, TypeOK, ClientTypeOK, goroutine, main
<1>2. ASSUME NEW d \in Dispatcher, Dispatch(d) PROVE TypeOK'
  BY <1>2, DispatchType DEF Dispatch, TypeOK, goroutine, main, phone
<1>3. CASE Expire \/ UNCHANGED vars
  BY <1>3 DEF Expire, TypeOK, ClientTypeOK, vars, client, dispatching, goroutine, main, phone
<1>4. CASE ReadyStep
  BY <1>4 DEF ReadyStep, ReadyCheck, ReadyRegister, ReadyWake, ReadyRemove, TypeOK, ClientTypeOK,
              WaitControl, client, dispatching, main, phone, Handler, Event
<1>5. CASE MainStep
  <2> UNCHANGED <<dispatching, goroutine, requested, expired, echoed>>
    BY <1>5 DEF MainStep
  <2> USE DEF TypeOK, ClientTypeOK, Control, Outcome, Attempt, Goto, End, Fail, client, dispatching, goroutine
  <2>1. CASE Connect /\ UNCHANGED fired
    BY <2>1 DEF Connect
  <2>2. CASE (Grace \/ Ask) /\ UNCHANGED fired
    BY <2>2 DEF Grace, Ask
  <2>3. CASE Seed /\ UNCHANGED fired
    BY <2>3 DEF Seed
  <2>4. CASE Compose /\ UNCHANGED fired
    BY <2>4 DEF Compose
  <2>5. CASE WatchEcho /\ UNCHANGED fired
    BY <2>5 DEF WatchEcho
  <2>6. CASE Post /\ UNCHANGED fired
    BY <2>6 DEF Post
  <2>7. CASE AwaitEcho /\ UNCHANGED fired
    BY <2>7 DEF AwaitEcho
  <2>8. CASE Unwatch /\ UNCHANGED fired
    BY <2>8 DEF Unwatch
  <2>9. CASE SettingsCheck \/ SettingsWake
    BY <2>9 DEF SettingsCheck, SettingsWake
  <2>10. CASE SettingsRegister
    BY <2>10 DEF SettingsRegister, Handler, Event
  <2>11. CASE SettingsRemove
    BY <2>11 DEF SettingsRemove
  <2> QED BY <1>5, <2>1, <2>2, <2>3, <2>4, <2>5, <2>6, <2>7, <2>8, <2>9, <2>10, <2>11 DEF MainStep
<1> QED BY <1>1, <1>2, <1>3, <1>4, <1>5 DEF Next

-----------------------------------------------------------------------------

\* Nothing is accepted twice.
LEMMA OnceStep == TypeOK /\ OnceInv /\ [Next]_vars => OnceInv'
<1> SUFFICES ASSUME TypeOK, OnceInv, [Next]_vars PROVE OnceInv'
  OBVIOUS
<1>1. CASE UNCHANGED main /\ UNCHANGED accepted
  BY <1>1 DEF OnceInv, main
<1>2. CASE MainStep
  <2> USE <1>2 DEF TypeOK, OnceInv, Attempt, Outcome, Goto, End, Fail
  <2>1. CASE Post
    BY <2>1 DEF Post
  <2>2. CASE Unwatch
    BY <2>2 DEF Unwatch, FallsBack
  <2>3. CASE AwaitEcho
    BY <2>3 DEF AwaitEcho
  <2>4. CASE Connect \/ Grace \/ Ask \/ Seed \/ Compose \/ WatchEcho
    BY <2>4 DEF Connect, Grace, Ask, Seed, Compose, WatchEcho
  <2>5. CASE SettingsCheck \/ SettingsRegister \/ SettingsWake \/ SettingsRemove
    BY <2>5 DEF SettingsCheck, SettingsRegister, SettingsWake, SettingsRemove
  <2> QED BY <2>1, <2>2, <2>3, <2>4, <2>5 DEF MainStep
<1> QED BY <1>1, <1>2 DEF Next, Deliver, Dispatch, Expire, ReadyStep, ReadyCheck, ReadyRegister,
                          ReadyWake, ReadyRemove, vars, phone

-----------------------------------------------------------------------------

\* What a registration and the two removals do to the list.
LEMMA Registering ==
    ASSUME TypeOK, NEW h \in Handler
    PROVE  /\ Len(subscribers) \in Nat /\ NextIndex = Len(subscribers) + 1
           /\ Len(Registered(h)) = NextIndex /\ Registered(h)[NextIndex] = h
           /\ \A j \in 1 .. Len(subscribers) : Registered(h)[j] = subscribers[j]
BY Appended DEF TypeOK, ClientTypeOK, Registered, NextIndex

\* The index that main has kept is that of its own handler.
LEMMA MainRemoves ==
    ASSUME TypeOK, Slots, MainListens
    PROVE  /\ Len(subscribers) \in Nat
           /\ Len(Without(index)) \in {Len(subscribers) - 1, Len(subscribers)}
           /\ \A j \in 1 .. Len(subscribers) - 1 : Without(index)[j] = subscribers[j]
<1>1. /\ subscribers \in Seq(Handler) /\ DOMAIN subscribers = 1 .. Len(subscribers) /\ Len(subscribers) \in Nat
      /\ index \in Nat /\ index >= Len(subscribers) /\ Len(subscribers) >= 1
  BY DEF TypeOK, ClientTypeOK, Slots
<1>2. CASE index = Len(subscribers)
  <2>1. index \in 1 .. Len(subscribers)
    BY <1>1, <1>2
  <2>2. Without(index) = RemoveAt(subscribers, index)
    BY <1>1, <2>1 DEF Without
  <2>3. /\ Len(RemoveAt(subscribers, index)) = Len(subscribers) - 1
        /\ \A j \in 1 .. Len(subscribers) - 1 :
              RemoveAt(subscribers, index)[j] = IF j < index THEN subscribers[j] ELSE subscribers[j + 1]
    BY <1>1, <2>1, Removed
  <2>4. \A j \in 1 .. Len(subscribers) - 1 : j < index
    BY <1>1, <1>2
  <2> QED BY <1>1, <2>2, <2>3, <2>4
<1>3. CASE index # Len(subscribers)
  <2> DEFINE n == Len(subscribers)
  <2>0. n \in Nat /\ index >= n /\ index # n /\ index \in Nat
    BY <1>1, <1>3
  <2>1. index \notin DOMAIN subscribers
    <3>1. DOMAIN subscribers = 1 .. n
      BY <1>1
    <3> HIDE DEF n
    <3> QED BY <2>0, <3>1
  <2>2. Without(index) = subscribers
    BY <2>1 DEF Without
  <2> QED BY <1>1, <2>2
<1> QED BY <1>2, <1>3

\* The index that the waiting goroutine has kept is that of its own handler.
LEMMA ReadyRemoves ==
    ASSUME TypeOK, Slots, ReadyListens
    PROVE  /\ Len(subscribers) \in Nat
           /\ Len(Without(waitIndex)) = Len(subscribers) - 1
           /\ Without(waitIndex)[1] = subscribers[1]
           /\ \A j \in 2 .. Len(subscribers) - 1 : Without(waitIndex)[j] = subscribers[j + 1]
<1>1. /\ subscribers \in Seq(Handler) /\ DOMAIN subscribers = 1 .. Len(subscribers) /\ Len(subscribers) \in Nat
      /\ waitIndex = 2 /\ Len(subscribers) >= 2
  BY DEF TypeOK, ClientTypeOK, Slots
<1>2. 2 \in 1 .. Len(subscribers) /\ Without(waitIndex) = RemoveAt(subscribers, 2)
  BY <1>1 DEF Without
<1>3. \A j \in 1 .. Len(subscribers) - 1 :
          RemoveAt(subscribers, 2)[j] = IF j < 2 THEN subscribers[j] ELSE subscribers[j + 1]
  BY <1>1, <1>2, Removed
<1>4. Len(RemoveAt(subscribers, 2)) = Len(subscribers) - 1
  BY <1>1, <1>2, Removed
<1>5. 1 \in 1 .. Len(subscribers) - 1 /\ \A j \in 2 .. Len(subscribers) - 1 : j \in 1 .. Len(subscribers) - 1 /\ ~(j < 2)
  BY <1>1
<1> DEFINE rest == Without(waitIndex)
           n == Len(subscribers)
<1>6. n \in Nat /\ Len(rest) = n - 1
  BY <1>1, <1>2, <1>4
<1>7. rest[1] = subscribers[1]
  BY <1>2, <1>3, <1>5
<1>8. ASSUME NEW j \in 2 .. n - 1 PROVE rest[j] = subscribers[j + 1]
  BY <1>2, <1>3, <1>5
<1> QED BY <1>6, <1>7, <1>8

\* Each handler keeps its place until its own waiter removes it.
LEMMA SlotStep ==
    ASSUME LateGoroutine = FALSE, TypeOK, Slots, [Next]_vars
    PROVE  Slots'
<1> DEFINE L == Len(subscribers)
<1>0. L \in Nat /\ waitIndex \in Nat /\ index \in Nat
  BY DEF TypeOK, ClientTypeOK
<1>1. CASE UNCHANGED <<subscribers, goroutine, pc, index, attempt>>
  BY <1>1 DEF Slots, ReadyListens, MainListens, MainHandler, goroutine
<1>2. CASE ReadyStep
  <2>1. CASE ReadyCheck \/ ReadyWake
    BY <2>1 DEF ReadyCheck, ReadyWake, client, main, Slots, ReadyListens, MainListens, MainHandler
  <2>2. CASE ReadyRegister
    <3>1. L = 1 /\ ~MainListens /\ UNCHANGED pc /\ wait' = "wait"
      BY <2>2 DEF ReadyRegister, main, Slots, MainListens
    <3>2. Len(subscribers') = 2 /\ subscribers'[2] = "ready" /\ waitIndex' = 2
      <4>1. subscribers' = Registered("ready") /\ waitIndex' = NextIndex /\ "ready" \in Handler
        BY <2>2 DEF ReadyRegister, Handler, Event
      <4>2. NextIndex = L + 1 /\ Len(Registered("ready")) = NextIndex /\ Registered("ready")[NextIndex] = "ready"
        BY <4>1, Registering
      <4> HIDE DEF L
      <4> QED BY <3>1, <4>1, <4>2
    <3> QED BY <3>1, <3>2 DEF Slots, MainListens
  <2>3. CASE ReadyRemove
    <3>1. ReadyListens /\ wait' = "returned" /\ subscribers' = Without(waitIndex) /\ UNCHANGED main
      BY <2>3 DEF ReadyRemove, ReadyListens
    <3>2. Len(subscribers') = L - 1 /\ L >= 2
      BY <3>1, ReadyRemoves DEF Slots
    <3>3. ASSUME MainListens
          PROVE  L >= 3 /\ subscribers'[L - 1] = MainHandler /\ index >= L - 1
      <4>1. L >= 3 /\ subscribers[L] = MainHandler /\ index >= L
        BY <3>1, <3>3 DEF Slots
      <4>2. L - 1 \in 2 .. L - 1 /\ (L - 1) + 1 = L
        BY <4>1, <1>0
      <4>3. subscribers'[L - 1] = subscribers[(L - 1) + 1]
        BY <3>1, <4>2, ReadyRemoves
      <4> QED BY <1>0, <4>1, <4>2, <4>3
    <3> HIDE DEF L
    <3> QED BY <1>0, <3>1, <3>2, <3>3 DEF Slots, ReadyListens, MainListens, MainHandler, main
  <2> QED BY <1>2, <2>1, <2>2, <2>3 DEF ReadyStep
<1>3. CASE MainStep
  <2>1. UNCHANGED goroutine
    BY <1>3 DEF MainStep
  <2>2. ASSUME NEW h \in Handler, subscribers' = Registered(h), index' = NextIndex,
               pc \in {"register", "watch"}, MainListens', MainHandler' = h
        PROVE  Slots'
    <3>1. Len(subscribers') = L + 1 /\ subscribers'[L + 1] = h /\ index' = L + 1
          /\ \A j \in 1 .. L : subscribers'[j] = subscribers[j]
      BY <2>2, Registering
    <3>2. wait \notin {"check", "register"} /\ L >= 1
      BY <2>2 DEF Slots
    <3>3. ReadyListens => L >= 2 /\ 2 \in 1 .. L /\ subscribers[2] = "ready" /\ waitIndex = 2
      BY <1>0 DEF Slots
    <3> HIDE DEF L
    <3> QED BY <1>0, <2>1, <2>2, <3>1, <3>2, <3>3 DEF Slots, ReadyListens, goroutine
  <2>3. ASSUME subscribers' = Without(index), MainListens, ~MainListens'
        PROVE  Slots'
    <3>1. Len(subscribers') \in {L - 1, L} /\ \A j \in 1 .. L - 1 : subscribers'[j] = subscribers[j]
      BY <2>3, MainRemoves
    <3>2. L >= 2 /\ wait \notin {"check", "register"}
      BY <1>0, <2>3 DEF Slots, MainListens
    <3>3. ReadyListens => L >= 3 /\ 2 \in 1 .. L - 1 /\ subscribers[2] = "ready" /\ waitIndex = 2
      BY <1>0, <2>3 DEF Slots
    <3> HIDE DEF L
    <3> QED BY <1>0, <2>1, <2>3, <3>1, <3>2, <3>3 DEF Slots, ReadyListens, goroutine
  <2>4. CASE SettingsRegister
    BY <2>2, <2>4 DEF SettingsRegister, Goto, Handler, Event, MainListens, MainHandler
  <2>5. CASE WatchEcho
    BY <2>2, <2>5 DEF WatchEcho, Goto, Handler, Event, MainListens, MainHandler, TypeOK
  <2>6. CASE SettingsRemove \/ Unwatch
    BY <2>3, <2>6 DEF SettingsRemove, Unwatch, Goto, End, MainListens
  <2>7. CASE Connect \/ Grace \/ Ask \/ Seed \/ SettingsCheck \/ Compose
    <3>1. UNCHANGED <<subscribers, index>> /\ ~MainListens' /\ (pc' \in {"connect", "grace", "done"} \/ wait \notin {"check", "register"})
      BY <2>7 DEF Connect, Grace, Ask, Seed, SettingsCheck, Compose, Goto, Fail, End, client, Slots, MainListens
    <3> QED BY <2>1, <3>1 DEF Slots, ReadyListens, goroutine
  <2>8. CASE SettingsWake \/ Post \/ AwaitEcho
    <3>1. /\ UNCHANGED <<subscribers, index, attempt>> /\ MainListens
          /\ MainHandler' = MainHandler /\ pc \notin {"connect", "grace", "done"}
      BY <2>8 DEF SettingsWake, Post, AwaitEcho, Goto, client, MainListens, MainHandler
    <3> QED BY <2>1, <3>1 DEF Slots, ReadyListens, goroutine
  <2> QED BY <1>3, <2>4, <2>5, <2>6, <2>7, <2>8 DEF MainStep
<1> QED
  BY <1>1, <1>2, <1>3 DEF Next, Deliver, Accept, Dispatch, DispatchStep, CopySubscribers, CallHandler, Return,
                          Expire, vars, client, main

-----------------------------------------------------------------------------

\* Who is listening is in the list.
LEMMA Listed ==
    ASSUME TypeOK, Slots
    PROVE  /\ ReadyListens => "ready" \in ToSet(subscribers)
           /\ MainListens => MainHandler \in ToSet(subscribers)
<1>1. /\ subscribers \in Seq(Handler) /\ Len(subscribers) \in Nat
  BY DEF TypeOK, ClientTypeOK
<1>2. ASSUME NEW i \in 1 .. Len(subscribers) PROVE subscribers[i] \in ToSet(subscribers)
  BY <1>1, <1>2 DEF ToSet
<1>3. ReadyListens => 2 \in 1 .. Len(subscribers) /\ subscribers[2] = "ready"
  BY <1>1 DEF Slots
<1>4. MainListens => Len(subscribers) \in 1 .. Len(subscribers) /\ subscribers[Len(subscribers)] = MainHandler
  BY <1>1 DEF Slots
<1> QED BY <1>2, <1>3, <1>4

\* A dispatcher calls the handlers of its copy, and drops only those it called.
LEMMA Calling ==
    ASSUME TypeOK, NEW d \in Dispatcher, CallHandler(d), NEW h, h \in ToSet(todo[d]), event[d] = h
    PROVE  h \in fired' \/ h \in ToSet(todo'[d])
<1>1. todo[d] \in Seq(Handler) /\ todo[d] # <<>> /\ todo'[d] = Tail(todo[d])
  BY DEF CallHandler, TypeOK, ClientTypeOK
<1>2. PICK i \in 1 .. Len(todo[d]) : todo[d][i] = h
  BY <1>1 DEF ToSet
<1>3. CASE i = 1
  <2>1. Head(todo[d]) = h
    BY <1>1, <1>2, <1>3
  <2> QED BY <2>1 DEF CallHandler
<1>4. CASE i # 1
  <2>1. i - 1 \in 1 .. Len(Tail(todo[d])) /\ Tail(todo[d])[i - 1] = h
    BY <1>1, <1>2, <1>4
  <2>2. i - 1 \in DOMAIN Tail(todo[d])
    BY <1>1, <2>1
  <2> QED BY <1>1, <2>1, <2>2 DEF ToSet
<1> QED BY <1>3, <1>4

\* Dispatching keeps a listed handler within reach of the event it waits for.
LEMMA DispatchReaches ==
    ASSUME TypeOK, NEW d \in Dispatcher, DispatchStep(d), NEW h \in Event, h \in ToSet(subscribers), Reaches(h)
    PROVE  /\ Reaches(h)'
           /\ InFlight(h) => InFlight(h)' \/ h \in fired'
<1>1. fired \subseteq fired'
  BY DEF DispatchStep, CopySubscribers, CallHandler, Return
<1>2. CASE CopySubscribers(d)
  BY <1>1, <1>2 DEF CopySubscribers, Reaches, InFlight, TypeOK, ClientTypeOK
<1>3. CASE CallHandler(d)
  <2>1. UNCHANGED <<event, copied>> /\ \A e \in Dispatcher \ {d} : todo'[e] = todo[e]
    BY <1>3 DEF CallHandler, TypeOK, ClientTypeOK
  <2>2. ASSUME h \notin fired', event[d] = h, copied[d]
        PROVE  h \in ToSet(todo'[d])
    BY <1>1, <1>3, <2>2, Calling DEF Reaches
  <2> QED BY <1>1, <2>1, <2>2 DEF Reaches, InFlight
<1>4. CASE Return(d)
  <2>1. /\ event' = [event EXCEPT ![d] = Idle] /\ copied' = [copied EXCEPT ![d] = FALSE]
        /\ UNCHANGED <<todo, fired>> /\ copied[d] /\ todo[d] = <<>>
    BY <1>4 DEF Return
  <2>2. event[d] = h => h \in fired
    BY <2>1 DEF Reaches, ToSet
  <2>3. \A e \in Dispatcher \ {d} : event'[e] = event[e] /\ copied'[e] = copied[e]
    BY <2>1 DEF TypeOK, ClientTypeOK
  <2>4. ~copied'[d]
    BY <2>1 DEF TypeOK, ClientTypeOK
  <2> QED BY <2>1, <2>2, <2>3, <2>4 DEF Reaches, InFlight
<1> QED BY <1>2, <1>3, <1>4 DEF DispatchStep

\* An accepted event is in flight, and no copy is taken for it yet.
LEMMA AcceptReaches ==
    ASSUME TypeOK, NEW d \in Dispatcher, NEW e \in Event, Accept(d, e), ~copied[d], NEW h \in Event, Reaches(h)
    PROVE  /\ Reaches(h)'
           /\ InFlight(h) \/ e = h => InFlight(h)'
<1>1. /\ event[d] = Idle /\ event' = [event EXCEPT ![d] = e] /\ UNCHANGED <<fired, todo, copied>>
  BY DEF Accept
<1>2. event'[d] = e /\ \A x \in Dispatcher \ {d} : event'[x] = event[x]
  BY <1>1 DEF TypeOK, ClientTypeOK
<1>3. Reaches(h)'
  BY <1>1, <1>2 DEF Reaches
<1>4. ASSUME InFlight(h) PROVE InFlight(h)'
  BY <1>1, <1>2, <1>4 DEF InFlight, Event, Attempt, Idle
<1> QED BY <1>2, <1>3, <1>4 DEF InFlight

\* Whoever waits stays within reach, and whoever is told stays told.
Awake ==
    /\ wait = "wait" /\ ready => "ready" \in fired \/ InFlight("ready")
    /\ pc = "wait" /\ settings => "settings" \in fired \/ InFlight("settings")
    /\ pc = "echo" /\ attempt \in echoed => attempt \in fired \/ InFlight(attempt)

EventInv == Announced /\ WakeInv /\ Awake

\* An event that arrives has happened.
LEMMA DeliverStep ==
    ASSUME TypeOK, EventInv, NEW d \in Dispatcher, Deliver(d)
    PROVE  EventInv'
<1>1. PICK e \in {"ready", "settings"} \cup (accepted \ echoed) :
         Accept(d, e) /\ echoed' = echoed \cup ({e} \cap Attempt)
  BY DEF Deliver
<1>2. /\ e \in Event /\ event[d] = Idle /\ ~copied[d]
      /\ ready' = (ready \/ e = "ready") /\ settings' = (settings \/ e = "settings")
      /\ UNCHANGED <<pc, wait, attempt, fired, copied>> /\ pc # "connect"
  BY <1>1 DEF Deliver, Accept, goroutine, main, TypeOK, Event, EventInv, Announced
<1>3. Announced'
  <2>1. \A x \in Dispatcher : event'[x] = IF x = d THEN e ELSE event[x]
    BY <1>1 DEF Accept, TypeOK, ClientTypeOK
  <2> QED BY <1>1, <1>2, <2>1 DEF EventInv, Announced, Event
<1>4. ASSUME NEW h \in Event, Reaches(h)
      PROVE  Reaches(h)' /\ (InFlight(h) \/ e = h => InFlight(h)')
  BY <1>1, <1>2, <1>4, AcceptReaches
<1>5. "ready" \in Event /\ "settings" \in Event /\ attempt \in Event
  BY DEF Event, TypeOK
<1>6. WakeInv'
  BY <1>2, <1>4, <1>5 DEF EventInv, WakeInv
<1>7. Awake'
  BY <1>1, <1>2, <1>4, <1>5 DEF EventInv, WakeInv, Awake
<1> QED BY <1>3, <1>6, <1>7 DEF EventInv

\* A handler that is called has fired.
LEMMA CallStep ==
    ASSUME TypeOK, Slots, EventInv, NEW d \in Dispatcher, Dispatch(d)
    PROVE  EventInv'
<1>1. DispatchStep(d) /\ UNCHANGED <<pc, wait, attempt, echoed, ready, settings>>
  BY DEF Dispatch, DispatchStep, CopySubscribers, CallHandler, Return, client, goroutine, main, phone
<1>2. fired \subseteq fired'
  BY <1>1 DEF DispatchStep, CopySubscribers, CallHandler, Return
<1>3. Announced'
  BY <1>1 DEF DispatchStep, CopySubscribers, CallHandler, Return, EventInv, Announced, TypeOK, ClientTypeOK,
              Idle, Attempt
<1>4. ASSUME NEW h \in Event, h \in ToSet(subscribers), Reaches(h)
      PROVE  Reaches(h)' /\ (InFlight(h) => InFlight(h)' \/ h \in fired')
  BY <1>1, <1>4, DispatchReaches
<1>5. "ready" \in Event /\ "settings" \in Event /\ attempt \in Event
  BY DEF Event, TypeOK
<1>6. /\ wait = "wait" => "ready" \in ToSet(subscribers)
      /\ pc = "wait" => "settings" \in ToSet(subscribers)
      /\ pc = "echo" => attempt \in ToSet(subscribers)
  BY Listed DEF ReadyListens, MainListens, MainHandler
<1>7. WakeInv'
  BY <1>1, <1>4, <1>5, <1>6 DEF EventInv, WakeInv
<1>8. Awake'
  BY <1>1, <1>2, <1>4, <1>5, <1>6 DEF EventInv, WakeInv, Awake
<1> QED BY <1>3, <1>7, <1>8 DEF EventInv

\* The waiting goroutine does not disturb events under way.
LEMMA ReadyKeeps ==
    ASSUME TypeOK, EventInv, ReadyStep
    PROVE  EventInv'
<1>1. /\ UNCHANGED <<ready, settings, event, todo, copied, pc, attempt, echoed>>
      /\ fired \subseteq fired'
  BY DEF ReadyStep, ReadyCheck, ReadyRegister, ReadyWake, ReadyRemove, client, dispatching, main, phone
<1>2. Announced'
  BY <1>1 DEF EventInv, Announced
<1>3. \A h : (Reaches(h) => Reaches(h)') /\ (InFlight(h) => InFlight(h)')
  BY <1>1 DEF Reaches, InFlight
<1>4. ASSUME wait' = "wait"
      PROVE  Reaches("ready")' /\ (ready => "ready" \in fired' \/ InFlight("ready")')
  <2>1. CASE wait = "wait"
    BY <1>1, <1>3, <2>1 DEF EventInv, WakeInv, Awake
  <2>2. CASE wait # "wait"
    <3>1. ready => "ready" \in fired'
      BY <1>4, <2>2 DEF ReadyStep, ReadyCheck, ReadyRegister, ReadyWake, ReadyRemove
    <3>2. ~ready => \A d \in Dispatcher : event'[d] # "ready"
      BY <1>1 DEF EventInv, Announced
    <3> QED BY <3>1, <3>2 DEF Reaches
  <2> QED BY <2>1, <2>2
<1>5. WakeInv'
  BY <1>1, <1>3, <1>4 DEF EventInv, WakeInv
<1>6. Awake'
  BY <1>1, <1>3, <1>4 DEF EventInv, Awake
<1> QED BY <1>2, <1>5, <1>6 DEF EventInv

\* Nor does main.
LEMMA MainKeeps ==
    ASSUME TypeOK, OnceInv, EventInv, MainStep
    PROVE  EventInv'
<1>1. UNCHANGED <<event, todo, copied, wait, echoed>> /\ fired \subseteq fired'
  BY DEF MainStep, dispatching, goroutine, Connect, Grace, Ask, Seed, Compose, WatchEcho, Post, AwaitEcho, Unwatch,
         SettingsCheck, SettingsRegister, SettingsWake, SettingsRemove
<1>2. \A h : (Reaches(h) => Reaches(h)') /\ (InFlight(h) => InFlight(h)')
  BY <1>1 DEF Reaches, InFlight
<1>3. settings => settings'
  BY DEF MainStep, Connect, Grace, Ask, Seed, Compose, WatchEcho, Post, AwaitEcho, Unwatch,
         SettingsCheck, SettingsRegister, SettingsWake, SettingsRemove, client, Fail
<1>4. pc' # "connect" /\ (pc # "connect" => ready' = ready)
  BY DEF MainStep, Connect, Grace, Ask, Seed, Compose, WatchEcho, Post, AwaitEcho, Unwatch, Goto, End, Fail,
         SettingsCheck, SettingsRegister, SettingsWake, SettingsRemove, client
<1>5. Announced'
  BY <1>1, <1>3, <1>4 DEF EventInv, Announced, Idle
<1>6. ready' => ready
  BY DEF MainStep, Connect, Grace, Ask, Seed, Compose, WatchEcho, Post, AwaitEcho, Unwatch, Fail,
         SettingsCheck, SettingsRegister, SettingsWake, SettingsRemove, client
<1>7. ASSUME pc' = "wait"
      PROVE  Reaches("settings")' /\ (settings' => "settings" \in fired' \/ InFlight("settings")')
  <2>1. SettingsRegister
    BY <1>7 DEF MainStep, Connect, Grace, Ask, Seed, Compose, WatchEcho, Post, AwaitEcho, Unwatch, Goto, End, Fail,
           SettingsCheck, SettingsRegister, SettingsWake, SettingsRemove
  <2>2. settings' = settings /\ (settings => "settings" \in fired')
    BY <2>1 DEF SettingsRegister
  <2>3. ~settings => \A d \in Dispatcher : event'[d] # "settings"
    BY <1>1 DEF EventInv, Announced
  <2> QED BY <2>2, <2>3 DEF Reaches
<1>8. ASSUME pc' = "echo"
      PROVE  Reaches(attempt)' /\ attempt' \notin echoed'
  <2>1. Post
    BY <1>8 DEF MainStep, Connect, Grace, Ask, Seed, Compose, WatchEcho, Post, AwaitEcho, Unwatch, Goto, End, Fail,
           SettingsCheck, SettingsRegister, SettingsWake, SettingsRemove
  <2>2. attempt' = attempt /\ attempt \notin echoed /\ attempt \in Attempt
    BY <2>1 DEF Post, OnceInv, TypeOK
  <2>3. \A d \in Dispatcher : event'[d] # attempt
    BY <1>1, <2>2 DEF EventInv, Announced
  <2> QED BY <1>1, <2>2, <2>3 DEF Reaches
<1>9. WakeInv'
  BY <1>1, <1>2, <1>7, <1>8 DEF EventInv, WakeInv
<1>10. Awake'
  BY <1>1, <1>2, <1>6, <1>7, <1>8 DEF EventInv, Awake
<1> QED BY <1>5, <1>9, <1>10 DEF EventInv

\* No step disturbs events under way.
LEMMA EventStep ==
    ASSUME TypeOK, Slots, OnceInv, EventInv, [Next]_vars
    PROVE  EventInv'
<1>1. CASE Expire \/ UNCHANGED vars
  BY <1>1 DEF Expire, vars, client, dispatching, goroutine, main, phone,
              EventInv, Announced, WakeInv, Awake, Reaches, InFlight
<1> QED BY <1>1, DeliverStep, CallStep, ReadyKeeps, MainKeeps DEF Next

-----------------------------------------------------------------------------

\* Only the pump listens at first.
LEMMA InitInv == Init => TypeOK /\ Slots /\ OnceInv /\ EventInv
<1> SUFFICES ASSUME Init PROVE TypeOK /\ Slots /\ OnceInv /\ EventInv
  OBVIOUS
<1>1. subscribers = <<"pump">> /\ wait = "check" /\ pc = "connect"
  BY DEF Init, ClientInit
<1>2. TypeOK
  <2>1. subscribers \in Seq(Handler)
    BY <1>1 DEF Handler
  <2>2. /\ event \in [Dispatcher -> Event \cup {Idle}]
        /\ todo \in [Dispatcher -> Seq(Handler)]
        /\ copied \in [Dispatcher -> BOOLEAN]
    BY DEF Init, ClientInit
  <2> QED BY <2>1, <2>2 DEF Init, ClientInit, TypeOK, ClientTypeOK, Attempt, WaitControl, Control, Outcome
<1>3. Slots /\ OnceInv
  BY DEF Init, ClientInit, Slots, OnceInv, ReadyListens, MainListens
<1>4. EventInv
  BY DEF Init, ClientInit, EventInv, Announced, WakeInv, Awake, Idle, Attempt
<1> QED BY <1>2, <1>3, <1>4

\* The client and both goroutines keep their types.
THEOREM TypeCorrect == Spec => []TypeOK
<1> QED BY InitInv, TypeStep, PTL DEF Spec

\* One command never makes the phone take the text twice.
THEOREM AtMostOnce == Spec => []AcceptedAtMostOnce
<1>1. OnceInv /\ TypeOK => AcceptedAtMostOnce
  BY DEF OnceInv, TypeOK, AcceptedAtMostOnce, Attempt
<1> QED BY <1>1, InitInv, TypeStep, OnceStep, PTL DEF Spec

\* When the goroutine registers in time, nobody sleeps through the news.
THEOREM WakesUp == ASSUME LateGoroutine = FALSE PROVE Spec => []NoLostWakeup
<1>1. EventInv => NoLostWakeup
  BY DEF EventInv, Awake, NoLostWakeup
<1>2. TypeOK /\ Slots /\ OnceInv /\ EventInv /\ [Next]_vars => (TypeOK /\ Slots /\ OnceInv /\ EventInv)'
  BY TypeStep, SlotStep, OnceStep, EventStep
<1> QED BY <1>1, <1>2, InitInv, PTL DEF Spec

\* ... and the echo of an accepted message finds the handler of its attempt.
THEOREM EchoHeard == ASSUME LateGoroutine = FALSE PROVE Spec => []EchoIsHeard
<1>1. EventInv => EchoIsHeard
  BY DEF EventInv, Awake, EchoIsHeard
<1>2. TypeOK /\ Slots /\ OnceInv /\ EventInv /\ [Next]_vars => (TypeOK /\ Slots /\ OnceInv /\ EventInv)'
  BY TypeStep, SlotStep, OnceStep, EventStep
<1> QED BY <1>1, <1>2, InitInv, PTL DEF Spec

\* ... and the goroutine removes no handler but its own.
THEOREM RemovesOwn == ASSUME LateGoroutine = FALSE PROVE Spec => RemovesOnlyItsOwn
<1>1. ASSUME TypeOK, Slots, ReadyRemove
      PROVE  ToSet(subscribers) \ {"ready"} \subseteq ToSet(subscribers')
  <2> DEFINE L == Len(subscribers)
             rest == Without(waitIndex)
  <2>1. /\ L \in Nat /\ Len(rest) = L - 1 /\ L >= 2 /\ subscribers[2] = "ready"
        /\ rest[1] = subscribers[1] /\ \A j \in 2 .. L - 1 : rest[j] = subscribers[j + 1]
    BY <1>1, ReadyRemoves DEF ReadyRemove, ReadyListens, Slots
  <2>2. rest \in Seq(Handler) /\ DOMAIN rest = 1 .. L - 1 /\ DOMAIN subscribers = 1 .. L
    BY <1>1, <2>1, WithoutType DEF TypeOK, ClientTypeOK
  <2>3. ASSUME NEW i \in 1 .. L, i # 2
        PROVE  \E j \in 1 .. L - 1 : rest[j] = subscribers[i]
    <3>1. CASE i = 1
      BY <2>1, <3>1
    <3>2. CASE i > 2
      <4>1. i - 1 \in 2 .. L - 1 /\ (i - 1) + 1 = i /\ i - 1 \in 1 .. L - 1
        BY <2>1, <3>2
      <4>2. rest[i - 1] = subscribers[(i - 1) + 1]
        BY <2>1, <4>1
      <4> QED BY <4>1, <4>2
    <3> QED BY <2>3, <3>1, <3>2
  <2>4. subscribers' = rest
    BY <1>1 DEF ReadyRemove
  <2> HIDE DEF L, rest
  <2>5. ASSUME NEW x \in ToSet(subscribers), x # "ready" PROVE x \in ToSet(rest)
    <3>1. PICK i \in 1 .. L : subscribers[i] = x
      BY <2>2 DEF ToSet
    <3>2. PICK j \in 1 .. L - 1 : rest[j] = x
      BY <2>1, <2>3, <2>5, <3>1
    <3> QED BY <2>2, <3>2 DEF ToSet
  <2> QED BY <2>4, <2>5
<1>2. TypeOK /\ Slots /\ [Next]_vars => (TypeOK /\ Slots)'
  BY TypeStep, SlotStep
<1>3. TypeOK /\ Slots /\ [Next]_vars
        => [ReadyRemove => ToSet(subscribers) \ {"ready"} \subseteq ToSet(subscribers')]_vars
  BY <1>1
<1> QED BY <1>2, <1>3, InitInv, PTL DEF Spec, RemovesOnlyItsOwn
=============================================================================
