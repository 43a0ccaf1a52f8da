------------------------------ MODULE SendText -------------------------------
(***************************************************************************)
(* `gmcli send text`: runWithConnectedClient (cmd/send.go) with its        *)
(* goroutine in WaitForReady, and SendTextWithMode on the main goroutine   *)
(* (internal/gm/gm.go), both registering single-shot handlers while libgm  *)
(* dispatches events.                                                      *)
(***************************************************************************)
EXTENDS ClientEvents

CONSTANTS Mode,           \* --send-mode values tried
          LateGoroutine   \* the ready goroutine may sleep through the 5 s grace:
                          \* FALSE assumes that it registers within them

ASSUME ModeAssumption == Mode \subseteq {"auto", "settings", "legacy"}
ASSUME LateAssumption == LateGoroutine \in BOOLEAN

VARIABLES
    wait, waitIndex,     \* the goroutine in WaitForReady
    pc, index,           \* the main goroutine and the index it registered
    requested, mode,     \* --send-mode, and the shape of the request
    attempt, outcome,    \* tmp_id in use, and how it ended
    expired,             \* the deadline of the command's context
    accepted, echoed     \* what the phone took, and what it announced

goroutine == <<wait, waitIndex>>
main  == <<pc, index, requested, mode, attempt, outcome>>
phone == <<accepted, echoed>>
vars  == <<client, fired, dispatching, goroutine, main, expired, phone>>

WaitControl == {"check", "register", "wait", "remove", "returned"}

Control == {"connect", "grace", "ask", "seed", "check", "register", "wait", "remove",
            "compose", "watch", "post", "echo", "unwatch", "done"}

\* Where main is inside a call of libgm, which has no context and no deadline.
InLibgm == {"connect", "ask", "compose", "post"}

Outcome == {"none", "sent", "rejected_unknown", "failed"}

Init ==
    /\ ClientInit
    /\ wait = "check" /\ waitIndex = 0
    /\ pc = "connect" /\ index = 0
    /\ requested \in Mode /\ mode = "legacy"
    /\ attempt = "first" /\ outcome = "none"
    /\ expired = FALSE
    /\ accepted = {} /\ echoed = {}

-----------------------------------------------------------------------------
(* The phone and the clock: external.                                      *)

\* The phone answers with ready and settings events at any time while the
\* connection is up, and announces an accepted message at most once.
Deliver(d) ==
    /\ pc \notin {"connect", "done"}
    /\ \E e \in {"ready", "settings"} \cup (accepted \ echoed) :
          /\ Accept(d, e)
          /\ echoed' = echoed \cup ({e} \cap Attempt)
    /\ UNCHANGED <<goroutine, main, expired, accepted>>

Dispatch(d) ==
    /\ DispatchStep(d)
    /\ UNCHANGED <<goroutine, main, expired, phone>>

Expire ==
    /\ ~expired
    /\ expired' = TRUE
    /\ UNCHANGED <<client, fired, dispatching, goroutine, main, phone>>

-----------------------------------------------------------------------------
(* WaitForReady.                                                           *)

ReadyCheck ==
    /\ wait = "check"
    /\ wait' = IF ready THEN "returned" ELSE "register"
    /\ UNCHANGED <<client, fired, dispatching, waitIndex, main, expired, phone>>

\* Mutant: c.ready is not looked at again under the lock.
NoRecheckMutant ==
    /\ wait = "register"
    /\ subscribers' = Registered("ready")
    /\ waitIndex' = NextIndex
    /\ wait' = "wait"
    /\ UNCHANGED <<ready, settings, fired, dispatching, main, expired, phone>>

ReadyRegister ==
    /\ wait = "register"
    /\ subscribers' = Registered("ready")
    /\ waitIndex' = NextIndex
    /\ fired' = fired \cup (IF ready THEN {"ready"} ELSE {})
    /\ wait' = "wait"
    /\ UNCHANGED <<ready, settings, dispatching, main, expired, phone>>

ReadyWake ==
    /\ wait = "wait"
    /\ "ready" \in fired \/ expired
    /\ wait' = "remove"
    /\ UNCHANGED <<client, fired, dispatching, waitIndex, main, expired, phone>>

ReadyRemove ==
    /\ wait = "remove"
    /\ subscribers' = Without(waitIndex)
    /\ wait' = "returned"
    /\ UNCHANGED <<ready, settings, fired, dispatching, waitIndex, main, expired, phone>>

ReadyStep == ReadyCheck \/ ReadyRegister \/ ReadyWake \/ ReadyRemove

-----------------------------------------------------------------------------
(* The main goroutine.                                                     *)

Goto(l) == pc' = l

End(o) == Goto("done") /\ outcome' = o

Fail == End("failed") /\ UNCHANGED <<client, index, mode, attempt, accepted>>

\* Connect clears c.ready before the connection opens.
Connect ==
    /\ pc = "connect"
    /\ \/ /\ Goto("grace")
          /\ ready' = FALSE
          /\ UNCHANGED <<subscribers, settings, index, mode, attempt, outcome, accepted>>
       \/ Fail

\* waitForConnected, then the ready signal, its timer or the context: only
\* the first can fail, when the context ends before libgm is connected.
Grace ==
    /\ pc = "grace"
    /\ \/ /\ LateGoroutine \/ wait \notin {"check", "register"}
          /\ Goto("ask")
          /\ UNCHANGED <<client, index, mode, attempt, outcome, accepted>>
       \/ expired /\ Fail

\* RequestUpdates, whose failure ends the command, and IsDefaultSMSApp, whose
\* answer is only logged.
Ask ==
    /\ pc = "ask"
    /\ \/ /\ Goto("seed")
          /\ UNCHANGED <<client, index, mode, attempt, outcome, accepted>>
       \/ Fail

\* seedCachedSendSettings: the settings an earlier run persisted, if any.
Seed ==
    /\ pc = "seed"
    /\ \/ /\ settings' = TRUE
          /\ Goto("check")
          /\ UNCHANGED <<subscribers, ready, index, mode, attempt, outcome, accepted>>
       \/ /\ Goto("check")
          /\ UNCHANGED <<client, index, mode, attempt, outcome, accepted>>
       \/ Fail

\* buildSendTextRequest down to the first look at c.settings.
SettingsCheck ==
    /\ pc = "check"
    /\ Goto(IF requested = "legacy" THEN "watch"
            ELSE IF settings THEN "compose" ELSE "register")
    /\ UNCHANGED <<client, fired, index, mode, attempt, outcome, accepted>>

SettingsRegister ==
    /\ pc = "register"
    /\ subscribers' = Registered("settings")
    /\ index' = NextIndex
    /\ fired' = fired \cup (IF settings THEN {"settings"} ELSE {})
    /\ Goto("wait")
    /\ UNCHANGED <<ready, settings, mode, attempt, outcome, accepted>>

\* The settings arrive, the metadata timer fires, or the command expires;
\* mode says meanwhile which.
SettingsWake ==
    /\ pc = "wait"
    /\ \/ "settings" \in fired /\ mode' = "settings"
       \/ mode' = "legacy"
    /\ Goto("remove")
    /\ UNCHANGED <<client, fired, index, attempt, outcome, accepted>>

SettingsRemove ==
    /\ pc = "remove"
    /\ subscribers' = Without(index)
    /\ IF mode = "settings" THEN Goto("compose") /\ UNCHANGED outcome
       ELSE IF expired \/ requested = "settings" THEN End("failed")
       ELSE Goto("watch") /\ UNCHANGED outcome
    /\ UNCHANGED <<ready, settings, fired, index, mode, attempt, accepted>>

\* buildSettingsSendTextRequest: the conversation may not be answered, or
\* match no SIM.
Compose ==
    /\ pc = "compose"
    /\ \/ /\ mode' = "settings"
          /\ Goto("watch")
          /\ UNCHANGED <<client, index, attempt, outcome, accepted>>
       \/ Fail

\* Mutant: the retry watches for the tmp_id of the first attempt.
WatchFirstMutant ==
    /\ pc = "watch"
    /\ subscribers' = Registered("first")
    /\ index' = NextIndex
    /\ Goto("post")
    /\ UNCHANGED <<ready, settings, mode, attempt, outcome, accepted>>

WatchEcho ==
    /\ pc = "watch"
    /\ subscribers' = Registered(attempt)
    /\ index' = NextIndex
    /\ Goto("post")
    /\ UNCHANGED <<ready, settings, mode, attempt, outcome, accepted>>

\* SendMessage.  Without an answer the phone may have taken the message; an
\* answer with another status than success is trusted to say that it has not.
Post ==
    /\ pc = "post"
    /\ \/ /\ accepted' = accepted \cup {attempt}
          /\ Goto("echo")
          /\ UNCHANGED outcome
       \/ /\ accepted' \in {accepted, accepted \cup {attempt}}
          /\ Goto("unwatch")
          /\ outcome' = "failed"
       \/ /\ outcome' \in {"rejected_unknown", "failed"}
          /\ Goto("unwatch")
          /\ UNCHANGED accepted
    /\ UNCHANGED <<client, index, mode, attempt>>

\* Mutant: the wait does not select on the context.
AwaitForeverMutant ==
    /\ pc = "echo"
    /\ attempt \in fired /\ outcome' = "sent"
    /\ Goto("unwatch")
    /\ UNCHANGED <<client, index, mode, attempt, accepted>>

AwaitEcho ==
    /\ pc = "echo"
    /\ \/ attempt \in fired /\ outcome' = "sent"
       \/ expired /\ outcome' = "failed"
    /\ Goto("unwatch")
    /\ UNCHANGED <<client, index, mode, attempt, accepted>>

\* Mutant: any failed attempt in settings mode is repeated.
RetryAlwaysMutant ==
    /\ requested = "auto" /\ mode = "settings" /\ attempt = "first"
    /\ outcome # "sent"

\* The legacy fallback of SendModeAuto.
FallsBack ==
    /\ requested = "auto" /\ mode = "settings" /\ attempt = "first"
    /\ outcome = "rejected_unknown"

\* The deferred unsubscribe, then the return or the fallback.
Unwatch ==
    /\ pc = "unwatch"
    /\ subscribers' = Without(index)
    /\ IF FallsBack
       THEN /\ Goto("watch")
            /\ attempt' = "retry" /\ mode' = "legacy" /\ outcome' = "none"
       ELSE Goto("done") /\ UNCHANGED <<attempt, mode, outcome>>
    /\ UNCHANGED <<ready, settings, index, accepted>>

MainStep ==
    /\ \/ (Connect \/ Grace \/ Ask \/ Seed \/ Compose \/ WatchEcho \/ Post
             \/ AwaitEcho \/ Unwatch) /\ UNCHANGED fired
       \/ SettingsCheck \/ SettingsRegister \/ SettingsWake \/ SettingsRemove
    /\ UNCHANGED <<dispatching, goroutine, requested, expired, echoed>>

Next ==
    \/ \E d \in Dispatcher : Deliver(d) \/ Dispatch(d)
    \/ Expire
    \/ ReadyStep
    \/ MainStep

Spec == Init /\ [][Next]_vars

\* Goroutines run, and the context has a deadline.  Neither the phone nor a
\* call of libgm promises anything: a step that ends such a call is not fair.
FairSpec ==
    /\ Spec
    /\ WF_vars(ReadyStep) /\ WF_vars(Expire)
    /\ WF_vars(MainStep /\ pc \notin InLibgm)
    /\ \A d \in Dispatcher : WF_vars(Dispatch(d))

-----------------------------------------------------------------------------

\* Types of the client and of the two goroutines.
TypeOK ==
    /\ ClientTypeOK
    /\ wait \in WaitControl /\ waitIndex \in Nat
    /\ pc \in Control /\ index \in Nat
    /\ requested \in Mode /\ mode \in {"settings", "legacy"}
    /\ attempt \in Attempt /\ outcome \in Outcome
    /\ expired \in BOOLEAN
    /\ accepted \subseteq Attempt /\ echoed \subseteq accepted

\* No lost wakeup: a goroutine that sleeps although the fact it waits for is
\* known sleeps only until a dispatch under way has called its handler.
NoLostWakeup ==
    /\ wait = "wait" /\ ready => "ready" \in fired \/ InFlight("ready")
    /\ pc = "wait" /\ settings => "settings" \in fired \/ InFlight("settings")

\* One command never makes the phone take the text twice, whatever it answers
\* and however the fallback goes, as long as a rejection means what it says.
AcceptedAtMostOnce == accepted # Attempt

\* The echo of an accepted message finds the handler of the attempt that sent
\* it: the sender is told "not echoed" only if the echo has not been
\* dispatched.
EchoIsHeard ==
    pc = "echo" /\ attempt \in echoed => attempt \in fired \/ InFlight(attempt)

\* WaitForReady removes no handler but its own: what main registered while it
\* slept is still there (the comment in gm.go: "Remove only our subscriber;
\* preserve any added concurrently").
RemovesOnlyItsOwn ==
    [][ReadyRemove => ToSet(subscribers) \ {"ready"} \subseteq ToSet(subscribers')]_vars

\* The command returns if each call of libgm does: no wait of its own, for the
\* connection, for ready, for settings or for an echo that never comes,
\* outlives the deadline of its context (readyTimeout in send.go).  A phone that
\* never answers RequestUpdates, GetConversation or SendMessage holds it for
\* ever, for these calls have no deadline.
CallsReturn == []<>(pc \notin InLibgm)

Returns == CallsReturn => <>(pc = "done")
=============================================================================
