---------------------------- MODULE ClientEvents -----------------------------
(***************************************************************************)
(* The event side of gm.Client (internal/gm/gm.go): the list of            *)
(* subscribers under its mutex, the two cached facts `ready` and           *)
(* `settings`, and dispatch, which libgm calls for every event.            *)
(*                                                                         *)
(* A handler is a name, and so is an event: a single-shot handler waits    *)
(* for the event of its own name, the pump takes every event.  `fired`     *)
(* holds the handlers whose channel was closed or filled.                  *)
(***************************************************************************)
EXTENDS Naturals, Sequences, SequencesExt

CONSTANT Dispatcher   \* libgm goroutines that call dispatch

Attempt == {"first", "retry"}              \* tmp_id of a send request
Event   == {"ready", "settings"} \cup Attempt
Handler == {"pump"} \cup Event

Idle == "idle"

VARIABLES
    subscribers,      \* the slice, in order of registration
    ready, settings,  \* c.ready; c.settings is not nil
    fired,
    event,            \* event of a dispatch in progress, or Idle
    todo,             \* what its copy of the slice has left to call
    copied            \* it has taken that copy

client == <<subscribers, ready, settings>>
dispatching == <<event, todo, copied>>

ClientTypeOK ==
    /\ subscribers \in Seq(Handler)
    /\ ready \in BOOLEAN /\ settings \in BOOLEAN
    /\ fired \subseteq Handler
    /\ event \in [Dispatcher -> Event \cup {Idle}]
    /\ todo \in [Dispatcher -> Seq(Handler)]
    /\ copied \in [Dispatcher -> BOOLEAN]

ClientInit ==
    /\ subscribers = <<"pump">>
    /\ ready = FALSE
    /\ settings = FALSE
    /\ fired = {}
    /\ event = [d \in Dispatcher |-> Idle]
    /\ todo = [d \in Dispatcher |-> <<>>]
    /\ copied = [d \in Dispatcher |-> FALSE]

-----------------------------------------------------------------------------

\* Subscribe, and what a waiter does: remember the index it lands on.
Registered(h) == Append(subscribers, h)

\* Mutant: the index of the last handler there was, not of the new one.
LastIndexMutant == Len(subscribers)

NextIndex == Len(subscribers) + 1

\* The deferred removal: by index, if the list is still long enough.
Without(i) ==
    IF i \in DOMAIN subscribers THEN RemoveAt(subscribers, i) ELSE subscribers

-----------------------------------------------------------------------------
(* dispatch: three critical sections, and between them anything goes.      *)

Accept(d, e) ==
    /\ event[d] = Idle
    /\ event' = [event EXCEPT ![d] = e]
    /\ ready' = (ready \/ e = "ready")
    /\ settings' = (settings \/ e = "settings")
    /\ UNCHANGED <<subscribers, fired, todo, copied>>

CopySubscribers(d) ==
    /\ event[d] # Idle
    /\ ~copied[d]
    /\ todo' = [todo EXCEPT ![d] = subscribers]
    /\ copied' = [copied EXCEPT ![d] = TRUE]
    /\ UNCHANGED <<client, fired, event>>

CallHandler(d) ==
    /\ copied[d]
    /\ todo[d] # <<>>
    /\ fired' = fired \cup ({Head(todo[d])} \cap {event[d]})
    /\ todo' = [todo EXCEPT ![d] = Tail(@)]
    /\ UNCHANGED <<client, event, copied>>

Return(d) ==
    /\ copied[d]
    /\ todo[d] = <<>>
    /\ event' = [event EXCEPT ![d] = Idle]
    /\ copied' = [copied EXCEPT ![d] = FALSE]
    /\ UNCHANGED <<client, fired, todo>>

DispatchStep(d) == CopySubscribers(d) \/ CallHandler(d) \/ Return(d)

\* The event e is on its way through some dispatch.
InFlight(e) == \E d \in Dispatcher : event[d] = e
=============================================================================
