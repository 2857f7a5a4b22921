------------------------------ MODULE EventBus ------------------------------
(***************************************************************************)
(* The in-process event bus, packages/events/src/memory-bus.ts, and the    *)
(* worker's way to it, utils/eventBus.ts.                                  *)
(*                                                                         *)
(* A publish takes the registrations that want its type and calls their    *)
(* handlers one after the other, in the order they registered, waiting for *)
(* each, whether it returns or throws; only a registration's own report of *)
(* a failure ends the loop, when it throws itself.  Meanwhile other        *)
(* publishes run and handlers come and go.  The first publish of the       *)
(* process creates the bus, and those that come while it connects wait for *)
(* the same connection and are dropped with it.                            *)
(***************************************************************************)
EXTENDS Naturals, Sequences, FiniteSets

CONSTANTS
  Publishers,     \* jobs: the events of one carry its id as correlationId
  Awaiting,       \* those whose code awaits a publish before the next
  Subscribers,    \* registrations, each made once
  Reporting,      \* those made with an onInvalidMessage of their own
  EventTypes,
  Wanted,         \* the types each registration asks for
  MaxEvents       \* how many events each publisher publishes

ASSUME BusAssumption ==
  /\ EventTypes # {}
  /\ Awaiting \subseteq Publishers /\ Reporting \subseteq Subscribers
  /\ Wanted \in [Subscribers -> SUBSET EventTypes]
  /\ MaxEvents \in [Publishers -> Nat]

VARIABLES
  wiring,         \* bus and connecting of utils/eventBus.ts
  registrations,  \* those there are
  turn,           \* the place of each in the order they were made, 0 before
  event,          \* the publishes, with what is left to do
  handed          \* history: the events each handler was called with, in order

busVars == <<wiring, registrations, turn, event, handed>>

Events == UNION {{p} \X (1 .. MaxEvents[p]) : p \in Publishers}

\* targets: handlers still to call after the one that runs.  present: the
\* registrations there were when the publish looked.
Unpublished ==
  [at |-> "none", type |-> CHOOSE t \in EventTypes : TRUE, targets |-> {}, present |-> {}]

BusInit ==
  /\ wiring = "none"
  /\ registrations = {}
  /\ turn = [s \in Subscribers |-> 0]
  /\ event = [e \in Events |-> Unpublished]
  /\ handed = [s \in Subscribers |-> <<>>]

\* Mutant of Over: a publish does not wait for the handlers it calls.
OverEarly(e) == event[e].at \in {"delivering", "published", "dropped"}

\* The promise of the publish has settled.
Over(e) == event[e].at \in {"published", "dropped"}

-----------------------------------------------------------------------------
\* publishEvent, up to the bus it waits for.
PublishEvent(e, t) ==
  /\ event[e].at = "none"
  /\ \A n \in 1 .. e[2] - 1 :
       /\ event[<<e[1], n>>].at # "none"
       /\ e[1] \in Awaiting => Over(<<e[1], n>>)
  /\ event' = [event EXCEPT ![e].at = "asking", ![e].type = t]
  /\ wiring' = IF wiring = "none" THEN "connecting" ELSE wiring
  /\ UNCHANGED <<registrations, turn, handed>>

Connected ==
  /\ wiring = "connecting"
  /\ wiring' = "connected"
  /\ UNCHANGED <<registrations, turn, event, handed>>

\* Mutants of ConnectFails: those that wait are not told ...
ConnectFailsQuietly ==
  /\ wiring = "connecting"
  /\ wiring' = "none"
  /\ UNCHANGED <<registrations, turn, event, handed>>

\* ... or the failure is remembered.
ConnectFailsForGood ==
  /\ wiring = "connecting"
  /\ wiring' = "failed"
  /\ event' = [e \in Events |->
       IF event[e].at = "asking" THEN [event[e] EXCEPT !.at = "dropped"] ELSE event[e]]
  /\ UNCHANGED <<registrations, turn, handed>>

\* Everyone who waits for the connection drops its event; the next one tries anew.
ConnectFails ==
  /\ wiring = "connecting"
  /\ wiring' = "none"
  /\ event' = [e \in Events |->
       IF event[e].at = "asking" THEN [event[e] EXCEPT !.at = "dropped"] ELSE event[e]]
  /\ UNCHANGED <<registrations, turn, handed>>

\* The publish has these handlers left to call: the first is called at once.
Deliver(e, present, targets) ==
  /\ \/ /\ targets = {}
        /\ event' = [event EXCEPT ![e].at = "published", ![e].present = present,
                                  ![e].targets = {}]
        /\ UNCHANGED handed
     \/ \E s \in targets :
          /\ \A t \in targets : turn[s] <= turn[t]
          /\ event' = [event EXCEPT ![e].at = "delivering", ![e].present = present,
                                    ![e].targets = targets \ {s}]
          /\ handed' = [handed EXCEPT ![s] = Append(@, e)]
  /\ UNCHANGED <<wiring, registrations, turn>>

\* publish with its snapshot of the registrations.
Publish(e) ==
  /\ event[e].at = "asking" /\ wiring = "connected"
  /\ Deliver(e, registrations, {s \in registrations : event[e].type \in Wanted[s]})

\* The handlers that e has been given to, and the last of them, which is running.
Called(e) ==
  {s \in event[e].present : event[e].type \in Wanted[s]} \ event[e].targets

Running(e) == {s \in Called(e) : \A t \in Called(e) : turn[t] <= turn[s]}

\* The publish throws and the event is dropped: its payload does not parse, which
\* is seen before any handler is called, or the running handler has thrown and so
\* has its registration's onInvalidMessage.
Refuse(e) ==
  /\ \/ event[e].at = "asking" /\ wiring = "connected"
     \/ event[e].at = "delivering" /\ Running(e) \cap Reporting # {}
  /\ event' = [event EXCEPT ![e].at = "dropped"]
  /\ UNCHANGED <<wiring, registrations, turn, handed>>

\* Mutant of HandlerSettles: without the try around the call, a handler that
\* throws ends the loop and the publish.
HandlerThrows(e) ==
  /\ event[e].at = "delivering"
  /\ \/ Deliver(e, event[e].present, event[e].targets)
     \/ /\ event' = [event EXCEPT ![e].at = "dropped"]
        /\ UNCHANGED <<wiring, registrations, turn, handed>>

\* The running handler returns, or throws and is reported.
HandlerSettles(e) ==
  /\ event[e].at = "delivering"
  /\ Deliver(e, event[e].present, event[e].targets)

-----------------------------------------------------------------------------
Turns == {s \in Subscribers : turn[s] > 0}

BusSubscribe(s) ==
  /\ turn[s] = 0
  /\ turn' = [turn EXCEPT ![s] = Cardinality(Turns) + 1]
  /\ registrations' = registrations \cup {s}
  /\ UNCHANGED <<wiring, event, handed>>

Unsubscribe(s) ==
  /\ s \in registrations
  /\ registrations' = registrations \ {s}
  /\ UNCHANGED <<wiring, turn, event, handed>>

\* disconnect forgets every registration; what is being delivered goes on.
Disconnect ==
  /\ registrations # {}
  /\ registrations' = {}
  /\ UNCHANGED <<wiring, turn, event, handed>>

BusNext ==
  \/ \E e \in Events :
       \/ \E t \in EventTypes : PublishEvent(e, t)
       \/ Publish(e) \/ Refuse(e) \/ HandlerSettles(e)
  \/ Connected \/ ConnectFails
  \/ \E s \in Subscribers : BusSubscribe(s) \/ Unsubscribe(s)
  \/ Disconnect

BusSpec == BusInit /\ [][BusNext]_busVars
=============================================================================
