------------------------- MODULE EventBusProperties -------------------------
(* What the event bus promises the handlers and the publishers.              *)
EXTENDS EventBus

\* The types of the variables.
BusTypeOK ==
  /\ wiring \in {"none", "connecting", "connected"}
  /\ registrations \subseteq Subscribers
  /\ turn \in [Subscribers -> Nat]
  /\ event \in [Events -> [at : {"none", "asking", "delivering", "published", "dropped"},
                           type : EventTypes, targets : SUBSET Subscribers,
                           present : SUBSET Subscribers]]
  /\ handed \in [Subscribers -> Seq(Events)]

Calls(s, e) == {i \in DOMAIN handed[s] : handed[s][i] = e}

\* Whatever handlers do and however publishes overlap: a handler is called with an
\* event at most once, and only if it wanted the type and was registered when the
\* publish looked; and each of those has been called when the publish is over, even
\* if it has unsubscribed since and even if others threw, unless the report of a
\* registration before it ended the publish (memory-bus.ts:92).
HandedOnce ==
  \A e \in Events, s \in Subscribers :
    /\ \A i, k \in Calls(s, e) : i = k
    /\ Calls(s, e) # {} => s \in event[e].present /\ event[e].type \in Wanted[s]
    /\ Over(e) /\ s \in event[e].present /\ event[e].type \in Wanted[s] =>
         \/ Calls(s, e) # {}
         \/ \E r \in Reporting \ {s} : Calls(r, e) # {} /\ turn[r] <= turn[s]

\* The events of publishers in ps reach each handler in the order they were published.
InOrder(ps) ==
  \A s \in Subscribers : \A i, j \in DOMAIN handed[s] :
    i < j /\ handed[s][i][1] = handed[s][j][1] /\ handed[s][i][1] \in ps
      => handed[s][i][2] < handed[s][j][2]

\* A job that awaits its publishes has its events handled in order by everyone,
\* though other jobs publish in between and each waits for slow handlers.
AwaitedInOrder == InOrder(Awaiting)

\* A connection attempt ends, callbacks are run, and handlers return or throw.
BusFairness ==
  /\ WF_busVars(Connected \/ ConnectFails)
  /\ \A e \in Events : WF_busVars(Publish(e) \/ Refuse(e)) /\ WF_busVars(HandlerSettles(e))

\* Every publish ends, even one made while the bus was connecting in vain: the
\* jobs that await it go on.
PublishesEnd == \A e \in Events : event[e].at # "none" ~> Over(e)
=============================================================================
