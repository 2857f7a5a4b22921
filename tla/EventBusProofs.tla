---------------------------- MODULE EventBusProofs ----------------------------
(***************************************************************************)
(* Proofs that the bus calls each handler once with an event, leaves none  *)
(* out unless a registration's own report throws, and keeps the order of   *)
(* publishes that are awaited, for any number of jobs, events and          *)
(* registrations.  BusInv says who has been called with what, OrderInv in  *)
(* which order; together they carry HandedOnce.                            *)
(***************************************************************************)
EXTENDS EventBusProperties, FiniteSetTheorems, TLAPS

EventRecord ==
  [at : {"none", "asking", "delivering", "published", "dropped"},
   type : EventTypes, targets : SUBSET Subscribers, present : SUBSET Subscribers]

\* A publish that has not looked for handlers has none; those it has still to
\* call were there and want the event.
Targets(r) ==
  /\ r.at \in {"none", "asking"} => r.present = {}
  /\ r.targets \subseteq {s \in r.present : r.type \in Wanted[s]}
  /\ r.at = "published" => r.targets = {}

TargetsInv == \A e \in Events : Targets(event[e])

\* A job that awaits its publishes has at most one under way, its latest.
OneByOne ==
  \A p \in Awaiting : \A n, m \in 1 .. MaxEvents[p] :
    m < n /\ event[<<p, n>>].at # "none" => Over(<<p, m>>)

\* The handlers of present that want the event have been called, but for targets.
CalledBut(e, present, targets) ==
  \A s \in Subscribers :
    IF s \in present \ targets /\ event[e].type \in Wanted[s]
    THEN \E i \in Calls(s, e) : Calls(s, e) = {i}
    ELSE Calls(s, e) = {}

CallsInv == \A e \in Events : CalledBut(e, event[e].present, event[e].targets)

BusInv == BusTypeOK /\ TargetsInv /\ CallsInv /\ OneByOne /\ AwaitedInOrder

-----------------------------------------------------------------------------
LEMMA TypesOfBus ==
  ASSUME BusInv
  PROVE  /\ event \in [Events -> EventRecord]
         /\ handed \in [Subscribers -> Seq(Events)]
         /\ registrations \subseteq Subscribers
BY DEF BusInv, BusTypeOK, EventRecord

\* What keeps a step that calls no handler from disturbing anything: some events
\* change how far they are, none goes back, and nothing else is new.
LEMMA UncalledKeepsBusInv ==
  ASSUME BusInv, BusTypeOK', handed' = handed,
         \A e \in Events :
           /\ Targets(event'[e])
           /\ event'[e].present = event[e].present
           /\ event'[e].targets = event[e].targets
           /\ event'[e].type = event[e].type \/ event[e].present = {},
         OneByOne'
  PROVE  BusInv'
<1>1. TargetsInv'
  BY DEF TargetsInv
<1>2. CallsInv'
  <2> SUFFICES ASSUME NEW e \in Events, NEW s \in Subscribers
               PROVE  IF s \in event'[e].present \ event'[e].targets
                           /\ event'[e].type \in Wanted[s]
                      THEN \E i \in Calls(s, e)' : Calls(s, e)' = {i}
                      ELSE Calls(s, e)' = {}
    BY DEF CallsInv, CalledBut
  <2>1. Calls(s, e)' = Calls(s, e)
    BY DEF Calls
  <2> QED BY <2>1 DEF BusInv, CallsInv, CalledBut
<1>3. AwaitedInOrder'
  BY DEF BusInv, AwaitedInOrder, InOrder
<1> QED BY <1>1, <1>2, <1>3 DEF BusInv

LEMMA PublishEventKeepsBusInv ==
  ASSUME BusInv, NEW e \in Events, NEW t \in EventTypes, PublishEvent(e, t)
  PROVE  BusInv'
<1>1. PICK r \in EventRecord : r = [event[e] EXCEPT !.at = "asking", !.type = t]
  BY TypesOfBus DEF EventRecord
<1>2. /\ r.at = "asking" /\ r.present = event[e].present /\ r.targets = event[e].targets
      /\ r.type = t
  BY <1>1, TypesOfBus DEF EventRecord
<1>3. /\ event' = [event EXCEPT ![e] = r] /\ event[e].at = "none"
      /\ wiring' \in {"none", "connecting", "connected"}
      /\ UNCHANGED <<registrations, turn, handed>>
  BY <1>1, TypesOfBus DEF PublishEvent, BusInv, BusTypeOK, EventRecord
<1>4. BusTypeOK'
  BY <1>3, TypesOfBus DEF BusInv, BusTypeOK, EventRecord
<1>5. Targets(event[e]) /\ event[e].present = {} /\ event[e].targets = {}
  BY <1>3 DEF BusInv, TargetsInv, Targets
<1>6. Targets(r)
  BY <1>2, <1>5 DEF Targets
<1>7. ASSUME NEW d \in Events
      PROVE  /\ Targets(event'[d])
             /\ event'[d].present = event[d].present
             /\ event'[d].targets = event[d].targets
             /\ event'[d].type = event[d].type \/ event[d].present = {}
  BY <1>2, <1>3, <1>5, <1>6, TypesOfBus DEF BusInv, TargetsInv
<1>8. OneByOne'
  <2> SUFFICES ASSUME NEW p \in Awaiting, NEW n \in 1 .. MaxEvents[p],
                      NEW m \in 1 .. MaxEvents[p],
                      m < n, event'[<<p, n>>].at # "none"
               PROVE  event'[<<p, m>>].at \in {"published", "dropped"}
    BY DEF OneByOne, Over
  <2>1. p \in Publishers /\ MaxEvents[p] \in Nat
    BY BusAssumption
  <2>2. <<p, n>> \in Events /\ <<p, m>> \in Events
    BY <2>1 DEF Events
  <2>3. event[<<p, m>>].at \in {"published", "dropped"}
    <3>1. CASE e = <<p, n>>
      <4>1. e[1] = p /\ e[2] = n /\ m \in 1 .. n - 1
        BY <3>1, <2>1
      <4> QED BY <4>1 DEF PublishEvent, Over
    <3>2. CASE e # <<p, n>>
      BY <1>3, <2>2, <3>2, TypesOfBus DEF BusInv, OneByOne, Over
    <3> QED BY <3>1, <3>2
  <2>4. e # <<p, m>>
    BY <1>3, <2>3
  <2> QED BY <1>3, <2>2, <2>3, <2>4, TypesOfBus
<1> QED BY <1>3, <1>4, <1>7, <1>8, UncalledKeepsBusInv

\* Dropping events that have not ended.
LEMMA DropKeepsBusInv ==
  ASSUME BusInv, NEW D \in SUBSET Events,
         \A e \in D : event[e].at \in {"asking", "delivering"},
         event' = [e \in Events |-> IF e \in D THEN [event[e] EXCEPT !.at = "dropped"] ELSE event[e]],
         wiring' \in {"none", "connecting", "connected"},
         UNCHANGED <<registrations, turn, handed>>
  PROVE  BusInv'
<1>1. ASSUME NEW e \in Events
      PROVE  /\ event'[e] \in EventRecord
             /\ event'[e].present = event[e].present
             /\ event'[e].targets = event[e].targets
             /\ event'[e].type = event[e].type
             /\ e \in D => event'[e].at = "dropped"
             /\ e \notin D => event'[e].at = event[e].at
  BY TypesOfBus DEF EventRecord
<1>2. BusTypeOK'
  BY <1>1 DEF BusInv, BusTypeOK, EventRecord
<1>3. ASSUME NEW e \in Events PROVE Targets(event'[e])
  BY <1>1 DEF BusInv, TargetsInv, Targets
<1>4. OneByOne'
  <2> SUFFICES ASSUME NEW p \in Awaiting, NEW n \in 1 .. MaxEvents[p],
                      NEW m \in 1 .. MaxEvents[p],
                      m < n, event'[<<p, n>>].at # "none"
               PROVE  event'[<<p, m>>].at \in {"published", "dropped"}
    BY DEF OneByOne, Over
  <2>1. <<p, n>> \in Events /\ <<p, m>> \in Events
    BY BusAssumption DEF Events
  <2>2. event[<<p, n>>].at # "none"
    BY <1>1, <2>1
  <2> QED BY <1>1, <2>1, <2>2 DEF BusInv, OneByOne, Over
<1> QED BY <1>1, <1>2, <1>3, <1>4, UncalledKeepsBusInv

\* A handler is called with an event.
Told(s, e) == handed' = [handed EXCEPT ![s] = Append(@, e)]

\* What Deliver does: the event becomes r, and the handler it calls is told.
Outcome(e, present, targets, r) ==
  /\ event' = [event EXCEPT ![e] = r]
  /\ r.present = present /\ r.type = event[e].type
  /\ \/ r.at = "published" /\ r.targets = {} /\ targets = {} /\ handed' = handed
     \/ /\ r.at = "delivering"
        /\ \E s \in targets : /\ r.targets = targets \ {s}
                              /\ Told(s, e)
  /\ UNCHANGED <<wiring, registrations, turn>>

LEMMA DeliverOutcome ==
  ASSUME BusInv, NEW e \in Events, NEW present \in SUBSET Subscribers,
         NEW targets \in SUBSET Subscribers, Deliver(e, present, targets)
  PROVE  \E r \in EventRecord : Outcome(e, present, targets, r)
<1>1. CASE /\ targets = {}
           /\ event' = [event EXCEPT ![e].at = "published", ![e].present = present,
                                     ![e].targets = {}]
           /\ UNCHANGED handed
  <2>1. PICK r \in EventRecord : r = [event[e] EXCEPT !.at = "published",
                                               !.present = present, !.targets = {}]
    BY TypesOfBus DEF EventRecord
  <2>2. event' = [event EXCEPT ![e] = r]
    BY <1>1, <2>1, TypesOfBus
  <2>3. r.at = "published" /\ r.present = present /\ r.targets = {} /\ r.type = event[e].type
    BY <2>1, TypesOfBus DEF EventRecord
  <2> QED BY <1>1, <2>2, <2>3 DEF Deliver, Outcome, Told
<1>2. CASE \E s \in targets :
             /\ event' = [event EXCEPT ![e].at = "delivering", ![e].present = present,
                                       ![e].targets = targets \ {s}]
             /\ Told(s, e)
  <2>1. PICK s \in targets :
          /\ event' = [event EXCEPT ![e].at = "delivering", ![e].present = present,
                                    ![e].targets = targets \ {s}]
          /\ Told(s, e)
    BY <1>2
  <2>2. PICK r \in EventRecord : r = [event[e] EXCEPT !.at = "delivering",
                                       !.present = present, !.targets = targets \ {s}]
    BY TypesOfBus DEF EventRecord
  <2>3. event' = [event EXCEPT ![e] = r]
    BY <2>1, <2>2, TypesOfBus
  <2>4. /\ r.at = "delivering" /\ r.present = present /\ r.targets = targets \ {s}
        /\ r.type = event[e].type
    BY <2>2, TypesOfBus DEF EventRecord
  <2> QED BY <2>1, <2>3, <2>4 DEF Deliver, Outcome, Told
<1> QED BY <1>1, <1>2 DEF Deliver, Told

\* An event at the end of what a handler was called with.
LEMMA CallRecorded ==
  ASSUME BusInv, NEW e \in Events, NEW s \in Subscribers,
         Told(s, e)
  PROVE  /\ handed' \in [Subscribers -> Seq(Events)]
         /\ \A d \in Events, q \in Subscribers :
              q # s \/ d # e => Calls(q, d)' = Calls(q, d)
         /\ Calls(s, e) = {} => \E i \in Calls(s, e)' : Calls(s, e)' = {i}
         /\ \A q \in Subscribers : \A i \in DOMAIN handed'[q] :
              \/ i \in DOMAIN handed[q] /\ handed'[q][i] = handed[q][i]
              \/ q = s /\ i = Len(handed[s]) + 1 /\ handed'[q][i] = e
<1>1. PICK old \in Seq(Events) : old = handed[s]
  BY TypesOfBus
<1>2. /\ Append(old, e) \in Seq(Events)
      /\ DOMAIN Append(old, e) = DOMAIN old \cup {Len(old) + 1}
      /\ Len(old) + 1 \notin DOMAIN old
      /\ \A i \in DOMAIN old : Append(old, e)[i] = old[i]
      /\ Append(old, e)[Len(old) + 1] = e
  OBVIOUS
<1>3. /\ handed' = [handed EXCEPT ![s] = Append(old, e)]
      /\ handed'[s] = Append(old, e)
      /\ \A q \in Subscribers \ {s} : handed'[q] = handed[q]
  BY <1>1, TypesOfBus DEF Told
<1>4. handed' \in [Subscribers -> Seq(Events)]
  BY <1>2, <1>3, TypesOfBus
<1>5. ASSUME NEW d \in Events, NEW q \in Subscribers, q # s \/ d # e
      PROVE  Calls(q, d)' = Calls(q, d)
  BY <1>1, <1>2, <1>3, <1>5 DEF Calls
<1>6. ASSUME Calls(s, e) = {}
      PROVE  \E i \in Calls(s, e)' : Calls(s, e)' = {i}
  <2>1. Calls(s, e)' = {Len(old) + 1}
    BY <1>1, <1>2, <1>3, <1>6 DEF Calls
  <2> QED BY <2>1
<1>7. ASSUME NEW q \in Subscribers, NEW i \in DOMAIN handed'[q]
      PROVE  \/ i \in DOMAIN handed[q] /\ handed'[q][i] = handed[q][i]
             \/ q = s /\ i = Len(handed[s]) + 1 /\ handed'[q][i] = e
  BY <1>1, <1>2, <1>3
<1> QED BY <1>4, <1>5, <1>6, <1>7

\* Calling the next handler of a publish, or ending it.  The handlers it has still
\* to call are those of present that want the event and were not called.
LEMMA DeliverKeepsBusInv ==
  ASSUME BusInv, NEW e \in Events, NEW present \in SUBSET Subscribers,
         NEW targets \in SUBSET Subscribers,
         targets \subseteq {s \in present : event[e].type \in Wanted[s]},
         event[e].at \in {"asking", "delivering"},
         CalledBut(e, present, targets),
         Deliver(e, present, targets)
  PROVE  BusInv'
<1>0. PICK r \in EventRecord : Outcome(e, present, targets, r)
  BY DeliverOutcome
<1>1. /\ event' = [event EXCEPT ![e] = r]
      /\ r.present = present /\ r.type = event[e].type
      /\ \/ r.at = "published" /\ r.targets = {} /\ targets = {} /\ handed' = handed
         \/ /\ r.at = "delivering"
            /\ \E s \in targets : /\ r.targets = targets \ {s}
                                  /\ Told(s, e)
      /\ UNCHANGED <<wiring, registrations, turn>>
  BY <1>0 DEF Outcome
<1>2. event'[e] = r /\ \A d \in Events \ {e} : event'[d] = event[d]
  BY <1>1, TypesOfBus
<1>3. handed' \in [Subscribers -> Seq(Events)]
  BY <1>1, CallRecorded, TypesOfBus
<1>4. BusTypeOK'
  BY <1>1, <1>3, TypesOfBus DEF BusInv, BusTypeOK, EventRecord
<1>5. TargetsInv'
  <2>1. Targets(r)
    BY <1>1 DEF Targets
  <2> QED BY <1>2, <2>1 DEF BusInv, TargetsInv
<1>6. CallsInv'
  <2> SUFFICES ASSUME NEW d \in Events, NEW s \in Subscribers
               PROVE  IF s \in event'[d].present \ event'[d].targets
                           /\ event'[d].type \in Wanted[s]
                      THEN \E i \in Calls(s, d)' : Calls(s, d)' = {i}
                      ELSE Calls(s, d)' = {}
    BY DEF CallsInv, CalledBut
  <2>1. CASE d # e
    <3>1. Calls(s, d)' = Calls(s, d)
      <4>1. CASE handed' = handed
        BY <4>1 DEF Calls
      <4>2. CASE \E q \in targets : Told(q, e)
        BY <2>1, <4>2, CallRecorded
      <4> QED BY <1>1, <4>1, <4>2
    <3> QED BY <1>2, <2>1, <3>1 DEF BusInv, CallsInv, CalledBut
  <2>2. CASE d = e /\ r.at = "published" /\ r.targets = {} /\ targets = {} /\ handed' = handed
    <3>1. Calls(s, e)' = Calls(s, e)
      BY <2>2 DEF Calls
    <3> QED BY <1>1, <1>2, <2>2, <3>1 DEF CalledBut
  <2>3. ASSUME d = e, r.at = "delivering", NEW q \in targets, r.targets = targets \ {q},
               Told(q, e)
        PROVE  IF s \in r.present \ r.targets /\ r.type \in Wanted[s]
               THEN \E i \in Calls(s, e)' : Calls(s, e)' = {i}
               ELSE Calls(s, e)' = {}
    <3>1. CASE s = q
      <4>1. Calls(s, e) = {}
        BY <3>1 DEF CalledBut
      <4>2. \E i \in Calls(s, e)' : Calls(s, e)' = {i}
        BY <2>3, <3>1, <4>1, CallRecorded
      <4> QED BY <1>1, <2>3, <3>1, <4>2
    <3>2. CASE s # q
      <4>1. Calls(s, e)' = Calls(s, e)
        BY <2>3, <3>2, CallRecorded
      <4> QED BY <1>1, <2>3, <3>2, <4>1 DEF CalledBut
    <3> QED BY <3>1, <3>2
  <2> QED BY <1>1, <1>2, <2>1, <2>2, <2>3
<1>7. OneByOne'
  <2> SUFFICES ASSUME NEW p \in Awaiting, NEW n \in 1 .. MaxEvents[p],
                      NEW m \in 1 .. MaxEvents[p],
                      m < n, event'[<<p, n>>].at # "none"
               PROVE  event'[<<p, m>>].at \in {"published", "dropped"}
    BY DEF OneByOne, Over
  <2>1. <<p, n>> \in Events /\ <<p, m>> \in Events
    BY BusAssumption DEF Events
  <2>2. event[<<p, n>>].at # "none"
    BY <1>2, <2>1
  <2>3. event[<<p, m>>].at \in {"published", "dropped"}
    BY <2>2 DEF BusInv, OneByOne, Over
  <2> QED BY <1>2, <2>1, <2>3
<1>8. AwaitedInOrder'
  <2> SUFFICES ASSUME NEW s \in Subscribers,
                      NEW i \in DOMAIN handed'[s], NEW j \in DOMAIN handed'[s], i < j,
                      handed'[s][i][1] = handed'[s][j][1], handed'[s][i][1] \in Awaiting
               PROVE  handed'[s][i][2] < handed'[s][j][2]
    BY DEF AwaitedInOrder, InOrder
  <2>1. CASE handed' = handed
    BY <2>1 DEF BusInv, AwaitedInOrder, InOrder
  <2>2. ASSUME NEW q \in targets, Told(q, e)
        PROVE  handed'[s][i][2] < handed'[s][j][2]
    <3>1. CASE j \in DOMAIN handed[s] /\ handed'[s][j] = handed[s][j]
      <4>1. i \in DOMAIN handed[s] /\ handed'[s][i] = handed[s][i]
        <5>1. j <= Len(handed[s]) /\ Len(handed[s]) \in Nat /\ i \in Nat /\ j \in Nat
          BY <1>3, <3>1, TypesOfBus
        <5> QED BY <2>2, <5>1, CallRecorded
      <4> QED BY <3>1, <4>1 DEF BusInv, AwaitedInOrder, InOrder
    <3>2. CASE s = q /\ j = Len(handed[s]) + 1 /\ handed'[s][j] = e
      <4>1. i \in DOMAIN handed[s] /\ handed'[s][i] = handed[s][i]
        BY <2>2, <3>2, CallRecorded
      <4>2. PICK d \in Events : d = handed[s][i]
        BY <4>1, TypesOfBus
      <4>3. d # e
        <5>1. Calls(s, e) = {}
          BY <2>2, <3>2 DEF CalledBut
        <5> QED BY <4>1, <4>2, <5>1 DEF Calls
      <4>4. event[d].at # "none"
        <5>1. Calls(s, d) # {}
          BY <4>1, <4>2 DEF Calls
        <5>2. s \in event[d].present
          BY <5>1 DEF BusInv, CallsInv, CalledBut
        <5> QED BY <5>2 DEF BusInv, TargetsInv, Targets
      <4>5. PICK p \in Publishers : \E k \in 1 .. MaxEvents[p] : d = <<p, k>>
        BY DEF Events
      <4>6. PICK o \in Publishers : \E k \in 1 .. MaxEvents[o] : e = <<o, k>>
        BY DEF Events
      <4>7. PICK m \in 1 .. MaxEvents[p], n \in 1 .. MaxEvents[o] : d = <<p, m>> /\ e = <<o, n>>
        BY <4>5, <4>6
      <4>8. o = p /\ p \in Awaiting /\ MaxEvents[p] \in Nat
        BY <3>2, <4>1, <4>2, <4>7, BusAssumption
      <4>9. ~(n < m)
        BY <4>4, <4>7, <4>8 DEF BusInv, OneByOne, Over
      <4>10. m < n
        BY <4>3, <4>7, <4>8, <4>9
      <4> QED BY <3>2, <4>1, <4>2, <4>7, <4>10
    <3> QED BY <2>2, <3>1, <3>2, CallRecorded
  <2> QED BY <1>1, <2>1, <2>2
<1> QED BY <1>4, <1>5, <1>6, <1>7, <1>8 DEF BusInv

-----------------------------------------------------------------------------
LEMMA PublishKeepsBusInv ==
  ASSUME BusInv, NEW e \in Events, Publish(e)
  PROVE  BusInv'
<1>1. PICK targets \in SUBSET Subscribers :
        targets = {s \in registrations : event[e].type \in Wanted[s]}
  BY TypesOfBus
<1>2. event[e].at = "asking" /\ Deliver(e, registrations, targets)
  BY <1>1 DEF Publish
<1>3. event[e].present = {}
  BY <1>2 DEF BusInv, TargetsInv, Targets
<1>4. CalledBut(e, registrations, targets)
  BY <1>1, <1>3 DEF BusInv, CallsInv, CalledBut
<1> QED BY <1>1, <1>2, <1>4, TypesOfBus, DeliverKeepsBusInv

LEMMA SettleKeepsBusInv ==
  ASSUME BusInv, NEW e \in Events, HandlerSettles(e)
  PROVE  BusInv'
<1>1. PICK present \in SUBSET Subscribers, targets \in SUBSET Subscribers :
        present = event[e].present /\ targets = event[e].targets
  BY TypesOfBus DEF EventRecord
<1>2. event[e].at = "delivering" /\ Deliver(e, present, targets)
  BY <1>1 DEF HandlerSettles
<1>3. targets \subseteq {s \in present : event[e].type \in Wanted[s]}
  BY <1>1 DEF BusInv, TargetsInv, Targets
<1>4. CalledBut(e, present, targets)
  BY <1>1 DEF BusInv, CallsInv, CalledBut
<1> QED BY <1>2, <1>3, <1>4, DeliverKeepsBusInv

\* Steps that leave the publishes alone.
LEMMA OthersKeepBusInv ==
  ASSUME BusInv, BusTypeOK', UNCHANGED <<event, handed>>
  PROVE  BusInv'
BY DEF BusInv, TargetsInv, CallsInv, CalledBut, Calls, OneByOne, Over, AwaitedInOrder, InOrder

\* Only registrations that were made have a turn, so the next is a number.
TurnsInv == DOMAIN turn = Subscribers /\ IsFiniteSet(Turns)

LEMMA TurnsInvHolds == BusSpec => []TurnsInv
<1>1. BusInit => TurnsInv
  <2> SUFFICES ASSUME BusInit PROVE TurnsInv
    OBVIOUS
  <2>1. DOMAIN turn = Subscribers /\ Turns = {}
    BY DEF BusInit, Turns
  <2> QED BY <2>1, FS_EmptySet DEF TurnsInv
<1>2. TurnsInv /\ [BusNext]_busVars => TurnsInv'
  <2> SUFFICES ASSUME TurnsInv, [BusNext]_busVars PROVE TurnsInv'
    OBVIOUS
  <2>1. ASSUME NEW s \in Subscribers, BusSubscribe(s) PROVE TurnsInv'
    <3>1. DOMAIN turn' = Subscribers /\ Turns' \subseteq Turns \cup {s}
      BY <2>1 DEF BusSubscribe, TurnsInv, Turns
    <3>2. IsFiniteSet(Turns \cup {s})
      BY FS_AddElement DEF TurnsInv
    <3>3. IsFiniteSet(Turns')
      BY <3>1, <3>2, FS_Subset
    <3> QED BY <3>1, <3>3 DEF TurnsInv
  <2>2. CASE UNCHANGED turn
    BY <2>2 DEF TurnsInv, Turns
  <2>3. [BusNext]_busVars => (\E s \in Subscribers : BusSubscribe(s)) \/ UNCHANGED turn
    BY DEF BusNext, busVars, PublishEvent, Publish, Refuse, HandlerSettles, Deliver, Connected,
           ConnectFails, Unsubscribe, Disconnect
  <2> QED BY <2>1, <2>2, <2>3
<1> QED BY <1>1, <1>2, PTL DEF BusSpec

LEMMA BusInvHolds == BusSpec => []BusInv
<1>1. BusInit => BusInv
  <2> SUFFICES ASSUME BusInit PROVE BusInv
    OBVIOUS
  <2>1. Unpublished \in EventRecord
    BY BusAssumption DEF Unpublished, EventRecord
  <2>2. /\ Unpublished.at = "none" /\ Unpublished.present = {} /\ Unpublished.targets = {}
        /\ Targets(Unpublished)
    BY DEF Unpublished, Targets
  <2>3. /\ BusTypeOK /\ TargetsInv
        /\ \A e \in Events : event[e] = Unpublished
        /\ \A s \in Subscribers : handed[s] = <<>>
    BY <2>1, <2>2 DEF BusInit, BusTypeOK, TargetsInv, EventRecord
  <2>4. \A e \in Events, s \in Subscribers : Calls(s, e) = {}
    BY <2>3 DEF Calls
  <2>5. CallsInv
    BY <2>2, <2>3, <2>4 DEF CallsInv, CalledBut
  <2>6. AwaitedInOrder
    BY <2>3 DEF AwaitedInOrder, InOrder
  <2>7. OneByOne
    BY <2>2, <2>3, BusAssumption DEF OneByOne, Events
  <2> QED BY <2>3, <2>5, <2>6, <2>7 DEF BusInv
<1>2. BusInv /\ TurnsInv /\ [BusNext]_busVars => BusInv'
  <2> SUFFICES ASSUME BusInv, TurnsInv, [BusNext]_busVars PROVE BusInv'
    OBVIOUS
  <2>1. ASSUME NEW e \in Events, NEW t \in EventTypes, PublishEvent(e, t) PROVE BusInv'
    BY <2>1, PublishEventKeepsBusInv
  <2>2. ASSUME NEW e \in Events, Publish(e) PROVE BusInv'
    BY <2>2, PublishKeepsBusInv
  <2>3. ASSUME NEW e \in Events, Refuse(e) PROVE BusInv'
    <3>1. event' = [d \in Events |->
                      IF d \in {e} THEN [event[d] EXCEPT !.at = "dropped"] ELSE event[d]]
      BY <2>3, TypesOfBus DEF Refuse
    <3> QED BY <2>3, <3>1, DropKeepsBusInv DEF Refuse, BusInv, BusTypeOK
  <2>4. ASSUME NEW e \in Events, HandlerSettles(e) PROVE BusInv'
    BY <2>4, SettleKeepsBusInv
  <2>5. CASE ConnectFails
    <3>1. PICK D \in SUBSET Events : D = {e \in Events : event[e].at = "asking"}
      OBVIOUS
    <3>2. event' = [e \in Events |->
                      IF e \in D THEN [event[e] EXCEPT !.at = "dropped"] ELSE event[e]]
      BY <2>5, <3>1 DEF ConnectFails
    <3> QED BY <2>5, <3>1, <3>2, DropKeepsBusInv DEF ConnectFails
  <2>6. CASE Connected \/ Disconnect
    <3>1. BusTypeOK' /\ UNCHANGED <<event, handed>>
      BY <2>6 DEF Connected, Disconnect, BusInv, BusTypeOK
    <3> QED BY <3>1, OthersKeepBusInv
  <2>7. ASSUME NEW s \in Subscribers, BusSubscribe(s) \/ Unsubscribe(s) PROVE BusInv'
    <3>1. ASSUME BusSubscribe(s)
          PROVE  turn' \in [Subscribers -> Nat]
      <4>1. Cardinality(Turns) \in Nat
        BY FS_CardinalityType DEF TurnsInv
      <4> QED BY <3>1, <4>1 DEF BusSubscribe, BusInv, BusTypeOK
    <3>2. BusTypeOK' /\ UNCHANGED <<event, handed>>
      BY <2>7, <3>1 DEF BusSubscribe, Unsubscribe, BusInv, BusTypeOK
    <3> QED BY <3>2, OthersKeepBusInv
  <2>8. CASE UNCHANGED busVars
    BY <2>8, OthersKeepBusInv DEF busVars, BusInv, BusTypeOK, Events
  <2> QED BY <2>1, <2>2, <2>3, <2>4, <2>5, <2>6, <2>7, <2>8 DEF BusNext
<1> QED BY <1>1, <1>2, TurnsInvHolds, PTL DEF BusSpec

-----------------------------------------------------------------------------
(* The order in which the handlers of a publish are called.                 *)

\* Whoever a publish has found has a turn; it has called those whose turn was first;
\* and if it was dropped with handlers to call, the last it called has a report.
OrderInv ==
  /\ registrations \subseteq Turns
  /\ \A e \in Events :
       /\ event[e].present \subseteq Turns
       /\ \A r \in Called(e), t \in event[e].targets : turn[r] <= turn[t]
       /\ event[e].at = "dropped" => \A t \in event[e].targets :
            \E r \in Called(e) \cap Reporting : turn[r] <= turn[t]

\* Steps that leave the handlers of every publish as they are.
LEMMA SameHandlersKeepOrder ==
  ASSUME BusInv, OrderInv, registrations' \subseteq registrations, turn' = turn,
         \A e \in Events :
           /\ event'[e].present = event[e].present
           /\ event'[e].targets = event[e].targets
           /\ event'[e].type = event[e].type \/ event[e].present = {}
           /\ event'[e].at = "dropped" =>
                \/ event[e].at = "dropped" \/ event[e].targets = {}
                \/ Running(e) \cap Reporting # {}
  PROVE  OrderInv'
<1>1. Turns' = Turns
  BY DEF Turns
<1>2. ASSUME NEW e \in Events PROVE Called(e)' = Called(e)
  BY DEF Called
<1>3. ASSUME NEW e \in Events, NEW t \in event[e].targets, event'[e].at = "dropped"
      PROVE  \E r \in Called(e) \cap Reporting : turn[r] <= turn[t]
  BY <1>3 DEF OrderInv, Running
<1> QED BY <1>1, <1>2, <1>3 DEF OrderInv

LEMMA DeliverKeepsOrder ==
  ASSUME BusInv, OrderInv, NEW e \in Events, NEW present \in SUBSET Turns,
         NEW targets \in SUBSET present,
         \A t \in targets : event[e].type \in Wanted[t],
         \A r \in present \ targets, t \in targets :
           event[e].type \in Wanted[r] => turn[r] <= turn[t],
         Deliver(e, present, targets)
  PROVE  OrderInv'
<1>0. /\ registrations' = registrations /\ turn' = turn /\ Turns' = Turns
      /\ \A s \in Subscribers : turn[s] \in Nat
      /\ present \subseteq Subscribers
  BY DEF Deliver, Turns, BusInv, BusTypeOK
<1>1. \A d \in Events \ {e} : event'[d] = event[d]
  BY TypesOfBus DEF Deliver
<1>2. PICK left \in SUBSET targets :
        /\ event'[e].present = present /\ event'[e].targets = left
        /\ event'[e].type = event[e].type /\ event'[e].at # "dropped"
        /\ \A r \in targets \ left, t \in left : turn[r] <= turn[t]
  <2>1. CASE targets = {}
    BY <2>1, TypesOfBus DEF Deliver, EventRecord
  <2>2. CASE targets # {}
    <3>1. PICK s \in targets :
            /\ \A t \in targets : turn[s] <= turn[t]
            /\ event' = [event EXCEPT ![e].at = "delivering", ![e].present = present,
                                      ![e].targets = targets \ {s}]
      BY <2>2 DEF Deliver
    <3>2. /\ event'[e].present = present /\ event'[e].targets = targets \ {s}
          /\ event'[e].type = event[e].type /\ event'[e].at # "dropped"
      BY <3>1, TypesOfBus DEF EventRecord
    <3>3. \A r \in targets \ (targets \ {s}), t \in targets \ {s} : turn[r] <= turn[t]
      BY <3>1
    <3>4. targets \ {s} \in SUBSET targets
      OBVIOUS
    <3> QED BY <3>2, <3>3, <3>4
  <2> QED BY <2>1, <2>2
<1>3. ASSUME NEW r \in Called(e)', NEW t \in left PROVE turn[r] <= turn[t]
  BY <1>2, <1>3 DEF Called
<1>4. ASSUME NEW d \in Events \ {e} PROVE Called(d)' = Called(d)
  BY <1>1 DEF Called
<1>5. ASSUME NEW d \in Events
      PROVE  /\ event'[d].present \subseteq Turns
             /\ \A r \in Called(d)', t \in event'[d].targets : turn[r] <= turn[t]
             /\ event'[d].at = "dropped" => \A t \in event'[d].targets :
                  \E r \in Called(d)' \cap Reporting : turn[r] <= turn[t]
  <2>1. CASE d = e
    BY <1>2, <1>3, <2>1
  <2>2. CASE d # e
    BY <1>1, <1>4, <2>2 DEF OrderInv
  <2> QED BY <2>1, <2>2
<1> QED BY <1>0, <1>5 DEF OrderInv

LEMMA SubscribeKeepsOrder ==
  ASSUME BusInv, OrderInv, TurnsInv, NEW s \in Subscribers, BusSubscribe(s)
  PROVE  OrderInv'
<1>1. Cardinality(Turns) \in Nat
  BY FS_CardinalityType DEF TurnsInv
<1>2. /\ s \notin Turns /\ turn'[s] > 0 /\ event' = event
      /\ \A r \in Subscribers \ {s} : turn'[r] = turn[r]
  BY <1>1 DEF BusSubscribe, Turns, BusInv, BusTypeOK
<1>3. Turns' = Turns \cup {s} /\ registrations' = registrations \cup {s}
  BY <1>2 DEF BusSubscribe, Turns
<1>4. ASSUME NEW e \in Events
      PROVE  /\ Called(e)' = Called(e) /\ Called(e) \subseteq Turns
             /\ event[e].targets \subseteq Turns
  BY <1>2 DEF Called, OrderInv, BusInv, TargetsInv, Targets
<1>5. \A r \in Turns : turn'[r] = turn[r]
  BY <1>2 DEF Turns
<1> QED BY <1>2, <1>3, <1>4, <1>5 DEF OrderInv

LEMMA OrderInvHolds == BusSpec => []OrderInv
<1>1. BusInit => OrderInv
  BY DEF BusInit, OrderInv, Unpublished, Called
<1>2. BusInv /\ TurnsInv /\ OrderInv /\ [BusNext]_busVars => OrderInv'
  <2> SUFFICES ASSUME BusInv, TurnsInv, OrderInv, [BusNext]_busVars PROVE OrderInv'
    OBVIOUS
  <2>1. ASSUME NEW e \in Events, NEW t \in EventTypes, PublishEvent(e, t) PROVE OrderInv'
    <3>1. event[e].at = "none" /\ event[e].present = {}
      BY <2>1 DEF PublishEvent, BusInv, TargetsInv, Targets
    <3>2. ASSUME NEW d \in Events
          PROVE  /\ event'[d].present = event[d].present
                 /\ event'[d].targets = event[d].targets
                 /\ event'[d].type = event[d].type \/ event[d].present = {}
                 /\ event'[d].at = "dropped" => event[d].at = "dropped"
      BY <2>1, <3>1, TypesOfBus DEF PublishEvent, EventRecord
    <3> QED BY <2>1, <3>2, SameHandlersKeepOrder DEF PublishEvent
  <2>2. ASSUME NEW e \in Events, Publish(e) PROVE OrderInv'
    <3>1. PICK targets \in SUBSET registrations :
            targets = {s \in registrations : event[e].type \in Wanted[s]}
      OBVIOUS
    <3>2. registrations \subseteq Turns /\ Deliver(e, registrations, targets)
      BY <2>2, <3>1 DEF Publish, OrderInv
    <3> QED BY <3>1, <3>2, DeliverKeepsOrder
  <2>3. ASSUME NEW e \in Events, HandlerSettles(e) PROVE OrderInv'
    <3>1. /\ event[e].present \subseteq Turns /\ event[e].targets \subseteq event[e].present
          /\ \A t \in event[e].targets : event[e].type \in Wanted[t]
          /\ \A r \in Called(e), t \in event[e].targets : turn[r] <= turn[t]
      BY DEF OrderInv, BusInv, TargetsInv, Targets
    <3>2. PICK present \in SUBSET Turns : present = event[e].present
      BY <3>1
    <3>3. PICK targets \in SUBSET present : targets = event[e].targets
      BY <3>1, <3>2
    <3> QED BY <2>3, <3>1, <3>2, <3>3, DeliverKeepsOrder DEF HandlerSettles, Called
  <2>4. ASSUME NEW e \in Events, Refuse(e) PROVE OrderInv'
    <3>1. event[e].at = "asking" => event[e].targets = {}
      BY DEF BusInv, TargetsInv, Targets
    <3>2. ASSUME NEW d \in Events
          PROVE  /\ event'[d].present = event[d].present
                 /\ event'[d].targets = event[d].targets
                 /\ event'[d].type = event[d].type
                 /\ event'[d].at = "dropped" => event[d].at = "dropped" \/ d = e
      BY <2>4, TypesOfBus DEF Refuse, EventRecord
    <3>3. event[e].targets = {} \/ Running(e) \cap Reporting # {}
      BY <2>4, <3>1 DEF Refuse
    <3> QED BY <2>4, <3>2, <3>3, SameHandlersKeepOrder DEF Refuse
  <2>5. CASE ConnectFails
    <3>1. ASSUME NEW d \in Events
          PROVE  /\ event'[d].present = event[d].present
                 /\ event'[d].targets = event[d].targets
                 /\ event'[d].type = event[d].type
                 /\ event'[d].at = "dropped" => event[d].at = "dropped" \/ event[d].targets = {}
      BY <2>5, TypesOfBus DEF ConnectFails, EventRecord, BusInv, TargetsInv, Targets
    <3> QED BY <2>5, <3>1, SameHandlersKeepOrder DEF ConnectFails
  <2>6. ASSUME NEW s \in Subscribers, BusSubscribe(s) PROVE OrderInv'
    BY <2>6, SubscribeKeepsOrder
  <2>7. ASSUME \/ Connected \/ Disconnect \/ UNCHANGED busVars
               \/ \E s \in Subscribers : Unsubscribe(s)
        PROVE  OrderInv'
    <3>1. event' = event /\ turn' = turn /\ registrations' \subseteq registrations
      BY <2>7 DEF Connected, Disconnect, Unsubscribe, busVars
    <3> QED BY <3>1, SameHandlersKeepOrder
  <2> QED BY <2>1, <2>2, <2>3, <2>4, <2>5, <2>6, <2>7 DEF BusNext
<1> QED BY <1>1, <1>2, BusInvHolds, TurnsInvHolds, PTL DEF BusSpec

LEMMA HandedOnceBy ==
  ASSUME BusInv, OrderInv
  PROVE  HandedOnce
<1> SUFFICES ASSUME NEW e \in Events, NEW s \in Subscribers
             PROVE  /\ \A i, k \in Calls(s, e) : i = k
                    /\ Calls(s, e) # {} =>
                         s \in event[e].present /\ event[e].type \in Wanted[s]
                    /\ Over(e) /\ s \in event[e].present /\ event[e].type \in Wanted[s] =>
                         \/ Calls(s, e) # {}
                         \/ \E r \in Reporting \ {s} : Calls(r, e) # {} /\ turn[r] <= turn[s]
  BY DEF HandedOnce
<1>1. /\ \A i, k \in Calls(s, e) : i = k
      /\ Calls(s, e) # {} => s \in event[e].present /\ event[e].type \in Wanted[s]
  BY DEF BusInv, CallsInv, CalledBut
<1>2. ASSUME Over(e), s \in event[e].present, event[e].type \in Wanted[s], Calls(s, e) = {}
      PROVE  \E r \in Reporting \ {s} : Calls(r, e) # {} /\ turn[r] <= turn[s]
  <2>1. s \in event[e].targets
    BY <1>2 DEF BusInv, CallsInv, CalledBut
  <2>2. event[e].at = "dropped"
    BY <1>2, <2>1 DEF Over, BusInv, TargetsInv, Targets
  <2>3. PICK r \in Called(e) \cap Reporting : turn[r] <= turn[s]
    BY <2>1, <2>2 DEF OrderInv
  <2>4. Calls(r, e) # {}
    BY <2>3, BusAssumption DEF Called, BusInv, CallsInv, CalledBut
  <2> QED BY <2>1, <2>3, <2>4 DEF Called
<1> QED BY <1>1, <1>2

-----------------------------------------------------------------------------
\* The types of the variables of the bus are invariant.
THEOREM BusTypes == BusSpec => []BusTypeOK
BY BusInvHolds, PTL DEF BusInv

\* A handler is called once at most, and when a publish is over, all that were there
\* and wanted it have been called, up to the first whose registration's own report of
\* its failure threw: a handler that only throws starves nobody (memory-bus.ts:92).
THEOREM HandlersCalledOnce == BusSpec => []HandedOnce
<1>1. BusInv /\ OrderInv => HandedOnce
  BY HandedOnceBy
<1> QED BY <1>1, BusInvHolds, OrderInvHolds, PTL

\* The events of a job that awaits its publishes are handled in order.
THEOREM AwaitedEventsInOrder == BusSpec => []AwaitedInOrder
BY BusInvHolds, PTL DEF BusInv
=============================================================================
