-------------------------- MODULE OfflineQueueProofs --------------------------
(***************************************************************************)
(* Proofs that the offline queue stores an action once, loses none without *)
(* a trace and, while nothing overlaps and no answer is lost, has each     *)
(* carried out once, for any number of actions and replays.                *)
(***************************************************************************)
EXTENDS OfflineQueueProperties, TLAPS

QueueingRecord == [at : {"none", "writing", "queued", "dropped"}, read : Lists]

ReplayRecord == [on : BOOLEAN, read : Lists, todo : Lists, remaining : Lists]

QueuedOnes == {a \in Actions : Queued(a)}

\* A list of confirmed actions, each once.
Sound(list, queued) == IsInjective(list) /\ ToSet(list) \subseteq queued

\* What a replay holds: the actions it read, each either still to be sent, or
\* failed, or carried out.
ReplayInOrder(r, queued, times) ==
  /\ Sound(r.todo, queued) /\ Sound(r.remaining, queued)
  /\ ToSet(r.todo) \cap ToSet(r.remaining) = {}
  /\ ToSet(r.todo) \cup ToSet(r.remaining) \subseteq ToSet(r.read)
  /\ ToSet(r.read) \subseteq queued
  /\ \A a \in ToSet(r.read) : a \in ToSet(r.todo) \cup ToSet(r.remaining) \/ times[a] > 0

\* Every list that some operation has read is sound, so that a write that puts
\* an old list back adds no second copy of an action.
ListsSound ==
  /\ Sound(stored, QueuedOnes)
  /\ \A a \in Actions : Sound(queueing[a].read, QueuedOnes)
  /\ \A s \in Replays : ReplayInOrder(replay[s], QueuedOnes, applied)

\* Nothing happens to an action before it is confirmed.
NothingBefore == \A a \in Actions \ QueuedOnes : applied[a] = 0 /\ a \notin cleared

QueueInv == QueueTypeOK /\ ListsSound /\ NothingBefore /\ NoneLost

-----------------------------------------------------------------------------
(* Lists.                                                                   *)

LEMMA EmptyList == ToSet(<<>>) = {} /\ IsInjective(<<>>) /\ <<>> \in Lists
BY DEF ToSet, IsInjective, Lists

LEMMA ListElements ==
  ASSUME NEW list \in Lists
  PROVE  ToSet(list) \subseteq Actions
BY DEF ToSet, Lists

LEMMA AppendToList ==
  ASSUME NEW list \in Lists, NEW a \in Actions
  PROVE  /\ Append(list, a) \in Lists
         /\ ToSet(Append(list, a)) = ToSet(list) \cup {a}
         /\ IsInjective(list) /\ a \notin ToSet(list) => IsInjective(Append(list, a))
<1>1. /\ Append(list, a) \in Lists
      /\ DOMAIN Append(list, a) = DOMAIN list \cup {Len(list) + 1}
      /\ \A i \in DOMAIN list : Append(list, a)[i] = list[i]
      /\ Append(list, a)[Len(list) + 1] = a
  BY DEF Lists
<1>2. ToSet(Append(list, a)) = ToSet(list) \cup {a}
  BY <1>1 DEF ToSet
<1>3. IsInjective(list) /\ a \notin ToSet(list) => IsInjective(Append(list, a))
  BY <1>1 DEF ToSet, IsInjective
<1> QED BY <1>1, <1>2, <1>3

LEMMA TailOfList ==
  ASSUME NEW list \in Lists, list # <<>>
  PROVE  /\ Head(list) \in Actions /\ Tail(list) \in Lists
         /\ ToSet(list) = ToSet(Tail(list)) \cup {Head(list)}
         /\ IsInjective(list) => IsInjective(Tail(list)) /\ Head(list) \notin ToSet(Tail(list))
<1>1. /\ Head(list) = list[1] /\ Tail(list) \in Lists /\ 1 \in DOMAIN list
      /\ DOMAIN Tail(list) = 1 .. Len(list) - 1
      /\ \A i \in DOMAIN Tail(list) : i + 1 \in DOMAIN list /\ Tail(list)[i] = list[i + 1]
      /\ \A i \in DOMAIN list : i = 1 \/ i - 1 \in DOMAIN Tail(list)
      /\ Head(list) \in Actions
  BY DEF Lists
<1>2. ToSet(list) = ToSet(Tail(list)) \cup {Head(list)}
  <2>1. ASSUME NEW i \in DOMAIN list PROVE list[i] \in ToSet(Tail(list)) \cup {Head(list)}
    <3>1. CASE i = 1
      BY <1>1, <3>1
    <3>2. CASE i # 1
      <4>1. PICK j \in DOMAIN Tail(list) : j = i - 1
        BY <1>1, <3>2
      <4>2. Tail(list)[j] = list[i]
        BY <1>1, <4>1 DEF Lists
      <4> QED BY <4>2 DEF ToSet
    <3> QED BY <3>1, <3>2
  <2>2. ToSet(Tail(list)) \cup {Head(list)} \subseteq ToSet(list)
    BY <1>1 DEF ToSet
  <2> QED BY <2>1, <2>2 DEF ToSet
<1>3. ASSUME IsInjective(list)
      PROVE  IsInjective(Tail(list)) /\ Head(list) \notin ToSet(Tail(list))
  <2>1. ASSUME NEW i \in DOMAIN Tail(list), NEW j \in DOMAIN Tail(list),
               Tail(list)[i] = Tail(list)[j]
        PROVE  i = j
    BY <1>1, <1>3, <2>1 DEF IsInjective
  <2>2. ASSUME NEW i \in DOMAIN Tail(list) PROVE Tail(list)[i] # Head(list)
    BY <1>1, <1>3 DEF IsInjective
  <2> QED BY <2>1, <2>2 DEF IsInjective, ToSet
<1> QED BY <1>1, <1>2, <1>3

-----------------------------------------------------------------------------
(* The steps.                                                               *)

\* Confirming more actions and carrying more out leaves every list as good.
LEMMA StaysSound ==
  ASSUME NEW list, NEW r, NEW queued, NEW more, queued \subseteq more, more \subseteq Actions,
         NEW times \in [Actions -> Nat], NEW later \in [Actions -> Nat],
         \A a \in Actions : times[a] <= later[a]
  PROVE  /\ Sound(list, queued) => Sound(list, more)
         /\ ReplayInOrder(r, queued, times) => ReplayInOrder(r, more, later)
<1>1. Sound(list, queued) => Sound(list, more)
  BY DEF Sound
<1>2. Sound(r.todo, queued) => Sound(r.todo, more)
  BY DEF Sound
<1>3. Sound(r.remaining, queued) => Sound(r.remaining, more)
  BY DEF Sound
<1>4. ASSUME ReplayInOrder(r, queued, times), NEW a \in ToSet(r.read), times[a] > 0
      PROVE  later[a] > 0
  <2>1. a \in Actions
    BY <1>4 DEF ReplayInOrder
  <2>2. times[a] \in Nat /\ later[a] \in Nat /\ times[a] <= later[a]
    BY <2>1
  <2> QED BY <1>4, <2>2
<1> QED BY <1>1, <1>2, <1>3, <1>4 DEF ReplayInOrder

LEMMA TypesOfRecords ==
  ASSUME QueueInv
  PROVE  /\ queueing \in [Actions -> QueueingRecord]
         /\ replay \in [Replays -> ReplayRecord]
         /\ applied \in [Actions -> Nat]
         /\ stored \in Lists
         /\ QueuedOnes \subseteq Actions
BY DEF QueueInv, QueueTypeOK, QueueingRecord, ReplayRecord, QueuedOnes

LEMMA QueueReadStep ==
  ASSUME QueueInv, NEW a \in Actions, QueueRead(a)
  PROVE  QueueInv'
<1>1. PICK q \in QueueingRecord : q = [at |-> "writing", read |-> stored]
  BY TypesOfRecords DEF QueueingRecord
<1>2. /\ queueing' = [queueing EXCEPT ![a] = q] /\ q.at = "writing" /\ q.read = stored
      /\ queueing[a].at = "none"
      /\ UNCHANGED <<stored, replay, started, applied, cleared, overwritten, calm>>
  BY <1>1 DEF QueueRead
<1>3. QueuedOnes' = QueuedOnes
  BY <1>2, TypesOfRecords DEF QueuedOnes, Queued
<1>4. QueueTypeOK'
  BY <1>2, TypesOfRecords DEF QueueInv, QueueTypeOK, QueueingRecord
<1>5. ListsSound'
  BY <1>2, <1>3, TypesOfRecords DEF QueueInv, ListsSound
<1>6. NothingBefore'
  BY <1>2, <1>3 DEF QueueInv, NothingBefore
<1>7. NoneLost'
  BY <1>2, TypesOfRecords DEF QueueInv, NoneLost, Queued
<1> QED BY <1>4, <1>5, <1>6, <1>7 DEF QueueInv

LEMMA QueueWriteStep ==
  ASSUME QueueInv, NEW a \in Actions, QueueWrite(a)
  PROVE  QueueInv'
<1>1. PICK q \in QueueingRecord : q = [queueing[a] EXCEPT !.at = "queued"]
  BY TypesOfRecords DEF QueueingRecord
<1>2. PICK read \in Lists : read = queueing[a].read
  BY TypesOfRecords DEF QueueingRecord
<1>3. q.at = "queued" /\ q.read = read
  BY <1>1, <1>2, TypesOfRecords DEF QueueingRecord
<1>4. /\ queueing' = [queueing EXCEPT ![a] = q] /\ queueing[a].at = "writing"
      /\ stored' = Append(read, a)
      /\ overwritten' = overwritten \cup (ToSet(stored) \ (ToSet(read) \cup ToSet(stored')))
      /\ calm' \in BOOLEAN
      /\ UNCHANGED <<replay, started, applied, cleared>>
  BY <1>1, <1>2 DEF QueueWrite, WriteActions, QueueInv, QueueTypeOK
<1>5. QueuedOnes' = QueuedOnes \cup {a} /\ a \notin QueuedOnes
  BY <1>3, <1>4, TypesOfRecords DEF QueuedOnes, Queued
<1>6. Sound(read, QueuedOnes)
  BY <1>2 DEF QueueInv, ListsSound
<1>7. /\ stored' \in Lists /\ ToSet(stored') = ToSet(read) \cup {a}
      /\ Sound(stored', QueuedOnes')
  BY <1>4, <1>5, <1>6, AppendToList DEF Sound
<1>8. QueueTypeOK'
  <2>1. overwritten' \subseteq Actions
    BY <1>4, ListElements, TypesOfRecords DEF QueueInv, QueueTypeOK
  <2> QED BY <1>4, <1>7, <2>1, TypesOfRecords DEF QueueInv, QueueTypeOK, QueueingRecord
<1>9. ListsSound'
  <2>1. ASSUME NEW b \in Actions PROVE Sound(queueing'[b].read, QueuedOnes')
    <3>1. queueing'[b].read = queueing[b].read
      BY <1>2, <1>3, <1>4, TypesOfRecords
    <3>2. Sound(queueing[b].read, QueuedOnes)
      BY DEF QueueInv, ListsSound
    <3> QED BY <1>5, <3>1, <3>2 DEF Sound
  <2>2. ASSUME NEW s \in Replays PROVE ReplayInOrder(replay'[s], QueuedOnes', applied')
    <3>1. ReplayInOrder(replay[s], QueuedOnes, applied)
      BY DEF QueueInv, ListsSound
    <3>2. /\ QueuedOnes \subseteq QueuedOnes' /\ QueuedOnes' \subseteq Actions
          /\ applied' = applied /\ replay' = replay
      BY <1>4, <1>5, TypesOfRecords
    <3>3. \A b \in Actions : applied[b] <= applied[b]
      BY TypesOfRecords
    <3> QED BY <3>1, <3>2, <3>3, StaysSound, TypesOfRecords
  <2> QED BY <1>7, <2>1, <2>2 DEF ListsSound
<1>10. NothingBefore'
  BY <1>4, <1>5 DEF QueueInv, NothingBefore
<1>11. NoneLost'
  <2> SUFFICES ASSUME NEW b \in Actions, Queued(b)'
               PROVE  b \in ToSet(stored') \/ applied'[b] > 0 \/ b \in cleared' \cup overwritten'
    BY DEF NoneLost
  <2>1. b \in QueuedOnes \/ b = a
    BY <1>5 DEF QueuedOnes
  <2> QED BY <1>4, <1>7, <2>1 DEF QueueInv, NoneLost, QueuedOnes
<1> QED BY <1>8, <1>9, <1>10, <1>11 DEF QueueInv

LEMMA ReplayReadStep ==
  ASSUME QueueInv, NEW s \in Replays, ReplayRead(s)
  PROVE  QueueInv'
<1>1. PICK r \in ReplayRecord :
        r = [on |-> TRUE, read |-> stored, todo |-> stored, remaining |-> <<>>]
  BY EmptyList, TypesOfRecords DEF ReplayRecord
<1>2. /\ replay' = [replay EXCEPT ![s] = r] /\ started' = started + 1 /\ started < MaxReplays
      /\ calm' \in BOOLEAN
      /\ UNCHANGED <<stored, queueing, applied, cleared, overwritten>>
  BY <1>1 DEF ReplayRead, QueueInv, QueueTypeOK
<1>3. r.read = stored /\ r.todo = stored /\ r.remaining = <<>>
  BY <1>1
<1>4. QueuedOnes' = QueuedOnes
  BY <1>2 DEF QueuedOnes, Queued
<1>5. QueueTypeOK'
  BY <1>2, TypesOfRecords, ReplaysAssumption DEF QueueInv, QueueTypeOK, ReplayRecord
<1>6. ListsSound'
  <2>1. ReplayInOrder(r, QueuedOnes, applied)
    BY <1>3, EmptyList DEF ReplayInOrder, Sound, QueueInv, ListsSound
  <2> QED BY <1>2, <1>4, <2>1, TypesOfRecords DEF QueueInv, ListsSound
<1>7. NothingBefore' /\ NoneLost'
  BY <1>2, <1>4 DEF QueueInv, NothingBefore, NoneLost, Queued
<1> QED BY <1>5, <1>6, <1>7 DEF QueueInv

\* A call takes the head of what is to be sent off the list.
LEMMA SendOutcome ==
  ASSUME QueueInv, NEW s \in Replays, Send(s)
  PROVE  \E a \in Actions, r \in ReplayRecord, n \in {0, 1} :
           /\ a \in ToSet(replay[s].todo) /\ replay[s].on /\ r.on
           /\ replay' = [replay EXCEPT ![s] = r]
           /\ applied' = [applied EXCEPT ![a] = @ + n]
           /\ r.read = replay[s].read
           /\ ToSet(r.todo) = ToSet(replay[s].todo) \ {a} /\ IsInjective(r.todo)
           /\ \/ n = 1 /\ r.remaining = replay[s].remaining /\ calm' = calm
              \/ /\ r.remaining = Append(replay[s].remaining, a)
                 /\ (n = 0 /\ calm' = calm) \/ calm' = FALSE
           /\ UNCHANGED <<stored, queueing, started, cleared, overwritten>>
<1>1. PICK old \in ReplayRecord : old = replay[s] /\ old.todo # <<>> /\ old.on
  BY TypesOfRecords DEF Send
<1>2. old.todo \in Lists /\ old.remaining \in Lists
  BY DEF ReplayRecord
<1>3. PICK a \in Actions : a = Head(old.todo)
  BY <1>1, <1>2, TailOfList
<1>4. IsInjective(old.todo)
  BY <1>1 DEF QueueInv, ListsSound, ReplayInOrder, Sound
<1>5. PICK tail \in Lists : tail = Tail(old.todo)
  BY <1>1, <1>2, TailOfList
<1>6. /\ a \in ToSet(old.todo) /\ ToSet(tail) = ToSet(old.todo) \ {a} /\ IsInjective(tail)
  BY <1>1, <1>2, <1>3, <1>4, <1>5, TailOfList
<1>7. PICK rest \in ReplayRecord : rest = [old EXCEPT !.todo = tail]
  BY DEF ReplayRecord
<1>8. rest.read = old.read /\ rest.todo = tail /\ rest.remaining = old.remaining /\ rest.on
  BY <1>1, <1>7 DEF ReplayRecord
<1>9. PICK kept \in ReplayRecord : kept = [rest EXCEPT !.remaining = Append(@, a)]
  BY <1>2, <1>8, AppendToList DEF ReplayRecord
<1>10. /\ kept.read = old.read /\ kept.todo = tail /\ kept.on
       /\ kept.remaining = Append(old.remaining, a)
  BY <1>8, <1>9 DEF ReplayRecord
<1>11. /\ \/ /\ replay' = [replay EXCEPT ![s] = rest]
             /\ applied' = [applied EXCEPT ![a] = @ + 1] /\ calm' = calm
          \/ replay' = [replay EXCEPT ![s] = kept] /\ applied' = applied /\ calm' = calm
          \/ /\ replay' = [replay EXCEPT ![s] = kept]
             /\ applied' = [applied EXCEPT ![a] = @ + 1] /\ calm' = FALSE
       /\ UNCHANGED <<stored, queueing, started, cleared, overwritten>>
  BY <1>1, <1>3, <1>5, <1>7, <1>9 DEF Send
<1>12. applied = [applied EXCEPT ![a] = @ + 0]
  BY TypesOfRecords
<1> QED BY <1>1, <1>6, <1>8, <1>10, <1>11, <1>12

LEMMA SendStep ==
  ASSUME QueueInv, NEW s \in Replays, Send(s)
  PROVE  QueueInv'
<1>1. PICK a \in Actions, r \in ReplayRecord, n \in {0, 1} :
        /\ a \in ToSet(replay[s].todo)
        /\ replay' = [replay EXCEPT ![s] = r]
        /\ applied' = [applied EXCEPT ![a] = @ + n]
        /\ r.read = replay[s].read
        /\ ToSet(r.todo) = ToSet(replay[s].todo) \ {a} /\ IsInjective(r.todo)
        /\ \/ n = 1 /\ r.remaining = replay[s].remaining /\ calm' = calm
           \/ /\ r.remaining = Append(replay[s].remaining, a)
              /\ (n = 0 /\ calm' = calm) \/ calm' = FALSE
        /\ UNCHANGED <<stored, queueing, started, cleared, overwritten>>
  BY SendOutcome
<1>2. QueuedOnes' = QueuedOnes
  BY <1>1 DEF QueuedOnes, Queued
<1>3. PICK old \in ReplayRecord : old = replay[s]
  BY TypesOfRecords
<1>4. ReplayInOrder(old, QueuedOnes, applied) /\ old.remaining \in Lists /\ a \in QueuedOnes
  BY <1>1, <1>3 DEF QueueInv, ListsSound, ReplayInOrder, Sound, ReplayRecord
<1>5. /\ applied' \in [Actions -> Nat] /\ \A b \in Actions : applied[b] <= applied'[b]
      /\ n = 1 => applied'[a] > 0
  BY <1>1, TypesOfRecords
<1>6. QueueTypeOK'
  BY <1>1, <1>5, TypesOfRecords DEF QueueInv, QueueTypeOK, ReplayRecord
<1>7. ListsSound'
  <2>1. ReplayInOrder(old, QueuedOnes, applied')
    BY <1>4, <1>5, StaysSound, TypesOfRecords
  <2>2. ASSUME ReplayInOrder(r, QueuedOnes, applied')
        PROVE  ListsSound'
    <3>1. ASSUME NEW q \in Replays PROVE ReplayInOrder(replay'[q], QueuedOnes, applied')
      <4>1. CASE q = s
        BY <1>1, <2>2, <4>1, TypesOfRecords
      <4>2. CASE q # s
        <5>1. replay'[q] = replay[q]
          BY <1>1, <4>2, TypesOfRecords
        <5>2. ReplayInOrder(replay[q], QueuedOnes, applied)
          BY DEF QueueInv, ListsSound
        <5> QED BY <1>5, <5>1, <5>2, StaysSound, TypesOfRecords
      <4> QED BY <4>1, <4>2
    <3> QED BY <1>1, <1>2, <3>1 DEF QueueInv, ListsSound
  <2>3. CASE n = 1 /\ r.remaining = old.remaining
    <3>1. Sound(r.todo, QueuedOnes)
      BY <1>1, <1>3, <2>1 DEF ReplayInOrder, Sound
    <3>2. ReplayInOrder(r, QueuedOnes, applied')
      BY <1>1, <1>3, <1>5, <2>1, <2>3, <3>1 DEF ReplayInOrder
    <3> QED BY <2>2, <3>2
  <2>4. CASE r.remaining = Append(old.remaining, a)
    <3>1. ToSet(r.remaining) = ToSet(old.remaining) \cup {a} /\ IsInjective(r.remaining)
      BY <1>1, <1>3, <1>4, <2>4, AppendToList DEF ReplayInOrder, Sound
    <3>2. Sound(r.todo, QueuedOnes) /\ Sound(r.remaining, QueuedOnes)
      BY <1>1, <1>3, <1>4, <3>1 DEF ReplayInOrder, Sound
    <3>3. ReplayInOrder(r, QueuedOnes, applied')
      BY <1>1, <1>3, <1>5, <2>1, <3>1, <3>2 DEF ReplayInOrder
    <3> QED BY <2>2, <3>3
  <2> QED BY <1>1, <1>3, <2>3, <2>4
<1>8. NothingBefore'
  BY <1>1, <1>2, <1>4, TypesOfRecords DEF QueueInv, NothingBefore
<1>9. NoneLost'
  <2> SUFFICES ASSUME NEW b \in Actions, Queued(b)
               PROVE  b \in ToSet(stored) \/ applied'[b] > 0 \/ b \in cleared \cup overwritten
    BY <1>1 DEF NoneLost, Queued
  <2>1. applied[b] > 0 => applied'[b] > 0
    BY <1>5, TypesOfRecords
  <2> QED BY <2>1 DEF QueueInv, NoneLost
<1> QED BY <1>6, <1>7, <1>8, <1>9 DEF QueueInv

LEMMA ReplayWriteStep ==
  ASSUME QueueInv, NEW s \in Replays, ReplayWrite(s)
  PROVE  QueueInv'
<1>1. PICK old \in ReplayRecord : old = replay[s]
  BY TypesOfRecords
<1>2. PICK off \in ReplayRecord : off = NotReplaying
  BY EmptyList DEF ReplayRecord, NotReplaying
<1>3. /\ old.todo = <<>> /\ stored' = old.remaining
      /\ overwritten' = overwritten \cup (ToSet(stored) \ (ToSet(old.read) \cup ToSet(stored')))
      /\ calm' \in BOOLEAN
      /\ replay' = [replay EXCEPT ![s] = off]
      /\ UNCHANGED <<queueing, started, applied, cleared>>
  BY <1>1, <1>2 DEF ReplayWrite, WriteActions, QueueInv, QueueTypeOK
<1>4. QueuedOnes' = QueuedOnes
  BY <1>3 DEF QueuedOnes, Queued
<1>5. ReplayInOrder(old, QueuedOnes, applied) /\ old.remaining \in Lists
  BY <1>1 DEF QueueInv, ListsSound, ReplayRecord
<1>6. QueueTypeOK'
  <2>1. overwritten' \subseteq Actions
    BY <1>3, ListElements, TypesOfRecords DEF QueueInv, QueueTypeOK
  <2> QED BY <1>3, <1>5, <2>1, TypesOfRecords DEF QueueInv, QueueTypeOK, ReplayRecord
<1>7. ListsSound'
  <2>1. ReplayInOrder(off, QueuedOnes, applied)
    BY <1>2, EmptyList DEF ReplayInOrder, Sound, NotReplaying
  <2>2. Sound(stored', QueuedOnes)
    BY <1>3, <1>5 DEF ReplayInOrder
  <2> QED BY <1>3, <1>4, <2>1, <2>2, TypesOfRecords DEF QueueInv, ListsSound
<1>8. NothingBefore'
  BY <1>3, <1>4 DEF QueueInv, NothingBefore
<1>9. NoneLost'
  <2> SUFFICES ASSUME NEW b \in Actions, Queued(b)
               PROVE  b \in ToSet(stored') \/ applied[b] > 0 \/ b \in cleared \cup overwritten'
    BY <1>3 DEF NoneLost, Queued
  <2>1. CASE b \in ToSet(stored)
    <3>1. b \in ToSet(old.read) => b \in ToSet(old.remaining) \/ applied[b] > 0
      BY <1>3, <1>5, EmptyList DEF ReplayInOrder
    <3> QED BY <1>3, <2>1, <3>1
  <2>2. CASE b \notin ToSet(stored)
    BY <1>3, <2>2 DEF QueueInv, NoneLost
  <2> QED BY <2>1, <2>2
<1> QED BY <1>6, <1>7, <1>8, <1>9 DEF QueueInv

LEMMA ClearStep ==
  ASSUME QueueInv, Clear
  PROVE  QueueInv'
<1>1. /\ cleared' = cleared \cup ToSet(stored) /\ stored' = <<>>
      /\ UNCHANGED <<queueing, replay, started, applied, overwritten, calm>>
  BY DEF Clear
<1>2. QueuedOnes' = QueuedOnes
  BY <1>1 DEF QueuedOnes, Queued
<1>3. QueueTypeOK'
  BY <1>1, EmptyList, ListElements, TypesOfRecords DEF QueueInv, QueueTypeOK
<1>4. ListsSound'
  BY <1>1, <1>2, EmptyList DEF QueueInv, ListsSound, Sound
<1>5. NothingBefore'
  BY <1>1, <1>2 DEF QueueInv, NothingBefore, ListsSound, Sound
<1>6. NoneLost'
  BY <1>1 DEF QueueInv, NoneLost, Queued
<1> QED BY <1>3, <1>4, <1>5, <1>6 DEF QueueInv

LEMMA KillStep ==
  ASSUME QueueInv, Kill
  PROVE  QueueInv'
<1>1. PICK off \in ReplayRecord : off = NotReplaying
  BY EmptyList DEF ReplayRecord, NotReplaying
<1>2. /\ replay' = [s \in Replays |-> off] /\ calm' \in BOOLEAN
      /\ UNCHANGED <<stored, started, applied, cleared, overwritten>>
  BY <1>1 DEF Kill, QueueInv, QueueTypeOK
<1>3. /\ queueing' \in [Actions -> QueueingRecord]
      /\ \A a \in Actions : /\ queueing'[a].read = queueing[a].read
                            /\ queueing'[a].at = "queued" <=> queueing[a].at = "queued"
  BY TypesOfRecords DEF Kill, QueueingRecord
<1>4. QueuedOnes' = QueuedOnes
  BY <1>3 DEF QueuedOnes, Queued
<1>5. QueueTypeOK'
  BY <1>2, <1>3 DEF QueueInv, QueueTypeOK, QueueingRecord, ReplayRecord
<1>6. ListsSound'
  <2>1. ReplayInOrder(off, QueuedOnes, applied)
    BY <1>1, EmptyList DEF ReplayInOrder, Sound, NotReplaying
  <2> QED BY <1>2, <1>3, <1>4, <2>1 DEF QueueInv, ListsSound
<1>7. NothingBefore' /\ NoneLost'
  BY <1>2, <1>3, <1>4 DEF QueueInv, NothingBefore, NoneLost, Queued
<1> QED BY <1>5, <1>6, <1>7 DEF QueueInv

LEMMA QueueInvHolds == QueueSpec => []QueueInv
<1>1. QueueInit => QueueInv
  <2> SUFFICES ASSUME QueueInit PROVE QueueInv
    OBVIOUS
  <2>1. QueuedOnes = {}
    BY DEF QueueInit, QueuedOnes, Queued
  <2>2. QueueTypeOK
    BY EmptyList, ReplaysAssumption DEF QueueInit, QueueTypeOK, NotReplaying
  <2>3. ListsSound
    BY <2>1, EmptyList DEF QueueInit, ListsSound, Sound, ReplayInOrder, NotReplaying
  <2>4. NothingBefore /\ NoneLost
    BY DEF QueueInit, NothingBefore, NoneLost, Queued
  <2> QED BY <2>2, <2>3, <2>4 DEF QueueInv
<1>2. QueueInv /\ [QueueNext]_queueVars => QueueInv'
  <2> SUFFICES ASSUME QueueInv, [QueueNext]_queueVars PROVE QueueInv'
    OBVIOUS
  <2>1. ASSUME NEW a \in Actions, QueueRead(a) \/ QueueWrite(a) PROVE QueueInv'
    BY <2>1, QueueReadStep, QueueWriteStep
  <2>2. ASSUME NEW s \in Replays, ReplayRead(s) \/ Send(s) \/ ReplayWrite(s) PROVE QueueInv'
    BY <2>2, ReplayReadStep, SendStep, ReplayWriteStep
  <2>3. CASE Clear
    BY <2>3, ClearStep
  <2>4. CASE Kill
    BY <2>4, KillStep
  <2>5. CASE UNCHANGED queueVars
    BY <2>5 DEF queueVars, QueueInv, QueueTypeOK, ListsSound, NothingBefore, NoneLost,
                QueuedOnes, Queued, Lists
  <2> QED BY <2>1, <2>2, <2>3, <2>4, <2>5 DEF QueueNext
<1> QED BY <1>1, <1>2, PTL DEF QueueSpec

-----------------------------------------------------------------------------
(* While all is calm.                                                       *)

\* Of an action that no replay holds, exactly one of three things is true.
Settled(a, list, times, gone) ==
  \/ a \in ToSet(list) /\ times[a] = 0 /\ a \notin gone
  \/ a \notin ToSet(list) /\ times[a] = 1 /\ a \notin gone
  \/ a \notin ToSet(list) /\ times[a] = 0 /\ a \in gone

\* What a replay holds was sent once if it is neither to be sent nor failed; it
\* stays in the list meanwhile unless it is cleared.
InHand(a, r, list, times, gone) ==
  /\ a \in ToSet(r.todo) \cup ToSet(r.remaining) => times[a] = 0
  /\ a \notin ToSet(r.todo) \cup ToSet(r.remaining) => times[a] = 1
  /\ \/ a \in ToSet(list) /\ a \notin gone
     \/ a \notin ToSet(list) /\ a \in gone

\* No replay holds the action.
Free(a) == \A s \in Replays : replay[s].on => a \notin ToSet(replay[s].read)

CalmInv ==
  calm =>
    /\ \A s, q \in Replays : replay[s].on /\ replay[q].on => s = q
    /\ \A a \in QueuedOnes : Free(a) => Settled(a, stored, applied, cleared)
    /\ \A s \in Replays : replay[s].on =>
         \A a \in ToSet(replay[s].read) : InHand(a, replay[s], stored, applied, cleared)

LEMMA CalmQueueWrite ==
  ASSUME QueueInv, CalmInv, NEW a \in Actions, QueueWrite(a)
  PROVE  CalmInv'
<1> SUFFICES ASSUME calm' PROVE CalmInv'
  BY DEF CalmInv
<1>1. PICK q \in QueueingRecord : q = [queueing[a] EXCEPT !.at = "queued"]
  BY TypesOfRecords DEF QueueingRecord
<1>2. q.at = "queued"
  BY <1>1, TypesOfRecords DEF QueueingRecord
<1>3. /\ queueing' = [queueing EXCEPT ![a] = q] /\ queueing[a].at = "writing"
      /\ stored' = Append(stored, a) /\ calm
      /\ UNCHANGED <<replay, started, applied, cleared>>
  BY <1>1 DEF QueueWrite, WriteActions
<1>4. QueuedOnes' = QueuedOnes \cup {a} /\ a \notin QueuedOnes
  BY <1>2, <1>3, TypesOfRecords DEF QueuedOnes, Queued
<1>5. ToSet(stored') = ToSet(stored) \cup {a}
  BY <1>3, AppendToList, TypesOfRecords
<1>6. a \notin ToSet(stored) /\ applied[a] = 0 /\ a \notin cleared
  BY <1>4 DEF QueueInv, ListsSound, Sound, NothingBefore
<1>7. ASSUME NEW b \in QueuedOnes', Free(b)'
      PROVE  Settled(b, stored', applied', cleared')
  <2>1. CASE b = a
    BY <1>3, <1>5, <1>6, <2>1 DEF Settled
  <2>2. CASE b # a
    <3>1. Settled(b, stored, applied, cleared)
      BY <1>3, <1>4, <1>7, <2>2 DEF CalmInv, Free
    <3> QED BY <1>3, <1>5, <2>2, <3>1 DEF Settled
  <2> QED BY <2>1, <2>2
<1>8. ASSUME NEW s \in Replays, replay[s].on, NEW b \in ToSet(replay[s].read)
      PROVE  InHand(b, replay[s], stored', applied', cleared')
  <2>1. b # a
    BY <1>4 DEF QueueInv, ListsSound, ReplayInOrder
  <2> QED BY <1>3, <1>5, <1>8, <2>1 DEF CalmInv, InHand
<1> QED BY <1>3, <1>7, <1>8 DEF CalmInv

LEMMA CalmReplayRead ==
  ASSUME QueueInv, CalmInv, NEW s \in Replays, ReplayRead(s)
  PROVE  CalmInv'
<1> SUFFICES ASSUME calm' PROVE CalmInv'
  BY DEF CalmInv
<1>1. PICK r \in ReplayRecord :
        r = [on |-> TRUE, read |-> stored, todo |-> stored, remaining |-> <<>>]
  BY EmptyList, TypesOfRecords DEF ReplayRecord
<1>2. /\ replay' = [replay EXCEPT ![s] = r] /\ calm
      /\ \A q \in Replays : ~replay[q].on
      /\ UNCHANGED <<stored, queueing, applied, cleared>>
  BY <1>1 DEF ReplayRead, Replaying
<1>3. r.read = stored /\ r.todo = stored /\ r.on /\ r.remaining = <<>>
  BY <1>1
<1>4. /\ replay'[s] = r
      /\ \A q \in Replays : replay'[q].on => q = s
  BY <1>2, TypesOfRecords
<1>5. QueuedOnes' = QueuedOnes
  BY <1>2 DEF QueuedOnes, Queued
<1>6. \A a \in QueuedOnes : Settled(a, stored, applied, cleared)
  BY <1>2 DEF CalmInv, Free
<1>7. ASSUME NEW a \in ToSet(stored) PROVE InHand(a, r, stored, applied, cleared)
  <2>1. a \in QueuedOnes
    BY DEF QueueInv, ListsSound, Sound
  <2> QED BY <1>3, <1>6, <2>1 DEF Settled, InHand
<1> QED BY <1>2, <1>3, <1>4, <1>5, <1>6, <1>7 DEF CalmInv

LEMMA CalmSend ==
  ASSUME QueueInv, CalmInv, NEW s \in Replays, Send(s)
  PROVE  CalmInv'
<1> SUFFICES ASSUME calm' PROVE CalmInv'
  BY DEF CalmInv
<1>1. PICK a \in Actions, r \in ReplayRecord, n \in {0, 1} :
        /\ a \in ToSet(replay[s].todo) /\ replay[s].on /\ r.on
        /\ replay' = [replay EXCEPT ![s] = r]
        /\ applied' = [applied EXCEPT ![a] = @ + n]
        /\ r.read = replay[s].read
        /\ ToSet(r.todo) = ToSet(replay[s].todo) \ {a}
        /\ \/ n = 1 /\ r.remaining = replay[s].remaining /\ calm
           \/ n = 0 /\ r.remaining = Append(replay[s].remaining, a) /\ calm
        /\ UNCHANGED <<stored, queueing, started, cleared, overwritten>>
  BY SendOutcome
<1>2. QueuedOnes' = QueuedOnes
  BY <1>1 DEF QueuedOnes, Queued
<1>3. PICK old \in ReplayRecord : old = replay[s]
  BY TypesOfRecords
<1>4. ReplayInOrder(old, QueuedOnes, applied) /\ old.remaining \in Lists
  BY <1>3 DEF QueueInv, ListsSound, ReplayRecord
<1>5. /\ replay'[s] = r
      /\ \A q \in Replays : replay[q].on => q = s
      /\ \A q \in Replays : replay'[q].on => q = s
  BY <1>1, TypesOfRecords DEF CalmInv
<1>6. /\ a \in ToSet(old.read) /\ a \notin ToSet(old.remaining) /\ a \in ToSet(old.todo)
      /\ applied[a] = 0
  BY <1>1, <1>3, <1>4 DEF ReplayInOrder, CalmInv, InHand
<1>7. /\ applied'[a] = n
      /\ \A b \in Actions \ {a} : applied'[b] = applied[b]
  BY <1>1, <1>6, TypesOfRecords
<1>8. /\ n = 1 => ToSet(r.remaining) = ToSet(old.remaining)
      /\ n = 0 => ToSet(r.remaining) = ToSet(old.remaining) \cup {a}
  <2>1. ToSet(Append(old.remaining, a)) = ToSet(old.remaining) \cup {a}
    BY <1>4, AppendToList
  <2>2. /\ n = 1 => r.remaining = old.remaining
        /\ n = 0 => r.remaining = Append(old.remaining, a)
    BY <1>1, <1>3
  <2> QED BY <2>1, <2>2
<1>9. ASSUME NEW b \in ToSet(r.read) PROVE InHand(b, r, stored, applied', cleared)
  <2>1. b \in Actions /\ InHand(b, old, stored, applied, cleared)
    BY <1>1, <1>3, <1>4, TypesOfRecords DEF CalmInv, ReplayInOrder
  <2>2. CASE b = a
    BY <1>1, <1>3, <1>6, <1>7, <1>8, <2>1, <2>2 DEF InHand
  <2>3. CASE b # a
    BY <1>1, <1>3, <1>7, <1>8, <2>1, <2>3 DEF InHand
  <2> QED BY <2>2, <2>3
<1>10. ASSUME NEW b \in QueuedOnes, Free(b)'
       PROVE  Settled(b, stored, applied', cleared)
  <2>1. b \notin ToSet(old.read)
    BY <1>1, <1>3, <1>5, <1>10 DEF Free
  <2>2. Settled(b, stored, applied, cleared)
    BY <1>1, <1>3, <1>5, <2>1 DEF CalmInv, Free
  <2>3. applied'[b] = applied[b]
    BY <1>6, <1>7, <2>1, TypesOfRecords
  <2> QED BY <2>2, <2>3 DEF Settled
<1> QED BY <1>1, <1>2, <1>5, <1>9, <1>10 DEF CalmInv

LEMMA CalmReplayWrite ==
  ASSUME QueueInv, CalmInv, NEW s \in Replays, ReplayWrite(s)
  PROVE  CalmInv'
<1> SUFFICES ASSUME calm' PROVE CalmInv'
  BY DEF CalmInv
<1>1. PICK old \in ReplayRecord : old = replay[s]
  BY TypesOfRecords
<1>2. PICK off \in ReplayRecord : off = NotReplaying
  BY EmptyList DEF ReplayRecord, NotReplaying
<1>3. /\ old.todo = <<>> /\ old.on /\ stored' = old.remaining
      /\ calm /\ stored = old.read
      /\ replay' = [replay EXCEPT ![s] = off] /\ ~off.on
      /\ UNCHANGED <<queueing, started, applied, cleared>>
  BY <1>1, <1>2 DEF ReplayWrite, WriteActions, NotReplaying
<1>4. QueuedOnes' = QueuedOnes
  BY <1>3 DEF QueuedOnes, Queued
<1>5. /\ \A q \in Replays : replay[q].on => q = s
      /\ \A q \in Replays : ~replay'[q].on
  BY <1>1, <1>3, TypesOfRecords DEF CalmInv
<1>6. ReplayInOrder(old, QueuedOnes, applied)
  BY <1>1 DEF QueueInv, ListsSound
<1>7. ASSUME NEW b \in QueuedOnes PROVE Settled(b, stored', applied, cleared)
  <2>1. CASE b \in ToSet(old.read)
    <3>1. InHand(b, old, stored, applied, cleared)
      BY <1>1, <1>3, <2>1 DEF CalmInv
    <3> QED BY <1>3, <2>1, <3>1, EmptyList DEF InHand, Settled
  <2>2. CASE b \notin ToSet(old.read)
    <3>1. Settled(b, stored, applied, cleared)
      BY <1>1, <1>3, <1>5, <2>2 DEF CalmInv, Free
    <3>2. b \notin ToSet(stored')
      BY <1>3, <1>6, <2>2 DEF ReplayInOrder
    <3> QED BY <1>3, <2>2, <3>1, <3>2 DEF Settled
  <2> QED BY <2>1, <2>2
<1> QED BY <1>3, <1>4, <1>5, <1>7 DEF CalmInv

LEMMA CalmClear ==
  ASSUME QueueInv, CalmInv, Clear
  PROVE  CalmInv'
<1>1. /\ cleared' = cleared \cup ToSet(stored) /\ ToSet(stored') = {}
      /\ UNCHANGED <<queueing, replay, started, applied, overwritten, calm>>
  BY EmptyList DEF Clear
<1>2. QueuedOnes' = QueuedOnes /\ \A a : Free(a)' <=> Free(a)
  BY <1>1 DEF QueuedOnes, Queued, Free
<1>3. ASSUME NEW a, Settled(a, stored, applied, cleared)
      PROVE  Settled(a, stored', applied', cleared')
  BY <1>1, <1>3 DEF Settled
<1>4. ASSUME NEW a, NEW r, InHand(a, r, stored, applied, cleared)
      PROVE  InHand(a, r, stored', applied', cleared')
  BY <1>1, <1>4 DEF InHand
<1> QED BY <1>1, <1>2, <1>3, <1>4 DEF CalmInv

LEMMA CalmKill ==
  ASSUME QueueInv, CalmInv, Kill
  PROVE  CalmInv'
<1> SUFFICES ASSUME calm' PROVE CalmInv'
  BY DEF CalmInv
<1>1. /\ \A s \in Replays : ~replay[s].on /\ ~replay'[s].on
      /\ calm /\ UNCHANGED <<stored, started, applied, cleared>>
  BY DEF Kill, Replaying, NotReplaying
<1>2. \A a \in Actions : queueing'[a].at = "queued" <=> queueing[a].at = "queued"
  BY TypesOfRecords DEF Kill, QueueingRecord
<1>3. QueuedOnes' = QueuedOnes
  BY <1>2 DEF QueuedOnes, Queued
<1> QED BY <1>1, <1>3 DEF CalmInv, Free

LEMMA CalmInvHolds == QueueSpec => []CalmInv
<1>1. QueueInit => CalmInv
  BY DEF QueueInit, CalmInv, QueuedOnes, Queued, NotReplaying
<1>2. QueueInv /\ CalmInv /\ [QueueNext]_queueVars => CalmInv'
  <2> SUFFICES ASSUME QueueInv, CalmInv, [QueueNext]_queueVars PROVE CalmInv'
    OBVIOUS
  <2>1. ASSUME NEW a \in Actions, QueueRead(a) PROVE CalmInv'
    <3>1. \A b \in Actions : queueing'[b].at = "queued" <=> queueing[b].at = "queued"
      BY <2>1, TypesOfRecords DEF QueueRead, QueueingRecord
    <3>2. QueuedOnes' = QueuedOnes
      BY <3>1 DEF QueuedOnes, Queued
    <3> QED BY <2>1, <3>2 DEF QueueRead, CalmInv, Free
  <2>2. ASSUME NEW a \in Actions, QueueWrite(a) PROVE CalmInv'
    BY <2>2, CalmQueueWrite
  <2>3. ASSUME NEW s \in Replays, ReplayRead(s) \/ Send(s) \/ ReplayWrite(s) PROVE CalmInv'
    BY <2>3, CalmReplayRead, CalmSend, CalmReplayWrite
  <2>4. CASE Clear \/ Kill
    BY <2>4, CalmClear, CalmKill
  <2>5. CASE UNCHANGED queueVars
    BY <2>5 DEF queueVars, CalmInv, QueuedOnes, Queued, Free
  <2> QED BY <2>1, <2>2, <2>3, <2>4, <2>5 DEF QueueNext
<1> QED BY <1>1, <1>2, QueueInvHolds, PTL DEF QueueSpec

-----------------------------------------------------------------------------
\* The types of the variables of the queue are invariant.
THEOREM QueueTypes == QueueSpec => []QueueTypeOK
BY QueueInvHolds, PTL DEF QueueInv

\* An action is in the stored list at most once, whatever lists are put back.
THEOREM ActionsStoredOnce == QueueSpec => []StoredOnce
<1>1. QueueInv => StoredOnce
  BY DEF QueueInv, ListsSound, Sound, StoredOnce
<1> QED BY <1>1, QueueInvHolds, PTL

\* A confirmed action is stored, or was carried out, cleared or written over.
THEOREM NoActionLost == QueueSpec => []NoneLost
BY QueueInvHolds, PTL DEF QueueInv

\* While no answer is lost and no two operations overlap, an action is carried
\* out once, and between replays it is stored, carried out or cleared.
THEOREM CalmQueueHolds == QueueSpec => []CalmQueue
<1>1. QueueInv /\ CalmInv => CalmQueue
  <2> SUFFICES ASSUME QueueInv, CalmInv, calm, NEW a \in Actions
               PROVE  /\ applied[a] <= 1
                      /\ ~Replaying /\ Queued(a) =>
                           \/ a \in ToSet(stored) /\ applied[a] = 0 /\ a \notin cleared
                           \/ a \notin ToSet(stored) /\ (applied[a] = 1) # (a \in cleared)
    BY DEF CalmQueue
  <2>1. applied[a] <= 1
    <3>1. CASE a \notin QueuedOnes
      BY <3>1 DEF QueueInv, NothingBefore
    <3>2. CASE a \in QueuedOnes /\ Free(a)
      BY <3>2 DEF CalmInv, Settled
    <3>3. CASE ~Free(a)
      BY <3>3 DEF CalmInv, Free, InHand
    <3> QED BY <3>1, <3>2, <3>3
  <2>2. ASSUME ~Replaying, Queued(a)
        PROVE  \/ a \in ToSet(stored) /\ applied[a] = 0 /\ a \notin cleared
               \/ a \notin ToSet(stored) /\ (applied[a] = 1) # (a \in cleared)
    <3>1. Settled(a, stored, applied, cleared)
      BY <2>2 DEF CalmInv, Free, Replaying, QueuedOnes
    <3> QED BY <3>1 DEF Settled
  <2> QED BY <2>1, <2>2
<1> QED BY <1>1, QueueInvHolds, CalmInvHolds, PTL
=============================================================================
