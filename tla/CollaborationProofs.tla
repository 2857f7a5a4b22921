------------------------ MODULE CollaborationProofs ------------------------
(***************************************************************************)
(* Proofs that shot locks are honoured and never orphaned, and that what   *)
(* the rooms and the clients' lists say is true, for any number of users,  *)
(* connections, projects and shots.                                        *)
(***************************************************************************)
EXTENDS CollaborationProperties, TLAPS

\* The lock manager alone keeps these.
LockInv == LockTypes /\ LeaseHonoured /\ TimerPerLock

-----------------------------------------------------------------------------
(* The lock manager.                                                        *)

\* Deleting entries with their timers, and only with the leases on them.
LEMMA RemovalKeepsLockInv ==
  ASSUME LockInv, NEW S \in SUBSET Shots, Remove(S),
         lease' \in [Shots -> Users \cup {None}],
         \A s \in S : locks[s] # None /\ lease'[s] = None,
         \A s \in Shots \ S : lease'[s] \in {lease[s], None}
  PROVE  LockInv'
<1>1. LockTypes'
  BY DEF LockInv, LockTypes, TimerPerLock, Remove
<1>2. LeaseHonoured'
  BY DEF LockInv, LockTypes, LeaseHonoured, Remove
<1>3. TimerPerLock'
  BY DEF LockInv, LockTypes, TimerPerLock, Remove
<1> QED BY <1>1, <1>2, <1>3 DEF LockInv

LEMMA LeaseIsLive ==
  ASSUME LockInv, NEW s \in Shots
  PROVE  lease[s] # None => Live(s) /\ HeldBy(s, lease[s])
<1> SUFFICES ASSUME lease[s] # None PROVE Live(s) /\ HeldBy(s, lease[s])
  OBVIOUS
<1>1. lease[s] \in Users /\ locks[s] = [user |-> lease[s], live |-> TRUE]
  BY DEF LockInv, LockTypes, LeaseHonoured
<1>2. locks[s] # None
  BY <1>1, LocksAssumption
<1>3. locks[s].live /\ locks[s].user = lease[s]
  BY <1>1
<1> QED BY <1>2, <1>3 DEF Live, HeldBy

LEMMA LockShotKeepsLockInv ==
  ASSUME LockInv, NEW u \in Users, NEW s \in Shots, LockShot(u, s)
  PROVE  /\ LockInv'
         /\ locks'[s] # None /\ locks'[s].user \in Users
         /\ \A t \in Shots :
              locks'[t] # None => \/ locks'[t].user = u
                                  \/ locks[t] # None /\ locks'[t].user = locks[t].user
<1>1. CASE Live(s) /\ ~HeldBy(s, u)
  <2>1. UNCHANGED lockVars
    BY <1>1 DEF LockShot
  <2> QED BY <1>1, <2>1 DEF LockInv, LockTypes, LeaseHonoured, TimerPerLock, lockVars, Live
<1>2. CASE ~(Live(s) /\ ~HeldBy(s, u))
  <2> DEFINE held == [user |-> u, live |-> TRUE]
  <2>1. /\ locks' = [locks EXCEPT ![s] = held]
        /\ timers' = [timers EXCEPT ![s] = 1]
        /\ lease' = [lease EXCEPT ![s] = u]
    BY <1>2 DEF LockShot, Grant, LockInv, TimerPerLock, LockTypes
  <2>2. held # None /\ held \in [user : Users, live : BOOLEAN] /\ held.user = u
    BY LocksAssumption
  <2>3. LockTypes'
    BY <2>1, <2>2 DEF LockInv, LockTypes
  <2>4. LeaseHonoured'
    BY <2>1, <2>2, LocksAssumption DEF LockInv, LockTypes, LeaseHonoured
  <2>5. TimerPerLock'
    BY <2>1, <2>2 DEF LockInv, LockTypes, TimerPerLock
  <2>6. /\ locks'[s] = held
        /\ \A t \in Shots \ {s} : locks'[t] = locks[t]
    BY <2>1 DEF LockInv, LockTypes
  <2> QED BY <2>2, <2>3, <2>4, <2>5, <2>6 DEF LockInv
<1> QED BY <1>1, <1>2

LEMMA UnlockShotKeepsLockInv ==
  ASSUME LockInv, NEW u \in Users, NEW s \in Shots, UnlockShot(u, s)
  PROVE  LockInv' /\ \A t \in Shots : locks'[t] \in {locks[t], None}
<1>1. PICK S \in SUBSET Shots : S = IF HeldBy(s, u) THEN {s} ELSE {}
  OBVIOUS
<1>2. Remove(S) /\ lease' = [t \in Shots |-> IF t \in {s} /\ lease[t] = u THEN None ELSE lease[t]]
  BY <1>1 DEF UnlockShot, GiveUp
<1>3. \A t \in S : locks[t] # None /\ lease'[t] = None
  BY <1>1, <1>2 DEF HeldBy, LockInv, LeaseHonoured, LockTypes
<1>4. LockInv'
  BY <1>2, <1>3, RemovalKeepsLockInv DEF LockInv, LockTypes
<1> QED BY <1>2, <1>4 DEF Remove

LEMMA IsLockedKeepsLockInv ==
  ASSUME LockInv, NEW s \in Shots, IsLocked(s)
  PROVE  LockInv' /\ \A t \in Shots : locks'[t] \in {locks[t], None}
<1>1. PICK S \in SUBSET Shots : S = IF locks[s] # None /\ ~Live(s) THEN {s} ELSE {}
  OBVIOUS
<1>2. Remove(S) /\ lease' = lease
  BY <1>1 DEF IsLocked
<1>3. \A t \in S : locks[t] # None /\ lease'[t] = None
  BY <1>1, <1>2, LeaseIsLive
<1>4. LockInv'
  BY <1>2, <1>3, RemovalKeepsLockInv DEF LockInv, LockTypes
<1> QED BY <1>2, <1>4 DEF Remove

LEMMA ReleaseKeepsLockInv ==
  ASSUME LockInv, NEW u \in Users, ReleaseAllForUser(u)
  PROVE  LockInv' /\ \A t \in Shots :
                       /\ locks'[t] \in {locks[t], None}
                       /\ locks'[t] # None => locks'[t].user # u
<1>1. PICK S \in SUBSET Shots : S = {s \in Shots : HeldBy(s, u)}
  OBVIOUS
<1>2. Remove(S) /\ lease' = [t \in Shots |-> IF lease[t] = u THEN None ELSE lease[t]]
  BY <1>1 DEF ReleaseAllForUser, GiveUp
<1>3. \A t \in S : locks[t] # None /\ lease'[t] = None
  BY <1>1, <1>2 DEF HeldBy, LockInv, LeaseHonoured, LockTypes
<1>4. LockInv'
  BY <1>2, <1>3, RemovalKeepsLockInv DEF LockInv, LockTypes
<1> QED BY <1>1, <1>2, <1>4 DEF Remove, HeldBy

LEMMA TimeKeepsLockInv ==
  ASSUME LockInv, NEW s \in Shots, Lapse(s) \/ TimerFires(s)
  PROVE  LockInv' /\ \A t \in Shots :
                       locks'[t] # None => locks[t] # None /\ locks'[t].user = locks[t].user
<1>1. CASE Lapse(s)
  <2>1. Live(s) /\ locks[s] # None /\ locks[s] \in [user : Users, live : BOOLEAN]
    BY <1>1 DEF Lapse, Live, LockInv, LockTypes
  <2>2. PICK held \in [user : Users, live : BOOLEAN] :
          held = [locks[s] EXCEPT !.live = FALSE]
    BY <2>1
  <2>3. held # None /\ held.user = locks[s].user /\ held.live = FALSE
    BY <2>1, <2>2, LocksAssumption
  <2>4. /\ locks' = [locks EXCEPT ![s] = held]
        /\ lease' = [lease EXCEPT ![s] = None] /\ timers' = timers
    BY <1>1, <2>2 DEF Lapse
  <2>5. LockTypes' /\ LeaseHonoured' /\ TimerPerLock'
    BY <2>1, <2>3, <2>4 DEF LockInv, LockTypes, LeaseHonoured, TimerPerLock
  <2> QED BY <2>1, <2>3, <2>4, <2>5 DEF LockInv, LockTypes
<1>2. CASE TimerFires(s)
  <2>1. locks[s] # None /\ ~Live(s)
    BY <1>2 DEF TimerFires, LockInv, TimerPerLock, Live
  <2>2. Remove({s}) /\ lease' = lease
    BY <1>2 DEF TimerFires, Remove, LockInv, LockTypes
  <2>3. lease[s] = None
    BY <2>1, LeaseIsLive
  <2>4. LockInv'
    BY <2>1, <2>2, <2>3, RemovalKeepsLockInv DEF LockInv, LockTypes
  <2> QED BY <2>2, <2>4 DEF Remove
<1> QED BY <1>1, <1>2

-----------------------------------------------------------------------------
(* The rooms and the clients' lists.                                        *)

RoomInv == RoomTypes /\ PresenceIsLive /\ ListsConverge

\* Only clients of the room are sent its frames.
LEMMA AudienceIsOfTheRoom ==
  ASSUME RoomInv, NEW p \in Projects, NEW c \in Audience(rooms[p], conn)
  PROVE  c \in Conns /\ ProjectOf[c] = p /\ rooms[p][UserOf[c]] = c
BY CollaborationAssumption DEF RoomInv, RoomTypes, PresenceIsLive, Audience

LEMMA ConnectKeepsRoomInv ==
  ASSUME RoomInv, NEW c \in Conns, Connect(c)
  PROVE  /\ RoomInv'
         /\ \A d \in Conns : Alive(d) => Alive(d)'
<1> DEFINE p == ProjectOf[c]
           u == UserOf[c]
<1>1. p \in Projects /\ u \in Users /\ c # None
  BY CollaborationAssumption
<1>2. PICK room \in [Users -> Conns \cup {None}] : room = [rooms[p] EXCEPT ![u] = c]
  BY <1>1 DEF RoomInv, RoomTypes
<1>3. /\ conn[c] = "closed"
      /\ conn' = [conn EXCEPT ![c] = "open"]
      /\ docs' = docs \cup {p}
      /\ rooms' = [rooms EXCEPT ![p] = room]
      /\ listed' = [d \in Conns |-> IF d \in Audience(room, conn') THEN Present(room)
                                    ELSE listed[d]]
      /\ shown' = [shown EXCEPT ![c] = [s \in Shots |-> None]]
  BY <1>2 DEF Connect, BroadcastAwareness
<1>4. RoomTypes'
  BY <1>1, <1>2, <1>3 DEF RoomInv, RoomTypes, Present
<1>5. \A d \in Conns : Alive(d) => Alive(d)'
  BY <1>3 DEF RoomInv, RoomTypes, Alive
<1>6. /\ rooms'[p] = room /\ room[u] = c /\ \A v \in Users \ {u} : room[v] = rooms[p][v]
      /\ \A q \in Projects \ {p} : rooms'[q] = rooms[q]
  BY <1>1, <1>2, <1>3 DEF RoomInv, RoomTypes
<1>7. PresenceIsLive'
  <2>1. ASSUME NEW q \in Projects, NEW v \in Users, rooms'[q][v] # None
        PROVE  /\ conn'[rooms'[q][v]] \in {"open", "closing"}
               /\ UserOf[rooms'[q][v]] = v /\ ProjectOf[rooms'[q][v]] = q
    <3>1. CASE q = p /\ v = u
      BY <1>3, <1>6, <3>1 DEF RoomInv, RoomTypes
    <3>2. CASE ~(q = p /\ v = u)
      <4>1. rooms'[q][v] = rooms[q][v]
        BY <1>6, <3>2
      <4>2. rooms[q][v] \in Conns
        BY <2>1, <4>1 DEF RoomInv, RoomTypes
      <4> QED BY <2>1, <4>1, <4>2, <1>5 DEF RoomInv, PresenceIsLive, Alive
    <3> QED BY <3>1, <3>2
  <2>2. docs' = {q \in Projects : Present(rooms'[q]) # {}}
    <3>1. u \in Present(room)
      BY <1>1, <1>6 DEF Present
    <3>2. \A q \in Projects : q \in docs <=> Present(rooms[q]) # {}
      BY DEF RoomInv, PresenceIsLive
    <3>3. \A q \in Projects : q \in docs' <=> Present(rooms'[q]) # {}
      BY <1>3, <1>6, <3>1, <3>2
    <3>4. docs' \subseteq Projects
      BY <1>4 DEF RoomTypes
    <3> QED BY <3>3, <3>4
  <2> QED BY <2>1, <2>2 DEF PresenceIsLive, Present, Alive
<1>8. ListsConverge'
  <2> SUFFICES ASSUME NEW q \in Projects, NEW d \in Audience(rooms'[q], conn')
               PROVE  listed'[d] = Present(rooms'[q])
    BY DEF ListsConverge, Audience, Present
  <2>1. CASE q = p
    BY <1>3, <1>6, <2>1 DEF Audience
  <2>2. CASE q # p
    <3>1. rooms'[q] = rooms[q]
      BY <1>6, <2>2
    <3>2. PICK v \in Users : rooms[q][v] = d /\ d \in Conns /\ conn'[d] = "open"
      BY <3>1 DEF Audience
    <3>3. d # None /\ Alive(d) /\ ProjectOf[d] = q
      BY <3>2, CollaborationAssumption DEF RoomInv, PresenceIsLive
    <3>4. d # c /\ d \in Audience(rooms[q], conn)
      BY <1>3, <3>2, <3>3 DEF Alive, Audience, RoomInv, RoomTypes
    <3>5. d \notin Audience(room, conn')
      BY <1>1, <1>6, <1>7, <2>2, <3>3, CollaborationAssumption DEF Audience, PresenceIsLive
    <3> QED BY <1>3, <3>1, <3>2, <3>4, <3>5 DEF RoomInv, ListsConverge
  <2> QED BY <2>1, <2>2
<1> QED BY <1>4, <1>5, <1>7, <1>8 DEF RoomInv

LEMMA CloseKeepsRoomInv ==
  ASSUME RoomInv, NEW c \in Conns, Close(c)
  PROVE  /\ RoomInv'
         /\ \A d \in Conns : Alive(d) /\ UserOf[d] # UserOf[c] => Alive(d)'
<1> DEFINE p == ProjectOf[c]
           u == UserOf[c]
<1>1. p \in Projects /\ u \in Users /\ c # None
  BY CollaborationAssumption
<1>2. PICK room \in [Users -> Conns \cup {None}] : room = [rooms[p] EXCEPT ![u] = None]
  BY <1>1 DEF RoomInv, RoomTypes
<1>3. /\ conn' = [conn EXCEPT ![c] = "closed"]
      /\ docs' = IF Present(room) = {} THEN docs \ {p} ELSE docs
      /\ rooms' = [rooms EXCEPT ![p] = room]
      /\ listed' = [d \in Conns |-> IF d \in Audience(room, conn) THEN Present(room)
                                    ELSE listed[d]]
      /\ shown' = [d \in Conns |->
                     IF d \in Audience(room, conn)
                     THEN [s \in Shots |-> IF shown[d][s] = u THEN None ELSE shown[d][s]]
                     ELSE shown[d]]
  BY <1>2 DEF Close, BroadcastAwareness
<1>4. RoomTypes'
  BY <1>1, <1>2, <1>3 DEF RoomInv, RoomTypes, Present
<1>5. /\ conn'[c] = "closed"
      /\ \A d \in Conns \ {c} : conn'[d] = conn[d]
  BY <1>3 DEF RoomInv, RoomTypes
<1>6. /\ rooms'[p] = room /\ room[u] = None /\ \A v \in Users \ {u} : room[v] = rooms[p][v]
      /\ \A q \in Projects \ {p} : rooms'[q] = rooms[q]
  BY <1>1, <1>2, <1>3 DEF RoomInv, RoomTypes
\* An entry that is left was there before, and is not that of c.
<1>7. ASSUME NEW q \in Projects, NEW v \in Users, rooms'[q][v] # None
      PROVE  /\ rooms'[q][v] = rooms[q][v] /\ rooms[q][v] \in Conns \ {c}
             /\ Alive(rooms[q][v]) /\ UserOf[rooms[q][v]] = v /\ ProjectOf[rooms[q][v]] = q
  <2>1. ~(q = p /\ v = u)
    BY <1>6, <1>7
  <2>2. rooms'[q][v] = rooms[q][v]
    BY <1>6, <2>1
  <2>3. /\ rooms[q][v] \in Conns /\ Alive(rooms[q][v])
        /\ UserOf[rooms[q][v]] = v /\ ProjectOf[rooms[q][v]] = q
    BY <1>7, <2>2 DEF RoomInv, RoomTypes, PresenceIsLive
  <2> QED BY <2>1, <2>2, <2>3
<1>8. PresenceIsLive'
  <2>1. ASSUME NEW q \in Projects, NEW v \in Users, rooms'[q][v] # None
        PROVE  /\ conn'[rooms'[q][v]] \in {"open", "closing"}
               /\ UserOf[rooms'[q][v]] = v /\ ProjectOf[rooms'[q][v]] = q
    BY <1>5, <1>7, <2>1 DEF Alive
  <2>2. docs' = {q \in Projects : Present(rooms'[q]) # {}}
    <3>1. Present(room) # {} => Present(rooms[p]) # {}
      BY <1>6 DEF Present
    <3>2. \A q \in Projects : q \in docs <=> Present(rooms[q]) # {}
      BY DEF RoomInv, PresenceIsLive
    <3>3. \A q \in Projects : q \in docs' <=> Present(rooms'[q]) # {}
      BY <1>1, <1>3, <1>6, <3>1, <3>2
    <3>4. docs' \subseteq Projects
      BY <1>4 DEF RoomTypes
    <3> QED BY <3>3, <3>4
  <2> QED BY <2>1, <2>2 DEF PresenceIsLive, Present, Alive
<1>9. ListsConverge'
  <2> SUFFICES ASSUME NEW q \in Projects, NEW d \in Audience(rooms'[q], conn')
               PROVE  listed'[d] = Present(rooms'[q])
    BY DEF ListsConverge, Audience, Present
  <2>1. PICK v \in Users : rooms'[q][v] = d /\ d \in Conns /\ conn'[d] = "open"
    BY DEF Audience
  <2>2. d # None
    BY <2>1, CollaborationAssumption
  <2>3. rooms[q][v] = d /\ d # c /\ ProjectOf[d] = q /\ conn[d] = "open"
    BY <1>5, <1>7, <2>1, <2>2
  <2>4. CASE q = p
    BY <1>3, <1>6, <2>1, <2>3, <2>4 DEF Audience
  <2>5. CASE q # p
    <3>1. d \in Audience(rooms[q], conn)
      BY <2>1, <2>3 DEF Audience
    <3>2. d \notin Audience(room, conn)
      BY <1>1, <1>6, <1>7, <2>2, <2>3, <2>5 DEF Audience
    <3> QED BY <1>3, <1>6, <2>1, <2>5, <3>1, <3>2 DEF RoomInv, ListsConverge
  <2> QED BY <2>4, <2>5
<1> QED BY <1>4, <1>5, <1>8, <1>9 DEF RoomInv, Alive

LEMMA ClosingKeepsRoomInv ==
  ASSUME RoomInv, NEW c \in Conns, Closing(c)
  PROVE  RoomInv' /\ \A d \in Conns : Alive(d) => Alive(d)'
<1>1. /\ conn' = [conn EXCEPT ![c] = "closing"] /\ conn[c] = "open"
      /\ rooms' = rooms /\ docs' = docs /\ listed' = listed /\ shown' = shown
  BY DEF Closing
<1>2. RoomTypes'
  BY <1>1 DEF RoomInv, RoomTypes
<1>3. \A d \in Conns : Alive(d) => Alive(d)'
  BY <1>1 DEF RoomInv, RoomTypes, Alive
<1>4. PresenceIsLive'
  <2>1. \A q \in Projects, v \in Users : rooms[q][v] \in Conns \cup {None}
    BY DEF RoomInv, RoomTypes
  <2> QED BY <1>1, <1>3, <2>1 DEF RoomInv, PresenceIsLive, Present, Alive
<1>5. ListsConverge'
  <2>1. \A q \in Projects : Audience(rooms[q], conn') \subseteq Audience(rooms[q], conn)
    BY <1>1 DEF Audience, RoomInv, RoomTypes
  <2> QED BY <1>1, <2>1 DEF RoomInv, ListsConverge, Present, Audience
<1> QED BY <1>2, <1>3, <1>4, <1>5 DEF RoomInv

\* A frame about a lock changes only what clients show.
LEMMA FramesKeepRoomInv ==
  ASSUME RoomInv, UNCHANGED presenceVars,
         shown' \in [Conns -> [Shots -> Users \cup {None}]]
  PROVE  RoomInv' /\ \A d \in Conns : Alive(d) => Alive(d)'
BY DEF RoomInv, RoomTypes, PresenceIsLive, ListsConverge, Present, Audience, Alive, presenceVars

LEMMA BroadcastLockTypes ==
  ASSUME RoomTypes, NEW c \in Conns, NEW s \in Shots, NEW u \in Users \cup {None},
         BroadcastLock(c, s, u)
  PROVE  shown' \in [Conns -> [Shots -> Users \cup {None}]]
BY DEF RoomTypes, BroadcastLock

-----------------------------------------------------------------------------
Inv == LockInv /\ RoomInv /\ NoOrphanLocks

LEMMA InvInit == Init => Inv
<1> SUFFICES ASSUME Init PROVE Inv
  OBVIOUS
<1>1. LockInv
  BY DEF Init, LocksInit, LockInv, LockTypes, LeaseHonoured, TimerPerLock
<1>2. RoomTypes
  BY DEF Init, RoomTypes
<1>3. \A p \in Projects : Present(rooms[p]) = {} /\ Audience(rooms[p], conn) = {}
  BY CollaborationAssumption DEF Init, Present, Audience
<1>4. PresenceIsLive /\ ListsConverge
  BY <1>3 DEF Init, PresenceIsLive, ListsConverge
<1>5. NoOrphanLocks
  BY DEF Init, LocksInit, NoOrphanLocks
<1> QED BY <1>1, <1>2, <1>4, <1>5 DEF Inv, RoomInv

LEMMA InvStep == Inv /\ [Next]_vars => Inv'
<1> SUFFICES ASSUME Inv, [Next]_vars PROVE Inv'
  OBVIOUS
<1> USE DEF Inv
<1>1. ASSUME NEW c \in Conns, Connect(c) PROVE Inv'
  <2>1. RoomInv' /\ \A d \in Conns : Alive(d) => Alive(d)'
    BY <1>1, ConnectKeepsRoomInv
  <2>2. UNCHANGED lockVars
    BY <1>1 DEF Connect
  <2>3. LockInv'
    BY <2>2 DEF LockInv, LockTypes, LeaseHonoured, TimerPerLock, lockVars
  <2>4. NoOrphanLocks'
    BY <2>1, <2>2 DEF NoOrphanLocks, lockVars
  <2> QED BY <2>1, <2>3, <2>4
<1>2. ASSUME NEW c \in Conns, NEW s \in Shots, HandleLock(c, s) PROVE Inv'
  <2> DEFINE u == UserOf[c]
  <2>1. u \in Users /\ Alive(c) /\ LockShot(u, s) /\ UNCHANGED presenceVars
    BY <1>2, CollaborationAssumption DEF HandleLock, Asks
  <2>2. /\ LockInv' /\ locks'[s].user \in Users
        /\ \A t \in Shots :
             locks'[t] # None => \/ locks'[t].user = u
                                 \/ locks[t] # None /\ locks'[t].user = locks[t].user
    BY <2>1, LockShotKeepsLockInv
  <2>3. RoomInv' /\ \A d \in Conns : Alive(d) => Alive(d)'
    BY <1>2, <2>1, <2>2, BroadcastLockTypes, FramesKeepRoomInv DEF HandleLock, RoomInv
  <2>4. NoOrphanLocks'
    BY <2>1, <2>2, <2>3 DEF NoOrphanLocks
  <2> QED BY <2>2, <2>3, <2>4
<1>3. ASSUME NEW c \in Conns, NEW s \in Shots, HandleUnlock(c, s) PROVE Inv'
  <2>1. UserOf[c] \in Users /\ UnlockShot(UserOf[c], s) /\ UNCHANGED presenceVars
    BY <1>3, CollaborationAssumption DEF HandleUnlock
  <2>2. LockInv' /\ \A t \in Shots : locks'[t] \in {locks[t], None}
    BY <2>1, UnlockShotKeepsLockInv
  <2>3. RoomInv' /\ \A d \in Conns : Alive(d) => Alive(d)'
    BY <1>3, <2>1, BroadcastLockTypes, FramesKeepRoomInv DEF HandleUnlock, RoomInv
  <2>4. NoOrphanLocks'
    BY <2>2, <2>3 DEF NoOrphanLocks
  <2> QED BY <2>2, <2>3, <2>4
<1>4. ASSUME NEW c \in Conns, NEW s \in Shots, HandleQuery(c, s) PROVE Inv'
  <2>1. IsLocked(s) /\ UNCHANGED presenceVars
    BY <1>4 DEF HandleQuery
  <2>2. LockInv' /\ \A t \in Shots : locks'[t] \in {locks[t], None}
    BY <2>1, IsLockedKeepsLockInv
  <2>3. (IF Live(s) THEN locks[s].user ELSE None) \in Users \cup {None}
    BY DEF LockInv, LockTypes, Live
  <2>4. shown' \in [Conns -> [Shots -> Users \cup {None}]]
    BY <1>4, <2>3 DEF HandleQuery, RoomInv, RoomTypes
  <2>5. RoomInv' /\ \A d \in Conns : Alive(d) => Alive(d)'
    BY <2>1, <2>4, FramesKeepRoomInv
  <2>6. NoOrphanLocks'
    BY <2>2, <2>5 DEF NoOrphanLocks
  <2> QED BY <2>2, <2>5, <2>6
<1>5. ASSUME NEW c \in Conns, Closing(c) PROVE Inv'
  <2>1. RoomInv' /\ \A d \in Conns : Alive(d) => Alive(d)'
    BY <1>5, ClosingKeepsRoomInv
  <2>2. UNCHANGED lockVars
    BY <1>5 DEF Closing
  <2>3. LockInv'
    BY <2>2 DEF LockInv, LockTypes, LeaseHonoured, TimerPerLock, lockVars
  <2>4. NoOrphanLocks'
    BY <2>1, <2>2 DEF NoOrphanLocks, lockVars
  <2> QED BY <2>1, <2>3, <2>4
<1>6. ASSUME NEW c \in Conns, Close(c) PROVE Inv'
  <2>1. /\ RoomInv'
        /\ \A d \in Conns : Alive(d) /\ UserOf[d] # UserOf[c] => Alive(d)'
    BY <1>6, CloseKeepsRoomInv
  <2>2. UserOf[c] \in Users /\ ReleaseAllForUser(UserOf[c])
    BY <1>6, CollaborationAssumption DEF Close
  <2>3. LockInv' /\ \A t \in Shots :
                      /\ locks'[t] \in {locks[t], None}
                      /\ locks'[t] # None => locks'[t].user # UserOf[c]
    BY <2>2, ReleaseKeepsLockInv
  <2>4. NoOrphanLocks'
    BY <2>1, <2>3 DEF NoOrphanLocks
  <2> QED BY <2>1, <2>3, <2>4
<1>7. ASSUME NEW s \in Shots, Time(s) PROVE Inv'
  <2>1. (Lapse(s) \/ TimerFires(s)) /\ UNCHANGED presenceVars /\ shown' = shown
    BY <1>7 DEF Time
  <2>2. LockInv' /\ \A t \in Shots :
                      locks'[t] # None => locks[t] # None /\ locks'[t].user = locks[t].user
    BY <2>1, TimeKeepsLockInv
  <2>3. RoomInv' /\ \A d \in Conns : Alive(d) => Alive(d)'
    BY <2>1, FramesKeepRoomInv DEF RoomInv, RoomTypes
  <2>4. NoOrphanLocks'
    BY <2>2, <2>3 DEF NoOrphanLocks
  <2> QED BY <2>2, <2>3, <2>4
<1>8. ASSUME UNCHANGED vars PROVE Inv'
  <2>1. UNCHANGED lockVars /\ UNCHANGED presenceVars /\ shown' = shown
    BY <1>8 DEF vars
  <2>2. LockInv'
    BY <2>1 DEF LockInv, LockTypes, LeaseHonoured, TimerPerLock, lockVars
  <2>3. RoomInv' /\ \A d \in Conns : Alive(d) => Alive(d)'
    BY <2>1, FramesKeepRoomInv DEF RoomInv, RoomTypes
  <2>4. NoOrphanLocks'
    BY <2>1, <2>3 DEF NoOrphanLocks, lockVars
  <2> QED BY <2>2, <2>3, <2>4
<1> QED BY <1>1, <1>2, <1>3, <1>4, <1>5, <1>6, <1>7, <1>8 DEF Next, Requests

LEMMA InvAlways == Spec => []Inv
BY InvInit, InvStep, PTL DEF Spec

\* Types: every map of the lock manager, the awareness manager and the clients.
THEOREM CollaborationTypes == Spec => []TypeOK
<1>1. Inv => TypeOK
  BY DEF Inv, LockInv, RoomInv, TypeOK
<1> QED BY InvAlways, <1>1, PTL

\* lockShot (shotLocking.ts:19): what a user was granted stays its own until its
\* time is up, or it unlocks the shot or closes a connection.
THEOREM LeasesAreHonoured == Spec => []LeaseHonoured
<1>1. Inv => LeaseHonoured
  BY DEF Inv, LockInv
<1> QED BY InvAlways, <1>1, PTL

\* Timeouts (shotLocking.ts:25): exactly one per lock, and none without a lock.
THEOREM OneTimerPerLock == Spec => []TimerPerLock
<1>1. Inv => TimerPerLock
  BY DEF Inv, LockInv
<1> QED BY InvAlways, <1>1, PTL

\* The close handler (index.ts:97): no lock of a user without a connection.
THEOREM LocksHaveConnectedHolders == Spec => []NoOrphanLocks
<1>1. Inv => NoOrphanLocks
  BY DEF Inv
<1> QED BY InvAlways, <1>1, PTL

\* Rooms (awareness.ts:38): entries refer to connections that have not closed, and
\* documents exist exactly for the rooms somebody is present in.
THEOREM RoomsAreLive == Spec => []PresenceIsLive
<1>1. Inv => PresenceIsLive
  BY DEF Inv, RoomInv
<1> QED BY InvAlways, <1>1, PTL

\* Awareness updates (awareness.ts:95): the last list sent to a client is right.
THEOREM ListsAreRight == Spec => []ListsConverge
<1>1. Inv => ListsConverge
  BY DEF Inv, RoomInv
<1> QED BY InvAlways, <1>1, PTL
=============================================================================
