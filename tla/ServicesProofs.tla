--------------------------- MODULE ServicesProofs ---------------------------
(***************************************************************************)
(* Proofs about the presence service: the list shows connected users only  *)
(* and every online user has exactly one timer, for any number of users    *)
(* and sockets.  The types of the four small parts of MCServices follow    *)
(* where TLC checks them side by side.                                     *)
(***************************************************************************)
EXTENDS MCServices, OfflineQueueProofs, EventBusProofs, ShotTakesProofs, TLAPS

\* The timer of a connection is not running before there is the connection, and
\* the map has one timer of each user at most.
TimersOfConnections ==
  /\ \A s \in running : socket[s].at # "new"
  /\ \A u \in Members : \A r, s \in awayTimers[u] : r = s

PresenceInv == PresenceTypeOK /\ ListedAreConnected /\ TimersOfConnections

\* What a step does to user u only.
LEMMA OthersKept ==
  ASSUME PresenceInv, NEW u \in Members, NEW status \in {"online", "away", "offline"},
         presence' = [presence EXCEPT ![u] = status],
         NEW handle \in SUBSET Sockets, awayTimers' = [awayTimers EXCEPT ![u] = handle],
         socket' \in [Sockets -> [at : {"new", "open", "closed"}, user : Members]],
         running' \subseteq Sockets,
         \A v \in Members \ {u} :
           TimersOf(v)' = TimersOf(v) /\ OpenSockets(v) \subseteq OpenSockets(v)',
         TimersOf(u)' = handle,
         handle # {} <=> status = "online",
         status # "offline" => OpenSockets(u)' # {}
  PROVE  PresenceTypeOK' /\ ListedAreConnected'
<1>1. PresenceTypeOK'
  BY DEF PresenceInv, PresenceTypeOK
<1>2. ASSUME NEW v \in Members
      PROVE  /\ v \in OnlineUsers' => OpenSockets(v)' # {}
             /\ TimersOf(v)' # {} <=> presence'[v] = "online"
             /\ TimersOf(v)' = awayTimers'[v]
  <2>1. CASE v = u
    BY <2>1 DEF PresenceInv, PresenceTypeOK, OnlineUsers
  <2>2. CASE v # u
    <3>1. presence'[v] = presence[v] /\ awayTimers'[v] = awayTimers[v]
      BY <2>2 DEF PresenceInv, PresenceTypeOK
    <3> QED BY <2>2, <3>1 DEF PresenceInv, ListedAreConnected, OnlineUsers
  <2> QED BY <2>1, <2>2
<1> QED BY <1>1, <1>2 DEF ListedAreConnected

LEMMA ConnectKeepsPresenceInv ==
  ASSUME PresenceInv, NEW s \in Sockets, NEW u \in Members, PresenceConnect(s, u)
  PROVE  PresenceInv'
<1>1. PICK opened \in [at : {"new", "open", "closed"}, user : Members] :
        opened = [at |-> "open", user |-> u]
  OBVIOUS
<1>2. /\ socket' = [socket EXCEPT ![s] = opened]
      /\ presence' = [presence EXCEPT ![u] = "online"]
      /\ awayTimers' = [awayTimers EXCEPT ![u] = {s}]
      /\ running' = (running \ TimersOf(u)) \cup {s}
  BY <1>1 DEF PresenceConnect, Cleared, PresenceInv, ListedAreConnected
<1>3. /\ socket'[s] = opened /\ \A r \in Sockets \ {s} : socket'[r] = socket[r]
      /\ s \notin running /\ running \subseteq Sockets /\ socket[s].at = "new"
  BY <1>2 DEF PresenceConnect, PresenceInv, PresenceTypeOK, TimersOfConnections
<1>4. ASSUME NEW v \in Members \ {u}
      PROVE  TimersOf(v)' = TimersOf(v) /\ OpenSockets(v) \subseteq OpenSockets(v)'
  <2>1. TimersOf(v)' = TimersOf(v)
    BY <1>1, <1>2, <1>3 DEF TimersOf
  <2>2. OpenSockets(v) \subseteq OpenSockets(v)'
    BY <1>3 DEF OpenSockets
  <2> QED BY <2>1, <2>2
<1>5. TimersOf(u)' = {s} /\ s \in OpenSockets(u)'
  BY <1>1, <1>2, <1>3 DEF TimersOf, OpenSockets
<1>6. PresenceTypeOK' /\ ListedAreConnected'
  <2>1. socket' \in [Sockets -> [at : {"new", "open", "closed"}, user : Members]]
    BY <1>2 DEF PresenceInv, PresenceTypeOK
  <2>2. running' \subseteq Sockets
    BY <1>2, <1>3
  <2>3. presence' = [presence EXCEPT ![u] = "online"] /\ awayTimers' = [awayTimers EXCEPT ![u] = {s}]
    BY <1>2
  <2> QED BY <1>4, <1>5, <2>1, <2>2, <2>3, OthersKept
<1>7. TimersOfConnections'
  BY <1>1, <1>2, <1>3 DEF PresenceInv, PresenceTypeOK, TimersOfConnections
<1> QED BY <1>6, <1>7 DEF PresenceInv

LEMMA DisconnectKeepsPresenceInv ==
  ASSUME PresenceInv, NEW s \in Sockets, PresenceDisconnect(s)
  PROVE  PresenceInv'
<1>1. PICK u \in Members : u = socket[s].user
  BY DEF PresenceInv, PresenceTypeOK
<1>2. PICK closed \in [at : {"new", "open", "closed"}, user : Members] :
        closed = [socket[s] EXCEPT !.at = "closed"]
  BY DEF PresenceInv, PresenceTypeOK
<1>3. /\ socket' = [socket EXCEPT ![s] = closed] /\ closed.at = "closed" /\ closed.user = u
      /\ presence' = [presence EXCEPT ![u] = "offline"]
      /\ awayTimers' = [awayTimers EXCEPT ![u] = {}]
      /\ running' = running \ TimersOf(u)
  BY <1>1, <1>2 DEF PresenceDisconnect, Cleared, PresenceInv, PresenceTypeOK, ListedAreConnected
<1>4. /\ socket'[s] = closed /\ \A r \in Sockets \ {s} : socket'[r] = socket[r]
      /\ \A r \in Sockets : socket'[r].user = socket[r].user
      /\ running \subseteq Sockets
  BY <1>1, <1>3 DEF PresenceInv, PresenceTypeOK
<1>5. ASSUME NEW v \in Members \ {u}
      PROVE  TimersOf(v)' = TimersOf(v) /\ OpenSockets(v) \subseteq OpenSockets(v)'
  <2>1. TimersOf(v)' = TimersOf(v)
    BY <1>3, <1>4 DEF TimersOf
  <2>2. OpenSockets(v) \subseteq OpenSockets(v)'
    BY <1>1, <1>4 DEF OpenSockets
  <2> QED BY <2>1, <2>2
<1>6. TimersOf(u)' = {}
  BY <1>3, <1>4 DEF TimersOf
<1>7. PresenceTypeOK' /\ ListedAreConnected'
  <2>1. socket' \in [Sockets -> [at : {"new", "open", "closed"}, user : Members]]
    BY <1>3 DEF PresenceInv, PresenceTypeOK
  <2>2. running' \subseteq Sockets
    BY <1>3, <1>4
  <2>3. presence' = [presence EXCEPT ![u] = "offline"] /\ awayTimers' = [awayTimers EXCEPT ![u] = {}]
    BY <1>3
  <2> QED BY <1>5, <1>6, <2>1, <2>2, <2>3, OthersKept
<1>8. TimersOfConnections'
  BY <1>3, <1>4 DEF PresenceInv, PresenceTypeOK, TimersOfConnections
<1> QED BY <1>7, <1>8 DEF PresenceInv

LEMMA AwayKeepsPresenceInv ==
  ASSUME PresenceInv, NEW s \in Sockets, GoesAway(s)
  PROVE  PresenceInv'
<1>1. PICK u \in Members : u = socket[s].user
  BY DEF PresenceInv, PresenceTypeOK
<1>2. /\ s \in TimersOf(u) /\ socket' = socket /\ running' = running \ {s}
      /\ awayTimers' = [awayTimers EXCEPT ![u] = {}]
  BY <1>1 DEF GoesAway, TimersOf
<1>3. presence[u] = "online" /\ OpenSockets(u) # {}
  BY <1>2 DEF PresenceInv, ListedAreConnected, OnlineUsers
<1>4. presence' = [presence EXCEPT ![u] = "away"]
  BY <1>1, <1>3 DEF GoesAway
<1>5. TimersOf(u) = {s}
  BY <1>2 DEF PresenceInv, ListedAreConnected, TimersOfConnections
<1>6. TimersOf(u)' = {}
  BY <1>2, <1>5 DEF TimersOf
<1>7. ASSUME NEW v \in Members \ {u}
      PROVE  TimersOf(v)' = TimersOf(v) /\ OpenSockets(v) \subseteq OpenSockets(v)'
  BY <1>1, <1>2 DEF TimersOf, OpenSockets
<1>8. PresenceTypeOK' /\ ListedAreConnected'
  <2>1. socket' \in [Sockets -> [at : {"new", "open", "closed"}, user : Members]]
    BY <1>2 DEF PresenceInv, PresenceTypeOK
  <2>2. running' \subseteq Sockets
    BY <1>2 DEF PresenceInv, PresenceTypeOK
  <2>3. OpenSockets(u)' # {}
    BY <1>2, <1>3 DEF OpenSockets
  <2>4. awayTimers' = [awayTimers EXCEPT ![u] = {}]
    BY <1>2
  <2> QED BY <1>4, <1>6, <1>7, <2>1, <2>2, <2>3, <2>4, OthersKept
<1>9. TimersOfConnections'
  BY <1>2 DEF PresenceInv, PresenceTypeOK, TimersOfConnections
<1> QED BY <1>8, <1>9 DEF PresenceInv

LEMMA PresenceInvHolds == PresenceSpec => []PresenceInv
<1>1. PresenceInit => PresenceInv
  <2> SUFFICES ASSUME PresenceInit PROVE PresenceInv
    OBVIOUS
  <2>1. PresenceTypeOK
    BY DEF PresenceInit, PresenceTypeOK
  <2>2. ListedAreConnected
    BY DEF PresenceInit, ListedAreConnected, OnlineUsers, TimersOf
  <2>3. TimersOfConnections
    BY DEF PresenceInit, TimersOfConnections
  <2> QED BY <2>1, <2>2, <2>3 DEF PresenceInv
<1>2. PresenceInv /\ [PresenceNext]_presenceVars => PresenceInv'
  <2> SUFFICES ASSUME PresenceInv, [PresenceNext]_presenceVars PROVE PresenceInv'
    OBVIOUS
  <2>1. ASSUME NEW s \in Sockets, NEW u \in Members, PresenceConnect(s, u) PROVE PresenceInv'
    BY <2>1, ConnectKeepsPresenceInv
  <2>2. ASSUME NEW s \in Sockets, PresenceDisconnect(s) PROVE PresenceInv'
    BY <2>2, DisconnectKeepsPresenceInv
  <2>3. ASSUME NEW s \in Sockets, GoesAway(s) PROVE PresenceInv'
    BY <2>3, AwayKeepsPresenceInv
  <2>4. CASE UNCHANGED presenceVars
    BY <2>4 DEF presenceVars, PresenceInv, PresenceTypeOK, ListedAreConnected, OnlineUsers,
                OpenSockets, TimersOf, TimersOfConnections
  <2> QED BY <2>1, <2>2, <2>3, <2>4 DEF PresenceNext
<1> QED BY <1>1, <1>2, PTL DEF PresenceSpec

-----------------------------------------------------------------------------
\* The types of the variables of the presence service are invariant.
THEOREM PresenceTypes == PresenceSpec => []PresenceTypeOK
BY PresenceInvHolds, PTL DEF PresenceInv

\* Whoever is listed has a socket; exactly those who are online have a timer that
\* will end it; and a timer that is no longer in the map never runs out.
THEOREM ListedUsersAreConnected == PresenceSpec => []ListedAreConnected
BY PresenceInvHolds, PTL DEF PresenceInv

-----------------------------------------------------------------------------
LEMMA PartsStart == ServicesInit => QueueInit /\ BusInit /\ PresenceInit /\ TakesInit
BY DEF ServicesInit

\* A step of the four together is a step of one, which the others do not notice.
LEMMA PartsStep ==
  ASSUME [QueueMoves \/ BusMoves \/ PresenceMoves \/ TakesMove]_servicesVars
  PROVE  /\ [QueueNext]_queueVars /\ [BusNext]_busVars
         /\ [PresenceNext]_presenceVars /\ [TakesNext]_takeVars
<1>1. CASE QueueMoves
  BY <1>1 DEF QueueMoves
<1>2. CASE BusMoves
  BY <1>2 DEF BusMoves
<1>3. CASE PresenceMoves
  BY <1>3 DEF PresenceMoves
<1>4. CASE TakesMove
  BY <1>4 DEF TakesMove
<1>5. CASE UNCHANGED servicesVars
  BY <1>5 DEF servicesVars
<1> QED BY <1>1, <1>2, <1>3, <1>4, <1>5

\* Each of the four behaves as its own specification says, so that what is proved
\* of one alone can be cited here.
LEMMA PartsRun == ServicesSpec => QueueSpec /\ BusSpec /\ PresenceSpec /\ TakesSpec
BY PartsStart, PartsStep, PTL DEF ServicesSpec, QueueSpec, BusSpec, PresenceSpec, TakesSpec

\* The types of the variables of all four are invariant where they run together.
THEOREM ServicesTypes == ServicesSpec => []ServicesTypeOK
BY PartsRun, QueueTypes, BusTypes, PresenceTypes, TakeTypes, PTL DEF ServicesTypeOK
=============================================================================
