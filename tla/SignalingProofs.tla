-------------------------- MODULE SignalingProofs --------------------------
(***************************************************************************)
(* Proofs that the signaling server keeps its maps in agreement, sessions  *)
(* within their capacity and relayed frames within a session, and that its *)
(* clients end up with the right rosters, for any number of connections,   *)
(* sessions and peers.                                                     *)
(***************************************************************************)
EXTENDS SignalingProperties, FiniteSetTheorems, WellFoundedInduction, TLAPS

\* What the history variables record: a registered peer's session never
\* changes, and a peer is told only of peers that have been registered.
HistoryAgrees ==
  /\ \A p \in Peers : peers[p] # None => home[p] = peers[p].session
  /\ \A p \in Peers : \A q \in told[p] : home[q] # None

SessionsFinite == \A x \in Sessions : IsFiniteSet(Members(x))

Inv ==
  /\ TypeOK /\ MapsAgree /\ HistoryAgrees
  /\ SessionsFinite /\ WithinCapacity /\ OneInitiator /\ Isolation

-----------------------------------------------------------------------------
LEMMA InvInit == Init => Inv
<1> SUFFICES ASSUME Init PROVE Inv
  OBVIOUS
<1>1. TypeOK /\ MapsAgree /\ HistoryAgrees
  BY SignalingAssumption DEF Init, TypeOK, ServerTypes, ClientTypes, MapsAgree, HistoryAgrees
<1>2. \A x \in Sessions : Members(x) = {}
  BY DEF Init, Members
<1>3. SessionsFinite /\ WithinCapacity
  BY <1>2, FS_EmptySet, SignalingAssumption DEF SessionsFinite, WithinCapacity
<1>4. OneInitiator
  BY <1>2 DEF OneInitiator
<1>5. Isolation
  BY DEF Init, Isolation
<1> QED BY <1>1, <1>3, <1>4, <1>5 DEF Inv

\* The entry of a socket that has joined.
LEMMA Entry ==
  ASSUME TypeOK, MapsAgree, NEW s \in Sockets, socketToPeer[s] # None
  PROVE  LET p == socketToPeer[s]
             x == peers[p].session
         IN /\ p \in Peers /\ x \in Sessions
            /\ peers[p] = [session |-> x, socket |-> s]
            /\ sessions[x] # None /\ sessions[x] \in SUBSET Peers /\ p \in sessions[x]
<1> DEFINE p == socketToPeer[s]
           x == peers[p].session
<1>1. p \in Peers
  BY DEF TypeOK, ServerTypes, ClientTypes
<1>2. peers[p] # None /\ peers[p].socket = s
  BY DEF MapsAgree
<1>3. peers[p] \in [session : Sessions, socket : Sockets]
  BY <1>1, <1>2 DEF TypeOK, ServerTypes, ClientTypes
<1>4. x \in Sessions /\ peers[p] = [session |-> x, socket |-> s]
  BY <1>2, <1>3
<1>5. p \in Members(x)
  BY <1>1, <1>2 DEF MapsAgree
<1>6. sessions[x] # None /\ p \in sessions[x]
  BY <1>5 DEF Members
<1> QED BY <1>1, <1>4, <1>6 DEF TypeOK, ServerTypes, ClientTypes

\* What a departure does to the server's maps.
LEMMA Departure ==
  ASSUME TypeOK, MapsAgree, NEW s \in Sockets, Depart(s), socketToPeer[s] # None
  PROVE  LET p == socketToPeer[s]
             x == peers[p].session
         IN /\ socketToPeer' = [socketToPeer EXCEPT ![s] = None]
            /\ peers' = [peers EXCEPT ![p] = None]
            /\ sessions' \in [Sessions -> {None} \cup ((SUBSET Peers) \ {{}})]
            /\ \A y \in Sessions :
                 Members(y)' = IF y = x THEN Members(x) \ {p} ELSE Members(y)
<1> DEFINE p == socketToPeer[s]
           x == peers[p].session
           rest == sessions[x] \ {p}
<1>1. /\ p \in Peers /\ x \in Sessions
      /\ sessions[x] # None /\ sessions[x] \in SUBSET Peers /\ p \in sessions[x]
  BY Entry
<1>2. /\ socketToPeer' = [socketToPeer EXCEPT ![s] = None]
      /\ peers' = [peers EXCEPT ![p] = None]
      /\ sessions' = [sessions EXCEPT ![x] = IF rest = {} THEN None ELSE rest]
  BY DEF Depart
<1>3. sessions' \in [Sessions -> {None} \cup ((SUBSET Peers) \ {{}})]
  BY <1>1, <1>2 DEF TypeOK, ServerTypes, ClientTypes
<1>4. ASSUME NEW y \in Sessions
      PROVE  Members(y)' = IF y = x THEN Members(x) \ {p} ELSE Members(y)
  <2>1. CASE y = x /\ rest = {}
    BY <1>1, <1>2, <2>1 DEF Members, TypeOK, ServerTypes, ClientTypes
  <2>2. CASE y = x /\ rest # {}
    <3>1. rest # None
      BY <1>1, SignalingAssumption
    <3> QED BY <1>1, <1>2, <2>2, <3>1 DEF Members, TypeOK, ServerTypes, ClientTypes
  <2>3. CASE y # x
    BY <1>2, <2>3 DEF Members, TypeOK, ServerTypes, ClientTypes
  <2> QED BY <2>1, <2>2, <2>3
<1> QED BY <1>2, <1>3, <1>4

\* What a join does to the server's maps.
LEMMA Arrival ==
  ASSUME TypeOK, NEW s \in Sockets, NEW x \in Sessions, NEW p \in Peers,
         Register(s, x, p)
  PROVE  /\ socketToPeer' = [socketToPeer EXCEPT ![s] = p]
         /\ peers' = [peers EXCEPT ![p] = [session |-> x, socket |-> s]]
         /\ peers'[p] # None
         /\ sessions' \in [Sessions -> {None} \cup ((SUBSET Peers) \ {{}})]
         /\ \A y \in Sessions :
              Members(y)' = IF y = x THEN Members(x) \cup {p} ELSE Members(y)
<1>1. Members(x) \in SUBSET Peers
  BY DEF Members, TypeOK, ServerTypes, ClientTypes
<1>2. Members(x) \cup {p} # None /\ Members(x) \cup {p} \in (SUBSET Peers) \ {{}}
  BY <1>1, SignalingAssumption
<1>3. sessions' = [sessions EXCEPT ![x] = Members(x) \cup {p}]
  BY DEF Register
<1>4. sessions' \in [Sessions -> {None} \cup ((SUBSET Peers) \ {{}})]
  <2>1. sessions \in [Sessions -> {None} \cup ((SUBSET Peers) \ {{}})]
    BY DEF TypeOK, ServerTypes, ClientTypes
  <2> DEFINE S == Members(x) \cup {p}
             T == {None} \cup ((SUBSET Peers) \ {{}})
  <2>2. S \in T
    BY <1>2
  <2> HIDE DEF S, T
  <2>3. sessions' = [sessions EXCEPT ![x] = S] /\ sessions \in [Sessions -> T]
    BY <1>3, <2>1 DEF S, T
  <2>4. sessions' \in [Sessions -> T]
    BY <2>2, <2>3
  <2> QED BY <2>4 DEF T
<1>5. \A y \in Sessions :
        Members(y)' = IF y = x THEN Members(x) \cup {p} ELSE Members(y)
  BY <1>2, <1>3 DEF Members, TypeOK, ServerTypes, ClientTypes
<1>6. peers'[p] # None
  BY SignalingAssumption DEF Register, TypeOK, ServerTypes, ClientTypes
<1> QED BY <1>4, <1>5, <1>6 DEF Register

\* What every step does to the maps and the histories, for the invariants that
\* do not look at frames.
Arrives(s, x, p) ==
  /\ Alive(s) /\ socketToPeer[s] = None
  /\ home[p] = None
  /\ Cardinality(Members(x)) < MaxPeers
  /\ Register(s, x, p)
  /\ told' = [told EXCEPT ![p] = IF conn[s] = "open" THEN Members(x) ELSE {}]
  /\ conn' = conn

Departs(s) ==
  /\ socketToPeer[s] # None
  /\ Depart(s)
  /\ UNCHANGED historyVars
  /\ \A t \in Sockets \ {s} : conn'[t] = conn[t]

Stays ==
  /\ UNCHANGED <<serverVars, historyVars>>
  /\ \A t \in Sockets : socketToPeer[t] = None \/ conn'[t] = conn[t]

LEMMA Steps ==
  ASSUME Inv, [Next]_vars
  PROVE  \/ \E s \in Sockets, x \in Sessions, p \in Peers : Arrives(s, x, p)
         \/ \E s \in Sockets : Departs(s)
         \/ Stays
<1> USE DEF serverVars, historyVars, clientVars
<1>0. TypeOK
  BY DEF Inv
<1>1. ASSUME NEW s \in Sockets, NEW x \in Sessions, NEW p \in Peers, Join(s, x, p)
      PROVE  Arrives(s, x, p)
  BY <1>1 DEF Join, Announce, Arrives
<1>2. ASSUME NEW s \in Sockets, NEW x \in Sessions, JoinRefused(s, x) PROVE Stays
  BY <1>0, <1>2 DEF JoinRefused, Stays, TypeOK, ServerTypes, ClientTypes
<1>3. ASSUME NEW s \in Sockets, Leave(s) \/ SocketError(s) \/ SocketClose(s)
      PROVE  Departs(s) \/ Stays
  <2>1. Depart(s) /\ UNCHANGED historyVars
    BY <1>3 DEF Leave, SocketError, SocketClose
  <2>2. \A t \in Sockets \ {s} : conn'[t] = conn[t]
    BY <1>0, <1>3 DEF Leave, SocketError, SocketClose, TypeOK, ServerTypes, ClientTypes
  <2>3. CASE socketToPeer[s] # None
    BY <2>1, <2>2, <2>3 DEF Departs
  <2>4. CASE socketToPeer[s] = None
    BY <2>1, <2>2, <2>4 DEF Depart, Stays
  <2> QED BY <2>3, <2>4
<1>4. ASSUME NEW s \in Sockets, Receive(s) \/ \E to \in Peers : Relay(s, to) PROVE Stays
  BY <1>4 DEF Receive, Relay, Stays
<1>5. CASE UNCHANGED vars
  BY <1>5 DEF vars, Stays
<1> QED BY <1>1, <1>2, <1>3, <1>4, <1>5 DEF Next

-----------------------------------------------------------------------------
(* The maps                                                                  *)

LEMMA MapsStep ==
  ASSUME Inv, [Next]_vars, TypeOK'
  PROVE  MapsAgree'
<1>0. TypeOK /\ MapsAgree /\ HistoryAgrees
  BY DEF Inv
<1>1. ASSUME NEW s \in Sockets, NEW x \in Sessions, NEW p \in Peers, Arrives(s, x, p)
      PROVE  MapsAgree'
  <2>1. /\ socketToPeer' = [socketToPeer EXCEPT ![s] = p]
        /\ peers' = [peers EXCEPT ![p] = [session |-> x, socket |-> s]]
        /\ peers'[p] # None
        /\ \A y \in Sessions :
             Members(y)' = IF y = x THEN Members(x) \cup {p} ELSE Members(y)
    BY <1>0, <1>1, Arrival DEF Arrives
  <2>2. peers[p] = None
    BY <1>0, <1>1, SignalingAssumption DEF Arrives, HistoryAgrees, TypeOK, ServerTypes, ClientTypes
  <2>3. /\ \A t \in Sockets \ {s} : socketToPeer'[t] = socketToPeer[t]
        /\ socketToPeer'[s] = p
        /\ \A q \in Peers \ {p} : peers'[q] = peers[q]
        /\ peers'[p].socket = s /\ peers'[p].session = x
    BY <1>0, <2>1 DEF TypeOK, ServerTypes, ClientTypes
  <2>4. \A t \in Sockets : socketToPeer'[t] # None =>
          peers'[socketToPeer'[t]] # None /\ peers'[socketToPeer'[t]].socket = t
    BY <1>0, <2>1, <2>2, <2>3 DEF MapsAgree, TypeOK, ServerTypes, ClientTypes
  <2>5. ASSUME NEW q \in Peers, peers'[q] # None
        PROVE  /\ socketToPeer'[peers'[q].socket] = q
               /\ Alive(peers[q].socket)'
               /\ q \in Members(peers[q].session)'
    <3>1. CASE q = p
      BY <1>1, <2>1, <2>3, <3>1 DEF Arrives, Alive
    <3>2. CASE q # p
      <4>1. /\ peers'[q] = peers[q] /\ peers[q] # None
            /\ peers[q].session \in Sessions /\ peers[q].socket \in Sockets
        BY <1>0, <2>3, <2>5, <3>2 DEF TypeOK, ServerTypes, ClientTypes
      <4>2. /\ socketToPeer[peers[q].socket] = q
            /\ Alive(peers[q].socket)
            /\ q \in Members(peers[q].session)
        BY <1>0, <4>1 DEF MapsAgree
      <4>3. peers[q].socket # s
        BY <1>1, <4>2, SignalingAssumption DEF Arrives
      <4> QED BY <1>1, <2>1, <2>3, <4>1, <4>2, <4>3 DEF Arrives, Alive
    <3> QED BY <3>1, <3>2
  <2>6. ASSUME NEW y \in Sessions, NEW q \in Members(y)'
        PROVE  peers'[q] # None /\ peers'[q].session = y
    <3>1. CASE q = p
      <4>1. p \notin Members(y)
        BY <1>0, <2>2 DEF MapsAgree, Members
      <4> QED BY <2>1, <2>3, <2>6, <3>1, <4>1
    <3>2. CASE q # p
      <4>0. q \in Members(y)
        BY <2>1, <2>6, <3>2
      <4>1. q \in Members(y) /\ q \in Peers
        BY <1>0, <4>0 DEF Members, TypeOK, ServerTypes, ClientTypes
      <4>2. peers[q] # None /\ peers[q].session = y
        BY <1>0, <4>1 DEF MapsAgree, Members
      <4> QED BY <2>3, <3>2, <4>1, <4>2
    <3> QED BY <3>1, <3>2
  <2> QED BY <2>4, <2>5, <2>6 DEF MapsAgree, Members
<1>2. ASSUME NEW s \in Sockets, Departs(s) PROVE MapsAgree'
  <2> DEFINE p == socketToPeer[s]
             x == peers[p].session
  <2>1. /\ p \in Peers /\ x \in Sessions /\ peers[p] = [session |-> x, socket |-> s]
    BY <1>0, <1>2, Entry DEF Departs
  <2>2. /\ socketToPeer' = [socketToPeer EXCEPT ![s] = None]
        /\ peers' = [peers EXCEPT ![p] = None]
        /\ \A y \in Sessions :
             Members(y)' = IF y = x THEN Members(x) \ {p} ELSE Members(y)
    BY <1>0, <1>2, Departure DEF Departs
  <2>3. /\ \A t \in Sockets \ {s} : socketToPeer'[t] = socketToPeer[t]
        /\ socketToPeer'[s] = None
        /\ \A q \in Peers \ {p} : peers'[q] = peers[q]
        /\ peers'[p] = None
    BY <1>0, <2>1, <2>2 DEF TypeOK, ServerTypes, ClientTypes
  <2>4. ASSUME NEW t \in Sockets, socketToPeer'[t] # None
        PROVE  peers'[socketToPeer'[t]] # None /\ peers'[socketToPeer'[t]].socket = t
    <3>1. t # s /\ socketToPeer'[t] = socketToPeer[t]
      BY <2>3, <2>4
    <3>2. peers[socketToPeer[t]] # None /\ peers[socketToPeer[t]].socket = t
      BY <1>0, <2>4, <3>1 DEF MapsAgree
    <3>3. socketToPeer[t] \in Peers \ {p}
      BY <1>0, <2>1, <2>4, <3>1, <3>2 DEF TypeOK, ServerTypes, ClientTypes
    <3> QED BY <2>3, <3>1, <3>2, <3>3
  <2>5. ASSUME NEW q \in Peers, peers'[q] # None
        PROVE  /\ socketToPeer'[peers'[q].socket] = q
               /\ Alive(peers[q].socket)'
               /\ q \in Members(peers[q].session)'
    <3>1. q # p /\ peers'[q] = peers[q] /\ peers[q] # None
      BY <2>3, <2>5
    <3>2. /\ socketToPeer[peers[q].socket] = q
          /\ Alive(peers[q].socket)
          /\ q \in Members(peers[q].session)
      BY <1>0, <3>1 DEF MapsAgree
    <3>3. peers[q].socket \in Sockets \ {s} /\ peers[q].session \in Sessions
      BY <1>0, <3>1, <3>2 DEF TypeOK, ServerTypes, ClientTypes
    <3>4. Alive(peers[q].socket)'
      BY <1>2, <3>1, <3>2, <3>3 DEF Departs, Alive
    <3> QED BY <2>2, <2>3, <3>1, <3>2, <3>3, <3>4
  <2>6. ASSUME NEW y \in Sessions, NEW q \in Members(y)'
        PROVE  peers'[q] # None /\ peers'[q].session = y
    <3>0. q \in Members(y)
      BY <2>2, <2>6
    <3>1. q \in Members(y) /\ q \in Peers
      BY <1>0, <3>0 DEF Members, TypeOK, ServerTypes, ClientTypes
    <3>2. peers[q] # None /\ peers[q].session = y
      BY <1>0, <3>1 DEF MapsAgree, Members
    <3>3. q # p
      BY <2>2, <3>2
    <3> QED BY <2>3, <3>1, <3>2, <3>3
  <2> QED BY <2>4, <2>5, <2>6 DEF MapsAgree, Members
<1>3. ASSUME Stays PROVE MapsAgree'
  <2>1. ASSUME NEW p \in Peers, peers[p] # None
        PROVE  Alive(peers[p].socket)'
    <3>1. /\ peers[p].socket \in Sockets
          /\ socketToPeer[peers[p].socket] = p
          /\ Alive(peers[p].socket)
      BY <1>0, <2>1 DEF MapsAgree, TypeOK, ServerTypes, ClientTypes
    <3> QED BY <1>3, <3>1, SignalingAssumption DEF Stays, Alive, serverVars
  <2> QED BY <1>0, <1>3, <2>1 DEF Stays, serverVars, MapsAgree, Members
<1> QED BY <1>1, <1>2, <1>3, Steps

LEMMA HistoryStep ==
  ASSUME Inv, [Next]_vars
  PROVE  HistoryAgrees'
<1>0. TypeOK /\ MapsAgree /\ HistoryAgrees
  BY DEF Inv
<1>1. ASSUME NEW s \in Sockets, NEW x \in Sessions, NEW p \in Peers, Arrives(s, x, p)
      PROVE  HistoryAgrees'
  <2>1. peers' = [peers EXCEPT ![p] = [session |-> x, socket |-> s]]
    BY <1>0, <1>1, Arrival DEF Arrives
  <2>2. /\ home' = [home EXCEPT ![p] = x]
        /\ told' = [told EXCEPT ![p] = IF conn[s] = "open" THEN Members(x) ELSE {}]
    BY <1>1 DEF Arrives, Register
  <2>3. x # None
    BY SignalingAssumption
  <2>4. \A q \in Members(x) : home[q] # None
    <3> SUFFICES ASSUME NEW q \in Members(x) PROVE home[q] # None
      OBVIOUS
    <3>1. q \in Peers /\ peers[q] # None /\ peers[q].session = x
      BY <1>0 DEF MapsAgree, Members, TypeOK, ServerTypes, ClientTypes
    <3> QED BY <1>0, <2>3, <3>1 DEF HistoryAgrees
  <2>5. \A q \in Peers : home[q] # None => home'[q] # None
    BY <1>0, <2>2, <2>3 DEF TypeOK, ServerTypes, ClientTypes
  <2>6. \A q \in Peers : peers'[q] # None => home'[q] = peers'[q].session
    BY <1>0, <2>1, <2>2 DEF HistoryAgrees, TypeOK, ServerTypes, ClientTypes
  <2>7. ASSUME NEW q \in Peers, NEW r \in told'[q] PROVE home'[r] # None
    <3>1. r \in Peers
      BY <1>0, <2>2, <2>7 DEF TypeOK, ServerTypes, ClientTypes, Members
    <3>2. home[r] # None
      BY <1>0, <2>2, <2>4, <2>7 DEF HistoryAgrees, TypeOK, ServerTypes, ClientTypes
    <3> QED BY <2>5, <3>1, <3>2
  <2> QED BY <2>6, <2>7 DEF HistoryAgrees
<1>2. ASSUME NEW s \in Sockets, Departs(s) PROVE HistoryAgrees'
  <2>1. peers' = [peers EXCEPT ![socketToPeer[s]] = None] /\ UNCHANGED historyVars
    BY <1>0, <1>2, Departure DEF Departs
  <2> QED BY <1>0, <2>1 DEF HistoryAgrees, historyVars, TypeOK, ServerTypes, ClientTypes
<1>3. ASSUME Stays PROVE HistoryAgrees'
  BY <1>0, <1>3 DEF Stays, serverVars, historyVars, HistoryAgrees
<1> QED BY <1>1, <1>2, <1>3, Steps

LEMMA CapacityStep ==
  ASSUME Inv, [Next]_vars
  PROVE  SessionsFinite' /\ WithinCapacity'
<1>0. TypeOK /\ MapsAgree /\ SessionsFinite /\ WithinCapacity
  BY DEF Inv
<1>1. ASSUME NEW s \in Sockets, NEW x \in Sessions, NEW p \in Peers, Arrives(s, x, p),
             NEW y \in Sessions
      PROVE  IsFiniteSet(Members(y)') /\ Cardinality(Members(y)') <= MaxPeers
  <2>1. Members(y)' = IF y = x THEN Members(x) \cup {p} ELSE Members(y)
    BY <1>0, <1>1, Arrival DEF Arrives
  <2>2. CASE y = x
    <3>1. IsFiniteSet(Members(x)) /\ Cardinality(Members(x)) < MaxPeers
      BY <1>0, <1>1 DEF SessionsFinite, Arrives
    <3>2. /\ IsFiniteSet(Members(x) \cup {p})
          /\ \/ Cardinality(Members(x) \cup {p}) = Cardinality(Members(x))
             \/ Cardinality(Members(x) \cup {p}) = Cardinality(Members(x)) + 1
      BY <3>1, FS_AddElement
    <3>3. Cardinality(Members(x)) \in Nat /\ MaxPeers \in Nat
      BY <3>1, FS_CardinalityType, SignalingAssumption
    <3> QED BY <2>1, <2>2, <3>1, <3>2, <3>3
  <2>3. CASE y # x
    BY <1>0, <2>1, <2>3 DEF SessionsFinite, WithinCapacity
  <2> QED BY <2>2, <2>3
<1>2. ASSUME NEW s \in Sockets, Departs(s), NEW y \in Sessions
      PROVE  IsFiniteSet(Members(y)') /\ Cardinality(Members(y)') <= MaxPeers
  <2> DEFINE p == socketToPeer[s]
  <2>1. Members(y)' = Members(y) \/ Members(y)' = Members(y) \ {p}
    BY <1>0, <1>2, Departure DEF Departs
  <2>2. IsFiniteSet(Members(y)) /\ Cardinality(Members(y)) <= MaxPeers
    BY <1>0 DEF SessionsFinite, WithinCapacity
  <2>3. /\ IsFiniteSet(Members(y) \ {p})
        /\ Cardinality(Members(y) \ {p}) <= Cardinality(Members(y))
    <3>1. Members(y) \ {p} \subseteq Members(y)
      OBVIOUS
    <3> QED BY <2>2, <3>1, FS_Subset
  <2>4. {Cardinality(Members(y)), Cardinality(Members(y) \ {p}), MaxPeers} \subseteq Nat
    BY <2>2, <2>3, FS_CardinalityType, SignalingAssumption
  <2> QED BY <2>1, <2>2, <2>3, <2>4
<1>3. ASSUME Stays PROVE SessionsFinite' /\ WithinCapacity'
  BY <1>0, <1>3 DEF Stays, serverVars, SessionsFinite, WithinCapacity, Members
<1>4. ASSUME \A y \in Sessions :
               IsFiniteSet(Members(y)') /\ Cardinality(Members(y)') <= MaxPeers
      PROVE  SessionsFinite' /\ WithinCapacity'
  BY <1>4 DEF SessionsFinite, WithinCapacity
<1> QED BY <1>1, <1>2, <1>3, <1>4, Steps

\* Who of two peers was told of the other.
Settled(p, q) ==
  /\ q \in told[p] => p \notin told[q]
  /\ Online(p) /\ Online(q) => q \in told[p] \/ p \in told[q]

\* While a peer stays in its session its connection is what it was.
LEMMA MembersStay ==
  ASSUME Inv, [Next]_vars, NEW y \in Sessions, NEW q \in Members(y), q \in Members(y)'
  PROVE  q \in Peers /\ peers'[q] = peers[q] /\ (Online(q)' <=> Online(q))
<1>0. TypeOK /\ MapsAgree /\ HistoryAgrees
  BY DEF Inv
<1>1. /\ q \in Peers /\ peers[q] # None /\ peers[q].session = y
      /\ peers[q].socket \in Sockets /\ socketToPeer[peers[q].socket] = q
  BY <1>0 DEF MapsAgree, Members, TypeOK, ServerTypes
<1>2. ASSUME NEW s \in Sockets, NEW x \in Sessions, NEW p \in Peers, Arrives(s, x, p)
      PROVE  peers'[q] = peers[q] /\ conn' = conn
  <2>1. q # p
    BY <1>0, <1>1, <1>2, SignalingAssumption DEF Arrives, HistoryAgrees
  <2> QED BY <1>0, <1>1, <1>2, <2>1, Arrival DEF Arrives, TypeOK, ServerTypes
<1>3. ASSUME NEW s \in Sockets, Departs(s)
      PROVE  peers'[q] = peers[q] /\ conn'[peers[q].socket] = conn[peers[q].socket]
  <2>1. /\ peers' = [peers EXCEPT ![socketToPeer[s]] = None]
        /\ y = peers[socketToPeer[s]].session
             => Members(y)' = Members(y) \ {socketToPeer[s]}
    BY <1>0, <1>3, Departure DEF Departs
  <2>2. q # socketToPeer[s] /\ s # peers[q].socket
    BY <1>1, <2>1
  <2> QED BY <1>0, <1>1, <1>3, <2>1, <2>2 DEF Departs, TypeOK, ServerTypes
<1>4. CASE Stays
  BY <1>1, <1>4, SignalingAssumption DEF Stays, serverVars, Online
<1> QED BY <1>1, <1>2, <1>3, <1>4, Steps DEF Online

LEMMA InitiatorStep ==
  ASSUME Inv, [Next]_vars
  PROVE  OneInitiator'
<1>0. TypeOK /\ MapsAgree /\ HistoryAgrees /\ OneInitiator
  BY DEF Inv
<1>1. ASSUME NEW s \in Sockets, NEW x \in Sessions, NEW p \in Peers, Arrives(s, x, p)
      PROVE  OneInitiator'
  <2>1. \A y \in Sessions :
          Members(y)' = IF y = x THEN Members(x) \cup {p} ELSE Members(y)
    BY <1>0, <1>1, Arrival DEF Arrives
  <2>2. /\ told' = [told EXCEPT ![p] = IF conn[s] = "open" THEN Members(x) ELSE {}]
        /\ home[p] = None
    BY <1>1 DEF Arrives
  <2>3. \A y \in Sessions : \A q \in Members(y) : q \in Peers /\ q # p /\ p \notin told[q]
    <3> SUFFICES ASSUME NEW y \in Sessions, NEW q \in Members(y)
                 PROVE  q \in Peers /\ q # p /\ p \notin told[q]
      OBVIOUS
    <3>1. q \in Peers /\ peers[q] # None /\ peers[q].session = y
      BY <1>0 DEF MapsAgree, Members, TypeOK, ServerTypes, ClientTypes
    <3>2. home[q] # None
      BY <1>0, <3>1, SignalingAssumption DEF HistoryAgrees
    <3> QED BY <1>0, <2>2, <3>1, <3>2 DEF HistoryAgrees
  <2>4. /\ told'[p] = IF conn[s] = "open" THEN Members(x) ELSE {}
        /\ \A q \in Peers \ {p} : told'[q] = told[q]
        /\ Online(p)' => conn[s] = "open"
    <3>1. peers'[p] = [session |-> x, socket |-> s] /\ conn' = conn
      BY <1>0, <1>1, Arrival DEF Arrives, TypeOK, ServerTypes
    <3> QED BY <1>0, <2>2, <3>1 DEF Online, TypeOK, ServerTypes, ClientTypes
  <2>5. ASSUME NEW y \in Sessions, NEW q \in Members(y)', NEW r \in Members(y)', q # r
        PROVE  Settled(q, r)'
    <3>1. CASE q \in Members(y) /\ r \in Members(y)
      <4>1. Settled(q, r)
        BY <1>0, <2>5, <3>1 DEF OneInitiator, Settled
      <4>2. (Online(q)' => Online(q)) /\ (Online(r)' => Online(r))
        BY <2>5, <3>1, MembersStay
      <4> QED BY <2>3, <2>4, <3>1, <4>1, <4>2 DEF Settled
    <3>2. CASE q \notin Members(y)
      <4>1. y = x /\ q = p /\ r \in Members(x)
        BY <2>1, <2>5, <3>2
      <4> QED BY <2>3, <2>4, <4>1 DEF Settled
    <3>3. CASE r \notin Members(y)
      <4>1. y = x /\ r = p /\ q \in Members(x)
        BY <2>1, <2>5, <3>3
      <4> QED BY <2>3, <2>4, <4>1 DEF Settled
    <3> QED BY <3>1, <3>2, <3>3
  <2> QED BY <2>5 DEF OneInitiator, Settled
<1>2. ASSUME NEW s \in Sockets, Departs(s) PROVE OneInitiator'
  <2>1. \A y \in Sessions : Members(y)' \subseteq Members(y)
    BY <1>0, <1>2, Departure DEF Departs
  <2>2. told' = told
    BY <1>2 DEF Departs, historyVars
  <2> QED BY <1>0, <2>1, <2>2, MembersStay DEF OneInitiator
<1>3. ASSUME Stays PROVE OneInitiator'
  <2>1. told' = told /\ \A y \in Sessions : Members(y)' = Members(y)
    BY <1>3 DEF Stays, serverVars, historyVars, Members
  <2> QED BY <1>0, <2>1, MembersStay DEF OneInitiator
<1> QED BY <1>1, <1>2, <1>3, Steps

-----------------------------------------------------------------------------
(* The frames                                                                *)

\* What a step may do to an inbox: take its first frame, or add one that stays
\* within its session.
Delivers(s) ==
  \/ inbox'[s] = inbox[s]
  \/ inbox[s] # <<>> /\ inbox'[s] = Tail(inbox[s])
  \/ \E f \in Frames : inbox'[s] = Append(inbox[s], f) /\ WithinSession(f)

LEMMA Deliveries ==
  ASSUME Inv, [Next]_vars
  PROVE  inbox' = [s \in Sockets |-> inbox'[s]] /\ \A s \in Sockets : Delivers(s)
<1>0. /\ TypeOK /\ MapsAgree /\ HistoryAgrees
      /\ inbox = [s \in Sockets |-> inbox[s]]
  BY DEF Inv, TypeOK, ServerTypes, ClientTypes
<1>1. ASSUME NEW p \in Peers
      PROVE  \A f \in {[type |-> "peer-joined", peer |-> p], [type |-> "peer-left", peer |-> p]} :
               f \in Frames /\ WithinSession(f)
  BY <1>1 DEF Frames, WithinSession
<1>2. ASSUME NEW p \in Peers, NEW S \in SUBSET Peers
      PROVE  LET f == [type |-> "joined", peer |-> p, peers |-> S]
             IN  f \in Frames /\ WithinSession(f)
  BY <1>2 DEF Frames, WithinSession
<1>3. ASSUME NEW s \in Sockets, NEW x \in Sessions, NEW p \in Peers, Join(s, x, p)
      PROVE  inbox' = [t \in Sockets |-> inbox'[t]] /\ \A t \in Sockets : Delivers(t)
  <2> DEFINE g == [type |-> "joined", peer |-> p, peers |-> Members(x)]
             h == [type |-> "peer-joined", peer |-> p]
  <2>1. Members(x) \in SUBSET Peers
    BY <1>0 DEF Members, TypeOK, ServerTypes, ClientTypes
  <2>2. /\ g \in Frames /\ WithinSession(g)
        /\ h \in Frames /\ WithinSession(h)
    BY <1>1, <1>2, <2>1
  <2>3. inbox' = [t \in Sockets |->
                    IF t = s THEN Send(t, g)
                    ELSE IF t \in SocketsOf(Members(x)) THEN Send(t, h) ELSE inbox[t]]
    BY <1>3 DEF Join, Announce
  <2> HIDE DEF g, h
  <2> QED BY <2>2, <2>3 DEF Delivers, Send
<1>4. ASSUME NEW s \in Sockets, Depart(s)
      PROVE  inbox' = [t \in Sockets |-> inbox'[t]] /\ \A t \in Sockets : Delivers(t)
  <2>1. CASE socketToPeer[s] = None
    BY <1>0, <1>4, <2>1 DEF Depart, Delivers
  <2>2. CASE socketToPeer[s] # None
    <3> DEFINE p == socketToPeer[s]
               h == [type |-> "peer-left", peer |-> p]
               rest == sessions[peers[p].session] \ {p}
    <3>1. p \in Peers
      BY <1>0, <2>2 DEF TypeOK, ServerTypes, ClientTypes
    <3>2. h \in Frames /\ WithinSession(h)
      BY <1>1, <3>1
    <3>3. inbox' = [t \in Sockets |->
                      IF t \in SocketsOf(rest) THEN Send(t, h) ELSE inbox[t]]
      BY <1>4, <2>2 DEF Depart
    <3> HIDE DEF p, h, rest
    <3> QED BY <3>2, <3>3 DEF Delivers, Send
  <2> QED BY <2>1, <2>2
<1>5. ASSUME NEW s \in Sockets, NEW to \in Peers, Relay(s, to)
      PROVE  inbox' = [t \in Sockets |-> inbox'[t]] /\ \A t \in Sockets : Delivers(t)
  <2> DEFINE p == socketToPeer[s]
             f == [type |-> "relay", peer |-> p, to |-> to]
  <2>1. /\ p \in Peers /\ peers[p] # None /\ peers[to] # None
        /\ peers[to].session = peers[p].session
    BY <1>0, <1>5 DEF Relay, MapsAgree, TypeOK, ServerTypes, ClientTypes
  <2>2. home[p] = home[to] /\ home[to] # None
    <3>1. peers[to].session \in Sessions
      BY <1>0, <2>1 DEF TypeOK, ServerTypes, ClientTypes
    <3> QED BY <1>0, <2>1, <3>1, SignalingAssumption DEF HistoryAgrees
  <2>3. f \in Frames /\ WithinSession(f)
    BY <2>1, <2>2 DEF Frames, WithinSession
  <2>4. inbox' = [inbox EXCEPT ![peers[to].socket] = Send(peers[to].socket, f)]
    BY <1>5 DEF Relay
  <2> HIDE DEF f
  <2> QED BY <1>0, <2>3, <2>4 DEF Delivers, Send
<1>6. ASSUME NEW s \in Sockets, Receive(s)
      PROVE  inbox' = [t \in Sockets |-> inbox'[t]] /\ \A t \in Sockets : Delivers(t)
  BY <1>0, <1>6 DEF Receive, Delivers
<1>7. CASE inbox' = inbox
  BY <1>0, <1>7 DEF Delivers
<1> QED
  BY <1>3, <1>4, <1>5, <1>6, <1>7
  DEF Next, vars, clientVars, Leave, SocketError, SocketClose, JoinRefused

LEMMA TypeStep ==
  ASSUME Inv, [Next]_vars
  PROVE  TypeOK'
<1>0. TypeOK /\ MapsAgree
  BY DEF Inv
<1>1. inbox' \in [Sockets -> Seq(Frames)]
  <2>1. \A s \in Sockets : inbox[s] \in Seq(Frames)
    BY <1>0 DEF TypeOK, ServerTypes, ClientTypes
  <2>2. ASSUME NEW s \in Sockets PROVE inbox'[s] \in Seq(Frames)
    <3>1. CASE inbox[s] # <<>> /\ inbox'[s] = Tail(inbox[s])
      BY <2>1, <3>1
    <3>2. ASSUME NEW f \in Frames, inbox'[s] = Append(inbox[s], f)
          PROVE  inbox'[s] \in Seq(Frames)
      BY <2>1, <3>2
    <3> QED BY <2>1, <3>1, <3>2, Deliveries DEF Delivers
  <2>3. inbox' = [s \in Sockets |-> inbox'[s]]
    BY Deliveries
  <2> DEFINE T == Seq(Frames)
  <2> HIDE DEF T
  <2>4. \A s \in Sockets : inbox'[s] \in T
    BY <2>2 DEF T
  <2>5. inbox' \in [Sockets -> T]
    BY <2>3, <2>4
  <2> QED BY <2>5 DEF T
<1>2. ServerTypes'
  <2>1. ASSUME NEW s \in Sockets, NEW x \in Sessions, NEW p \in Peers, Arrives(s, x, p)
        PROVE  ServerTypes'
    <3>1. Members(x) \in SUBSET Peers
      BY <1>0 DEF Members, TypeOK, ServerTypes
    <3>2. /\ home' = [home EXCEPT ![p] = x]
          /\ told' = [told EXCEPT ![p] = IF conn[s] = "open" THEN Members(x) ELSE {}]
      BY <2>1 DEF Arrives, Register
    <3> QED BY <1>0, <2>1, <3>1, <3>2, Arrival DEF Arrives, TypeOK, ServerTypes
  <2>2. ASSUME NEW s \in Sockets, Departs(s) PROVE ServerTypes'
    BY <1>0, <2>2, Departure DEF Departs, historyVars, TypeOK, ServerTypes
  <2>3. CASE Stays
    BY <1>0, <2>3 DEF Stays, serverVars, historyVars, TypeOK, ServerTypes
  <2> QED BY <2>1, <2>2, <2>3, Steps
<1>3. conn' \in [Sockets -> {"open", "closing", "failed", "closed"}]
  BY <1>0 DEF Next, vars, Join, JoinRefused, Leave, SocketError, SocketClose, Relay, Receive,
              TypeOK, ClientTypes
<1>4. known' \in [Sockets -> SUBSET Peers]
  <2>1. ASSUME NEW s \in Sockets, Receive(s) PROVE known' \in [Sockets -> SUBSET Peers]
    <3>1. Head(inbox[s]) \in Frames /\ known[s] \in SUBSET Peers
      BY <1>0, <2>1 DEF Receive, TypeOK, ClientTypes
    <3>2. Learn(known[s], Head(inbox[s])) \in SUBSET Peers
      BY <3>1 DEF Learn, Frames
    <3> QED BY <1>0, <2>1, <3>2 DEF Receive, TypeOK, ClientTypes
  <2>2. CASE known' = known
    BY <1>0, <2>2 DEF TypeOK, ClientTypes
  <2> QED
    BY <2>1, <2>2 DEF Next, vars, clientVars, Join, JoinRefused, Leave, SocketError,
                      SocketClose, Relay
<1> QED BY <1>1, <1>2, <1>3, <1>4 DEF TypeOK, ClientTypes

LEMMA IsolationStep ==
  ASSUME Inv, [Next]_vars
  PROVE  Isolation'
<1>0. TypeOK /\ Isolation
  BY DEF Inv
<1>1. \A p \in Peers : home[p] # None => home'[p] = home[p]
  <2>1. ASSUME NEW s \in Sockets, NEW x \in Sessions, NEW p \in Peers, Arrives(s, x, p)
        PROVE  \A q \in Peers : home[q] # None => home'[q] = home[q]
    BY <1>0, <2>1 DEF Arrives, Register, TypeOK, ServerTypes
  <2> QED BY <2>1, Steps DEF Departs, Stays, historyVars
<1>2. ASSUME NEW f \in Frames, WithinSession(f) PROVE WithinSession(f)'
  <2>1. CASE f.type = "relay"
    <3>1. f.peer \in Peers /\ f.to \in Peers
      BY <1>2, <2>1 DEF Frames
    <3> QED BY <1>1, <1>2, <2>1, <3>1 DEF WithinSession
  <2>2. CASE f.type # "relay"
    BY <2>2 DEF WithinSession
  <2> QED BY <2>1, <2>2
<1>3. ASSUME NEW s \in Sockets, NEW i \in 1 .. Len(inbox'[s])
      PROVE  inbox'[s][i] \in Frames /\ WithinSession(inbox'[s][i])
  <2>0. /\ inbox[s] \in Seq(Frames)
        /\ \A k \in 1 .. Len(inbox[s]) : WithinSession(inbox[s][k])
    BY <1>0 DEF TypeOK, ClientTypes, Isolation
  <2>1. CASE inbox'[s] = inbox[s]
    BY <1>3, <2>0, <2>1
  <2>2. CASE inbox[s] # <<>> /\ inbox'[s] = Tail(inbox[s])
    <3>1. i + 1 \in 1 .. Len(inbox[s]) /\ inbox'[s][i] = inbox[s][i + 1]
      BY <1>3, <2>0, <2>2
    <3> QED BY <2>0, <3>1
  <2>3. ASSUME NEW f \in Frames, inbox'[s] = Append(inbox[s], f), WithinSession(f)
        PROVE  inbox'[s][i] \in Frames /\ WithinSession(inbox'[s][i])
    <3>1. CASE i \in 1 .. Len(inbox[s])
      <4>1. inbox'[s][i] = inbox[s][i]
        BY <2>0, <2>3, <3>1
      <4> QED BY <2>0, <3>1, <4>1
    <3>2. CASE i = Len(inbox[s]) + 1
      <4>1. inbox'[s][i] = f
        BY <2>0, <2>3, <3>2
      <4> QED BY <2>3, <4>1
    <3>3. i \in 1 .. Len(inbox[s]) \/ i = Len(inbox[s]) + 1
      BY <1>3, <2>0, <2>3
    <3> QED BY <3>1, <3>2, <3>3
  <2> QED BY <2>1, <2>2, <2>3, Deliveries DEF Delivers
<1> QED BY <1>2, <1>3 DEF Isolation

-----------------------------------------------------------------------------
LEMMA Invariance == Spec => []Inv
<1>1. Inv /\ [Next]_vars => Inv'
  BY TypeStep, MapsStep, HistoryStep, CapacityStep, InitiatorStep, IsolationStep DEF Inv
<1> QED BY <1>1, InvInit, PTL DEF Spec

\* Every reachable state has values of the declared types; in particular a
\* session without peers is never kept (signaling.ts:221).
THEOREM SignalingTypes == Spec => []TypeOK
<1>1. Inv => TypeOK
  BY DEF Inv
<1> QED BY <1>1, Invariance, PTL

\* However joins, leaves, errors and closed connections follow each other, the
\* three maps of the server agree (handleDisconnect, signaling.ts:206).
THEOREM ServerMapsAgree == Spec => []MapsAgree
<1>1. Inv => MapsAgree
  BY DEF Inv
<1> QED BY <1>1, Invariance, PTL

\* No session ever holds more peers than maxPeersPerSession (signaling.ts:123).
THEOREM CapacityIsKept == Spec => []WithinCapacity
<1>1. Inv => WithinCapacity
  BY DEF Inv
<1> QED BY <1>1, Invariance, PTL

\* Of any two members of a session never both were told to make the offer, and
\* one was if their connections are open (signaling.ts:142).
THEOREM OffersNeverCross == Spec => []OneInitiator
<1>1. Inv => OneInitiator
  BY DEF Inv
<1> QED BY <1>1, Invariance, PTL

\* A relayed frame, for as long as it is on the way, has a sender and an
\* addressee of one session (signaling.ts:183).
THEOREM RelaysAreIsolated == Spec => []Isolation
<1>1. Inv => Isolation
  BY DEF Inv
<1> QED BY <1>1, Invariance, PTL

LEMMA MembershipStep ==
  ASSUME Inv, Inv', [Next]_vars
  PROVE  [Membership!Next]_(Membership!vars)
<1> DEFINE now == [x \in Sessions |-> Members(x)]
           gone == {p \in Peers : home[p] # None /\ peers[p] = None}
<1>0. TypeOK /\ MapsAgree /\ HistoryAgrees
  BY DEF Inv
<1>1. ASSUME NEW s \in Sockets, NEW x \in Sessions, NEW p \in Peers, Arrives(s, x, p)
      PROVE  Membership!Join(p, x)
  <2>1. /\ peers' = [peers EXCEPT ![p] = [session |-> x, socket |-> s]]
        /\ peers'[p] # None
        /\ \A y \in Sessions :
             Members(y)' = IF y = x THEN Members(x) \cup {p} ELSE Members(y)
    BY <1>0, <1>1, Arrival DEF Arrives
  <2>2. home[p] = None /\ home' = [home EXCEPT ![p] = x]
    BY <1>1 DEF Arrives, Register
  <2>3. peers[p] = None
    BY <1>0, <2>2, SignalingAssumption DEF HistoryAgrees, TypeOK, ServerTypes
  <2>4. \A y \in Sessions : p \notin now[y]
    BY <1>0, <2>3 DEF MapsAgree, Members
  <2>5. Cardinality(now[x]) < MaxPeers
    BY <1>1 DEF Arrives
  <2>6. now' = [now EXCEPT ![x] = @ \cup {p}]
    BY <2>1
  <2>7. gone' = gone
    <3>1. \A q \in Peers \ {p} : home'[q] = home[q] /\ peers'[q] = peers[q]
      BY <1>0, <2>1, <2>2 DEF TypeOK, ServerTypes
    <3> QED BY <2>1, <2>2, <3>1
  <2>8. p \notin gone
    BY <2>2
  <2>9. Membership!Cardinality(now[x]) = Cardinality(now[x])
    BY DEF Membership!Cardinality, Cardinality
  <2> QED BY <2>4, <2>5, <2>6, <2>7, <2>8, <2>9 DEF Membership!Join
<1>2. ASSUME NEW s \in Sockets, Departs(s)
      PROVE  \E p \in Peers, x \in Sessions : Membership!Leave(p, x)
  <2>1. PICK p \in Peers, x \in Sessions :
          /\ p = socketToPeer[s] /\ x = peers[p].session
          /\ peers[p] = [session |-> x, socket |-> s]
          /\ sessions[x] # None /\ p \in sessions[x]
    BY <1>0, <1>2, Entry DEF Departs
  <2>2. /\ peers' = [peers EXCEPT ![p] = None]
        /\ \A y \in Sessions :
             Members(y)' = IF y = x THEN Members(x) \ {p} ELSE Members(y)
    BY <1>0, <1>2, <2>1, Departure DEF Departs
  <2>3. home' = home
    BY <1>2 DEF Departs, historyVars
  <2>4. home[p] # None
    BY <1>0, <2>1, SignalingAssumption DEF MapsAgree, HistoryAgrees, Departs
  <2>5. p \in now[x]
    BY <2>1 DEF Members
  <2>6. now' = [now EXCEPT ![x] = @ \ {p}]
    BY <2>2
  <2>7. gone' = gone \cup {p}
    BY <1>0, <2>1, <2>2, <2>3, <2>4 DEF TypeOK, ServerTypes
  <2>8. Membership!Leave(p, x)
    BY <2>5, <2>6, <2>7 DEF Membership!Leave
  <2> QED BY <2>8
<1>3. ASSUME Stays PROVE UNCHANGED Membership!vars
  BY <1>3 DEF Stays, serverVars, historyVars, Members, Membership!vars
<1> QED BY <1>1, <1>2, <1>3, Steps DEF Membership!Next

\* The server implements the membership specification: each of its steps is one
\* peer joining, one peer leaving for good, or neither.
THEOREM SignalingImplementsMembership == Spec => ImplementsMembership
<1>1. Init => Membership!Init
  BY DEF Init, Members, Membership!Init
<1>2. Inv /\ Inv' /\ [Next]_vars => [Membership!Next]_(Membership!vars)
  BY MembershipStep
<1> QED BY <1>1, <1>2, Invariance, PTL DEF Spec, ImplementsMembership, Membership!Spec

-----------------------------------------------------------------------------
(* What clients make of the frames.  Rosters is a recursive function; that   *)
(* one with its equations exists is shown by a closed form: a peer is in the *)
(* roster after n frames if the last of them that adds it is followed by no  *)
(* frame that removes it.  What else is said of it is shown by induction,    *)
(* which the least-element principle for sets of naturals gives.             *)

\* Induction over the naturals, for the elements of a set.
LEMMA Induction ==
  ASSUME NEW S, 0 \in S, \A n \in Nat : n \in S => n + 1 \in S
  PROVE  Nat \subseteq S
<1> SUFFICES ASSUME ~(Nat \subseteq S) PROVE FALSE
  OBVIOUS
<1> DEFINE T == Nat \ S
           R == OpToRel(<, Nat)
<1>1. T # {} /\ T \subseteq Nat
  OBVIOUS
<1>2. IsWellFoundedOn(R, Nat)
  BY NatLessThanWellFounded
<1>a. \A x, y \in Nat : <<x, y>> \in R <=> x < y
  BY DEF OpToRel
<1> HIDE DEF T, R
<1>3. PICK x \in T : \A y \in T : ~ (<<y, x>> \in R)
  BY <1>1, <1>2, WFMin
<1>4. x \in Nat /\ x # 0 /\ x \notin S
  BY <1>1, <1>3 DEF T
<1>5. x - 1 \in Nat /\ x - 1 < x /\ (x - 1) + 1 = x
  BY <1>4
<1>6. x - 1 \in T
  BY <1>4, <1>5 DEF T
<1> QED BY <1>3, <1>4, <1>5, <1>6, <1>a

\* What a frame does to a roster, for one peer.
Adds(f, p) ==
  \/ f.type = "joined" /\ p \in f.peers
  \/ f.type = "peer-joined" /\ f.peer = p

Removes(f, p) ==
  \/ f.type = "joined" /\ p \notin f.peers
  \/ f.type = "peer-left" /\ f.peer = p

LEMMA Learning ==
  ASSUME NEW roster \in SUBSET Peers, NEW f \in Frames
  PROVE  /\ Learn(roster, f) \in SUBSET Peers
         /\ \A p \in Peers :
              p \in Learn(roster, f) <=> Adds(f, p) \/ (p \in roster /\ ~Removes(f, p))
BY DEF Learn, Frames, Adds, Removes

LEMMA RostersDefined ==
  ASSUME NEW roster \in SUBSET Peers, NEW frames \in Seq(Frames)
  PROVE  /\ Rosters(roster, frames) \in [0 .. Len(frames) -> SUBSET Peers]
         /\ Rosters(roster, frames)[0] = roster
         /\ \A n \in 1 .. Len(frames) :
              Rosters(roster, frames)[n] = Learn(Rosters(roster, frames)[n - 1], frames[n])
<1> DEFINE N == Len(frames)
           Kept(p, m, n) == \A k \in (m + 1) .. n : ~Removes(frames[k], p)
           In(p, n) == \/ p \in roster /\ Kept(p, 0, n)
                       \/ \E m \in 1 .. n : Adds(frames[m], p) /\ Kept(p, m, n)
           at == [n \in 0 .. N |-> {p \in Peers : In(p, n)}]
           Def(g) == [n \in 0 .. N |-> IF n = 0 THEN roster ELSE Learn(g[n - 1], frames[n])]
<1>0. N \in Nat /\ \A n \in 1 .. N : frames[n] \in Frames
  OBVIOUS
<1>1. at[0] = roster
  <2>1. \A p \in Peers : In(p, 0) <=> p \in roster
    OBVIOUS
  <2> QED BY <2>1, <1>0
<1>2. ASSUME NEW n \in 1 .. N PROVE at[n] = Learn(at[n - 1], frames[n])
  <2>1. n - 1 \in 0 .. N /\ n \in 0 .. N /\ at[n - 1] \in SUBSET Peers /\ at[n] \in SUBSET Peers
    BY <1>0
  <2>2. ASSUME NEW p \in Peers
        PROVE  In(p, n) <=> Adds(frames[n], p) \/ (In(p, n - 1) /\ ~Removes(frames[n], p))
    <3>1. ASSUME NEW m \in 0 .. (n - 1)
          PROVE  Kept(p, m, n) <=> Kept(p, m, n - 1) /\ ~Removes(frames[n], p)
      <4>1. \A k : k \in (m + 1) .. n <=> k \in (m + 1) .. (n - 1) \/ k = n
        BY <1>0
      <4> QED BY <4>1
    <3>2. Kept(p, n, n)
      BY <1>0
    <3>3. \A m : m \in 1 .. n <=> m \in 1 .. (n - 1) \/ m = n
      BY <1>0
    <3> HIDE DEF Kept
    <3> QED BY <3>1, <3>2, <3>3, <1>0
  <2>3. \A p \in Peers : (p \in at[n] <=> In(p, n)) /\ (p \in at[n - 1] <=> In(p, n - 1))
    BY <2>1
  <2> HIDE DEF In, at
  <2>4. \A p \in Peers : p \in at[n] <=> p \in Learn(at[n - 1], frames[n])
    BY <1>0, <2>1, <2>2, <2>3, Learning
  <2>5. Learn(at[n - 1], frames[n]) \in SUBSET Peers
    BY <1>0, <2>1, Learning
  <2> QED BY <2>1, <2>4, <2>5
<1>3. at = Def(at)
  <2>1. at = [n \in 0 .. N |-> at[n]]
    OBVIOUS
  <2> HIDE DEF at
  <2>2. \A n \in 0 .. N : at[n] = IF n = 0 THEN roster ELSE Learn(at[n - 1], frames[n])
    BY <1>0, <1>1, <1>2
  <2> QED BY <2>1, <2>2
<1>4. Rosters(roster, frames) = CHOOSE g : g = Def(g)
  BY DEF Rosters
<1> HIDE DEF at
<1>5. Rosters(roster, frames) = Def(Rosters(roster, frames))
  <2> HIDE DEF Def
  <2> QED BY <1>3, <1>4
<1> DEFINE r == Rosters(roster, frames)
<1>6. /\ r = [n \in 0 .. N |-> r[n]]
      /\ r[0] = roster
      /\ \A n \in 1 .. N : r[n] = Learn(r[n - 1], frames[n])
  BY <1>0, <1>5
<1> HIDE DEF r
<1>7. \A n \in 0 .. N : r[n] \in SUBSET Peers
  <2> DEFINE S == {n \in Nat : n <= N => r[n] \in SUBSET Peers}
  <2>1. 0 \in S
    BY <1>6
  <2>2. ASSUME NEW n \in Nat, n \in S PROVE n + 1 \in S
    <3> SUFFICES ASSUME n + 1 <= N PROVE r[n + 1] \in SUBSET Peers
      OBVIOUS
    <3>1. n + 1 \in 1 .. N /\ (n + 1) - 1 = n /\ r[n] \in SUBSET Peers
      BY <1>0, <2>2
    <3>2. r[n + 1] = Learn(r[n], frames[n + 1])
      BY <1>6, <3>1
    <3> QED BY <1>0, <3>1, <3>2, Learning
  <2> HIDE DEF S
  <2>3. Nat \subseteq S
    BY <2>1, <2>2, Induction
  <2> QED BY <1>0, <2>3 DEF S
<1>8. r \in [0 .. N -> SUBSET Peers]
  BY <1>6, <1>7
<1> QED BY <1>6, <1>8 DEF r

\* One more frame at the end leaves what a client makes of the earlier ones.
LEMMA RostersAppend ==
  ASSUME NEW roster \in SUBSET Peers, NEW frames \in Seq(Frames), NEW f \in Frames
  PROVE  LET old == Rosters(roster, frames)
             new == Rosters(roster, Append(frames, f))
             N == Len(frames)
         IN  /\ \A n \in 0 .. N : new[n] = old[n]
             /\ new[N + 1] = Learn(old[N], f)
<1> DEFINE N == Len(frames)
           longer == Append(frames, f)
           old == Rosters(roster, frames)
           new == Rosters(roster, longer)
<1>1. /\ N \in Nat /\ longer \in Seq(Frames) /\ Len(longer) = N + 1
      /\ longer[N + 1] = f /\ \A n \in 1 .. N : longer[n] = frames[n]
  OBVIOUS
<1>2. /\ old[0] = roster /\ new[0] = roster
      /\ \A n \in 1 .. N : old[n] = Learn(old[n - 1], frames[n])
      /\ \A n \in 1 .. (N + 1) : new[n] = Learn(new[n - 1], longer[n])
  <2>1. old[0] = roster /\ \A n \in 1 .. N : old[n] = Learn(old[n - 1], frames[n])
    BY RostersDefined
  <2> HIDE DEF longer
  <2>2. new[0] = roster /\ \A n \in 1 .. Len(longer) : new[n] = Learn(new[n - 1], longer[n])
    BY <1>1, RostersDefined
  <2> QED BY <1>1, <2>1, <2>2
<1> HIDE DEF longer, old, new
<1>3. \A n \in 0 .. N : new[n] = old[n]
  <2> DEFINE S == {n \in Nat : n <= N => new[n] = old[n]}
  <2>1. 0 \in S
    BY <1>2
  <2>2. ASSUME NEW n \in Nat, n \in S PROVE n + 1 \in S
    <3> SUFFICES ASSUME n + 1 <= N PROVE new[n + 1] = old[n + 1]
      OBVIOUS
    <3>1. /\ n + 1 \in 1 .. N /\ n + 1 \in 1 .. (N + 1) /\ (n + 1) - 1 = n
          /\ new[n] = old[n]
      BY <1>1, <2>2
    <3> QED BY <1>1, <1>2, <3>1
  <2> HIDE DEF S
  <2>3. Nat \subseteq S
    BY <2>1, <2>2, Induction
  <2> QED BY <1>1, <2>3 DEF S
<1>4. new[N + 1] = Learn(old[N], f)
  <2>1. N + 1 \in 1 .. (N + 1) /\ (N + 1) - 1 = N /\ N \in 0 .. N
    BY <1>1
  <2> QED BY <1>1, <1>2, <1>3, <2>1
<1> QED BY <1>3, <1>4 DEF longer, old, new

\* Reading the first frame leaves what a client makes of the later ones.
LEMMA RostersTail ==
  ASSUME NEW roster \in SUBSET Peers, NEW frames \in Seq(Frames), frames # <<>>
  PROVE  LET new == Rosters(Learn(roster, Head(frames)), Tail(frames))
         IN  \A n \in 0 .. Len(frames) - 1 : new[n] = Rosters(roster, frames)[n + 1]
<1> DEFINE N == Len(frames)
           rest == Tail(frames)
           next == Learn(roster, Head(frames))
           old == Rosters(roster, frames)
           new == Rosters(next, rest)
<1>1. /\ N \in Nat /\ N > 0 /\ rest \in Seq(Frames) /\ Len(rest) = N - 1
      /\ Head(frames) = frames[1] /\ Head(frames) \in Frames
      /\ \A n \in 1 .. (N - 1) : rest[n] = frames[n + 1]
  OBVIOUS
<1>2. next \in SUBSET Peers
  BY <1>1, Learning
<1>3. /\ old[0] = roster /\ new[0] = next
      /\ \A n \in 1 .. N : old[n] = Learn(old[n - 1], frames[n])
      /\ \A n \in 1 .. (N - 1) : new[n] = Learn(new[n - 1], rest[n])
  <2>1. old[0] = roster /\ \A n \in 1 .. N : old[n] = Learn(old[n - 1], frames[n])
    BY RostersDefined
  <2> HIDE DEF rest, next
  <2>2. new[0] = next /\ \A n \in 1 .. Len(rest) : new[n] = Learn(new[n - 1], rest[n])
    BY <1>1, <1>2, RostersDefined
  <2> QED BY <1>1, <2>1, <2>2
<1>4. new[0] = old[1]
  BY <1>1, <1>3
<1> HIDE DEF rest, next, old, new
<1> DEFINE S == {n \in Nat : n <= N - 1 => new[n] = old[n + 1]}
<1>5. 0 \in S
  BY <1>4
<1>6. ASSUME NEW n \in Nat, n \in S PROVE n + 1 \in S
  <2> SUFFICES ASSUME n + 1 <= N - 1 PROVE new[n + 1] = old[(n + 1) + 1]
    OBVIOUS
  <2>1. /\ n + 1 \in 1 .. (N - 1) /\ (n + 1) - 1 = n /\ new[n] = old[n + 1]
        /\ (n + 1) + 1 \in 1 .. N /\ ((n + 1) + 1) - 1 = n + 1
    BY <1>1, <1>6
  <2> QED BY <1>1, <1>3, <2>1
<1> HIDE DEF S
<1>7. Nat \subseteq S
  BY <1>5, <1>6, Induction
<1>8. \A n \in 0 .. N - 1 : new[n] = old[n + 1]
  BY <1>1, <1>7 DEF S
<1> QED BY <1>8 DEF rest, next, old, new

-----------------------------------------------------------------------------
\* The roster of a client once everything on the way has been read.
FinalRoster(s) == Roster(s, Len(inbox[s]))

\* What a step may do to the frames and the roster of one client.
Untouched(s) == inbox'[s] = inbox[s] /\ known'[s] = known[s]

Reads(s) ==
  /\ inbox[s] # <<>>
  /\ inbox'[s] = Tail(inbox[s])
  /\ known'[s] = Learn(known[s], Head(inbox[s]))

Hears(s, f) == inbox'[s] = Append(inbox[s], f) /\ known'[s] = known[s]

\* Reading changes nothing of the roster a client ends up with, and a new frame
\* has its effect on it at once.
LEMMA FinalRosters ==
  ASSUME TypeOK, NEW s \in Sockets
  PROVE  /\ FinalRoster(s) \in SUBSET Peers
         /\ Untouched(s) \/ Reads(s) => FinalRoster(s)' = FinalRoster(s)
         /\ \A f \in Frames : Hears(s, f) => FinalRoster(s)' = Learn(FinalRoster(s), f)
<1>1. inbox[s] \in Seq(Frames) /\ known[s] \in SUBSET Peers
  BY DEF TypeOK, ClientTypes
<1>2. FinalRoster(s) \in SUBSET Peers
  <2>1. Len(inbox[s]) \in 0 .. Len(inbox[s])
    BY <1>1
  <2> QED BY <1>1, <2>1, RostersDefined DEF FinalRoster, Roster
<1>3. ASSUME Untouched(s) PROVE FinalRoster(s)' = FinalRoster(s)
  BY <1>3 DEF Untouched, FinalRoster, Roster
<1>4. ASSUME Reads(s) PROVE FinalRoster(s)' = FinalRoster(s)
  <2>1. /\ Len(Tail(inbox[s])) = Len(inbox[s]) - 1
        /\ Len(inbox[s]) - 1 \in 0 .. (Len(inbox[s]) - 1)
        /\ (Len(inbox[s]) - 1) + 1 = Len(inbox[s])
    BY <1>1, <1>4 DEF Reads
  <2>2. Rosters(Learn(known[s], Head(inbox[s])), Tail(inbox[s]))[Len(inbox[s]) - 1]
          = Rosters(known[s], inbox[s])[Len(inbox[s])]
    BY <1>1, <1>4, <2>1, RostersTail DEF Reads
  <2> QED BY <1>4, <2>1, <2>2 DEF Reads, FinalRoster, Roster
<1>5. ASSUME NEW f \in Frames, Hears(s, f)
      PROVE  FinalRoster(s)' = Learn(FinalRoster(s), f)
  <2>1. Len(Append(inbox[s], f)) = Len(inbox[s]) + 1
    BY <1>1
  <2>2. Rosters(known[s], Append(inbox[s], f))[Len(inbox[s]) + 1]
          = Learn(Rosters(known[s], inbox[s])[Len(inbox[s])], f)
    BY <1>1, RostersAppend
  <2> QED BY <1>5, <2>1, <2>2 DEF Hears, FinalRoster, Roster
<1> QED BY <1>2, <1>3, <1>4, <1>5

\* The peer of a joined socket is a member of its session, and it is the only
\* member with that socket.
LEMMA JoinedSocket ==
  ASSUME TypeOK, MapsAgree, NEW t \in Sockets, socketToPeer[t] # None,
         NEW x \in Sessions
  PROVE  LET q == socketToPeer[t]
         IN  /\ q \in Peers /\ peers[q].session \in Sessions
             /\ q \in Members(peers[q].session)
             /\ peers[q] # None /\ peers[q].socket = t
             /\ t \in SocketsOf(Members(x)) <=> peers[q].session = x
<1> DEFINE q == socketToPeer[t]
<1>1. /\ q \in Peers /\ peers[q].session \in Sessions
      /\ q \in Members(peers[q].session) /\ peers[q].socket = t /\ peers[q] # None
  BY Entry DEF MapsAgree, Members
<1>2. ASSUME t \in SocketsOf(Members(x)) PROVE peers[q].session = x
  <2>1. PICK r \in Members(x) : peers[r] # None /\ peers[r].socket = t
    BY <1>2 DEF SocketsOf
  <2>2. r \in Peers /\ peers[r].session = x
    BY <2>1 DEF Members, MapsAgree, TypeOK, ServerTypes
  <2>3. socketToPeer[t] = r
    BY <2>1, <2>2 DEF MapsAgree
  <2> QED BY <2>2, <2>3
<1>3. ASSUME peers[q].session = x PROVE t \in SocketsOf(Members(x))
  BY <1>1, <1>3 DEF SocketsOf
<1> QED BY <1>1, <1>2, <1>3

LEMMA ConvergeStep ==
  ASSUME Inv, RostersConverge, [Next]_vars
  PROVE  RostersConverge'
<1> SUFFICES ASSUME NEW t \in Sockets, conn'[t] = "open", socketToPeer'[t] # None
             PROVE  FinalRoster(t)' =
                      Members(peers[socketToPeer[t]].session)' \ {socketToPeer'[t]}
  BY DEF RostersConverge, FinalRoster
<1> DEFINE q == socketToPeer[t]
           y == peers[q].session
<1>0. TypeOK /\ MapsAgree /\ HistoryAgrees
  BY DEF Inv
<1>1. ASSUME conn[t] = "open", q # None PROVE FinalRoster(t) = Members(y) \ {q}
  BY <1>1 DEF RostersConverge, FinalRoster
<1>2. ASSUME NEW s \in Sockets, NEW x \in Sessions, NEW p \in Peers, Join(s, x, p)
      PROVE  FinalRoster(t)' =
               Members(peers[socketToPeer[t]].session)' \ {socketToPeer'[t]}
  <2> DEFINE g == [type |-> "joined", peer |-> p, peers |-> Members(x)]
             h == [type |-> "peer-joined", peer |-> p]
  <2>1. Register(s, x, p) /\ conn' = conn /\ known' = known /\ home[p] = None
    BY <1>2 DEF Join
  <2>2. /\ socketToPeer' = [socketToPeer EXCEPT ![s] = p]
        /\ peers' = [peers EXCEPT ![p] = [session |-> x, socket |-> s]]
        /\ \A z \in Sessions :
             Members(z)' = IF z = x THEN Members(x) \cup {p} ELSE Members(z)
    BY <1>0, <2>1, Arrival
  <2>3. Members(x) \in SUBSET Peers /\ g \in Frames /\ h \in Frames
    BY <1>0 DEF Members, TypeOK, ServerTypes, Frames
  <2>4. peers[p] = None
    BY <1>0, <2>1, SignalingAssumption DEF HistoryAgrees, TypeOK, ServerTypes
  <2>5. \A z \in Sessions : p \notin Members(z)
    BY <1>0, <2>4 DEF MapsAgree, Members
  <2>6. inbox'[t] = IF t = s THEN Append(inbox[t], g)
                    ELSE IF t \in SocketsOf(Members(x)) THEN Append(inbox[t], h)
                    ELSE inbox[t]
    BY <1>2, <2>1 DEF Join, Announce, Send
  <2>7. CASE t = s
    <3>1. FinalRoster(t)' = Learn(FinalRoster(t), g)
      BY <1>0, <2>1, <2>3, <2>6, <2>7, FinalRosters DEF Hears
    <3>2. Learn(FinalRoster(t), g) = Members(x)
      BY DEF Learn
    <3>3. socketToPeer'[t] = p /\ peers'[p].session = x
      BY <1>0, <2>2, <2>7 DEF TypeOK, ServerTypes
    <3> QED BY <2>2, <2>5, <3>1, <3>2, <3>3
  <2>8. CASE t # s
    <3>1. socketToPeer'[t] = q /\ q # None
      BY <1>0, <2>2, <2>8 DEF TypeOK, ServerTypes
    <3>2. /\ q \in Peers /\ y \in Sessions /\ q \in Members(y)
          /\ t \in SocketsOf(Members(x)) <=> y = x
      BY <1>0, <3>1, JoinedSocket
    <3>3. peers'[q] = peers[q] /\ q # p
      BY <1>0, <2>2, <2>5, <3>2 DEF TypeOK, ServerTypes
    <3>4. FinalRoster(t) = Members(y) \ {q}
      BY <1>1, <2>1, <3>1
    <3>5. CASE y = x
      <4>1. FinalRoster(t)' = Learn(FinalRoster(t), h)
        BY <1>0, <2>1, <2>3, <2>6, <2>8, <3>2, <3>5, FinalRosters DEF Hears
      <4>2. Learn(FinalRoster(t), h) = FinalRoster(t) \cup {p}
        BY DEF Learn
      <4> QED BY <2>2, <3>1, <3>3, <3>4, <3>5, <4>1, <4>2
    <3>6. CASE y # x
      <4>1. FinalRoster(t)' = FinalRoster(t)
        BY <1>0, <2>1, <2>6, <2>8, <3>2, <3>6, FinalRosters DEF Untouched
      <4> QED BY <2>2, <3>1, <3>2, <3>3, <3>4, <3>6, <4>1
    <3> QED BY <3>5, <3>6
  <2> QED BY <2>7, <2>8
<1>3. ASSUME UNCHANGED serverVars, conn[t] = "open", FinalRoster(t)' = FinalRoster(t)
      PROVE  FinalRoster(t)' =
               Members(peers[socketToPeer[t]].session)' \ {socketToPeer'[t]}
  BY <1>1, <1>3 DEF serverVars, Members
<1>4. ASSUME NEW s \in Sockets, Depart(s), known' = known, conn[t] = "open"
      PROVE  FinalRoster(t)' =
               Members(peers[socketToPeer[t]].session)' \ {socketToPeer'[t]}
  <2>1. CASE socketToPeer[s] = None
    <3>1. Untouched(t) /\ UNCHANGED serverVars
      BY <1>4, <2>1 DEF Depart, Untouched
    <3> QED BY <1>0, <1>3, <1>4, <3>1, FinalRosters
  <2>2. CASE socketToPeer[s] # None
    <3> DEFINE p == socketToPeer[s]
               x == peers[p].session
               h == [type |-> "peer-left", peer |-> p]
    <3>1. /\ socketToPeer' = [socketToPeer EXCEPT ![s] = None]
          /\ peers' = [peers EXCEPT ![p] = None]
          /\ \A z \in Sessions :
               Members(z)' = IF z = x THEN Members(x) \ {p} ELSE Members(z)
      BY <1>0, <1>4, <2>2, Departure
    <3>2. t # s /\ socketToPeer'[t] = q /\ q # None
      BY <1>0, <3>1 DEF TypeOK, ServerTypes
    <3>3. /\ p \in Peers /\ x \in Sessions /\ p \in Members(x) /\ peers[p].socket = s
          /\ sessions[x] = Members(x)
      <4>1. /\ p \in Peers /\ x \in Sessions /\ peers[p] = [session |-> x, socket |-> s]
            /\ sessions[x] # None /\ p \in sessions[x]
        BY <1>0, <2>2, Entry
      <4> QED BY <4>1 DEF Members
    <3>4. /\ q \in Peers /\ y \in Sessions /\ q \in Members(y)
          /\ peers[q] # None /\ peers[q].socket = t
          /\ t \in SocketsOf(Members(x)) <=> y = x
      BY <1>0, <3>2, <3>3, JoinedSocket
    <3>5. q # p /\ peers'[q] = peers[q]
      BY <1>0, <3>1, <3>2, <3>3, <3>4 DEF TypeOK, ServerTypes
    <3>6. t \in SocketsOf(Members(x) \ {p}) <=> y = x
      <4>1. y = x => t \in SocketsOf(Members(x) \ {p})
        BY <3>4, <3>5 DEF SocketsOf
      <4>2. t \in SocketsOf(Members(x) \ {p}) => t \in SocketsOf(Members(x))
        BY DEF SocketsOf
      <4> QED BY <3>4, <4>1, <4>2
    <3>7. inbox'[t] = IF t \in SocketsOf(Members(x) \ {p}) THEN Append(inbox[t], h)
                      ELSE inbox[t]
      BY <1>4, <2>2, <3>3 DEF Depart, Send
    <3>8. FinalRoster(t) = Members(y) \ {q}
      BY <1>1, <1>4, <3>2
    <3>9. CASE y = x
      <4>1. h \in Frames
        BY <3>3 DEF Frames
      <4>2. FinalRoster(t)' = Learn(FinalRoster(t), h)
        BY <1>0, <1>4, <3>6, <3>7, <3>9, <4>1, FinalRosters DEF Hears
      <4>3. Learn(FinalRoster(t), h) = FinalRoster(t) \ {p}
        BY DEF Learn
      <4> QED BY <3>1, <3>2, <3>4, <3>5, <3>8, <3>9, <4>2, <4>3
    <3>10. CASE y # x
      <4>1. FinalRoster(t)' = FinalRoster(t)
        BY <1>0, <1>4, <3>6, <3>7, <3>10, FinalRosters DEF Untouched
      <4> QED BY <3>1, <3>2, <3>4, <3>5, <3>8, <3>10, <4>1
    <3> QED BY <3>9, <3>10
  <2> QED BY <2>1, <2>2
<1>5. ASSUME NEW s \in Sockets, Leave(s) \/ SocketError(s) \/ SocketClose(s)
      PROVE  Depart(s) /\ known' = known /\ conn[t] = "open"
  BY <1>0, <1>5 DEF Leave, SocketError, SocketClose, TypeOK, ClientTypes
<1>6. ASSUME NEW s \in Sockets, NEW x \in Sessions, JoinRefused(s, x)
      PROVE  /\ UNCHANGED serverVars /\ conn[t] = "open" /\ Untouched(t)
  BY <1>0, <1>6 DEF JoinRefused, clientVars, Untouched, TypeOK, ClientTypes
<1>7. ASSUME NEW s \in Sockets, NEW to \in Peers, Relay(s, to)
      PROVE  FinalRoster(t)' = FinalRoster(t)
  <2> DEFINE f == [type |-> "relay", peer |-> socketToPeer[s], to |-> to]
  <2>1. f \in Frames
    BY <1>0, <1>7 DEF Relay, Frames, TypeOK, ServerTypes
  <2>2. Hears(t, f) \/ Untouched(t)
    BY <1>0, <1>7 DEF Relay, Send, Hears, Untouched, TypeOK, ClientTypes
  <2>3. Learn(FinalRoster(t), f) = FinalRoster(t)
    BY DEF Learn
  <2> HIDE DEF f
  <2> QED BY <1>0, <2>1, <2>2, <2>3, FinalRosters
<1>8. ASSUME NEW s \in Sockets, Receive(s) PROVE Reads(t) \/ Untouched(t)
  BY <1>0, <1>8 DEF Receive, Reads, Untouched, TypeOK, ClientTypes
<1>9. ASSUME NEW s \in Sockets, Receive(s) \/ \E to \in Peers : Relay(s, to)
      PROVE  UNCHANGED serverVars /\ conn[t] = "open"
  BY <1>9 DEF Receive, Relay
<1>10. CASE UNCHANGED vars
  <2>1. UNCHANGED serverVars /\ conn[t] = "open" /\ Untouched(t)
    BY <1>10 DEF vars, clientVars, Untouched
  <2> QED BY <1>0, <1>3, <2>1, FinalRosters
<1>11. CASE Next
  <2>1. CASE \E s \in Sockets : Leave(s) \/ SocketError(s) \/ SocketClose(s)
    BY <1>4, <1>5, <2>1
  <2>2. CASE \E s \in Sockets, x \in Sessions : JoinRefused(s, x)
    BY <1>0, <1>3, <1>6, <2>2, FinalRosters
  <2>3. CASE \E s \in Sockets, to \in Peers : Relay(s, to)
    BY <1>3, <1>7, <1>9, <2>3
  <2>4. CASE \E s \in Sockets : Receive(s)
    BY <1>0, <1>3, <1>8, <1>9, <2>4, FinalRosters
  <2> QED BY <1>2, <1>11, <2>1, <2>2, <2>3, <2>4 DEF Next
<1> QED BY <1>10, <1>11

-----------------------------------------------------------------------------
\* A relayed frame is on its way to a client that has heard of its sender.
RelayAnnounced(s, i) ==
  inbox[s][i].type = "relay" =>
    inbox[s][i].peer \in Roster(s, i - 1) \cup {inbox[s][i].to}

AllAnnounced ==
  \A s \in Sockets : \A i \in 1 .. Len(inbox[s]) : RelayAnnounced(s, i)

\* A frame that keeps it so when it is sent.
Harmless(s, f) == f.type = "relay" => f.peer \in FinalRoster(s) \cup {f.to}

\* What a step leaves of the announcements at one client.
LEMMA StillAnnounced ==
  ASSUME TypeOK, NEW s \in Sockets, \A i \in 1 .. Len(inbox[s]) : RelayAnnounced(s, i),
         \/ Untouched(s) \/ Reads(s)
         \/ \E f \in Frames : Hears(s, f) /\ Harmless(s, f)
  PROVE  (\A i \in 1 .. Len(inbox[s]) : RelayAnnounced(s, i))'
<1>1. inbox[s] \in Seq(Frames) /\ known[s] \in SUBSET Peers
  BY DEF TypeOK, ClientTypes
<1>2. CASE Untouched(s)
  BY <1>2 DEF Untouched, RelayAnnounced, Roster
<1>3. CASE Reads(s)
  <2> SUFFICES ASSUME NEW i \in 1 .. Len(inbox'[s]) PROVE RelayAnnounced(s, i)'
    OBVIOUS
  <2>1. /\ i + 1 \in 1 .. Len(inbox[s]) /\ i - 1 \in 0 .. (Len(inbox[s]) - 1)
        /\ inbox'[s][i] = inbox[s][i + 1] /\ (i + 1) - 1 = i /\ (i - 1) + 1 = i
    BY <1>1, <1>3 DEF Reads
  <2>2. Rosters(Learn(known[s], Head(inbox[s])), Tail(inbox[s]))[i - 1]
          = Rosters(known[s], inbox[s])[i]
    BY <1>1, <1>3, <2>1, RostersTail DEF Reads
  <2>3. Roster(s, i - 1)' = Roster(s, i)
    BY <1>3, <2>2 DEF Reads, Roster
  <2>4. RelayAnnounced(s, i + 1)
    BY <2>1
  <2> QED BY <2>1, <2>3, <2>4 DEF RelayAnnounced
<1>4. ASSUME NEW f \in Frames, Hears(s, f), Harmless(s, f)
      PROVE  (\A i \in 1 .. Len(inbox[s]) : RelayAnnounced(s, i))'
  <2> SUFFICES ASSUME NEW i \in 1 .. Len(inbox'[s]) PROVE RelayAnnounced(s, i)'
    OBVIOUS
  <2>1. /\ Len(inbox'[s]) = Len(inbox[s]) + 1 /\ Len(inbox[s]) \in Nat
        /\ inbox'[s][Len(inbox[s]) + 1] = f
        /\ \A n \in 1 .. Len(inbox[s]) : inbox'[s][n] = inbox[s][n]
    BY <1>1, <1>4 DEF Hears
  <2>2. \A n \in 0 .. Len(inbox[s]) : Roster(s, n)' = Roster(s, n)
    BY <1>1, <1>4, RostersAppend DEF Hears, Roster
  <2>3. i - 1 \in 0 .. Len(inbox[s])
    BY <2>1
  <2>4. CASE i \in 1 .. Len(inbox[s])
    BY <2>1, <2>2, <2>3, <2>4 DEF RelayAnnounced
  <2>5. CASE i = Len(inbox[s]) + 1
    <3>1. i - 1 = Len(inbox[s]) /\ inbox'[s][i] = f
      BY <2>1, <2>5
    <3>2. Roster(s, i - 1)' = FinalRoster(s)
      BY <2>2, <2>3, <3>1 DEF FinalRoster
    <3> QED BY <1>4, <3>1, <3>2 DEF RelayAnnounced, Harmless
  <2> QED BY <2>1, <2>4, <2>5
<1> QED BY <1>2, <1>3, <1>4

LEMMA AnnouncedStep ==
  ASSUME Inv, RostersConverge, AllAnnounced, [Next]_vars
  PROVE  AllAnnounced'
<1> SUFFICES ASSUME NEW t \in Sockets
             PROVE  (\A i \in 1 .. Len(inbox[t]) : RelayAnnounced(t, i))'
  BY DEF AllAnnounced
<1>0. TypeOK /\ MapsAgree
  BY DEF Inv
<1> SUFFICES \/ Untouched(t) \/ Reads(t) \/ \E f \in Frames : Hears(t, f) /\ Harmless(t, f)
  BY <1>0, StillAnnounced DEF AllAnnounced
<1>1. ASSUME NEW s \in Sockets, NEW x \in Sessions, NEW p \in Peers, Join(s, x, p)
      PROVE  Untouched(t) \/ \E f \in Frames : Hears(t, f) /\ Harmless(t, f)
  <2> DEFINE g == [type |-> "joined", peer |-> p, peers |-> Members(x)]
             h == [type |-> "peer-joined", peer |-> p]
  <2>1. g \in Frames /\ h \in Frames /\ Harmless(t, g) /\ Harmless(t, h)
    BY <1>0 DEF Members, TypeOK, ServerTypes, Frames, Harmless
  <2>2. /\ known' = known
        /\ inbox'[t] \in {inbox[t], Append(inbox[t], g), Append(inbox[t], h)}
    BY <1>1 DEF Join, Announce, Send
  <2> HIDE DEF g, h
  <2> QED BY <2>1, <2>2 DEF Untouched, Hears
<1>2. ASSUME NEW s \in Sockets, Depart(s), known' = known
      PROVE  Untouched(t) \/ \E f \in Frames : Hears(t, f) /\ Harmless(t, f)
  <2>1. CASE socketToPeer[s] = None
    BY <1>2, <2>1 DEF Depart, Untouched
  <2>2. CASE socketToPeer[s] # None
    <3> DEFINE h == [type |-> "peer-left", peer |-> socketToPeer[s]]
    <3>1. h \in Frames /\ Harmless(t, h)
      BY <1>0, <2>2 DEF TypeOK, ServerTypes, Frames, Harmless
    <3>2. inbox'[t] \in {inbox[t], Append(inbox[t], h)}
      BY <1>2, <2>2 DEF Depart, Send
    <3> HIDE DEF h
    <3> QED BY <1>2, <3>1, <3>2 DEF Untouched, Hears
  <2> QED BY <2>1, <2>2
<1>3. ASSUME NEW s \in Sockets, NEW to \in Peers, Relay(s, to)
      PROVE  Untouched(t) \/ \E f \in Frames : Hears(t, f) /\ Harmless(t, f)
  <2> DEFINE p == socketToPeer[s]
             f == [type |-> "relay", peer |-> p, to |-> to]
  <2>1. /\ p \in Peers /\ peers[p] # None /\ peers[to] # None
        /\ peers[to].session = peers[p].session
    BY <1>0, <1>3 DEF Relay, MapsAgree, TypeOK, ServerTypes
  <2>2. f \in Frames
    BY <2>1 DEF Frames
  <2>3. known' = known /\ inbox' = [inbox EXCEPT ![peers[to].socket] = Send(peers[to].socket, f)]
    BY <1>3 DEF Relay
  <2>4. CASE t # peers[to].socket \/ conn[t] # "open"
    BY <1>0, <2>3, <2>4 DEF Send, Untouched, TypeOK, ClientTypes
  <2>5. CASE t = peers[to].socket /\ conn[t] = "open"
    <3>1. socketToPeer[t] = to /\ to # None
      BY <1>0, <2>1, <2>5, SignalingAssumption DEF MapsAgree
    <3>2. FinalRoster(t) = Members(peers[to].session) \ {to}
      BY <2>5, <3>1 DEF RostersConverge, FinalRoster
    <3>3. p \in Members(peers[to].session)
      BY <1>0, <2>1 DEF MapsAgree
    <3>4. Harmless(t, f)
      BY <3>2, <3>3 DEF Harmless
    <3>5. Hears(t, f)
      BY <1>0, <2>3, <2>5 DEF Send, Hears, TypeOK, ClientTypes
    <3> QED BY <2>2, <3>4, <3>5
  <2> QED BY <2>4, <2>5
<1>4. ASSUME NEW s \in Sockets, Receive(s) PROVE Reads(t) \/ Untouched(t)
  BY <1>0, <1>4 DEF Receive, Reads, Untouched, TypeOK, ClientTypes
<1>5. ASSUME UNCHANGED vars \/ \E s \in Sockets, x \in Sessions : JoinRefused(s, x)
      PROVE  Untouched(t)
  BY <1>5 DEF vars, JoinRefused, clientVars, Untouched
<1>6. ASSUME NEW s \in Sockets, Leave(s) \/ SocketError(s) \/ SocketClose(s)
      PROVE  Depart(s) /\ known' = known
  BY <1>6 DEF Leave, SocketError, SocketClose
<1> QED BY <1>1, <1>2, <1>3, <1>4, <1>5, <1>6 DEF Next

LEMMA RostersInvariance == Spec => [](RostersConverge /\ AllAnnounced)
<1>1. Init => RostersConverge /\ AllAnnounced
  BY DEF Init, RostersConverge, AllAnnounced
<1>2. Inv /\ RostersConverge /\ AllAnnounced /\ [Next]_vars
        => (RostersConverge /\ AllAnnounced)'
  BY ConvergeStep, AnnouncedStep
<1> QED BY <1>1, <1>2, Invariance, PTL DEF Spec

\* However joins, departures and lost connections interleave with the delivery
\* of frames, a client that reads everything sent to it ends up with exactly the
\* other members of its session (the snapshot of signaling.ts:145 and the
\* announcements that follow it add up).
THEOREM RostersAreRight == Spec => []RostersConverge
BY RostersInvariance, PTL

\* No client is handed an offer, answer or candidate of another peer before it
\* was told of that peer, or after it was told that the peer left
\* (relay, signaling.ts:183).
THEOREM SendersAreKnown == Spec => []SendersAnnounced
<1>1. AllAnnounced => SendersAnnounced
  BY DEF AllAnnounced, SendersAnnounced, RelayAnnounced
<1> QED BY <1>1, RostersInvariance, PTL

-----------------------------------------------------------------------------
(* What two clients see of each other.                                       *)

\* A client that has read everything that was sent to it.
CaughtUp(s) == conn[s] = "open" /\ inbox[s] = <<>>

\* Two peers of a session that have caught up list each other, agree on who is
\* there, and exactly one of them was told to offer to the other.
PairsMeet ==
  \A x \in Sessions : \A p, q \in Members(x) :
    p # q /\ CaughtUp(peers[p].socket) /\ CaughtUp(peers[q].socket) =>
      /\ q \in known[peers[p].socket] /\ p \in known[peers[q].socket]
      /\ known[peers[p].socket] \cup {p} = known[peers[q].socket] \cup {q}
      /\ q \in told[p] <=> p \notin told[q]

LEMMA CaughtUpRoster ==
  ASSUME Inv, RostersConverge, NEW x \in Sessions, NEW p \in Members(x),
         CaughtUp(peers[p].socket)
  PROVE  known[peers[p].socket] = Members(x) \ {p}
<1> DEFINE s == peers[p].socket
<1>1. /\ p \in Peers /\ peers[p] # None /\ peers[p].session = x
      /\ s \in Sockets /\ socketToPeer[s] = p
  <2>1. sessions[x] # None /\ p \in sessions[x] /\ p \in Peers
    BY DEF Members, Inv, TypeOK, ServerTypes
  <2>2. peers[p] # None /\ peers[p].session = x
    BY <2>1 DEF Inv, MapsAgree
  <2> QED BY <2>1, <2>2 DEF Inv, MapsAgree, TypeOK, ServerTypes
<1>2. known[s] \in SUBSET Peers /\ <<>> \in Seq(Frames)
  BY <1>1 DEF Inv, TypeOK, ClientTypes
<1>3. Roster(s, 0) = known[s]
  BY <1>2, RostersDefined DEF CaughtUp, Roster
<1>4. Len(inbox[s]) = 0
  BY DEF CaughtUp
<1>5. socketToPeer[s] # None
  BY <1>1, SignalingAssumption
<1> QED BY <1>1, <1>3, <1>4, <1>5 DEF CaughtUp, RostersConverge

\* Once two peers of a session have read their frames, they have found each other
\* and it is settled who of them offers, for every pair and whatever order
\* they joined in and whoever else came and went (signaling.ts:142-163).
THEOREM EveryPairMeets == Spec => []PairsMeet
<1>1. ASSUME Inv, RostersConverge PROVE PairsMeet
  <2> SUFFICES ASSUME NEW x \in Sessions, NEW p \in Members(x), NEW q \in Members(x), p # q,
                      CaughtUp(peers[p].socket), CaughtUp(peers[q].socket)
               PROVE  /\ q \in known[peers[p].socket] /\ p \in known[peers[q].socket]
                      /\ known[peers[p].socket] \cup {p} = known[peers[q].socket] \cup {q}
                      /\ q \in told[p] <=> p \notin told[q]
    BY DEF PairsMeet
  <2>1. /\ known[peers[p].socket] = Members(x) \ {p}
        /\ known[peers[q].socket] = Members(x) \ {q}
    BY <1>1, CaughtUpRoster
  <2>2. q \in told[p] <=> p \notin told[q]
    BY <1>1 DEF Inv, OneInitiator, CaughtUp, Online
  <2> QED BY <2>1, <2>2
<1> QED BY <1>1, Invariance, RostersInvariance, PTL
=============================================================================
