------------------------ MODULE SignalingProperties ------------------------
(* What the signaling server is meant to guarantee.                         *)
EXTENDS Signaling

\* Every map, connection and inbox holds what the code can store in it; a
\* session without peers is not kept (signaling.ts:221).
ServerTypes ==
  /\ peers \in [Peers -> {None} \cup [session : Sessions, socket : Sockets]]
  /\ sessions \in [Sessions -> {None} \cup ((SUBSET Peers) \ {{}})]
  /\ socketToPeer \in [Sockets -> Peers \cup {None}]
  /\ home \in [Peers -> Sessions \cup {None}]
  /\ told \in [Peers -> SUBSET Peers]

ClientTypes ==
  /\ conn \in [Sockets -> {"open", "closing", "failed", "closed"}]
  /\ inbox \in [Sockets -> Seq(Frames)]
  /\ known \in [Sockets -> SUBSET Peers]

TypeOK == ServerTypes /\ ClientTypes

\* The three maps agree: a socket's peer is registered with that socket, a
\* registered peer is the peer of its socket, which is not closed, and a member
\* of its session, and a session's set is its registered peers.
MapsAgree ==
  /\ \A s \in Sockets : socketToPeer[s] # None =>
       peers[socketToPeer[s]] # None /\ peers[socketToPeer[s]].socket = s
  /\ \A p \in Peers : peers[p] # None =>
       /\ socketToPeer[peers[p].socket] = p
       /\ Alive(peers[p].socket)
       /\ p \in Members(peers[p].session)
  /\ \A x \in Sessions : sessions[x] # None =>
       \A p \in sessions[x] : peers[p] # None /\ peers[p].session = x

\* A session never holds more peers than the mesh was sized for.
WithinCapacity ==
  \A x \in Sessions : Cardinality(Members(x)) <= MaxPeers

\* The connection of a registered peer is open.
Online(p) == conn[peers[p].socket] = "open"

\* Of two peers in a session never both were told to offer to the other, so that
\* no two offers cross, and one was unless a connection is being closed
\* (signaling.ts:142).
OneInitiator ==
  \A x \in Sessions : \A p, q \in Members(x) : p # q =>
    /\ q \in told[p] => p \notin told[q]
    /\ Online(p) /\ Online(q) => q \in told[p] \/ p \in told[q]

\* A relayed frame comes from a peer of the addressee's own session.
WithinSession(f) ==
  f.type = "relay" => home[f.peer] = home[f.to] /\ home[f.to] # None

\* No offer, answer or candidate leaves its session, also when peers depart and
\* their sockets join elsewhere while it is on the way (signaling.ts:183).
Isolation ==
  \A s \in Sockets : \A i \in 1 .. Len(inbox[s]) : WithinSession(inbox[s][i])

\* What a roster becomes with the frames of a sequence, one after the other.
Rosters(roster, frames) ==
  LET after[n \in 0 .. Len(frames)] ==
        IF n = 0 THEN roster ELSE Learn(after[n - 1], frames[n])
  IN  after

\* The roster a client has once it has read the first n frames on the way.
Roster(s, n) == Rosters(known[s], inbox[s])[n]

\* When everything on the way has been read, the roster of a joined client is
\* exactly the other members of its session, whoever joined, left or dropped.
RostersConverge ==
  \A s \in Sockets : conn[s] = "open" /\ socketToPeer[s] # None =>
    Roster(s, Len(inbox[s])) =
      Members(peers[socketToPeer[s]].session) \ {socketToPeer[s]}

\* A client never gets an offer, answer or candidate of another peer it has not
\* heard of, or has been told has left.
SendersAnnounced ==
  \A s \in Sockets : conn[s] # "closed" => \A i \in 1 .. Len(inbox[s]) :
    inbox[s][i].type = "relay" =>
      inbox[s][i].peer \in Roster(s, i - 1) \cup {inbox[s][i].to}

\* The sessions implement the membership specification.
Membership == INSTANCE SessionMembership
  WITH Capacity <- MaxPeers,
       members <- [x \in Sessions |-> Members(x)],
       departed <- {p \in Peers : home[p] # None /\ peers[p] = None}

ImplementsMembership == Membership!Spec
=============================================================================
