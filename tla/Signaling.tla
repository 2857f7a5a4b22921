----------------------------- MODULE Signaling -----------------------------
(***************************************************************************)
(* The WebRTC signaling server of the live service: three maps (peers,     *)
(* sessions, sockets) that every join, leave and dropped connection must   *)
(* keep in agreement, and the frames it sends to the members of a session. *)
(* Handlers are synchronous, so a frame is handled in one step; what runs  *)
(* concurrently is the delivery of frames and the end of connections.      *)
(* Error replies change nothing and are left out, except that a refused    *)
(* join closes the connection.                                             *)
(***************************************************************************)
EXTENDS Naturals, Sequences, FiniteSets

CONSTANTS Sockets,    \* the connections clients may open
          Peers,      \* the ids randomUUID may draw
          Sessions,   \* session ids clients name
          None,       \* no entry in a map
          MaxPeers,   \* maxPeersPerSession
          MaxRelays   \* bound: relayed frames on the way to one socket

ASSUME SignalingAssumption ==
  /\ None \notin Sockets \cup Peers \cup Sessions
  /\ \A S \in SUBSET Peers : None # S
  /\ \A x \in Sessions, s \in Sockets : None # [session |-> x, socket |-> s]
  /\ MaxPeers \in Nat \ {0}
  /\ MaxRelays \in Nat

VARIABLES
  conn,                            \* state of each connection
  peers, sessions, socketToPeer,   \* the maps of the server
  home, told,                      \* history: a peer's session, the peers it was told of
  inbox, known                     \* frames on the way, and what a client made of them

serverVars == <<peers, sessions, socketToPeer>>
historyVars == <<home, told>>
clientVars == <<inbox, known>>
vars == <<conn, serverVars, historyVars, clientVars>>

Frames ==
  [type : {"joined"}, peer : Peers, peers : SUBSET Peers]
    \cup [type : {"peer-joined", "peer-left"}, peer : Peers]
    \cup [type : {"relay"}, peer : Peers, to : Peers]

\* The server learns of a connection with its first frame: one that is not open
\* yet and one that has sent nothing are the same to it.
Init ==
  /\ conn = [s \in Sockets |-> "open"]
  /\ peers = [p \in Peers |-> None]
  /\ sessions = [x \in Sessions |-> None]
  /\ socketToPeer = [s \in Sockets |-> None]
  /\ home = [p \in Peers |-> None]
  /\ told = [p \in Peers |-> {}]
  /\ inbox = [s \in Sockets |-> <<>>]
  /\ known = [s \in Sockets |-> {}]

\* sessions.get(x) ?? new Set()
Members(x) == IF sessions[x] = None THEN {} ELSE sessions[x]

\* The sockets of a set of peers, without entries that are not there.
SocketsOf(S) == {peers[p].socket : p \in {q \in S : peers[q] # None}}

\* A frame sent to a socket that is no longer open is dropped.
Send(s, f) == IF conn[s] = "open" THEN Append(inbox[s], f) ELSE inbox[s]

\* Frames are handled until the connection fails or its close event comes, also
\* while it is being closed.
Alive(s) == conn[s] \in {"open", "closing"}

-----------------------------------------------------------------------------
\* A peer of session x, with id p, at socket s.
Register(s, x, p) ==
  /\ peers' = [peers EXCEPT ![p] = [session |-> x, socket |-> s]]
  /\ socketToPeer' = [socketToPeer EXCEPT ![s] = p]
  /\ sessions' = [sessions EXCEPT ![x] = Members(x) \cup {p}]
  /\ home' = [home EXCEPT ![p] = x]

\* Mutants of Announce: only the joiner hears of it ...
AnnounceToJoiner(s, x, p) ==
  /\ told' = [told EXCEPT ![p] = Members(x)]
  /\ inbox' = [inbox EXCEPT ![s] =
                 Send(s, [type |-> "joined", peer |-> p, peers |-> Members(x)])]

\* ... and everyone is sent the new list.
AnnounceToAll(s, x, p) ==
  /\ told' = [q \in Peers |-> IF q \in Members(x) \cup {p}
                              THEN (Members(x) \cup {p}) \ {q} ELSE told[q]]
  /\ UNCHANGED inbox

\* The joiner is told who is there, and everyone there of the joiner; one whose
\* connection is being closed joins like any other but is told nothing.
Announce(s, x, p) ==
  /\ told' = [told EXCEPT ![p] = IF conn[s] = "open" THEN Members(x) ELSE {}]
  /\ inbox' = [t \in Sockets |->
                 IF t = s
                 THEN Send(t, [type |-> "joined", peer |-> p, peers |-> Members(x)])
                 ELSE IF t \in SocketsOf(Members(x))
                 THEN Send(t, [type |-> "peer-joined", peer |-> p])
                 ELSE inbox[t]]

\* Mutants of Join: one peer too many ...
JoinOverfull(s, x, p) ==
  /\ Alive(s) /\ socketToPeer[s] = None /\ home[p] = None
  /\ Cardinality(Members(x)) <= MaxPeers
  /\ Register(s, x, p)
  /\ Announce(s, x, p)
  /\ UNCHANGED <<conn, known>>

\* ... and a connection that joins again.
JoinTwice(s, x, p) ==
  /\ Alive(s) /\ home[p] = None
  /\ Cardinality(Members(x)) < MaxPeers
  /\ Register(s, x, p)
  /\ Announce(s, x, p)
  /\ UNCHANGED <<conn, known>>

\* handleJoin, under a fresh id.
Join(s, x, p) ==
  /\ Alive(s)
  /\ socketToPeer[s] = None
  /\ Cardinality(Members(x)) < MaxPeers
  /\ home[p] = None
  /\ Register(s, x, p)
  /\ Announce(s, x, p)
  /\ UNCHANGED <<conn, known>>

\* handleJoin on a full session: the server closes the connection.
JoinRefused(s, x) ==
  /\ Alive(s)
  /\ socketToPeer[s] = None
  /\ Cardinality(Members(x)) >= MaxPeers
  /\ conn' = [conn EXCEPT ![s] = "closing"]
  /\ UNCHANGED <<serverVars, historyVars, clientVars>>

\* Mutant of Depart: the session keeps the peer.
DepartHalf(s) ==
  IF socketToPeer[s] = None
  THEN UNCHANGED <<serverVars, inbox>>
  ELSE /\ socketToPeer' = [socketToPeer EXCEPT ![s] = None]
       /\ peers' = [peers EXCEPT ![socketToPeer[s]] = None]
       /\ UNCHANGED <<sessions, inbox>>

\* Mutants of Depart: an empty session stays in the map ...
DepartKeepsEmpty(s) ==
  IF socketToPeer[s] = None
  THEN UNCHANGED <<serverVars, inbox>>
  ELSE LET p == socketToPeer[s] IN
       /\ socketToPeer' = [socketToPeer EXCEPT ![s] = None]
       /\ peers' = [peers EXCEPT ![p] = None]
       /\ sessions' = [sessions EXCEPT ![peers[p].session] = @ \ {p}]
       /\ UNCHANGED inbox

\* ... and nobody is told.
DepartSilently(s) ==
  IF socketToPeer[s] = None
  THEN UNCHANGED <<serverVars, inbox>>
  ELSE LET p == socketToPeer[s]
           x == peers[p].session
           rest == sessions[x] \ {p}
       IN /\ socketToPeer' = [socketToPeer EXCEPT ![s] = None]
          /\ peers' = [peers EXCEPT ![p] = None]
          /\ sessions' = [sessions EXCEPT ![x] = IF rest = {} THEN None ELSE rest]
          /\ UNCHANGED inbox

\* handleDisconnect: nothing for a socket that has not joined; else the peer is
\* removed from the maps, an empty session too, and who is left is told.
Depart(s) ==
  IF socketToPeer[s] = None
  THEN UNCHANGED <<serverVars, inbox>>
  ELSE LET p == socketToPeer[s]
           x == peers[p].session
           rest == sessions[x] \ {p}
       IN /\ socketToPeer' = [socketToPeer EXCEPT ![s] = None]
          /\ peers' = [peers EXCEPT ![p] = None]
          /\ sessions' = [sessions EXCEPT ![x] = IF rest = {} THEN None ELSE rest]
          /\ inbox' = [t \in Sockets |->
                         IF t \in SocketsOf(rest)
                         THEN Send(t, [type |-> "peer-left", peer |-> p])
                         ELSE inbox[t]]

Leave(s) ==
  /\ Alive(s)
  /\ Depart(s)
  /\ UNCHANGED <<conn, historyVars, known>>

\* The connection failed: no more frames, its close event follows.
SocketError(s) ==
  /\ Alive(s)
  /\ conn' = [conn EXCEPT ![s] = "failed"]
  /\ Depart(s)
  /\ UNCHANGED <<historyVars, known>>

\* The connection is gone; frames still on the way to it are never read.
SocketClose(s) ==
  /\ conn[s] # "closed"
  /\ conn' = [conn EXCEPT ![s] = "closed"]
  /\ Depart(s)
  /\ UNCHANGED <<historyVars, known>>

\* The relayed frames on the way to a socket.
Relays(s) == Cardinality({i \in 1 .. Len(inbox[s]) : inbox[s][i].type = "relay"})

\* Mutant of Relay: the sessions are not compared.
RelayAnywhere(s, to) ==
  LET p == socketToPeer[s] IN
  /\ Alive(s)
  /\ p # None
  /\ peers[to] # None
  /\ Relays(peers[to].socket) < MaxRelays
  /\ inbox' = [inbox EXCEPT ![peers[to].socket] =
                 Send(peers[to].socket, [type |-> "relay", peer |-> p, to |-> to])]
  /\ UNCHANGED <<conn, serverVars, historyVars, known>>

\* relay: an offer, answer or candidate for a peer of the same session.
Relay(s, to) ==
  LET p == socketToPeer[s] IN
  /\ Alive(s)
  /\ p # None
  /\ peers[to] # None
  /\ peers[to].session = peers[p].session
  /\ Relays(peers[to].socket) < MaxRelays
  /\ inbox' = [inbox EXCEPT ![peers[to].socket] =
                 Send(peers[to].socket, [type |-> "relay", peer |-> p, to |-> to])]
  /\ UNCHANGED <<conn, serverVars, historyVars, known>>

\* What the roster of a client becomes with a frame.
Learn(roster, f) ==
  CASE f.type = "joined" -> f.peers
    [] f.type = "peer-joined" -> roster \cup {f.peer}
    [] f.type = "peer-left" -> roster \ {f.peer}
    [] f.type = "relay" -> roster

\* A client reads the next frame.
Receive(s) ==
  /\ conn[s] # "closed"
  /\ inbox[s] # <<>>
  /\ known' = [known EXCEPT ![s] = Learn(@, Head(inbox[s]))]
  /\ inbox' = [inbox EXCEPT ![s] = Tail(@)]
  /\ UNCHANGED <<conn, serverVars, historyVars>>

Next ==
  \E s \in Sockets :
    \/ Leave(s) \/ SocketError(s) \/ SocketClose(s) \/ Receive(s)
    \/ \E x \in Sessions : JoinRefused(s, x) \/ \E p \in Peers : Join(s, x, p)
    \/ \E to \in Peers : Relay(s, to)

Spec == Init /\ [][Next]_vars
=============================================================================
