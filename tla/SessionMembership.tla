------------------------- MODULE SessionMembership -------------------------
(***************************************************************************)
(* What the signaling server promises of a session's membership: a peer    *)
(* joins one session, while that has room, leaves it at most once, and is  *)
(* never seen again under the same id.  Signaling implements it.           *)
(***************************************************************************)
EXTENDS Naturals, FiniteSets

CONSTANTS Peers,     \* the ids peers get
          Sessions,  \* the sessions they can join
          Capacity   \* peers a session has room for

VARIABLES members,   \* the peers in each session
          departed   \* the peers that have left

vars == <<members, departed>>

Init ==
  /\ members = [x \in Sessions |-> {}]
  /\ departed = {}

Join(p, x) ==
  /\ p \notin departed
  /\ \A y \in Sessions : p \notin members[y]
  /\ Cardinality(members[x]) < Capacity
  /\ members' = [members EXCEPT ![x] = @ \cup {p}]
  /\ UNCHANGED departed

Leave(p, x) ==
  /\ p \in members[x]
  /\ members' = [members EXCEPT ![x] = @ \ {p}]
  /\ departed' = departed \cup {p}

Next == \E p \in Peers, x \in Sessions : Join(p, x) \/ Leave(p, x)

Spec == Init /\ [][Next]_vars
=============================================================================
