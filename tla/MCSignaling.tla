---------------------------- MODULE MCSignaling ----------------------------
(* Signaling with model values for TLC.                                     *)
EXTENDS SignalingProperties, TLC

CONSTANTS a, b, c, p1, p2, p3, r1, r2

Symmetry == Permutations(Sockets) \cup Permutations(Peers) \cup Permutations(Sessions)

\* A closed connection reads no more, and what a departed peer was told of has
\* no influence on any later step or property.
View ==
  <<conn, serverVars, home,
    {<<p, told[p]>> : p \in {q \in Peers : peers[q] # None}},
    {<<s, inbox[s], known[s]>> : s \in {t \in Sockets : conn[t] # "closed"}}>>
=============================================================================
