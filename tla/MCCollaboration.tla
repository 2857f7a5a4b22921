-------------------------- MODULE MCCollaboration --------------------------
(* Collaboration with model values for TLC.                                 *)
EXTENDS CollaborationProperties, TLC

CONSTANTS u1, u2, c1, c2, c3, c4, p1, p2, s1, s2

\* User u1 has two connections to one project and one to another.
Owners == c1 :> u1 @@ c2 :> u1 @@ c3 :> u2 @@ c4 :> u1
Targets == c1 :> p1 @@ c2 :> p1 @@ c3 :> p1 @@ c4 :> p2
Homes == s1 :> p1 @@ s2 :> p2

\* What the client of a connection that is not open shows has no influence on
\* any later step or property: it starts afresh.
View ==
  <<lockVars, conn, rooms, docs,
    {<<c, listed[c], shown[c]>> : c \in {d \in Conns : conn[d] = "open"}}>>
=============================================================================
