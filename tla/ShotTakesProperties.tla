------------------------- MODULE ShotTakesProperties -------------------------
(* What the numbers of takes tell.                                            *)
EXTENDS ShotTakes

\* The types of the variables.
TakesTypeOK ==
  /\ adding \in [TakePosts -> [at : {"none", "inserting", "done"}, highest : Nat,
                               overtaken : BOOLEAN]]
  /\ deleting \in [TakeDeletes -> SUBSET TakePosts]
  /\ deleted \subseteq TakeDeletes
  /\ takeNumber \in [TakePosts -> Nat]

\* Two takes there are have one number only if a POST was overtaken by another
\* between its two queries: deleting takes, also the highest ones and also between
\* the queries of a POST, never gives a number to two of them.  (The number of a
\* deleted highest take is given again.)
NumbersDistinct ==
  \A r, q \in Takes :
    r # q /\ takeNumber[r] = takeNumber[q] => adding[r].overtaken \/ adding[q].overtaken
=============================================================================
