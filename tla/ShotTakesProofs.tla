--------------------------- MODULE ShotTakesProofs ---------------------------
(***************************************************************************)
(* Proof that takes get distinct numbers unless their requests overlap,    *)
(* for any number of requests.                                             *)
(***************************************************************************)
EXTENDS ShotTakesProperties, TLAPS

\* A take is there only once its POST has inserted it.
TakesAreInserted == \A r \in Takes : adding[r].at = "done"

\* The highest number a POST has read is still the highest, or it was overtaken:
\* this is what makes NumbersDistinct inductive.
HighestIsCurrent ==
  \A r \in TakePosts :
    adding[r].at = "inserting" /\ ~adding[r].overtaken =>
      \A q \in Takes : takeNumber[q] <= adding[r].highest

TakesInv == TakesTypeOK /\ TakesAreInserted /\ HighestIsCurrent /\ NumbersDistinct

Adding == [at : {"none", "inserting", "done"}, highest : Nat, overtaken : BOOLEAN]

-----------------------------------------------------------------------------
LEMMA FindKeepsTakesInv ==
  ASSUME TakesInv, NEW r \in TakePosts, AddFinds(r)
  PROVE  TakesInv'
<1>1. PICK highest \in Nat :
        /\ \A q \in Takes : takeNumber[q] <= highest
        /\ adding' = [adding EXCEPT ![r] =
             [at |-> "inserting", highest |-> highest, overtaken |-> FALSE]]
  <2>1. PICK n \in {0} \cup {takeNumber[q] : q \in Takes} :
          /\ \A q \in Takes : takeNumber[q] <= n
          /\ adding' = [adding EXCEPT ![r] =
               [at |-> "inserting", highest |-> n, overtaken |-> FALSE]]
    BY DEF AddFinds
  <2>2. n \in Nat
    BY DEF TakesInv, TakesTypeOK, Takes
  <2> QED BY <2>1, <2>2
<1>2. PICK found \in Adding :
        found = [at |-> "inserting", highest |-> highest, overtaken |-> FALSE]
  BY DEF Adding
<1>3. /\ adding' = [adding EXCEPT ![r] = found] /\ adding \in [TakePosts -> Adding]
      /\ UNCHANGED <<deleting, deleted, takeNumber>> /\ Takes' = Takes
  BY <1>1, <1>2 DEF AddFinds, Takes, TakesInv, TakesTypeOK, Adding
<1>4. r \notin Takes
  BY DEF AddFinds, TakesInv, TakesAreInserted
<1>5. TakesTypeOK'
  BY <1>3 DEF TakesInv, TakesTypeOK, Adding
<1>6. TakesAreInserted'
  BY <1>3, <1>4 DEF TakesInv, TakesAreInserted, Takes
<1>7. HighestIsCurrent'
  BY <1>1, <1>2, <1>3 DEF TakesInv, HighestIsCurrent
<1>8. NumbersDistinct'
  BY <1>3, <1>4 DEF TakesInv, NumbersDistinct, Takes
<1> QED BY <1>5, <1>6, <1>7, <1>8 DEF TakesInv

LEMMA InsertKeepsTakesInv ==
  ASSUME TakesInv, NEW r \in TakePosts, AddInserts(r)
  PROVE  TakesInv'
<1>1. PICK number \in Nat : number = adding[r].highest + 1
  BY DEF TakesInv, TakesTypeOK
<1>2. /\ takeNumber' = [takeNumber EXCEPT ![r] = number]
      /\ Takes' = Takes \cup {r}
  BY <1>1 DEF AddInserts, Takes, TakesInv, TakesTypeOK
<1>3. adding' \in [TakePosts -> Adding]
  <2>1. ASSUME NEW q \in TakePosts
        PROVE  /\ [adding[q] EXCEPT !.at = "done"] \in Adding
               /\ [adding[q] EXCEPT !.overtaken = @ \/ adding[q].at = "inserting"] \in Adding
    <3>1. adding[q] \in Adding
      BY DEF TakesInv, TakesTypeOK, Adding
    <3>2. [adding[q] EXCEPT !.at = "done"] \in Adding
      BY <3>1 DEF Adding
    <3>3. (adding[q].overtaken \/ adding[q].at = "inserting") \in BOOLEAN
      OBVIOUS
    <3>4. [adding[q] EXCEPT !.overtaken = @ \/ adding[q].at = "inserting"] \in Adding
      BY <3>1, <3>3, Zenon DEF Adding
    <3> QED BY <3>2, <3>4
  <2> QED BY <2>1 DEF AddInserts
<1>4. ASSUME NEW q \in TakePosts
      PROVE  /\ q = r => adding'[q].at = "done" /\ adding'[q].overtaken = adding[q].overtaken
             /\ q # r => /\ adding'[q].at = adding[q].at
                         /\ adding'[q].highest = adding[q].highest
                         /\ adding[q].overtaken => adding'[q].overtaken
                         /\ adding[q].at = "inserting" => adding'[q].overtaken
  <2>1. adding[q] \in Adding
    BY DEF TakesInv, TakesTypeOK, Adding
  <2>2. q = r => adding'[q] = [adding[q] EXCEPT !.at = "done"]
    BY DEF AddInserts
  <2>3. q # r => adding'[q] = [adding[q] EXCEPT !.overtaken = @ \/ adding[q].at = "inserting"]
    BY DEF AddInserts
  <2>4. q = r => adding'[q].at = "done" /\ adding'[q].overtaken = adding[q].overtaken
    BY <2>1, <2>2 DEF Adding
  <2>5. q # r => /\ adding'[q].at = adding[q].at
                 /\ adding'[q].highest = adding[q].highest
    BY <2>1, <2>3 DEF Adding
  <2>6. q # r => adding'[q].overtaken = (adding[q].overtaken \/ adding[q].at = "inserting")
    BY <2>1, <2>3, Zenon DEF Adding
  <2> QED BY <2>4, <2>5, <2>6
<1>5. TakesTypeOK'
  BY <1>2, <1>3 DEF TakesInv, TakesTypeOK, Adding, AddInserts
<1>6. TakesAreInserted'
  BY <1>2, <1>4 DEF TakesInv, TakesAreInserted, Takes
<1>7. HighestIsCurrent'
  BY <1>2, <1>4 DEF TakesInv, HighestIsCurrent
<1>8. NumbersDistinct'
  <2> SUFFICES ASSUME NEW p \in Takes', NEW q \in Takes', p # q,
                      takeNumber'[p] = takeNumber'[q]
               PROVE  adding'[p].overtaken \/ adding'[q].overtaken
    BY DEF NumbersDistinct
  <2>1. ASSUME NEW o \in Takes, o # r, takeNumber[o] = number
        PROVE  adding'[r].overtaken
    <3>1. ~(takeNumber[o] <= adding[r].highest)
      BY <1>1, <2>1 DEF TakesInv, TakesTypeOK, Takes
    <3>2. adding[r].overtaken
      BY <2>1, <3>1 DEF AddInserts, TakesInv, HighestIsCurrent
    <3> QED BY <1>4, <3>2
  <2>2. CASE p = r
    BY <1>2, <2>1, <2>2 DEF TakesInv, TakesTypeOK, Takes
  <2>3. CASE q = r
    BY <1>2, <2>1, <2>3 DEF TakesInv, TakesTypeOK, Takes
  <2>4. CASE p # r /\ q # r
    BY <1>2, <1>4, <2>4 DEF TakesInv, TakesTypeOK, NumbersDistinct, Takes
  <2> QED BY <2>2, <2>3, <2>4
<1> QED BY <1>5, <1>6, <1>7, <1>8 DEF TakesInv

LEMMA FailureKeepsTakesInv ==
  ASSUME TakesInv, NEW r \in TakePosts, AddFails(r)
  PROVE  TakesInv'
<1>1. PICK done \in Adding : done = [adding[r] EXCEPT !.at = "done"]
  BY DEF TakesInv, TakesTypeOK, Adding
<1>2. done.at = "done" /\ done.overtaken = adding[r].overtaken
  BY <1>1 DEF TakesInv, TakesTypeOK
<1>3. /\ adding' = [adding EXCEPT ![r] = done] /\ adding \in [TakePosts -> Adding]
      /\ UNCHANGED <<deleting, deleted, takeNumber>> /\ Takes' = Takes
  BY <1>1 DEF AddFails, Takes, TakesInv, TakesTypeOK, Adding
<1>4. TakesTypeOK'
  BY <1>3 DEF TakesInv, TakesTypeOK, Adding
<1>5. TakesAreInserted' /\ HighestIsCurrent'
  BY <1>2, <1>3 DEF TakesInv, TakesAreInserted, HighestIsCurrent, Takes
<1>6. NumbersDistinct'
  BY <1>2, <1>3 DEF TakesInv, NumbersDistinct, Takes
<1> QED BY <1>4, <1>5, <1>6 DEF TakesInv

LEMMA DeletionKeepsTakesInv ==
  ASSUME TakesInv, NEW d \in TakeDeletes,
         (\E r \in TakePosts : DeleteFinds(d, r)) \/ DeleteRemoves(d)
  PROVE  TakesInv'
<1>1. TakesTypeOK'
  BY DEF TakesInv, TakesTypeOK, DeleteFinds, DeleteRemoves
<1>2. /\ adding' = adding
      /\ \A q \in Takes' : q \in Takes /\ takeNumber'[q] = takeNumber[q]
  BY DEF TakesInv, TakesTypeOK, DeleteFinds, DeleteRemoves, Takes
<1>3. TakesAreInserted' /\ HighestIsCurrent' /\ NumbersDistinct'
  BY <1>2 DEF TakesInv, TakesAreInserted, HighestIsCurrent, NumbersDistinct
<1> QED BY <1>1, <1>3 DEF TakesInv

LEMMA TakesInvHolds == TakesSpec => []TakesInv
<1>1. TakesInit => TakesInv
  BY DEF TakesInit, TakesInv, TakesTypeOK, TakesAreInserted, HighestIsCurrent,
         NumbersDistinct, Takes
<1>2. TakesInv /\ [TakesNext]_takeVars => TakesInv'
  <2> SUFFICES ASSUME TakesInv, [TakesNext]_takeVars PROVE TakesInv'
    OBVIOUS
  <2>1. ASSUME NEW r \in TakePosts, AddFinds(r) PROVE TakesInv'
    BY <2>1, FindKeepsTakesInv
  <2>2. ASSUME NEW r \in TakePosts, AddInserts(r) PROVE TakesInv'
    BY <2>2, InsertKeepsTakesInv
  <2>3. ASSUME NEW r \in TakePosts, AddFails(r) PROVE TakesInv'
    BY <2>3, FailureKeepsTakesInv
  <2>4. ASSUME NEW d \in TakeDeletes,
               (\E r \in TakePosts : DeleteFinds(d, r)) \/ DeleteRemoves(d)
        PROVE  TakesInv'
    BY <2>4, DeletionKeepsTakesInv
  <2>5. CASE UNCHANGED takeVars
    BY <2>5 DEF takeVars, TakesInv, TakesTypeOK, TakesAreInserted, HighestIsCurrent,
                NumbersDistinct, Takes
  <2> QED BY <2>1, <2>2, <2>3, <2>4, <2>5 DEF TakesNext
<1> QED BY <1>1, <1>2, PTL DEF TakesSpec

-----------------------------------------------------------------------------
\* The types of the variables of the takes are invariant.
THEOREM TakeTypes == TakesSpec => []TakesTypeOK
BY TakesInvHolds, PTL DEF TakesInv

\* Two takes have one number only if one POST was overtaken by another,
\* whatever is deleted meanwhile.
THEOREM TakeNumbersAreDistinct == TakesSpec => []NumbersDistinct
BY TakesInvHolds, PTL DEF TakesInv
=============================================================================
