------------------------------ MODULE ShotTakes ------------------------------
(***************************************************************************)
(* The takes of a shot, routes/console/production.ts.  Adding one reads    *)
(* the highest number there is and then inserts the next; deleting one     *)
(* finds it and then deletes it.  Nothing joins the two queries of a       *)
(* request, and the table has no unique key on the number.  Shots do not   *)
(* touch each other's takes: this is one shot.                             *)
(***************************************************************************)
EXTENDS Naturals, FiniteSets

CONSTANTS
  TakePosts,   \* POST requests, each adding one take
  TakeDeletes  \* DELETE requests

VARIABLES
  adding,      \* each POST: how far it is, the highest number it read, and
               \* whether another inserted since (history)
  deleting,    \* each DELETE: the takes it found and is about to delete
  deleted,     \* DELETEs that ended
  takeNumber   \* the rows of shot_takes, by the POST that added them; 0 for no row

takeVars == <<adding, deleting, deleted, takeNumber>>

TakesInit ==
  /\ adding = [r \in TakePosts |-> [at |-> "none", highest |-> 0, overtaken |-> FALSE]]
  /\ deleting = [d \in TakeDeletes |-> {}]
  /\ deleted = {}
  /\ takeNumber = [r \in TakePosts |-> 0]

\* Takes there are.
Takes == {r \in TakePosts : takeNumber[r] > 0}

\* Mutant of AddFinds: the takes are counted.
AddCounts(r) ==
  /\ adding[r].at = "none"
  /\ adding' = [adding EXCEPT ![r] =
       [at |-> "inserting", highest |-> Cardinality(Takes), overtaken |-> FALSE]]
  /\ UNCHANGED <<deleting, deleted, takeNumber>>

\* The take with the highest number is found, if there is one.
AddFinds(r) ==
  /\ adding[r].at = "none"
  /\ \E highest \in {0} \cup {takeNumber[q] : q \in Takes} :
       /\ \A q \in Takes : takeNumber[q] <= highest
       /\ adding' = [adding EXCEPT ![r] = [at |-> "inserting", highest |-> highest, overtaken |-> FALSE]]
  /\ UNCHANGED <<deleting, deleted, takeNumber>>

AddInserts(r) ==
  /\ adding[r].at = "inserting"
  /\ takeNumber' = [takeNumber EXCEPT ![r] = adding[r].highest + 1]
  /\ adding' = [q \in TakePosts |->
       IF q = r THEN [adding[q] EXCEPT !.at = "done"]
       ELSE [adding[q] EXCEPT !.overtaken = @ \/ adding[q].at = "inserting"]]
  /\ UNCHANGED <<deleting, deleted>>

\* The insert fails, or the process ends before it.
AddFails(r) ==
  /\ adding[r].at = "inserting"
  /\ adding' = [adding EXCEPT ![r].at = "done"]
  /\ UNCHANGED <<deleting, deleted, takeNumber>>

DeleteFinds(d, r) ==
  /\ deleting[d] = {} /\ d \notin deleted
  /\ r \in Takes
  /\ deleting' = [deleting EXCEPT ![d] = {r}]
  /\ UNCHANGED <<adding, deleted, takeNumber>>

\* The row is deleted, or is gone by now and the request fails.
DeleteRemoves(d) ==
  /\ deleting[d] # {}
  /\ takeNumber' = [r \in TakePosts |-> IF r \in deleting[d] THEN 0 ELSE takeNumber[r]]
  /\ deleting' = [deleting EXCEPT ![d] = {}]
  /\ deleted' = deleted \cup {d}
  /\ UNCHANGED adding

TakesNext ==
  \/ \E r \in TakePosts : AddFinds(r) \/ AddInserts(r) \/ AddFails(r)
  \/ \E d \in TakeDeletes : (\E r \in TakePosts : DeleteFinds(d, r)) \/ DeleteRemoves(d)

TakesSpec == TakesInit /\ [][TakesNext]_takeVars
=============================================================================
