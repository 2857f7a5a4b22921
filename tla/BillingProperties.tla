-------------------------- MODULE BillingProperties --------------------------
(* What the billing service's books promise, and what its tests say of its   *)
(* answers.                                                                  *)
EXTENDS Billing, FiniteSets

\* The types of the variables.
BillingTypeOK ==
  /\ reachable \in {"unknown", "up", "down"}
  /\ period \in Periods
  /\ meter \in [Customers \X Periods -> Int]
  /\ active \subseteq Customers
  /\ mem \in [Customers -> [sub : {"none", "active", "cancelled"}, balance : Int,
                            usage : Nat, bought : Nat, charged : Nat]]
  /\ req \in [Requests ->
       [at : {"none", "deduct", "charge", "topUp", "cancel", "cancelling", "done"},
        user : Customers, amount : Nat, allowance : Nat, period : Periods, seen : Int,
        outcome : {"pending", "granted", "refused", "dropped"}, status : {200, 402},
        booked : SUBSET {"database", "memory"}, lost : BOOLEAN]]
  /\ restarts \in 0 .. MaxRestarts
  /\ net \in [Customers \X Periods -> Int]
  /\ stale \subseteq Customers \X Periods

\* Whatever overlaps, fails or restarts, the credits a meter records are within
\* the allowance of a deduction that the database booked for that customer and
\* month: a charge may write over another, but never past what it checked.
WithinAllowance ==
  \A u \in Customers, p \in Periods :
    meter[<<u, p>>] > 0 =>
      \E r \in Requests :
        /\ Row(r) = <<u, p>> /\ "database" \in req[r].booked
        /\ meter[<<u, p>>] <= req[r].allowance

\* A meter records exactly the charges made less the credits bought, unless a
\* charge was computed from a meter that had changed by the time it was written.
RecordedUseExact ==
  \A u \in Customers, p \in Periods :
    <<u, p>> \notin stale => meter[<<u, p>>] = net[<<u, p>>]

\* An operation that returns is booked in one store and one that throws in none,
\* except that the database may have booked it too if its answer was lost.
BookedOnce ==
  \A r \in Requests :
    /\ req[r].outcome = "granted" =>
         IF req[r].lost THEN req[r].booked = {"database", "memory"}
                        ELSE Cardinality(req[r].booked) = 1
    /\ req[r].outcome = "refused" =>
         req[r].booked = IF req[r].lost THEN {"database"} ELSE {}

\* The balances in memory are what was bought less what was charged there, and
\* never negative, although operations start on the database and end here.
MemoryBooksBalance ==
  \A u \in Customers :
    /\ mem[u].balance = mem[u].bought - mem[u].charged
    /\ mem[u].usage = mem[u].charged
    /\ mem[u].balance >= 0

\* What the tests say (billing.test.ts:107, tests/integration/billing.test.ts:83):
\* a deduction refused for lack of credits is answered with 402.
RefusalsAnswered == \A r \in Requests : req[r].outcome = "refused" => req[r].status = 402
=============================================================================
