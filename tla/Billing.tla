------------------------------ MODULE Billing ------------------------------
(***************************************************************************)
(* The billing service's credits and subscriptions: routes/billing.ts,     *)
(* services/billingService.ts and db.ts.                                   *)
(*                                                                         *)
(* A deduction reads the customer's usage meter for the month from the     *)
(* database, checks the allowance of the tier the request names and then   *)
(* writes the meter: two awaited calls.  Any call may fail, with its       *)
(* effect or without it, and the operation then falls back, in the same    *)
(* step, to a balance in the memory of the process.  Whether the database  *)
(* answers is probed once and remembered.                                  *)
(*                                                                         *)
(* The routes hand the promise of the operation to res.json without        *)
(* awaiting it: the caller has its 200 before anything is decided, and an  *)
(* operation that throws is an unhandled rejection, which ends the process *)
(* and with it all that is in memory.  A write that was sent by then may   *)
(* still be carried out.                                                   *)
(***************************************************************************)
EXTENDS Integers

CONSTANTS
  Customers,
  Tiers,
  TierCredits,  \* allowance of each tier, in the unit of Costs
  Costs,        \* credit costs of the job types
  Amounts,      \* credits a top-up may add
  Requests,     \* requests for the asynchronous operations, each made once
  LastPeriod,   \* months are 0..LastPeriod
  MaxRestarts   \* restarts other than those a rejection causes

ASSUME CreditsAssumption ==
  /\ TierCredits \in [Tiers -> Nat]
  /\ Costs \subseteq Nat \ {0}
  /\ Amounts \subseteq Nat \ {0}
  /\ LastPeriod \in Nat
  /\ MaxRestarts \in Nat

VARIABLES
  reachable,  \* the remembered answer of the database probe
  period,     \* the current month
  meter,      \* usage_meters: credits used, per customer and month
  active,     \* customers with an active row in subscriptions
  mem,        \* the in-memory stores, per customer
  req,        \* the requests, with what became of them
  restarts,
  net,        \* history: the sum of the changes made to each meter
  stale       \* history: meters with a change that a charge wrote over

billingVars == <<reachable, period, meter, active, mem, req, restarts, net, stale>>

Periods == 0 .. LastPeriod

\* memSubscriptions, memCreditBalances and the sums of memTransactions.
NoMemory == [sub |-> "none", balance |-> 0, usage |-> 0, bought |-> 0, charged |-> 0]

Arrived(u, at, amount, allowance) ==
  [at |-> at, user |-> u, amount |-> amount, allowance |-> allowance, period |-> period,
   seen |-> 0, outcome |-> "pending", status |-> 200, booked |-> {}, lost |-> FALSE]

\* A request nobody has made; its customer and numbers mean nothing.
Unmade(r) == req[r].at = "none"

\* The operation awaits the database.
Flying(r) ==
  /\ req[r].at \in {"deduct", "charge", "topUp", "cancel", "cancelling"}
  /\ req[r].outcome = "pending"

\* What it awaits is a write.
Sent(r) ==
  \/ req[r].at \in {"charge", "cancelling"}
  \/ req[r].at = "topUp" /\ reachable = "up"

\* The row of usage_meters the request is about.
Row(r) == <<req[r].user, req[r].period>>

BillingInit ==
  /\ reachable = "unknown"
  /\ period = 0
  /\ meter = [k \in Customers \X Periods |-> 0]
  /\ active \in SUBSET Customers
  /\ mem = [u \in Customers |-> NoMemory]
  /\ \E u \in Customers : req = [r \in Requests |-> Arrived(u, "none", 0, 0)]
  /\ restarts = 0
  /\ net = meter
  /\ stale = {}

-----------------------------------------------------------------------------
(* The routes.                                                              *)

\* POST /subscribe, which knows only the memory: a user it has seen, even one
\* who cancelled, is refused with 409.
Subscribe(u) ==
  /\ mem[u].sub = "none"
  /\ mem' = [mem EXCEPT ![u].sub = "active"]
  /\ UNCHANGED <<reachable, period, meter, active, req, restarts, net, stale>>

Arrives(r, arrived) ==
  /\ Unmade(r)
  /\ req' = [req EXCEPT ![r] = arrived]
  /\ UNCHANGED <<reachable, period, meter, active, mem, restarts, net, stale>>

DeductCredits(r, u, cost, tier) == Arrives(r, Arrived(u, "deduct", cost, TierCredits[tier]))

TopUp(r, u, credits) == Arrives(r, Arrived(u, "topUp", credits, 0))

CancelSubscription(r, u) == Arrives(r, Arrived(u, "cancel", 0, 0))

-----------------------------------------------------------------------------
(* How an operation ends.                                                   *)

\* It returns, leaving what it did in the stores of booked.
Return(r, booked, lost) ==
  /\ req' = [req EXCEPT ![r].at = "done", ![r].outcome = "granted",
                        ![r].booked = booked, ![r].lost = lost]
  /\ UNCHANGED reachable

\* The process ends: what was in memory or under way is gone.
ProcessEnds ==
  /\ reachable' = "unknown"
  /\ mem' = [u \in Customers |-> NoMemory]

\* Nobody waits for the operation any more; its write may be with the database.
Dropped(r) == [req[r] EXCEPT !.at = IF Sent(r) THEN @ ELSE "done", !.outcome = "dropped"]

\* It throws, which nobody handles.
Throw(r, booked) ==
  /\ ProcessEnds
  /\ req' = [q \in Requests |->
               IF q = r THEN [req[r] EXCEPT !.at = "done", !.outcome = "refused",
                                            !.booked = booked, !.lost = booked # {}]
               ELSE IF Flying(q) THEN Dropped(q) ELSE req[q]]

\* Mutants of DeductFallback: too little in memory is no error ...
DeductSwallowed(r, before) ==
  LET u == req[r].user
      cost == req[r].amount
  IN IF mem[u].balance < cost
     THEN UNCHANGED mem /\ Return(r, before, FALSE)
     ELSE /\ mem' = [mem EXCEPT ![u].balance = @ - cost, ![u].usage = @ + cost,
                                ![u].charged = @ + cost]
          /\ Return(r, before \cup {"memory"}, before # {})

\* ... or the balance in memory is not looked at.
DeductUnchecked(r, before) ==
  LET u == req[r].user
      cost == req[r].amount
  IN /\ mem' = [mem EXCEPT ![u].balance = @ - cost, ![u].usage = @ + cost,
                           ![u].charged = @ + cost]
     /\ Return(r, before \cup {"memory"}, before # {})

\* The catch blocks, when a database call failed: the operation again, in
\* memory.  before is what the database has booked although its answer was lost.
DeductFallback(r, before) ==
  LET u == req[r].user
      cost == req[r].amount
  IN IF mem[u].balance < cost
     THEN Throw(r, before)
     ELSE /\ mem' = [mem EXCEPT ![u].balance = @ - cost, ![u].usage = @ + cost,
                                ![u].charged = @ + cost]
          /\ Return(r, before \cup {"memory"}, before # {})

TopUpFallback(r, before) ==
  LET u == req[r].user
      credits == req[r].amount
  IN /\ mem' = [mem EXCEPT ![u].balance = @ + credits, ![u].bought = @ + credits]
     /\ Return(r, before \cup {"memory"}, before # {})

\* Mutant of CancelFallback: the status is spelt another way.
CancelMisspelt(r, before) ==
  LET u == req[r].user
  IN IF mem[u].sub # "active"
     THEN Throw(r, before)
     ELSE /\ mem' = [mem EXCEPT ![u].sub = "canceled"]
          /\ Return(r, before \cup {"memory"}, before # {})

CancelFallback(r, before) ==
  LET u == req[r].user
  IN IF mem[u].sub # "active"
     THEN Throw(r, before)
     ELSE /\ mem' = [mem EXCEPT ![u].sub = "cancelled"]
          /\ Return(r, before \cup {"memory"}, before # {})

-----------------------------------------------------------------------------
(* The database calls.                                                      *)

\* isDatabaseReachable: the first operation probes, the others wait for the
\* same answer, and the process keeps it.
ProbeAnswers(answer) ==
  /\ reachable = "unknown"
  /\ \E r \in Requests : Flying(r)
  /\ reachable' = answer
  /\ UNCHANGED <<period, meter, active, mem, req, restarts, net, stale>>

\* Mutant of ReadMeter: any credit left will do.
ReadMeterLax(r) ==
  /\ req[r].at = "deduct" /\ reachable = "up"
  /\ IF req[r].allowance - meter[Row(r)] <= 0
     THEN Throw(r, {})
     ELSE /\ req' = [req EXCEPT ![r].at = "charge", ![r].seen = meter[Row(r)]]
          /\ UNCHANGED <<reachable, mem>>
  /\ UNCHANGED <<period, meter, active, restarts, net, stale>>

\* The meter is read; too little left throws, past the fallback.
ReadMeter(r) ==
  /\ req[r].at = "deduct" /\ reachable = "up"
  /\ IF req[r].allowance - meter[Row(r)] < req[r].amount
     THEN Throw(r, {})
     ELSE /\ req' = [req EXCEPT ![r].at = "charge", ![r].seen = meter[Row(r)]]
          /\ UNCHANGED <<reachable, mem>>
  /\ UNCHANGED <<period, meter, active, restarts, net, stale>>

\* Mutant of ChargeMeter: an existing row is overwritten with the cost.
ChargeAfresh(r) ==
  /\ req[r].at = "charge"
  /\ meter' = [meter EXCEPT ![Row(r)] = req[r].amount]
  /\ net' = [net EXCEPT ![Row(r)] = @ + req[r].amount]
  /\ stale' = IF meter[Row(r)] = req[r].seen THEN stale ELSE stale \cup {Row(r)}

\* The meter is set to what was read and the cost, whatever it is by now.
ChargeMeter(r) ==
  /\ req[r].at = "charge"
  /\ meter' = [meter EXCEPT ![Row(r)] = req[r].seen + req[r].amount]
  /\ net' = [net EXCEPT ![Row(r)] = @ + req[r].amount]
  /\ stale' = IF meter[Row(r)] = req[r].seen THEN stale ELSE stale \cup {Row(r)}

\* The upsert lowers the meter by what is bought, in one statement.  (The
\* query before it only finds the tier the answer shows.)
CreditMeter(r) ==
  /\ req[r].at = "topUp"
  /\ meter' = [meter EXCEPT ![Row(r)] = @ - req[r].amount]
  /\ net' = [net EXCEPT ![Row(r)] = @ - req[r].amount]
  /\ UNCHANGED stale

\* cancelSubscription finds an active row, or throws past the fallback.
FindActive(r) ==
  /\ req[r].at = "cancel" /\ reachable = "up"
  /\ IF req[r].user \notin active
     THEN Throw(r, {})
     ELSE req' = [req EXCEPT ![r].at = "cancelling"] /\ UNCHANGED <<reachable, mem>>
  /\ UNCHANGED <<period, meter, active, restarts, net, stale>>

\* The write of an operation is answered.
Charged(r) == ChargeMeter(r) /\ Return(r, {"database"}, FALSE) /\ UNCHANGED <<active, mem>>

Credited(r) ==
  /\ reachable = "up"
  /\ CreditMeter(r) /\ Return(r, {"database"}, FALSE)
  /\ UNCHANGED <<active, mem>>

CancelRow(r) == req[r].at = "cancelling" /\ active' = active \ {req[r].user}

Cancelled(r) ==
  /\ CancelRow(r) /\ Return(r, {"database"}, FALSE)
  /\ UNCHANGED <<meter, mem, net, stale>>

\* The write is made, but its answer is lost.
ChargeLost(r) == ChargeMeter(r) /\ DeductFallback(r, {"database"}) /\ UNCHANGED active

CreditLost(r) ==
  /\ reachable = "up"
  /\ CreditMeter(r) /\ TopUpFallback(r, {"database"})
  /\ UNCHANGED active

CancelLost(r) ==
  /\ CancelRow(r) /\ CancelFallback(r, {"database"})
  /\ UNCHANGED <<meter, net, stale>>

\* A call fails without effect, or the probe said that it would.
CallFails(r) ==
  /\ reachable # "unknown"
  /\ \/ req[r].at \in {"deduct", "charge"} /\ DeductFallback(r, {})
     \/ req[r].at = "topUp" /\ TopUpFallback(r, {})
     \/ req[r].at \in {"cancel", "cancelling"} /\ CancelFallback(r, {})
  /\ UNCHANGED <<meter, active, net, stale>>

Write(r) ==
  /\ Flying(r)
  /\ \/ Charged(r) \/ Credited(r) \/ Cancelled(r)
     \/ ChargeLost(r) \/ CreditLost(r) \/ CancelLost(r)
     \/ CallFails(r)
  /\ UNCHANGED <<period, restarts>>

\* The database carries out a write although the process that sent it has ended.
CommitsLate(r) ==
  /\ req[r].outcome = "dropped"
  /\ \/ (ChargeMeter(r) \/ CreditMeter(r)) /\ UNCHANGED active
     \/ CancelRow(r) /\ UNCHANGED <<meter, net, stale>>
  /\ req' = [req EXCEPT ![r].at = "done", ![r].booked = {"database"}]
  /\ UNCHANGED <<reachable, period, mem, restarts>>

-----------------------------------------------------------------------------
NewPeriod ==
  /\ period < LastPeriod
  /\ period' = period + 1
  /\ UNCHANGED <<reachable, meter, active, mem, req, restarts, net, stale>>

\* A deployment, or the end of the process for a reason not modelled.
Restart ==
  /\ restarts < MaxRestarts
  /\ restarts' = restarts + 1
  /\ ProcessEnds
  /\ req' = [r \in Requests |-> IF Flying(r) THEN Dropped(r) ELSE req[r]]
  /\ UNCHANGED <<period, meter, active, net, stale>>

BillingNext ==
  \/ \E u \in Customers : Subscribe(u)
  \/ \E r \in Requests, u \in Customers :
       \/ \E cost \in Costs, tier \in Tiers : DeductCredits(r, u, cost, tier)
       \/ \E credits \in Amounts : TopUp(r, u, credits)
       \/ CancelSubscription(r, u)
  \/ \E answer \in {"up", "down"} : ProbeAnswers(answer)
  \/ \E r \in Requests : ReadMeter(r) \/ FindActive(r) \/ Write(r) \/ CommitsLate(r)
  \/ NewPeriod
  \/ Restart

BillingSpec == BillingInit /\ [][BillingNext]_billingVars
=============================================================================
