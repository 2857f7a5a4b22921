---------------------------- MODULE BillingProofs ----------------------------
(***************************************************************************)
(* Proofs about the billing service's books, for any number of customers   *)
(* and requests, any costs, allowances and months, and restarts at any     *)
(* moment.                                                                 *)
(***************************************************************************)
EXTENDS BillingProperties, FiniteSetTheorems, TLAPS

Stores == {"database", "memory"}

RequestRecord ==
  [at : {"none", "deduct", "charge", "topUp", "cancel", "cancelling", "done"},
   user : Customers, amount : Nat, allowance : Nat, period : Periods, seen : Int,
   outcome : {"pending", "granted", "refused", "dropped"}, status : {200, 402},
   booked : SUBSET Stores, lost : BOOLEAN]

MemoryRecord == [sub : {"none", "active", "cancelled"}, balance : Int,
                 usage : Nat, bought : Nat, charged : Nat]

BookedWell(x) ==
  /\ x.outcome = "granted" =>
       IF x.lost THEN x.booked = Stores ELSE Cardinality(x.booked) = 1
  /\ x.outcome = "refused" => x.booked = IF x.lost THEN {"database"} ELSE {}

\* A request is booked when it ends, and a charge that was checked fits.
GoodRequest(x) ==
  /\ x \in RequestRecord
  /\ BookedWell(x)
  /\ x.at # "done" => x.booked = {} /\ x.outcome \in {"pending", "dropped"}
  /\ x.at \in {"none", "deduct", "cancel"} => x.outcome = "pending"
  /\ x.at = "charge" => x.seen + x.amount <= x.allowance

GoodMemory(m) ==
  /\ m \in MemoryRecord
  /\ m.balance = m.bought - m.charged /\ m.usage = m.charged /\ m.balance >= 0

RequestsInv == req \in [Requests -> RequestRecord] /\ \A r \in Requests : GoodRequest(req[r])

MemoryInv == mem \in [Customers -> MemoryRecord] /\ \A u \in Customers : GoodMemory(mem[u])

MeterInv ==
  /\ meter \in [Customers \X Periods -> Int]
  /\ net \in [Customers \X Periods -> Int]
  /\ stale \subseteq Customers \X Periods
  /\ RecordedUseExact

\* Nothing in memory, and the database not probed yet, are states to start from.
ProcessInv ==
  /\ reachable \in {"unknown", "up", "down"}
  /\ period \in Periods
  /\ active \subseteq Customers
  /\ restarts \in 0 .. MaxRestarts

BillingInv == ProcessInv /\ RequestsInv /\ MemoryInv /\ MeterInv /\ WithinAllowance

-----------------------------------------------------------------------------
(* How operations end.                                                      *)

\* A step keeps what the database has booked, with the row and the allowance.
KeepsBookings ==
  \A q \in Requests :
    "database" \in req[q].booked =>
      /\ "database" \in req'[q].booked
      /\ req'[q].user = req[q].user /\ req'[q].period = req[q].period
      /\ req'[q].allowance = req[q].allowance

\* What is left of request r when its operation has ended with before booked.
Ended(r, before) ==
  /\ RequestsInv' /\ MemoryInv' /\ reachable' \in {"unknown", "up", "down"}
  /\ KeepsBookings
  /\ before \subseteq req'[r].booked
  /\ req'[r].user = req[r].user /\ req'[r].period = req[r].period
  /\ req'[r].allowance = req[r].allowance

\* Replacing one request that was not booked yet.
LEMMA RequestReplaced ==
  ASSUME RequestsInv, NEW r \in Requests, NEW x \in RequestRecord, GoodRequest(x),
         req[r].at # "done", req' = [req EXCEPT ![r] = x]
  PROVE  RequestsInv' /\ KeepsBookings /\ req'[r] = x
<1>1. /\ req' \in [Requests -> RequestRecord] /\ req'[r] = x
      /\ \A q \in Requests \ {r} : req'[q] = req[q]
  BY DEF RequestsInv
<1>2. RequestsInv'
  BY <1>1 DEF RequestsInv
<1>3. req[r].booked = {}
  BY DEF RequestsInv, GoodRequest
<1>4. KeepsBookings
  BY <1>1, <1>3 DEF KeepsBookings
<1> QED BY <1>1, <1>2, <1>4

LEMMA ReturnEnds ==
  ASSUME RequestsInv, NEW r \in Requests, Flying(r), NEW booked \in SUBSET Stores,
         NEW lost \in BOOLEAN,
         IF lost THEN booked = Stores ELSE Cardinality(booked) = 1,
         Return(r, booked, lost), MemoryInv', reachable \in {"unknown", "up", "down"}
  PROVE  Ended(r, booked)
<1>1. req[r] \in RequestRecord /\ req[r].at # "done"
  BY DEF RequestsInv, Flying
<1>2. PICK x \in RequestRecord :
        x = [req[r] EXCEPT !.at = "done", !.outcome = "granted", !.booked = booked, !.lost = lost]
  <2>1. [req[r] EXCEPT !.at = "done", !.outcome = "granted", !.booked = booked, !.lost = lost]
          \in RequestRecord
    BY <1>1, Zenon DEF RequestRecord
  <2> QED BY <2>1
<1>3. req' = [req EXCEPT ![r] = x]
  BY <1>2 DEF Return, RequestsInv
<1>4. /\ x.at = "done" /\ x.outcome = "granted" /\ x.booked = booked /\ x.user = req[r].user
      /\ x.period = req[r].period /\ x.allowance = req[r].allowance
  BY <1>1, <1>2 DEF RequestRecord
<1>5. x.lost = lost
  BY <1>1, <1>2, Zenon DEF RequestRecord
<1>6. BookedWell(x)
  BY <1>4, <1>5 DEF BookedWell
<1>7. GoodRequest(x)
  BY <1>4, <1>6 DEF GoodRequest
<1>8. RequestsInv' /\ KeepsBookings /\ req'[r] = x
  BY <1>1, <1>3, <1>7, RequestReplaced
<1> QED BY <1>4, <1>8 DEF Ended, Return

LEMMA NoMemoryIsGood == GoodMemory(NoMemory)
BY DEF GoodMemory, NoMemory, MemoryRecord

LEMMA ProcessEndsKeeps ==
  ASSUME ProcessEnds
  PROVE  MemoryInv' /\ reachable' = "unknown"
BY NoMemoryIsGood DEF ProcessEnds, MemoryInv, GoodMemory

\* An operation that the end of the process cuts off has booked nothing yet.
LEMMA DroppedIsGood ==
  ASSUME RequestsInv, NEW q \in Requests, Flying(q)
  PROVE  GoodRequest(Dropped(q)) /\ Dropped(q).booked = {} /\ req[q].booked = {}
<1>1. req[q] \in RequestRecord /\ req[q].booked = {}
  BY DEF RequestsInv, GoodRequest, Flying
<1>2. PICK x \in RequestRecord : x = Dropped(q)
  <2>1. PICK at \in {"none", "deduct", "charge", "topUp", "cancel", "cancelling", "done"} :
          at = IF Sent(q) THEN req[q].at ELSE "done"
    BY <1>1 DEF RequestRecord
  <2>2. [req[q] EXCEPT !.at = at, !.outcome = "dropped"] \in RequestRecord
    BY <1>1, Zenon DEF RequestRecord
  <2>3. Dropped(q) = [req[q] EXCEPT !.at = at, !.outcome = "dropped"]
    BY <1>1, <2>1 DEF Dropped, RequestRecord
  <2> QED BY <2>2, <2>3
<1>3. /\ x.outcome = "dropped" /\ x.booked = {}
      /\ x.at = "done" \/ (x.at = req[q].at /\ x.at \in {"charge", "cancelling", "topUp"})
      /\ x.seen = req[q].seen /\ x.amount = req[q].amount /\ x.allowance = req[q].allowance
  BY <1>1, <1>2 DEF Dropped, Sent, RequestRecord
<1>4. GoodRequest(req[q])
  BY DEF RequestsInv
<1> QED BY <1>1, <1>2, <1>3, <1>4 DEF GoodRequest, BookedWell

LEMMA ThrowEnds ==
  ASSUME RequestsInv, NEW r \in Requests, Flying(r), NEW before \in {{}, {"database"}},
         Throw(r, before)
  PROVE  Ended(r, before)
<1>1. req[r] \in RequestRecord
  BY DEF RequestsInv
<1>2. PICK b \in BOOLEAN : b = (before # {})
  OBVIOUS
<1>3. PICK x \in RequestRecord :
        x = [req[r] EXCEPT !.at = "done", !.outcome = "refused", !.booked = before, !.lost = b]
  <2>1. before \in SUBSET Stores
    BY DEF Stores
  <2>2. [req[r] EXCEPT !.at = "done", !.outcome = "refused", !.booked = before, !.lost = b]
          \in RequestRecord
    BY <1>1, <2>1, Zenon DEF RequestRecord
  <2> QED BY <2>2
<1>4. /\ x.at = "done" /\ x.outcome = "refused" /\ x.booked = before /\ x.user = req[r].user
      /\ x.period = req[r].period /\ x.allowance = req[r].allowance
  BY <1>1, <1>3 DEF RequestRecord
<1>5. x.lost = b
  BY <1>1, <1>3, Zenon DEF RequestRecord
<1>6. GoodRequest(x)
  BY <1>2, <1>4, <1>5 DEF GoodRequest, BookedWell
<1>7. req' = [q \in Requests |-> IF q = r THEN x ELSE IF Flying(q) THEN Dropped(q) ELSE req[q]]
  BY <1>2, <1>3 DEF Throw
<1>8. ASSUME NEW q \in Requests
      PROVE  GoodRequest(req'[q])
             /\ ("database" \in req[q].booked => q # r /\ req'[q] = req[q])
  <2>1. CASE q = r
    BY <1>6, <1>7, <2>1, DroppedIsGood
  <2>2. CASE q # r /\ Flying(q)
    BY <1>7, <2>2, DroppedIsGood
  <2>3. CASE q # r /\ ~Flying(q)
    BY <1>7, <2>3 DEF RequestsInv
  <2> QED BY <2>1, <2>2, <2>3
<1>9. RequestsInv' /\ KeepsBookings
  <2>1. req' \in [Requests -> RequestRecord]
    BY <1>7, <1>8 DEF GoodRequest
  <2> QED BY <1>8, <2>1 DEF RequestsInv, KeepsBookings
<1>10. MemoryInv' /\ reachable' = "unknown"
  BY ProcessEndsKeeps DEF Throw
<1> QED BY <1>4, <1>7, <1>9, <1>10 DEF Ended

-----------------------------------------------------------------------------
(* The fallbacks.                                                           *)

LEMMA MemoryReplaced ==
  ASSUME MemoryInv, NEW u \in Customers, NEW m, GoodMemory(m), mem' = [mem EXCEPT ![u] = m]
  PROVE  MemoryInv'
BY DEF MemoryInv, GoodMemory

\* What a fallback books: the memory, and the database too if it had before.
LEMMA FallbackEnds ==
  ASSUME RequestsInv, NEW r \in Requests, Flying(r), NEW before \in {{}, {"database"}},
         Return(r, before \cup {"memory"}, before # {}), MemoryInv',
         reachable \in {"unknown", "up", "down"}
  PROVE  Ended(r, before)
<1>1. PICK lost \in BOOLEAN, booked \in SUBSET Stores :
        lost = (before # {}) /\ booked = before \cup {"memory"}
  BY DEF Stores
<1>2. IF lost THEN booked = Stores ELSE Cardinality(booked) = 1
  <2>1. CASE before = {}
    <3>1. lost = FALSE /\ booked = {"memory"}
      BY <1>1, <2>1
    <3>2. Cardinality({"memory"}) = 1
      BY FS_Singleton
    <3> QED BY <3>1, <3>2
  <2>2. CASE before = {"database"}
    BY <1>1, <2>2 DEF Stores
  <2> QED BY <2>1, <2>2
<1>3. Return(r, booked, lost)
  BY <1>1
<1>4. Ended(r, booked)
  BY <1>2, <1>3, ReturnEnds
<1> QED BY <1>1, <1>4 DEF Ended

LEMMA DeductFallbackEnds ==
  ASSUME RequestsInv, MemoryInv, NEW r \in Requests, Flying(r),
         NEW before \in {{}, {"database"}}, DeductFallback(r, before),
         reachable \in {"unknown", "up", "down"}
  PROVE  Ended(r, before)
<1>1. PICK u \in Customers, cost \in Nat : u = req[r].user /\ cost = req[r].amount
  BY DEF RequestsInv, RequestRecord
<1>2. CASE mem[u].balance < cost
  BY <1>1, <1>2, ThrowEnds DEF DeductFallback
<1>3. CASE ~(mem[u].balance < cost)
  <2>1. /\ mem' = [mem EXCEPT ![u].balance = @ - cost, ![u].usage = @ + cost,
                              ![u].charged = @ + cost]
        /\ Return(r, before \cup {"memory"}, before # {})
    BY <1>1, <1>3 DEF DeductFallback
  <2>2. PICK old \in MemoryRecord : old = mem[u] /\ GoodMemory(old)
    BY DEF MemoryInv
  <2>3. PICK m \in MemoryRecord :
          m = [old EXCEPT !.balance = @ - cost, !.usage = @ + cost, !.charged = @ + cost]
    <3>1. PICK b \in Int, n \in Nat, c \in Nat :
            b = old.balance - cost /\ n = old.usage + cost /\ c = old.charged + cost
      BY DEF MemoryRecord
    <3>2. [old EXCEPT !.balance = b, !.usage = n, !.charged = c] \in MemoryRecord
      BY DEF MemoryRecord
    <3>3. [old EXCEPT !.balance = @ - cost, !.usage = @ + cost, !.charged = @ + cost]
            = [old EXCEPT !.balance = b, !.usage = n, !.charged = c]
      BY <3>1 DEF MemoryRecord
    <3> QED BY <3>2, <3>3
  <2>4. GoodMemory(m)
    BY <1>3, <2>2, <2>3 DEF GoodMemory, MemoryRecord
  <2>5. mem' = [mem EXCEPT ![u] = m]
    BY <2>1, <2>2, <2>3 DEF MemoryInv
  <2>6. MemoryInv'
    BY <2>4, <2>5, MemoryReplaced
  <2> QED BY <2>1, <2>6, FallbackEnds
<1> QED BY <1>2, <1>3

LEMMA TopUpFallbackEnds ==
  ASSUME RequestsInv, MemoryInv, NEW r \in Requests, Flying(r),
         NEW before \in {{}, {"database"}}, TopUpFallback(r, before),
         reachable \in {"unknown", "up", "down"}
  PROVE  Ended(r, before)
<1>1. PICK u \in Customers, credits \in Nat : u = req[r].user /\ credits = req[r].amount
  BY DEF RequestsInv, RequestRecord
<1>2. /\ mem' = [mem EXCEPT ![u].balance = @ + credits, ![u].bought = @ + credits]
      /\ Return(r, before \cup {"memory"}, before # {})
  BY <1>1 DEF TopUpFallback
<1>3. PICK old \in MemoryRecord : old = mem[u] /\ GoodMemory(old)
  BY DEF MemoryInv
<1>4. PICK m \in MemoryRecord :
        m = [old EXCEPT !.balance = @ + credits, !.bought = @ + credits]
  <2>1. PICK b \in Int, n \in Nat : b = old.balance + credits /\ n = old.bought + credits
    BY DEF MemoryRecord
  <2>2. [old EXCEPT !.balance = b, !.bought = n] \in MemoryRecord
    BY DEF MemoryRecord
  <2>3. [old EXCEPT !.balance = @ + credits, !.bought = @ + credits]
          = [old EXCEPT !.balance = b, !.bought = n]
    BY <2>1 DEF MemoryRecord
  <2> QED BY <2>2, <2>3
<1>5. GoodMemory(m)
  BY <1>3, <1>4 DEF GoodMemory, MemoryRecord
<1>6. mem' = [mem EXCEPT ![u] = m]
  BY <1>2, <1>3, <1>4 DEF MemoryInv
<1>7. MemoryInv'
  BY <1>5, <1>6, MemoryReplaced
<1> QED BY <1>2, <1>7, FallbackEnds

LEMMA CancelFallbackEnds ==
  ASSUME RequestsInv, MemoryInv, NEW r \in Requests, Flying(r),
         NEW before \in {{}, {"database"}}, CancelFallback(r, before),
         reachable \in {"unknown", "up", "down"}
  PROVE  Ended(r, before)
<1>1. PICK u \in Customers : u = req[r].user
  BY DEF RequestsInv, RequestRecord
<1>2. CASE mem[u].sub # "active"
  BY <1>1, <1>2, ThrowEnds DEF CancelFallback
<1>3. CASE ~(mem[u].sub # "active")
  <2>1. /\ mem' = [mem EXCEPT ![u].sub = "cancelled"]
        /\ Return(r, before \cup {"memory"}, before # {})
    BY <1>1, <1>3 DEF CancelFallback
  <2>2. PICK old \in MemoryRecord : old = mem[u] /\ GoodMemory(old)
    BY DEF MemoryInv
  <2>3. PICK m \in MemoryRecord : m = [old EXCEPT !.sub = "cancelled"]
    BY DEF MemoryRecord
  <2>4. GoodMemory(m)
    BY <2>2, <2>3 DEF GoodMemory, MemoryRecord
  <2>5. mem' = [mem EXCEPT ![u] = m]
    BY <2>1, <2>2, <2>3 DEF MemoryInv
  <2>6. MemoryInv'
    BY <2>4, <2>5, MemoryReplaced
  <2> QED BY <2>1, <2>6, FallbackEnds
<1> QED BY <1>2, <1>3

-----------------------------------------------------------------------------
(* The meters.                                                              *)

\* A meter that does not grow stays within what was allowed.
LEMMA NoGrowth ==
  ASSUME MeterInv, WithinAllowance, RequestsInv, RequestsInv', KeepsBookings,
         meter' \in [Customers \X Periods -> Int],
         \A k \in Customers \X Periods : meter'[k] <= meter[k]
  PROVE  WithinAllowance'
<1> SUFFICES ASSUME NEW u \in Customers, NEW p \in Periods, meter'[<<u, p>>] > 0
             PROVE  \E q \in Requests :
                      /\ <<req'[q].user, req'[q].period>> = <<u, p>>
                      /\ "database" \in req'[q].booked
                      /\ meter'[<<u, p>>] <= req'[q].allowance
  BY DEF WithinAllowance, Row
<1>1. <<u, p>> \in Customers \X Periods
  OBVIOUS
<1>2. /\ meter[<<u, p>>] \in Int /\ meter'[<<u, p>>] \in Int /\ meter'[<<u, p>>] <= meter[<<u, p>>]
  BY <1>1 DEF MeterInv
<1>3. PICK q \in Requests :
        Row(q) = <<u, p>> /\ "database" \in req[q].booked /\ meter[<<u, p>>] <= req[q].allowance
  BY <1>2 DEF WithinAllowance
<1>4. req[q].allowance \in Nat
  BY DEF RequestsInv, RequestRecord
<1> QED BY <1>2, <1>3, <1>4 DEF KeepsBookings, Row

LEMMA RowIsRow ==
  ASSUME RequestsInv, NEW r \in Requests
  PROVE  /\ Row(r) \in Customers \X Periods
         /\ req[r].user \in Customers /\ req[r].period \in Periods
         /\ req[r].amount \in Nat /\ req[r].allowance \in Nat /\ req[r].seen \in Int
BY DEF RequestsInv, RequestRecord, Row

LEMMA CreditMeterKeeps ==
  ASSUME BillingInv, NEW r \in Requests, CreditMeter(r), Ended(r, {"database"})
  PROVE  MeterInv' /\ WithinAllowance'
<1>1. PICK k \in Customers \X Periods, n \in Nat : k = Row(r) /\ n = req[r].amount
  BY RowIsRow DEF BillingInv
<1>2. /\ meter' = [meter EXCEPT ![k] = @ - n] /\ net' = [net EXCEPT ![k] = @ - n]
      /\ stale' = stale
  BY <1>1 DEF CreditMeter
<1>3. /\ meter' \in [Customers \X Periods -> Int] /\ net' \in [Customers \X Periods -> Int]
      /\ \A j \in Customers \X Periods : meter'[j] <= meter[j]
  BY <1>2 DEF BillingInv, MeterInv
<1>4. RecordedUseExact'
  BY <1>2 DEF BillingInv, MeterInv, RecordedUseExact
<1>5. WithinAllowance'
  BY <1>3, NoGrowth DEF Ended, BillingInv
<1> QED BY <1>2, <1>3, <1>4, <1>5 DEF BillingInv, MeterInv

LEMMA ChargeMeterKeeps ==
  ASSUME BillingInv, NEW r \in Requests, ChargeMeter(r), Ended(r, {"database"})
  PROVE  MeterInv' /\ WithinAllowance'
<1>1. PICK u \in Customers, p \in Periods : u = req[r].user /\ p = req[r].period
  BY RowIsRow DEF BillingInv
<1>2. PICK n \in Nat, seen \in Int : n = req[r].amount /\ seen = req[r].seen
  BY RowIsRow DEF BillingInv
<1>3. /\ Row(r) = <<u, p>> /\ <<u, p>> \in Customers \X Periods
      /\ meter' = [meter EXCEPT ![<<u, p>>] = seen + n]
      /\ net' = [net EXCEPT ![<<u, p>>] = @ + n]
      /\ stale' = IF meter[<<u, p>>] = seen THEN stale ELSE stale \cup {<<u, p>>}
  BY <1>1, <1>2 DEF ChargeMeter, Row
<1>4. /\ meter' \in [Customers \X Periods -> Int] /\ net' \in [Customers \X Periods -> Int]
      /\ stale' \subseteq Customers \X Periods
  BY <1>3 DEF BillingInv, MeterInv
<1>5. RecordedUseExact'
  <2> SUFFICES ASSUME NEW v \in Customers, NEW q \in Periods, <<v, q>> \notin stale'
               PROVE  meter'[<<v, q>>] = net'[<<v, q>>]
    BY DEF RecordedUseExact
  <2>1. <<v, q>> \notin stale /\ meter[<<v, q>>] = net[<<v, q>>]
    BY <1>3 DEF BillingInv, MeterInv, RecordedUseExact
  <2>2. CASE <<v, q>> = <<u, p>>
    BY <1>3, <2>1, <2>2 DEF BillingInv, MeterInv
  <2>3. CASE <<v, q>> # <<u, p>>
    BY <1>3, <2>1, <2>3 DEF BillingInv, MeterInv
  <2> QED BY <2>2, <2>3
<1>6. seen + n <= req[r].allowance
  BY <1>2 DEF ChargeMeter, BillingInv, RequestsInv, GoodRequest
<1>7. /\ "database" \in req'[r].booked /\ req'[r].user = u /\ req'[r].period = p
      /\ req'[r].allowance = req[r].allowance
  BY <1>1 DEF Ended
<1>8. WithinAllowance'
  <2> SUFFICES ASSUME NEW v \in Customers, NEW q \in Periods, meter'[<<v, q>>] > 0
               PROVE  \E s \in Requests :
                        /\ <<req'[s].user, req'[s].period>> = <<v, q>>
                        /\ "database" \in req'[s].booked
                        /\ meter'[<<v, q>>] <= req'[s].allowance
    BY DEF WithinAllowance, Row
  <2>1. CASE <<v, q>> = <<u, p>>
    <3>1. meter'[<<v, q>>] = seen + n
      BY <1>3, <2>1 DEF BillingInv, MeterInv
    <3> QED BY <1>6, <1>7, <2>1, <3>1
  <2>2. CASE <<v, q>> # <<u, p>>
    <3>1. meter'[<<v, q>>] = meter[<<v, q>>]
      BY <1>3, <2>2 DEF BillingInv, MeterInv
    <3>2. PICK s \in Requests :
            Row(s) = <<v, q>> /\ "database" \in req[s].booked /\ meter[<<v, q>>] <= req[s].allowance
      BY <3>1 DEF BillingInv, WithinAllowance
    <3> QED BY <3>1, <3>2 DEF Ended, KeepsBookings, Row
  <2> QED BY <2>1, <2>2
<1> QED BY <1>4, <1>5, <1>8 DEF MeterInv

LEMMA MeterUnchanged ==
  ASSUME BillingInv, RequestsInv', KeepsBookings, UNCHANGED <<meter, net, stale>>
  PROVE  MeterInv' /\ WithinAllowance'
<1>1. MeterInv'
  BY DEF BillingInv, MeterInv, RecordedUseExact
<1>2. \A k \in Customers \X Periods : meter'[k] <= meter[k]
  BY DEF BillingInv, MeterInv
<1>3. WithinAllowance'
  BY <1>1, <1>2, NoGrowth DEF BillingInv, MeterInv
<1> QED BY <1>1, <1>3

-----------------------------------------------------------------------------
(* The steps.                                                               *)

\* An operation that ends and leaves the meters alone.
LEMMA EndedKeeps ==
  ASSUME BillingInv, NEW r \in Requests, Ended(r, {}), active' \subseteq active,
         UNCHANGED <<period, restarts, meter, net, stale>>
  PROVE  BillingInv'
<1>1. MeterInv' /\ WithinAllowance'
  BY MeterUnchanged DEF Ended
<1> QED BY <1>1 DEF Ended, BillingInv, ProcessInv

LEMMA ArrivedIsGood ==
  ASSUME ProcessInv, NEW u \in Customers, NEW at \in {"none", "deduct", "topUp", "cancel"},
         NEW amount \in Nat, NEW allowance \in Nat
  PROVE  GoodRequest(Arrived(u, at, amount, allowance))
<1>1. Arrived(u, at, amount, allowance) \in RequestRecord
  <2>1. period \in Periods /\ 0 \in Int
    BY DEF ProcessInv
  <2> QED BY <2>1, Zenon DEF Arrived, RequestRecord
<1>2. PICK x : x = Arrived(u, at, amount, allowance)
  OBVIOUS
<1>3. x.at = at /\ x.booked = {} /\ x.outcome = "pending"
  BY <1>2 DEF Arrived
<1> QED BY <1>1, <1>2, <1>3 DEF GoodRequest, BookedWell

LEMMA ArrivesKeeps ==
  ASSUME BillingInv, NEW r \in Requests, NEW u \in Customers,
         NEW at \in {"deduct", "topUp", "cancel"}, NEW amount \in Nat, NEW allowance \in Nat,
         Arrives(r, Arrived(u, at, amount, allowance))
  PROVE  BillingInv'
<1>1. PICK x \in RequestRecord : x = Arrived(u, at, amount, allowance)
  BY ArrivedIsGood DEF BillingInv, GoodRequest
<1>2. GoodRequest(x)
  BY <1>1, ArrivedIsGood DEF BillingInv
<1>3. /\ req' = [req EXCEPT ![r] = x] /\ req[r].at = "none"
      /\ UNCHANGED <<reachable, period, meter, active, mem, restarts, net, stale>>
  BY <1>1 DEF Arrives, Unmade
<1>4. RequestsInv' /\ KeepsBookings
  BY <1>2, <1>3, RequestReplaced DEF BillingInv
<1>5. MeterInv' /\ WithinAllowance'
  BY <1>3, <1>4, MeterUnchanged
<1> QED BY <1>3, <1>4, <1>5 DEF BillingInv, ProcessInv, MemoryInv

\* A request that goes on to its write.
LEMMA GoesOnKeeps ==
  ASSUME BillingInv, NEW r \in Requests, NEW x \in RequestRecord, GoodRequest(x),
         req[r].at # "done", req' = [req EXCEPT ![r] = x],
         UNCHANGED <<reachable, period, meter, active, mem, restarts, net, stale>>
  PROVE  BillingInv'
<1>1. RequestsInv' /\ KeepsBookings
  BY RequestReplaced DEF BillingInv
<1>2. MeterInv' /\ WithinAllowance'
  BY <1>1, MeterUnchanged
<1> QED BY <1>1, <1>2 DEF BillingInv, ProcessInv, MemoryInv

LEMMA ReadMeterKeeps ==
  ASSUME BillingInv, NEW r \in Requests, ReadMeter(r)
  PROVE  BillingInv'
<1>1. Flying(r) /\ req[r].at = "deduct"
  BY DEF ReadMeter, Flying, BillingInv, RequestsInv, GoodRequest
<1>2. CASE req[r].allowance - meter[Row(r)] < req[r].amount
  <2>1. Throw(r, {})
    BY <1>2 DEF ReadMeter
  <2>2. Ended(r, {})
    BY <1>1, <2>1, ThrowEnds DEF BillingInv
  <2> QED BY <2>2, EndedKeeps DEF ReadMeter
<1>3. CASE ~(req[r].allowance - meter[Row(r)] < req[r].amount)
  <2>1. PICK seen \in Int : seen = meter[Row(r)]
    BY RowIsRow DEF BillingInv, MeterInv
  <2>2. PICK old \in RequestRecord : old = req[r] /\ GoodRequest(old)
    BY DEF BillingInv, RequestsInv
  <2>3. PICK x \in RequestRecord : x = [old EXCEPT !.at = "charge", !.seen = seen]
    <3>1. [old EXCEPT !.at = "charge", !.seen = seen] \in RequestRecord
      BY Zenon DEF RequestRecord
    <3> QED BY <3>1
  <2>4. /\ x.at = "charge" /\ x.seen = seen /\ x.amount = old.amount
        /\ x.allowance = old.allowance /\ x.booked = old.booked /\ x.outcome = old.outcome
    BY <2>3 DEF RequestRecord
  <2>5. x.seen + x.amount <= x.allowance
    BY <1>3, <2>1, <2>2, <2>4 DEF RequestRecord
  <2>6. GoodRequest(x)
    BY <1>1, <2>2, <2>4, <2>5 DEF GoodRequest, BookedWell
  <2>7. /\ req' = [req EXCEPT ![r] = x]
        /\ UNCHANGED <<reachable, period, meter, active, mem, restarts, net, stale>>
    BY <1>3, <2>1, <2>2, <2>3 DEF ReadMeter, BillingInv, RequestsInv
  <2> QED BY <1>1, <2>6, <2>7, GoesOnKeeps
<1> QED BY <1>2, <1>3

LEMMA FindActiveKeeps ==
  ASSUME BillingInv, NEW r \in Requests, FindActive(r)
  PROVE  BillingInv'
<1>1. Flying(r) /\ req[r].at = "cancel"
  BY DEF FindActive, Flying, BillingInv, RequestsInv, GoodRequest
<1>2. CASE req[r].user \notin active
  <2>1. Throw(r, {})
    BY <1>2 DEF FindActive
  <2>2. Ended(r, {})
    BY <1>1, <2>1, ThrowEnds DEF BillingInv
  <2> QED BY <2>2, EndedKeeps DEF FindActive
<1>3. CASE req[r].user \in active
  <2>1. PICK old \in RequestRecord : old = req[r] /\ GoodRequest(old)
    BY DEF BillingInv, RequestsInv
  <2>2. PICK x \in RequestRecord : x = [old EXCEPT !.at = "cancelling"]
    BY DEF RequestRecord
  <2>3. x.at = "cancelling" /\ x.booked = old.booked /\ x.outcome = old.outcome
    BY <2>2 DEF RequestRecord
  <2>4. GoodRequest(x)
    BY <1>1, <2>1, <2>3 DEF GoodRequest, BookedWell
  <2>5. /\ req' = [req EXCEPT ![r] = x]
        /\ UNCHANGED <<reachable, period, meter, active, mem, restarts, net, stale>>
    BY <1>3, <2>1, <2>2 DEF FindActive
  <2> QED BY <1>1, <2>4, <2>5, GoesOnKeeps
<1> QED BY <1>2, <1>3

LEMMA WriteKeeps ==
  ASSUME BillingInv, NEW r \in Requests, Write(r)
  PROVE  BillingInv'
<1>1. /\ RequestsInv /\ MemoryInv /\ reachable \in {"unknown", "up", "down"}
      /\ {} \in {{}, {"database"}} /\ {"database"} \in {{}, {"database"}}
  BY DEF BillingInv, ProcessInv
<1>2. UNCHANGED <<period, restarts>>
  BY DEF Write
<1>3. ASSUME Flying(r), Return(r, {"database"}, FALSE), mem' = mem
      PROVE  Ended(r, {"database"})
  <2>1. Cardinality({"database"}) = 1 /\ {"database"} \in SUBSET Stores
    BY FS_Singleton DEF Stores
  <2>2. MemoryInv'
    BY <1>1, <1>3 DEF MemoryInv
  <2> QED BY <1>1, <1>3, <2>1, <2>2, ReturnEnds
<1>4. CASE Charged(r)
  <2>1. Flying(r)
    BY DEF Write
  <2>2. Ended(r, {"database"})
    BY <1>3, <1>4, <2>1 DEF Charged
  <2> QED BY <1>2, <1>4, <2>2, ChargeMeterKeeps DEF Charged, Ended, BillingInv, ProcessInv
<1>5. CASE Credited(r)
  <2>1. Flying(r)
    BY DEF Write
  <2>2. Ended(r, {"database"})
    BY <1>3, <1>5, <2>1 DEF Credited
  <2> QED BY <1>2, <1>5, <2>2, CreditMeterKeeps DEF Credited, Ended, BillingInv, ProcessInv
<1>6. CASE Cancelled(r)
  <2>1. Flying(r)
    BY DEF Write
  <2>2. Ended(r, {"database"})
    BY <1>3, <1>6, <2>1 DEF Cancelled
  <2>3. Ended(r, {}) /\ active' \subseteq active
    BY <1>6, <2>2 DEF Ended, Cancelled, CancelRow
  <2> QED BY <1>2, <1>6, <2>3, EndedKeeps DEF Cancelled
<1>7. CASE ChargeLost(r)
  <2>1. Flying(r)
    BY DEF Write
  <2>2. Ended(r, {"database"})
    BY <1>1, <1>7, <2>1, DeductFallbackEnds DEF ChargeLost
  <2> QED BY <1>2, <1>7, <2>2, ChargeMeterKeeps DEF ChargeLost, Ended, BillingInv, ProcessInv
<1>8. CASE CreditLost(r)
  <2>1. Flying(r)
    BY DEF Write
  <2>2. Ended(r, {"database"})
    BY <1>1, <1>8, <2>1, TopUpFallbackEnds DEF CreditLost
  <2> QED BY <1>2, <1>8, <2>2, CreditMeterKeeps DEF CreditLost, Ended, BillingInv, ProcessInv
<1>9. CASE CancelLost(r)
  <2>1. Flying(r)
    BY DEF Write
  <2>2. Ended(r, {"database"})
    BY <1>1, <1>9, <2>1, CancelFallbackEnds DEF CancelLost
  <2>3. Ended(r, {}) /\ active' \subseteq active
    BY <1>9, <2>2 DEF Ended, CancelLost, CancelRow
  <2> QED BY <1>2, <1>9, <2>3, EndedKeeps DEF CancelLost
<1>10. CASE CallFails(r)
  <2>1. Ended(r, {})
    <3>1. CASE req[r].at \in {"deduct", "charge"} /\ DeductFallback(r, {})
      BY <1>1, <3>1, DeductFallbackEnds DEF Write
    <3>2. CASE req[r].at = "topUp" /\ TopUpFallback(r, {})
      BY <1>1, <3>2, TopUpFallbackEnds DEF Write
    <3>3. CASE req[r].at \in {"cancel", "cancelling"} /\ CancelFallback(r, {})
      BY <1>1, <3>3, CancelFallbackEnds DEF Write
    <3> QED BY <1>10, <3>1, <3>2, <3>3 DEF CallFails
  <2> QED BY <1>2, <1>10, <2>1, EndedKeeps DEF CallFails
<1> QED BY <1>4, <1>5, <1>6, <1>7, <1>8, <1>9, <1>10 DEF Write

\* A write that is carried out late is booked like any other.
LEMMA CommitsLateKeeps ==
  ASSUME BillingInv, NEW r \in Requests, CommitsLate(r)
  PROVE  BillingInv'
<1>1. PICK old \in RequestRecord : old = req[r] /\ GoodRequest(old)
  BY DEF BillingInv, RequestsInv
<1>2. old.outcome = "dropped" /\ req[r].at \in {"charge", "topUp", "cancelling"}
  BY <1>1 DEF CommitsLate, ChargeMeter, CreditMeter, CancelRow
<1>3. PICK x \in RequestRecord : x = [old EXCEPT !.at = "done", !.booked = {"database"}]
  <2>1. {"database"} \in SUBSET Stores
    BY DEF Stores
  <2>2. [old EXCEPT !.at = "done", !.booked = {"database"}] \in RequestRecord
    BY <2>1, Zenon DEF RequestRecord
  <2> QED BY <2>2
<1>4. /\ x.at = "done" /\ x.booked = {"database"} /\ x.outcome = "dropped"
      /\ x.user = old.user /\ x.period = old.period /\ x.allowance = old.allowance
  BY <1>2, <1>3 DEF RequestRecord
<1>5. GoodRequest(x)
  BY <1>4 DEF GoodRequest, BookedWell
<1>6. req' = [req EXCEPT ![r] = x]
  BY <1>1, <1>3 DEF CommitsLate
<1>7. RequestsInv' /\ KeepsBookings /\ req'[r] = x
  BY <1>1, <1>2, <1>5, <1>6, RequestReplaced DEF BillingInv
<1>8. Ended(r, {"database"}) /\ Ended(r, {})
  BY <1>1, <1>4, <1>7 DEF Ended, CommitsLate, BillingInv, ProcessInv, MemoryInv
<1>9. CASE ChargeMeter(r) /\ UNCHANGED active
  BY <1>8, <1>9, ChargeMeterKeeps DEF CommitsLate, Ended, BillingInv, ProcessInv
<1>10. CASE CreditMeter(r) /\ UNCHANGED active
  BY <1>8, <1>10, CreditMeterKeeps DEF CommitsLate, Ended, BillingInv, ProcessInv
<1>11. CASE CancelRow(r) /\ UNCHANGED <<meter, net, stale>>
  BY <1>8, <1>11, EndedKeeps DEF CommitsLate, CancelRow
<1> QED BY <1>9, <1>10, <1>11 DEF CommitsLate

LEMMA RestartKeeps ==
  ASSUME BillingInv, Restart
  PROVE  BillingInv'
<1>1. MemoryInv' /\ reachable' = "unknown"
  BY ProcessEndsKeeps DEF Restart
<1>2. ASSUME NEW q \in Requests
      PROVE  GoodRequest(req'[q]) /\ ("database" \in req[q].booked => req'[q] = req[q])
  <2>1. CASE Flying(q)
    BY <2>1, DroppedIsGood DEF Restart, BillingInv
  <2>2. CASE ~Flying(q)
    BY <2>2 DEF Restart, BillingInv, RequestsInv
  <2> QED BY <2>1, <2>2
<1>3. RequestsInv' /\ KeepsBookings
  <2>1. req' \in [Requests -> RequestRecord]
    BY <1>2 DEF GoodRequest, Restart
  <2> QED BY <1>2, <2>1 DEF RequestsInv, KeepsBookings
<1>4. MeterInv' /\ WithinAllowance'
  BY <1>3, MeterUnchanged DEF Restart
<1>5. restarts' \in 0 .. MaxRestarts
  BY CreditsAssumption DEF Restart, BillingInv, ProcessInv
<1> QED BY <1>1, <1>3, <1>4, <1>5 DEF Restart, BillingInv, ProcessInv

LEMMA InitialBooks == BillingInit => BillingInv
<1> SUFFICES ASSUME BillingInit PROVE BillingInv
  OBVIOUS
<1>1. ProcessInv
  BY CreditsAssumption DEF BillingInit, ProcessInv, Periods
<1>2. MemoryInv
  BY NoMemoryIsGood DEF BillingInit, MemoryInv, GoodMemory
<1>3. PICK u \in Customers : req = [r \in Requests |-> Arrived(u, "none", 0, 0)]
  BY DEF BillingInit
<1>4. PICK x \in RequestRecord : x = Arrived(u, "none", 0, 0)
  BY <1>1, ArrivedIsGood DEF GoodRequest
<1>5. GoodRequest(x)
  BY <1>1, <1>4, ArrivedIsGood
<1>6. RequestsInv
  BY <1>3, <1>4, <1>5 DEF RequestsInv
<1>7. /\ meter = [k \in Customers \X Periods |-> 0] /\ net = meter /\ stale = {}
  BY DEF BillingInit
<1>8. MeterInv
  BY <1>7 DEF MeterInv, RecordedUseExact
<1>9. WithinAllowance
  BY <1>7 DEF WithinAllowance
<1> QED BY <1>1, <1>2, <1>6, <1>8, <1>9 DEF BillingInv

LEMMA BillingInvHolds == BillingSpec => []BillingInv
<1>1. BillingInv /\ [BillingNext]_billingVars => BillingInv'
  <2> SUFFICES ASSUME BillingInv, [BillingNext]_billingVars PROVE BillingInv'
    OBVIOUS
  <2>1. ASSUME NEW u \in Customers, Subscribe(u) PROVE BillingInv'
    <3>1. PICK m \in MemoryRecord : m = [mem[u] EXCEPT !.sub = "active"]
      BY DEF BillingInv, MemoryInv, MemoryRecord
    <3>2. GoodMemory(m) /\ mem' = [mem EXCEPT ![u] = m]
      BY <2>1, <3>1 DEF Subscribe, BillingInv, MemoryInv, GoodMemory, MemoryRecord
    <3>3. MemoryInv'
      BY <3>2, MemoryReplaced DEF BillingInv
    <3>4. RequestsInv' /\ KeepsBookings
      BY <2>1 DEF Subscribe, BillingInv, RequestsInv, KeepsBookings
    <3>5. MeterInv' /\ WithinAllowance'
      BY <2>1, <3>4, MeterUnchanged DEF Subscribe
    <3> QED BY <2>1, <3>3, <3>4, <3>5 DEF Subscribe, BillingInv, ProcessInv
  <2>2. ASSUME NEW r \in Requests, NEW u \in Customers, NEW cost \in Costs, NEW tier \in Tiers,
               DeductCredits(r, u, cost, tier)
        PROVE  BillingInv'
    <3>1. PICK n \in Nat, allowance \in Nat : n = cost /\ allowance = TierCredits[tier]
      BY CreditsAssumption
    <3> QED BY <2>2, <3>1, ArrivesKeeps DEF DeductCredits
  <2>3. ASSUME NEW r \in Requests, NEW u \in Customers, NEW credits \in Amounts,
               TopUp(r, u, credits)
        PROVE  BillingInv'
    BY <2>3, CreditsAssumption, ArrivesKeeps DEF TopUp
  <2>4. ASSUME NEW r \in Requests, NEW u \in Customers, CancelSubscription(r, u)
        PROVE  BillingInv'
    BY <2>4, ArrivesKeeps DEF CancelSubscription
  <2>5. ASSUME NEW r \in Requests,
               ReadMeter(r) \/ FindActive(r) \/ Write(r) \/ CommitsLate(r)
        PROVE  BillingInv'
    BY <2>5, ReadMeterKeeps, FindActiveKeeps, WriteKeeps, CommitsLateKeeps
  <2>6. CASE \/ \E answer \in {"up", "down"} : ProbeAnswers(answer)
             \/ NewPeriod \/ UNCHANGED billingVars
    <3>1. ProcessInv'
      BY <2>6, CreditsAssumption
         DEF ProbeAnswers, NewPeriod, billingVars, BillingInv, ProcessInv, Periods
    <3>2. UNCHANGED <<meter, mem, req, net, stale>>
      BY <2>6 DEF ProbeAnswers, NewPeriod, billingVars
    <3>3. RequestsInv' /\ KeepsBookings /\ MemoryInv'
      BY <3>2 DEF BillingInv, RequestsInv, KeepsBookings, MemoryInv
    <3>4. MeterInv' /\ WithinAllowance'
      BY <3>2, <3>3, MeterUnchanged
    <3> QED BY <3>1, <3>3, <3>4 DEF BillingInv
  <2>7. CASE Restart
    BY <2>7, RestartKeeps
  <2> QED BY <2>1, <2>2, <2>3, <2>4, <2>5, <2>6, <2>7 DEF BillingNext
<1> QED BY <1>1, InitialBooks, PTL DEF BillingSpec

-----------------------------------------------------------------------------
\* The types of the variables of the billing service are invariant.
THEOREM BillingTypes == BillingSpec => []BillingTypeOK
<1>1. BillingInv => BillingTypeOK
  BY DEF BillingInv, ProcessInv, RequestsInv, MemoryInv, MeterInv, BillingTypeOK,
         RequestRecord, MemoryRecord, Stores
<1> QED BY <1>1, BillingInvHolds, PTL

\* No meter records more than was allowed to a deduction that the database
\* booked for its customer and month, whatever overlaps or fails.
THEOREM MetersWithinAllowance == BillingSpec => []WithinAllowance
BY BillingInvHolds, PTL DEF BillingInv

\* A meter is exact unless a charge was computed from one that had changed.
THEOREM MetersExact == BillingSpec => []RecordedUseExact
BY BillingInvHolds, PTL DEF BillingInv, MeterInv

\* What returns is booked once and what throws not at all, lost answers apart.
THEOREM OperationsBookedOnce == BillingSpec => []BookedOnce
<1>1. BillingInv => BookedOnce
  BY DEF BillingInv, RequestsInv, GoodRequest, BookedWell, BookedOnce, Stores
<1> QED BY <1>1, BillingInvHolds, PTL

\* The balances in memory add up and are never negative.
THEOREM MemoryBalances == BillingSpec => []MemoryBooksBalance
<1>1. BillingInv => MemoryBooksBalance
  BY DEF BillingInv, MemoryInv, GoodMemory, MemoryBooksBalance
<1> QED BY <1>1, BillingInvHolds, PTL
=============================================================================
