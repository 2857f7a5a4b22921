------------------------------ MODULE MCBilling ------------------------------
EXTENDS BillingProperties, TLC
CONSTANTS free, pro
Allowances == free :> 2 @@ pro :> 3
SamePeers == Permutations(Requests) \cup Permutations(Customers)
=============================================================================
