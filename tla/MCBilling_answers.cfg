SPECIFICATION BillingSpec
CONSTANTS
  free = free
  pro = pro
  Customers = {u1}
  Tiers = {free, pro}
  TierCredits <- Allowances
  Costs = {1, 2}
  Amounts = {1}
  Requests = {q1, q2, q3}
  LastPeriod = 1
  MaxRestarts = 1
INVARIANT RefusalsAnswered
CHECK_DEADLOCK FALSE
