SPECIFICATION FairSpec
CONSTANTS
  a1 = a1
  a2 = a2
  b1 = b1
  ta = ta
  tb = tb
  Tenants = {ta, tb}
  Jobs = {a1, a2, b1}
  TenantOf <- TwoTenants
  MaxRuns = 2
  Limit = 2
  PerTenant = 1
  Candidates = 2
  MaxOdd = 1
INVARIANTS TypeOK ChoiceIsFair InFlightIsBounded
PROPERTY EveryJobSettles
CHECK_DEADLOCK FALSE
