SPECIFICATION FairSpec
CONSTANTS
  Resources = {r1}
  Tokens = {t1, t2}
  Operators = {o1}
  NoToken = NoToken
  MaxVersion = 2
  MaxAsks = 2
  MaxFaults = 3
  r1 = r1
  t1 = t1
  t2 = t2
  o1 = o1
INVARIANTS TypeOK LeaseHasItsPolicy
PROPERTIES ImplementsLease ContentGoesForward OnlyOperatorsRevive ContentCatchesUp
CHECK_DEADLOCK FALSE
