SPECIFICATION FairSpec
CONSTANTS
  Keys = {k1}
  Contents = {b1}
  ContentOf <- OneBody
  Clients = {c1}
  Editable = {k1}
  MaxGen = 1
  MaxAttempts = 14
  MaxFaults = 1
INVARIANTS TypeOK ReadyHasVectors OneActiveAttempt
PROPERTIES LedgerImmutable EventuallySettled
CHECK_DEADLOCK FALSE
