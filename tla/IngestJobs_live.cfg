CONSTANTS
  Jobs = {j1}
  Bodies = {b1}
  Clients = {c1}
  Others = 1
  MaxAsks = 2
  MaxErrors = 2
  MaxFaults = 1
  j1 = j1
  b1 = b1
  c1 = c1
SPECIFICATION FairSpec
PROPERTIES AttemptIsAttended EventuallySettled ItemSettles
CHECK_DEADLOCK FALSE
