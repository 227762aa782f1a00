CONSTANTS
  Jobs = {j1, j2}
  Bodies = {b1}
  Clients = {c1}
  Others = 1
  MaxAsks = 1
  MaxErrors = 1
  MaxFaults = 0
  j1 = j1
  j2 = j2
  b1 = b1
  c1 = c1
SPECIFICATION Spec
SYMMETRY JobSymmetry
INVARIANTS TypeOK SettledIsStored OneReadyPerBody
CHECK_DEADLOCK FALSE
