SPECIFICATION Spec
CONSTANTS
  Keys = {k1, k2}
  Contents = {b1}
  ContentOf <- OneBody
  Clients = {c1}
  Editable = {k1, k2}
  MaxGen = 0
  MaxAttempts = 2
  MaxFaults = 2
INVARIANTS OneReadyPerBody
PROPERTIES HolderKeepsBody
SYMMETRY KeySymmetry
CHECK_DEADLOCK FALSE
