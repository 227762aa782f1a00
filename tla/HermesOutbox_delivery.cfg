SPECIFICATION FairSpec
CONSTANTS
  w1 = w1
  w2 = w2
  w3 = w3
  k1 = k1
  k2 = k2
  k3 = k3
  s1 = s1
  s2 = s2
  Providers = {p1}
  Writes = {w1, w2, w3}
  Callers = {c1}
  NoWrite = NoWrite
  NoProvider = NoProvider
  MaxFaults = 1
  Keys = {k1, k2, k3}
  KeyOf <- OldKey
  Sessions = {s1, s2}
  SessionOf <- OldSession
  Found <- OldRecord
  Workers = {r1, r2}
  MaxSession = 1
  MaxRows = 3
  MaxBatch = 2
INVARIANTS TypeOK DrainedIsFinal DeliveredInOrder
PROPERTIES LaneComesToRest EventuallyDelivered
CHECK_DEADLOCK FALSE
