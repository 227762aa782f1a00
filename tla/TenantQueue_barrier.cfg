SPECIFICATION FairSpec
CONSTANTS
  Enqueuers = {e1}
  Erasers = {a1}
  Deleters = {d1, d2}
  ItemOf <- OneItem
  LoopOf <- DeletersTogether
  MaxFaults = 2
INVARIANTS TypeOK ErasedTenantHasNoWork AbortRestoresArtifacts
PROPERTIES NoEnqueueWhileClosed BarrierIsLifted
CHECK_DEADLOCK FALSE
