CONSTANTS
  Items = {i1}
  Runs = {r1, r2}
  MarkJobs = {m1, m2}
  MaxVersion = 2
  MaxEvents = 1
  i1 = i1
  m1 = m1
  m2 = m2
  r1 = r1
  r2 = r2
SPECIFICATION FairSpec
INVARIANTS TypeOK LeaseIsActive
PROPERTIES DeletedWasRouted BacklogDrains
CHECK_DEADLOCK FALSE
