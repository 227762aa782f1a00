CONSTANTS
  Items = {i1}
  Runs = {r1, r2, r3}
  MarkJobs = {m1}
  MaxVersion = 1
  MaxEvents = 1
  i1 = i1
  m1 = m1
  r1 = r1
  r2 = r2
  r3 = r3
SPECIFICATION FairSpec
PROPERTIES BacklogRecovered
CHECK_DEADLOCK FALSE
