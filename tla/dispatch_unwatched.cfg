SPECIFICATION FairSpec
CONSTANTS
  r1 = r1
  r2 = r2
  d1 = d1
  d2 = d2
  d3 = d3
  Request = {r1, r2}
  Dispatcher = {d1, d2, d3}
  MaxFaults = 1
PROPERTY
  StalledIsReplaced
