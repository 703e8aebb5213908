SPECIFICATION StartSpec
CONSTANTS
  r1 = r1
  r2 = r2
  d1 = d1
  d2 = d2
  d3 = d3
  Request = {r1, r2}
  Dispatcher = {d1, d2, d3}
  MaxFaults = 1
  e1 = e1
  e2 = e2
  e3 = e3
  g1 = g1
  g2 = g2
  Client = {e1, e2, e3, g1, g2}
  LaneOf <- MCLaneOf
  Inline = {e1, e2, e3}
  Weight <- MCWeight
  MemorySlots <- MCMemorySlots
  Budget <- MCBudget
  Limits <- MCLimits
  MaxTries = 2
INVARIANTS
  WorkConserving
PROPERTIES
  GrdShare
  EachRequestStarts
