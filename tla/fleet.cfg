SPECIFICATION FairSpec
CONSTANTS
  n1 = n1
  n2 = n2
  Master = {1, 2}
  Views = {2}
  StaOf <- MCStaOf
  BaseNodes <- MCBaseNodes
  NewNodes <- MCNewNodes
  BaseSlots = 1
  ExtraSlots = 0
  NewSlots = 1
  Target = 1
  PerSlot = 2
  MaxAttempts = 2
  MinIdle = 1
  MinRemaining = 1
  MaxFaults = 1
INVARIANTS
  LeasesDisjoint
  CompletedIsStored
PROPERTIES
  EveryUnitSettled
