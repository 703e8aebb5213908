SPECIFICATION FairSpec
CONSTANTS
  f1 = f1
  f2 = f2
  Lane = {"ecot", "grd"}
  Packed = {"ecot"}
  Uid = {"u1"}
  Frame = {f1, f2}
  KeyOf <- MCKeyOf
  Workers = 1
  Prefetch = 1
  Preparers = 1
  MaxPending = 2
  Clips = 1
  Attempts = 2
  MaxFaults = 2
  MaxCrashes = 1
INVARIANTS
  MediaLeased
  EndedIsSettled
PROPERTIES
  PaidWorkKept
  RunEnds
