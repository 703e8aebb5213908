SPECIFICATION LiveSpec
CONSTANTS
  p1 = p1
  p2 = p2
  w1 = w1
  w2 = w2
  a1 = a1
  a2 = a2
  b1 = b1
  x = x
  y = y
  Producer = {p1, p2}
  Worker = {w1}
  Path <- MCPathOfShard
  Payload = {x}
  ShardOf <- MCShardOf
  Requests <- MCRequestsOfShard
  MaxFiles = 2
  LocalBatch = 2
  CloudBatch = 2
  FinalRecords = FALSE
  MaxRuns = 2
  o1 = o1
  o2 = o2
  q1 = q1
  q2 = q2
  Object = {o1, o2}
  Reaper = {q1, q2}
  MaxFaults = 2
INVARIANTS
  BarrierSound
PROPERTIES
  EventuallyStored
  CallsEnd
  ObjectGoes
