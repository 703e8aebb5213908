SPECIFICATION Spec
CONSTANTS
  p1 = p1
  p2 = p2
  w1 = w1
  w2 = w2
  a1 = a1
  a2 = a2
  b1 = b1
  x = x
  y = y
  Producer = {p1}
  Worker = {w1}
  Path <- MCPathOfShard
  Payload = {x}
  ShardOf <- MCShardOf
  Requests <- MCRequestsOfShard
  MaxFiles = 2
  LocalBatch = 2
  CloudBatch = 2
  FinalRecords = TRUE
  MaxRuns = 2
INVARIANTS
  NoRecordStoredTwice
