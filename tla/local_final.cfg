SPECIFICATION PartSpec
CONSTANTS
  p1 = p1
  p2 = p2
  w1 = w1
  w2 = w2
  a1 = a1
  a2 = a2
  b1 = b1
  x = x
  y = y
  Producer = {p1, p2}
  Worker = {w1, w2}
  Path <- MCPath
  Payload = {x, y}
  ShardOf <- MCShardOf
  Requests <- MCRequests
  MaxFiles = 2
  LocalBatch = 2
  CloudBatch = 2
  FinalRecords = TRUE
  MaxRuns = 2
  f1 = f1
  f2 = f2
  q1 = q1
  q2 = q2
  Reference = {f1, f2}
  Reaper = {q1, q2}
  ReaperOf <- MCReaperOf
  MaxUploads = 2
  MaxFaults = 1
  MaxContacts = 2
  Text = {x, y}
  MaxSegments = 3
  Time <- MCTime
  Loaded <- MCLoaded
  Frames = {1, 6, 9}
  Images = {1, 4}
  Frame = 3
  Half = 8
  Seam = 2
  Chunk = 18
  Window = 8
  Offered = 5
  Lookback = 9
  Gap = 3
  u1 = u1
  u2 = u2
  Uid = {u1, u2}
  MaxAsked = 2
SYMMETRY ThreadSymmetry
INVARIANTS
  AckedIsDurable
  Capacity
  LeaseProtects
  NoOtherLeak
  EachAnchorOnce
  NoContactBetween
  RowsKept
PROPERTIES
  NotPaidAgain
  ImplementsOutbox
