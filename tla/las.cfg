SPECIFICATION LasSpec
CONSTANTS
  Caller = {c1, c2}
  MaxSubmits = 3
  Faulty = 1
  MaxFaults = 1
  MaxTasks = 7
  FaultyTasks = 2
  MaxUrls = 2
  MaxSampleFaults = 2
INVARIANTS
  OneLiveTask
  MediaOutlivesTask
  NoSecondPurchase
  AnnotationConsistent
PROPERTIES
  EitherClientEnds
