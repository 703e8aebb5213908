SPECIFICATION Spec
CONSTANTS
  u1 = u1
  u2 = u2
  Uid = {u1, u2}
  MaxRuns = 1
  MaxAsked = 1
PROPERTIES
  RetainedIsNotBilled
CHECK_DEADLOCK FALSE
