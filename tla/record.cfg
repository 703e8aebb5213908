SPECIFICATION RecordSpec
CONSTANTS
  MaxRuns = 2
  MaxFaults = 1
  Windows = 2
  Workers = 2
  Attempts = 2
  MaxGrdRuns = 2
INVARIANTS
  ItemCoherent
  StaMatchesCpa
  OneInventory
  SelectionKept
PROPERTIES
  NoAnswerTwice
  GroupsEnd
