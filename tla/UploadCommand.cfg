CONSTANTS
  Versions = {A4}
  NoVersion = NoVersion
  StatusFiles = {s1, s2}
  DataFiles = {d1}
  MaxRequests = 4
  MaxSignals = 3
SPECIFICATION FairSpec
CHECK_DEADLOCK FALSE
INVARIANTS TypeOK NeverStranded LoadListRequestedOnce
PROPERTIES FinishedOnlyDrains AcceptedOperationEnds ProcessEndsUnlessFinishedTwice
