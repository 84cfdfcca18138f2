CONSTANTS
  s1 = s1
  s2 = s2
  A4 = A4
  Versions <- MCVersions
  NoVersion = NoVersion
  StatusFiles <- MCStatusFiles
  DataFiles = {}
  NoFile = NoFile
  MaxRequests = 2
  MaxSignals = 1
  Finals <- MCFinals
  MaxTargetRequests = 2
SPECIFICATION SessionSpec
SYMMETRY MCSymmetry
CHECK_DEADLOCK FALSE
PROPERTIES ImplementsOutcome
