CONSTANTS
  Targets <- MCTargets
  PortOption = FALSE
  MaxTransfers = 2
  MaxRequests = 2
  MaxSignals = 2
  CommandLines <- MCCommandLines
  MediaSets <- MCMediaSets
  Batches <- MCBatches
  Managed <- MCManaged
  Requests <- MCRequests
  NoPartNumber = "any"
SPECIFICATION FilesFairSpec
CHECK_DEADLOCK FALSE
INVARIANTS ServesOneTarget CompletedInOrder ListsTheTargetsLoads ServesTheTargetsFiles
PROPERTIES BatchEnds
