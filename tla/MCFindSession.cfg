CONSTANTS
  t1 = t1
  t2 = t2
  Targets <- MCTargets
  Information <- MCInformation
  DynamicLocalPort = FALSE
  Strays <- MCStrays
  MaxSignals = 1
  old = old
  given = given
  SavesList = TRUE
  Unspecified = Unspecified
  PreviousFiles <- MCPreviousFiles
  AddressOptions <- MCAddressOptions
SPECIFICATION FairSpec
CHECK_DEADLOCK FALSE
INVARIANTS ListensUntilDone CompletedOnce AnswersAreTrue FoundTargetReached
PROPERTIES QueryEnds
