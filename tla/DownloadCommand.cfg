CONSTANTS
  Versions = {A4}
  NoVersion = NoVersion
  StatusFiles = {s1}
  Lists = {l1, l2}
  NoList = NoList
  DataFiles = {d1, d2}
  Names = {f1}
  Blank = Blank
  MaxRequests = 3
  MaxSignals = 2
SPECIFICATION FairSpec
CHECK_DEADLOCK FALSE
INVARIANTS NeverStranded RecordAccountsForFiles AnswerNotLost RequestedOnce
PROPERTIES AcceptedOperationEnds
