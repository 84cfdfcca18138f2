\* Two status files and two lists overlap; requests are left to be refused and to
\* arrive late; the signals are an abort and a terminate.
CONSTANTS
  Versions = {A4}
  NoVersion = NoVersion
  StatusFiles = {s1, s2}
  ListFiles = {l1, l2}
  NoList = NoList
  MaxRequests = 4
  MaxSignals = 2
SPECIFICATION FairSpec
CHECK_DEADLOCK FALSE
INVARIANTS TypeOK NeverStranded
PROPERTIES InformationDrains AcceptedOperationEnds
