CONSTANTS
  Files <- MCFiles
  Trailers <- MCTrailers
  Alphabet <- MCAlphabet
  Names <- MCNames
  LoadPartNumbers <- MCLoadPartNumbers
  Descriptions <- MCDescriptions
  Ratios <- MCRatios
  Finals <- MCFinals
  MaxCalls = 5
  MaxFiles = 2
SPECIFICATION ReportSpec
CHECK_DEADLOCK FALSE
INVARIANTS FileUnchanged LengthMatters FileRecognised StatusTold
