CONSTANTS
  RetryRange = 4
  MaxWaits = 3
  Ports = {p1, p2}
  DefaultPort = p59
  PartNumbers = {n}
  CheckTypes = {crc16, crc32}
  CheckValues = {v}
  None = None
  Invalid = Invalid
  WaitTimes = {0, 9, 10, 65535}
  ForeignTexts <- MCForeignTexts
SPECIFICATION ExchangeSpec
CHECK_DEADLOCK FALSE
INVARIANTS ExchangeTypeOK OnePathPending NegotiationAgrees MessageUnderstood
PROPERTIES ImplementsTransfer TransferEnds
