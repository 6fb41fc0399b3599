SPECIFICATION Spec
CONSTANTS
  File <- MCFile
  PerPacket = 2
  SendFails = FALSE
  Ticker = "AAPL"
  RingSize = 5
  Locates = {1, 2}
  Unknown = Unknown
  MAX_PENDING = 2
  MaxLoss = 1
  MaxDup = 0
  MaxReorder = 0
  MaxFaults = 2
  ServerFirst = FALSE
  LongPauses = FALSE
INVARIANTS EveryMissingCounted
