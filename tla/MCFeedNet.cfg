SPECIFICATION FairSpec
CONSTANTS
  File <- MCFile
  PerPacket = 2
  SendFails = TRUE
  Ticker = "AAPL"
  RingSize = 2
  Locates = {1, 2}
  Unknown = Unknown
  MAX_PENDING = 2
  MaxLoss = 1
  MaxDup = 1
  MaxReorder = 1
  MaxFaults = 3
  ServerFirst = TRUE
  LongPauses = TRUE
INVARIANTS CountedPrecisely NeverUndercounts DrainedAtExit MatchesFileReplay
PROPERTIES Terminates
