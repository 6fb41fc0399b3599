SPECIFICATION Spec
CONSTANTS
  Files <- MCFiles
  Setups <- MCSetups
  Locates = {1, 2}
  Unknown = Unknown
  MAX_PENDING = 2
  Names = {"AAPL", "MSFT"}
  MARKET_OPEN = 2
  PacedSpeed = 2
  PaceSlack = 1
  Wrap = 256
  Word = 256
  MaxSubscribes = 2
  MaxStall = 1
  MAX_MSG_SIZE = 50
  MAX_PAYLOAD = 100
  SleepMin = 1
  FlushMin = 3
  SendFails = TRUE
  None = None
  MaxLag = 1
VIEW View
INVARIANTS EveryMessageCounted FilterIsExact SameMessages NeverEarly BufferedBriefly
PROPERTIES ImplementsServer
