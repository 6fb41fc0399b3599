SPECIFICATION Spec
CONSTANTS
  Refs = {1, 2, 3, 4}
  Side = {"Buy", "Sell"}
  Prices = {20, 21, 22, 23}
  Qtys = {0, 1, 2, 3}
  None = None
  Feed <- MCFeed
  Repeats <- MCRepeats
  MARKET_CLOSE = 1
  MaxTime = 1
  MaxMessages = 5
  PriceScale = 100
  LogScale = 10000
  VolScale = 10
  ImpactScale = 50
  RootBits = 12
VIEW StateView
INVARIANTS Mirror QuoteIsLastTop CloseIsBell OfiIsImbalance VolIsRoot TradesMeasured
