SPECIFICATION LiveSpec
CONSTANTS
  r1 = r1
  r2 = r2
  r3 = r3
  AAPL = AAPL
  Refs <- MCRefs
  Side = {"Buy"}
  Prices = {7, 8, 20}
  Qtys = {0, 1, 2}
  None = None
  Feed <- MCFeed
  Stock = AAPL
  RefPrice = 6
  MaxResting = 4
  MaxDoubled = 1
  MaxUnlogged = 1
  MAX_ORDER_SIZE = 2
  MAX_NET_POSITION = 4
  MAX_PRICE_BAND = 5
  MAX_INSTRUMENTS = 2
SYMMETRY Symmetry
VIEW StateView
INVARIANTS MirrorsAccepted RestingPassesRisk LogIsAhead
PROPERTIES OrphansAreRefused
