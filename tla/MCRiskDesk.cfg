SPECIFICATION Spec
CONSTANTS
  AAPL = AAPL
  MSFT = MSFT
  Stocks = {AAPL, MSFT}
  Prices = {0, 5, 9}
  Qtys = {0, 1, 2, 3}
  MAX_ORDER_SIZE = 2
  MAX_NET_POSITION = 3
  MAX_PRICE_BAND = 4
  MAX_INSTRUMENTS = 2
  MaxOrders = 4
  MaxOpen = 2
INVARIANTS PositionsAreOwn OvershootBounded
