SPECIFICATION Spec
CONSTANTS
  Refs <- MCRefs
  Side = {"Buy", "Sell"}
  Prices <- MCPrices
  Qtys = {1, 2}
  MAX_ORDERS = 2
  TICK = 2
  LADDER_SLOTS = 2
  NUM_STAGES = 5
  MaxCycles = 9
  MaxOrders = 4
  Unset = Unset
  NoMatch = NoMatch
CHECK_DEADLOCK FALSE
INVARIANTS BitsMarkLevels DecisionStillHolds FixedLatency
PROPERTIES ImplementsEngine FlushDrains
