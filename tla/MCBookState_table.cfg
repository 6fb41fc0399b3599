SPECIFICATION Spec
CONSTANTS
  r1 = r1
  r2 = r2
  r3 = r3
  r4 = r4
  Refs <- MCRefs
  Hash <- MCHash
  Side = {"Buy"}
  Prices = {7}
  Qtys = {1, 2}
  Capacity = 4
  EMPTY = EMPTY
  TOMBSTONE = TOMBSTONE
  None = None
INVARIANTS Chain Unique
PROPERTIES ImplementsMap
VIEW StateView
