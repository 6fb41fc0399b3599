SPECIFICATION Spec
CONSTANTS
  EntrySize = 3
  MaxAppends = 4
  MaxRestarts = 2
  Faults = {"power"}
CHECK_DEADLOCK FALSE
INVARIANT SafeAfterReturn
