SPECIFICATION Spec
CONSTANTS
  EntrySize = 3
  MaxAppends = 4
  MaxRestarts = 2
  Faults = {"write", "power"}
CHECK_DEADLOCK FALSE
INVARIANTS ReusedOnlyAfterFailure AckedIsReplayed ReplayKeepsOrder
