SPECIFICATION FairSpec
CONSTANTS
  Capacity = 16
  Payloads <- MCPayloads
  Garbage <- MCGarbage
  OutCap = 4
  MaxPush = 5
  NoRecord = NoRecord
INVARIANTS TypeOK NoDataRace BailsOnlyOnBadRecord StaysFramed
PROPERTIES ImplementsFifo EverythingDrains
