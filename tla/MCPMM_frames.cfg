SPECIFICATION CallersSpec
CONSTANTS
  PageSize = 2
  AddrMod = 12
  Maps <- AllMaps
  AgainMaps <- AnyMaps
  Storages = {0, 1}
  MaxPhysArgs = {0, 3, 10}
  Addresses = {0, 2, 3, 4, 6, 8, 10}
  Lengths = {0, 1, 2}
  StatMod = 1
  INVALID = INVALID
INVARIANTS TypeOK CountersMatchBitmap Frame0Used HintBelowFree ObeyedOwnership
PROPERTIES AllocFindsLowest BootMapHonoured
