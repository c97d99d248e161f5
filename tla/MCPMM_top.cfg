SPECIFICATION CallersSpec
CONSTANTS
  PageSize = 4
  AddrMod = 16
  Maps <- TopMaps
  AgainMaps <- TopMaps
  Storages = {0, 1}
  MaxPhysArgs = {8}
  Addresses = {0}
  Lengths = {0}
  StatMod = 1
  INVALID = INVALID
INVARIANTS OnlyUsableOpened
