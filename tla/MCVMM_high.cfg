SPECIFICATION Spec
CONSTANTS
  PageSize = 2
  Entries = 2
  UpperMod = 2
  PhysMod = 32
  Frames = {0, 1, 2, 3, 4, 5, 6, 7}
  Reach = {1, 2, 3, 4, 5, 6}
  Pool = {3, 4, 5, 6, 7}
  BootTables <- MCBootTables
  Roots = {2, 3}
  Vaddrs = {0, 1, 4, 16, 62}
  Paddrs = {12, 52, 21}
  FlagSets = {{"WRITABLE", "HUGE"}, {"USER", "GLOBAL"}}
PROPERTIES QueryReturnsMapped
