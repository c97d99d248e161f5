SPECIFICATION FairSpec
CONSTANTS
  Align = 2
  HeaderSize = 6
  MinSplit = 4
  WordMod = 256
  MaxAddr = 44
  Arenas <- MCArenas
  Requests = {0, 1, 7, 255}
  Arrays <- MCArrays
  ValidateGuard = 8
INVARIANTS HeapTiled FullyMerged LiveDisjoint HeapReported
PROPERTIES FreeAcceptsLive FirstFit CallsReturn
VIEW Observed
