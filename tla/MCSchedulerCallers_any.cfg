SPECIFICATION CallersSpec
CONSTANTS
  Threads = {a, b}
  Boot = boot
  NULL = NULL
  Stacks <- OneStack
  WordMod = 64
  MinStack = 12
  StackAlign = 8
  StackMargin = 10
  SlotSize = 4
  CounterMod = 3
  MaxRunnable = 3
  HostTest = TRUE
VIEW Observed
INVARIANTS ValidateExact ObeyedAccounting
PROPERTIES ErrorsChangeNothing
