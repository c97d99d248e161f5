SPECIFICATION FairSpec
CONSTANTS
  Threads = {a, b}
  Boot = boot
  NULL = NULL
  Stacks <- OneStack
  WordMod = 64
  MinStack = 12
  StackAlign = 8
  StackMargin = 10
  SlotSize = 4
  CounterMod = 1
  MaxRunnable = 5
  HostTest = FALSE
PROPERTIES ReadyRuns
CHECK_DEADLOCK FALSE
