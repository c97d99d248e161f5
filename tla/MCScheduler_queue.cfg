SPECIFICATION FairSpec
CONSTANTS
  Threads = {a, b, c}
  Boot = boot
  NULL = NULL
  Stacks <- TwoStacks
  WordMod = 64
  MinStack = 12
  StackAlign = 8
  StackMargin = 10
  SlotSize = 4
  CounterMod = 1
  MaxRunnable = 5
  HostTest = TRUE
INVARIANTS TypeOK QueueIntact ReadyIffQueued FirstFrameInside
PROPERTIES RoundRobinSpec 
