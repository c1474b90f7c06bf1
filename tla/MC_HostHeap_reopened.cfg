SPECIFICATION Spec
CONSTANTS
  t1 = t1
  t2 = t2
  Threads <- TwoThreads
  Does <- MallocAndFree
  Addrs = {1, 2}
  Stacks = {"p", "q"}
  MaxBlocks = 2
  MaxOverflow = 1
  MaxStacks = 1
  MaxEntries = 2
  MaxWindows = 2
  MaxCalls = 4
  Plans <- ReopenPlan
INVARIANTS
  RefsCounted
CHECK_DEADLOCK FALSE
