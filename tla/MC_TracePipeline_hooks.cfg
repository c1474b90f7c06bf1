SPECIFICATION Spec
CONSTANTS
  Pools = {"HAL"}
  BackfillPools = {"HAL"}
  Devices = {0}
  Addrs <- TwoAddrs
  Sizes <- SizesTwo
  h1 = h1
  h2 = h2
  Hooks <- TwoHooks
  Reuses = {"reported", "early"}
  Restarts = FALSE
  MaxAllocations = 4
  MaxStarts = 0
INVARIANTS
  HeldStateIsLive
  BooksAgree
PROPERTY CallsReturn
CHECK_DEADLOCK FALSE
