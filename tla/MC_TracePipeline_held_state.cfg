SPECIFICATION Spec
CONSTANTS
  Pools = {"HAL"}
  BackfillPools = {"HAL"}
  Devices = {0}
  Addrs <- TwoAddrs
  Sizes <- SizeOne
  h1 = h1
  h2 = h2
  Hooks <- TwoHooks
  Reuses = {"reported"}
  Restarts = TRUE
  MaxAllocations = 2
  MaxStarts = 1
INVARIANTS
  HeldStateIsLive
SYMMETRY HookSymmetry
CHECK_DEADLOCK FALSE
