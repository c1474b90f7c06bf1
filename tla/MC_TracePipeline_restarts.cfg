SPECIFICATION Spec
CONSTANTS
  Pools = {"HAL"}
  BackfillPools = {"HAL"}
  Devices = {0}
  Addrs <- ThreeAddrs
  Sizes <- SizeOne
  h1 = h1
  h2 = h2
  Hooks <- TwoHooks
  Reuses = {"never"}
  Restarts = TRUE
  MaxAllocations = 3
  MaxStarts = 2
INVARIANTS
  HooksAreSafe
  CalmStartSettles
SYMMETRY HookSymmetry
CHECK_DEADLOCK FALSE
