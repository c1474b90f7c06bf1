SPECIFICATION Spec
CONSTANTS
  app = app
  channel = channel
  runtime = runtime
  leaver = leaver
  None = None
  Threads <- AllThreads
  Python <- OnlyApp
  Requests <- AllRequests
  Collectors <- SomeCollectors
  Settings <- SomeSettings
  MaxRequests = 3
INVARIANT ExitClosesWindow
CHECK_DEADLOCK FALSE
