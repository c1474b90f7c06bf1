SPECIFICATION AllSpec
CONSTANTS
  Parts = {"link", "watch", "book", "blocks", "ids", "gaps", "steps", "frames"}
  OtherParts = {"editor", "settings", "inefficient", "compare", "trace", "owners", "hijack"}
  Launchers = {1, 2}
  TaskKeys <- LinkKeys
  NewSoc = TRUE
  Buffer = 4
  NoKey <- LinkNoKey
  MaxLaunches = 3
  Workers = {1, 2}
  Addresses = {1, 2}
  OutTensors = {1}
  Limits <- OnceOrAlways
  Watched = TRUE
  MaxRuns = 2
  HostAddrs = {"a1"}
  Makers = {"m1"}
  MaxSwitches = 3
  Addrs = {1, 2, 3, 4, 5}
  Home <- Colliding
  Sizes = {1, 2}
  InitCap = 4
  MaxCount = 5
  Environments <- DeviceLists
  Bad = 99
  Unset <- NoList
  MaxCards = 3
  PoolTypes = {"PTA_CACHING", "ATB"}
  Totals = {0, 1, 2}
  MaxStep = 3
  Threads = {"s1", "s2", "a1"}
  PoolAddrs = {1, 2}
  LeakSkipSteps = 1
  Threshold = 1
  MaxRanges = 4
  Plans <- BothPlans
  Texts <- Responses
  Limit = 8
  Reserve = 3
  Overhead = 1
  HeaderLen = 2
  Room = 4
  MaxCommands = 2
INVARIANTS
  NamesRight
  DumpsAsAsked
  BooksKept
  IdsArePhysical
  GapsExact
  EditorSound
  SettingsSound
  LabelsRight
  AlignsAll
  PairsAreCalls
  OwnersRight
  StepsRight
  HijackSound
  ResponsesWhole
CHECK_DEADLOCK FALSE
