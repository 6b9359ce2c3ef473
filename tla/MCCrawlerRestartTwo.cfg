CONSTANTS
  a = a
  b = b
  c = c
  w1 = w1
  w2 = w2
  NoThread = NoThread
  MainThread = MainThread
  StartPage = a
  Requests <- Two
  Chains <- TwoChains
  PageLists <- TwoLists
  Workers <- TwoWorkers
  Threads <- MCThreads
  UrlLists <- MCUrlLists
  Limits <- NoLimit
  Loader = "MultiRequestPageLoader"
  MaxActive = 1
  MaxStarts = 2
  MaxClears = 1
SPECIFICATION Spec
SYMMETRY Symmetry
INVARIANTS StoppedIsQuiet ActiveIsAwaited
PROPERTIES ScheduleSpec
CHECK_DEADLOCK FALSE
