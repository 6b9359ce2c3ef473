CONSTANTS
  a = a
  b = b
  c = c
  w1 = w1
  w2 = w2
  NoThread = NoThread
  MainThread = MainThread
  StartPage = a
  Requests <- Three
  Chains <- ThreeChains
  PageLists <- ThreeLists
  Workers <- OneWorker
  Threads <- MCThreads
  UrlLists <- MCUrlLists
  Limits <- NoLimit
  Loader = "QtPageLoader"
  MaxActive = 1
  MaxStarts = 2
  MaxClears = 1
SPECIFICATION FairSpec
INVARIANTS LoadsPerWorker
CHECK_DEADLOCK FALSE
PROPERTIES EveryRequestIsTaken CallsReturn
