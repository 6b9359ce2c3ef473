CONSTANTS
  a = a
  b = b
  c = c
  w1 = w1
  w2 = w2
  NoThread = NoThread
  MainThread = MainThread
  StartPage = a
  Requests <- Three
  Chains <- LoopChains
  PageLists <- LoopLists
  Workers <- TwoWorkers
  Threads <- MCThreads
  UrlLists <- MCUrlLists
  Limits <- LimitOfTwo
  Loader = "MultiRequestPageLoader"
  MaxActive = 0
  MaxStarts = 1
  MaxClears = 0
SPECIFICATION FairSpec
INVARIANTS TypeOK ActiveBound
 
CHECK_DEADLOCK FALSE
