CONSTANTS
  a = a
  b = b
  c = c
  w1 = w1
  w2 = w2
  NoThread = NoThread
  MainThread = MainThread
  StartPage = a
  Requests <- Two
  Chains <- TwoChains
  PageLists <- TwoLists
  Workers <- OneWorker
  Threads <- MCThreads
  UrlLists <- MCUrlLists
  Limits <- NoLimit
  Loader = "QtPageLoader"
  MaxActive = 1
  MaxStarts = 1
  MaxClears = 0
SPECIFICATION FairSpec
PROPERTIES EndedCrawlIsPending
CHECK_DEADLOCK FALSE
