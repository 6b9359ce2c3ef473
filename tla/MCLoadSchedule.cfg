CONSTANTS
  a = a
  b = b
  c = c
  t1 = t1
  t2 = t2
  NoThread = NoThread
  Requests <- MCRequests
  Threads <- MCThreads
  Limits <- MCLimits
  UrlLists <- MCUrlLists
SYMMETRY MCSymmetry
SPECIFICATION ScheduleSpec
INVARIANTS ScheduleTypeOK ListsDisjoint ActiveIsCrawled
PROPERTIES LimitRespected FrontierSpec
