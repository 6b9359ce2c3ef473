CONSTANTS
  r1 = r1
  r2 = r2
  a = a
  b = b
  Requesters <- TwoRequesters
  Urls <- AB
  Asked <- AskedTwo
  MaxParallel = 1
  MaxRedirects = 3
  Timed <- First
  MaxCalls = 2
SPECIFICATION FairSocketSpec
INVARIANTS SocketTypeOK NoRequestIsLost HandlesAlive TransfersAreKnown
PROPERTIES SocketDownloadsSpec LoadedIsAnswered
CHECK_DEADLOCK FALSE
