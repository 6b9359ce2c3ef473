CONSTANTS
  r1 = r1
  r2 = r2
  a = a
  b = b
  Requesters <- TwoRequesters
  Urls <- AB
  Asked <- AskedTwo
  UseTimeout <- OneRequester
  RedirectLimits <- OneHop
  MaxSettings = 1
SPECIFICATION FairDownloadSpec
INVARIANTS DownloadTypeOK BookkeepingAgrees RedirectLimitKept
PROPERTIES DownloadsSpec AnsweredInTime
CHECK_DEADLOCK FALSE
