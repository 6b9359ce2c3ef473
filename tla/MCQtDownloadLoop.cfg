CONSTANTS
  r1 = r1
  r2 = r2
  a = a
  b = b
  Requesters <- OneRequester
  Urls <- AB
  Asked <- AskedOne
  UseTimeout <- OneRequester
  RedirectLimits <- AnyLimit
  MaxSettings = 1
SPECIFICATION DownloadSpec
INVARIANTS LoopBound NotificationsAreSafe TimeoutsWatch
CHECK_DEADLOCK FALSE
