SPECIFICATION FairSpec
CONSTANTS
  a = a
  b = b
  ScheduleIds <- Both
  Kind <- OnceAndCron
  Period <- EveryTwo
  Policy <- AllRunOnce
  RetryLimit <- OneRetry
  RetryDelay <- DelayOfOne
  MaxQueued = 2
  Tickers = {1}
  MaxRows = 2
  MaxClock = 2
  MaxForeign = 0
  MaxFaults = 1
PROPERTIES DueIsSettled FailedIsRetried
