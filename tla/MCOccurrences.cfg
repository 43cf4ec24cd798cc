SPECIFICATION Spec
CONSTANTS
  a = a
  b = b
  ScheduleIds <- Both
  Kind <- AllInterval
  Period <- EveryTwo
  Policy <- RunOnceOrSkip
  RetryLimit <- OneRetry
  RetryDelay <- NoDelay
  MaxQueued = 2
  Tickers = {1}
  MaxRows = 1
  MaxClock = 4
  MaxForeign = 1
  MaxFaults = 1
INVARIANTS TypeOK NeverStuck OverlapOnlyByResume NoBacklog
PROPERTIES LogSpec
