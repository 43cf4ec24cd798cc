SPECIFICATION FairSpec
CONSTANTS
  MaxJobs = 2
  Workspace <- OneWorkspace
  Delegators = {1}
  Scheduled = {}
  MaxChildren = 2
  Concurrency = 1
  WorkspaceConcurrency = 1
  MaxAttempts = 2
  MaxFaults = 0
PROPERTIES QueueMoves JoinEnds OrphansSettle CancelEndsExecution
