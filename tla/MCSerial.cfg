SPECIFICATION Spec
CONSTANTS
  MaxJobs = 2
  Workspace <- OneWorkspace
  Delegators = {}
  Scheduled = {2}
  MaxChildren = 2
  Concurrency = 1
  WorkspaceConcurrency = 1
  MaxAttempts = 2
  MaxFaults = 2
INVARIANTS TypeOK SerialExecution
PROPERTIES CleanRelease
