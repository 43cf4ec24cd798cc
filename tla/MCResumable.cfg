SPECIFICATION Spec
CONSTANTS
  MaxJobs = 2
  Workspace <- OneWorkspace
  Delegators = {1}
  Scheduled = {}
  MaxChildren = 2
  Concurrency = 1
  WorkspaceConcurrency = 1
  MaxAttempts = 1
  MaxFaults = 1
PROPERTIES InterruptedStaysResumable
