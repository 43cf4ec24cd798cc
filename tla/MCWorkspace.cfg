SPECIFICATION Spec
CONSTANTS
  MaxJobs = 2
  Workspace <- OneWorkspace
  Delegators = {}
  Scheduled = {}
  MaxChildren = 2
  Concurrency = 2
  WorkspaceConcurrency = 1
  MaxAttempts = 1
  MaxFaults = 0
INVARIANTS WorkspaceExclusive
