SPECIFICATION Spec
CONSTANTS
  MaxJobs = 2
  Workspace <- OneWorkspace
  Delegators = {1}
  Scheduled = {}
  MaxChildren = 2
  Concurrency = 2
  WorkspaceConcurrency = 1
  MaxAttempts = 2
  MaxFaults = 1
INVARIANTS RunningIsExecuted AttemptLedger CompletedParent
PROPERTIES LifecycleSpec
