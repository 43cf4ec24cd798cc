SPECIFICATION Spec
CONSTANTS
  Focus = {"budgets"}
  \* Reminders
  ReminderIds = {1, 2}
  Targeted = {1}
  TitleOf <- OneTitle
  TaskIds = {1}
  Senders = {"p", "q"}
  Announcers = {"c"}
  DayLength = 2
  RetryDelay = 1
  MaxAttempts = 2
  StaleAfter = 1
  LastInstant = 2
  MaxMoves = 1
  MaxErrors = 1
  \* AgentRuns
  RunIds = {1, 2, 3}
  NoRun = NoRun
  Sessions = {"x"}
  NoSession = NoSession
  Servers = {"p", "q"}
  MaxActiveRuns = 1
  Outcomes = {"completed"}
  MaxStarts = 1
  MaxLostWrites = 1
  \* RunStream
  Clients = {"c", "d"}
  MaxEvents = 3
  MaxDisconnects = 1
  \* AgentRuntime
  Tools = {"a", "b"}
  Rule <- AllowOne
  MayAsk = TRUE
  MaxIterations = 3
  MaxToolCalls = 3
  RepeatLimit = 3
  MaxCallsPerTurn = 2
  \* Budgets
  Master = "m"
  Subtasks = {"a"}
  MasterLimit <- ThreeAndThree
  Amounts <- OneAndOne
  DailyQuota = 3
  MaxSubtasks = 1
  RetryDelays = 1
  MaxCorrections = 1
  MaxAnswer = 2
  MaxClaims = 3
  \* PlanSteps
  MaxSteps = 3
  MaxRevisions = 2
  MaxResumes = 2
  \* Library
  SkillNames = {"s"}
  Instructions = {"x", "y"}
  Importers = {"i"}
  Bundles <- SmallBundle
  Policies = {"p", "q"}
  Admitting = {"p"}
  NoPin = "none"
  MaxVersions = 2
  MaxPinnedJobs = 1
  \* SkillProposals
  Workflows = {"w", "v"}
  DetectedName = "n"
  DraftNames = {"n"}
  MaxCited = 2
  MaxProposals = 2
  MaxCompletions = 4
  MaxDays = 2
  \* Notices
  Consoles = {"c", "d"}
  BatchLimit = 2
  MaxNotices = 2
  MaxFailures = 2
  \* Conversations
  KeepRecent = 2
  HistoryChars = 2
  SummarySize = 2
  FoldLimit = 2
  MaxMessages = 5
  MaxClears = 1
  \* Migrations
  Hosts = {"old", "new"}
  NoHost = "none"
  Release <- OldAndNew
  LatestSchema = 4
  Kind <- KindOfEach
  MaxBackups = 2
  \* VoiceTurns
  VoiceSessions = {"x", "y"}
  VoiceSkills = {"s"}
  Clarifying = TRUE
  MaxTurns = 2
  MaxSwitches = 2
  \* ToolAccess
  McpServers <- TwoServers
  AllowedOf <- AllowedNames
  Listings <- ListingsOf
  Skills = {"k", "l"}
  Limits <- SkillLimits
  Unlimited = Unlimited
  Roles = {"coding", "review"}
  RoleTools <- ProfileTools
  Coding = "coding"
  RoleSkill <- ProfileSkill
  Requested <- SelectionsAsked
  Malformed = "bad"
  MaxCancels = 2
  \* Knowledge
  Paths = {"a", "b"}
  Texts = {"x", "y"}
  Unreadable = "bad"
  Missing = "gone"
  Length <- ChunksOf
  MaxIndexFiles = 2
  MaxChunks = 3
  MaxEdits = 1
CHECK_DEADLOCK FALSE
PROPERTIES TokensCumulative
