SPECIFICATION ServicesSpec
CHECK_DEADLOCK FALSE
CONSTANTS
  None = None
  Parts = {"api"}
  Procs = {m1, m2}
  TaskIds = {t1}
  Plans = {m1, m2}
  Subjects = {m1, m2}
  Writers = {w1}
  Ids = {m1, m2}
  Contents = {m1, m2}
  Titles = {ti}
  Topics = {t}
  SummaryTopic = t
  Projects = {a, b}
  Keys = {k}
  MaxMutations = 2
  Pushers = {g1, g2}
  ChunkSize = 2
  MaxChunks = 2
  MaxExports = 1
  LightProject = a
  Pusher = g1
  Shells = {m1, m2}
  Jobs = {j1}
  Launches = {m1, m2}
  Workspaces = {n1, n2}
  BaseName = n1
  Targets = {main, dev}
  Main = main
  Work = {w}
  MaxExecutions = 2
  Managers = {m1, m2}
  Server = srv
  AgentNames = {an}
  ApiTasks = {u}
  MaxAttempts = 3
  Peers = {m1, m2}
  Inboxes = {b1}
  MaxMessages = 3
  MaxTotal = 2
  Limit = 1
  Starters = {m1, m2}
  Scripts <- ThreeScripts
  MaxStarts = 4
  Commands = {c1}
  McpServer = mcp
  BufferSize = 2
  MaxEvents = 4
  Users = {m1, m2}
  SessionProjects = {a, b}
  MaxSessions = 2
  MaxClock = 1
  Servers = {m1, m2}
  PlanIds = {p1, p2}
  MaxContracts = 3
  Planners = {m1, m2}
  ScheduleIds = {i1, i2}
  MaxDue = 2
  Threads = {m1, m2}
  FailureThreshold = 2
  HalfOpenMax = 1
  MaxFailures = 3
  QueueSize = 2
  MaxLetters = 3
  MaxRetries = 2
  Clients = {h1}
  MaxRequests = 2
  Window = 4
  Second = 2
  MaxAge = 4
  HookMessages = {y1, y2}
  Allowed = {y1}
  Important = {y1}
  MaxNow = 9
  TemplateNames = {f1}
  Teams = {t1}
  MaxSaved = 1
  HookEvents = {"start", "complete"}
  HookFiles <- TwoHooks
  Broken = Broken
  RetryAttempts = 2
  Hunters = {m1, m2}
  Roles = {r1, r2}
  Ripper = r1
  Notes = {1, 2, 3, 4}
  Texts = {"x", " x", "blank"}
  NoteTitles = {ti}
  Stripped <- StripTexts
  NoteTopics = {t1, t2}
  NoteProjects = {a}
  Stem <- OneStem
  MaxNotes = 2
  RowIds = {m1, m2}
  Prefixes = {f1, f2}
  DiffTopics = {t}
  DiffContents = {m1, m2}
  DiffProjects = {a}
  DiffSessions = {s}
  MaxTime = 2
  CharsPerToken = 4
  Marker = 3
  Annotation = 2
  MaxTokens = 5
  MaxList = 2
  Metas = {3, 5}
  Lengths = {0, 2, 4, 7, 11}
  Costs = {1, 2, 6}
INVARIANTS
  RestoredSessionsSurvive
