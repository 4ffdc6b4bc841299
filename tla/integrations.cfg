SPECIFICATION Spec
CONSTANTS
  main = main  dev = dev  s1 = s1  s2 = s2  NoTime = NoTime
  Parts = {"pipeline", "stack", "curriculum", "registry", "runs", "pairing", "auto", "capture", "workflows", "staging", "reads", "vcs", "storage", "client", "backends", "tracker", "index", "providers", "routers", "cli", "engine", "episodes", "evals", "validation"}
  Tasks = {"t1", "t2"}  Snapshots = {1, 2, 3}  Matching = {1, 3}
  Permissions = {"read"}  Ttl = 2  Retries = 1  Timeout = 1  MaxTime = 4
  Procs = {"p", "q"}  Names = {"a"}  Uris = {"u", "v"}  MaxCommands = 4
  Contexts = {"m", "w"}  Callers = {"w"}  FallbackOrder <- MCFallbackOrder  MaxAttempts = 2  Deadline = 1
  Base = 1  Cap = 2  Jitter = 1  CallTime = 1  MaxScopes = 1
  Routes = {"r", "q"}  Docs = {"lo"}  Confident = {}  TTL = 1  RouteTime = 4
  Agents = {"a", "b"}  Actions = {"access", "write"}  Resources = {"m1", "m2"}  Patterns = {"m1", "m2", "m*", "*1"}
  Matches <- Glob  Values = {1, 2, 3}  NoValue = 0  Lowest = 0  Highest = 9  RBACs <- MCRBACs  ABACs <- MCABACs  MaxStages = 2
  Users = {"c"}  Workers = {"w1", "w2"}  Requests = {"r1", "r2"}  Configs <- MCConfigs
  Mode = "block"  Lifetime = 1  MaxEntries = 1
  Categories = {"x", "y"}  Injections = 1  Factor = 1  MaxRounds = 1  Tenths = 9  MaxTasks = 1
  Namespaces = {"acme", "corp"}  Guards = {"pii", "pii-vendor"}  Vendors = {"pii-vendor"}  StartOf <- MCStartOf
  MaxVersion = 2  MaxSpecs = 3
  Calls = {"c1", "c2"}  Exporters = {"gcp", "jsonl"}  BatchSize = 2
  Threads = {"t1", "t2"}  Coroutines = {"a", "b", "c"}  ThreadOf <- MCThreadOf  MaxDepth = 2  MaxWorkflows = 2
  EnvTasks = 2  CaptureSteps = TRUE  MaxEpisodes = 3  MaxSteps = 2  MaxCases = 2
INVARIANTS TypeOK GuardrailsAreSound CallsAreCorrelated StoresAreWhole CallsAreCurrent
PROPERTIES StaleEntriesDieOut FrameworksAreRecorded  
CHECK_DEADLOCK FALSE
