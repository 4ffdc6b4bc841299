----------------------------- MODULE MCIntegrations -----------------------------
(***************************************************************************)
(* The components that share no state with one another, as one system for  *)
(* TLC: a behaviour is one of one component, chosen at the start, on a     *)
(* small instance.  To those of SideBySide it adds the ones of which        *)
(* nothing is proved, on the instances given here.  Their variables are     *)
(* slots: a component uses as many as it has variables, in the order it     *)
(* declares them.                                                           *)
(***************************************************************************)
EXTENDS SideBySide

CONSTANTS main, dev, s1, s2, NoTime  \* model values

VARIABLES v1, v2, v3, v4, v5, v6, v7, v8, v9, v10, v11, v12, v13

slots == <<v1, v2, v3, v4, v5, v6, v7, v8, v9, v10, v11, v12, v13>>
vars == <<sideVars, slots>>

MCFallbackOrder == <<"a", "b">>

------------------------------------------------------------------------------
\* Guardrails.

Glob(resource, pattern) ==
  \/ resource = pattern
  \/ pattern = "m*" /\ resource \in {"m1", "m2"}
  \/ pattern = "*1" /\ resource = "m1"

MCRBACs ==
  [kind : {"rbac"}, agents : {{}, {"a"}, {"b"}}, actions : {{}, {"access"}, {"write"}},
   resources : {{}, {"m1"}, {"m2"}, {"m*"}, {"*1"}}]

\* Up to two rules that deny, or one that allows.
MCABACs ==
  LET Rule(effect) == [op : {">=", "<=", "==", "!="}, value : {1, 2}, effect : {effect}]
  IN  [kind : {"abac"}, rules : UNION {[1..n -> Rule("deny")] : n \in 0..2} \union [1..1 -> Rule("allow")]]

MCConfigs == <<{"r1"}, {"r2"}>>
MCStartOf == [v \in {"pii-vendor"} |-> "pii"]

------------------------------------------------------------------------------
\* Workflows.

MCThreadOf == [t \in {"a", "b", "c"} |-> IF t = "a" THEN "t1" ELSE "t2"]

------------------------------------------------------------------------------
\* Captured runs and events.

Runs == INSTANCE RunCapture WITH
  handler <- v1, runs <- v2, inflight <- v3, decisions <- v4, spans <- v5, exports <- v6, taken <- v7,
  kept <- v8, lost <- v9, misled <- v10,
  Handlers <- {"langchain", "llamaindex", "agents"},
  MaxRuns <- [h \in {"langchain", "llamaindex", "agents"} |-> IF h = "llamaindex" THEN 2 ELSE 3],
  MaxKinds <- 2, Captured <- {"llm", "chat", "chain", "retrieve", "query", "synthesize", "trace"}

Pairing == INSTANCE EventPairing WITH activities <- v1, inflight <- v2, records <- v3, heard <- v4,
  Families <- {"agent", "memory_query", "memory_retrieval"}, Keys <- {"k1", "k2"}, MaxActivities <- 3

Instruments == INSTANCE Instrumentation WITH
  patches <- v1, wrappers <- v2, originals <- v3, bus <- v4, installed <- v5, pending <- v6, made <- v7,
  hooks <- v8, raced <- v9, manual <- v10, last <- v11, depth <- v12, answer <- v13,
  Threads <- {"t1", "t2"}, Agents <- {"a"}, MaxHandlers <- 2, MaxDepth <- 2,
  Frameworks <- {"langchain", "ag2", "crewai", "autogen", "pageindex"}

------------------------------------------------------------------------------
\* Version control and stores.

Staging == INSTANCE StagedCommits WITH
  commits <- v1, head <- v2, dirty <- v3, clock <- v4, pc <- v5, name <- v6, left <- v7, seen <- v8,
  victims <- v9, swept <- v10,
  Sessions <- {s1, s2}, Main <- main, Target <- dev,
  Files <- [s \in {s1, s2} |-> IF s = s1 THEN {1, 2} ELSE {2}], Others <- {<<dev, 2>>},
  Strategy <- "default", CleanupOnSuccess <- TRUE, CleanupOnFailure <- TRUE, AutoMode <- TRUE,
  MaxAge <- 0, MaxTime <- 1, MaxCommits <- 4

Reads == INSTANCE VersionedReads WITH
  commits <- v1, staged <- v2, uploads <- v3, registered <- v4, entering <- v5, frames <- v6, spans <- v7,
  failed <- v8, reading <- v9, reads <- v10,
  Threads <- {"t"}, MaxCommits <- 2, MaxUploads <- 2, MaxDepth <- 2, MaxReads <- 1

Vcs == INSTANCE VcsClients WITH
  live <- v1, tree <- v2, index <- v3, commits <- v4, writes <- v5, writing <- v6, at <- v7, wrote <- v8,
  owed <- v9, refused <- v10, version <- v11, status <- v12,
  DvcClients <- {"d"}, LfsClients <- {"l"}, OtherClients <- {}, Paths <- {"p"},
  MaxWrites <- 2, MaxCommits <- 2

Row(id, key, vt, tx, parent) == [id |-> id, key |-> key, vt |-> vt, tx |-> tx, parent |-> parent]

Backends == INSTANCE BitemporalBackends WITH
  backend <- v1, rows <- v2, coarse <- v3, connected <- v4, handle <- v5, expired <- v6, left <- v7, at <- v8,
  overlapped <- v9,
  Backends <- {"memory", "sqlite", "kdb", "iceberg"}, Clients <- {"c1", "c2"}, MaxRows <- 2,
  Batches <- {<<Row(1, "a", 1, 1, 0)>>, <<Row(2, "a", 2, 1, 0), Row(1, "b", 1, 1, 0)>>,
              <<Row(3, "a", 1, 2, 1)>>},
  Legacy <- <<Row(1, "a", 1, 2, 0), Row(2, "a", 1, 3, 1)>>, Keys <- {"a", "b"}, NoTime <- NoTime

Tracker == INSTANCE SnapshotTracker WITH
  policy <- v1, snaps <- v2, lastTime <- v3, clock <- v4, calls <- v5, disordered <- v6,
  Threads <- {"t1", "t2"}, ApiSources <- {"api"}, DbSources <- {"api"}, FileSources <- {"api"}, Data <- {"d1", "d2"}, Detectors <- {"api"},
  Policies <- {[frequency |-> "timed", threshold |-> FALSE, retention |-> 0, max |-> 1],
               [frequency |-> "on_change", threshold |-> TRUE, retention |-> 1, max |-> 0]},
  Interval <- 2, MaxTime <- 2, MaxStored <- 2

Index == INSTANCE EmbeddingIndex WITH
  commits <- v1, model <- v2, chosen <- v3, batches <- v4, manifests <- v5, store <- v6, vectors <- v7,
  Docs <- {"d"}, MaxCommits <- 3, MaxModels <- 2, MaxBatches <- 2, MaxManifests <- 1

------------------------------------------------------------------------------
\* Engines and prompts.

Engine == INSTANCE ReflectionTransport WITH
  server <- v1, swaps <- v2, cache <- v3, schemas <- v4, transports <- v5, refused <- v6,
  Transports <- {"t", "u"}, Home <- [vcs |-> "a", health |-> "d"], Service <- "vcs", Floor <- {"vcs"},
  Versions <- <<[a |-> {"b"}, b |-> {}], [a |-> {"c"}, c |-> {"b"}, b |-> {}], [d |-> {}]>>, MaxSwaps <- 1

Validation == INSTANCE PromptValidation WITH mode <- v1, base <- v2, tasks <- v3, moved <- v4,
  Tasks <- {"t1"}, References <- {"x", "y"}, Modes <- {"strict", "tolerant", "warn_only"}, MaxCommits <- 3

------------------------------------------------------------------------------
\* The system.

\* The slots from the k-th on, which a component of fewer variables leaves at 0.
From5 == <<v5, v6, v7, v8, v9, v10, v11, v12, v13>>
From7 == <<v7, v8, v9, v10, v11, v12, v13>>
From8 == <<v8, v9, v10, v11, v12, v13>>
From10 == <<v10, v11, v12, v13>>
From11 == <<v11, v12, v13>>
From13 == <<v13>>

Zero13 == v13 = 0
Zero12 == v12 = 0 /\ Zero13
Zero11 == v11 = 0 /\ Zero12
Zero10 == v10 = 0 /\ Zero11
Zero9 == v9 = 0 /\ Zero10
Zero8 == v8 = 0 /\ Zero9
Zero7 == v7 = 0 /\ Zero8
Zero6 == v6 = 0 /\ Zero7
Zero5 == v5 = 0 /\ Zero6
Zero4 == v4 = 0 /\ Zero5
Zero3 == v3 = 0 /\ Zero4
Zero2 == v2 = 0 /\ Zero3

Zero1 == v1 = 0 /\ Zero2

Init ==
  /\ SideInit
  /\ \/ /\ part \in {"storage", "client", "cli", "providers", "routers",
                     "pipeline", "stack", "curriculum", "registry",
                     "capture", "workflows", "episodes", "evals"}
        /\ Zero1
     \/ part = "runs" /\ Runs!Init /\ Zero11
     \/ part = "pairing" /\ Pairing!Init /\ Zero5
     \/ part = "auto" /\ Instruments!Init
     \/ part = "staging" /\ Staging!Init /\ Zero11
     \/ part = "reads" /\ Reads!Init /\ Zero11
     \/ part = "vcs" /\ Vcs!Init /\ Zero13
     \/ part = "backends" /\ Backends!Init /\ Zero10
     \/ part = "tracker" /\ Tracker!Init /\ Zero7
     \/ part = "index" /\ Index!Init /\ Zero8
     \/ part = "engine" /\ Engine!Init /\ Zero7
     \/ part = "validation" /\ Validation!Init /\ Zero5

SlotNext ==
  \/ part = "runs" /\ Runs!Next /\ UNCHANGED <<part, From11>>
  \/ part = "pairing" /\ Pairing!Next /\ UNCHANGED <<part, From5>>
  \/ part = "auto" /\ Instruments!Next /\ UNCHANGED <<part>>
  \/ part = "staging" /\ Staging!Next /\ UNCHANGED <<part, From11>>
  \/ part = "reads" /\ Reads!Next /\ UNCHANGED <<part, From11>>
  \/ part = "vcs" /\ Vcs!Next /\ UNCHANGED <<part, From13>>
  \/ part = "backends" /\ Backends!Next /\ UNCHANGED <<part, From10>>
  \/ part = "tracker" /\ Tracker!Next /\ UNCHANGED <<part, From7>>
  \/ part = "index" /\ Index!Next /\ UNCHANGED <<part, From8>>
  \/ part = "engine" /\ Engine!Next /\ UNCHANGED <<part, From7>>
  \/ part = "validation" /\ Validation!Next /\ UNCHANGED <<part, From5>>

Next ==
  \/ SideNext /\ UNCHANGED slots
  \/ SlotNext /\ UNCHANGED sides

\* The clock of a guardrail's cache goes on (GuardrailStack).
Fairness ==
  WF_vars(part = "stack" /\ Stack!Tick
          /\ UNCHANGED <<part, callVars, recordVars, stages, curriculumVars, registryVars, slots>>)

Spec == Init /\ [][Next]_vars /\ Fairness

\* What these components assume of their parameters.
ASSUME PartsAssumption ==
  /\ Runs!RunAssumption
  /\ Pairing!PairingAssumption
  /\ Instruments!InstrumentationAssumption
  /\ Staging!StagedAssumption
  /\ Reads!ReadsAssumption
  /\ Vcs!VcsAssumption
  /\ Backends!BackendsAssumption
  /\ Tracker!TrackerAssumption
  /\ Index!IndexAssumption
  /\ Engine!TransportAssumption
  /\ Validation!ValidationAssumption

------------------------------------------------------------------------------
\* Properties: those of the components, each about its own part, and SideBySide's.

TypeOK ==
  /\ part = "pipeline" => Pipeline!TypeOK
  /\ part = "stack" => Stack!TypeOK
  /\ part = "curriculum" => Curriculum!TypeOK
  /\ part = "registry" => Registry!TypeOK
  /\ part = "runs" => Runs!TypeOK
  /\ part = "pairing" => Pairing!TypeOK
  /\ part = "auto" => Instruments!TypeOK
  /\ part = "capture" => Capture!TypeOK
  /\ part = "workflows" => Workflows!TypeOK
  /\ part = "staging" => Staging!TypeOK
  /\ part = "reads" => Reads!TypeOK
  /\ part = "vcs" => Vcs!TypeOK
  /\ part = "storage" => Storage!TypeOK
  /\ part = "client" => Client!TypeOK
  /\ part = "backends" => Backends!TypeOK
  /\ part = "tracker" => Tracker!TypeOK
  /\ part = "index" => Index!TypeOK
  /\ part = "providers" => Providers!TypeOK
  /\ part = "routers" => Routers!TypeOK
  /\ part = "cli" => Cli!TypeOK
  /\ part = "engine" => Engine!TypeOK
  /\ part = "episodes" => Gym!TypeOK
  /\ part = "evals" => Evals!TypeOK
  /\ part = "validation" => Validation!TypeOK

\* An answer cached under a configuration that has been replaced is too old to be
\* given from some time on, whoever keeps asking for it (CacheWrapper.evaluate).
StaleEntriesDieOut ==
  \A v \in {1, 2} :
    part = "stack" /\ Stack!Replaced(v) ~> [](part = "stack" => Stack!DiedOut(v))

\* What a framework runs is recorded once and where it belongs: a run that ends
\* has one record, a chain is exported with its children, a pair of wrong events
\* does not outlive the burst, and instrumenting and undoing in any order leaves
\* no handler twice and none behind (the handlers of integrations/frameworks).
FrameworksAreRecorded ==
  /\ []/\ part = "runs" => Runs!RunsAreRecordedOnce
       /\ part = "pairing" => Pairing!MispairsEndWithTheBurst
       /\ part = "auto" => Instruments!UndoneIsSilent /\ Instruments!EventsAreRecordedOnce
  /\ [][part = "runs" => Runs!ExportsCarryTheirChildren]_vars


==============================================================================
