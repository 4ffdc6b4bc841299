------------------------------- MODULE SideBySide -------------------------------
(***************************************************************************)
(* Thirteen components that share no state with one another, as one        *)
(* system, and what holds of it for every value of the constants: a        *)
(* behaviour is one of one component, chosen at the start, or of none.     *)
(* Two components' variables of one name are told apart here.              *)
(***************************************************************************)
EXTENDS Integers, Sequences, FiniteSets, FiniteSetTheorems, SequenceTheorems,
        Subsequences, TLAPS

CONSTANTS
  Parts,                                                         \* the components
  Tasks, Snapshots, Matching,                                    \* of the storage backend
  Permissions, Ttl, Retries, Timeout, MaxTime,                   \* of the API client
  Procs, Names, Uris, MaxCommands,                               \* of the command line
  Contexts, Callers, FallbackOrder, MaxAttempts, Deadline,       \* of provider calls
  Base, Cap, Jitter, CallTime, MaxScopes,
  Routes, Docs, Confident, TTL, RouteTime,                       \* of the routers
  Agents, Actions, Resources, Patterns, Matches(_, _),           \* of guardrail pipelines
  Values, NoValue, Lowest, Highest, RBACs, ABACs, MaxStages,
  Users, Workers, Requests, Configs, Mode, Lifetime, MaxEntries, \* of a wrapped guardrail
  Categories, Injections, Factor, MaxRounds, Tenths, MaxTasks,   \* of the curriculum
  Namespaces, Guards, Vendors, StartOf, MaxVersion, MaxSpecs,    \* of the guardrails' registry
  Calls, Exporters, BatchSize,                                   \* of captured calls
  Threads, Coroutines, ThreadOf, MaxDepth, MaxWorkflows,         \* of workflows
  EnvTasks, CaptureSteps, MaxEpisodes, MaxSteps,                 \* of episodes
  MaxCases                                                       \* of evaluation runs

VARIABLES
  part,
  pending, objects, versions, flushing, decisions, saved, deleted, lost,
  granted, clock, validated, validation, asking, forgotten,
  files, procs, commands, accepted, registered,
  scopes, providers, env, completions, elapsed, sent,
  policy, opinions, routes, bus, today, answer,
  stages,
  config, store, worker, caller,
  tasks, todo, report, round, pc,
  specs, made,
  configured, calls, to, outcome, queue, holds, buffer, flushes, arrived, dropped, shared,
  current, context, blocks, stuck, owner,
  kind, task, done, episode, steps, return, started, records,
  cases, record, thread, exported, runs, raced

Storage == INSTANCE VcsStorage WITH task <- flushing, dropped <- lost
Client == INSTANCE ApiClient WITH cache <- validation, task <- asking
Cli == INSTANCE RunRegistry
Providers == INSTANCE ProviderCalls WITH
  registered <- providers, calls <- completions, now <- elapsed, MaxTime <- CallTime
Routers == INSTANCE PolicyRouters WITH cache <- opinions, now <- today, MaxTime <- RouteTime
Pipeline == INSTANCE GuardrailPipeline
Stack == INSTANCE GuardrailStack WITH Callers <- Users, Ttl <- Lifetime
Curriculum == INSTANCE GuardrailCurriculum
Registry == INSTANCE GuardrailRegistry WITH Names <- Guards
Capture == INSTANCE CaptureExport
Workflows == INSTANCE WorkflowContexts WITH Tasks <- Coroutines
Gym == INSTANCE Episodes WITH Tasks <- EnvTasks
Evals == INSTANCE EvalRuns

ASSUME SideAssumption ==
  /\ Storage!VcsAssumption
  /\ Client!ClientAssumption
  /\ Cli!RegistryAssumption
  /\ Providers!CallAssumption
  /\ Routers!RouterAssumption
  /\ Pipeline!GuardrailAssumption
  /\ Stack!StackAssumption
  /\ Curriculum!CurriculumAssumption
  /\ Registry!NamesAssumption
  /\ Capture!CaptureAssumption
  /\ Workflows!WorkflowAssumption
  /\ Gym!EpisodesAssumption
  /\ Evals!EvalAssumption

------------------------------------------------------------------------------
\* The system: what a component that was not chosen would keep stays 0.

NoStorage ==
  /\ pending = 0 /\ objects = 0 /\ versions = 0 /\ flushing = 0
  /\ decisions = 0 /\ saved = 0 /\ deleted = 0 /\ lost = 0
NoClient ==
  granted = 0 /\ clock = 0 /\ validated = 0 /\ validation = 0 /\ asking = 0 /\ forgotten = 0
NoCli == files = 0 /\ procs = 0 /\ commands = 0 /\ accepted = 0 /\ registered = 0
NoProviders ==
  scopes = 0 /\ providers = 0 /\ env = 0 /\ completions = 0 /\ elapsed = 0 /\ sent = 0
NoRouters == policy = 0 /\ opinions = 0 /\ routes = 0 /\ bus = 0 /\ today = 0 /\ answer = 0
NoPipeline == stages = 0
NoStack == config = 0 /\ store = 0 /\ worker = 0 /\ caller = 0
NoCurriculum == tasks = 0 /\ todo = 0 /\ report = 0 /\ round = 0 /\ pc = 0
NoRegistry == specs = 0 /\ made = 0
NoCapture ==
  /\ configured = 0 /\ calls = 0 /\ to = 0 /\ outcome = 0 /\ queue = 0 /\ holds = 0
  /\ buffer = 0 /\ flushes = 0 /\ arrived = 0 /\ dropped = 0 /\ shared = 0
NoWorkflows == current = 0 /\ context = 0 /\ blocks = 0 /\ stuck = 0 /\ owner = 0
NoEpisodes ==
  /\ kind = 0 /\ task = 0 /\ done = 0 /\ episode = 0
  /\ steps = 0 /\ return = 0 /\ started = 0 /\ records = 0
NoEvals == cases = 0 /\ record = 0 /\ thread = 0 /\ exported = 0 /\ runs = 0 /\ raced = 0

SideInit ==
  /\ part \in Parts
  /\ IF part = "storage" THEN Storage!Init ELSE NoStorage
  /\ IF part = "client" THEN Client!Init ELSE NoClient
  /\ IF part = "cli" THEN Cli!Init ELSE NoCli
  /\ IF part = "providers" THEN Providers!Init ELSE NoProviders
  /\ IF part = "routers" THEN Routers!Init ELSE NoRouters
  /\ IF part = "pipeline" THEN Pipeline!Init ELSE NoPipeline
  /\ IF part = "stack" THEN Stack!Init ELSE NoStack
  /\ IF part = "curriculum" THEN Curriculum!Init ELSE NoCurriculum
  /\ IF part = "registry" THEN Registry!Init ELSE NoRegistry
  /\ IF part = "capture" THEN Capture!Init ELSE NoCapture
  /\ IF part = "workflows" THEN Workflows!Init ELSE NoWorkflows
  /\ IF part = "episodes" THEN Gym!Init ELSE NoEpisodes
  /\ IF part = "evals" THEN Evals!Init ELSE NoEvals

storageVars == <<pending, objects, versions, flushing, decisions, saved, deleted, lost>>
clientVars == <<granted, clock, validated, validation, asking, forgotten>>
cliVars == <<files, procs, commands, accepted, registered>>
providerVars == <<scopes, providers, env, completions, elapsed, sent>>
routerVars == <<policy, opinions, routes, bus, today, answer>>
stackVars == <<config, store, worker, caller>>
curriculumVars == <<tasks, todo, report, round, pc>>
registryVars == <<specs, made>>
guardrailVars == <<stages, stackVars, curriculumVars, registryVars>>
callVars == <<storageVars, clientVars, cliVars, providerVars, routerVars>>
captureVars == <<configured, calls, to, outcome, queue, holds, buffer, flushes, arrived, dropped, shared>>
workflowVars == <<current, context, blocks, stuck, owner>>
episodeVars == <<kind, task, done, episode, steps, return, started, records>>
evalVars == <<cases, record, thread, exported, runs, raced>>
recordVars == <<captureVars, workflowVars, episodeVars, evalVars>>
sides == <<callVars, guardrailVars, recordVars>>
sideVars == <<part, sides>>

SideNext ==
  \/ /\ part = "storage" /\ Storage!Next
     /\ UNCHANGED <<part, clientVars, cliVars, providerVars, routerVars, guardrailVars, recordVars>>
  \/ /\ part = "client" /\ Client!Next
     /\ UNCHANGED <<part, storageVars, cliVars, providerVars, routerVars, guardrailVars, recordVars>>
  \/ /\ part = "cli" /\ Cli!Next
     /\ UNCHANGED <<part, storageVars, clientVars, providerVars, routerVars, guardrailVars, recordVars>>
  \/ /\ part = "providers" /\ Providers!Next
     /\ UNCHANGED <<part, storageVars, clientVars, cliVars, routerVars, guardrailVars, recordVars>>
  \/ /\ part = "routers" /\ Routers!Next
     /\ UNCHANGED <<part, storageVars, clientVars, cliVars, providerVars, guardrailVars, recordVars>>
  \/ /\ part = "pipeline" /\ Pipeline!Next
     /\ UNCHANGED <<part, stackVars, curriculumVars, registryVars, callVars, recordVars>>
  \/ /\ part = "stack" /\ Stack!Next
     /\ UNCHANGED <<part, stages, curriculumVars, registryVars, callVars, recordVars>>
  \/ /\ part = "curriculum" /\ Curriculum!Next
     /\ UNCHANGED <<part, stages, stackVars, registryVars, callVars, recordVars>>
  \/ /\ part = "registry" /\ Registry!Next
     /\ UNCHANGED <<part, stages, stackVars, curriculumVars, callVars, recordVars>>
  \/ /\ part = "capture" /\ Capture!Next
     /\ UNCHANGED <<part, workflowVars, episodeVars, evalVars, callVars, guardrailVars>>
  \/ /\ part = "workflows" /\ Workflows!Next
     /\ UNCHANGED <<part, captureVars, episodeVars, evalVars, callVars, guardrailVars>>
  \/ /\ part = "episodes" /\ Gym!Next
     /\ UNCHANGED <<part, captureVars, workflowVars, evalVars, callVars, guardrailVars>>
  \/ /\ part = "evals" /\ Evals!Next
     /\ UNCHANGED <<part, captureVars, workflowVars, episodeVars, callVars, guardrailVars>>

SideSpec == SideInit /\ [][SideNext]_sideVars

------------------------------------------------------------------------------
\* Properties: those of the components, each about its own part.

\* What was stored is found once and whole: snapshots are pending or written and
\* pages partition them, a cached permission is recent, a registry is never half
\* written and a run that reads as submitted was taken (storage/vcs/adapter.rs,
\* client.rs, cli/state.py, cli/commands.py).
StoresAreWhole ==
  /\ part = "storage" => Storage!SavedIsInOnePlace /\ Storage!PagesPartition
  /\ part = "client" => Client!CachedAnswersAreRecent
  /\ part = "cli" => Cli!RegistriesAreWhole /\ Cli!SubmittedWasAccepted

\* Calls go out under the right key and in time: a tenant's call never on the
\* platform's credential, no sleep past the deadline, no answer of a policy older
\* than the cache allows, and no review unannounced (controls, routing, events).
CallsAreCurrent ==
  /\ part = "providers" => Providers!TenantsStayOnTheirKeys /\ Providers!SleepsEndInTime
  /\ part = "routers" => Routers!RoutesAreCurrent /\ Routers!ReviewsAreAnnounced

\* Guardrails allow what their parts allow, today: a call is answered from the
\* cache only while the answer is fresh and never by what a caller did not wait
\* for, stages that share no space allow nothing but what their spaces overlook and
\* the intersection of two spaces is what both contain, their union what either does,
\* a curriculum reports on all of its tasks, and an id goes on naming what it named
\* (guardrails/framework.py).
GuardrailsAreSound ==
  /\ part = "stack" => Stack!AllowsAreEarned
  /\ part = "pipeline" => Pipeline!IncompatibleAllowsNothing /\ Pipeline!IntersectionIsBoth
                         /\ Pipeline!UnionHoldsEither
  /\ part = "curriculum" => Curriculum!ReportsAreFinal
  /\ part = "registry" => Registry!MadeStays

\* A captured call's record is in one place at a time until it arrives; the workflow
\* it is correlated with is of its own thread, and of its own task where that is alone
\* there; its trace is its task's, of the innermost traced block it is in but for one
\* whose span could not be finalized; an episode's record and an evaluation's summary
\* add up to the records of their steps and cases (decorators.py, _export_mixin.py,
\* gcp_logging.py, correlation/workflow.py, gym/capture.py, evals/run.py).
CallsAreCorrelated ==
  /\ part = "capture" => Capture!RecordsAreInOnePlace
  /\ part = "workflows" => Workflows!WorkflowsNest /\ Workflows!TracesFollowTasks
  /\ part = "episodes" => Gym!EpisodesAddUp
  /\ part = "evals" => Evals!RunsAddUp

------------------------------------------------------------------------------
\* The component's own notion of size is the library's.
LEMMA StorageCounts ==
  /\ \A S : Storage!Cardinality(S) = Cardinality(S)
  /\ \A S : Storage!IsFiniteSet(S) <=> IsFiniteSet(S)
BY DEF Storage!Cardinality, Storage!IsFiniteSet, Cardinality, IsFiniteSet

------------------------------------------------------------------------------
\* VcsStorage.

Taken(t, s) == flushing[t].at = "write" /\ s \in Storage!Unwritten(t)
Held(s) == s \in {pending[i] : i \in DOMAIN pending}

StorageType ==
  /\ pending \in Seq(Snapshots) /\ objects \subseteq Snapshots
  /\ flushing \in [Tasks -> [at : {"idle", "write", "version"}, batch : Seq(Snapshots), next : Nat \ {0}]]
  /\ \A t \in Tasks : flushing[t].at = "write" => flushing[t].next <= Len(flushing[t].batch)
  /\ saved \subseteq Snapshots /\ deleted \subseteq Snapshots /\ lost \subseteq Snapshots

\* What is held back or has yet to be written appears once.
NoRepeats ==
  /\ \A i, j \in 1..Len(pending) : pending[i] = pending[j] => i = j
  /\ \A t \in Tasks : flushing[t].at = "write" =>
       \A i, j \in flushing[t].next..Len(flushing[t].batch) :
         flushing[t].batch[i] = flushing[t].batch[j] => i = j

\* No snapshot is in two places, and only saved ones are anywhere.
PlacesApart ==
  \A s \in Snapshots :
    /\ Held(s) => s \notin objects /\ s \notin deleted /\ s \notin lost
    /\ s \in objects => s \notin deleted /\ s \notin lost
    /\ s \in deleted => s \notin lost
    /\ \A t \in Tasks : Taken(t, s) =>
         /\ ~ Held(s) /\ s \notin objects /\ s \notin deleted /\ s \notin lost
         /\ \A u \in Tasks : Taken(u, s) => t = u

SavedIsSomewhere ==
  \A s \in Snapshots : 
    s \in saved <=> Held(s) \/ s \in objects \/ s \in deleted \/ s \in lost \/ \E t \in Tasks : Taken(t, s)

StorageInv == StorageType /\ NoRepeats /\ PlacesApart /\ SavedIsSomewhere

\* The invariant holds when the backend is made.
LEMMA StorageStart == Storage!Init => StorageInv
<1> SUFFICES ASSUME Storage!Init PROVE StorageInv
  OBVIOUS
<1>1. StorageType
  BY EmptySeq DEF StorageType, Storage!Init, Storage!Idle
<1>2. \A t \in Tasks : flushing[t].at = "idle"
  BY DEF Storage!Init, Storage!Idle
<1>3. \A s : ~ Held(s) /\ \A t \in Tasks : ~ Taken(t, s)
  BY <1>2 DEF Storage!Init, Held, Taken
<1>4. QED
  <2>1. NoRepeats
    BY <1>2 DEF NoRepeats, Storage!Init
  <2>2. PlacesApart /\ SavedIsSomewhere
    BY <1>3 DEF PlacesApart, SavedIsSomewhere, Storage!Init
  <2>3. QED
    BY <1>1, <2>1, <2>2 DEF StorageInv

\* A save puts a new snapshot into the buffer, and only there.
LEMMA StorageSaves ==
  ASSUME StorageInv, NEW s \in Snapshots, Storage!Save(s)
  PROVE  StorageInv'
<1> USE DEF StorageInv
<1>1. /\ pending' = Append(pending, s) /\ saved' = saved \union {s} /\ s \notin saved
      /\ UNCHANGED <<objects, flushing, deleted, lost>>
  BY DEF Storage!Save
<1>2. StorageType'
  BY <1>1, AppendProperties DEF StorageType
<1>3. /\ Len(pending') = Len(pending) + 1 /\ pending'[Len(pending) + 1] = s
      /\ \A i \in 1..Len(pending) : pending'[i] = pending[i]
      /\ DOMAIN pending' = 1..Len(pending) + 1 /\ DOMAIN pending = 1..Len(pending)
      /\ Len(pending) \in Nat
  BY <1>1, AppendProperties DEF StorageType
<1>4. \A x \in Snapshots : Held(x)' <=> Held(x) \/ x = s
  BY <1>3 DEF Held
<1>5. \A x \in Snapshots, t \in Tasks : Taken(t, x)' <=> Taken(t, x)
  BY <1>1 DEF Taken, Storage!Unwritten
<1>6. ~ Held(s)
  BY <1>1 DEF SavedIsSomewhere
<1>7. NoRepeats'
  <2>1. \A i \in 1..Len(pending) : pending[i] # s
    BY <1>6, <1>3 DEF Held
  <2>2. QED
    BY <1>1, <1>3, <2>1 DEF NoRepeats
<1>8. PlacesApart' /\ SavedIsSomewhere'
  BY <1>1, <1>4, <1>5, <1>6 DEF PlacesApart, SavedIsSomewhere
<1>9. QED
  BY <1>2, <1>7, <1>8

\* A delete takes a written snapshot out of the provider.
LEMMA StorageDeletes ==
  ASSUME StorageInv, NEW s \in Snapshots, Storage!Delete(s)
  PROVE  StorageInv'
<1> USE DEF StorageInv
<1>1. /\ s \in objects /\ objects' = objects \ {s} /\ deleted' = deleted \union {s}
      /\ UNCHANGED <<pending, flushing, saved, lost>>
  BY DEF Storage!Delete
<1>2. StorageType' /\ NoRepeats'
  BY <1>1 DEF StorageType, NoRepeats
<1>3. \A x \in Snapshots : (Held(x)' <=> Held(x)) /\ \A t \in Tasks : Taken(t, x)' <=> Taken(t, x)
  BY <1>1 DEF Held, Taken, Storage!Unwritten
<1>4. PlacesApart' /\ SavedIsSomewhere'
  BY <1>1, <1>3 DEF PlacesApart, SavedIsSomewhere
<1>5. QED
  BY <1>2, <1>4

\* What a task has yet to write is untouched by what another task does.
LEMMA OthersStillTaken ==
  ASSUME StorageType, NEW t \in Tasks, NEW new, flushing' = [flushing EXCEPT ![t] = new]
  PROVE  \A u \in Tasks \ {t} : \A x : Taken(u, x)' <=> Taken(u, x)
BY DEF StorageType, Taken, Storage!Unwritten

\* A flush takes the whole buffer, in its order, for itself alone.
LEMMA StorageFlushes ==
  ASSUME StorageInv, NEW t \in Tasks, Storage!Flush(t)
  PROVE  StorageInv'
<1> DEFINE new == [at |-> "write", batch |-> pending, next |-> 1]
<1> USE DEF StorageInv
<1>1. /\ flushing[t].at = "idle" /\ pending # << >> /\ pending' = << >>
      /\ flushing' = [flushing EXCEPT ![t] = new]
      /\ UNCHANGED <<objects, saved, deleted, lost>>
  BY DEF Storage!Flush, Storage!history
<1>2. /\ new \in [at : {"idle", "write", "version"}, batch : Seq(Snapshots), next : Nat \ {0}]
      /\ Len(pending) \in Nat /\ 1 <= Len(pending) /\ DOMAIN pending = 1..Len(pending)
  <2>1. pending \in Seq(Snapshots) /\ Len(pending) \in Nat /\ Len(pending) # 0
    BY <1>1, EmptySeq, LenProperties DEF StorageType
  <2>2. QED
    BY <2>1, LenProperties
<1>3. StorageType'
  BY <1>1, <1>2, EmptySeq DEF StorageType
<1>4. flushing'[t] = new /\ \A u \in Tasks \ {t} : flushing'[u] = flushing[u]
  BY <1>1 DEF StorageType
<1>5. NoRepeats'
  BY <1>1, <1>2, <1>4 DEF NoRepeats
<1>6. \A x : ~ Held(x)' /\ ~ Taken(t, x) /\ (Taken(t, x)' <=> Held(x))
  BY <1>1, <1>2, <1>4 DEF Held, Taken, Storage!Unwritten
<1>7. \A u \in Tasks \ {t} : \A x : Taken(u, x)' <=> Taken(u, x)
  BY <1>1, OthersStillTaken
<1>8. PlacesApart'
  BY <1>1, <1>6, <1>7 DEF PlacesApart
<1>9. SavedIsSomewhere'
  BY <1>1, <1>6, <1>7 DEF SavedIsSomewhere
<1>10. QED
  BY <1>3, <1>5, <1>8, <1>9

\* A write moves the next snapshot of a batch to the provider.
LEMMA StorageWrites ==
  ASSUME StorageInv, NEW t \in Tasks, Storage!WriteObject(t)
  PROVE  StorageInv'
<1> DEFINE me == flushing[t]
           s == me.batch[me.next]
           new == [at |-> IF me.next = Len(me.batch) THEN "version" ELSE "write",
                   batch |-> me.batch, next |-> me.next + 1]
<1> USE DEF StorageInv
<1>1. /\ me \in [at : {"idle", "write", "version"}, batch : Seq(Snapshots), next : Nat \ {0}]
      /\ me.at = "write" /\ me.next \in 1..Len(me.batch) /\ Len(me.batch) \in Nat
      /\ s \in Snapshots
  <2>1. me.at = "write" /\ me \in [at : {"idle", "write", "version"}, batch : Seq(Snapshots), next : Nat \ {0}]
    BY DEF Storage!WriteObject, StorageType
  <2>2. me.next \in 1..Len(me.batch) /\ Len(me.batch) \in Nat
    BY <2>1, LenProperties DEF StorageType
  <2>3. QED
    BY <2>1, <2>2, ElementOfSeq
<1>2. /\ objects' = objects \union {s} /\ flushing' = [flushing EXCEPT ![t] = new]
      /\ UNCHANGED <<pending, saved, deleted, lost>>
  BY DEF Storage!WriteObject, Storage!history, StorageType
<1>3. flushing'[t] = new /\ \A u \in Tasks \ {t} : flushing'[u] = flushing[u]
  BY <1>2 DEF StorageType
<1>4. StorageType'
  BY <1>1, <1>2 DEF StorageType
<1>5. NoRepeats'
  BY <1>1, <1>2, <1>3 DEF NoRepeats
<1>6. \A x : Held(x)' <=> Held(x)
  BY <1>2 DEF Held
<1>7. \A x : Taken(t, x)' <=> Taken(t, x) /\ x # s
  <2>1. \A x : Taken(t, x) <=> \E i \in me.next..Len(me.batch) : me.batch[i] = x
    BY <1>1 DEF Taken, Storage!Unwritten
  <2>2. \A x : Taken(t, x)' <=> \E i \in me.next + 1..Len(me.batch) : me.batch[i] = x
    BY <1>1, <1>3 DEF Taken, Storage!Unwritten
  <2>3. \A i \in me.next + 1..Len(me.batch) : me.batch[i] # s
    BY <1>1 DEF NoRepeats
  <2>4. QED
    BY <1>1, <2>1, <2>2, <2>3
<1>8. \A u \in Tasks \ {t} : \A x : Taken(u, x)' <=> Taken(u, x)
  BY <1>2, OthersStillTaken
<1>9. Taken(t, s)
  BY <1>1 DEF Taken, Storage!Unwritten
<1>10. PlacesApart'
  BY <1>1, <1>2, <1>6, <1>7, <1>8, <1>9 DEF PlacesApart
<1>11. SavedIsSomewhere'
  BY <1>1, <1>2, <1>6, <1>7, <1>8, <1>9 DEF SavedIsSomewhere
<1>12. QED
  BY <1>4, <1>5, <1>10, <1>11

\* A task that becomes idle has nothing left to write.
LEMMA StorageEnds ==
  ASSUME StorageInv, NEW t \in Tasks, flushing' = [flushing EXCEPT ![t] = Storage!Idle],
         UNCHANGED <<pending, objects, saved, deleted>>,
         lost' = lost \union {x \in Snapshots : Taken(t, x)}
  PROVE  StorageInv'
<1> USE DEF StorageInv
<1>1. flushing'[t] = Storage!Idle /\ \A u \in Tasks \ {t} : flushing'[u] = flushing[u]
  BY DEF StorageType
<1>2. StorageType'
  BY EmptySeq DEF StorageType, Storage!Idle
<1>3. NoRepeats'
  BY <1>1 DEF NoRepeats, Storage!Idle
<1>4. \A x : (Held(x)' <=> Held(x)) /\ ~ Taken(t, x)'
  BY <1>1 DEF Held, Taken, Storage!Idle
<1>5. \A u \in Tasks \ {t} : \A x : Taken(u, x)' <=> Taken(u, x)
  BY OthersStillTaken
<1>6. PlacesApart'
  BY <1>4, <1>5 DEF PlacesApart
<1>7. SavedIsSomewhere'
  BY <1>4, <1>5 DEF SavedIsSomewhere
<1>8. QED
  BY <1>2, <1>3, <1>6, <1>7

\* A write that fails gives up the rest of its batch, and with it its claim on them.
LEMMA StorageFails ==
  ASSUME StorageInv, NEW t \in Tasks, Storage!WriteFails(t)
  PROVE  StorageInv'
<1>1. /\ flushing[t].at = "write" /\ flushing' = [flushing EXCEPT ![t] = Storage!Idle]
      /\ lost' = lost \union Storage!Unwritten(t)
      /\ UNCHANGED <<pending, objects, saved, deleted>>
  BY DEF Storage!WriteFails
<1>2. Storage!Unwritten(t) = {x \in Snapshots : Taken(t, x)}
  <2>1. Storage!Unwritten(t) \subseteq Snapshots
    BY <1>1, ElementOfSeq DEF Storage!Unwritten, StorageInv, StorageType
  <2>2. QED
    BY <1>1, <2>1 DEF Taken
<1>3. QED
  BY <1>1, <1>2, StorageEnds

\* The version is made when nothing of the batch is left to write.
LEMMA StorageVersions ==
  ASSUME StorageInv, NEW t \in Tasks, Storage!CreateVersion(t)
  PROVE  StorageInv'
<1>1. /\ flushing[t].at = "version" /\ flushing' = [flushing EXCEPT ![t] = Storage!Idle]
      /\ UNCHANGED <<pending, objects, saved, deleted, lost>>
  BY DEF Storage!CreateVersion, Storage!history
<1>2. {x \in Snapshots : Taken(t, x)} = {}
  BY <1>1 DEF Taken
<1>3. lost' = lost \union {x \in Snapshots : Taken(t, x)}
  BY <1>1, <1>2
<1>4. QED
  BY <1>1, <1>3, StorageEnds

\* The invariant is about the backend's variables alone.
LEMMA StorageStutters ==
  ASSUME StorageInv, UNCHANGED <<pending, objects, flushing, saved, deleted, lost>>
  PROVE  StorageInv'
BY DEF StorageInv, StorageType, NoRepeats, PlacesApart, SavedIsSomewhere, Held, Taken, Storage!Unwritten

\* Every step of the backend keeps its invariant.
LEMMA StorageStep ==
  ASSUME StorageInv, [Storage!Next]_(Storage!vars)
  PROVE  StorageInv'
<1>1. ASSUME NEW s \in Snapshots, Storage!SaveDecision(s)
      PROVE  StorageInv'
  BY <1>1, StorageStutters DEF Storage!SaveDecision, Storage!history
<1>2. CASE UNCHANGED Storage!vars
  BY <1>2, StorageStutters DEF Storage!vars
<1>3. QED
  BY <1>1, <1>2, StorageSaves, StorageDeletes, StorageFlushes, StorageWrites, StorageFails,
     StorageVersions DEF Storage!Next

\* One place is one place by the count of SavedIsInOnePlace too.
LEMMA SavedOnce == StorageInv => Storage!SavedIsInOnePlace
<1> DEFINE places == << {pending[i] : i \in DOMAIN pending}, objects, deleted, lost >>
           at(s) == {i \in 1..4 : s \in places[i]}
           takers(s) == {t \in Tasks : flushing[t].at = "write" /\ s \in Storage!Unwritten(t)}
<1> SUFFICES ASSUME StorageInv, NEW s \in saved
             PROVE  Cardinality(at(s)) + Cardinality(takers(s)) = 1
  BY StorageCounts DEF Storage!SavedIsInOnePlace
<1>1. s \in Snapshots
  BY DEF StorageInv, StorageType
<1>2. takers(s) = {t \in Tasks : Taken(t, s)}
  BY DEF Taken
<1>3. /\ at(s) \subseteq 1..4
      /\ 1 \in at(s) <=> Held(s)
      /\ 2 \in at(s) <=> s \in objects
      /\ 3 \in at(s) <=> s \in deleted
      /\ 4 \in at(s) <=> s \in lost
  <2>1. /\ s \in places[1] <=> Held(s)
        /\ s \in places[2] <=> s \in objects
        /\ s \in places[3] <=> s \in deleted
        /\ s \in places[4] <=> s \in lost
    BY DEF Held
  <2> HIDE DEF places
  <2>2. \A i : i \in at(s) <=> i \in 1..4 /\ s \in places[i]
    OBVIOUS
  <2> HIDE DEF at
  <2>3. QED
    BY <2>1, <2>2
<1> HIDE DEF at, takers
<1>4. CASE \E t \in Tasks : Taken(t, s)
  <2>1. PICK t \in Tasks : Taken(t, s)
    BY <1>4
  <2>2. takers(s) = {t} /\ at(s) = {}
    BY <1>1, <1>2, <1>3, <2>1 DEF StorageInv, PlacesApart
  <2>3. QED
    BY <2>2, FS_Singleton, FS_EmptySet
<1>5. CASE ~ \E t \in Tasks : Taken(t, s)
  <2>1. takers(s) = {}
    BY <1>2, <1>5
  <2>2. \E k \in 1..4 : at(s) = {k}
    <3>1. Held(s) \/ s \in objects \/ s \in deleted \/ s \in lost
      BY <1>1, <1>5 DEF StorageInv, SavedIsSomewhere
    <3>2. \A i \in at(s) : i = 1 \/ i = 2 \/ i = 3 \/ i = 4
      BY <1>3
    <3>3. CASE Held(s)
      <4>1. 1 \in at(s) /\ 2 \notin at(s) /\ 3 \notin at(s) /\ 4 \notin at(s)
        BY <1>1, <1>3, <3>3 DEF StorageInv, PlacesApart
      <4>2. QED
        BY <3>2, <4>1
    <3>4. CASE s \in objects
      <4>1. 1 \notin at(s) /\ 2 \in at(s) /\ 3 \notin at(s) /\ 4 \notin at(s)
        BY <1>1, <1>3, <3>4 DEF StorageInv, PlacesApart
      <4>2. QED
        BY <3>2, <4>1
    <3>5. CASE s \in deleted
      <4>1. 1 \notin at(s) /\ 2 \notin at(s) /\ 3 \in at(s) /\ 4 \notin at(s)
        BY <1>1, <1>3, <3>5 DEF StorageInv, PlacesApart
      <4>2. QED
        BY <3>2, <4>1
    <3>6. CASE s \in lost
      <4>1. 1 \notin at(s) /\ 2 \notin at(s) /\ 3 \notin at(s) /\ 4 \in at(s)
        BY <1>1, <1>3, <3>6 DEF StorageInv, PlacesApart
      <4>2. QED
        BY <3>2, <4>1
    <3>7. QED
      BY <3>1, <3>3, <3>4, <3>5, <3>6
  <2>3. PICK k \in 1..4 : at(s) = {k}
    BY <2>2
  <2>4. Cardinality(at(s)) = 1
    BY <2>3, FS_Singleton
  <2>5. Cardinality(takers(s)) = 0
    BY <2>1, FS_EmptySet
  <2>6. QED
    BY <2>4, <2>5
<1>6. QED
  BY <1>4, <1>5

\* The places of the matches of a query are the numbers from 0 up, each taken once.
LEMMA MatchesAreCounted ==
  ASSUME StorageInv
  PROVE  /\ Storage!Matched \subseteq Snapshots
         /\ \A s \in Storage!Matched :
              Storage!Counted(s) \in Nat /\ Storage!Counted(s) < Cardinality(Snapshots)
         /\ \A r, s \in Storage!Matched : Storage!Counted(r) = Storage!Counted(s) => r = s
<1> DEFINE M == Storage!Matched
           before(s) == {m \in M : m < s}
<1>1. M \subseteq Snapshots /\ IsFiniteSet(Snapshots) /\ Snapshots \subseteq Nat
  BY SideAssumption, StorageCounts DEF Storage!VcsAssumption, Storage!Matched, StorageInv, StorageType
<1>2. \A s \in M : Storage!Counted(s) = Cardinality(before(s))
  BY StorageCounts DEF Storage!Counted
<1>3. IsFiniteSet(M) /\ \A s : IsFiniteSet(before(s))
  BY <1>1, FS_Subset
<1>4. ASSUME NEW s \in M
      PROVE  Cardinality(before(s)) \in Nat /\ Cardinality(before(s)) < Cardinality(Snapshots)
  <2>1. before(s) \subseteq Snapshots /\ before(s) # Snapshots
    <3>1. s \in Snapshots /\ ~ (s < s)
      BY <1>1
    <3>2. QED
      BY <1>1, <3>1
  <2>2. QED
    BY <1>1, <1>3, <2>1, FS_Subset, FS_CardinalityType
<1>5. ASSUME NEW r \in M, NEW s \in M, r < s
      PROVE  Cardinality(before(r)) < Cardinality(before(s))
  <2>1. before(r) \subseteq before(s) /\ r \in before(s) /\ r \notin before(r)
    <3>1. \A m \in M : m \in Nat
      BY <1>1
    <3>2. ~ (r < r) /\ \A m \in M : m < r => m < s
      BY <1>5, <3>1
    <3>3. QED
      BY <1>5, <3>2
  <2>2. before(r) # before(s)
    BY <2>1
  <2>3. QED
    BY <1>3, <2>1, <2>2, FS_Subset, FS_CardinalityType
<1>6. \A r, s \in M : r < s \/ s < r \/ r = s
  BY <1>1
<1>7. ASSUME NEW r \in M, NEW s \in M, Cardinality(before(r)) = Cardinality(before(s))
      PROVE  r = s
  <2>1. r < s => Cardinality(before(r)) < Cardinality(before(s))
    BY <1>5
  <2>2. s < r => Cardinality(before(s)) < Cardinality(before(r))
    BY <1>5
  <2>3. ~ (Cardinality(before(r)) < Cardinality(before(s))) /\ ~ (Cardinality(before(s)) < Cardinality(before(r)))
    BY <1>4, <1>7
  <2>4. QED
    BY <1>6, <2>1, <2>2, <2>3
<1>8. QED
  BY <1>1, <1>2, <1>4, <1>7

\* Hence pages are disjoint and cover what matches.
LEMMA PagesApart == StorageInv => Storage!PagesPartition
<1> DEFINE n == Cardinality(Snapshots)
           M == Storage!Matched
           nr == [s \in M |-> Storage!Counted(s)]
           page(k, limit) == Storage!QueryPage(k * limit, limit)
<1> SUFFICES ASSUME StorageInv, NEW limit \in 1..2
             PROVE  /\ UNION {page(k, limit) : k \in 0..n} = objects \intersect Matching
                    /\ \A j, k \in 0..n : j # k => page(j, limit) \intersect page(k, limit) = {}
                    /\ \A k \in 0..n : Cardinality(page(k, limit)) <= limit
  BY StorageCounts DEF Storage!PagesPartition
<1>1. n \in Nat
  BY SideAssumption, StorageCounts, FS_CardinalityType DEF Storage!VcsAssumption
<1>2. nr \in [M -> 0..n - 1] /\ \A r, s \in M : nr[r] = nr[s] => r = s
  BY <1>1, MatchesAreCounted
<1>3. M = objects \intersect Matching
  BY DEF Storage!Matched, Storage!Loads
<1>4. \A k \in 0..n : \A s : s \in page(k, limit) <=> s \in M /\ nr[s] - k * limit \in 0..limit - 1
  BY DEF Storage!QueryPage
<1> HIDE DEF n, nr, M, page
<1>5. ASSUME NEW s \in M
      PROVE  \E k \in 0..n : nr[s] - k * limit \in 0..limit - 1
  <2>1. nr[s] \in 0..n - 1
    BY <1>2
  <2>2. CASE limit = 1
    BY <1>1, <2>1, <2>2
  <2>3. CASE limit = 2
    <3>1. PICK k \in Nat : nr[s] = 2 * k \/ nr[s] = 2 * k + 1
      <4>1. nr[s] = 2 * (nr[s] \div 2) \/ nr[s] = 2 * (nr[s] \div 2) + 1
        BY <1>1, <2>1
      <4>2. nr[s] \div 2 \in Nat
        BY <1>1, <2>1
      <4>3. QED
        BY <4>1, <4>2
    <3>2. k \in 0..n /\ nr[s] - k * 2 \in 0..1
      BY <1>1, <2>1, <3>1
    <3>3. QED
      BY <2>3, <3>2
  <2>4. QED
    BY <2>2, <2>3
<1>6. ASSUME NEW j \in 0..n, NEW k \in 0..n, j # k
      PROVE  page(j, limit) \intersect page(k, limit) = {}
  <2>1. SUFFICES ASSUME NEW s \in M, s \in page(j, limit), s \in page(k, limit)
                 PROVE  FALSE
    BY <1>4
  <2>2. nr[s] \in Int /\ nr[s] - j * limit \in 0..limit - 1 /\ nr[s] - k * limit \in 0..limit - 1
    BY <1>2, <1>4, <2>1
  <2>3. CASE limit = 1
    BY <1>6, <2>2, <2>3
  <2>4. CASE limit = 2
    BY <1>6, <2>2, <2>4
  <2>5. QED
    BY <2>3, <2>4
<1>7. ASSUME NEW k \in 0..n
      PROVE  Cardinality(page(k, limit)) <= limit
  <2> DEFINE P == page(k, limit)
             f == [s \in P |-> nr[s] - k * limit + 1]
  <2>1. IsFiniteSet(1..limit) /\ Cardinality(1..limit) = limit
    BY FS_Interval
  <2>2. PICK c \in Int : c = k * limit
    OBVIOUS
  <2>3. \A s \in P : s \in M /\ nr[s] \in Int /\ nr[s] - c \in 0..limit - 1
    BY <1>2, <1>4, <2>2
  <2>4. f = [s \in P |-> nr[s] - c + 1]
    BY <2>2
  <2> HIDE DEF P, f
  <2>5. f \in [P -> 1..limit]
    BY <2>3, <2>4
  <2>6. \A r, s \in P : f[r] = f[s] => r = s
    BY <1>2, <2>3, <2>4
  <2>7. Cardinality(P) <= limit
    BY <2>1, <2>5, <2>6, FS_Injection DEF Injection, IsInjective
  <2>8. QED
    BY <2>7 DEF P
<1>8. QED
  BY <1>3, <1>4, <1>5, <1>6, <1>7

------------------------------------------------------------------------------
\* ApiClient.

ClientTask == [at : {"idle", "asking", "answered"}, tries : 0..Retries, grants : SUBSET Permissions,
               said : Nat, overtaken : BOOLEAN]

ClientType ==
  /\ granted \subseteq Permissions /\ clock \in 0..MaxTime
  /\ validated \in [made : BOOLEAN, grants : SUBSET Permissions]
  /\ validation \in [full : BOOLEAN, grants : SUBSET Permissions, at : 0..clock, said : 0..clock,
                     overtaken : BOOLEAN]
  /\ asking \in [Tasks -> ClientTask] /\ \A t \in Tasks : asking[t].said <= clock
  /\ forgotten \in 0..clock

\* An answer is no older than a request may last, and an invalidation it did not
\* see overtook it, on its way ...
AnswersAreRecent ==
  \A t \in Tasks : asking[t].at = "answered" =>
    /\ clock - asking[t].said <= Timeout
    /\ asking[t].said >= forgotten \/ asking[t].overtaken

\* ... and when it was cached.
CachedWasRecent ==
  validation.full => /\ validation.at - validation.said <= Timeout
                     /\ validation.said >= forgotten \/ validation.overtaken

ClientInv == ClientType /\ AnswersAreRecent /\ CachedWasRecent

\* The invariant holds when the client is made.
LEMMA ClientStart == Client!Init => ClientInv
<1> SUFFICES ASSUME Client!Init PROVE ClientInv
  OBVIOUS
<1>1. ClientType
  BY SideAssumption DEF Client!ClientAssumption, ClientType, ClientTask, Client!Init, Client!Idle,
     Client!Empty, Client!Unmade
<1>2. AnswersAreRecent /\ CachedWasRecent
  BY DEF AnswersAreRecent, CachedWasRecent, Client!Init, Client!Idle, Client!Empty
<1>3. QED
  BY <1>1, <1>2 DEF ClientInv

\* One task goes on to a state that is as recent as its answer.
LEMMA TaskGoesOn ==
  ASSUME ClientInv, NEW t \in Tasks, NEW new \in ClientTask,
         asking' = [asking EXCEPT ![t] = new], UNCHANGED <<granted, clock, forgotten>>,
         new.said <= clock,
         new.at = "answered" => /\ clock - new.said <= Timeout
                                /\ new.said >= forgotten \/ new.overtaken,
         validated' \in [made : BOOLEAN, grants : SUBSET Permissions],
         \/ UNCHANGED validation
         \/ validation' = Client!Cached(t) /\ asking[t].at = "answered"
  PROVE  ClientInv'
<1> USE DEF ClientInv
<1>1. asking'[t] = new /\ \A u \in Tasks \ {t} : asking'[u] = asking[u]
  BY DEF ClientType
<1>2. asking' \in [Tasks -> ClientTask] /\ \A u \in Tasks : asking'[u].said <= clock
  BY <1>1 DEF ClientType
<1>3. AnswersAreRecent'
  BY <1>1 DEF AnswersAreRecent
<1>4. asking[t] \in ClientTask
  BY DEF ClientType
<1>5. CachedWasRecent' /\ validation' \in [full : BOOLEAN, grants : SUBSET Permissions, at : 0..clock,
                                          said : 0..clock, overtaken : BOOLEAN]
  <2>1. CASE UNCHANGED validation
    BY <2>1 DEF CachedWasRecent, ClientType
  <2>2. CASE validation' = Client!Cached(t) /\ asking[t].at = "answered"
    BY <1>4, <2>2 DEF CachedWasRecent, AnswersAreRecent, ClientType, ClientTask, Client!Cached
  <2>3. QED
    BY <2>1, <2>2
<1>6. ClientType'
  BY <1>2, <1>5 DEF ClientType
<1>7. QED
  BY <1>3, <1>5, <1>6

\* Each of a task's steps of a validation keeps the invariant.
LEMMA ClientTaskActs ==
  ASSUME ClientInv, NEW t \in Tasks,
         \/ Client!WithConfig(t) \/ Client!Revalidate(t) \/ Client!Answered(t)
         \/ Client!ServerGrants(t) \/ Client!ServerRefuses(t) \/ Client!ServerFails(t)
  PROVE  ClientInv'
<1> DEFINE me == asking[t]
           idle == Client!Idle
<1>1. me \in ClientTask /\ me.said <= clock /\ clock \in Nat /\ Retries \in Nat
  BY SideAssumption DEF Client!ClientAssumption, ClientInv, ClientType
<1>2. /\ Client!Idle \in ClientTask /\ Client!Idle.at = "idle" /\ Client!Idle.said = 0
      /\ [Client!Idle EXCEPT !.at = "asking"] \in ClientTask
      /\ [Client!Idle EXCEPT !.at = "asking"].at = "asking"
      /\ [Client!Idle EXCEPT !.at = "asking"].said = 0
  <2>1. Client!Idle \in ClientTask /\ Client!Idle.at = "idle" /\ Client!Idle.said = 0
    BY <1>1 DEF ClientTask, Client!Idle
  <2>2. QED
    BY <2>1 DEF ClientTask
<1>3. validated \in [made : BOOLEAN, grants : SUBSET Permissions]
  BY DEF ClientInv, ClientType
<1>4. CASE Client!WithConfig(t) \/ Client!Revalidate(t)
  <2> DEFINE new == [Client!Idle EXCEPT !.at = "asking"]
  <2>1. /\ asking' = [asking EXCEPT ![t] = new]
        /\ UNCHANGED <<granted, clock, forgotten, validated, validation>>
    BY <1>4 DEF Client!WithConfig, Client!Revalidate, Client!Ask
  <2>2. new \in ClientTask /\ new.at = "asking" /\ new.said <= clock
    BY <1>1, <1>2
  <2> HIDE DEF new
  <2>3. QED
    BY <1>3, <2>1, <2>2, TaskGoesOn
<1>5. CASE Client!Answered(t)
  <2>1. /\ me.at = "answered" /\ validation' = Client!Cached(t)
        /\ asking' = [asking EXCEPT ![t] = idle]
        /\ UNCHANGED <<granted, clock, forgotten>>
        /\ validated' = IF validated.made THEN validated ELSE [made |-> TRUE, grants |-> me.grants]
    BY <1>5 DEF Client!Answered
  <2>2. validated' \in [made : BOOLEAN, grants : SUBSET Permissions]
    BY <1>1, <1>3, <2>1 DEF ClientTask
  <2>3. idle \in ClientTask /\ idle.at = "idle" /\ idle.said <= clock
    BY <1>1, <1>2
  <2> HIDE DEF idle
  <2>4. QED
    BY <2>1, <2>2, <2>3, TaskGoesOn
<1>6. CASE Client!ServerGrants(t)
  <2> DEFINE new == [at |-> "answered", tries |-> me.tries, grants |-> granted, said |-> clock,
                     overtaken |-> me.overtaken]
  <2>1. asking' = [asking EXCEPT ![t] = new] /\ UNCHANGED <<granted, clock, forgotten, validated, validation>>
    BY <1>6 DEF Client!ServerGrants, ClientInv, ClientType
  <2>2. /\ new \in ClientTask /\ new.said <= clock /\ clock - new.said <= Timeout
        /\ new.said >= forgotten
    BY <1>1, SideAssumption DEF Client!ClientAssumption, ClientTask, ClientInv, ClientType
  <2> HIDE DEF new
  <2>3. QED
    BY <1>3, <2>1, <2>2, TaskGoesOn
<1>7. CASE Client!ServerRefuses(t)
  <2>1. /\ asking' = [asking EXCEPT ![t] = idle]
        /\ UNCHANGED <<granted, clock, forgotten, validated, validation>>
    BY <1>7 DEF Client!ServerRefuses
  <2>2. idle \in ClientTask /\ idle.at = "idle" /\ idle.said <= clock
    BY <1>1, <1>2
  <2> HIDE DEF idle
  <2>3. QED
    BY <1>3, <2>1, <2>2, TaskGoesOn
<1>8. CASE Client!ServerFails(t)
  <2> DEFINE new == IF me.tries = Retries THEN Client!Idle ELSE [me EXCEPT !.tries = @ + 1]
  <2>1. me.at = "asking" /\ asking' = [asking EXCEPT ![t] = new]
        /\ UNCHANGED <<granted, clock, forgotten, validated, validation>>
    BY <1>8 DEF Client!ServerFails
  <2>2. new \in ClientTask /\ new.said <= clock /\ new.at # "answered"
    <3>1. CASE me.tries = Retries
      BY <1>1, <1>2, <3>1
    <3>2. CASE me.tries # Retries
      BY <1>1, <2>1, <3>2 DEF ClientTask
    <3>3. QED
      BY <3>1, <3>2
  <2> HIDE DEF new
  <2>3. QED
    BY <1>3, <2>1, <2>2, TaskGoesOn
<1>9. QED
  BY <1>4, <1>5, <1>6, <1>7, <1>8

\* An invalidation empties the cache, and what is asked for stays as recent.
LEMMA ClientInvalidates ==
  ASSUME ClientInv, Client!InvalidateCache
  PROVE  ClientInv'
<1> USE DEF ClientInv
<1> DEFINE after(t) == [asking[t] EXCEPT !.overtaken = asking[t].at # "idle"]
<1>1. /\ validation' = Client!Empty /\ forgotten' = clock
      /\ asking' = [t \in Tasks |-> after(t)]
      /\ UNCHANGED <<granted, clock, validated>>
  BY DEF Client!InvalidateCache
<1>2. ASSUME NEW t \in Tasks
      PROVE  /\ after(t) \in ClientTask /\ after(t).said = asking[t].said /\ after(t).at = asking[t].at
             /\ after(t).at # "idle" => after(t).overtaken
  <2>1. asking[t] \in ClientTask
    BY DEF ClientType
  <2>2. QED
    BY <2>1 DEF ClientTask
<1> HIDE DEF after
<1>3. ClientType'
  BY <1>1, <1>2 DEF ClientType, Client!Empty
<1>4. AnswersAreRecent'
  BY <1>1, <1>2 DEF AnswersAreRecent, ClientType
<1>5. CachedWasRecent'
  BY <1>1 DEF CachedWasRecent, Client!Empty
<1>6. QED
  BY <1>3, <1>4, <1>5

\* Every step of the client, the platform and the clock keeps the invariant.
LEMMA ClientStep ==
  ASSUME ClientInv, [Client!Next]_(Client!vars)
  PROVE  ClientInv'
<1> USE DEF ClientInv
<1>1. ASSUME NEW grants \in SUBSET Permissions, Client!ServerChanges(grants)
      PROVE  ClientInv'
  BY <1>1 DEF Client!ServerChanges, ClientType, AnswersAreRecent, CachedWasRecent
<1>2. CASE Client!Tick
  <2>1. /\ clock < MaxTime /\ clock' = clock + 1
        /\ \A t \in Tasks : asking[t].at = "answered" => clock - asking[t].said < Timeout
        /\ UNCHANGED <<granted, validated, validation, asking, forgotten>>
    BY <1>2 DEF Client!Tick
  <2>2. clock' \in 0..MaxTime
    BY <2>1, SideAssumption DEF ClientType, Client!ClientAssumption
  <2>3. ClientType'
    BY <2>1, <2>2, SideAssumption DEF ClientType, ClientTask, Client!ClientAssumption
  <2>4. AnswersAreRecent'
    BY <2>1, SideAssumption DEF ClientType, ClientTask, AnswersAreRecent, Client!ClientAssumption
  <2>5. CachedWasRecent'
    BY <2>1 DEF CachedWasRecent
  <2>6. QED
    BY <2>3, <2>4, <2>5
<1>3. CASE UNCHANGED Client!vars
  BY <1>3 DEF Client!vars, ClientType, AnswersAreRecent, CachedWasRecent
<1>4. QED
  BY <1>1, <1>2, <1>3, ClientTaskActs, ClientInvalidates DEF Client!Next

\* A cached answer was asked for, so it was the server's within the time to live.
LEMMA CachedIsRecent == ClientInv => Client!CachedAnswersAreRecent
BY SideAssumption DEF ClientInv, ClientType, CachedWasRecent, Client!CachedAnswersAreRecent,
   Client!Fresh, Client!ClientAssumption

------------------------------------------------------------------------------
\* RunRegistry.

\* What a registry of each kind may hold, read from a file or about to be saved:
\* datasets with pairs that were registered, and runs that were taken if they say so.
DatasetsHold(copy, pairs) == DOMAIN copy \subseteq Names /\ \A n \in DOMAIN copy : <<n, copy[n]>> \in pairs

RunsHold(copy, pairs, taken) ==
  DOMAIN copy \subseteq Names /\ \A r \in DOMAIN copy :
    /\ copy[r] = [dataset |-> copy[r].dataset, uri |-> copy[r].uri, status |-> copy[r].status]
    /\ <<copy[r].dataset, copy[r].uri>> \in pairs
    /\ copy[r].status = "submitted" => <<r, copy[r].uri>> \in taken

RegistryHolds(file, copy, pairs, taken) ==
  /\ file \in {"datasets", "runs", "secrets"} /\ DOMAIN copy \subseteq Names
  /\ file = "datasets" => DatasetsHold(copy, pairs)
  /\ file = "runs" => RunsHold(copy, pairs, taken)

\* A process at each of its steps.
Saving(proc, pairs, taken) ==
  /\ proc.pc \in {"write", "replace"}
  /\ proc = [pc |-> proc.pc, file |-> proc.file, new |-> proc.new, adds |-> proc.adds]
  /\ RegistryHolds(proc.file, proc.new, pairs \union proc.adds, taken)
  /\ proc.file = "runs" => proc.adds = {}

Submitting(proc, pairs, taken) ==
  /\ proc.pc \in {"exec", "record"}
  /\ proc = [pc |-> proc.pc, run |-> proc.run, dataset |-> proc.dataset, rec |-> proc.rec]
  /\ proc.rec = [dataset |-> proc.rec.dataset, uri |-> proc.rec.uri, status |-> proc.rec.status]
  /\ proc.run \in Names
  /\ <<proc.rec.dataset, proc.rec.uri>> \in pairs
  /\ proc.rec.status = "submitted" => <<proc.run, proc.rec.uri>> \in taken

ProcessHolds(proc, pairs, taken) ==
  \/ proc = Cli!Idle
  \/ Saving(proc, pairs, taken)
  \/ Submitting(proc, pairs, taken)
  \/ proc = [pc |-> "update", run |-> proc.run]

\* Where a process is says what it carries.
LEMMA StepsAreKnown ==
  ASSUME NEW proc, NEW pairs, NEW taken, ProcessHolds(proc, pairs, taken)
  PROVE  /\ proc.pc \in {"write", "replace"} => Saving(proc, pairs, taken)
         /\ proc.pc \in {"exec", "record"} => Submitting(proc, pairs, taken)
<1>1. proc = Cli!Idle => proc.pc = "idle"
  BY DEF Cli!Idle
<1>2. proc = [pc |-> "update", run |-> proc.run] => proc.pc = "update"
  OBVIOUS
<1>3. /\ Saving(proc, pairs, taken) => proc.pc \in {"write", "replace"}
      /\ Submitting(proc, pairs, taken) => proc.pc \in {"exec", "record"}
  BY DEF Saving, Submitting
<1>4. QED
  BY <1>1, <1>2, <1>3 DEF ProcessHolds

FilesHold(fs, pairs, taken) ==
  /\ fs = [datasets |-> fs.datasets, runs |-> fs.runs, secrets |-> fs.secrets]
  /\ \A f \in {"datasets", "runs", "secrets"} : RegistryHolds(f, fs[f], pairs, taken)

CliInv ==
  /\ FilesHold(files, registered, accepted)
  /\ DOMAIN procs = Procs
  /\ \A p \in Procs : ProcessHolds(procs[p], registered, accepted)

\* The invariant holds before any command has run.
LEMMA CliStart == Cli!Init => CliInv
BY DEF Cli!Init, Cli!NoFile, CliInv, RegistryHolds, DatasetsHold, RunsHold, ProcessHolds, FilesHold

\* A registry of names is no torn file.
LEMMA NotTorn == CliInv => \A f \in {"datasets", "runs", "secrets"} : files[f] # Cli!Torn
<1> SUFFICES ASSUME CliInv, NEW f \in {"datasets", "runs", "secrets"}, files[f] = Cli!Torn PROVE FALSE
  OBVIOUS
<1>1. "torn" \in DOMAIN files[f]
  BY DEF Cli!Torn
<1>2. QED
  BY <1>1, SideAssumption DEF CliInv, FilesHold, RegistryHolds, Cli!RegistryAssumption

\* What was registered or taken stays so for every process and registry.
LEMMA MoreIsFine ==
  ASSUME NEW pairs, NEW more, pairs \subseteq more, NEW taken, NEW also, taken \subseteq also
  PROVE  /\ \A file, copy : RegistryHolds(file, copy, pairs, taken) => RegistryHolds(file, copy, more, also)
         /\ \A proc : ProcessHolds(proc, pairs, taken) => ProcessHolds(proc, more, also)
<1>1. ASSUME NEW file, NEW copy, NEW p1, NEW p2, p1 \subseteq p2, RegistryHolds(file, copy, p1, taken)
      PROVE  RegistryHolds(file, copy, p2, also)
  BY <1>1 DEF RegistryHolds, DatasetsHold, RunsHold
<1>2. ASSUME NEW proc, Saving(proc, pairs, taken)
      PROVE  Saving(proc, more, also)
  <2>1. pairs \union proc.adds \subseteq more \union proc.adds
    OBVIOUS
  <2>2. QED
    BY <1>1, <1>2, <2>1 DEF Saving
<1>3. ASSUME NEW proc, Submitting(proc, pairs, taken)
      PROVE  Submitting(proc, more, also)
  BY <1>3 DEF Submitting
<1>4. QED
  BY <1>1, <1>2, <1>3 DEF ProcessHolds

\* One process goes on, and what was registered or taken stays so.
LEMMA ProcessGoesOn ==
  ASSUME CliInv, NEW p \in Procs, NEW new, procs' = [procs EXCEPT ![p] = new],
         registered \subseteq registered', accepted \subseteq accepted',
         FilesHold(files', registered', accepted'),
         ProcessHolds(new, registered', accepted')
  PROVE  CliInv'
<1>1. DOMAIN procs' = Procs /\ procs'[p] = new /\ \A q \in Procs \ {p} : procs'[q] = procs[q]
  BY DEF CliInv
<1>2. \A proc : ProcessHolds(proc, registered, accepted) => ProcessHolds(proc, registered', accepted')
  BY MoreIsFine
<1>3. QED
  BY <1>1, <1>2 DEF CliInv

\* ... and when the files stay as they are.
LEMMA OnlyTheProcess ==
  ASSUME CliInv, NEW p \in Procs, NEW new, procs' = [procs EXCEPT ![p] = new],
         UNCHANGED <<files, registered>>, accepted \subseteq accepted',
         ProcessHolds(new, registered, accepted')
  PROVE  CliInv'
<1>1. FilesHold(files', registered', accepted')
  BY MoreIsFine DEF CliInv, FilesHold
<1>2. QED
  BY <1>1, ProcessGoesOn

\* A save goes on to the temporary file, with a registry read or changed in memory.
LEMMA Saves ==
  ASSUME CliInv, NEW p \in Procs, NEW file, NEW copy, NEW adds, Cli!Save(p, file, copy, adds),
         RegistryHolds(file, copy, registered \union adds, accepted), file = "runs" => adds = {},
         UNCHANGED <<files, registered, accepted>>
  PROVE  CliInv'
<1> DEFINE proc == [pc |-> "write", file |-> file, new |-> copy, adds |-> adds]
<1>1. procs' = [procs EXCEPT ![p] = proc]
  BY DEF Cli!Save, Cli!Goto
<1>2. ProcessHolds(proc, registered, accepted)
  BY DEF ProcessHolds, Saving
<1> HIDE DEF proc
<1>3. QED
  BY <1>1, <1>2, OnlyTheProcess

\* The commands that change datasets or delete a run keep the invariant.
LEMMA RegistryCommands ==
  ASSUME CliInv, NEW p \in Procs,
         \/ \E n \in Names, u \in Uris : Cli!DatasetRegister(p, n, u) \/ Cli!SecretSet(p, n, u)
         \/ \E r \in Names : Cli!RunDelete(p, r)
         \/ Cli!RecordRun(p) \/ Cli!UpdateRun(p)
  PROVE  CliInv'
<1> USE DEF CliInv, FilesHold
<1>1. ASSUME NEW n \in Names, NEW u \in Uris, Cli!DatasetRegister(p, n, u)
      PROVE  CliInv'
  <2> DEFINE copy == Cli!Put(files.datasets, n, u)
  <2>1. Cli!Save(p, "datasets", copy, {<<n, u>>}) /\ UNCHANGED <<files, registered, accepted>>
    BY <1>1 DEF Cli!DatasetRegister
  <2>2. RegistryHolds("datasets", copy, registered \union {<<n, u>>}, accepted)
    BY DEF Cli!Put, RegistryHolds, DatasetsHold
  <2> HIDE DEF copy
  <2>3. QED
    BY <2>1, <2>2, Saves
<1>2. ASSUME NEW n \in Names, NEW u \in Uris, Cli!SecretSet(p, n, u)
      PROVE  CliInv'
  <2> DEFINE copy == Cli!Put(files.secrets, n, u)
  <2>1. Cli!Save(p, "secrets", copy, {}) /\ UNCHANGED <<files, registered, accepted>>
    BY <1>2 DEF Cli!SecretSet
  <2>2. RegistryHolds("secrets", copy, registered \union {}, accepted)
    BY DEF Cli!Put, RegistryHolds
  <2> HIDE DEF copy
  <2>3. QED
    BY <2>1, <2>2, Saves
<1>3. ASSUME NEW r \in Names, Cli!RunDelete(p, r)
      PROVE  CliInv'
  <2> DEFINE copy == Cli!Remove(files.runs, r)
  <2>1. Cli!Save(p, "runs", copy, {}) /\ UNCHANGED <<files, registered, accepted>>
    BY <1>3 DEF Cli!RunDelete
  <2>2. RegistryHolds("runs", copy, registered \union {}, accepted)
    BY DEF Cli!Remove, RegistryHolds, RunsHold
  <2> HIDE DEF copy
  <2>3. QED
    BY <2>1, <2>2, Saves
<1>4. CASE Cli!RecordRun(p)
  <2> DEFINE copy == Cli!Put(files.runs, procs[p].run, procs[p].rec)
  <2>1. Cli!Save(p, "runs", copy, {}) /\ UNCHANGED <<files, registered, accepted>> /\ procs[p].pc = "record"
    BY <1>4 DEF Cli!RecordRun, Cli!Recorded, Cli!At
  <2>2. Submitting(procs[p], registered, accepted)
    BY <2>1, StepsAreKnown
  <2>3. RegistryHolds("runs", copy, registered \union {}, accepted)
    <3>1. RunsHold(files.runs, registered, accepted)
      BY DEF RegistryHolds
    <3>2. QED
      BY <2>2, <3>1 DEF Cli!Put, RegistryHolds, RunsHold, Submitting
  <2> HIDE DEF copy
  <2>4. QED
    BY <2>1, <2>3, Saves
<1>5. CASE Cli!UpdateRun(p)
  <2> DEFINE r == procs[p].run
             copy == [files.runs EXCEPT ![r].status = "stopped"]
  <2>1. /\ Cli!Save(p, "runs", copy, {}) /\ UNCHANGED <<files, registered, accepted>>
        /\ r \in DOMAIN files.runs
    BY <1>5 DEF Cli!UpdateRun
  <2>2. RunsHold(files.runs, registered, accepted)
    BY DEF RegistryHolds
  <2>3. /\ DOMAIN copy = DOMAIN files.runs
        /\ \A m \in DOMAIN files.runs : m # r => copy[m] = files.runs[m]
        /\ copy[r] = [files.runs[r] EXCEPT !.status = "stopped"]
    BY <2>1
  <2> HIDE DEF copy
  <2>4. copy[r] = [dataset |-> files.runs[r].dataset, uri |-> files.runs[r].uri, status |-> "stopped"]
    BY <2>1, <2>2, <2>3 DEF RunsHold
  <2> HIDE DEF r
  <2>5. RunsHold(copy, registered, accepted)
    BY <2>1, <2>2, <2>3, <2>4 DEF RunsHold
  <2>6. RegistryHolds("runs", copy, registered \union {}, accepted)
    BY <2>5 DEF RegistryHolds, RunsHold
  <2>7. QED
    BY <2>1, <2>6, Saves
<1>6. QED
  BY <1>1, <1>2, <1>3, <1>4, <1>5

\* The commands that submit and stop a run keep the invariant.
LEMMA RunCommands ==
  ASSUME CliInv, NEW p \in Procs,
         \/ \E r, n \in Names, dry \in BOOLEAN : Cli!RunSubmit(p, r, n, dry)
         \/ \E takes, answers \in BOOLEAN : Cli!Exec(p, takes, answers)
         \/ \E r \in Names : Cli!RunStop(p, r)
         \/ Cli!Write(p) \/ Cli!Kill(p)
  PROVE  CliInv'
<1> USE DEF CliInv, FilesHold
<1>1. ASSUME NEW r \in Names, NEW n \in Names, NEW dry \in BOOLEAN, Cli!RunSubmit(p, r, n, dry)
      PROVE  CliInv'
  <2> DEFINE rec == [dataset |-> n, uri |-> files.datasets[n], status |-> "dry-run"]
             proc == [pc |-> IF dry THEN "record" ELSE "exec", run |-> r, dataset |-> n, rec |-> rec]
  <2>1. /\ n \in DOMAIN files.datasets /\ procs' = [procs EXCEPT ![p] = proc]
        /\ UNCHANGED <<files, registered, accepted>>
    BY <1>1 DEF Cli!RunSubmit, Cli!Goto
  <2>2. <<n, files.datasets[n]>> \in registered
    BY <2>1 DEF RegistryHolds, DatasetsHold
  <2>3. rec = [dataset |-> rec.dataset, uri |-> rec.uri, status |-> rec.status]
        /\ <<rec.dataset, rec.uri>> \in registered /\ rec.status = "dry-run"
    BY <2>2
  <2> HIDE DEF rec
  <2>4. ProcessHolds(proc, registered, accepted)
    BY <2>3 DEF ProcessHolds, Submitting
  <2> HIDE DEF proc
  <2>5. QED
    BY <2>1, <2>4, OnlyTheProcess
<1>2. ASSUME NEW takes \in BOOLEAN, NEW answers \in BOOLEAN, Cli!Exec(p, takes, answers)
      PROVE  CliInv'
  <2> DEFINE me == procs[p]
             rec == [me.rec EXCEPT !.status = IF takes /\ answers THEN "submitted" ELSE "error"]
             proc == [pc |-> "record", run |-> me.run, dataset |-> me.dataset, rec |-> rec]
  <2>1. /\ me.pc = "exec" /\ procs' = [procs EXCEPT ![p] = proc]
        /\ accepted' = IF takes THEN accepted \union {<<me.run, me.rec.uri>>} ELSE accepted
        /\ UNCHANGED <<files, registered>>
    BY <1>2 DEF Cli!Exec, Cli!Goto, Cli!At
  <2>2. Submitting(me, registered, accepted)
    BY <2>1, StepsAreKnown
  <2>3. /\ rec = [dataset |-> rec.dataset, uri |-> rec.uri, status |-> rec.status]
        /\ rec.dataset = me.rec.dataset /\ rec.uri = me.rec.uri
        /\ rec.status = "submitted" => takes
    BY <2>2 DEF Submitting
  <2>4. me.run \in Names /\ <<me.rec.dataset, me.rec.uri>> \in registered
    BY <2>2 DEF Submitting
  <2> HIDE DEF rec, me
  <2>5. accepted \subseteq accepted' /\ (rec.status = "submitted" => <<me.run, rec.uri>> \in accepted')
    BY <2>1, <2>3
  <2>6. ProcessHolds(proc, registered, accepted')
    BY <2>3, <2>4, <2>5 DEF ProcessHolds, Submitting
  <2> HIDE DEF proc
  <2>7. QED
    BY <2>1, <2>5, <2>6, OnlyTheProcess
<1>3. ASSUME NEW r \in Names, Cli!RunStop(p, r)
      PROVE  CliInv'
  <2> DEFINE proc == [pc |-> "update", run |-> r]
  <2>1. procs' = [procs EXCEPT ![p] = proc] /\ UNCHANGED <<files, registered, accepted>>
    BY <1>3 DEF Cli!RunStop, Cli!Goto
  <2>2. ProcessHolds(proc, registered, accepted)
    BY DEF ProcessHolds
  <2> HIDE DEF proc
  <2>3. QED
    BY <2>1, <2>2, OnlyTheProcess
<1>4. CASE Cli!Write(p)
  <2> DEFINE me == procs[p]
             proc == [me EXCEPT !.pc = "replace"]
  <2>1. /\ me.pc = "write" /\ procs' = [procs EXCEPT ![p] = proc]
        /\ UNCHANGED <<files, registered, accepted>>
    BY <1>4 DEF Cli!Write, Cli!WriteTemp, Cli!Goto, Cli!At
  <2>2. Saving(me, registered, accepted)
    BY <2>1, StepsAreKnown
  <2>3. /\ proc = [pc |-> proc.pc, file |-> proc.file, new |-> proc.new, adds |-> proc.adds]
        /\ proc.pc = "replace" /\ proc.file = me.file /\ proc.new = me.new /\ proc.adds = me.adds
    BY <2>2 DEF Saving
  <2> HIDE DEF proc, me
  <2>4. ProcessHolds(proc, registered, accepted)
    BY <2>2, <2>3 DEF ProcessHolds, Saving
  <2>5. QED
    BY <2>1, <2>4, OnlyTheProcess
<1>5. CASE Cli!Kill(p)
  <2> DEFINE proc == Cli!Idle
  <2>1. procs' = [procs EXCEPT ![p] = proc] /\ UNCHANGED <<files, registered, accepted>>
    BY <1>5 DEF Cli!Kill, Cli!Goto
  <2>2. ProcessHolds(proc, registered, accepted)
    BY DEF ProcessHolds
  <2> HIDE DEF proc
  <2>3. QED
    BY <2>1, <2>2, OnlyTheProcess
<1>6. QED
  BY <1>1, <1>2, <1>3, <1>4, <1>5

\* Replacing a file by the temporary one leaves a whole registry.
LEMMA Replaces ==
  ASSUME CliInv, NEW p \in Procs, Cli!Replace(p)
  PROVE  CliInv'
<1> DEFINE me == procs[p]
           proc == Cli!Idle
<1>1. /\ me.pc = "replace" /\ files' = [files EXCEPT ![me.file] = me.new]
      /\ registered' = registered \union me.adds /\ procs' = [procs EXCEPT ![p] = proc]
      /\ UNCHANGED accepted
  BY DEF Cli!Replace, Cli!Goto, Cli!At
<1>2. Saving(me, registered, accepted)
  BY <1>1, StepsAreKnown DEF CliInv
<1>3. ProcessHolds(proc, registered', accepted')
  BY DEF ProcessHolds
<1>4. RegistryHolds(me.file, me.new, registered', accepted') /\ me.file \in {"datasets", "runs", "secrets"}
  BY <1>1, <1>2 DEF Saving, RegistryHolds
<1>5. FilesHold(files', registered', accepted')
  <2>1. files = [datasets |-> files.datasets, runs |-> files.runs, secrets |-> files.secrets]
    BY DEF CliInv, FilesHold
  <2>2. /\ files' = [datasets |-> files'.datasets, runs |-> files'.runs, secrets |-> files'.secrets]
        /\ files'[me.file] = me.new
        /\ \A f \in {"datasets", "runs", "secrets"} : f # me.file => files'[f] = files[f]
    BY <1>1, <1>4, <2>1
  <2>3. \A f \in {"datasets", "runs", "secrets"} : RegistryHolds(f, files[f], registered', accepted')
    BY <1>1, MoreIsFine DEF CliInv, FilesHold
  <2>4. QED
    BY <1>4, <2>2, <2>3 DEF FilesHold
<1> HIDE DEF proc
<1>6. QED
  BY <1>1, <1>3, <1>5, ProcessGoesOn

\* Every step of a command, an engine or a kill keeps the invariant.
LEMMA CliStep ==
  ASSUME CliInv, [Cli!Next]_(Cli!vars)
  PROVE  CliInv'
<1>1. CASE UNCHANGED Cli!vars
  BY <1>1 DEF Cli!vars, CliInv
<1>2. QED
  BY <1>1, RegistryCommands, RunCommands, Replaces DEF Cli!Next

\* The properties of the command line are parts of its invariant.
LEMMA RegistriesHold == CliInv => Cli!RegistriesAreWhole /\ Cli!SubmittedWasAccepted
<1> SUFFICES ASSUME CliInv PROVE Cli!RegistriesAreWhole /\ Cli!SubmittedWasAccepted
  OBVIOUS
<1>1. DOMAIN files = {"datasets", "runs", "secrets"}
  BY DEF CliInv, FilesHold
<1>2. RunsHold(files.runs, registered, accepted)
  BY DEF CliInv, FilesHold, RegistryHolds
<1>3. QED
  BY <1>1, <1>2, NotTorn DEF Cli!RegistriesAreWhole, Cli!SubmittedWasAccepted, RunsHold

------------------------------------------------------------------------------
\* ProviderCalls.

Running(call) ==
  /\ DOMAIN call = {"pc", "preferred", "ladder", "last", "attempt", "start", "wake"}
  /\ call.pc \in {"ladder", "asking", "sleeping"}
  /\ call.start \in Int
  /\ call.pc = "sleeping" => call.wake <= call.start + Deadline

ProvidersInv ==
  /\ elapsed \in Int
  /\ DOMAIN completions = Contexts
  /\ \A c \in Contexts : completions[c] = Providers!Idle \/ Running(completions[c])
  /\ Providers!TenantsStayOnTheirKeys

\* The invariant holds before any call.
LEMMA ProvidersStart == Providers!Init => ProvidersInv
BY DEF Providers!Init, ProvidersInv, Providers!TenantsStayOnTheirKeys

\* A call that is somewhere is a running one.
LEMMA CallsRun ==
  ASSUME ProvidersInv, NEW c \in Contexts, completions[c].pc \in {"ladder", "asking", "sleeping"}
  PROVE  Running(completions[c])
<1>1. Providers!Idle.pc = "idle"
  BY DEF Providers!Idle
<1>2. QED
  BY <1>1 DEF ProvidersInv

\* One context's call goes on, and nothing is sent.
LEMMA CallGoesOn ==
  ASSUME ProvidersInv, NEW c \in Contexts, NEW call, completions' = [completions EXCEPT ![c] = call],
         call = Providers!Idle \/ Running(call), UNCHANGED <<elapsed, sent>>
  PROVE  ProvidersInv'
BY DEF ProvidersInv, Providers!TenantsStayOnTheirKeys

\* A call begins at the top of its ladder, and has sent nothing.
LEMMA CompletionStarts ==
  ASSUME ProvidersInv, NEW c \in Contexts, NEW preferred, Providers!CompleteText(c, preferred)
  PROVE  ProvidersInv'
<1> DEFINE call == [pc |-> "ladder", preferred |-> preferred, ladder |-> Providers!SelectProviders(preferred),
                    last |-> Providers!None, attempt |-> 0, start |-> elapsed, wake |-> elapsed]
<1>1. completions' = [completions EXCEPT ![c] = call] /\ UNCHANGED <<elapsed, sent>>
  BY DEF Providers!CompleteText, Providers!Goto
<1>2. Running(call)
  BY DEF Running, ProvidersInv
<1> HIDE DEF call
<1>3. QED
  BY <1>1, <1>2, CallGoesOn

\* Looking for a usable rung of the ladder sends nothing.
LEMMA SelectStep ==
  ASSUME ProvidersInv, NEW c \in Contexts, Providers!Select(c)
  PROVE  ProvidersInv'
<1> DEFINE me == completions[c]
<1>1. PICK i \in DOMAIN me.ladder : 
        me.pc = "ladder" /\ completions' = [completions EXCEPT ![c] = 
            [me EXCEPT !.pc = "asking", !.ladder = SubSeq(@, i, Len(@))]] /\ UNCHANGED <<elapsed, sent>>
  BY DEF Providers!Select, Providers!Goto
<1> DEFINE call == [me EXCEPT !.pc = "asking", !.ladder = SubSeq(@, i, Len(@))]
<1>2. Running(me)
  BY <1>1, CallsRun
<1>3. Running(call)
  BY <1>2 DEF Running
<1>4. completions' = [completions EXCEPT ![c] = call] /\ UNCHANGED <<elapsed, sent>>
  BY <1>1
<1> HIDE DEF call
<1>5. QED
  BY <1>3, <1>4, CallGoesOn

\* What a call sends, it sends on the credential it resolved.
LEMMA CompleteStep ==
  ASSUME ProvidersInv, NEW c \in Contexts, NEW result, Providers!Complete(c, result)
  PROVE  ProvidersInv'
<1> DEFINE me == completions[c]
           p == Head(me.ladder)
           credential == Providers!ResolveCredential(c, p)
           back == [me EXCEPT !.pc = "ladder", !.ladder = Tail(@),
                              !.last = IF credential = Providers!None THEN "permanent" ELSE result]
           call == IF result = "ok" /\ credential # Providers!None THEN Providers!Idle ELSE back
<1>1. /\ me.pc = "asking" /\ completions' = [completions EXCEPT ![c] = call] /\ UNCHANGED elapsed
      /\ sent' = IF credential = Providers!None THEN sent
                 ELSE <<[scope |-> scopes[c], provider |-> p, credential |-> credential]>>
  BY DEF Providers!Complete, Providers!Goto
<1>2. Running(me)
  BY <1>1, CallsRun
<1>3. Running(back)
  BY <1>2 DEF Running
<1>4. call = Providers!Idle \/ Running(call)
  BY <1>3
<1>5. Providers!TenantsStayOnTheirKeys'
  <2>1. CASE credential = Providers!None
    BY <1>1, <2>1 DEF ProvidersInv, Providers!TenantsStayOnTheirKeys
  <2>2. CASE credential # Providers!None
    <3>1. IF scopes[c] = << >> THEN credential = Providers!Platform
          ELSE p = Head(scopes[c]) /\ credential = p
      BY <2>2 DEF Providers!ResolveCredential
    <3> HIDE DEF credential, p
    <3>2. QED
      BY <1>1, <2>2, <3>1 DEF Providers!TenantsStayOnTheirKeys
  <2>3. QED
    BY <2>1, <2>2
<1> HIDE DEF call
<1>6. QED
  BY <1>1, <1>4, <1>5 DEF ProvidersInv

\* A call that sleeps wakes before its deadline.
LEMMA RetryStep ==
  ASSUME ProvidersInv, NEW c \in Contexts, Providers!RetryCall(c)
  PROVE  ProvidersInv'
<1> DEFINE me == completions[c]
           asleep(delay) == [me EXCEPT !.pc = "sleeping", !.wake = elapsed + delay]
<1>1. PICK delay \in Providers!ComputeBackoff(me.attempt) :
        IF Providers!ShouldRetry(me.last) /\ me.attempt + 1 < MaxAttempts /\ Providers!MayWait(me, delay)
        THEN completions' = [completions EXCEPT ![c] = asleep(delay)]
        ELSE completions' = [completions EXCEPT ![c] = Providers!Idle]
  BY DEF Providers!RetryCall, Providers!Goto
<1>2. me.pc = "ladder" /\ UNCHANGED <<elapsed, sent>>
  BY DEF Providers!RetryCall, Providers!Exhausted
<1>3. Running(me) /\ delay \in Int
  BY <1>2, CallsRun DEF Providers!ComputeBackoff
<1>4. PICK call : completions' = [completions EXCEPT ![c] = call] /\ (call = Providers!Idle \/ Running(call))
  <2>1. Providers!MayWait(me, delay) => Running(asleep(delay))
    <3>1. SUFFICES ASSUME Providers!MayWait(me, delay) PROVE Running(asleep(delay))
      OBVIOUS
    <3>2. elapsed + delay <= me.start + Deadline
      BY <1>3, <3>1, SideAssumption DEF Providers!MayWait, Running, ProvidersInv, Providers!CallAssumption
    <3>3. QED
      BY <1>3, <3>2 DEF Running
  <2> HIDE DEF asleep
  <2>2. QED
    BY <1>1, <2>1
<1>5. QED
  BY <1>2, <1>4, CallGoesOn

\* The next attempt starts anew, within the same deadline.
LEMMA NextAttemptStep ==
  ASSUME ProvidersInv, NEW c \in Contexts, Providers!NextAttempt(c)
  PROVE  ProvidersInv'
<1> DEFINE me == completions[c]
           call == [me EXCEPT !.pc = "ladder", !.attempt = @ + 1, !.last = Providers!None,
                              !.ladder = Providers!SelectProviders(me.preferred)]
<1>1. me.pc = "sleeping" /\ completions' = [completions EXCEPT ![c] = call] /\ UNCHANGED <<elapsed, sent>>
  BY DEF Providers!NextAttempt, Providers!Goto
<1>2. Running(me)
  BY <1>1, CallsRun
<1>3. Running(call)
  BY <1>2 DEF Running
<1> HIDE DEF call
<1>4. QED
  BY <1>1, <1>3, CallGoesOn

\* Every step of a context, the process and the clock keeps the invariant.
LEMMA ProvidersStep ==
  ASSUME ProvidersInv, [Providers!Next]_(Providers!vars)
  PROVE  ProvidersInv'
<1>1. ASSUME UNCHANGED <<completions, sent>>, elapsed' \in Int
      PROVE  ProvidersInv'
  BY <1>1 DEF ProvidersInv, Providers!TenantsStayOnTheirKeys
<1>2. elapsed \in Int /\ elapsed + 1 \in Int
  BY DEF ProvidersInv
<1>3. ASSUME \/ \E c, d \in Contexts : Providers!LeaveScope(c) \/ Providers!Start(c, d) \/ Providers!StartThread(c)
             \/ \E c \in Contexts : \E p : Providers!EnterScope(c, p)
             \/ \E p : Providers!ChangeEnv(p) \/ Providers!Register(p)
             \/ Providers!Tick \/ UNCHANGED Providers!vars
      PROVE  ProvidersInv'
  BY <1>1, <1>2, <1>3 DEF Providers!EnterScope, Providers!LeaveScope, Providers!Start, Providers!StartThread,
     Providers!ChangeEnv, Providers!Register, Providers!Tick, Providers!vars
<1>4. QED
  BY <1>1, <1>2, <1>3, CompletionStarts, SelectStep, CompleteStep, RetryStep, NextAttemptStep DEF Providers!Next

\* The properties of provider calls are parts of its invariant.
LEMMA CallsStayInBounds == ProvidersInv => Providers!TenantsStayOnTheirKeys /\ Providers!SleepsEndInTime
<1>1. Providers!Idle.pc = "idle"
  BY DEF Providers!Idle
<1>2. QED
  BY <1>1 DEF ProvidersInv, Running, Providers!SleepsEndInTime

------------------------------------------------------------------------------
\* PolicyRouters.

Statuses == {"ok", "4xx", "5xx", "error"}

Asking(route) ==
  /\ route.pc = "asking" /\ DOMAIN route = {"pc", "doc", "began"}
  /\ route.began \in Int /\ route.began <= today /\ today <= route.began + Timeout

Replied(route) ==
  /\ route.pc = "replied" /\ DOMAIN route = {"pc", "doc", "began", "action", "at"}
  /\ route.began \in Int /\ route.at \in Int
  /\ route.began <= route.at /\ route.at <= today /\ today <= route.began + Timeout

Emitting(route) ==
  /\ route.pc = "emitting" /\ DOMAIN route = {"pc", "source", "posts"} /\ bus # Routers!None
  /\ route.posts \in Seq(Statuses) /\ Len(route.posts) < Routers!MaxPosts
  /\ \A i \in 1..Len(route.posts) : route.posts[i] = "5xx"

RouteOK(route) == route = Routers!Idle \/ Asking(route) \/ Replied(route) \/ Emitting(route)

OpinionOK(entry) ==
  /\ entry.source = "opa" /\ entry.set \in Int /\ entry.at \in Int
  /\ entry.set - entry.at <= Timeout

RoutersInv ==
  /\ today \in Int
  /\ DOMAIN routes = Routes /\ \A r \in Routes : RouteOK(routes[r])
  /\ \A d \in DOMAIN opinions : OpinionOK(opinions[d])
  /\ Routers!RoutesAreCurrent /\ Routers!ReviewsAreAnnounced

\* The invariant holds before any route.
LEMMA RoutersStart == Routers!Init => RoutersInv
BY DEF Routers!Init, RoutersInv, RouteOK, Routers!RoutesAreCurrent, Routers!ReviewsAreAnnounced

\* Where a route is says what it carries.
LEMMA RoutesAreKnown ==
  ASSUME RoutersInv, NEW r \in Routes
  PROVE  /\ routes[r].pc = "asking" => Asking(routes[r])
         /\ routes[r].pc = "replied" => Replied(routes[r])
         /\ routes[r].pc = "emitting" => Emitting(routes[r])
<1>1. Routers!Idle.pc = "idle"
  BY DEF Routers!Idle
<1>2. QED
  BY <1>1 DEF RoutersInv, RouteOK, Asking, Replied, Emitting

\* One route goes on, at the same time and with nothing answered.
LEMMA RouteGoesOn ==
  ASSUME RoutersInv, NEW r \in Routes, NEW route, routes' = [routes EXCEPT ![r] = route], RouteOK(route),
         \A d \in DOMAIN opinions' : OpinionOK(opinions'[d]), UNCHANGED <<bus, today, answer>>
  PROVE  RoutersInv'
<1>2. DOMAIN routes' = Routes /\ \A q \in Routes : RouteOK(routes'[q])
  BY DEF RoutersInv
<1>3. \A q \in Routes : RouteOK(routes[q])'
  BY <1>2 DEF RouteOK, Asking, Replied, Emitting
<1>4. Routers!RoutesAreCurrent' /\ Routers!ReviewsAreAnnounced'
  BY DEF RoutersInv, Routers!RoutesAreCurrent, Routers!ReviewsAreAnnounced
<1>5. \A d \in DOMAIN opinions' : OpinionOK(opinions[d])'
  BY DEF OpinionOK
<1>6. QED
  BY <1>2, <1>3, <1>4, <1>5 DEF RoutersInv

\* One route answers.
LEMMA RouteAnswers ==
  ASSUME RoutersInv, NEW r \in Routes, NEW a, routes' = [routes EXCEPT ![r] = Routers!Idle], answer' = <<a>>,
         \A d \in DOMAIN opinions' : OpinionOK(opinions'[d]), UNCHANGED <<bus, today>>,
         a.cached => a.source = "opa" /\ a.age <= TTL + Timeout,
         Len(a.posts) <= Routers!MaxPosts,
         a.posts # << >> <=> bus # Routers!None /\ a.action = "human_review" /\ ~ a.cached,
         \A i \in 1..Len(a.posts) : i < Len(a.posts) => a.posts[i] = "5xx",
         bus = "webhook" /\ Len(a.posts) \in 1..Routers!MaxPosts - 1 => a.posts[Len(a.posts)] # "5xx"
  PROVE  RoutersInv'
<1>1. DOMAIN answer' = {1} /\ answer'[1] = a
  OBVIOUS
<1>2. Routers!RoutesAreCurrent'
  BY <1>1 DEF Routers!RoutesAreCurrent
<1>3. Routers!ReviewsAreAnnounced'
  BY <1>1 DEF Routers!ReviewsAreAnnounced
<1>4. DOMAIN routes' = Routes /\ \A q \in Routes : RouteOK(routes'[q])
  BY DEF RoutersInv, RouteOK
<1>5. \A q \in Routes : RouteOK(routes[q])'
  BY <1>4 DEF RouteOK, Asking, Replied, Emitting
<1>6. \A d \in DOMAIN opinions' : OpinionOK(opinions[d])'
  BY DEF OpinionOK
<1>7. QED
  BY <1>2, <1>3, <1>4, <1>5, <1>6 DEF RoutersInv

\* ... from the cache,
LEMMA ReturnsCached ==
  ASSUME RoutersInv, NEW r \in Routes, NEW action, NEW age, age <= TTL + Timeout,
         Routers!Return(r, action, "opa", TRUE, age, << >>),
         \A d \in DOMAIN opinions' : OpinionOK(opinions'[d]), UNCHANGED <<bus, today>>
  PROVE  RoutersInv'
<1> DEFINE a == [action |-> action, source |-> "opa", cached |-> TRUE, age |-> age, posts |-> << >>]
<1>1. answer' = <<a>> /\ routes' = [routes EXCEPT ![r] = Routers!Idle]
  BY DEF Routers!Return, Routers!Goto
<1>2. a.action = action /\ a.source = "opa" /\ a.cached /\ a.age = age /\ a.posts = << >>
  OBVIOUS
<1> HIDE DEF a
<1>3. Len(a.posts) = 0 /\ 0 <= Routers!MaxPosts
  BY <1>2 DEF Routers!MaxPosts
<1>4. /\ \A i \in 1..Len(a.posts) : i < Len(a.posts) => a.posts[i] = "5xx"
      /\ Len(a.posts) \notin 1..Routers!MaxPosts - 1
      /\ Len(a.posts) <= Routers!MaxPosts
  BY <1>3 DEF Routers!MaxPosts
<1>5. a.posts # << >> <=> bus # Routers!None /\ a.action = "human_review" /\ ~ a.cached
  BY <1>2
<1>6. QED
  BY <1>1, <1>2, <1>4, <1>5, RouteAnswers

\* ... or anew.
LEMMA ReturnsAnew ==
  ASSUME RoutersInv, NEW r \in Routes, NEW action, NEW source, NEW posts,
         Routers!Return(r, action, source, FALSE, 0, posts),
         \A d \in DOMAIN opinions' : OpinionOK(opinions'[d]), UNCHANGED <<bus, today>>,
         Len(posts) <= Routers!MaxPosts,
         posts # << >> <=> bus # Routers!None /\ action = "human_review",
         \A i \in 1..Len(posts) : i < Len(posts) => posts[i] = "5xx",
         bus = "webhook" /\ Len(posts) \in 1..Routers!MaxPosts - 1 => posts[Len(posts)] # "5xx"
  PROVE  RoutersInv'
<1> DEFINE a == [action |-> action, source |-> source, cached |-> FALSE, age |-> 0, posts |-> posts]
<1>1. answer' = <<a>> /\ routes' = [routes EXCEPT ![r] = Routers!Idle]
  BY DEF Routers!Return, Routers!Goto
<1>2. a.action = action /\ a.source = source /\ ~ a.cached /\ a.posts = posts
  OBVIOUS
<1> HIDE DEF a
<1>3. QED
  BY <1>1, <1>2, RouteAnswers

\* A route is answered from the cache, or asks.
LEMMA RouteStep ==
  ASSUME RoutersInv, NEW r \in Routes, NEW d \in Docs, Routers!Route(r, d)
  PROVE  RoutersInv'
<1>1. /\ UNCHANGED <<bus, today>> /\ opinions' = Routers!Lookup(d)
      /\ \A e \in DOMAIN opinions' : e \in DOMAIN opinions /\ opinions'[e] = opinions[e]
      /\ d \in DOMAIN opinions' => today - opinions[d].set <= TTL
  <2>1. UNCHANGED <<bus, today>> /\ opinions' = Routers!Lookup(d)
    BY DEF Routers!Route
  <2>2. CASE d \in DOMAIN opinions /\ today - opinions[d].set > TTL
    BY <2>1, <2>2 DEF Routers!Lookup, Routers!Forget
  <2>3. CASE ~ (d \in DOMAIN opinions /\ today - opinions[d].set > TTL)
    <3>1. d \in DOMAIN opinions => today - opinions[d].set \in Int
      BY DEF RoutersInv, OpinionOK
    <3>2. QED
      BY <2>1, <2>3, <3>1, SideAssumption DEF Routers!Lookup, Routers!RouterAssumption
  <2>4. QED
    BY <2>1, <2>2, <2>3
<1>2. \A e \in DOMAIN opinions' : OpinionOK(opinions'[e])
  BY <1>1 DEF RoutersInv
<1>3. CASE d \in DOMAIN opinions'
  <2> DEFINE age == today - opinions[d].at
  <2>1. OpinionOK(opinions[d]) /\ today \in Int
    BY <1>1, <1>3 DEF RoutersInv
  <2>2. age <= TTL + Timeout
    BY <1>1, <1>3, <2>1, SideAssumption DEF OpinionOK, Routers!RouterAssumption
  <2>3. Routers!Return(r, opinions[d].action, "opa", TRUE, age, << >>)
    BY <1>3, <2>1 DEF Routers!Route, OpinionOK
  <2> HIDE DEF age
  <2>4. QED
    BY <1>1, <1>2, <2>2, <2>3, ReturnsCached
<1>4. CASE d \notin DOMAIN opinions'
  <2> DEFINE route == [pc |-> "asking", doc |-> d, began |-> today]
  <2>1. routes' = [routes EXCEPT ![r] = route] /\ UNCHANGED <<bus, today, answer>>
    BY <1>1, <1>4 DEF Routers!Route, Routers!Goto
  <2>2. RouteOK(route)
    BY SideAssumption DEF RoutersInv, RouteOK, Asking, Routers!RouterAssumption
  <2> HIDE DEF route
  <2>3. QED
    BY <1>2, <2>1, <2>2, RouteGoesOn
<1>5. QED
  BY <1>3, <1>4

\* OPA answers by the policy of the moment.
LEMMA EvaluatesStep ==
  ASSUME RoutersInv, NEW r \in Routes, Routers!Evaluates(r)
  PROVE  RoutersInv'
<1> DEFINE me == routes[r]
           route == [pc |-> "replied", doc |-> me.doc, began |-> me.began, action |-> policy[me.doc], at |-> today]
<1>1. me.pc = "asking" /\ routes' = [routes EXCEPT ![r] = route] /\ UNCHANGED <<opinions, bus, today, answer>>
  BY DEF Routers!Evaluates, Routers!Goto
<1>2. Asking(me)
  BY <1>1, RoutesAreKnown
<1>3. RouteOK(route)
  <2>1. today \in Int
    BY DEF RoutersInv
  <2>2. QED
    BY <1>2, <2>1 DEF RoutersInv, RouteOK, Replied, Asking
<1> HIDE DEF route
<1>4. QED
  BY <1>1, <1>3, RouteGoesOn DEF RoutersInv

\* A review is announced before its route returns, and nothing else is.
LEMMA EmitsOrReturns ==
  ASSUME RoutersInv, NEW r \in Routes, NEW action, NEW source, Routers!MaybeEmit(r, action, source),
         \A d \in DOMAIN opinions' : OpinionOK(opinions'[d]), UNCHANGED <<bus, today>>
  PROVE  RoutersInv'
<1>1. CASE action = "human_review" /\ bus # Routers!None
  <2> DEFINE route == [pc |-> "emitting", source |-> source, posts |-> << >>]
  <2>1. routes' = [routes EXCEPT ![r] = route] /\ UNCHANGED answer
    BY <1>1 DEF Routers!MaybeEmit, Routers!Goto
  <2>2. RouteOK(route)
    BY <1>1 DEF RouteOK, Emitting, Routers!MaxPosts
  <2> HIDE DEF route
  <2>3. QED
    BY <2>1, <2>2, RouteGoesOn
<1>2. CASE ~ (action = "human_review" /\ bus # Routers!None)
  <2>1. Routers!Return(r, action, source, FALSE, 0, << >>)
    BY <1>2 DEF Routers!MaybeEmit
  <2> DEFINE posts == << >>
  <2>2. Routers!Return(r, action, source, FALSE, 0, posts) /\ posts = << >> /\ Len(posts) = 0
    BY <2>1
  <2> HIDE DEF posts
  <2>3. /\ \A i \in 1..Len(posts) : i < Len(posts) => posts[i] = "5xx"
        /\ Len(posts) \notin 1..Routers!MaxPosts - 1
        /\ Len(posts) <= Routers!MaxPosts
    BY <2>2 DEF Routers!MaxPosts
  <2>4. posts # << >> <=> bus # Routers!None /\ action = "human_review"
    BY <1>2, <2>2
  <2>5. QED
    BY <2>2, <2>3, <2>4, ReturnsAnew
<1>3. QED
  BY <1>1, <1>2

\* An answer of OPA is kept with the time of its arrival.
LEMMA ReceiveStep ==
  ASSUME RoutersInv, NEW r \in Routes, Routers!Receive(r)
  PROVE  RoutersInv'
<1> DEFINE me == routes[r]
<1>1. /\ me.pc = "replied" /\ opinions' = Routers!Entered(me.doc, me.action, "opa", me.at)
      /\ Routers!MaybeEmit(r, me.action, "opa") /\ UNCHANGED <<bus, today>>
  BY DEF Routers!Receive
<1>2. Replied(me) /\ today \in Int
  BY <1>1, RoutesAreKnown DEF RoutersInv
<1>3. today - me.at <= Timeout
  BY <1>2, SideAssumption DEF Replied, Routers!RouterAssumption
<1>4. \A d \in DOMAIN opinions' : OpinionOK(opinions'[d])
  <2> DEFINE entry == [action |-> me.action, source |-> "opa", set |-> today, at |-> me.at]
  <2>1. OpinionOK(entry)
    BY <1>2, <1>3 DEF OpinionOK, Replied
  <2>2. opinions' = [e \in DOMAIN opinions \union {me.doc} |-> IF e = me.doc THEN entry ELSE opinions[e]]
    BY <1>1 DEF Routers!Entered
  <2> HIDE DEF entry, me
  <2>3. QED
    BY <2>1, <2>2 DEF RoutersInv
<1>5. QED
  BY <1>1, <1>4, EmitsOrReturns

\* A route without an answer falls back, and keeps nothing.
LEMMA FallBackStep ==
  ASSUME RoutersInv, NEW r \in Routes, Routers!FallBack(r)
  PROVE  RoutersInv'
<1>1. /\ Routers!MaybeEmit(r, Routers!InternalAction(routes[r].doc), "internal")
      /\ UNCHANGED <<opinions, bus, today>>
  BY DEF Routers!FallBack, Routers!Remember
<1>2. \A d \in DOMAIN opinions' : OpinionOK(opinions'[d])
  BY <1>1 DEF RoutersInv
<1>3. QED
  BY <1>1, <1>2, EmitsOrReturns

\* A webhook is tried again after an answer of 5xx, and then given up.
LEMMA WebhookStep ==
  ASSUME RoutersInv, NEW r \in Routes, NEW status \in {"ok", "4xx", "5xx", "error"}, Routers!WebhookEmit(r, status)
  PROVE  RoutersInv'
<1> DEFINE me == routes[r]
           posts == Append(me.posts, status)
           n == Len(me.posts)
<1>1. /\ me.pc = "emitting" /\ bus = "webhook" /\ UNCHANGED <<opinions, bus, today>>
      /\ IF Routers!Again(posts)
         THEN routes' = [routes EXCEPT ![r] = [me EXCEPT !.posts = posts]] /\ UNCHANGED answer
         ELSE Routers!Return(r, "human_review", me.source, FALSE, 0, posts)
  BY DEF Routers!WebhookEmit, Routers!Goto
<1>2. Emitting(me)
  BY <1>1, RoutesAreKnown
<1>3. /\ posts \in Seq(Statuses) /\ Len(posts) = n + 1 /\ posts[n + 1] = status /\ n \in Nat
      /\ \A i \in 1..n : posts[i] = "5xx"
      /\ n + 1 <= Routers!MaxPosts
  <2>1. me.posts \in Seq(Statuses) /\ n \in Nat /\ status \in Statuses
    BY <1>2, LenProperties DEF Emitting, Statuses
  <2>2. n < Routers!MaxPosts /\ \A i \in 1..n : me.posts[i] = "5xx"
    BY <1>2 DEF Emitting
  <2> HIDE DEF me
  <2>3. QED
    BY <2>1, <2>2, AppendProperties DEF Routers!MaxPosts
<1>4. \A d \in DOMAIN opinions' : OpinionOK(opinions'[d])
  BY <1>1 DEF RoutersInv
<1> HIDE DEF posts, n
<1>5. CASE Routers!Again(posts)
  <2> DEFINE route == [me EXCEPT !.posts = posts]
  <2>1. posts[n + 1] = "5xx" /\ n + 1 < Routers!MaxPosts
    BY <1>3, <1>5 DEF Routers!Again
  <2>2. RouteOK(route)
    BY <1>2, <1>3, <2>1 DEF RouteOK, Emitting
  <2>3. routes' = [routes EXCEPT ![r] = route] /\ UNCHANGED <<bus, today, answer>>
    BY <1>1, <1>5
  <2> HIDE DEF route
  <2>4. QED
    BY <1>4, <2>2, <2>3, RouteGoesOn
<1>6. CASE ~ Routers!Again(posts)
  <2>1. Routers!Return(r, "human_review", me.source, FALSE, 0, posts)
    BY <1>1, <1>6
  <2>2. Len(posts) \in 1..Routers!MaxPosts - 1 => posts[Len(posts)] # "5xx"
    BY <1>3, <1>6 DEF Routers!Again, Routers!MaxPosts
  <2>3. posts # << >> /\ bus # Routers!None
    BY <1>1, <1>3 DEF Routers!None
  <2>4. \A i \in 1..Len(posts) : i < Len(posts) => posts[i] = "5xx"
    BY <1>3
  <2>5. QED
    BY <1>1, <1>3, <1>4, <2>1, <2>2, <2>3, <2>4, ReturnsAnew
<1>7. QED
  BY <1>5, <1>6

\* A publication succeeds or fails; the route returns.
LEMMA KafkaStep ==
  ASSUME RoutersInv, NEW r \in Routes, Routers!KafkaPublish(r)
  PROVE  RoutersInv'
<1>1. bus = "kafka" /\ UNCHANGED <<opinions, bus, today>>
  BY DEF Routers!KafkaPublish
<1>2. PICK status \in {"ok", "error"} :
        Routers!Return(r, "human_review", routes[r].source, FALSE, 0, <<status>>)
  BY DEF Routers!KafkaPublish
<1> DEFINE posts == <<status>>
<1>3. posts # << >> /\ Len(posts) = 1
  OBVIOUS
<1>4. \A d \in DOMAIN opinions' : OpinionOK(opinions'[d])
  BY <1>1 DEF RoutersInv
<1>5. Routers!Return(r, "human_review", routes[r].source, FALSE, 0, posts)
  BY <1>2
<1> HIDE DEF posts
<1>6. /\ \A i \in 1..Len(posts) : i < Len(posts) => posts[i] = "5xx"
      /\ Len(posts) <= Routers!MaxPosts
  BY <1>3 DEF Routers!MaxPosts
<1>7. bus # Routers!None /\ bus # "webhook"
  BY <1>1 DEF Routers!None
<1>8. QED
  BY <1>1, <1>3, <1>4, <1>5, <1>6, <1>7, ReturnsAnew

\* What is on its way to OPA is no older than the timeout when time goes on.
LEMMA TimeGoesOn ==
  ASSUME RoutersInv, Routers!Tick
  PROVE  RoutersInv'
<1>1. /\ today' = today + 1 /\ today \in Int
      /\ \A r \in Routes : routes[r].pc \in {"asking", "replied"} => today < routes[r].began + Timeout
      /\ UNCHANGED <<opinions, routes, bus, answer>>
  BY DEF Routers!Tick, RoutersInv
<1>2. ASSUME NEW r \in Routes
      PROVE  RouteOK(routes[r])'
  <2>1. RouteOK(routes[r])
    BY DEF RoutersInv
  <2>2. QED
    BY <1>1, <2>1, SideAssumption DEF RouteOK, Asking, Replied, Emitting, Routers!RouterAssumption
<1>3. Routers!RoutesAreCurrent' /\ Routers!ReviewsAreAnnounced'
  BY <1>1 DEF RoutersInv, Routers!RoutesAreCurrent, Routers!ReviewsAreAnnounced
<1>4. \A d \in DOMAIN opinions' : OpinionOK(opinions[d])'
  BY <1>1 DEF RoutersInv, OpinionOK
<1>5. QED
  BY <1>1, <1>2, <1>3, <1>4 DEF RoutersInv

\* Every step of a route, OPA and the clock keeps the invariant.
LEMMA RoutersStep ==
  ASSUME RoutersInv, [Routers!Next]_(Routers!vars)
  PROVE  RoutersInv'
<1>1. ASSUME UNCHANGED <<opinions, routes, bus, today, answer>>
      PROVE  RoutersInv'
  BY <1>1 DEF RoutersInv, RouteOK, Asking, Replied, Emitting, OpinionOK, Routers!RoutesAreCurrent,
     Routers!ReviewsAreAnnounced
<1>2. \A d \in Docs : Routers!ChangePolicy(d) => RoutersInv'
  BY <1>1 DEF Routers!ChangePolicy
<1>3. CASE UNCHANGED Routers!vars
  BY <1>1, <1>3 DEF Routers!vars
<1>4. QED
  BY <1>2, <1>3, RouteStep, EvaluatesStep, ReceiveStep, FallBackStep, WebhookStep, KafkaStep, TimeGoesOn
     DEF Routers!Next

------------------------------------------------------------------------------
\* GuardrailStack.

\* An outcome that lets its request through is one of a configuration that was in
\* force by the one given, and that permits the request.
Earned(out, r, now) ==
  /\ out \in Stack!Outcomes
  /\ out.effect = "allow" /\ Mode = "block" => out.config \in 1..now /\ r \in Configs[out.config]

Entries == [request : Requests, out : Stack!Outcomes, age : 0..Lifetime + 1]
EarnedEntries(now) == {e \in Entries : Earned(e.out, e.request, now)}
Places == {"idle", "get", "touch", "drop", "evaluate", "store", "evict", "done"}

StackType ==
  /\ config \in 1..Len(Configs)
  /\ store \in Seq(EarnedEntries(config))
  /\ worker \in [Workers -> [at : Places, request : Requests, out : Stack!Outcomes]]
  /\ caller \in [Users -> [waits : Workers \union {Stack!Nobody}, request : Requests, answer : Stack!Outcomes]]

\* What a worker carries and what a caller was answered is earned.
AllEarned ==
  /\ \A w \in Workers : worker[w].at \in {"touch", "store", "evict", "done"} =>
       Earned(worker[w].out, worker[w].request, config)
  /\ \A u \in Users : caller[u].waits = Stack!Nobody => Earned(caller[u].answer, caller[u].request, config)

\* A worker that is waited for has its one caller's request.
WorkersAreTheirs ==
  \A u \in Users : caller[u].waits # Stack!Nobody =>
    /\ worker[caller[u].waits].at # "idle" /\ worker[caller[u].waits].request = caller[u].request
    /\ \A v \in Users : caller[v].waits = caller[u].waits => v = u

StackInv == StackType /\ AllEarned /\ WorkersAreTheirs


\* There is a request, and what is denied or raised lets nobody through.
LEMMA StackBasics ==
  /\ Configs \in Seq(SUBSET Requests) /\ Len(Configs) \in Nat /\ Len(Configs) >= 1
  /\ Lifetime \in Nat /\ MaxEntries \in Nat /\ Stack!Nobody \notin Workers
  /\ Stack!Idle = [at |-> "idle", request |-> Stack!Idle.request, out |-> Stack!Denied]
  /\ Stack!Idle \in [at : Places, request : Requests, out : Stack!Outcomes]
  /\ Stack!Denied \in Stack!Outcomes /\ Stack!Raised \in Stack!Outcomes
  /\ \A r, now : Earned(Stack!Denied, r, now) /\ Earned(Stack!Raised, r, now)
<1>1. Configs \in Seq(SUBSET Requests) /\ Configs # << >> /\ Requests # {}
  BY SideAssumption DEF Stack!StackAssumption
<1>2. Len(Configs) \in Nat /\ Len(Configs) >= 1
  BY <1>1, EmptySeq, LenProperties
<1>3. Stack!Denied \in Stack!Outcomes /\ Stack!Raised \in Stack!Outcomes
  BY <1>2 DEF Stack!Denied, Stack!Raised, Stack!Outcomes
<1>4. Stack!Denied.effect # "allow" /\ Stack!Raised.effect # "allow"
  BY DEF Stack!Denied, Stack!Raised
<1>5. (CHOOSE r \in Requests : TRUE) \in Requests
  BY <1>1
<1>6. Stack!Idle \in [at : Places, request : Requests, out : Stack!Outcomes]
  <2> HIDE DEF Stack!Denied
  <2>1. QED
    BY <1>3, <1>5 DEF Stack!Idle, Places
<1>7. Stack!Idle = [at |-> "idle", request |-> Stack!Idle.request, out |-> Stack!Denied]
  BY DEF Stack!Idle
<1>8. QED
  BY <1>1, <1>2, <1>3, <1>4, <1>6, <1>7, SideAssumption DEF Earned, Stack!StackAssumption, Stack!Nobody

\* The invariant holds when the guardrail is wrapped.
LEMMA StackStart == Stack!Init => StackInv
<1> SUFFICES ASSUME Stack!Init PROVE StackInv
  OBVIOUS
<1>1. /\ config = 1 /\ store = << >> /\ worker = [w \in Workers |-> Stack!Idle]
      /\ caller = [c \in Users |-> [waits |-> Stack!Nobody, request |-> Stack!Idle.request,
                                    answer |-> Stack!Denied]]
  BY DEF Stack!Init
<1>2. /\ Stack!Idle \in [at : Places, request : Requests, out : Stack!Outcomes] /\ Stack!Idle.at = "idle"
      /\ Stack!Idle.request \in Requests /\ Stack!Denied \in Stack!Outcomes
  BY StackBasics
<1>3. StackType
  BY <1>1, <1>2, StackBasics, EmptySeq DEF StackType
<1>4. AllEarned
  BY <1>1, <1>2, StackBasics DEF AllEarned
<1>5. WorkersAreTheirs
  BY <1>1 DEF WorkersAreTheirs
<1>6. QED
  BY <1>3, <1>4, <1>5 DEF StackInv

\* What a worker that goes on, and the entries it leaves, must be.
LEMMA WorkerGoesOn ==
  ASSUME StackInv, NEW w \in Workers, worker[w].at # "idle",
         worker' \in [Workers -> [at : Places, request : Requests, out : Stack!Outcomes]],
         \A x \in Workers \ {w} : worker'[x] = worker[x],
         worker'[w].at # "idle", worker'[w].request = worker[w].request,
         worker'[w].at \in {"touch", "store", "evict", "done"} =>
           Earned(worker'[w].out, worker'[w].request, config),
         store' \in Seq(EarnedEntries(config)), UNCHANGED <<config, caller>>
  PROVE  StackInv'
<1>1. StackType'
  BY DEF StackInv, StackType
<1>2. AllEarned'
  BY DEF StackInv, AllEarned
<1>3. WorkersAreTheirs'
  BY DEF StackInv, StackType, WorkersAreTheirs
<1>4. QED
  BY <1>1, <1>2, <1>3 DEF StackInv

\* A worker moves on and carries what it carried.
LEMMA WorkerMoves ==
  ASSUME StackType, NEW w \in Workers, NEW there \in Places, Stack!Move(w, there)
  PROVE  /\ worker' \in [Workers -> [at : Places, request : Requests, out : Stack!Outcomes]]
         /\ \A x \in Workers \ {w} : worker'[x] = worker[x]
         /\ worker'[w].at = there /\ worker'[w].request = worker[w].request /\ worker'[w].out = worker[w].out
<1>1. worker \in [Workers -> [at : Places, request : Requests, out : Stack!Outcomes]]
  BY DEF StackType
<1>2. worker' = [worker EXCEPT ![w].at = there]
  BY DEF Stack!Move
<1> HIDE DEF Places
<1>3. QED
  BY <1>1, <1>2

\* What Lookup, Finish and EvaluateEnv do to a worker.
Carries(w, there, out) == worker' = [worker EXCEPT ![w].at = there, ![w].out = out]

\* A worker moves on with a new outcome.
LEMMA WorkerCarries ==
  ASSUME StackType, NEW w \in Workers, NEW there \in Places, NEW out \in Stack!Outcomes,
         Carries(w, there, out)
  PROVE  /\ worker' \in [Workers -> [at : Places, request : Requests, out : Stack!Outcomes]]
         /\ \A x \in Workers \ {w} : worker'[x] = worker[x]
         /\ worker'[w].at = there /\ worker'[w].request = worker[w].request /\ worker'[w].out = out
<1> DEFINE new == [at |-> there, request |-> worker[w].request, out |-> out]
           Shape == [at : Places, request : Requests, out : Stack!Outcomes]
<1>1. worker \in [Workers -> Shape] /\ worker[w] \in Shape
  BY DEF StackType
<1>2. /\ DOMAIN worker'[w] = DOMAIN worker[w] /\ worker'[w].at = there
      /\ worker'[w].request = worker[w].request /\ worker'[w].out = out
  BY <1>1 DEF Carries
<1>3. worker'[w] = new
  BY <1>1, <1>2 DEF Carries
<1>4. new \in Shape
  BY <1>1
<1>5. DOMAIN worker' = Workers /\ \A x \in Workers \ {w} : worker'[x] = worker[x]
  BY <1>1 DEF Carries
<1> HIDE DEF new, Shape
<1>6. (\A x \in Workers : worker'[x] \in Shape) /\ worker' = [x \in Workers |-> worker'[x]]
  BY <1>1, <1>3, <1>4, <1>5 DEF Carries
<1>7. worker' \in [Workers -> Shape]
  BY <1>6
<1>8. QED
  BY <1>2, <1>5, <1>7 DEF Shape

\* A worker ends with an outcome.
LEMMA WorkerFinishes ==
  ASSUME StackType, NEW w \in Workers, NEW out \in Stack!Outcomes, Stack!Finish(w, out)
  PROVE  /\ worker' \in [Workers -> [at : Places, request : Requests, out : Stack!Outcomes]]
         /\ \A x \in Workers \ {w} : worker'[x] = worker[x]
         /\ worker'[w].at = "done" /\ worker'[w].request = worker[w].request /\ worker'[w].out = out
<1>1. "done" \in Places /\ Carries(w, "done", out)
  BY DEF Stack!Finish, Places, Carries
<1>2. QED
  BY <1>1, WorkerCarries

\* Where a request is cached there is its entry, and all the others are entries too.
LEMMA EntriesAreKept ==
  ASSUME NEW S, S \subseteq Entries, store \in Seq(S), NEW r, Stack!Cached(r)
  PROVE  /\ Stack!Position(r) \in 1..Len(store)
         /\ store[Stack!Position(r)] \in S /\ store[Stack!Position(r)].request = r
         /\ Stack!Others(r) \in Seq(S)
<1> DEFINE p == Stack!Position(r)
<1>1. p \in Stack!Positions(r)
  BY DEF Stack!Cached, Stack!Position
<1>2. p \in 1..Len(store) /\ store[p].request = r /\ Len(store) \in Nat
  BY <1>1 DEF Stack!Positions
<1> HIDE DEF p
<1>3. store[p] \in S
  BY <1>2, ElementOfSeq
<1>4. SubSeq(store, 1, p - 1) \in Seq(S)
  BY <1>2, SubSeqProperties
<1>5. SubSeq(store, p + 1, Len(store)) \in Seq(S)
  BY <1>2, SubSeqProperties
<1>6. SubSeq(store, 1, p - 1) \o SubSeq(store, p + 1, Len(store)) \in Seq(S)
  BY <1>4, <1>5, ConcatProperties
<1>7. QED
  BY <1>2, <1>3, <1>6 DEF p, Stack!Others

\* A look at the cache finds an entry, an old one or none.
LEMMA LookupStep ==
  ASSUME StackInv, NEW w \in Workers, Stack!Lookup(w)
  PROVE  StackInv'
<1> DEFINE r == worker[w].request
           p == Stack!Position(r)
<1>1. /\ worker[w].at = "get" /\ UNCHANGED <<config, store, caller>> /\ StackType
      /\ store \in Seq(EarnedEntries(config)) /\ EarnedEntries(config) \subseteq Entries
  BY DEF Stack!Lookup, StackInv, StackType, EarnedEntries
<1>2. CASE /\ Stack!Cached(r) /\ store[p].age <= Lifetime
           /\ worker' = [worker EXCEPT ![w].at = "touch", ![w].out = store[p].out]
  <2>1. store[p] \in EarnedEntries(config) /\ store[p].request = r
    BY <1>1, <1>2, EntriesAreKept
  <2>2. store[p].out \in Stack!Outcomes /\ Earned(store[p].out, r, config)
    BY <2>1 DEF EarnedEntries, Entries
  <2> DEFINE out == store[p].out
  <2> HIDE DEF out
  <2>3. "touch" \in Places /\ out \in Stack!Outcomes /\ Carries(w, "touch", out)
    BY <1>2, <2>2 DEF Places, out, Carries
  <2>4. /\ worker' \in [Workers -> [at : Places, request : Requests, out : Stack!Outcomes]]
        /\ \A x \in Workers \ {w} : worker'[x] = worker[x]
        /\ worker'[w].at = "touch" /\ worker'[w].request = r /\ worker'[w].out = out
    BY <1>1, <2>3, WorkerCarries
  <2>5. QED
    BY <1>1, <2>2, <2>4, WorkerGoesOn DEF out
<1>3. ASSUME NEW there \in {"evaluate", "drop"}, Stack!Move(w, there)
      PROVE  StackInv'
  <2>1. there \in Places
    BY DEF Places
  <2>2. QED
    BY <1>1, <1>3, <2>1, WorkerMoves, WorkerGoesOn
<1>4. QED
  BY <1>2, <1>3 DEF Stack!Lookup

\* A worker that finds its entry gone ends with an exception.
LEMMA WorkerRaises ==
  ASSUME StackInv, NEW w \in Workers, worker[w].at # "idle", Stack!Finish(w, Stack!Raised),
         UNCHANGED <<config, store, caller>>
  PROVE  StackInv'
<1>1. StackType /\ store \in Seq(EarnedEntries(config))
  BY DEF StackInv, StackType
<1>2. Stack!Raised \in Stack!Outcomes /\ Earned(Stack!Raised, worker[w].request, config)
  BY StackBasics
<1>3. /\ worker' \in [Workers -> [at : Places, request : Requests, out : Stack!Outcomes]]
      /\ \A x \in Workers \ {w} : worker'[x] = worker[x]
      /\ worker'[w].at = "done" /\ worker'[w].request = worker[w].request /\ worker'[w].out = Stack!Raised
  <2> DEFINE out == Stack!Raised
  <2>1. Stack!Finish(w, out) /\ out \in Stack!Outcomes
    BY <1>2
  <2> HIDE DEF out
  <2>2. /\ worker' \in [Workers -> [at : Places, request : Requests, out : Stack!Outcomes]]
        /\ \A x \in Workers \ {w} : worker'[x] = worker[x]
        /\ worker'[w].at = "done" /\ worker'[w].request = worker[w].request /\ worker'[w].out = out
    BY <1>1, <2>1, WorkerFinishes
  <2>3. QED
    BY <2>2 DEF out
<1>4. QED
  BY <1>1, <1>2, <1>3, WorkerGoesOn

\* A hit moves the entry to the end and answers with what was found before.
LEMMA TouchStep ==
  ASSUME StackInv, NEW w \in Workers, Stack!Touch(w)
  PROVE  StackInv'
<1> DEFINE r == worker[w].request
           p == Stack!Position(r)
<1>1. /\ worker[w].at = "touch" /\ UNCHANGED <<config, caller>> /\ StackType
      /\ store \in Seq(EarnedEntries(config)) /\ EarnedEntries(config) \subseteq Entries
      /\ worker[w].out \in Stack!Outcomes /\ Earned(worker[w].out, r, config)
  BY DEF Stack!Touch, StackInv, StackType, AllEarned, EarnedEntries
<1>2. CASE ~ Stack!Cached(r)
  BY <1>1, <1>2, WorkerRaises DEF Stack!Touch
<1>3. CASE Stack!Cached(r)
  <2>1. store' = Append(Stack!Others(r), store[p]) /\ Stack!Finish(w, worker[w].out)
    BY <1>3 DEF Stack!Touch
  <2>2. store[p] \in EarnedEntries(config) /\ Stack!Others(r) \in Seq(EarnedEntries(config))
    BY <1>1, <1>3, EntriesAreKept
  <2>3. store' \in Seq(EarnedEntries(config))
    BY <2>1, <2>2, AppendProperties
  <2> DEFINE out == worker[w].out
  <2> HIDE DEF out
  <2>4. out \in Stack!Outcomes /\ Stack!Finish(w, out)
    BY <1>1, <2>1 DEF out
  <2>5. /\ worker' \in [Workers -> [at : Places, request : Requests, out : Stack!Outcomes]]
        /\ \A x \in Workers \ {w} : worker'[x] = worker[x]
        /\ worker'[w].at = "done" /\ worker'[w].request = r /\ worker'[w].out = out
    BY <1>1, <2>4, WorkerFinishes
  <2>6. QED
    BY <1>1, <2>3, <2>5, WorkerGoesOn DEF out
<1>4. QED
  BY <1>2, <1>3

\* An expired entry is deleted, unless another worker did it.
LEMMA DropStep ==
  ASSUME StackInv, NEW w \in Workers, Stack!Drop(w)
  PROVE  StackInv'
<1> DEFINE r == worker[w].request
<1>1. /\ worker[w].at = "drop" /\ UNCHANGED <<config, caller>> /\ StackType
      /\ store \in Seq(EarnedEntries(config)) /\ EarnedEntries(config) \subseteq Entries
  BY DEF Stack!Drop, StackInv, StackType, EarnedEntries
<1>2. CASE ~ Stack!Cached(r)
  BY <1>1, <1>2, WorkerRaises DEF Stack!Drop
<1>3. CASE Stack!Cached(r)
  <2>1. store' = Stack!Others(r) /\ Stack!Move(w, "evaluate") /\ "evaluate" \in Places
    BY <1>3 DEF Stack!Drop, Places
  <2>2. store' \in Seq(EarnedEntries(config))
    BY <1>1, <1>3, <2>1, EntriesAreKept
  <2>3. QED
    BY <1>1, <2>1, <2>2, WorkerMoves, WorkerGoesOn
<1>4. QED
  BY <1>2, <1>3

\* What the guardrail answers is earned: the configuration in force permits it.
LEMMA EvaluateEnvStep ==
  ASSUME StackInv, NEW w \in Workers, Stack!EvaluateEnv(w)
  PROVE  StackInv'
<1> DEFINE r == worker[w].request
           verdict == IF r \in Configs[config] THEN "allow" ELSE "deny"
           out == [effect |-> Stack!Applied(verdict), config |-> config]
<1>1. /\ worker[w].at = "evaluate" /\ UNCHANGED <<config, store, caller>> /\ StackType
      /\ store \in Seq(EarnedEntries(config)) /\ config \in 1..Len(Configs)
  BY DEF Stack!EvaluateEnv, StackInv, StackType
<1>2. CASE Stack!Finish(w, Stack!Raised)
  BY <1>1, <1>2, WorkerRaises
<1>3. CASE worker' = [worker EXCEPT ![w].at = "store", ![w].out = out]
  <2>1. Stack!Applied(verdict) \in {"allow", "deny"}
        /\ (Stack!Applied(verdict) = "allow" /\ Mode = "block" => r \in Configs[config])
    BY DEF Stack!Applied
  <2>2. out \in Stack!Outcomes /\ out.config = config /\ out.effect = Stack!Applied(verdict)
    BY <1>1, <2>1, StackBasics DEF Stack!Outcomes
  <2> HIDE DEF out, verdict
  <2>3. Earned(out, r, config)
    BY <1>1, <2>1, <2>2, StackBasics DEF Earned
  <2>4. "store" \in Places /\ Carries(w, "store", out)
    BY <1>3 DEF Places, Carries
  <2>5. /\ worker' \in [Workers -> [at : Places, request : Requests, out : Stack!Outcomes]]
        /\ \A x \in Workers \ {w} : worker'[x] = worker[x]
        /\ worker'[w].at = "store" /\ worker'[w].request = r /\ worker'[w].out = out
    BY <1>1, <2>2, <2>4, WorkerCarries
  <2>6. QED
    BY <1>1, <2>3, <2>5, WorkerGoesOn
<1>4. QED
  BY <1>2, <1>3 DEF Stack!EvaluateEnv

\* What is stored under a request is what was answered to it.
LEMMA StoreStep ==
  ASSUME StackInv, NEW w \in Workers, Stack!Store(w)
  PROVE  StackInv'
<1> DEFINE r == worker[w].request
           entry == [request |-> r, out |-> worker[w].out, age |-> 0]
<1>1. /\ worker[w].at = "store" /\ UNCHANGED <<config, caller>> /\ StackType
      /\ store \in Seq(EarnedEntries(config)) /\ EarnedEntries(config) \subseteq Entries
      /\ worker[w].out \in Stack!Outcomes /\ r \in Requests /\ Earned(worker[w].out, r, config)
      /\ Stack!Move(w, "evict") /\ "evict" \in Places
  BY DEF Stack!Store, StackInv, StackType, AllEarned, EarnedEntries, Places
<1>2. entry \in EarnedEntries(config)
  BY <1>1, StackBasics DEF EarnedEntries, Entries
<1>3. store' = IF Stack!Cached(r) THEN [store EXCEPT ![Stack!Position(r)] = entry] ELSE Append(store, entry)
  BY DEF Stack!Store
<1> HIDE DEF entry
<1>4. store' \in Seq(EarnedEntries(config))
  <2>1. CASE Stack!Cached(r)
    BY <1>1, <1>2, <1>3, <2>1, EntriesAreKept, ExceptSeq
  <2>2. CASE ~ Stack!Cached(r)
    BY <1>1, <1>2, <1>3, <2>2, AppendProperties
  <2>3. QED
    BY <2>1, <2>2
<1>5. /\ worker' \in [Workers -> [at : Places, request : Requests, out : Stack!Outcomes]]
      /\ \A x \in Workers \ {w} : worker'[x] = worker[x]
      /\ worker'[w].at = "evict" /\ worker'[w].request = r /\ worker'[w].out = worker[w].out
  BY <1>1, WorkerMoves
<1>6. QED
  BY <1>1, <1>4, <1>5, WorkerGoesOn

\* What is over the limit goes, the least recently used first.
LEMMA EvictStep ==
  ASSUME StackInv, NEW w \in Workers, Stack!Evict(w)
  PROVE  StackInv'
<1>1. /\ worker[w].at = "evict" /\ UNCHANGED <<config, caller>> /\ StackType
      /\ store \in Seq(EarnedEntries(config)) /\ "done" \in Places
      /\ worker \in [Workers -> [at : Places, request : Requests, out : Stack!Outcomes]]
      /\ Earned(worker[w].out, worker[w].request, config)
  BY DEF Stack!Evict, StackInv, StackType, AllEarned, Places
<1>2. CASE Len(store) > MaxEntries
  <2>1. store' = Tail(store) /\ worker' = worker
    BY <1>2 DEF Stack!Evict
  <2>2. store # << >>
    BY <1>1, <1>2, StackBasics, EmptySeq
  <2>3. store' \in Seq(EarnedEntries(config))
    BY <1>1, <2>1, <2>2, HeadTailProperties
  <2>4. QED
    BY <1>1, <2>1, <2>3, WorkerGoesOn
<1>3. CASE ~ (Len(store) > MaxEntries)
  <2>1. Stack!Move(w, "done") /\ store' = store
    BY <1>3 DEF Stack!Evict
  <2>2. /\ worker' \in [Workers -> [at : Places, request : Requests, out : Stack!Outcomes]]
        /\ \A x \in Workers \ {w} : worker'[x] = worker[x]
        /\ worker'[w].at = "done" /\ worker'[w].request = worker[w].request /\ worker'[w].out = worker[w].out
    BY <1>1, <2>1, WorkerMoves
  <2>3. QED
    BY <1>1, <2>1, <2>2, WorkerGoesOn
<1>4. QED
  BY <1>2, <1>3

\* A call takes an idle worker for itself.
LEMMA CallStep ==
  ASSUME StackInv, NEW c \in Users, NEW r \in Requests, NEW w \in Workers, Stack!Call(c, r, w)
  PROVE  StackInv'
<1> DEFINE Shape == [at : Places, request : Requests, out : Stack!Outcomes]
           Waiting == [waits : Workers \union {Stack!Nobody}, request : Requests, answer : Stack!Outcomes]
<1>1. /\ caller[c].waits = Stack!Nobody /\ worker[w].at = "idle" /\ UNCHANGED <<config, store>>
      /\ worker' = [worker EXCEPT ![w].at = "get", ![w].request = r]
      /\ caller' = [caller EXCEPT ![c].waits = w, ![c].request = r]
      /\ worker \in [Workers -> Shape] /\ caller \in [Users -> Waiting] /\ "get" \in Places
  BY DEF Stack!Call, StackInv, StackType, Places
<1>2. /\ worker[w] \in Shape /\ caller[c] \in Waiting /\ w # Stack!Nobody
  BY <1>1, StackBasics
<1>3. /\ DOMAIN worker'[w] = DOMAIN worker[w] /\ worker'[w].at = "get"
      /\ worker'[w].request = r /\ worker'[w].out = worker[w].out
      /\ DOMAIN worker' = Workers /\ \A x \in Workers \ {w} : worker'[x] = worker[x]
  BY <1>1, <1>2
<1>4. /\ DOMAIN caller'[c] = DOMAIN caller[c] /\ caller'[c].waits = w
      /\ caller'[c].request = r /\ caller'[c].answer = caller[c].answer
      /\ DOMAIN caller' = Users /\ \A d \in Users \ {c} : caller'[d] = caller[d]
  BY <1>1, <1>2
<1>5. worker'[w] = [at |-> "get", request |-> r, out |-> worker[w].out]
  BY <1>1, <1>2, <1>3
<1>6. caller'[c] = [waits |-> w, request |-> r, answer |-> caller[c].answer]
  BY <1>1, <1>2, <1>4
<1>7. worker'[w] \in Shape /\ caller'[c] \in Waiting
  BY <1>1, <1>2, <1>5, <1>6
<1> HIDE DEF Shape, Waiting
<1>8. worker' \in [Workers -> Shape]
  <2>1. (\A x \in Workers : worker'[x] \in Shape) /\ worker' = [x \in Workers |-> worker'[x]]
    BY <1>1, <1>3, <1>7
  <2>2. QED
    BY <2>1
<1>9. caller' \in [Users -> Waiting]
  <2>1. (\A d \in Users : caller'[d] \in Waiting) /\ caller' = [d \in Users |-> caller'[d]]
    BY <1>1, <1>4, <1>7
  <2>2. QED
    BY <2>1
<1>10. StackType'
  BY <1>1, <1>8, <1>9 DEF StackInv, StackType, Shape, Waiting
<1>11. AllEarned'
  <2>1. \A x \in Workers : worker'[x].at \in {"touch", "store", "evict", "done"} =>
          Earned(worker'[x].out, worker'[x].request, config)
    BY <1>3 DEF StackInv, AllEarned
  <2>2. \A d \in Users : caller'[d].waits = Stack!Nobody => Earned(caller'[d].answer, caller'[d].request, config)
    BY <1>2, <1>4 DEF StackInv, AllEarned
  <2>3. QED
    BY <1>1, <2>1, <2>2 DEF AllEarned
<1>12. WorkersAreTheirs'
  <2>1. \A d \in Users \ {c} : caller'[d].waits # w
    BY <1>1, <1>2, <1>4 DEF StackInv, WorkersAreTheirs
  <2>2. \A d \in Users \ {c} : caller'[d].waits # Stack!Nobody => caller'[d].waits \in Workers
    BY <1>1, <1>4 DEF Waiting
  <2>3. QED
    BY <1>2, <1>3, <1>4, <2>1, <2>2 DEF StackInv, WorkersAreTheirs
<1>13. QED
  BY <1>10, <1>11, <1>12 DEF StackInv

\* A caller that is answered waits for nobody, and the worker it waited for, if it is
\* given back, is idle.
LEMMA CallerIsAnswered ==
  ASSUME StackInv, NEW c \in Users, NEW out \in Stack!Outcomes, caller[c].waits # Stack!Nobody,
         Earned(out, caller[c].request, config), Stack!Answer(c, out),
         UNCHANGED <<config, store>>,
         \/ worker' = worker
         \/ worker' = [worker EXCEPT ![caller[c].waits] = Stack!Idle]
  PROVE  StackInv'
<1> DEFINE Waiting == [waits : Workers \union {Stack!Nobody}, request : Requests, answer : Stack!Outcomes]
           Shape == [at : Places, request : Requests, out : Stack!Outcomes]
           w == caller[c].waits
<1>1. /\ caller' = [caller EXCEPT ![c].waits = Stack!Nobody, ![c].answer = out]
      /\ caller \in [Users -> Waiting] /\ worker \in [Workers -> Shape]
  BY DEF Stack!Answer, StackInv, StackType
<1>2. caller[c] \in Waiting /\ w \in Workers
  BY <1>1
<1>3. /\ DOMAIN caller'[c] = DOMAIN caller[c] /\ caller'[c].waits = Stack!Nobody
      /\ caller'[c].request = caller[c].request /\ caller'[c].answer = out
      /\ DOMAIN caller' = Users /\ \A d \in Users \ {c} : caller'[d] = caller[d]
  BY <1>1, <1>2
<1>4. caller'[c] = [waits |-> Stack!Nobody, request |-> caller[c].request, answer |-> out]
  BY <1>1, <1>2, <1>3
<1>5. caller'[c] \in Waiting
  BY <1>2, <1>4
<1>6. Stack!Idle \in Shape /\ Stack!Idle.at = "idle"
  BY StackBasics
<1> HIDE DEF Waiting, Shape, w
<1>7. caller' \in [Users -> Waiting]
  <2>1. (\A d \in Users : caller'[d] \in Waiting) /\ caller' = [d \in Users |-> caller'[d]]
    BY <1>1, <1>3, <1>5
  <2>2. QED
    BY <2>1
<1>8. /\ worker' \in [Workers -> Shape] /\ \A x \in Workers \ {w} : worker'[x] = worker[x]
      /\ worker'[w] = worker[w] \/ worker'[w].at = "idle"
  BY <1>1, <1>2, <1>6 DEF w
<1>9. StackType'
  BY <1>7, <1>8 DEF StackInv, StackType, Waiting, Shape
<1>10. AllEarned'
  <2>1. \A x \in Workers : worker'[x].at \in {"touch", "store", "evict", "done"} =>
          Earned(worker'[x].out, worker'[x].request, config)
    BY <1>8 DEF StackInv, AllEarned
  <2>2. \A d \in Users : caller'[d].waits = Stack!Nobody => Earned(caller'[d].answer, caller'[d].request, config)
    BY <1>3 DEF StackInv, AllEarned
  <2>3. QED
    BY <2>1, <2>2 DEF AllEarned
<1>11. WorkersAreTheirs'
  <2>1. \A d \in Users \ {c} : caller'[d].waits # w
    BY <1>3 DEF StackInv, WorkersAreTheirs, w
  <2>2. \A d \in Users \ {c} : caller'[d].waits # Stack!Nobody => caller'[d].waits \in Workers
    BY <1>1, <1>3 DEF Waiting
  <2>3. QED
    BY <1>3, <1>8, <2>1, <2>2 DEF StackInv, WorkersAreTheirs
<1>12. QED
  BY <1>9, <1>10, <1>11 DEF StackInv

\* A worker that ends in time answers its caller; an exception is a denial.
LEMMA JoinStep ==
  ASSUME StackInv, NEW c \in Users, Stack!Join(c)
  PROVE  StackInv'
<1> DEFINE w == caller[c].waits
           out == IF worker[w].out.effect = "raised" THEN Stack!Denied ELSE worker[w].out
<1>1. /\ w # Stack!Nobody /\ worker[w].at = "done" /\ Stack!Answer(c, out)
      /\ worker' = [worker EXCEPT ![w] = Stack!Idle] /\ UNCHANGED <<config, store>>
  BY DEF Stack!Join
<1>2. /\ w \in Workers /\ worker[w].request = caller[c].request
      /\ worker[w].out \in Stack!Outcomes /\ Earned(worker[w].out, worker[w].request, config)
  BY <1>1 DEF StackInv, StackType, AllEarned, WorkersAreTheirs
<1>3. out \in Stack!Outcomes /\ Earned(out, caller[c].request, config)
  BY <1>2, StackBasics
<1> HIDE DEF out
<1>4. QED
  BY <1>1, <1>3, CallerIsAnswered

\* A deadline that passes is a denial, and the worker goes on unwaited for.
LEMMA TimeOutStep ==
  ASSUME StackInv, NEW c \in Users, Stack!TimeOut(c)
  PROVE  StackInv'
<1> DEFINE out == Stack!Denied
<1>1. caller[c].waits # Stack!Nobody /\ Stack!Answer(c, out) /\ UNCHANGED <<config, store, worker>>
  BY DEF Stack!TimeOut
<1>2. out \in Stack!Outcomes /\ Earned(out, caller[c].request, config)
  BY StackBasics
<1> HIDE DEF out
<1>3. QED
  BY <1>1, <1>2, CallerIsAnswered

\* A worker nobody waits for is given back.
LEMMA AbandonedStep ==
  ASSUME StackInv, NEW w \in Workers, Stack!Abandoned(w)
  PROVE  StackInv'
<1>1. /\ \A c \in Users : caller[c].waits # w /\ UNCHANGED <<config, store, caller>>
      /\ worker' = [worker EXCEPT ![w] = Stack!Idle]
  BY DEF Stack!Abandoned
<1>2. Stack!Idle \in [at : Places, request : Requests, out : Stack!Outcomes] /\ Stack!Idle.at = "idle"
  BY StackBasics
<1>3. UNCHANGED <<config, store, caller>>
  BY DEF Stack!Abandoned
<1>4. /\ worker' \in [Workers -> [at : Places, request : Requests, out : Stack!Outcomes]]
      /\ worker'[w].at = "idle" /\ \A x \in Workers \ {w} : worker'[x] = worker[x]
  BY <1>1, <1>2 DEF StackInv, StackType
<1>5. StackType'
  BY <1>3, <1>4 DEF StackInv, StackType
<1>6. AllEarned'
  BY <1>3, <1>4 DEF StackInv, AllEarned
<1>7. WorkersAreTheirs'
  BY <1>1, <1>3, <1>4 DEF StackInv, StackType, WorkersAreTheirs
<1>8. QED
  BY <1>5, <1>6, <1>7 DEF StackInv

\* What was earned under a configuration stays so under the ones after it.
LEMMA ResetStep ==
  ASSUME StackInv, Stack!Reset
  PROVE  StackInv'
<1>1. config \in 1..Len(Configs) /\ config' = config + 1 /\ config < Len(Configs)
      /\ UNCHANGED <<store, worker, caller>> /\ Len(Configs) \in Nat
  BY StackBasics DEF Stack!Reset, StackInv, StackType
<1>2. \A out, r : Earned(out, r, config) => Earned(out, r, config')
  BY <1>1 DEF Earned
<1>3. store' \in Seq(EarnedEntries(config'))
  <2>1. EarnedEntries(config) \subseteq EarnedEntries(config')
    BY <1>2 DEF EarnedEntries
  <2>2. store \in Seq(EarnedEntries(config))
    BY DEF StackInv, StackType
  <2>3. QED
    BY <1>1, <2>1, <2>2
<1>4. StackType'
  BY <1>1, <1>3 DEF StackInv, StackType
<1>5. AllEarned' /\ WorkersAreTheirs'
  BY <1>1, <1>2 DEF StackInv, AllEarned, WorkersAreTheirs
<1>6. QED
  BY <1>4, <1>5 DEF StackInv

\* Entries grow older, up to what is too old.
LEMMA AgesStep ==
  ASSUME StackInv, Stack!Tick
  PROVE  StackInv'
<1> DEFINE older(i) == [store[i] EXCEPT !.age = IF @ <= Lifetime THEN @ + 1 ELSE @]
<1>1. /\ store \in Seq(EarnedEntries(config)) /\ UNCHANGED <<config, worker, caller>>
      /\ store' = [i \in DOMAIN store |-> older(i)]
  BY DEF Stack!Tick, StackInv, StackType
<1>2. Len(store) \in Nat /\ DOMAIN store = 1..Len(store) /\ \A i \in 1..Len(store) : store[i] \in EarnedEntries(config)
  BY <1>1, ElementOfSeq
<1>3. ASSUME NEW i \in 1..Len(store)
      PROVE  older(i) \in EarnedEntries(config)
  <2>1. store[i] \in [request : Requests, out : Stack!Outcomes, age : 0..Lifetime + 1] /\ Lifetime \in Nat
    BY <1>2, StackBasics DEF EarnedEntries, Entries
  <2>2. /\ older(i).request = store[i].request /\ older(i).out = store[i].out
        /\ older(i) \in [request : Requests, out : Stack!Outcomes, age : 0..Lifetime + 1]
    BY <2>1
  <2>3. Earned(store[i].out, store[i].request, config)
    BY <1>2 DEF EarnedEntries
  <2> HIDE DEF older
  <2>4. QED
    BY <2>2, <2>3 DEF EarnedEntries, Entries
<1> HIDE DEF older
<1>4. store' \in Seq(EarnedEntries(config))
  BY <1>1, <1>2, <1>3
<1>5. StackType' /\ AllEarned' /\ WorkersAreTheirs'
  BY <1>1, <1>4 DEF StackInv, StackType, AllEarned, WorkersAreTheirs
<1>6. QED
  BY <1>5 DEF StackInv

\* Every step of callers, workers and the clock keeps the invariant.
LEMMA StackStep ==
  ASSUME StackInv, [Stack!Next]_(Stack!vars)
  PROVE  StackInv'
<1>1. CASE UNCHANGED Stack!vars
  BY <1>1 DEF Stack!vars, StackInv, StackType, AllEarned, WorkersAreTheirs
<1>2. QED
  BY <1>1, LookupStep, TouchStep, DropStep, EvaluateEnvStep, StoreStep, EvictStep, CallStep, JoinStep,
     TimeOutStep, AbandonedStep, ResetStep, AgesStep DEF Stack!Next

\* Whoever is let through has earned it.
LEMMA AllowsHold == StackInv => Stack!AllowsAreEarned
BY DEF StackInv, AllEarned, Earned, Stack!AllowsAreEarned

------------------------------------------------------------------------------
\* GuardrailCurriculum.

\* What the report of a category has counted and what is left are all there is.
CountsAddUp(c) ==
  LET got == report[c]
      due == tasks[c] * Injections
  IN  /\ got.useless <= got.total /\ got.insecure <= got.total
      /\ pc = "clean" => got.total + todo[c].clean = tasks[c] /\ todo[c].injected = due
      /\ pc = "injected" => got.total + todo[c].injected = tasks[c] + due
      /\ pc \in {"decide", "done"} => got.total = tasks[c] + due

CurriculumInv ==
  /\ tasks \in [Categories -> Nat]
  /\ todo \in [Categories -> [clean : Nat, injected : Nat]]
  /\ report \in [Categories -> [total : Nat, useless : Nat, insecure : Nat]]
  /\ round \in 0..MaxRounds /\ pc \in {"clean", "injected", "decide", "done", "raised"}
  /\ \A c \in Categories : CountsAddUp(c)
  /\ pc = "done" => round = MaxRounds \/ \A c \in Categories : Curriculum!AmplifyTasks[c] = 0

\* A product of naturals is one.
LEMMA ProductIsNatural ==
  ASSUME NEW a \in Nat, NEW b \in Nat
  PROVE  a * b \in Nat
OBVIOUS

\* The invariant holds when the curriculum is made.
LEMMA CurriculumStart == Curriculum!Init => CurriculumInv
<1> SUFFICES ASSUME Curriculum!Init PROVE CurriculumInv
  OBVIOUS
<1>1. /\ tasks \in [Categories -> Nat] /\ pc = "clean" /\ round = 0 /\ MaxRounds \in Nat
      /\ \A c \in Categories : tasks[c] * Injections \in Nat
  BY SideAssumption, ProductIsNatural DEF Curriculum!Init, Curriculum!CurriculumAssumption
<1>2. /\ todo = [c \in Categories |-> [clean |-> tasks[c], injected |-> tasks[c] * Injections]]
      /\ report = [c \in Categories |-> [total |-> 0, useless |-> 0, insecure |-> 0]]
  BY DEF Curriculum!Init, Curriculum!AllOf, Curriculum!Nothing
<1>3. \A c \in Categories : CountsAddUp(c)
  BY <1>1, <1>2 DEF CountsAddUp
<1>4. QED
  BY <1>1, <1>2, <1>3 DEF CurriculumInv

\* An evaluation that is counted is no longer due.
LEMMA EvaluationCounts ==
  ASSUME CurriculumInv, NEW c \in Categories, NEW a \in {0, 1}, NEW b \in {0, 1},
         report' = [report EXCEPT ![c].total = @ + 1, ![c].useless = @ + a, ![c].insecure = @ + b],
         todo' \in [Categories -> [clean : Nat, injected : Nat]],
         \A d \in Categories \ {c} : todo'[d] = todo[d],
         pc = "clean" => todo'[c].clean + 1 = todo[c].clean /\ todo'[c].injected = todo[c].injected,
         pc = "injected" => todo'[c].injected + 1 = todo[c].injected,
         pc \in {"clean", "injected"}, UNCHANGED <<tasks, round, pc>>
  PROVE  CurriculumInv'
<1> DEFINE new == [total |-> report[c].total + 1, useless |-> report[c].useless + a,
                   insecure |-> report[c].insecure + b]
<1>1. /\ report[c] \in [total : Nat, useless : Nat, insecure : Nat]
      /\ report \in [Categories -> [total : Nat, useless : Nat, insecure : Nat]]
      /\ tasks[c] \in Nat /\ todo \in [Categories -> [clean : Nat, injected : Nat]]
      /\ tasks[c] * Injections \in Nat
  BY SideAssumption, ProductIsNatural DEF CurriculumInv, Curriculum!CurriculumAssumption
<1>2. /\ DOMAIN report'[c] = DOMAIN report[c]
      /\ report'[c].total = report[c].total + 1 /\ report'[c].useless = report[c].useless + a
      /\ report'[c].insecure = report[c].insecure + b
  BY <1>1
<1>3. report'[c] = new /\ new \in [total : Nat, useless : Nat, insecure : Nat]
  <2>1. report'[c] = new
    BY <1>1, <1>2
  <2>2. new \in [total : Nat, useless : Nat, insecure : Nat]
    BY <1>1
  <2>3. QED
    BY <2>1, <2>2
<1>4. DOMAIN report' = Categories /\ \A d \in Categories \ {c} : report'[d] = report[d]
  BY <1>1
<1> HIDE DEF new
<1>5. /\ \A d \in Categories : report'[d] \in [total : Nat, useless : Nat, insecure : Nat]
      /\ report' = [d \in Categories |-> report'[d]]
  BY <1>1, <1>3, <1>4
<1>6. CountsAddUp(c)'
  <2> DEFINE due == tasks[c] * Injections
  <2>1. /\ report[c].useless <= report[c].total /\ report[c].insecure <= report[c].total
        /\ pc = "clean" => report[c].total + todo[c].clean = tasks[c] /\ todo[c].injected = due
        /\ pc = "injected" => report[c].total + todo[c].injected = tasks[c] + due
    BY DEF CurriculumInv, CountsAddUp
  <2>2. /\ todo'[c].clean \in Nat /\ todo'[c].injected \in Nat /\ todo[c].clean \in Nat
        /\ todo[c].injected \in Nat /\ due \in Nat /\ tasks[c] \in Nat /\ report[c].total \in Nat
    BY <1>1
  <2> HIDE DEF due
  <2>3. report'[c].useless <= report'[c].total /\ report'[c].insecure <= report'[c].total
    BY <1>1, <1>2, <2>1
  <2>4. /\ pc = "clean" => report'[c].total + todo'[c].clean = tasks[c] /\ todo'[c].injected = due
        /\ pc = "injected" => report'[c].total + todo'[c].injected = tasks[c] + due
    BY <1>2, <2>1, <2>2
  <2>5. QED
    BY <2>3, <2>4 DEF CountsAddUp, due
<1>7. \A d \in Categories \ {c} : CountsAddUp(d)'
  BY <1>4 DEF CountsAddUp, CurriculumInv
<1>8. report' \in [Categories -> [total : Nat, useless : Nat, insecure : Nat]]
  BY <1>5
<1>9. QED
  BY <1>6, <1>7, <1>8 DEF CurriculumInv

\* A task as it is: it is counted, or ends the curriculum.
LEMMA UtilityStep ==
  ASSUME CurriculumInv, NEW c \in Categories, NEW result \in {"expected", "other", "raises"},
         Curriculum!Utility(c, result)
  PROVE  CurriculumInv'
<1>1. CASE result = "raises"
  <2>1. pc' = "raised" /\ UNCHANGED <<tasks, todo, report, round>>
    BY <1>1 DEF Curriculum!Utility
  <2>2. QED
    BY <2>1 DEF CurriculumInv, CountsAddUp
<1>2. CASE result # "raises"
  <2> DEFINE a == IF result = "expected" THEN 0 ELSE 1
  <2>1. /\ pc = "clean" /\ todo[c].clean > 0 /\ UNCHANGED <<tasks, round, pc>>
        /\ todo' = [todo EXCEPT ![c].clean = @ - 1]
    BY <1>2 DEF Curriculum!Utility
  <2>2. report' = [report EXCEPT ![c].total = @ + 1, ![c].useless = @ + a, ![c].insecure = @ + 0]
    BY <1>2 DEF Curriculum!Utility, Curriculum!Count
  <2>3. todo \in [Categories -> [clean : Nat, injected : Nat]]
    BY DEF CurriculumInv
  <2>4. /\ todo' \in [Categories -> [clean : Nat, injected : Nat]]
        /\ \A d \in Categories \ {c} : todo'[d] = todo[d]
        /\ todo'[c].clean + 1 = todo[c].clean /\ todo'[c].injected = todo[c].injected
    BY <2>1, <2>3
  <2>5. a \in {0, 1} /\ 0 \in {0, 1}
    OBVIOUS
  <2> HIDE DEF a
  <2>6. QED
    BY <2>1, <2>2, <2>4, <2>5, EvaluationCounts
<1>3. QED
  BY <1>1, <1>2

\* An injected task is counted.
LEMMA SecurityStep ==
  ASSUME CurriculumInv, NEW c \in Categories, NEW useful \in BOOLEAN,
         NEW result \in {"resisted", "bypassed", "crashed"}, Curriculum!Security(c, useful, result)
  PROVE  CurriculumInv'
<1> DEFINE a == IF useful THEN 0 ELSE 1
           b == IF result # "bypassed" THEN 0 ELSE 1
<1>1. /\ pc = "injected" /\ todo[c].injected > 0 /\ UNCHANGED <<tasks, round, pc>>
      /\ todo' = [todo EXCEPT ![c].injected = @ - 1]
  BY DEF Curriculum!Security
<1>2. report' = [report EXCEPT ![c].total = @ + 1, ![c].useless = @ + a, ![c].insecure = @ + b]
  BY DEF Curriculum!Security, Curriculum!Count
<1>3. todo \in [Categories -> [clean : Nat, injected : Nat]]
  BY DEF CurriculumInv
<1>4. /\ todo' \in [Categories -> [clean : Nat, injected : Nat]]
      /\ \A d \in Categories \ {c} : todo'[d] = todo[d]
      /\ todo'[c].injected + 1 = todo[c].injected
  BY <1>1, <1>3
<1>5. a \in {0, 1} /\ b \in {0, 1}
  OBVIOUS
<1> HIDE DEF a, b
<1>6. QED
  BY <1>1, <1>2, <1>4, <1>5, EvaluationCounts

\* A benchmark goes on when nothing of its phase is left.
LEMMA NextPhaseStep ==
  ASSUME CurriculumInv, Curriculum!NextPhase
  PROVE  CurriculumInv'
<1>1. /\ UNCHANGED <<tasks, todo, report, round>>
      /\ \A c \in Categories : tasks[c] \in Nat /\ todo[c] \in [clean : Nat, injected : Nat]
                               /\ report[c] \in [total : Nat, useless : Nat, insecure : Nat]
                               /\ tasks[c] * Injections \in Nat
  BY SideAssumption, ProductIsNatural DEF Curriculum!NextPhase, CurriculumInv, Curriculum!CurriculumAssumption
<1>2. \/ /\ pc = "clean" /\ \A c \in Categories : todo[c].clean = 0
         /\ pc' = "injected"
      \/ /\ pc = "injected" /\ \A c \in Categories : todo[c].injected = 0
         /\ pc' = "decide"
  BY DEF Curriculum!NextPhase
<1>3. \A c \in Categories : CountsAddUp(c)'
  BY <1>1, <1>2 DEF CurriculumInv, CountsAddUp
<1>4. QED
  BY <1>1, <1>2, <1>3 DEF CurriculumInv

\* The last round ends it, and so does one in which nothing was weak; any other
\* starts a benchmark of all the tasks there are now.
LEMMA DecideStep ==
  ASSUME CurriculumInv, Curriculum!Decide
  PROVE  CurriculumInv'
<1> DEFINE more == Curriculum!AmplifyTasks
<1>1. CASE round = MaxRounds \/ \A c \in Categories : more[c] = 0
  <2>1. pc = "decide" /\ pc' = "done" /\ UNCHANGED <<tasks, todo, report, round>>
    BY <1>1 DEF Curriculum!Decide
  <2>2. Curriculum!AmplifyTasks' = Curriculum!AmplifyTasks
    BY <2>1 DEF Curriculum!AmplifyTasks, Curriculum!WeakCategories
  <2>3. QED
    BY <1>1, <2>1, <2>2 DEF CurriculumInv, CountsAddUp
<1>2. CASE ~ (round = MaxRounds \/ \A c \in Categories : more[c] = 0)
  <2>1. /\ tasks' = [c \in Categories |-> tasks[c] + more[c]]
        /\ todo' = [c \in Categories |-> [clean |-> tasks'[c], injected |-> tasks'[c] * Injections]]
        /\ report' = [c \in Categories |-> [total |-> 0, useless |-> 0, insecure |-> 0]]
        /\ round' = round + 1 /\ pc' = "clean"
    BY <1>2 DEF Curriculum!Decide, Curriculum!Benchmarked, Curriculum!AllOf, Curriculum!Nothing
  <2>2. /\ MaxRounds \in Nat /\ Factor \in Nat /\ Injections \in Nat
        /\ tasks \in [Categories -> Nat] /\ round \in 0..MaxRounds
    BY SideAssumption DEF CurriculumInv, Curriculum!CurriculumAssumption
  <2>3. \A c \in Categories : more[c] \in Nat
    BY <2>2, ProductIsNatural DEF Curriculum!AmplifyTasks
  <2> HIDE DEF more
  <2>4. tasks' \in [Categories -> Nat]
    BY <2>1, <2>2, <2>3
  <2>5. \A c \in Categories : tasks'[c] \in Nat /\ tasks'[c] * Injections \in Nat
    BY <2>2, <2>4, ProductIsNatural
  <2>6. \A c \in Categories : CountsAddUp(c)'
    BY <2>1, <2>5 DEF CountsAddUp
  <2>7. round' \in 0..MaxRounds
    BY <1>2, <2>1, <2>2
  <2>8. QED
    BY <2>1, <2>4, <2>5, <2>6, <2>7 DEF CurriculumInv
<1>3. QED
  BY <1>1, <1>2

\* Every step of the curriculum keeps the invariant.
LEMMA CurriculumStep ==
  ASSUME CurriculumInv, [Curriculum!Next]_(Curriculum!vars)
  PROVE  CurriculumInv'
<1>1. CASE UNCHANGED Curriculum!vars
  <2>1. Curriculum!AmplifyTasks' = Curriculum!AmplifyTasks
    BY <1>1 DEF Curriculum!vars, Curriculum!AmplifyTasks, Curriculum!WeakCategories
  <2>2. QED
    BY <1>1, <2>1 DEF Curriculum!vars, CurriculumInv, CountsAddUp
<1>2. QED
  BY <1>1, UtilityStep, SecurityStep, NextPhaseStep, DecideStep DEF Curriculum!Next

\* A category whose score is below the threshold has tasks to multiply.
LEMMA ReportsHold == CurriculumInv => Curriculum!ReportsAreFinal
<1> SUFFICES ASSUME CurriculumInv, pc = "done", NEW c \in Categories
             PROVE  /\ report[c].total = tasks[c] * (1 + Injections)
                    /\ round < MaxRounds /\ Factor > 0 =>
                         /\ 10 * (report[c].total - report[c].useless) >= Tenths * report[c].total
                         /\ 10 * (report[c].total - report[c].insecure) >= Tenths * report[c].total
  BY DEF Curriculum!ReportsAreFinal
<1>1. /\ tasks[c] \in Nat /\ Injections \in Nat /\ Factor \in Nat /\ Tenths \in Nat /\ MaxRounds \in Nat
      /\ report[c] \in [total : Nat, useless : Nat, insecure : Nat] /\ round \in 0..MaxRounds
  BY SideAssumption DEF CurriculumInv, Curriculum!CurriculumAssumption
<1>2. report[c].total = tasks[c] + tasks[c] * Injections /\ report[c].useless <= report[c].total
      /\ report[c].insecure <= report[c].total
  BY DEF CurriculumInv, CountsAddUp
<1>3. report[c].total = tasks[c] * (1 + Injections)
  BY <1>1, <1>2
<1>4. ASSUME round < MaxRounds, Factor > 0, NEW bad \in Nat, bad <= report[c].total,
             Curriculum!Below(bad, report[c].total), c \in Curriculum!WeakCategories
      PROVE  FALSE
  <2>1. tasks[c] * Factor = 0
    BY <1>1, <1>4 DEF CurriculumInv, Curriculum!AmplifyTasks
  <2>2. tasks[c] = 0
    BY <1>1, <1>4, <2>1
  <2>3. report[c].total = 0 /\ bad = 0
    BY <1>1, <1>2, <1>4, <2>2
  <2>4. QED
    BY <1>1, <1>4, <2>3 DEF Curriculum!Below
<1>5. ASSUME round < MaxRounds, Factor > 0
      PROVE  ~ Curriculum!Below(report[c].useless, report[c].total)
             /\ ~ Curriculum!Below(report[c].insecure, report[c].total)
  BY <1>1, <1>2, <1>4, <1>5 DEF Curriculum!WeakCategories
<1>6. Tenths * report[c].total \in Nat
  BY <1>1, ProductIsNatural
<1>7. QED
  BY <1>1, <1>2, <1>3, <1>5, <1>6 DEF Curriculum!Below

------------------------------------------------------------------------------
\* GuardrailRegistry.

\* What was made is the id asked for, one of its name and version, or the first of
\* the newest versions there were.
MadeRight(m) ==
  \/ m.got = m.asked /\ Registry!Known(m.asked)
  \/ m.got.name = m.asked.name /\ m.got.version = m.asked.version
  \/ /\ Registry!Versionless(m.asked)
     /\ \E k \in 1..Len(specs) :
          /\ specs[k] = m.got /\ Registry!BeginsLike(specs[k], m.asked)
          /\ \A j \in 1..k - 1 : Registry!BeginsLike(specs[j], m.asked) => specs[j].version < specs[k].version

RegistryInv ==
  /\ specs \in Seq(Registry!Ids)
  /\ made \in Seq([asked : Registry!Ids, got : Registry!Ids])
  /\ \A i \in 1..Len(made) : MadeRight(made[i])


\* The newest version is one of the id's, and the first of those as new.
LEMMA NewestIsFirst ==
  ASSUME RegistryInv, NEW id, Registry!Versions(id) # {}
  PROVE  LET S == Registry!Versions(id)
             n == Registry!Newest(S)
         IN  /\ n \in S /\ n \in 1..Len(specs)
             /\ \A j \in S : specs[j].version <= specs[n].version
             /\ \A j \in S : j < n => specs[j].version < specs[n].version
<1> DEFINE S == Registry!Versions(id)
           new == {specs[j].version : j \in S}
<1>1. /\ S \subseteq 1..Len(specs) /\ Len(specs) \in Nat
      /\ \A j \in S : specs[j].version \in 1..MaxVersion
  <2>1. DOMAIN specs = 1..Len(specs) /\ Len(specs) \in Nat /\ \A j \in 1..Len(specs) : specs[j] \in Registry!Ids
    BY ElementOfSeq DEF RegistryInv
  <2>2. \A j \in S : specs[j].version # 0
    BY DEF Registry!Versions, Registry!BeginsLike, Registry!NoVersion
  <2>3. S \subseteq 1..Len(specs)
    BY <2>1 DEF Registry!Versions
  <2>4. MaxVersion \in Nat
    BY SideAssumption DEF Registry!NamesAssumption
  <2> HIDE DEF S
  <2>5. \A j \in 1..Len(specs) : specs[j].version \in 0..MaxVersion
    BY <2>1 DEF Registry!Ids
  <2>6. ASSUME NEW j \in S
        PROVE  specs[j].version \in 1..MaxVersion
    BY <2>2, <2>3, <2>4, <2>5
  <2>7. QED
    BY <2>1, <2>3, <2>6
<1> HIDE DEF S
<1>2. MaxVersion \in Nat /\ new \in SUBSET (1..MaxVersion) /\ new # {}
  BY <1>1, SideAssumption DEF Registry!NamesAssumption, S
<1>3. PICK top \in new : \A v \in new : v <= top
  BY <1>2, LastPosition
<1> DEFINE F == {j \in S : specs[j].version = top}
<1>4. F \subseteq Nat /\ F # {}
  <2>1. PICK j \in S : top = specs[j].version
    BY <1>3
  <2>2. j \in F
    BY <2>1
  <2>3. F \subseteq S /\ 1..Len(specs) \subseteq Nat
    BY <1>1
  <2>4. QED
    BY <1>1, <2>2, <2>3
<1>5. PICK n \in F : \A j \in F : n <= j
  BY <1>4, LeastNatural
<1>6. /\ n \in S /\ \A j \in S : specs[j].version <= specs[n].version
      /\ \A j \in S : j < n => specs[j].version < specs[n].version
  <2>1. n \in S /\ specs[n].version = top
    BY <1>5
  <2>2. \A j \in S : specs[j].version <= top
    BY <1>3
  <2>3. ASSUME NEW j \in S, j < n
        PROVE  specs[j].version # top
    <3>1. j \in Nat /\ n \in Nat
      BY <1>1, <2>1
    <3>2. ~ (n <= j)
      BY <2>3, <3>1
    <3>3. QED
      BY <1>5, <3>2
  <2>4. \A j \in S : specs[j].version \in Int
    BY <1>1
  <2> HIDE DEF new, F
  <2>5. QED
    BY <2>1, <2>2, <2>3, <2>4
<1>7. /\ Registry!Newest(S) \in S
      /\ \A j \in S : specs[j].version <= specs[Registry!Newest(S)].version
      /\ \A j \in S : j < Registry!Newest(S) => specs[j].version < specs[Registry!Newest(S)].version
  BY <1>6 DEF Registry!Newest
<1>8. QED
  BY <1>1, <1>7 DEF S

\* What an id resolves to is right for it.
LEMMA ResolvesRight ==
  ASSUME RegistryInv, NEW id \in Registry!Ids, NEW got \in Registry!ResolveId(id)
  PROVE  /\ got \in Registry!Ids
         /\ \/ got = id /\ Registry!Known(id)
            \/ got.name = id.name /\ got.version = id.version
            \/ /\ ~ Registry!Known(id) /\ Registry!Versionless(id) /\ Registry!Versions(id) # {}
               /\ got = specs[Registry!Newest(Registry!Versions(id))]
<1>1. DOMAIN specs = 1..Len(specs) /\ Len(specs) \in Nat /\ \A j \in 1..Len(specs) : specs[j] \in Registry!Ids
  BY ElementOfSeq DEF RegistryInv
<1>2. CASE Registry!Known(id)
  BY <1>2 DEF Registry!ResolveId
<1>3. CASE ~ Registry!Known(id) /\ \E i \in DOMAIN specs : Registry!Named(id) = {i}
  <2>1. PICK i \in Registry!Named(id) : got = specs[i]
    BY <1>3 DEF Registry!ResolveId
  <2>2. QED
    BY <1>1, <2>1 DEF Registry!Named
<1>4. CASE ~ Registry!Known(id) /\ ~ \E i \in DOMAIN specs : Registry!Named(id) = {i}
  <2>1. /\ Registry!Versionless(id) /\ Registry!Versions(id) # {}
        /\ got = specs[Registry!Newest(Registry!Versions(id))]
    BY <1>4 DEF Registry!ResolveId
  <2>2. Registry!Newest(Registry!Versions(id)) \in 1..Len(specs)
    BY <2>1, NewestIsFirst
  <2>3. QED
    BY <1>1, <1>4, <2>1, <2>2
<1>5. QED
  BY <1>2, <1>3, <1>4

\* A registration keeps what is right: the specs there are keep their places.
LEMMA RegisterStep ==
  ASSUME RegistryInv, NEW id \in Registry!Ids, Registry!Register(id)
  PROVE  RegistryInv'
<1>1. specs' = Append(specs, id) /\ made' = made /\ specs \in Seq(Registry!Ids)
  BY DEF Registry!Register, RegistryInv
<1>2. /\ specs' \in Seq(Registry!Ids) /\ Len(specs') = Len(specs) + 1 /\ Len(specs) \in Nat
      /\ DOMAIN specs = 1..Len(specs) /\ DOMAIN specs' = 1..Len(specs')
      /\ \A i \in 1..Len(specs) : specs'[i] = specs[i]
  BY <1>1, AppendProperties
<1>3. \A x : Registry!Known(x) => Registry!Known(x)'
  BY <1>2 DEF Registry!Known
<1>4. ASSUME NEW m, MadeRight(m)
      PROVE  MadeRight(m)'
  BY <1>2, <1>3, <1>4 DEF MadeRight, Registry!BeginsLike, Registry!Versionless
<1>5. QED
  BY <1>1, <1>2, <1>4 DEF RegistryInv

\* What is made is right when it is made.
LEMMA MakeStep ==
  ASSUME RegistryInv, NEW id \in Registry!Ids, Registry!Make(id)
  PROVE  RegistryInv'
<1>1. PICK got \in Registry!ResolveId(id) : made' = <<[asked |-> id, got |-> got]>>
  BY DEF Registry!Make
<1> DEFINE m == [asked |-> id, got |-> got]
<1>2. specs' = specs
  BY DEF Registry!Make
<1>3. got \in Registry!Ids
  BY ResolvesRight
<1>4. MadeRight(m)
  <2>1. CASE got = id /\ Registry!Known(id)
    BY <2>1 DEF MadeRight
  <2>2. CASE got.name = id.name /\ got.version = id.version
    BY <2>2 DEF MadeRight
  <2>3. CASE /\ Registry!Versionless(id) /\ Registry!Versions(id) # {}
             /\ got = specs[Registry!Newest(Registry!Versions(id))]
    <3> DEFINE n == Registry!Newest(Registry!Versions(id))
    <3>1. /\ n \in Registry!Versions(id) /\ n \in 1..Len(specs)
          /\ \A j \in Registry!Versions(id) : j < n => specs[j].version < specs[n].version
      BY <2>3, NewestIsFirst
    <3>2. Len(specs) \in Nat /\ DOMAIN specs = 1..Len(specs)
      BY DEF RegistryInv
    <3> HIDE DEF n
    <3>3. /\ Registry!BeginsLike(specs[n], id)
          /\ \A j \in 1..n - 1 : Registry!BeginsLike(specs[j], id) => specs[j].version < specs[n].version
      BY <3>1, <3>2 DEF Registry!Versions
    <3>4. QED
      BY <2>3, <3>1, <3>3 DEF MadeRight, n
  <2>4. QED
    BY <2>1, <2>2, <2>3, ResolvesRight
<1>5. MadeRight(m)'
  BY <1>2, <1>4 DEF MadeRight, Registry!Known, Registry!BeginsLike, Registry!Versionless
<1>6. m \in [asked : Registry!Ids, got : Registry!Ids] /\ made' = <<m>>
  BY <1>1, <1>3
<1> HIDE DEF m
<1>7. /\ made' \in Seq([asked : Registry!Ids, got : Registry!Ids])
      /\ \A i \in 1..Len(made') : made'[i] = m
  BY <1>6
<1>8. QED
  BY <1>2, <1>5, <1>7 DEF RegistryInv

\* Every step of the registry keeps the invariant.
LEMMA RegistryStep ==
  ASSUME RegistryInv, [Registry!Next]_(Registry!vars)
  PROVE  RegistryInv'
<1>1. CASE UNCHANGED Registry!vars
  BY <1>1 DEF Registry!vars, RegistryInv, MadeRight, Registry!Known, Registry!BeginsLike, Registry!Versionless
<1>2. QED
  BY <1>1, RegisterStep, MakeStep DEF Registry!Next

\* The invariant holds of an empty registry.
LEMMA RegistryStart == Registry!Init => RegistryInv
BY DEF Registry!Init, RegistryInv

\* Of what was made and what the id resolves to now, neither is older unless it has
\* the id or the name that was asked for.
LEMMA MadeHolds == RegistryInv => Registry!MadeStays
<1> SUFFICES ASSUME RegistryInv, NEW i \in DOMAIN made, NEW again \in Registry!ResolveId(made[i].asked)
             PROVE  \/ again = made[i].got
                    \/ Registry!Versionless(made[i].asked) /\ again.version > made[i].got.version
                    \/ again = made[i].asked
                    \/ again.name = made[i].asked.name /\ again.version = made[i].asked.version
                    \/ made[i].got.name = made[i].asked.name /\ made[i].got.version = made[i].asked.version
  BY DEF Registry!MadeStays
<1> DEFINE id == made[i].asked
           got == made[i].got
           n == Registry!Newest(Registry!Versions(id))
<1>1. made[i] \in [asked : Registry!Ids, got : Registry!Ids] /\ MadeRight(made[i])
  <2>1. made \in Seq([asked : Registry!Ids, got : Registry!Ids]) /\ \A k \in 1..Len(made) : MadeRight(made[k])
    BY DEF RegistryInv
  <2>2. i \in 1..Len(made)
    BY <2>1
  <2>3. QED
    BY <2>1, <2>2, ElementOfSeq
<1>2. id \in Registry!Ids /\ got \in Registry!Ids
  BY <1>1
<1>3. \/ again = id
      \/ again.name = id.name /\ again.version = id.version
      \/ /\ ~ Registry!Known(id) /\ Registry!Versionless(id) /\ Registry!Versions(id) # {}
         /\ again = specs[n]
  BY <1>2, ResolvesRight
<1>4. ASSUME ~ Registry!Known(id), Registry!Versionless(id), Registry!Versions(id) # {}, again = specs[n],
             ~ (got.name = id.name /\ got.version = id.version)
      PROVE  again = got \/ again.version > got.version
  <2>1. PICK k \in 1..Len(specs) :
          /\ specs[k] = got /\ Registry!BeginsLike(specs[k], id)
          /\ \A j \in 1..k - 1 : Registry!BeginsLike(specs[j], id) => specs[j].version < specs[k].version
    BY <1>1, <1>4 DEF MadeRight
  <2>2. /\ n \in Registry!Versions(id) /\ n \in 1..Len(specs)
        /\ \A j \in Registry!Versions(id) : specs[j].version <= specs[n].version
        /\ \A j \in Registry!Versions(id) : j < n => specs[j].version < specs[n].version
    BY <1>4, NewestIsFirst
  <2>3. /\ Len(specs) \in Nat /\ DOMAIN specs = 1..Len(specs)
        /\ \A j \in 1..Len(specs) : specs[j].version \in Int
    <3>1. \A j \in 1..Len(specs) : specs[j] \in Registry!Ids
      BY ElementOfSeq DEF RegistryInv
    <3>2. QED
      BY <3>1 DEF RegistryInv, Registry!Ids
  <2>4. k \in Registry!Versions(id) /\ Registry!BeginsLike(specs[n], id)
    BY <2>1, <2>2, <2>3 DEF Registry!Versions
  <2> HIDE DEF n, got, id
  <2>5. CASE n = k
    BY <1>4, <2>1, <2>5
  <2>6. CASE n # k
    BY <1>4, <2>1, <2>2, <2>3, <2>4, <2>6
  <2>7. QED
    BY <2>5, <2>6
<1>5. QED
  BY <1>3, <1>4

------------------------------------------------------------------------------
\* GuardrailPipeline.

PipelineInv == stages \in Seq(RBACs \union ABACs)

\* A pipeline begins without stages ...
LEMMA PipelineStart == Pipeline!Init => PipelineInv
BY EmptySeq DEF Pipeline!Init, PipelineInv

\* ... and gets environments only.
LEMMA PipelineStep ==
  ASSUME PipelineInv, [Pipeline!Next]_stages
  PROVE  PipelineInv'
BY AppendProperties DEF PipelineInv, Pipeline!Next, Pipeline!AddStage


\* A stage is an environment, and its space has sets and integer bounds in order.
LEMMA StagesAreKnown ==
  ASSUME PipelineInv, NEW i \in DOMAIN stages
  PROVE  \/ stages[i] \in RBACs /\ stages[i].kind = "rbac"
         \/ stages[i] \in ABACs /\ stages[i].kind = "abac" /\ stages[i].rules \in Seq(Pipeline!Rules)
<1>1. stages[i] \in RBACs \union ABACs
  BY ElementOfSeq DEF PipelineInv
<1>2. QED
  BY <1>1, SideAssumption DEF Pipeline!GuardrailAssumption

\* The rule whose bound is written last is one of the rules that compare.
LEMMA LastOfComparisons ==
  ASSUME NEW rules \in Seq(Pipeline!Rules), Pipeline!Comparisons(rules) # {}
  PROVE  /\ Pipeline!LastComparison(rules) \in Pipeline!Rules
         /\ Pipeline!LastComparison(rules).op \in {">=", ">", "<=", "<"}
         /\ \E i \in DOMAIN rules : Pipeline!LastComparison(rules) = rules[i]
<1> DEFINE S == Pipeline!Comparisons(rules)
           last == CHOOSE i \in S : \A j \in S : j <= i
<1>1. Len(rules) \in Nat /\ DOMAIN rules = 1..Len(rules) /\ \A i \in 1..Len(rules) : rules[i] \in Pipeline!Rules
  BY ElementOfSeq
<1>2. S \in SUBSET (1..Len(rules))
  BY <1>1 DEF Pipeline!Comparisons
<1>3. \E i \in S : \A j \in S : j <= i
  <2> HIDE DEF S
  <2>1. S # {}
    BY DEF S
  <2>2. QED
    BY <1>1, <1>2, <2>1, LastPosition
<1>4. last \in S
  BY <1>3
<1>5. Pipeline!LastComparison(rules) = rules[last]
  BY DEF Pipeline!LastComparison
<1> HIDE DEF last
<1>6. QED
  BY <1>1, <1>4, <1>5 DEF Pipeline!Comparisons

\* A space that rules declare is an interval within the widest bounds.
LEMMA BoundsAreBuilt ==
  ASSUME NEW rules \in Seq(Pipeline!Rules)
  PROVE  /\ Pipeline!BuildSpace(rules).low \in Lowest..Highest
         /\ Pipeline!BuildSpace(rules).high \in Lowest..Highest
         /\ Pipeline!BuildSpace(rules).low <= Pipeline!BuildSpace(rules).high
<1>1. CASE Pipeline!Comparisons(rules) = {}
  BY <1>1, SideAssumption DEF Pipeline!BuildSpace, Pipeline!Open, Pipeline!GuardrailAssumption
<1>2. CASE Pipeline!Comparisons(rules) # {}
  <2> DEFINE last == Pipeline!LastComparison(rules)
  <2>1. last.value \in Lowest..Highest
    BY <1>2, LastOfComparisons DEF Pipeline!Rules
  <2>2. Pipeline!BuildSpace(rules) \in {[low |-> last.value, high |-> Highest],
                                        [low |-> Lowest, high |-> last.value]}
    BY <1>2 DEF Pipeline!BuildSpace
  <2> HIDE DEF last
  <2>3. QED
    BY <2>1, <2>2, SideAssumption DEF Pipeline!GuardrailAssumption
<1>3. QED
  BY <1>1, <1>2

\* A value that rules which only deny let through is in the space they declare, and
\* none is let through without one when there is a bound.
LEMMA DeniersKeepTheirSpace ==
  ASSUME NEW rules \in Seq(Pipeline!Rules), NEW e, e.rules = rules,
         NEW request \in Pipeline!EvalRequests, Pipeline!AbacAllows(e, request),
         \A i \in DOMAIN rules : rules[i].effect # "allow"
  PROVE  \/ Pipeline!BuildSpace(rules) = Pipeline!Open
         \/ /\ request.value \in Values
            /\ request.value \in Pipeline!BuildSpace(rules).low..Pipeline!BuildSpace(rules).high
<1> DEFINE violated == {i \in DOMAIN rules : request.value = NoValue
                                             \/ ~ Pipeline!CheckRule(rules[i], request.value)}
<1>1. violated = {}
  <2>1. SUFFICES ASSUME violated # {} PROVE FALSE
    OBVIOUS
  <2>2. /\ Len(rules) \in Nat /\ violated \subseteq 1..Len(rules)
    BY DEF violated
  <2>3. violated \subseteq Nat
    BY <2>2
  <2>4. PICK m \in violated : \A j \in violated : m <= j
    BY <2>1, <2>3, LeastNatural
  <2> DEFINE first == CHOOSE i \in violated : \A j \in violated : i <= j
  <2>5. first \in violated
    BY <2>4
  <2>6. rules[first].effect = "allow"
    BY <2>1 DEF Pipeline!AbacAllows
  <2>7. QED
    BY <2>5, <2>6
<1>2. CASE Pipeline!Comparisons(rules) = {}
  BY <1>2 DEF Pipeline!BuildSpace
<1>3. CASE Pipeline!Comparisons(rules) # {}
  <2> DEFINE last == Pipeline!LastComparison(rules)
  <2>1. PICK i \in DOMAIN rules : last = rules[i]
    BY <1>3, LastOfComparisons
  <2>2. request.value # NoValue /\ Pipeline!CheckRule(last, request.value)
    BY <1>1, <2>1
  <2>3. /\ request.value \in Values /\ request.value \in Lowest..Highest
        /\ last.value \in Lowest..Highest /\ last.op \in {">=", ">", "<=", "<"}
    BY <1>3, <2>2, LastOfComparisons, SideAssumption
       DEF Pipeline!EvalRequests, Pipeline!Rules, Pipeline!GuardrailAssumption
  <2>4. IF last.op \in {">=", ">"} THEN last.value <= request.value ELSE request.value <= last.value
    BY <2>2, <2>3, SideAssumption DEF Pipeline!CheckRule, Pipeline!GuardrailAssumption
  <2>5. Pipeline!BuildSpace(rules) =
          IF last.op \in {">=", ">"} THEN [low |-> last.value, high |-> Highest]
          ELSE [low |-> Lowest, high |-> last.value]
    BY <1>3 DEF Pipeline!BuildSpace
  <2> HIDE DEF last
  <2>6. QED
    BY <2>3, <2>4, <2>5, SideAssumption DEF Pipeline!GuardrailAssumption
<1>4. QED
  BY <1>2, <1>3

\* In either mode that needs every stage, a pipeline allows what every stage does.
LEMMA EveryStageAllows ==
  ASSUME PipelineInv, NEW request, NEW mode \in {"first_deny", "all"},
         Pipeline!Evaluate(mode, request).allow
  PROVE  \A i \in DOMAIN stages : Pipeline!Allows(stages[i], request)
<1> DEFINE allowed == {i \in DOMAIN stages : Pipeline!Allows(stages[i], request)}
           denied == DOMAIN stages \ allowed
           first == CHOOSE i \in denied : \A j \in denied : i <= j
           ran == IF mode = "first_deny" /\ denied # {} THEN 1..first ELSE DOMAIN stages
<1>1. ran \subseteq allowed
  BY DEF Pipeline!Evaluate
<1>2. CASE ~ (mode = "first_deny" /\ denied # {})
  BY <1>1, <1>2
<1>3. CASE mode = "first_deny" /\ denied # {}
  <2>1. DOMAIN stages \subseteq Nat /\ \A i \in DOMAIN stages : i >= 1
    BY DEF PipelineInv
  <2>2. PICK m \in denied : \A j \in denied : m <= j
    <3>1. denied \subseteq Nat /\ denied # {}
      BY <1>3, <2>1
    <3> HIDE DEF denied
    <3>2. QED
      BY <3>1, LeastNatural
  <2>3. first \in denied
    BY <2>2
  <2>4. first \in 1..first
    BY <2>1, <2>3
  <2>5. QED
    BY <1>1, <1>3, <2>3, <2>4
<1>4. QED
  BY <1>2, <1>3

\* Of two sets of agents, actions or patterns that meet where both name some, the
\* intersection constrains what both constrain.
LEMMA MeetIsBoth ==
  ASSUME NEW as, NEW bs, as # {} /\ bs # {} => Pipeline!Meet(as, bs) # {}, NEW x
  PROVE  (Pipeline!Meet(as, bs) # {} => x \in Pipeline!Meet(as, bs)) <=>
           (as # {} => x \in as) /\ (bs # {} => x \in bs)
BY DEF Pipeline!Meet

\* A space's bounds are an interval within the widest ones.
LEMMA SpacesAreBounded ==
  ASSUME PipelineInv, NEW i \in DOMAIN stages
  PROVE  LET space == Pipeline!RequestSpace(stages[i])
         IN  space.low \in Lowest..Highest /\ space.high \in Lowest..Highest /\ space.low <= space.high
<1>1. CASE stages[i].kind = "rbac"
  BY <1>1, SideAssumption DEF Pipeline!RequestSpace, Pipeline!GuardrailAssumption
<1>2. CASE stages[i].kind # "rbac"
  <2>1. stages[i].rules \in Seq(Pipeline!Rules)
    BY <1>2, StagesAreKnown
  <2>2. QED
    BY <1>2, <2>1, BoundsAreBuilt DEF Pipeline!RequestSpace
<1>3. QED
  BY <1>1, <1>2

\* The narrower bounds are those of the intersection, the wider ones hold both intervals.
LEMMA BoundsMeet ==
  ASSUME NEW a \in Int, NEW b \in Int, NEW c \in Int, NEW d \in Int, NEW v
  PROVE  /\ v \in Pipeline!Higher(a, b)..Pipeline!Lower(c, d) <=> v \in a..c /\ v \in b..d
         /\ v \in a..c \/ v \in b..d => v \in Pipeline!Lower(a, b)..Pipeline!Higher(c, d)
BY DEF Pipeline!Higher, Pipeline!Lower

\* Compatible neighbours' intersection contains just what both contain.
LEMMA NeighboursMeet == PipelineInv => Pipeline!IntersectionIsBoth
<1> SUFFICES ASSUME PipelineInv, NEW i \in 1..Len(stages) - 1, Pipeline!Neighbours(i),
                    NEW request \in Pipeline!EvalRequests
             PROVE  LET a == Pipeline!RequestSpace(stages[i])
                        b == Pipeline!RequestSpace(stages[i + 1])
                    IN  Pipeline!InSpace(Pipeline!Intersection(a, b), request) <=>
                          Pipeline!InSpace(a, request) /\ Pipeline!InSpace(b, request)
  BY DEF Pipeline!IntersectionIsBoth
<1> DEFINE a == Pipeline!RequestSpace(stages[i])
           b == Pipeline!RequestSpace(stages[i + 1])
           both == Pipeline!Intersection(a, b)
           v == request.value
<1>1. i \in DOMAIN stages /\ i + 1 \in DOMAIN stages
  BY DEF PipelineInv
<1>2. /\ a.low \in Int /\ a.high \in Int /\ b.low \in Int /\ b.high \in Int
      /\ v = NoValue \/ v \in Int
  <2>1. Lowest..Highest \subseteq Int
    BY SideAssumption DEF Pipeline!GuardrailAssumption
  <2>2. v = NoValue \/ v \in Lowest..Highest
    BY SideAssumption DEF Pipeline!GuardrailAssumption, Pipeline!EvalRequests
  <2>3. QED
    BY <1>1, <2>1, <2>2, SpacesAreBounded
<1>3. Pipeline!IsCompatible(a, b)
  BY DEF Pipeline!Neighbours
<1> HIDE DEF a, b
<1>4. /\ both.agents = Pipeline!Meet(a.agents, b.agents)
      /\ both.actions = Pipeline!Meet(a.actions, b.actions)
      /\ both.low = Pipeline!Higher(a.low, b.low) /\ both.high = Pipeline!Lower(a.high, b.high)
  BY DEF Pipeline!Intersection
<1>5. /\ a.agents # {} /\ b.agents # {} => both.agents # {}
      /\ a.actions # {} /\ b.actions # {} => both.actions # {}
  BY <1>3 DEF Pipeline!IsCompatible
<1> HIDE DEF both
<1>6. (both.agents # {} => request.agent \in both.agents) <=>
        (a.agents # {} => request.agent \in a.agents) /\ (b.agents # {} => request.agent \in b.agents)
  BY <1>4, <1>5, MeetIsBoth
<1>7. (both.actions # {} => request.action \in both.actions) <=>
        (a.actions # {} => request.action \in a.actions) /\ (b.actions # {} => request.action \in b.actions)
  BY <1>4, <1>5, MeetIsBoth
<1>8. (v = NoValue \/ v \in both.low..both.high) <=>
        (v = NoValue \/ v \in a.low..a.high) /\ (v = NoValue \/ v \in b.low..b.high)
  <2>1. v \in Pipeline!Higher(a.low, b.low)..Pipeline!Lower(a.high, b.high) <=>
          v \in a.low..a.high /\ v \in b.low..b.high
    BY <1>2, BoundsMeet
  <2> HIDE DEF v
  <2>2. QED
    BY <1>4, <2>1
<1>9. QED
  BY <1>6, <1>7, <1>8 DEF Pipeline!InSpace, a, b, both

\* The box around two spaces that constrain alike contains what either contains.
LEMMA UnionHolds == PipelineInv => Pipeline!UnionHoldsEither
<1> SUFFICES ASSUME PipelineInv, NEW i \in DOMAIN stages, NEW j \in DOMAIN stages,
                    NEW request \in Pipeline!EvalRequests,
                    LET a == Pipeline!RequestSpace(stages[i])
                        b == Pipeline!RequestSpace(stages[j])
                    IN  /\ (a.agents = {}) = (b.agents = {}) /\ (a.actions = {}) = (b.actions = {})
                        /\ Pipeline!InSpace(a, request) \/ Pipeline!InSpace(b, request)
             PROVE  Pipeline!InSpace(Pipeline!Union(Pipeline!RequestSpace(stages[i]),
                                                    Pipeline!RequestSpace(stages[j])), request)
  BY DEF Pipeline!UnionHoldsEither
<1> DEFINE a == Pipeline!RequestSpace(stages[i])
           b == Pipeline!RequestSpace(stages[j])
           box == Pipeline!Union(a, b)
           v == request.value
<1>1. /\ a.low \in Int /\ a.high \in Int /\ b.low \in Int /\ b.high \in Int
      /\ v = NoValue \/ v \in Int
  <2>1. Lowest..Highest \subseteq Int
    BY SideAssumption DEF Pipeline!GuardrailAssumption
  <2>2. v = NoValue \/ v \in Lowest..Highest
    BY SideAssumption DEF Pipeline!GuardrailAssumption, Pipeline!EvalRequests
  <2>3. QED
    BY <2>1, <2>2, SpacesAreBounded
<1>2. /\ (a.agents = {}) = (b.agents = {}) /\ (a.actions = {}) = (b.actions = {})
      /\ Pipeline!InSpace(a, request) \/ Pipeline!InSpace(b, request)
  OBVIOUS
<1> HIDE DEF a, b
<1>3. /\ box.agents = a.agents \union b.agents /\ box.actions = a.actions \union b.actions
      /\ box.low = Pipeline!Lower(a.low, b.low) /\ box.high = Pipeline!Higher(a.high, b.high)
  BY DEF Pipeline!Union
<1> HIDE DEF box
<1>4. box.agents # {} => request.agent \in box.agents
  BY <1>2, <1>3 DEF Pipeline!InSpace
<1>5. box.actions # {} => request.action \in box.actions
  BY <1>2, <1>3 DEF Pipeline!InSpace
<1>6. v = NoValue \/ v \in box.low..box.high
  <2>1. v = NoValue \/ v \in a.low..a.high \/ v \in b.low..b.high
    BY <1>2 DEF Pipeline!InSpace
  <2>2. v \in a.low..a.high \/ v \in b.low..b.high =>
          v \in Pipeline!Lower(a.low, b.low)..Pipeline!Higher(a.high, b.high)
    BY <1>1, BoundsMeet
  <2> HIDE DEF v
  <2>3. QED
    BY <1>3, <2>1, <2>2
<1>7. QED
  BY <1>4, <1>5, <1>6 DEF Pipeline!InSpace, a, b, box

\* What two stages whose spaces share nothing allow together, their spaces overlook.
LEMMA IncompatibleAllow == PipelineInv => Pipeline!IncompatibleAllowsNothing
<1> SUFFICES ASSUME PipelineInv, NEW i \in 1..Len(stages) - 1, ~ Pipeline!Neighbours(i),
                    NEW request \in Pipeline!EvalRequests, NEW mode \in {"first_deny", "all"},
                    Pipeline!Evaluate(mode, request).allow
             PROVE  Pipeline!Overlooked(stages[i], stages[i + 1], request)
  BY DEF Pipeline!IncompatibleAllowsNothing
<1> DEFINE e == stages[i]
           f == stages[i + 1]
           a == Pipeline!RequestSpace(e)
           b == Pipeline!RequestSpace(f)
<1>1. i \in DOMAIN stages /\ i + 1 \in DOMAIN stages
  BY DEF PipelineInv
<1>2. Pipeline!Allows(e, request) /\ Pipeline!Allows(f, request)
  BY <1>1, EveryStageAllows
<1>3. /\ \/ e \in RBACs /\ e.kind = "rbac"
         \/ e \in ABACs /\ e.kind = "abac" /\ e.rules \in Seq(Pipeline!Rules)
      /\ \/ f \in RBACs /\ f.kind = "rbac"
         \/ f \in ABACs /\ f.kind = "abac" /\ f.rules \in Seq(Pipeline!Rules)
  BY <1>1, StagesAreKnown
<1>4. ~ Pipeline!IsCompatible(a, b)
  BY DEF Pipeline!Neighbours
<1>5. /\ a.low \in Lowest..Highest /\ a.high \in Lowest..Highest
      /\ b.low \in Lowest..Highest /\ b.high \in Lowest..Highest
      /\ a.low <= a.high /\ b.low <= b.high /\ Lowest \in Int /\ Highest \in Int
  BY <1>1, SpacesAreBounded, SideAssumption DEF Pipeline!GuardrailAssumption
<1> HIDE DEF e, f
<1>6. \/ a.agents # {} /\ b.agents # {} /\ a.agents \intersect b.agents = {}
      \/ a.actions # {} /\ b.actions # {} /\ a.actions \intersect b.actions = {}
      \/ a.resources # {} /\ b.resources # {} /\ Pipeline!GlobIntersect(a.resources, b.resources) = {}
      \/ ~ (Pipeline!Higher(a.low, b.low) <= Pipeline!Lower(a.high, b.high))
  <2> HIDE DEF a, b
  <2>1. QED
    BY <1>4 DEF Pipeline!IsCompatible, Pipeline!Intersection, Pipeline!Meet
<1>7. ASSUME NEW x \in {e, f}, x.kind = "rbac"
      PROVE  /\ request.agent \in x.agents /\ request.action \in x.actions
             /\ \E p \in x.resources : Matches(request.resource, p)
  BY <1>2, <1>7 DEF Pipeline!Allows, Pipeline!RbacAllows
<1>8. CASE e.kind = "rbac" /\ f.kind = "rbac"
  <2>1. /\ a.agents = e.agents /\ a.actions = e.actions /\ a.resources = e.resources
        /\ b.agents = f.agents /\ b.actions = f.actions /\ b.resources = f.resources
        /\ a.low = Lowest /\ a.high = Highest /\ b.low = Lowest /\ b.high = Highest
    BY <1>8 DEF Pipeline!RequestSpace
  <2>2. Pipeline!Higher(a.low, b.low) <= Pipeline!Lower(a.high, b.high)
    BY <1>5, <2>1 DEF Pipeline!Higher, Pipeline!Lower
  <2>3. Pipeline!GlobIntersect(e.resources, f.resources) = {}
    BY <1>6, <1>7, <1>8, <2>1, <2>2
  <2>4. PICK p \in e.resources, q \in f.resources : Matches(request.resource, p) /\ Matches(request.resource, q)
    BY <1>7, <1>8
  <2>5. ~ Matches(q, p) /\ ~ Matches(p, q)
    BY <2>3 DEF Pipeline!GlobIntersect
  <2>6. QED
    BY <1>8, <2>4, <2>5 DEF Pipeline!Overlooked, e, f
<1>9. CASE e.kind # f.kind
  <2>1. PICK x \in {e, f} : x.kind = "rbac"
    BY <1>3, <1>9
  <2>2. /\ \/ a.low = Lowest /\ a.high = Highest
           \/ b.low = Lowest /\ b.high = Highest
        /\ a.agents = {} \/ b.agents = {}
        /\ a.resources = {} \/ b.resources = {}
        /\ {a.actions, b.actions} = {{Pipeline!Default}, x.actions}
    <3> HIDE DEF a, b
    <3>1. \/ e.kind = "rbac" /\ f.kind # "rbac" /\ x = e
          \/ f.kind = "rbac" /\ e.kind # "rbac" /\ x = f
      BY <1>3, <1>9, <2>1
    <3>2. CASE e.kind = "rbac" /\ f.kind # "rbac" /\ x = e
      BY <3>2 DEF Pipeline!RequestSpace, a, b
    <3>3. CASE f.kind = "rbac" /\ e.kind # "rbac" /\ x = f
      BY <3>3 DEF Pipeline!RequestSpace, a, b
    <3>4. QED
      BY <3>1, <3>2, <3>3
  <2> HIDE DEF a, b
  <2>3. Pipeline!Higher(a.low, b.low) <= Pipeline!Lower(a.high, b.high)
    BY <1>5, <2>2 DEF Pipeline!Higher, Pipeline!Lower
  <2>4. request.action \in x.actions
    BY <1>7, <2>1
  <2>5. request.action # Pipeline!Default
    BY <1>6, <2>2, <2>3, <2>4
  <2>6. QED
    BY <1>9, <2>5 DEF Pipeline!Overlooked, e, f
<1>10. CASE e.kind = "abac" /\ f.kind = "abac"
  <2>1. /\ a.agents = {} /\ a.actions = {Pipeline!Default} /\ a.resources = {}
        /\ a.low = Pipeline!BuildSpace(e.rules).low /\ a.high = Pipeline!BuildSpace(e.rules).high
    BY <1>10 DEF Pipeline!RequestSpace
  <2>2. /\ b.agents = {} /\ b.actions = {Pipeline!Default} /\ b.resources = {}
        /\ b.low = Pipeline!BuildSpace(f.rules).low /\ b.high = Pipeline!BuildSpace(f.rules).high
    BY <1>10 DEF Pipeline!RequestSpace
  <2> HIDE DEF a, b
  <2>3. ~ (Pipeline!Higher(a.low, b.low) <= Pipeline!Lower(a.high, b.high))
    BY <1>6, <2>1, <2>2
  <2>4. e.rules \in Seq(Pipeline!Rules) /\ f.rules \in Seq(Pipeline!Rules)
    BY <1>3, <1>10
  <2>5. CASE \E x \in {e, f} : \E k \in DOMAIN x.rules : x.rules[k].effect = "allow"
    BY <1>10, <2>5 DEF Pipeline!Overlooked, e, f
  <2>6. CASE \A x \in {e, f} : \A k \in DOMAIN x.rules : x.rules[k].effect # "allow"
    <3>1. Pipeline!AbacAllows(e, request) /\ Pipeline!AbacAllows(f, request)
      BY <1>2, <1>10 DEF Pipeline!Allows
    <3>2. \/ a.low = Lowest /\ a.high = Highest
          \/ request.value \in Values /\ request.value \in a.low..a.high
      BY <2>1, <2>4, <2>6, <3>1, DeniersKeepTheirSpace DEF Pipeline!Open
    <3>3. \/ b.low = Lowest /\ b.high = Highest
          \/ request.value \in Values /\ request.value \in b.low..b.high
      BY <2>2, <2>4, <2>6, <3>1, DeniersKeepTheirSpace DEF Pipeline!Open
    <3>4. Pipeline!Higher(a.low, b.low) <= Pipeline!Lower(a.high, b.high)
      BY <1>5, <3>2, <3>3 DEF Pipeline!Higher, Pipeline!Lower
    <3>5. QED
      BY <2>3, <3>4
  <2>7. QED
    BY <2>5, <2>6
<1>11. QED
  BY <1>3, <1>8, <1>9, <1>10

------------------------------------------------------------------------------
\* WorkflowContexts.

Blocks == [workflow : 1..Workflows!Remote, saved : 0..Workflows!Remote, span : BOOLEAN,
           prev : 0..MaxWorkflows, agents : {0, 1}, stuck : BOOLEAN]

\* w is the workflow of the first of some blocks after place n.
FirstAfter(w, bs, places, n) ==
  IF \A i \in places : i <= n THEN w = Workflows!None
  ELSE \E i \in places : i > n /\ w = bs[i].workflow /\ \A j \in places : j > n => i <= j

\* w is the first of some blocks, and what each of them restores is the next, where that
\* is sure: at place 0 for w.
Nested(w, bs, places, restores, surely) ==
  /\ 0 \in surely => FirstAfter(w, bs, places, 0)
  /\ \A i \in places : i \in surely => FirstAfter(restores[i], bs, places, i)

Saved(t) == [i \in DOMAIN blocks[t] |-> blocks[t][i].saved]
Surely(t) == {i \in 0..Len(blocks[t]) : IF i = 0 THEN ~ stuck[t] ELSE ~ blocks[t][i].stuck}
Prevs(t) == [i \in DOMAIN blocks[t] |-> blocks[t][i].prev]

WorkflowsType ==
  /\ current \in [Threads -> 0..MaxWorkflows] /\ context \in [Coroutines -> 0..Workflows!Remote]
  /\ blocks \in [Coroutines -> Seq(Blocks)] /\ stuck \in [Coroutines -> BOOLEAN]
  /\ owner \in Seq(Coroutines) /\ Len(owner) <= MaxWorkflows

\* What a block restores is what encloses it, unless a span could not be finalized.
IsNested(t) ==
  /\ \A i \in DOMAIN blocks[t] : blocks[t][i].workflow = Workflows!Remote => blocks[t][i].span
  /\ Nested(context[t], blocks[t], Workflows!Traced(t), Saved(t), Surely(t))
  /\ Workflows!Alone(t) =>
       Nested(current[ThreadOf[t]], blocks[t], Workflows!Workflows(t), Prevs(t), 0..Len(blocks[t]))

\* The trace context of task t may be w, and the thread-local of its thread.
OwnTrace(w, t) == w = Workflows!Remote \/ Workflows!EnteredBy(w, {t})
OwnThread(w, t) == Workflows!EnteredBy(w, {u \in Coroutines : ThreadOf[u] = ThreadOf[t]})

\* What a task has, and what its blocks restore, is of its own, and of its thread.
IsOwn(t) ==
  /\ OwnTrace(context[t], t) /\ OwnThread(current[ThreadOf[t]], t)
  /\ \A i \in DOMAIN blocks[t] : OwnTrace(blocks[t][i].saved, t) /\ OwnThread(blocks[t][i].prev, t)

WorkflowsInv == WorkflowsType /\ \A t \in Coroutines : IsNested(t) /\ IsOwn(t)

\* A stack of blocks after a push, and after a pop.
LEMMA StackFacts ==
  ASSUME NEW bs \in Seq(Blocks)
  PROVE  /\ Len(bs) \in Nat /\ DOMAIN bs = 1..Len(bs) /\ \A i \in 1..Len(bs) : bs[i] \in Blocks
         /\ \A x \in Blocks :
              /\ <<x>> \o bs \in Seq(Blocks) /\ Len(<<x>> \o bs) = Len(bs) + 1
              /\ DOMAIN (<<x>> \o bs) = 1..Len(bs) + 1
              /\ (<<x>> \o bs)[1] = x /\ \A i \in 1..Len(bs) : (<<x>> \o bs)[i + 1] = bs[i]
         /\ bs # << >> =>
              /\ Len(bs) >= 1 /\ Head(bs) = bs[1]
              /\ Tail(bs) \in Seq(Blocks) /\ Len(Tail(bs)) = Len(bs) - 1 /\ DOMAIN Tail(bs) = 1..Len(bs) - 1
              /\ \A i \in 1..Len(bs) - 1 : Tail(bs)[i] = bs[i + 1]
<1>1. Len(bs) \in Nat /\ DOMAIN bs = 1..Len(bs) /\ \A i \in 1..Len(bs) : bs[i] \in Blocks
  BY LenProperties, ElementOfSeq
<1>2. ASSUME NEW x \in Blocks
      PROVE  /\ <<x>> \o bs \in Seq(Blocks) /\ Len(<<x>> \o bs) = Len(bs) + 1
             /\ DOMAIN (<<x>> \o bs) = 1..Len(bs) + 1
             /\ (<<x>> \o bs)[1] = x /\ \A i \in 1..Len(bs) : (<<x>> \o bs)[i + 1] = bs[i]
  <2>1. <<x>> \in Seq(Blocks) /\ Len(<<x>>) = 1 /\ <<x>>[1] = x
    OBVIOUS
  <2>2. /\ <<x>> \o bs \in Seq(Blocks) /\ Len(<<x>> \o bs) = Len(bs) + 1
        /\ \A i \in 1..Len(bs) + 1 : (<<x>> \o bs)[i] = IF i <= 1 THEN <<x>>[i] ELSE bs[i - 1]
    BY <1>1, <2>1, ConcatProperties
  <2>3. DOMAIN (<<x>> \o bs) = 1..Len(bs) + 1
    BY <2>2, LenProperties
  <2>4. \A i \in 1..Len(bs) : i + 1 \in 1..Len(bs) + 1 /\ ~ (i + 1 <= 1) /\ (i + 1) - 1 = i
    BY <1>1
  <2>5. 1 \in 1..Len(bs) + 1
    BY <1>1
  <2>6. QED
    BY <2>1, <2>2, <2>3, <2>4, <2>5
<1>3. ASSUME bs # << >>
      PROVE  /\ Len(bs) >= 1 /\ Head(bs) = bs[1]
             /\ Tail(bs) \in Seq(Blocks) /\ Len(Tail(bs)) = Len(bs) - 1 /\ DOMAIN Tail(bs) = 1..Len(bs) - 1
             /\ \A i \in 1..Len(bs) - 1 : Tail(bs)[i] = bs[i + 1]
  <2>1. Len(bs) # 0
    BY <1>1, <1>3, EmptySeq
  <2>2. /\ Head(bs) = bs[1] /\ Tail(bs) \in Seq(Blocks) /\ Len(Tail(bs)) = Len(bs) - 1
        /\ \A i \in 1..Len(Tail(bs)) : Tail(bs)[i] = bs[i + 1]
    BY <1>3, HeadTailProperties
  <2>3. QED
    BY <1>1, <2>1, <2>2, LenProperties
<1>4. QED
  BY <1>1, <1>2, <1>3

\* A block pushed on a nested stack is nested in what was its first block.
LEMMA NestedPush ==
  ASSUME NEW bs \in Seq(Blocks), NEW x \in Blocks, NEW places \in SUBSET DOMAIN bs, NEW places2,
         NEW w, NEW v, NEW rest, NEW rest2, NEW surely, NEW surely2,
         Nested(w, bs, places, rest, surely), places2 \subseteq 1..Len(bs) + 1,
         \A i \in 1..Len(bs) : (i + 1 \in places2 <=> i \in places) /\ rest2[i + 1] = rest[i],
         \A i \in 1..Len(bs) : i + 1 \in surely2 => i \in surely,
         IF 1 \in places2 THEN v = x.workflow /\ rest2[1] = w /\ (1 \in surely2 => 0 \in surely)
                           ELSE v = w /\ (0 \in surely2 => 0 \in surely)
  PROVE  Nested(v, <<x>> \o bs, places2, rest2, surely2)
<1> DEFINE new == <<x>> \o bs
<1>1. /\ Len(bs) \in Nat /\ DOMAIN bs = 1..Len(bs)
      /\ new[1] = x /\ \A i \in 1..Len(bs) : new[i + 1] = bs[i]
  BY StackFacts
<1> HIDE DEF new
<1>2. \A j \in places2 : j # 1 => j - 1 \in places /\ j - 1 \in 1..Len(bs) /\ (j - 1) + 1 = j
  BY <1>1
<1>3. ASSUME NEW u, NEW n \in 0..Len(bs), FirstAfter(u, bs, places, n)
      PROVE  FirstAfter(u, new, places2, n + 1)
  <2>1. CASE \A i \in places : i <= n
    <3>1. \A j \in places2 : j <= n + 1
      BY <1>1, <1>2, <2>1
    <3>2. QED
      BY <1>3, <2>1, <3>1 DEF FirstAfter
  <2>2. CASE ~ \A i \in places : i <= n
    <3>1. PICK i \in places : i > n /\ u = bs[i].workflow /\ \A j \in places : j > n => i <= j
      BY <1>3, <2>2 DEF FirstAfter
    <3>2. i \in 1..Len(bs) /\ i + 1 \in places2 /\ i + 1 > n + 1 /\ u = new[i + 1].workflow
      BY <1>1, <3>1
    <3>3. \A j \in places2 : j > n + 1 => i + 1 <= j
      <4>1. \A j \in places2 : j > n + 1 => j - 1 \in places /\ j - 1 > n /\ j \in Int
        BY <1>1, <1>2
      <4>2. QED
        BY <3>1, <3>2, <4>1
    <3>4. ~ \A j \in places2 : j <= n + 1
      BY <1>1, <3>2
    <3>5. QED
      BY <3>2, <3>3, <3>4 DEF FirstAfter
  <2>3. QED
    BY <2>1, <2>2
<1>4. \A j \in places2 : j \in surely2 => FirstAfter(rest2[j], new, places2, j)
  <2>1. SUFFICES ASSUME NEW j \in places2, j \in surely2 PROVE FirstAfter(rest2[j], new, places2, j)
    OBVIOUS
  <2>2. CASE j = 1
    <3>1. 0 \in surely /\ FirstAfter(w, new, places2, 0 + 1)
      BY <1>1, <1>3, <2>1, <2>2 DEF Nested
    <3>2. QED
      BY <2>1, <2>2, <3>1
  <2>3. CASE j # 1
    <3>1. j - 1 \in places /\ j - 1 \in 0..Len(bs) /\ (j - 1) + 1 = j /\ rest2[j] = rest[j - 1] /\ j - 1 \in surely
      <4>1. j - 1 \in places /\ j - 1 \in 1..Len(bs) /\ (j - 1) + 1 = j
        BY <1>2, <2>1, <2>3
      <4>2. QED
        BY <1>1, <2>1, <4>1
    <3>2. FirstAfter(rest[j - 1], bs, places, j - 1)
      BY <3>1 DEF Nested
    <3>3. FirstAfter(rest[j - 1], new, places2, (j - 1) + 1)
      BY <1>3, <3>1, <3>2
    <3>4. QED
      BY <3>1, <3>3
  <2>4. QED
    BY <2>2, <2>3
<1>5. 0 \in surely2 => FirstAfter(v, new, places2, 0)
  <2>0. SUFFICES ASSUME 0 \in surely2 PROVE FirstAfter(v, new, places2, 0)
    OBVIOUS
  <2>1. \A j \in places2 : j \in Nat /\ j >= 1 /\ j > 0 /\ ~ (j <= 0)
    BY <1>1
  <2>2. CASE 1 \in places2
    BY <1>1, <2>1, <2>2 DEF FirstAfter
  <2>3. CASE 1 \notin places2
    <3>1. FirstAfter(w, new, places2, 0 + 1)
      BY <1>1, <1>3, <2>0, <2>3 DEF Nested
    <3>2. \A j \in places2 : j > 1 /\ ~ (j <= 1)
      BY <2>1, <2>3
    <3>3. QED
      BY <2>1, <2>3, <3>1, <3>2 DEF FirstAfter
  <2>4. QED
    BY <2>2, <2>3
<1>6. QED
  BY <1>4, <1>5 DEF Nested, new

\* A stack from which the top was taken is nested in what the top restored.
LEMMA NestedPop ==
  ASSUME NEW bs \in Seq(Blocks), bs # << >>, NEW places \in SUBSET DOMAIN bs, NEW places2,
         NEW w, NEW v, NEW rest, NEW rest2, NEW surely, NEW surely2,
         Nested(w, bs, places, rest, surely), places2 \subseteq 1..Len(bs) - 1,
         \A i \in 1..Len(bs) - 1 : (i \in places2 <=> i + 1 \in places) /\ rest2[i] = rest[i + 1],
         \A i \in 1..Len(bs) - 1 : i \in surely2 => i + 1 \in surely,
         0 \in surely2 => IF 1 \in places THEN v = rest[1] /\ 1 \in surely ELSE v = w /\ 0 \in surely
  PROVE  Nested(v, Tail(bs), places2, rest2, surely2)
<1> DEFINE new == Tail(bs)
<1>1. /\ Len(bs) \in Nat /\ Len(bs) >= 1 /\ DOMAIN bs = 1..Len(bs)
      /\ \A i \in 1..Len(bs) - 1 : new[i] = bs[i + 1]
  BY StackFacts
<1> HIDE DEF new
<1>2. \A i \in places : i # 1 => i - 1 \in places2 /\ i - 1 \in 1..Len(bs) - 1 /\ (i - 1) + 1 = i /\ i \in 1..Len(bs)
  <2>1. \A i \in places : i # 1 => i - 1 \in 1..Len(bs) - 1 /\ (i - 1) + 1 = i /\ i \in 1..Len(bs)
    BY <1>1
  <2>2. QED
    BY <2>1
<1>3. ASSUME NEW u, NEW n \in 1..Len(bs), FirstAfter(u, bs, places, n)
      PROVE  FirstAfter(u, new, places2, n - 1)
  <2>0. \A j \in places2 : j + 1 \in places /\ j \in 1..Len(bs) - 1
    OBVIOUS
  <2>1. CASE \A i \in places : i <= n
    <3>1. \A j \in places2 : j <= n - 1
      BY <1>1, <2>0, <2>1
    <3>2. QED
      BY <1>3, <2>1, <3>1 DEF FirstAfter
  <2>2. CASE ~ \A i \in places : i <= n
    <3>1. PICK i \in places : i > n /\ u = bs[i].workflow /\ \A j \in places : j > n => i <= j
      BY <1>3, <2>2 DEF FirstAfter
    <3>2. i \in 1..Len(bs) /\ i # 1
      BY <1>1, <3>1
    <3>3. i - 1 \in places2 /\ i - 1 > n - 1 /\ u = new[i - 1].workflow
      <4>1. i - 1 \in places2 /\ i - 1 \in 1..Len(bs) - 1 /\ (i - 1) + 1 = i
        BY <1>2, <3>1, <3>2
      <4>2. i - 1 > n - 1
        BY <3>1, <3>2
      <4>3. QED
        BY <1>1, <3>1, <4>1, <4>2
    <3>4. \A j \in places2 : j > n - 1 => i - 1 <= j
      <4>1. \A j \in places2 : j > n - 1 => j + 1 \in places /\ j + 1 > n /\ j \in Int
        BY <1>1, <2>0
      <4>2. QED
        BY <3>1, <3>2, <4>1
    <3>5. ~ \A j \in places2 : j <= n - 1
      BY <1>1, <3>2, <3>3
    <3>6. QED
      BY <3>3, <3>4, <3>5 DEF FirstAfter
  <2>3. QED
    BY <2>1, <2>2
<1>4. \A j \in places2 : j \in surely2 => FirstAfter(rest2[j], new, places2, j)
  <2>1. SUFFICES ASSUME NEW j \in places2, j \in surely2 PROVE FirstAfter(rest2[j], new, places2, j)
    OBVIOUS
  <2>2. j + 1 \in places /\ j + 1 \in 1..Len(bs) /\ (j + 1) - 1 = j /\ rest2[j] = rest[j + 1] /\ j + 1 \in surely
    BY <1>1, <2>1
  <2>3. FirstAfter(rest[j + 1], bs, places, j + 1)
    BY <2>2 DEF Nested
  <2>4. FirstAfter(rest[j + 1], new, places2, (j + 1) - 1)
    BY <1>3, <2>2, <2>3
  <2>5. QED
    BY <2>2, <2>4
<1>5. 0 \in surely2 => FirstAfter(v, bs, places, 1)
  <2>0. SUFFICES ASSUME 0 \in surely2 PROVE FirstAfter(v, bs, places, 1)
    OBVIOUS
  <2>1. CASE 1 \in places
    BY <2>0, <2>1 DEF Nested
  <2>2. CASE 1 \notin places
    <3>1. \A j \in places : j > 1 /\ ~ (j <= 1) /\ j > 0 /\ ~ (j <= 0)
      BY <1>1, <2>2
    <3>2. v = w /\ FirstAfter(w, bs, places, 0)
      BY <2>0, <2>2 DEF Nested
    <3>3. QED
      BY <2>2, <3>1, <3>2 DEF FirstAfter
  <2>3. QED
    BY <2>1, <2>2
<1>6. 0 \in surely2 => FirstAfter(v, new, places2, 0)
  <2>1. 0 \in surely2 => FirstAfter(v, new, places2, 1 - 1)
    BY <1>1, <1>3, <1>5
  <2>2. QED
    BY <2>1
<1>7. QED
  BY <1>4, <1>6 DEF Nested, new

\* At first no task is in a block.
LEMMA WorkflowsStart == Workflows!Init => WorkflowsInv
<1> SUFFICES ASSUME Workflows!Init PROVE WorkflowsInv
  OBVIOUS
<1>1. /\ MaxWorkflows \in Nat /\ ThreadOf \in [Coroutines -> Threads] /\ Workflows!None = 0
      /\ Workflows!Remote = MaxWorkflows + 1
  BY SideAssumption DEF Workflows!WorkflowAssumption, Workflows!None, Workflows!Remote
<1>2. WorkflowsType
  BY <1>1, EmptySeq DEF Workflows!Init, WorkflowsType
<1>3. ASSUME NEW t \in Coroutines PROVE IsNested(t) /\ IsOwn(t)
  <2>1. /\ blocks[t] = << >> /\ DOMAIN blocks[t] = {} /\ context[t] = 0 /\ current[ThreadOf[t]] = 0
        /\ Workflows!Traced(t) = {} /\ Workflows!Workflows(t) = {}
    BY <1>1 DEF Workflows!Init, Workflows!Traced, Workflows!Workflows
  <2>2. \A rest, surely : Nested(0, blocks[t], {}, rest, surely)
    BY <1>1 DEF Nested, FirstAfter
  <2>3. IsNested(t)
    BY <2>1, <2>2 DEF IsNested
  <2>4. QED
    BY <1>1, <2>1, <2>3 DEF IsOwn, OwnTrace, OwnThread, Workflows!EnteredBy
<1>4. QED
  BY <1>2, <1>3 DEF WorkflowsInv

\* What an action of one task leaves alone of another's.
LEMMA OthersAreNested ==
  ASSUME WorkflowsInv, NEW t \in Coroutines, NEW u \in Coroutines \ {t},
         blocks'[u] = blocks[u], context'[u] = context[u], stuck'[u] = stuck[u],
         \A th \in Threads : th # ThreadOf[t] => current'[th] = current[th]
  PROVE  IsNested(u)'
<1>1. IsNested(u) /\ ThreadOf \in [Coroutines -> Threads]
  BY SideAssumption DEF WorkflowsInv, Workflows!WorkflowAssumption
<1>2. /\ Workflows!Traced(u)' = Workflows!Traced(u) /\ Workflows!Workflows(u)' = Workflows!Workflows(u)
      /\ Saved(u)' = Saved(u) /\ Surely(u)' = Surely(u) /\ Prevs(u)' = Prevs(u)
      /\ Workflows!Alone(u)' = Workflows!Alone(u)
  BY DEF Workflows!Traced, Workflows!Workflows, Saved, Surely, Prevs, Workflows!Alone
<1>3. Workflows!Alone(u) => current'[ThreadOf[u]] = current[ThreadOf[u]]
  BY <1>1 DEF Workflows!Alone
<1>4. QED
  BY <1>1, <1>2, <1>3 DEF IsNested

\* A workflow keeps its task.
LEMMA OwnersStay ==
  ASSUME WorkflowsType, NEW t \in Coroutines, owner' = owner \/ owner' = Append(owner, t),
         NEW w, NEW ts, Workflows!EnteredBy(w, ts)
  PROVE  w = Workflows!None \/ (w \in DOMAIN owner' /\ owner'[w] \in ts)
<1>1. owner \in Seq(Coroutines) /\ Len(owner) \in Nat /\ DOMAIN owner = 1..Len(owner)
  BY LenProperties DEF WorkflowsType
<1>2. CASE owner' = Append(owner, t)
  <2>1. /\ DOMAIN owner' = 1..Len(owner) + 1
        /\ \A i \in 1..Len(owner) : i \in 1..Len(owner) + 1 /\ owner'[i] = owner[i]
    BY <1>1, <1>2, AppendProperties
  <2>2. QED
    BY <1>1, <2>1 DEF Workflows!EnteredBy
<1>3. CASE owner' = owner
  BY <1>3 DEF Workflows!EnteredBy
<1>4. QED
  BY <1>2, <1>3

LEMMA OwnStays ==
  ASSUME WorkflowsType, NEW t \in Coroutines, owner' = owner \/ owner' = Append(owner, t), NEW u, NEW w
  PROVE  (OwnTrace(w, u) => OwnTrace(w, u)') /\ (OwnThread(w, u) => OwnThread(w, u)')
BY OwnersStay DEF OwnTrace, OwnThread, Workflows!EnteredBy, Workflows!None, Workflows!Remote

\* What an action of one task leaves own of the others': on its thread they have what it has.
LEMMA OthersAreOwn ==
  ASSUME WorkflowsInv, NEW t \in Coroutines, NEW u \in Coroutines \ {t},
         blocks'[u] = blocks[u], context'[u] = context[u],
         \A th \in Threads : th # ThreadOf[t] => current'[th] = current[th],
         owner' = owner \/ owner' = Append(owner, t), IsOwn(t)'
  PROVE  IsOwn(u)'
<1>1. IsOwn(u) /\ WorkflowsType /\ ThreadOf \in [Coroutines -> Threads] /\ Workflows!None = Workflows!None'
  BY SideAssumption DEF WorkflowsInv, Workflows!WorkflowAssumption, Workflows!None
<1>2. \A w : OwnTrace(w, u) => OwnTrace(w, u)'
  BY <1>1, OwnStays
<1>3. \A w : OwnThread(w, u) => OwnThread(w, u)'
  BY <1>1, OwnStays
<1>4. OwnThread(current[ThreadOf[u]], u)'
  <2>1. CASE ThreadOf[u] = ThreadOf[t]
    BY <2>1 DEF IsOwn, OwnThread
  <2>2. CASE ThreadOf[u] # ThreadOf[t]
    <3>1. current'[ThreadOf[u]] = current[ThreadOf[u]] /\ OwnThread(current[ThreadOf[u]], u)
      BY <1>1, <2>2 DEF IsOwn
    <3>2. QED
      BY <1>3, <3>1
  <2>3. QED
    BY <2>1, <2>2
<1>5. QED
  BY <1>1, <1>2, <1>3, <1>4 DEF IsOwn

\* A block is pushed: __enter__ and extract.
LEMMA WorkflowsPush ==
  ASSUME WorkflowsInv, NEW t \in Coroutines, NEW x \in Blocks, Workflows!Push(t, x),
         x.workflow = Workflows!Remote => x.span,
         x.saved = context[t], x.stuck = stuck[t],
         x.prev = IF x.workflow = Workflows!Remote THEN Workflows!None ELSE current[ThreadOf[t]],
         context' = [context EXCEPT ![t] = IF x.span THEN x.workflow ELSE @],
         current' = IF x.workflow = Workflows!Remote THEN current
                    ELSE [current EXCEPT ![ThreadOf[t]] = x.workflow],
         stuck' \in [Coroutines -> BOOLEAN], \A u \in Coroutines \ {t} : stuck'[u] = stuck[u],
         ~ stuck'[t] => x.span \/ ~ stuck[t],
         \/ x.workflow = Workflows!Remote /\ owner' = owner
         \/ /\ x.workflow = Len(owner) + 1 /\ x.workflow <= MaxWorkflows
            /\ owner' = Append(owner, t)
  PROVE  WorkflowsInv'
<1>1. /\ MaxWorkflows \in Nat /\ ThreadOf[t] \in Threads /\ Workflows!Remote = MaxWorkflows + 1
      /\ \A u \in Coroutines : ThreadOf[u] \in Threads
  BY SideAssumption DEF Workflows!WorkflowAssumption, Workflows!Remote
<1>2. /\ x.workflow \in 1..MaxWorkflows + 1 /\ x.span \in BOOLEAN
  BY <1>1 DEF Blocks
<1>3. /\ blocks[t] \in Seq(Blocks) /\ blocks' = [blocks EXCEPT ![t] = <<x>> \o blocks[t]]
      /\ <<x>> \o blocks[t] \in Seq(Blocks)
  BY StackFacts DEF WorkflowsInv, WorkflowsType, Workflows!Push
<1>4. WorkflowsType'
  <2>1. blocks' \in [Coroutines -> Seq(Blocks)]
    BY <1>3 DEF WorkflowsInv, WorkflowsType
  <2>2. context' \in [Coroutines -> 0..Workflows!Remote]
    BY <1>1, <1>2 DEF WorkflowsInv, WorkflowsType
  <2>3. current' \in [Threads -> 0..MaxWorkflows]
    BY <1>1, <1>2 DEF WorkflowsInv, WorkflowsType
  <2>4. owner' \in Seq(Coroutines) /\ Len(owner') <= MaxWorkflows
    <3>1. owner \in Seq(Coroutines) /\ Len(owner) \in Nat /\ Len(owner) <= MaxWorkflows
      BY LenProperties DEF WorkflowsInv, WorkflowsType
    <3>2. CASE owner' = Append(owner, t) /\ x.workflow = Len(owner) + 1 /\ x.workflow <= MaxWorkflows
      BY <1>1, <3>1, <3>2, AppendProperties
    <3>3. CASE owner' = owner
      BY <3>1, <3>3
    <3>4. QED
      BY <3>2, <3>3
  <2>5. QED
    BY <2>1, <2>2, <2>3, <2>4 DEF WorkflowsType
<1>5. ASSUME NEW u \in Coroutines \ {t} PROVE IsNested(u)'
  <2>1. blocks'[u] = blocks[u] /\ context'[u] = context[u]
    BY <1>3 DEF WorkflowsInv, WorkflowsType
  <2>2. \A th \in Threads : th # ThreadOf[t] => current'[th] = current[th]
    BY <1>1 DEF WorkflowsInv, WorkflowsType
  <2>3. QED
    BY <2>1, <2>2, OthersAreNested
<1>6. IsNested(t)'
  <2> DEFINE bs == blocks[t]
             new == <<x>> \o bs
  <2>1. /\ blocks'[t] = new
        /\ context'[t] = IF x.span THEN x.workflow ELSE context[t]
        /\ current'[ThreadOf[t]] = IF x.workflow = Workflows!Remote THEN current[ThreadOf[t]] ELSE x.workflow
    BY <1>1, <1>3 DEF WorkflowsInv, WorkflowsType
  <2>2. /\ Len(bs) \in Nat /\ DOMAIN bs = 1..Len(bs) /\ DOMAIN new = 1..Len(bs) + 1
        /\ new[1] = x /\ \A i \in 1..Len(bs) : new[i + 1] = bs[i]
    BY <1>3, StackFacts
  <2>3. IsNested(t)
    BY DEF WorkflowsInv
  <2>4. \A i \in DOMAIN new : i = 1 \/ (i - 1 \in 1..Len(bs) /\ (i - 1) + 1 = i)
    BY <2>2
  <2> HIDE DEF new
  <2>5. \A i \in 1..Len(bs) : i + 1 \in DOMAIN new
    BY <2>2
  <2>6. \A i \in DOMAIN blocks'[t] : blocks'[t][i].workflow = Workflows!Remote => blocks'[t][i].span
    <3>1. SUFFICES ASSUME NEW i \in DOMAIN new, new[i].workflow = Workflows!Remote PROVE new[i].span
      BY <2>1
    <3>2. CASE i = 1
      BY <2>2, <3>1, <3>2
    <3>3. CASE i # 1
      <4>1. i - 1 \in DOMAIN bs /\ new[i] = bs[i - 1]
        BY <2>2, <2>4, <3>3
      <4>2. QED
        BY <2>3, <3>1, <4>1 DEF IsNested
    <3>4. QED
      BY <3>2, <3>3
  <2>7. Nested(context'[t], new, Workflows!Traced(t)', Saved(t)', Surely(t)')
    <3>1. Workflows!Traced(t) \in SUBSET DOMAIN bs /\ Workflows!Traced(t)' \subseteq 1..Len(bs) + 1
      BY <2>1, <2>2 DEF Workflows!Traced
    <3>2. \A i \in 1..Len(bs) : /\ i + 1 \in Workflows!Traced(t)' <=> i \in Workflows!Traced(t)
                                /\ Saved(t)'[i + 1] = Saved(t)[i]
      BY <2>1, <2>2, <2>5 DEF Workflows!Traced, Saved
    <3>3. (1 \in Workflows!Traced(t)' <=> x.span) /\ Saved(t)'[1] = context[t]
      BY <2>1, <2>2 DEF Workflows!Traced, Saved
    <3>4. IF 1 \in Workflows!Traced(t)' THEN context'[t] = x.workflow /\ Saved(t)'[1] = context[t]
                                        ELSE context'[t] = context[t]
      BY <2>1, <3>3
    <3>5. Nested(context[t], bs, Workflows!Traced(t), Saved(t), Surely(t))
      BY <2>3 DEF IsNested
    <3>6. /\ \A i \in 1..Len(bs) : i + 1 \in Surely(t)' => i \in Surely(t)
          /\ 1 \in Surely(t)' => 0 \in Surely(t)
          /\ 1 \notin Workflows!Traced(t)' => (0 \in Surely(t)' => 0 \in Surely(t))
      <4>1. \A i \in 1..Len(bs) : i # 0 /\ i + 1 # 0 /\ i \in 0..Len(bs)
        BY <2>2
      <4>2. 0 \in 0..Len(bs) /\ x.span \in BOOLEAN
        BY <1>2, <2>2
      <4>3. QED
        BY <2>1, <2>2, <3>3, <4>1, <4>2 DEF Surely
    <3>7. IF 1 \in Workflows!Traced(t)'
            THEN context'[t] = x.workflow /\ Saved(t)'[1] = context[t] /\ (1 \in Surely(t)' => 0 \in Surely(t))
            ELSE context'[t] = context[t] /\ (0 \in Surely(t)' => 0 \in Surely(t))
      BY <3>4, <3>6
    <3>8. \A i \in 1..Len(bs) : i + 1 \in Surely(t)' => i \in Surely(t)
      BY <3>6
    <3> DEFINE v == context'[t]
               w == context[t]
               rest == Saved(t)
               rest2 == Saved(t)'
               sure == Surely(t)
               sure2 == Surely(t)'
               places == Workflows!Traced(t)
               places2 == Workflows!Traced(t)'
    <3> HIDE DEF v, w, rest, rest2, sure, sure2, places, places2
    <3>9. Nested(v, <<x>> \o bs, places2, rest2, sure2)
      <4>1. places \in SUBSET DOMAIN bs /\ places2 \subseteq 1..Len(bs) + 1
        BY <3>1 DEF places, places2
      <4>2. \A i \in 1..Len(bs) : (i + 1 \in places2 <=> i \in places) /\ rest2[i + 1] = rest[i]
        BY <3>2 DEF places, places2, rest, rest2
      <4>3. \A i \in 1..Len(bs) : i + 1 \in sure2 => i \in sure
        BY <3>8 DEF sure, sure2
      <4>4. IF 1 \in places2 THEN v = x.workflow /\ rest2[1] = w /\ (1 \in sure2 => 0 \in sure)
                             ELSE v = w /\ (0 \in sure2 => 0 \in sure)
        BY <3>7 DEF places2, v, w, rest2, sure, sure2
      <4>5. Nested(w, bs, places, rest, sure)
        BY <3>5 DEF w, places, rest, sure
      <4>6. QED
        BY <1>3, <4>1, <4>2, <4>3, <4>4, <4>5, NestedPush
    <3>10. QED
      BY <3>9 DEF new, v, places2, rest2, sure2
  <2>8. ASSUME Workflows!Alone(t)
        PROVE  Nested(current'[ThreadOf[t]], new, Workflows!Workflows(t)', Prevs(t)', 0..Len(new))
    <3>1. Workflows!Workflows(t) \in SUBSET DOMAIN bs /\ Workflows!Workflows(t)' \subseteq 1..Len(bs) + 1
      BY <2>1, <2>2 DEF Workflows!Workflows
    <3>2. \A i \in 1..Len(bs) : /\ i + 1 \in Workflows!Workflows(t)' <=> i \in Workflows!Workflows(t)
                                /\ Prevs(t)'[i + 1] = Prevs(t)[i]
      BY <2>1, <2>2, <2>5 DEF Workflows!Workflows, Prevs
    <3>3. (1 \in Workflows!Workflows(t)' <=> x.workflow # Workflows!Remote) /\ Prevs(t)'[1] = x.prev
      BY <2>1, <2>2 DEF Workflows!Workflows, Prevs
    <3>4. IF 1 \in Workflows!Workflows(t)'
            THEN current'[ThreadOf[t]] = x.workflow /\ Prevs(t)'[1] = current[ThreadOf[t]]
            ELSE current'[ThreadOf[t]] = current[ThreadOf[t]]
      BY <2>1, <3>3
    <3>5. Nested(current[ThreadOf[t]], bs, Workflows!Workflows(t), Prevs(t), 0..Len(bs))
      BY <2>3, <2>8 DEF IsNested
    <3> DEFINE v == current'[ThreadOf[t]]
               w == current[ThreadOf[t]]
               rest == Prevs(t)
               rest2 == Prevs(t)'
               sure == 0..Len(bs)
               sure2 == 0..Len(new)
               places == Workflows!Workflows(t)
               places2 == Workflows!Workflows(t)'
    <3> HIDE DEF v, w, rest, rest2, sure, sure2, places, places2
    <3>6. Nested(v, <<x>> \o bs, places2, rest2, sure2)
      <4>1. places \in SUBSET DOMAIN bs /\ places2 \subseteq 1..Len(bs) + 1
        BY <3>1 DEF places, places2
      <4>2. \A i \in 1..Len(bs) : (i + 1 \in places2 <=> i \in places) /\ rest2[i + 1] = rest[i]
        BY <3>2 DEF places, places2, rest, rest2
      <4>3. 0 \in sure /\ \A i \in 1..Len(bs) : i \in sure
        BY <2>2 DEF sure
      <4>4. IF 1 \in places2 THEN v = x.workflow /\ rest2[1] = w ELSE v = w
        BY <3>4 DEF v, w, rest2, places2
      <4>5. Nested(w, bs, places, rest, sure)
        BY <3>5 DEF w, places, rest, sure
      <4>6. QED
        BY <1>3, <4>1, <4>2, <4>3, <4>4, <4>5, NestedPush
    <3>7. QED
      BY <3>6 DEF new, v, places2, rest2, sure2
  <2>9. Workflows!Alone(t)' <=> Workflows!Alone(t)
    BY DEF Workflows!Alone
  <2>10. QED
    BY <2>1, <2>6, <2>7, <2>8, <2>9 DEF IsNested
<1>7. IsOwn(t)'
  <2>1. \A w : (OwnTrace(w, t) => OwnTrace(w, t)') /\ (OwnThread(w, t) => OwnThread(w, t)')
    BY OwnStays DEF WorkflowsInv
  <2>2. IsOwn(t)
    BY DEF WorkflowsInv
  <2>3. x.workflow # Workflows!Remote =>
          x.workflow \in DOMAIN owner' /\ owner'[x.workflow] = t
    <3>1. owner \in Seq(Coroutines) /\ Len(owner) \in Nat
      BY LenProperties DEF WorkflowsInv, WorkflowsType
    <3>2. QED
      BY <3>1, AppendProperties
  <2>4. (OwnTrace(x.workflow, t))' /\ (x.workflow # Workflows!Remote => (OwnThread(x.workflow, t))')
    BY <2>3 DEF OwnTrace, OwnThread, Workflows!EnteredBy, Workflows!Remote
  <2>5. OwnTrace(context[t], t)'
    <3>1. context'[t] = IF x.span THEN x.workflow ELSE context[t]
      BY DEF WorkflowsInv, WorkflowsType
    <3>2. QED
      BY <2>1, <2>2, <2>4, <3>1 DEF IsOwn
  <2>6. OwnThread(current[ThreadOf[t]], t)'
    <3>1. current'[ThreadOf[t]] = IF x.workflow = Workflows!Remote THEN current[ThreadOf[t]] ELSE x.workflow
      BY <1>1 DEF WorkflowsInv, WorkflowsType
    <3>2. QED
      BY <2>1, <2>2, <2>4, <3>1 DEF IsOwn
  <2>7. OwnTrace(x.saved, t)' /\ OwnThread(x.prev, t)'
    <3>1. OwnTrace(x.saved, t)
      BY <2>2 DEF IsOwn
    <3>2. OwnThread(x.prev, t)
      BY <2>2 DEF IsOwn, OwnThread, Workflows!EnteredBy
    <3>3. QED
      BY <2>1, <3>1, <3>2
  <2>8. ASSUME NEW i \in DOMAIN blocks'[t]
        PROVE  (OwnTrace(blocks[t][i].saved, t) /\ OwnThread(blocks[t][i].prev, t))'
    <3>1. blocks'[t] = <<x>> \o blocks[t]
      BY <1>3 DEF WorkflowsInv, WorkflowsType
    <3>2. \/ blocks'[t][i] = x
          \/ \E j \in DOMAIN blocks[t] : blocks'[t][i] = blocks[t][j]
      <4>1. /\ Len(blocks[t]) \in Nat /\ DOMAIN blocks[t] = 1..Len(blocks[t])
            /\ DOMAIN (<<x>> \o blocks[t]) = 1..Len(blocks[t]) + 1
            /\ (<<x>> \o blocks[t])[1] = x
            /\ \A j \in 1..Len(blocks[t]) : (<<x>> \o blocks[t])[j + 1] = blocks[t][j]
        BY <1>3, StackFacts
      <4>2. i \in 1..Len(blocks[t]) + 1
        BY <2>8, <3>1, <4>1
      <4>3. CASE i = 1
        BY <3>1, <4>1, <4>3
      <4>4. CASE i # 1
        <5>1. i - 1 \in 1..Len(blocks[t]) /\ i = (i - 1) + 1
          BY <4>1, <4>2, <4>4
        <5>2. (<<x>> \o blocks[t])[(i - 1) + 1] = blocks[t][i - 1]
          BY <4>1, <5>1
        <5>3. QED
          BY <3>1, <4>1, <5>1, <5>2
      <4>5. QED
        BY <4>3, <4>4
    <3>3. QED
      BY <2>1, <2>2, <2>7, <3>2 DEF IsOwn
  <2>9. QED
    BY <2>5, <2>6, <2>8 DEF IsOwn
<1>8. ASSUME NEW u \in Coroutines \ {t} PROVE IsOwn(u)'
  <2>1. blocks'[u] = blocks[u] /\ context'[u] = context[u]
    BY <1>3 DEF WorkflowsInv, WorkflowsType
  <2>2. \A th \in Threads : th # ThreadOf[t] => current'[th] = current[th]
    BY <1>1 DEF WorkflowsInv, WorkflowsType
  <2>3. QED
    BY <1>7, <2>1, <2>2, OthersAreOwn
<1>9. QED
  BY <1>4, <1>5, <1>6, <1>7, <1>8 DEF WorkflowsInv

\* A block is popped: __exit__ and the detaching of an extracted context.
LEMMA WorkflowsPop ==
  ASSUME WorkflowsInv, NEW t \in Coroutines, blocks[t] # << >>, Workflows!Pop(t),
         NEW finalized \in BOOLEAN,
         context' = [context EXCEPT ![t] = IF Head(blocks[t]).span /\ finalized
                                             THEN Head(blocks[t]).saved ELSE @],
         current' = IF Head(blocks[t]).workflow = Workflows!Remote THEN current
                    ELSE [current EXCEPT ![ThreadOf[t]] = Head(blocks[t]).prev],
         stuck' \in [Coroutines -> BOOLEAN], \A u \in Coroutines \ {t} : stuck'[u] = stuck[u],
         ~ stuck'[t] => IF Head(blocks[t]).span THEN finalized /\ ~ Head(blocks[t]).stuck ELSE ~ stuck[t],
         owner' = owner
  PROVE  WorkflowsInv'
<1> DEFINE bs == blocks[t]
           x == bs[1]
           new == Tail(bs)
<1>1. /\ MaxWorkflows \in Nat /\ ThreadOf[t] \in Threads /\ Workflows!Remote = MaxWorkflows + 1
      /\ \A u \in Coroutines : ThreadOf[u] \in Threads
  BY SideAssumption DEF Workflows!WorkflowAssumption, Workflows!Remote
<1>2. /\ bs \in Seq(Blocks) /\ Len(bs) \in Nat /\ Len(bs) >= 1 /\ DOMAIN bs = 1..Len(bs)
      /\ Head(bs) = x /\ x \in Blocks
      /\ new \in Seq(Blocks) /\ DOMAIN new = 1..Len(bs) - 1 /\ \A i \in 1..Len(bs) - 1 : new[i] = bs[i + 1]
  <2>1. bs \in Seq(Blocks)
    BY DEF WorkflowsInv, WorkflowsType
  <2>2. QED
    BY <2>1, StackFacts
<1>3. blocks' = [blocks EXCEPT ![t] = new]
  BY DEF Workflows!Pop
<1> HIDE DEF new
<1>4. WorkflowsType'
  <2>1. blocks' \in [Coroutines -> Seq(Blocks)]
    BY <1>2, <1>3 DEF WorkflowsInv, WorkflowsType
  <2>2. x.saved \in 0..Workflows!Remote /\ x.prev \in 0..MaxWorkflows
    BY <1>2 DEF Blocks
  <2>3. context' \in [Coroutines -> 0..Workflows!Remote]
    BY <1>2, <2>2 DEF WorkflowsInv, WorkflowsType
  <2>4. current' \in [Threads -> 0..MaxWorkflows]
    BY <1>2, <2>2 DEF WorkflowsInv, WorkflowsType
  <2>5. QED
    BY <2>1, <2>3, <2>4 DEF WorkflowsType, WorkflowsInv
<1>5. ASSUME NEW u \in Coroutines \ {t} PROVE IsNested(u)'
  <2>1. blocks'[u] = blocks[u] /\ context'[u] = context[u]
    BY <1>3 DEF WorkflowsInv, WorkflowsType
  <2>2. \A th \in Threads : th # ThreadOf[t] => current'[th] = current[th]
    BY <1>1 DEF WorkflowsInv, WorkflowsType
  <2>3. QED
    BY <2>1, <2>2, OthersAreNested
<1>6. IsNested(t)'
  <2>1. /\ blocks'[t] = new
        /\ context'[t] = IF x.span /\ finalized THEN x.saved ELSE context[t]
        /\ current'[ThreadOf[t]] = IF x.workflow = Workflows!Remote THEN current[ThreadOf[t]] ELSE x.prev
    BY <1>1, <1>2, <1>3 DEF WorkflowsInv, WorkflowsType
  <2>2. IsNested(t) /\ 1 \in DOMAIN bs
    BY <1>2 DEF WorkflowsInv
  <2>3. \A i \in 1..Len(bs) - 1 : i + 1 \in DOMAIN bs
    BY <1>2
  <2>4. \A i \in DOMAIN blocks'[t] : blocks'[t][i].workflow = Workflows!Remote => blocks'[t][i].span
    <3>1. \A i \in DOMAIN bs : bs[i].workflow = Workflows!Remote => bs[i].span
      BY <2>2 DEF IsNested
    <3>2. \A i \in DOMAIN new : i + 1 \in DOMAIN bs /\ new[i] = bs[i + 1]
      BY <1>2, <2>3
    <3>3. QED
      BY <2>1, <3>1, <3>2
  <2>5. Nested(context'[t], new, Workflows!Traced(t)', Saved(t)', Surely(t)')
    <3>1. Workflows!Traced(t) \in SUBSET DOMAIN bs /\ Workflows!Traced(t)' \subseteq 1..Len(bs) - 1
      BY <1>2, <2>1 DEF Workflows!Traced
    <3>2. \A i \in 1..Len(bs) - 1 : /\ i \in Workflows!Traced(t)' <=> i + 1 \in Workflows!Traced(t)
                                    /\ Saved(t)'[i] = Saved(t)[i + 1]
      BY <1>2, <2>1, <2>3 DEF Workflows!Traced, Saved
    <3>3. (1 \in Workflows!Traced(t) <=> x.span) /\ Saved(t)[1] = x.saved
      BY <2>2 DEF Workflows!Traced, Saved
    <3>4. 0 \in Surely(t)' => IF 1 \in Workflows!Traced(t) THEN context'[t] = Saved(t)[1] /\ 1 \in Surely(t)
                                                      ELSE context'[t] = context[t] /\ 0 \in Surely(t)
      <4>1. 0 \in 0..Len(bs) /\ 1 \in 0..Len(bs) /\ 1 # 0
        BY <1>2
      <4>2. QED
        BY <1>2, <2>1, <3>3, <4>1 DEF Surely
    <3>5. Nested(context[t], bs, Workflows!Traced(t), Saved(t), Surely(t))
      BY <2>2 DEF IsNested
    <3>6. \A i \in 1..Len(bs) - 1 : i \in Surely(t)' => i + 1 \in Surely(t)
      <4>1. \A i \in 1..Len(bs) - 1 : i # 0 /\ i + 1 # 0 /\ i + 1 \in 0..Len(bs)
        BY <1>2
      <4>2. QED
        BY <1>2, <2>1, <4>1 DEF Surely
    <3>7. QED
      BY <1>2, <3>1, <3>2, <3>4, <3>5, <3>6, NestedPop DEF new
  <2>6. ASSUME Workflows!Alone(t)
        PROVE  Nested(current'[ThreadOf[t]], new, Workflows!Workflows(t)', Prevs(t)', 0..Len(new))
    <3>1. Workflows!Workflows(t) \in SUBSET DOMAIN bs /\ Workflows!Workflows(t)' \subseteq 1..Len(bs) - 1
      BY <1>2, <2>1 DEF Workflows!Workflows
    <3>2. \A i \in 1..Len(bs) - 1 : /\ i \in Workflows!Workflows(t)' <=> i + 1 \in Workflows!Workflows(t)
                                    /\ Prevs(t)'[i] = Prevs(t)[i + 1]
      BY <1>2, <2>1, <2>3 DEF Workflows!Workflows, Prevs
    <3>3. (1 \in Workflows!Workflows(t) <=> x.workflow # Workflows!Remote) /\ Prevs(t)[1] = x.prev
      BY <2>2 DEF Workflows!Workflows, Prevs
    <3>4. current'[ThreadOf[t]] = IF 1 \in Workflows!Workflows(t) THEN Prevs(t)[1] ELSE current[ThreadOf[t]]
      BY <2>1, <3>3
    <3>5. Nested(current[ThreadOf[t]], bs, Workflows!Workflows(t), Prevs(t), 0..Len(bs))
      BY <2>2, <2>6 DEF IsNested
    <3>6. \A i \in 1..Len(bs) - 1 : i + 1 \in 0..Len(bs)
      BY <1>2
    <3>7. 0 \in 0..Len(bs) /\ 1 \in 0..Len(bs)
      BY <1>2
    <3> DEFINE v == current'[ThreadOf[t]]
               w == current[ThreadOf[t]]
               rest == Prevs(t)
               rest2 == Prevs(t)'
               sure == 0..Len(bs)
               sure2 == 0..Len(new)
               places == Workflows!Workflows(t)
               places2 == Workflows!Workflows(t)'
    <3> HIDE DEF v, w, rest, rest2, sure, sure2, places, places2
    <3>8. Nested(v, Tail(bs), places2, rest2, sure2)
      <4>1. places \in SUBSET DOMAIN bs /\ places2 \subseteq 1..Len(bs) - 1
        BY <3>1 DEF places, places2
      <4>2. \A i \in 1..Len(bs) - 1 : (i \in places2 <=> i + 1 \in places) /\ rest2[i] = rest[i + 1]
        BY <3>2 DEF places, places2, rest, rest2
      <4>3. 0 \in sure /\ 1 \in sure /\ \A i \in 1..Len(bs) - 1 : i + 1 \in sure
        BY <3>6, <3>7 DEF sure
      <4>4. v = IF 1 \in places THEN rest[1] ELSE w
        BY <3>4 DEF v, w, rest, places
      <4>5. Nested(w, bs, places, rest, sure)
        BY <3>5 DEF w, places, rest, sure
      <4>6. QED
        BY <1>2, <4>1, <4>2, <4>3, <4>4, <4>5, NestedPop
    <3>9. QED
      BY <3>8 DEF new, v, places2, rest2, sure2
  <2>7. Workflows!Alone(t)' <=> Workflows!Alone(t)
    BY DEF Workflows!Alone
  <2>8. QED
    BY <2>1, <2>4, <2>5, <2>6, <2>7 DEF IsNested
<1>7. IsOwn(t)'
  <2>1. blocks'[t] = new /\ 1 \in DOMAIN bs /\ \A i \in DOMAIN new : i + 1 \in DOMAIN bs /\ new[i] = bs[i + 1]
    BY <1>2, <1>3 DEF WorkflowsInv, WorkflowsType
  <2>2. IsOwn(t)
    BY DEF WorkflowsInv
  <2>3. \A w : (OwnTrace(w, t)' <=> OwnTrace(w, t)) /\ (OwnThread(w, t)' <=> OwnThread(w, t))
    BY DEF OwnTrace, OwnThread, Workflows!EnteredBy
  <2>4. context'[t] \in {x.saved, context[t]} /\ current'[ThreadOf[t]] \in {x.prev, current[ThreadOf[t]]}
    BY <1>1, <1>2 DEF WorkflowsInv, WorkflowsType
  <2>5. OwnTrace(context'[t], t) /\ OwnThread(current'[ThreadOf[t]], t)
    BY <2>1, <2>2, <2>4 DEF IsOwn
  <2>6. \A i \in DOMAIN new : OwnTrace(new[i].saved, t) /\ OwnThread(new[i].prev, t)
    BY <2>1, <2>2 DEF IsOwn
  <2>7. QED
    BY <2>1, <2>5, <2>6 DEF IsOwn, OwnTrace, OwnThread, Workflows!EnteredBy
<1>8. ASSUME NEW u \in Coroutines \ {t} PROVE IsOwn(u)'
  <2>1. blocks'[u] = blocks[u] /\ context'[u] = context[u]
    BY <1>3 DEF WorkflowsInv, WorkflowsType
  <2>2. \A th \in Threads : th # ThreadOf[t] => current'[th] = current[th]
    BY <1>1 DEF WorkflowsInv, WorkflowsType
  <2>3. QED
    BY <1>7, <2>1, <2>2, OthersAreOwn
<1>9. QED
  BY <1>4, <1>5, <1>6, <1>7, <1>8 DEF WorkflowsInv

\* Agents that register change nothing that is compared.
LEMMA WorkflowsAgents ==
  ASSUME WorkflowsInv, NEW t \in Coroutines, Workflows!RegisterAgent(t)
  PROVE  WorkflowsInv'
<1> DEFINE bs == blocks[t]
           x == [bs[1] EXCEPT !.agents = 1]
           new == [bs EXCEPT ![1] = x]
<1>1. /\ bs \in Seq(Blocks) /\ Len(bs) \in Nat /\ Len(bs) >= 1 /\ DOMAIN bs = 1..Len(bs) /\ bs[1] \in Blocks
      /\ blocks' = [blocks EXCEPT ![t][1].agents = 1] /\ UNCHANGED <<current, context, stuck, owner>>
  <2>1. bs \in Seq(Blocks)
    BY DEF WorkflowsInv, WorkflowsType
  <2>2. bs # << >>
    BY DEF Workflows!RegisterAgent
  <2>3. QED
    BY <2>1, <2>2, StackFacts DEF Workflows!RegisterAgent
<1>2. /\ x \in Blocks /\ x.workflow = bs[1].workflow /\ x.span = bs[1].span
      /\ x.saved = bs[1].saved /\ x.prev = bs[1].prev /\ x.stuck = bs[1].stuck
  BY <1>1 DEF Blocks
<1> HIDE DEF x
<1>3. new \in Seq(Blocks) /\ DOMAIN new = DOMAIN bs /\ new[1] = x /\ \A i \in DOMAIN bs : i # 1 => new[i] = bs[i]
  <2>1. 1 \in 1..Len(bs)
    BY <1>1
  <2>2. QED
    BY <1>1, <1>2, <2>1, ExceptSeq
<1>4. blocks' = [blocks EXCEPT ![t] = new]
  BY <1>1 DEF x
<1>5. \A i \in DOMAIN bs : /\ new[i].workflow = bs[i].workflow /\ new[i].span = bs[i].span
                           /\ new[i].saved = bs[i].saved /\ new[i].prev = bs[i].prev
                           /\ new[i].stuck = bs[i].stuck
  BY <1>2, <1>3
<1> HIDE DEF new
<1>6. blocks'[t] = new /\ \A u \in Coroutines \ {t} : blocks'[u] = blocks[u]
  BY <1>4 DEF WorkflowsInv, WorkflowsType
<1>7. WorkflowsType'
  BY <1>1, <1>3, <1>4 DEF WorkflowsInv, WorkflowsType
<1>8. ASSUME NEW u \in Coroutines \ {t} PROVE IsNested(u)'
  BY <1>1, <1>6, OthersAreNested
<1>9. IsNested(t)'
  <2>1. /\ Workflows!Traced(t)' = Workflows!Traced(t) /\ Workflows!Workflows(t)' = Workflows!Workflows(t)
        /\ Saved(t)' = Saved(t) /\ Prevs(t)' = Prevs(t) /\ Workflows!Alone(t)' = Workflows!Alone(t)
    BY <1>3, <1>5, <1>6 DEF Workflows!Traced, Workflows!Workflows, Saved, Prevs, Workflows!Alone
  <2>2. ASSUME NEW w, NEW places \in SUBSET DOMAIN bs, NEW n, FirstAfter(w, bs, places, n)
        PROVE  FirstAfter(w, new, places, n)
    BY <1>5, <2>2 DEF FirstAfter
  <2>3. Workflows!Traced(t) \subseteq DOMAIN bs /\ Workflows!Workflows(t) \subseteq DOMAIN bs
    BY DEF Workflows!Traced, Workflows!Workflows
  <2>4. IsNested(t) /\ current' = current /\ context' = context /\ stuck' = stuck
    BY <1>1 DEF WorkflowsInv
  <2>5. Nested(context[t], new, Workflows!Traced(t), Saved(t), Surely(t))
    BY <2>2, <2>3, <2>4 DEF IsNested, Nested
  <2>6. Workflows!Alone(t) =>
          Nested(current[ThreadOf[t]], new, Workflows!Workflows(t), Prevs(t), 0..Len(new))
    <3>1. Len(new) = Len(bs)
      BY <1>1, <1>3, LenProperties
    <3>2. QED
      BY <2>2, <2>3, <2>4, <3>1 DEF IsNested, Nested
  <2>7. \A i \in DOMAIN new : new[i].workflow = Workflows!Remote => new[i].span
    BY <1>3, <1>5, <2>4 DEF IsNested
  <2>8. Surely(t)' = Surely(t)
    <3>1. Len(new) = Len(bs) /\ \A i \in 0..Len(bs) : i = 0 \/ i \in DOMAIN bs
      BY <1>1, <1>3, LenProperties
    <3>2. QED
      BY <1>1, <1>5, <1>6, <3>1 DEF Surely
  <2>9. QED
    BY <1>6, <2>1, <2>4, <2>5, <2>6, <2>7, <2>8 DEF IsNested
<1>10. ASSUME NEW u \in Coroutines PROVE IsOwn(u)'
  <2>1. IsOwn(u) /\ current' = current /\ context' = context /\ owner' = owner
    BY <1>1 DEF WorkflowsInv
  <2>2. /\ DOMAIN blocks'[u] = DOMAIN blocks[u]
        /\ \A i \in DOMAIN blocks[u] :
             blocks'[u][i].saved = blocks[u][i].saved /\ blocks'[u][i].prev = blocks[u][i].prev
    BY <1>3, <1>5, <1>6
  <2>3. QED
    BY <2>1, <2>2 DEF IsOwn, OwnTrace, OwnThread, Workflows!EnteredBy
<1>11. QED
  BY <1>7, <1>8, <1>9, <1>10 DEF WorkflowsInv

\* Every action keeps the invariant.
LEMMA WorkflowsSteps ==
  ASSUME WorkflowsInv, Workflows!Next
  PROVE  WorkflowsInv'
<1>1. PICK t \in Coroutines :
        \/ \E traced \in BOOLEAN : Workflows!Enter(t, traced)
        \/ \E finalized \in BOOLEAN : Workflows!Exit(t, finalized)
        \/ Workflows!RegisterAgent(t) \/ Workflows!Extract(t) \/ Workflows!Detach(t)
  BY DEF Workflows!Next
<1>2. /\ MaxWorkflows \in Nat /\ ThreadOf[t] \in Threads /\ Workflows!Remote = MaxWorkflows + 1 /\ Workflows!None = 0
      /\ owner \in Seq(Coroutines) /\ Len(owner) \in Nat /\ stuck \in [Coroutines -> BOOLEAN] /\ context[t] \in 0..MaxWorkflows + 1 /\ current[ThreadOf[t]] \in 0..MaxWorkflows
  BY SideAssumption, LenProperties
     DEF Workflows!WorkflowAssumption, Workflows!Remote, Workflows!None, WorkflowsInv, WorkflowsType
<1>3. ASSUME NEW traced \in BOOLEAN, Workflows!Enter(t, traced)
      PROVE  WorkflowsInv'
  <2> DEFINE x == [workflow |-> Len(owner) + 1, saved |-> context[t], span |-> traced,
                   prev |-> current[ThreadOf[t]], agents |-> 0, stuck |-> stuck[t]]
  <2>1. Len(owner) < MaxWorkflows /\ owner' = Append(owner, t) /\ Workflows!Push(t, x)
    BY <1>3 DEF Workflows!Enter
  <2>2. /\ x \in Blocks /\ x.workflow # Workflows!Remote
        /\ x.workflow = Len(owner) + 1 /\ x.workflow <= MaxWorkflows
    BY <1>2, <2>1 DEF Blocks
  <2>3. /\ context' = [context EXCEPT ![t] = IF x.span THEN x.workflow ELSE @]
        /\ current' = IF x.workflow = Workflows!Remote THEN current
                      ELSE [current EXCEPT ![ThreadOf[t]] = x.workflow]
    BY <1>3, <2>1, <2>2 DEF Workflows!Enter, WorkflowsInv, WorkflowsType
  <2>4. x.saved = context[t] /\ x.prev = current[ThreadOf[t]] /\ x.stuck = stuck[t] /\ x.span = traced
    OBVIOUS
  <2>5. stuck' = IF traced THEN [stuck EXCEPT ![t] = FALSE] ELSE stuck
    BY <1>3 DEF Workflows!Enter
  <2>6. /\ stuck' \in [Coroutines -> BOOLEAN] /\ \A u \in Coroutines \ {t} : stuck'[u] = stuck[u]
        /\ ~ stuck'[t] => traced \/ ~ stuck[t]
    BY <1>2, <2>5
  <2> HIDE DEF x
  <2>7. QED
    BY <2>1, <2>2, <2>3, <2>4, <2>6, WorkflowsPush
<1>4. ASSUME NEW finalized \in BOOLEAN, Workflows!Exit(t, finalized)
      PROVE  WorkflowsInv'
  <2> DEFINE x == Head(blocks[t])
  <2>1. blocks[t] # << >> /\ Workflows!Pop(t) /\ x.workflow # Workflows!Remote /\ owner' = owner
    BY <1>4 DEF Workflows!Exit
  <2>2. /\ context' = [context EXCEPT ![t] = IF x.span /\ finalized THEN x.saved ELSE @]
        /\ current' = IF x.workflow = Workflows!Remote THEN current
                      ELSE [current EXCEPT ![ThreadOf[t]] = x.prev]
    BY <1>4, <2>1 DEF Workflows!Exit, Workflows!Restored, WorkflowsInv, WorkflowsType
  <2>3. stuck' = IF x.span THEN [stuck EXCEPT ![t] = finalized => x.stuck] ELSE stuck
    BY <1>4 DEF Workflows!Exit
  <2>4. x \in Blocks
    <3>1. blocks[t] \in Seq(Blocks)
      BY DEF WorkflowsInv, WorkflowsType
    <3>2. QED
      BY <2>1, <3>1, StackFacts
  <2>5. x.stuck \in BOOLEAN /\ x.span \in BOOLEAN
    BY <2>4 DEF Blocks
  <2>6. /\ stuck' \in [Coroutines -> BOOLEAN] /\ \A u \in Coroutines \ {t} : stuck'[u] = stuck[u]
        /\ ~ stuck'[t] => IF x.span THEN finalized /\ ~ x.stuck ELSE ~ stuck[t]
    BY <1>2, <2>3, <2>5
  <2> HIDE DEF x
  <2>7. QED
    BY <2>1, <2>2, <2>6, WorkflowsPop DEF x
<1>5. ASSUME Workflows!Extract(t)
      PROVE  WorkflowsInv'
  <2> DEFINE x == [workflow |-> Workflows!Remote, saved |-> context[t], span |-> TRUE,
                   prev |-> Workflows!None, agents |-> 0, stuck |-> stuck[t]]
  <2>1. Workflows!Push(t, x) /\ UNCHANGED <<current, owner>>
        /\ context' = [context EXCEPT ![t] = Workflows!Remote]
        /\ stuck' = [stuck EXCEPT ![t] = FALSE]
    BY <1>5 DEF Workflows!Extract
  <2>2. /\ x \in Blocks /\ x.workflow = Workflows!Remote /\ x.span /\ x.saved = context[t]
        /\ x.prev = Workflows!None /\ x.stuck = stuck[t]
    BY <1>2 DEF Blocks
  <2>3. context' = [context EXCEPT ![t] = IF x.span THEN x.workflow ELSE @]
    BY <2>1, <2>2
  <2>4. stuck' \in [Coroutines -> BOOLEAN] /\ \A u \in Coroutines \ {t} : stuck'[u] = stuck[u]
    BY <1>2, <2>1
  <2> HIDE DEF x
  <2>5. QED
    BY <2>1, <2>2, <2>3, <2>4, WorkflowsPush
<1>6. ASSUME Workflows!Detach(t)
      PROVE  WorkflowsInv'
  <2> DEFINE x == Head(blocks[t])
  <2>1. blocks[t] # << >> /\ Workflows!Pop(t) /\ x.workflow = Workflows!Remote /\ UNCHANGED <<current, owner>>
        /\ context' = [context EXCEPT ![t] = x.saved] /\ stuck' = [stuck EXCEPT ![t] = x.stuck]
    BY <1>6 DEF Workflows!Detach
  <2>2. x.span /\ x \in Blocks
    <3>1. blocks[t] \in Seq(Blocks) /\ IsNested(t)
      BY DEF WorkflowsInv, WorkflowsType
    <3>2. x = blocks[t][1] /\ 1 \in DOMAIN blocks[t]
      BY <2>1, <3>1, StackFacts
    <3>3. QED
      BY <2>1, <3>1, <3>2 DEF IsNested
  <2>3. context' = [context EXCEPT ![t] = IF x.span /\ TRUE THEN x.saved ELSE @]
    BY <2>1, <2>2
  <2>4. x.stuck \in BOOLEAN
    BY <2>2 DEF Blocks
  <2>5. /\ stuck' \in [Coroutines -> BOOLEAN] /\ \A u \in Coroutines \ {t} : stuck'[u] = stuck[u]
        /\ ~ stuck'[t] => ~ x.stuck
    BY <1>2, <2>1, <2>4
  <2> HIDE DEF x
  <2>6. QED
    BY <2>1, <2>2, <2>3, <2>5, WorkflowsPop DEF x
<1>7. QED
  BY <1>1, <1>3, <1>4, <1>5, <1>6, WorkflowsAgents

\* Nothing else touches the blocks.
LEMMA WorkflowsStutter ==
  ASSUME WorkflowsInv, UNCHANGED workflowVars
  PROVE  WorkflowsInv'
BY DEF workflowVars, WorkflowsInv, WorkflowsType, IsNested, IsOwn, OwnTrace, OwnThread, Nested, FirstAfter,
       Workflows!Traced, Workflows!Workflows, Workflows!Alone, Workflows!EnteredBy, Saved, Surely, Prevs

\* Every step keeps the invariant.
LEMMA WorkflowsStep ==
  ASSUME WorkflowsInv, [Workflows!Next]_(Workflows!vars)
  PROVE  WorkflowsInv'
BY WorkflowsSteps, WorkflowsStutter DEF Workflows!vars, workflowVars

\* What is first in the invariant is innermost in the property.
LEMMA WorkflowsHold ==
  ASSUME WorkflowsInv
  PROVE  Workflows!WorkflowsNest /\ Workflows!TracesFollowTasks
<1>1. ASSUME NEW t \in Coroutines, NEW w, NEW places \in SUBSET DOMAIN blocks[t], FirstAfter(w, blocks[t], places, 0)
      PROVE  Workflows!IsInnermost(w, t, places)
  <2>1. \A i \in places : i > 0 /\ ~ (i <= 0)
    <3>1. DOMAIN blocks[t] = 1..Len(blocks[t]) /\ Len(blocks[t]) \in Nat
      BY LenProperties DEF WorkflowsInv, WorkflowsType
    <3>2. QED
      BY <3>1
  <2>2. QED
    BY <1>1, <2>1 DEF FirstAfter, Workflows!IsInnermost
<1>2. \A t \in Coroutines : Workflows!Traced(t) \subseteq DOMAIN blocks[t]
                            /\ Workflows!Workflows(t) \subseteq DOMAIN blocks[t]
  BY DEF Workflows!Traced, Workflows!Workflows
<1>3. \A t \in Coroutines : 0 \in 0..Len(blocks[t])
  BY LenProperties DEF WorkflowsInv, WorkflowsType
<1>4. Workflows!WorkflowsNest
  BY <1>1, <1>2, <1>3
     DEF WorkflowsInv, IsNested, IsOwn, OwnThread, Nested, Workflows!WorkflowsNest,
         Workflows!InjectedHeaders, Workflows!CurrentWorkflow
<1>5. Workflows!TracesFollowTasks
  <2>1. \A t \in Coroutines : ~ stuck[t] => 0 \in Surely(t)
    BY <1>3 DEF Surely
  <2>2. QED
    BY <1>1, <1>2, <2>1
       DEF WorkflowsInv, IsNested, IsOwn, OwnTrace, Nested, Workflows!TracesFollowTasks,
           Workflows!InjectedHeaders
<1>6. QED
  BY <1>4, <1>5

------------------------------------------------------------------------------
\* Episodes.

Steps(rs, e) == {i \in DOMAIN rs : "completed" \notin DOMAIN rs[i] /\ rs[i].episode = e}
Rewards(rs, e) == {i \in Steps(rs, e) : rs[i].reward = 1}
Ends(rs, e) == {i \in DOMAIN rs : "completed" \in DOMAIN rs[i] /\ rs[i].episode = e}

\* There is one record of episode e, and it adds up.
Closed(rs, e) ==
  \E i \in DOMAIN rs :
    /\ Ends(rs, e) = {i}
    /\ CaptureSteps => Cardinality(Steps(rs, e)) = rs[i].steps /\ Cardinality(Rewards(rs, e)) = rs[i].reward

StepRecs(n) == [episode : 1..n, index : Nat, reward : 0..1]
EndRecs(n) == [episode : 1..n, steps : Nat, reward : Nat, completed : BOOLEAN]
EpisodeRecs(n) == StepRecs(n) \union EndRecs(n)

\* Episode e, of s steps and return r so far, has no record of its own yet.
StillOpen(rs, e, s, r) ==
  /\ Ends(rs, e) = {}
  /\ CaptureSteps => Cardinality(Steps(rs, e)) = s /\ Cardinality(Rewards(rs, e)) = r

EpisodesInv ==
  /\ kind \in {"guardrail", "other"} /\ task \in Nat /\ done \in BOOLEAN
  /\ started \in 0..MaxEpisodes /\ episode \in {Gym!None, started} /\ steps \in Nat /\ return \in Nat
  /\ records \in Seq(EpisodeRecs(started))
  /\ \A e \in 1..started : e # episode => Closed(records, e)
  /\ episode # Gym!None => ~ done /\ task # Gym!None /\ StillOpen(records, episode, steps, return)

\* The component's own notion of size is the library's.
LEMMA GymCounts == \A S : Gym!Cardinality(S) = Cardinality(S)
BY DEF Gym!Cardinality, Gym!IsFiniteSet, Cardinality, IsFiniteSet

\* Which records are of steps, and how many there can be.
LEMMA RecordsAreFinite ==
  ASSUME started \in Nat, NEW rs \in Seq(EpisodeRecs(started)), NEW e
  PROVE  /\ Len(rs) \in Nat /\ DOMAIN rs = 1..Len(rs) /\ \A i \in 1..Len(rs) : rs[i] \in EpisodeRecs(started)
         /\ Steps(rs, e) \subseteq 1..Len(rs) /\ Rewards(rs, e) \subseteq 1..Len(rs)
         /\ IsFiniteSet(Steps(rs, e)) /\ IsFiniteSet(Rewards(rs, e))
         /\ Cardinality(Steps(rs, e)) \in Nat /\ Cardinality(Rewards(rs, e)) \in Nat
<1>1. Len(rs) \in Nat /\ DOMAIN rs = 1..Len(rs) /\ \A i \in 1..Len(rs) : rs[i] \in EpisodeRecs(started)
  BY LenProperties, ElementOfSeq
<1>2. Steps(rs, e) \subseteq 1..Len(rs) /\ Rewards(rs, e) \subseteq 1..Len(rs)
  BY <1>1 DEF Steps, Rewards
<1>3. IsFiniteSet(1..Len(rs))
  BY <1>1, FS_Interval
<1>4. IsFiniteSet(Steps(rs, e)) /\ IsFiniteSet(Rewards(rs, e))
  BY <1>2, <1>3, FS_Subset
<1>5. QED
  BY <1>1, <1>2, <1>4, FS_CardinalityType

\* The record of a step adds to its episode, and to no other.
LEMMA StepIsAdded ==
  ASSUME started \in Nat, NEW rs \in Seq(EpisodeRecs(started)), NEW r \in StepRecs(started), NEW e
  PROVE  /\ Append(rs, r) \in Seq(EpisodeRecs(started))
         /\ Ends(Append(rs, r), e) = Ends(rs, e)
         /\ \A i \in Ends(rs, e) : Append(rs, r)[i] = rs[i]
         /\ e # r.episode => /\ Steps(Append(rs, r), e) = Steps(rs, e)
                             /\ Rewards(Append(rs, r), e) = Rewards(rs, e)
         /\ e = r.episode =>
              /\ Cardinality(Steps(Append(rs, r), e)) = Cardinality(Steps(rs, e)) + 1
              /\ Cardinality(Rewards(Append(rs, r), e)) = Cardinality(Rewards(rs, e)) + r.reward
<1> DEFINE new == Append(rs, r)
           k == Len(rs) + 1
<1>1. /\ Len(rs) \in Nat /\ DOMAIN rs = 1..Len(rs) /\ Steps(rs, e) \subseteq 1..Len(rs) /\ Rewards(rs, e) \subseteq 1..Len(rs)
      /\ IsFiniteSet(Steps(rs, e)) /\ IsFiniteSet(Rewards(rs, e))
      /\ Cardinality(Steps(rs, e)) \in Nat /\ Cardinality(Rewards(rs, e)) \in Nat
  BY RecordsAreFinite
<1>2. "completed" \notin DOMAIN r /\ r.reward \in {0, 1} /\ r \in EpisodeRecs(started)
  BY DEF StepRecs, EpisodeRecs
<1>3. /\ new \in Seq(EpisodeRecs(started)) /\ Len(new) = k
      /\ new[k] = r /\ \A i \in 1..Len(rs) : new[i] = rs[i]
  BY <1>2, AppendProperties
<1>4. DOMAIN new = 1..Len(rs) \union {k} /\ k \notin 1..Len(rs)
  BY <1>1, <1>3, LenProperties
<1> HIDE DEF new, k
<1>5. Ends(new, e) = Ends(rs, e) /\ \A i \in Ends(rs, e) : new[i] = rs[i]
  BY <1>1, <1>2, <1>3, <1>4 DEF Ends
<1>6. Steps(new, e) = IF e = r.episode THEN Steps(rs, e) \union {k} ELSE Steps(rs, e)
  BY <1>1, <1>2, <1>3, <1>4 DEF Steps
<1>7. Rewards(new, e) = IF e = r.episode /\ r.reward = 1 THEN Rewards(rs, e) \union {k} ELSE Rewards(rs, e)
  BY <1>1, <1>2, <1>3, <1>4 DEF Rewards, Steps
<1>8. k \notin Steps(rs, e) /\ k \notin Rewards(rs, e)
  BY <1>1, <1>4
<1>9. /\ Cardinality(Steps(rs, e) \union {k}) = Cardinality(Steps(rs, e)) + 1
      /\ Cardinality(Rewards(rs, e) \union {k}) = Cardinality(Rewards(rs, e)) + 1
  BY <1>1, <1>8, FS_AddElement
<1>10. QED
  <2>1. e = r.episode => Cardinality(Rewards(new, e)) = Cardinality(Rewards(rs, e)) + r.reward
    <3>1. CASE r.reward = 1
      BY <1>7, <1>9, <3>1
    <3>2. CASE r.reward = 0
      BY <1>1, <1>7, <3>2
    <3>3. QED
      BY <1>2, <3>1, <3>2
  <2>2. QED
    BY <1>3, <1>5, <1>6, <1>7, <1>9, <2>1 DEF new

\* What the record of an episode adds to a list.
EndAdded(new, rs, r, e) ==
  /\ e # r.episode => Ends(new, e) = Ends(rs, e)
  /\ e = r.episode => Ends(new, e) = Ends(rs, e) \union {Len(rs) + 1}
  /\ \A i \in Ends(rs, e) : new[i] = rs[i]
  /\ Steps(new, e) = Steps(rs, e) /\ Rewards(new, e) = Rewards(rs, e)

\* The record of an episode adds to no steps.
LEMMA EndIsAdded ==
  ASSUME started \in Nat, NEW rs \in Seq(EpisodeRecs(started)), NEW r \in EndRecs(started), NEW e
  PROVE  /\ Append(rs, r) \in Seq(EpisodeRecs(started)) /\ Len(rs) + 1 \in DOMAIN Append(rs, r)
         /\ Append(rs, r)[Len(rs) + 1] = r
         /\ EndAdded(Append(rs, r), rs, r, e)
<1> DEFINE new == Append(rs, r)
           k == Len(rs) + 1
<1>1. Len(rs) \in Nat /\ DOMAIN rs = 1..Len(rs)
  BY RecordsAreFinite
<1>2. "completed" \in DOMAIN r /\ r \in EpisodeRecs(started)
  BY DEF EndRecs, EpisodeRecs
<1>3. /\ new \in Seq(EpisodeRecs(started)) /\ Len(new) = k
      /\ new[k] = r /\ \A i \in 1..Len(rs) : new[i] = rs[i]
  BY <1>2, AppendProperties
<1>4. DOMAIN new = 1..Len(rs) \union {k} /\ k \notin 1..Len(rs)
  BY <1>1, <1>3, LenProperties
<1> HIDE DEF new, k
<1>5. /\ e # r.episode => Ends(new, e) = Ends(rs, e)
      /\ e = r.episode => Ends(new, e) = Ends(rs, e) \union {k}
  BY <1>1, <1>2, <1>3, <1>4 DEF Ends
<1>6. \A i \in Ends(rs, e) : new[i] = rs[i]
  BY <1>1, <1>3 DEF Ends
<1>7. Steps(new, e) = Steps(rs, e)
  BY <1>1, <1>2, <1>3, <1>4 DEF Steps
<1>8. Rewards(new, e) = Rewards(rs, e)
  BY <1>1, <1>3, <1>7 DEF Rewards, Steps
<1>9. QED
  BY <1>3, <1>4, <1>5, <1>6, <1>7, <1>8 DEF new, k, EndAdded

\* What is closed stays closed.
LEMMA ClosedStays ==
  ASSUME NEW rs, NEW new, NEW e, Closed(rs, e), Ends(new, e) = Ends(rs, e), Ends(new, e) \subseteq DOMAIN new,
         \A i \in Ends(rs, e) : new[i] = rs[i], Steps(new, e) = Steps(rs, e), Rewards(new, e) = Rewards(rs, e)
  PROVE  Closed(new, e)
BY DEF Closed

\* What is recorded of a step, if steps are.
WithStep(rs, f, index, reward) ==
  IF CaptureSteps THEN Append(rs, [episode |-> f, index |-> index, reward |-> reward]) ELSE rs

\* A step that is recorded keeps an open episode's account.
LEMMA StepsAreRecorded ==
  ASSUME NEW f \in 1..started, started \in Nat, NEW s \in Nat, NEW r \in Nat, NEW reward \in 0..1,
         NEW rs \in Seq(EpisodeRecs(started)), StillOpen(rs, f, s, r),
         \A e \in 1..started : e # f => Closed(rs, e), NEW index \in Nat
  PROVE  /\ WithStep(rs, f, index, reward) \in Seq(EpisodeRecs(started))
         /\ StillOpen(WithStep(rs, f, index, reward), f, s + 1, r + reward)
         /\ \A e \in 1..started : e # f => Closed(WithStep(rs, f, index, reward), e)
<1> DEFINE new == WithStep(rs, f, index, reward)
<1>1. CASE ~ CaptureSteps
  BY <1>1 DEF StillOpen, WithStep
<1>2. CASE CaptureSteps
  <2> DEFINE it == [episode |-> f, index |-> index, reward |-> reward]
  <2>1. it \in StepRecs(started) /\ it.episode = f /\ it.reward = reward /\ new = Append(rs, it)
    BY <1>2 DEF StepRecs, WithStep
  <2> HIDE DEF it, new
  <2>2. /\ new \in Seq(EpisodeRecs(started))
        /\ \A e : /\ Ends(new, e) = Ends(rs, e) /\ \A i \in Ends(rs, e) : new[i] = rs[i]
                  /\ e # f => Steps(new, e) = Steps(rs, e) /\ Rewards(new, e) = Rewards(rs, e)
    <3>1. new \in Seq(EpisodeRecs(started))
      BY <2>1, StepIsAdded
    <3>2. ASSUME NEW e
          PROVE  /\ Ends(new, e) = Ends(rs, e) /\ \A i \in Ends(rs, e) : new[i] = rs[i]
                 /\ e # f => Steps(new, e) = Steps(rs, e) /\ Rewards(new, e) = Rewards(rs, e)
      <4>1. /\ Ends(Append(rs, it), e) = Ends(rs, e) /\ \A i \in Ends(rs, e) : Append(rs, it)[i] = rs[i]
            /\ e # it.episode => /\ Steps(Append(rs, it), e) = Steps(rs, e)
                                 /\ Rewards(Append(rs, it), e) = Rewards(rs, e)
        <5>1. it \in StepRecs(started)
          BY <2>1
        <5>2. QED
          BY <5>1, StepIsAdded
      <4>2. QED
        BY <2>1, <4>1
    <3>3. QED
      BY <3>1, <3>2
  <2>3. /\ Cardinality(Steps(new, f)) = Cardinality(Steps(rs, f)) + 1
        /\ Cardinality(Rewards(new, f)) = Cardinality(Rewards(rs, f)) + reward
    BY <2>1, StepIsAdded
  <2>4. StillOpen(new, f, s + 1, r + reward)
    BY <2>2, <2>3 DEF StillOpen
  <2>5. \A e : Ends(new, e) \subseteq DOMAIN new
    BY DEF Ends
  <2>6. \A e \in 1..started : e # f => Closed(new, e)
    BY <2>2, <2>5, ClosedStays
  <2>7. QED
    BY <2>2, <2>4, <2>6 DEF new
<1>3. QED
  BY <1>1, <1>2

\* Finalizing the open episode, if there is one, leaves all of them closed.
LEMMA EpisodesAreFinalized ==
  ASSUME started \in Nat, NEW f, f = Gym!None \/ f = started, NEW s \in Nat, NEW r \in Nat, NEW completed \in BOOLEAN,
         NEW rs \in Seq(EpisodeRecs(started)), f # Gym!None => StillOpen(rs, f, s, r),
         \A e \in 1..started : e # f => Closed(rs, e),
         NEW new, new = rs \o Gym!Episode(f, s, r, completed)
  PROVE  new \in Seq(EpisodeRecs(started)) /\ \A e \in 1..started : Closed(new, e)
<1>1. CASE f = Gym!None
  <2>1. new = rs
    BY <1>1, ConcatEmptySeq DEF Gym!Episode
  <2>2. \A e \in 1..started : e # f
    BY <1>1 DEF Gym!None
  <2>3. QED
    BY <2>1, <2>2
<1>2. CASE f # Gym!None
  <2> DEFINE it == [episode |-> f, steps |-> s, reward |-> r, completed |-> completed]
             k == Len(rs) + 1
  <2>1. f = started /\ f \in 1..started
    BY <1>2 DEF Gym!None
  <2>2. /\ it \in EndRecs(started) /\ it.episode = f /\ it.steps = s /\ it.reward = r
        /\ Gym!Episode(f, s, r, completed) = <<it>>
    BY <1>2, <2>1 DEF EndRecs, Gym!Episode
  <2> HIDE DEF it
  <2>3. new = Append(rs, it)
    BY <2>2, AppendIsConcat DEF EpisodeRecs
  <2>4. /\ new \in Seq(EpisodeRecs(started)) /\ k \in DOMAIN new /\ new[k] = it
        /\ \A e : /\ Ends(new, e) = Ends(rs, e) \union (IF e = f THEN {k} ELSE {})
                  /\ \A i \in Ends(rs, e) : new[i] = rs[i]
                  /\ Steps(new, e) = Steps(rs, e) /\ Rewards(new, e) = Rewards(rs, e)
    <3> HIDE DEF k
    <3>1. new \in Seq(EpisodeRecs(started)) /\ k \in DOMAIN new /\ new[k] = it
      <4>1. it \in EndRecs(started)
        BY <2>2
      <4>2. /\ Append(rs, it) \in Seq(EpisodeRecs(started)) /\ k \in DOMAIN Append(rs, it)
            /\ Append(rs, it)[k] = it
        BY <4>1, EndIsAdded DEF k
      <4>3. QED
        BY <2>3, <4>2
    <3>2. ASSUME NEW e
          PROVE  /\ Ends(new, e) = Ends(rs, e) \union (IF e = f THEN {k} ELSE {})
                 /\ \A i \in Ends(rs, e) : new[i] = rs[i]
                 /\ Steps(new, e) = Steps(rs, e) /\ Rewards(new, e) = Rewards(rs, e)
      <4>1. it \in EndRecs(started) /\ it.episode = f
        BY <2>2
      <4>2. /\ e # it.episode => Ends(Append(rs, it), e) = Ends(rs, e)
            /\ e = it.episode => Ends(Append(rs, it), e) = Ends(rs, e) \union {Len(rs) + 1}
            /\ \A i \in Ends(rs, e) : Append(rs, it)[i] = rs[i]
            /\ Steps(Append(rs, it), e) = Steps(rs, e) /\ Rewards(Append(rs, it), e) = Rewards(rs, e)
        <5>1. it \in EndRecs(started)
          BY <4>1
        <5>2. EndAdded(Append(rs, it), rs, it, e)
          BY <5>1, EndIsAdded
        <5>3. QED
          BY <5>2 DEF EndAdded
      <4>3. QED
        BY <2>3, <4>1, <4>2 DEF k
    <3>3. QED
      BY <3>1, <3>2
  <2> HIDE DEF k
  <2>5. \A e : Ends(new, e) \subseteq DOMAIN new
    BY DEF Ends
  <2>6. \A e \in 1..started : e # f => Closed(new, e)
    <3>1. \A e : e # f => Ends(new, e) = Ends(rs, e)
      BY <2>4
    <3>2. QED
      BY <2>4, <2>5, <3>1, ClosedStays
  <2>7. Closed(new, f)
    <3>1. Ends(new, f) = {k}
      BY <1>2, <2>4 DEF StillOpen
    <3>2. CaptureSteps => Cardinality(Steps(new, f)) = it.steps /\ Cardinality(Rewards(new, f)) = it.reward
      BY <1>2, <2>2, <2>4 DEF StillOpen
    <3>3. QED
      BY <2>4, <3>1, <3>2 DEF Closed
  <2>8. QED
    BY <2>4, <2>6, <2>7
<1>3. QED
  BY <1>1, <1>2

\* At first no episode was begun.
LEMMA EpisodesStart == Gym!Init => EpisodesInv
<1> SUFFICES ASSUME Gym!Init PROVE EpisodesInv
  OBVIOUS
<1>1. MaxEpisodes \in Nat /\ Gym!None = 0
  BY SideAssumption DEF Gym!EpisodesAssumption, Gym!None
<1>2. QED
  BY <1>1, EmptySeq DEF Gym!Init, EpisodesInv

\* A reset finalizes the open episode, and opens one if the environment's returned.
LEMMA EpisodesReset ==
  ASSUME EpisodesInv, NEW index \in 1..EnvTasks + 1, Gym!Reset(index)
  PROVE  EpisodesInv'
<1>1. /\ started \in Nat /\ MaxEpisodes \in Nat /\ EnvTasks \in Nat /\ Gym!None = 0 /\ started < MaxEpisodes
      /\ index \in Nat /\ index # 0
  BY SideAssumption DEF Gym!EpisodesAssumption, Gym!None, EpisodesInv, Gym!Reset
<1>2. records' \in Seq(EpisodeRecs(started)) /\ \A e \in 1..started : Closed(records', e)
  <2>1. /\ episode \in {Gym!None, started} /\ steps \in Nat /\ return \in Nat
        /\ records \in Seq(EpisodeRecs(started)) /\ FALSE \in BOOLEAN
        /\ episode # Gym!None => StillOpen(records, episode, steps, return)
        /\ \A e \in 1..started : e # episode => Closed(records, e)
        /\ records' = records \o Gym!Episode(episode, steps, return, FALSE)
    BY DEF EpisodesInv, Gym!Reset
  <2>2. QED
    BY <1>1, <2>1, EpisodesAreFinalized
<1>3. CASE Gym!EnvResets(index)
  <2>1. /\ episode' = started + 1 /\ started' = started + 1 /\ steps' = 0 /\ return' = 0
        /\ task' = index /\ done' = FALSE /\ kind' = kind
    BY <1>3 DEF Gym!Reset, Gym!Opens
  <2>2. records' \in Seq(EpisodeRecs(started'))
    <3>1. EpisodeRecs(started) \subseteq EpisodeRecs(started')
      <4>1. 1..started \subseteq 1..started'
        BY <1>1, <2>1
      <4>2. QED
        BY <4>1 DEF EpisodeRecs, StepRecs, EndRecs
    <3>2. QED
      BY <1>2, <3>1, SeqMonotonic
  <2>3. StillOpen(records', started + 1, 0, 0)
    <3>1. \A i \in DOMAIN records' : records'[i].episode \in 1..started
      <4>1. \A i \in DOMAIN records' : records'[i] \in EpisodeRecs(started)
        BY <1>1, <1>2, RecordsAreFinite
      <4>2. QED
        BY <4>1 DEF EpisodeRecs, StepRecs, EndRecs
    <3>2. \A i \in DOMAIN records' : records'[i].episode # started + 1
      BY <1>1, <3>1
    <3>3. Ends(records', started + 1) = {} /\ Steps(records', started + 1) = {} /\ Rewards(records', started + 1) = {}
      BY <3>2 DEF Ends, Steps, Rewards
    <3>4. QED
      BY <3>3, FS_EmptySet DEF StillOpen
  <2>4. \A e \in 1..started' : e # episode' => Closed(records', e)
    <3>1. \A e \in 1..started' : e # started + 1 => e \in 1..started
      BY <1>1, <2>1
    <3>2. QED
      BY <1>2, <2>1, <3>1
  <2>5. started' \in 0..MaxEpisodes /\ task' \in Nat /\ task' # Gym!None
    BY <1>1, <2>1
  <2>6. QED
    BY <2>1, <2>2, <2>3, <2>4, <2>5 DEF EpisodesInv
<1>4. CASE ~ Gym!EnvResets(index)
  <2>1. episode' = Gym!None /\ UNCHANGED <<started, steps, return, task, done, kind>>
    BY <1>4 DEF Gym!Reset, Gym!Opens, Gym!None
  <2>2. QED
    BY <1>2, <2>1 DEF EpisodesInv
<1>5. QED
  BY <1>3, <1>4

\* A step is recorded, and the last one with its episode.
LEMMA EpisodesStep ==
  ASSUME EpisodesInv, NEW out, NEW reward \in 0..1, Gym!Step(out, reward)
  PROVE  EpisodesInv'
<1> DEFINE now == WithStep(records, episode, steps, reward)
<1>1. /\ started \in Nat /\ episode = started /\ episode \in 1..started /\ Gym!None = 0
      /\ steps \in Nat /\ return \in Nat /\ records \in Seq(EpisodeRecs(started))
      /\ StillOpen(records, episode, steps, return) /\ task # Gym!None
      /\ \A e \in 1..started : e # episode => Closed(records, e)
  <2>1. episode # Gym!None /\ Gym!None = 0
    BY DEF Gym!Step, Gym!None
  <2>2. started \in Nat /\ episode = started
    BY <2>1, SideAssumption DEF Gym!EpisodesAssumption, EpisodesInv
  <2>3. started # 0 /\ started \in 1..started
    BY <2>1, <2>2
  <2>4. QED
    BY <2>1, <2>2, <2>3 DEF EpisodesInv
<1>2. /\ now \in Seq(EpisodeRecs(started)) /\ StillOpen(now, episode, steps + 1, return + reward)
      /\ \A e \in 1..started : e # episode => Closed(now, e)
  BY <1>1, StepsAreRecorded
<1>3. records \o Gym!StepRecord(reward) = now
  <2> DEFINE it == [episode |-> episode, index |-> steps, reward |-> reward]
  <2>1. it \in EpisodeRecs(started)
    BY <1>1 DEF EpisodeRecs, StepRecs
  <2>2. Append(records, it) = records \o <<it>>
    BY <1>1, <2>1, AppendIsConcat
  <2>3. records \o << >> = records
    BY <1>1, ConcatEmptySeq
  <2>4. QED
    BY <2>2, <2>3 DEF Gym!StepRecord, WithStep
<1> HIDE DEF now
<1>4. /\ steps' = steps + 1 /\ return' = return + reward /\ UNCHANGED <<kind, task, started>>
      /\ steps' \in Nat /\ return' \in Nat /\ done' = (out = "ends")
  <2>1. /\ steps' = steps + 1 /\ return' = return + reward /\ UNCHANGED <<kind, task, started>>
        /\ done' = (out = "ends")
    BY DEF Gym!Step
  <2>2. steps + 1 \in Nat /\ return + reward \in Nat
    BY <1>1
  <2>3. QED
    BY <2>1, <2>2
<1>5. CASE out = "ends"
  <2>1. episode' = Gym!None /\ records' = now \o Gym!Episode(episode, steps + 1, return + reward, TRUE)
    BY <1>3, <1>5 DEF Gym!Step, Gym!None
  <2>2. records' \in Seq(EpisodeRecs(started)) /\ \A e \in 1..started : Closed(records', e)
    BY <1>1, <1>2, <1>4, <2>1, EpisodesAreFinalized
  <2>3. QED
    BY <1>4, <2>1, <2>2 DEF EpisodesInv
<1>6. CASE out # "ends"
  <2>1. episode' = episode /\ records' = now \o << >>
    BY <1>3, <1>6 DEF Gym!Step
  <2>2. records' = now
    BY <1>2, <2>1, ConcatEmptySeq
  <2>3. done' = FALSE
    BY <1>4, <1>6
  <2>4. QED
    BY <1>1, <1>2, <1>4, <2>1, <2>2, <2>3 DEF EpisodesInv
<1>7. QED
  BY <1>5, <1>6

\* So does a close.
LEMMA EpisodesClose ==
  ASSUME EpisodesInv, Gym!Close
  PROVE  EpisodesInv'
<1>1. started \in Nat
  BY SideAssumption DEF Gym!EpisodesAssumption, EpisodesInv
<1>2. /\ episode \in {Gym!None, started} /\ steps \in Nat /\ return \in Nat
      /\ records \in Seq(EpisodeRecs(started)) /\ FALSE \in BOOLEAN
      /\ episode # Gym!None => StillOpen(records, episode, steps, return)
      /\ \A e \in 1..started : e # episode => Closed(records, e)
      /\ records' = records \o Gym!Episode(episode, steps, return, FALSE)
  BY DEF EpisodesInv, Gym!Close
<1>3. records' \in Seq(EpisodeRecs(started)) /\ \A e \in 1..started : Closed(records', e)
  BY <1>1, <1>2, EpisodesAreFinalized
<1>4. QED
  BY <1>3 DEF EpisodesInv, Gym!Close, Gym!None

\* Every action keeps the invariant.
LEMMA EpisodesSteps ==
  ASSUME EpisodesInv, Gym!Next
  PROVE  EpisodesInv'
<1>1. \A reward : reward \in {0, 1} => reward \in 0..1
  OBVIOUS
<1>2. QED
  BY <1>1, EpisodesReset, EpisodesStep, EpisodesClose DEF Gym!Next

\* Nothing else touches the records.
LEMMA EpisodesStutter ==
  ASSUME EpisodesInv, UNCHANGED episodeVars
  PROVE  EpisodesInv'
BY DEF episodeVars, EpisodesInv

\* Every step keeps the invariant.
LEMMA RecordsStep ==
  ASSUME EpisodesInv, [Gym!Next]_(Gym!vars)
  PROVE  EpisodesInv'
BY EpisodesSteps, EpisodesStutter DEF Gym!vars, episodeVars

\* Closed episodes add up.
LEMMA EpisodesHold ==
  ASSUME EpisodesInv
  PROVE  Gym!EpisodesAddUp
<1>1. ASSUME NEW e \in 1..started \ {episode}
      PROVE  \E i \in Gym!EpisodeRecords :
               /\ records[i].episode = e
               /\ \A j \in Gym!EpisodeRecords \ {i} : records[j].episode # e
               /\ CaptureSteps => /\ Gym!Cardinality(Gym!StepsOf(e)) = records[i].steps
                                  /\ Gym!Cardinality(Gym!Rewarded(e)) = records[i].reward
  <2>1. PICK i \in DOMAIN records :
          /\ Ends(records, e) = {i}
          /\ CaptureSteps => /\ Cardinality(Steps(records, e)) = records[i].steps
                             /\ Cardinality(Rewards(records, e)) = records[i].reward
    BY <1>1 DEF EpisodesInv, Closed
  <2>2. i \in Gym!EpisodeRecords /\ records[i].episode = e
        /\ \A j \in Gym!EpisodeRecords \ {i} : records[j].episode # e
    BY <2>1 DEF Ends, Gym!EpisodeRecords
  <2>3. Gym!StepsOf(e) = Steps(records, e)
    BY DEF Gym!StepsOf, Gym!EpisodeRecords, Steps
  <2>4. Gym!Rewarded(e) = Rewards(records, e)
    BY <2>3 DEF Gym!Rewarded, Rewards
  <2>5. QED
    BY <2>1, <2>2, <2>3, <2>4, GymCounts
<1>2. QED
  BY <1>1 DEF EpisodesInv, Gym!EpisodesAddUp

------------------------------------------------------------------------------
\* EvalRuns.

Counted(cs, verdicts) == Cardinality({i \in DOMAIN cs : cs[i] \in verdicts})
BeingExported(verdicts) == {t \in Threads : thread[t].at = "export" /\ Head(thread[t].todo) \in verdicts}
Summaries == [total : Nat, passed : Nat, failed : Nat]
AtMost(s, cs) == s.total <= Len(cs) /\ s.passed <= Evals!Count(cs, "passed")

ThreadStates ==
  [at : {"idle", "summarize"}]
    \union [at : {"check", "append", "export"}, todo : Seq(Evals!Verdicts) \ {<< >>}]
    \union [at : {"emit"}, summary : Summaries]

EvalsType ==
  /\ cases \in Seq(Evals!Verdicts) /\ exported \in Seq(Evals!Verdicts) /\ runs \in Seq(Summaries)
  /\ thread \in [Threads -> ThreadStates] /\ raced \in BOOLEAN

\* The cases are those exported and those on their way to be.
CasesAreExported ==
  \A verdicts \in SUBSET Evals!Verdicts :
    Counted(cases, verdicts) = Counted(exported, verdicts) + Cardinality(BeingExported(verdicts))

SummariesAreOfCases ==
  /\ \A i \in DOMAIN runs : AtMost(runs[i], cases)
  /\ \A t \in Threads : thread[t].at = "emit" => AtMost(thread[t].summary, cases)
  /\ record = Evals!None => runs = << >>

\* As long as no finish overlapped with another call.
FinishesAlone ==
  /\ \A t, u \in Threads : thread[t].at \in {"summarize", "emit"} /\ t # u => thread[u].at = "idle"
  /\ \A t \in Threads :
       /\ thread[t].at \in {"summarize", "emit", "append", "export"} => record = Evals!None
       /\ thread[t].at = "emit" => thread[t].summary = Evals!Summary(cases)
  /\ record # Evals!None => runs = <<Evals!Summary(cases)>>

EvalsInv == EvalsType /\ CasesAreExported /\ SummariesAreOfCases /\ (~ raced => FinishesAlone)

\* The component's own notion of size is the library's.
LEMMA EvalCounts ==
  /\ \A S : Evals!Cardinality(S) = Cardinality(S)
  /\ \A S : Evals!IsFiniteSet(S) <=> IsFiniteSet(S)
BY DEF Evals!Cardinality, Evals!IsFiniteSet, Cardinality, IsFiniteSet

\* Counting in a list, and what an append adds to a count.
LEMMA CountGrows ==
  ASSUME NEW cs \in Seq(Evals!Verdicts), NEW verdicts
  PROVE  /\ Counted(cs, verdicts) \in Nat
         /\ \A v \in Evals!Verdicts :
              Counted(Append(cs, v), verdicts) = Counted(cs, verdicts) + (IF v \in verdicts THEN 1 ELSE 0)
<1> DEFINE S(s) == {i \in DOMAIN s : s[i] \in verdicts}
<1>1. Len(cs) \in Nat /\ DOMAIN cs = 1..Len(cs)
  BY LenProperties
<1>2. IsFiniteSet(S(cs)) /\ Cardinality(S(cs)) \in Nat
  <2>1. S(cs) \subseteq 1..Len(cs) /\ IsFiniteSet(1..Len(cs))
    BY <1>1, FS_Interval
  <2>2. QED
    BY <2>1, FS_Subset, FS_CardinalityType
<1>3. ASSUME NEW v \in Evals!Verdicts
      PROVE  Cardinality(S(Append(cs, v))) = Cardinality(S(cs)) + (IF v \in verdicts THEN 1 ELSE 0)
  <2> DEFINE new == Append(cs, v)
             k == Len(cs) + 1
  <2>1. /\ new \in Seq(Evals!Verdicts) /\ Len(new) = k /\ new[k] = v
        /\ \A i \in 1..Len(cs) : new[i] = cs[i]
    BY AppendProperties
  <2>2. DOMAIN new = 1..Len(cs) \union {k} /\ k \notin 1..Len(cs)
    BY <1>1, <2>1, LenProperties
  <2> HIDE DEF new, k
  <2>3. S(new) = IF v \in verdicts THEN S(cs) \union {k} ELSE S(cs)
    BY <1>1, <2>1, <2>2
  <2>4. k \notin S(cs)
    BY <1>1, <2>2
  <2> HIDE DEF S
  <2>5. Cardinality(S(cs) \union {k}) = Cardinality(S(cs)) + 1
    BY <1>2, <2>4, FS_AddElement
  <2>6. QED
    BY <1>2, <2>3, <2>5 DEF new
<1>4. QED
  BY <1>2, <1>3 DEF Counted

\* What the model counts.
LEMMA CountsAgree ==
  ASSUME NEW cs \in Seq(Evals!Verdicts)
  PROVE  /\ \A v : Evals!Count(cs, v) = Counted(cs, {v})
         /\ Len(cs) = Counted(cs, Evals!Verdicts)
         /\ Evals!Summary(cs) = [total |-> Counted(cs, Evals!Verdicts), passed |-> Counted(cs, {"passed"}),
                                 failed |-> Counted(cs, {"failed"})]
         /\ Evals!Summary(cs) \in Summaries
<1>1. ASSUME NEW v PROVE Evals!Count(cs, v) = Counted(cs, {v})
  <2>1. {i \in DOMAIN cs : cs[i] = v} = {i \in DOMAIN cs : cs[i] \in {v}}
    OBVIOUS
  <2>2. QED
    BY <2>1, EvalCounts DEF Evals!Count, Counted
<1>2. Len(cs) = Counted(cs, Evals!Verdicts)
  <2>1. Len(cs) \in Nat /\ DOMAIN cs = 1..Len(cs) /\ \A i \in DOMAIN cs : cs[i] \in Evals!Verdicts
    BY LenProperties, ElementOfSeq
  <2>2. {i \in DOMAIN cs : cs[i] \in Evals!Verdicts} = 1..Len(cs)
    BY <2>1
  <2>3. Cardinality(1..Len(cs)) = Len(cs)
    BY <2>1, FS_Interval
  <2>4. QED
    BY <2>2, <2>3 DEF Counted
<1>3. Counted(cs, Evals!Verdicts) \in Nat /\ Counted(cs, {"passed"}) \in Nat /\ Counted(cs, {"failed"}) \in Nat
  BY CountGrows
<1>4. Evals!Summary(cs) = [total |-> Counted(cs, Evals!Verdicts), passed |-> Counted(cs, {"passed"}),
                           failed |-> Counted(cs, {"failed"})]
  BY <1>1, <1>2 DEF Evals!Summary
<1>5. Evals!Summary(cs) \in Summaries
  BY <1>3, <1>4 DEF Summaries
<1>6. QED
  BY <1>1, <1>2, <1>4, <1>5

\* A summary that is no more than some cases is no more than these and another.
LEMMA SummaryStaysBelow ==
  ASSUME NEW cs \in Seq(Evals!Verdicts), NEW v \in Evals!Verdicts, NEW s \in Summaries, AtMost(s, cs)
  PROVE  AtMost(s, Append(cs, v))
<1>1. Append(cs, v) \in Seq(Evals!Verdicts)
  BY AppendProperties
<1>2. /\ s.total \in Nat /\ s.passed \in Nat
      /\ s.total <= Counted(cs, Evals!Verdicts) /\ s.passed <= Counted(cs, {"passed"})
  BY CountsAgree DEF AtMost, Summaries
<1>3. /\ Counted(cs, Evals!Verdicts) \in Nat /\ Counted(cs, {"passed"}) \in Nat
      /\ Counted(Append(cs, v), Evals!Verdicts) \in Nat /\ Counted(Append(cs, v), {"passed"}) \in Nat
      /\ Counted(Append(cs, v), Evals!Verdicts) >= Counted(cs, Evals!Verdicts)
      /\ Counted(Append(cs, v), {"passed"}) >= Counted(cs, {"passed"})
  <2>1. ASSUME NEW verdicts
        PROVE  /\ Counted(cs, verdicts) \in Nat /\ Counted(Append(cs, v), verdicts) \in Nat
               /\ Counted(Append(cs, v), verdicts) >= Counted(cs, verdicts)
    BY <1>1, CountGrows
  <2>2. QED
    BY <2>1
<1>4. s.total <= Counted(Append(cs, v), Evals!Verdicts) /\ s.passed <= Counted(Append(cs, v), {"passed"})
  BY <1>2, <1>3
<1>5. Len(Append(cs, v)) = Counted(Append(cs, v), Evals!Verdicts)
      /\ Evals!Count(Append(cs, v), "passed") = Counted(Append(cs, v), {"passed"})
  BY <1>1, CountsAgree
<1>6. QED
  BY <1>4, <1>5 DEF AtMost

\* Who is on the way to export a case, after a step of t.
LEMMA ExportingMoves ==
  ASSUME EvalsType, NEW t \in Threads, NEW s \in ThreadStates, thread' = [thread EXCEPT ![t] = s], NEW verdicts
  PROVE  /\ thread'[t] = s /\ \A u \in Threads \ {t} : thread'[u] = thread[u]
         /\ thread' \in [Threads -> ThreadStates]
         /\ Cardinality(BeingExported(verdicts)) \in Nat
         /\ thread[t].at # "export" /\ s.at # "export" => BeingExported(verdicts)' = BeingExported(verdicts)
         /\ thread[t].at # "export" /\ s.at = "export" =>
              Cardinality(BeingExported(verdicts)') =
                Cardinality(BeingExported(verdicts)) + (IF Head(s.todo) \in verdicts THEN 1 ELSE 0)
         /\ thread[t].at = "export" /\ s.at # "export" =>
              Cardinality(BeingExported(verdicts)) =
                Cardinality(BeingExported(verdicts)') + (IF Head(thread[t].todo) \in verdicts THEN 1 ELSE 0)
<1> DEFINE S == BeingExported(verdicts)
           T == BeingExported(verdicts)'
<1>1. /\ thread'[t] = s /\ \A u \in Threads \ {t} : thread'[u] = thread[u]
      /\ thread' \in [Threads -> ThreadStates]
  BY DEF EvalsType
<1>2. IsFiniteSet(S) /\ IsFiniteSet(T) /\ Cardinality(S) \in Nat /\ Cardinality(T) \in Nat
  <2>1. IsFiniteSet(Threads) /\ S \subseteq Threads /\ T \subseteq Threads
    BY SideAssumption, EvalCounts DEF Evals!EvalAssumption, BeingExported
  <2>2. QED
    BY <2>1, FS_Subset, FS_CardinalityType
<1>3. /\ t \in S <=> thread[t].at = "export" /\ Head(thread[t].todo) \in verdicts
      /\ t \in T <=> s.at = "export" /\ Head(s.todo) \in verdicts
      /\ \A u \in Threads \ {t} : u \in S <=> u \in T
      /\ \A u : u \in S \/ u \in T => u \in Threads
  BY <1>1 DEF BeingExported
<1> HIDE DEF S, T
<1>4. CASE thread[t].at # "export" /\ s.at # "export"
  <2>1. S = T
    BY <1>3, <1>4
  <2>2. QED
    BY <1>1, <1>2, <1>4, <2>1 DEF S, T
<1>5. CASE thread[t].at # "export" /\ s.at = "export"
  <2>1. T = IF Head(s.todo) \in verdicts THEN S \union {t} ELSE S
    BY <1>3, <1>5
  <2>2. t \notin S /\ Cardinality(S \union {t}) = Cardinality(S) + 1
    BY <1>2, <1>3, <1>5, FS_AddElement
  <2>3. Cardinality(T) = Cardinality(S) + (IF Head(s.todo) \in verdicts THEN 1 ELSE 0)
    BY <1>2, <2>1, <2>2
  <2>4. QED
    BY <1>1, <1>2, <1>5, <2>3 DEF S, T
<1>6. CASE thread[t].at = "export" /\ s.at # "export"
  <2>1. S = IF Head(thread[t].todo) \in verdicts THEN T \union {t} ELSE T
    BY <1>3, <1>6
  <2>2. t \notin T /\ Cardinality(T \union {t}) = Cardinality(T) + 1
    BY <1>2, <1>3, <1>6, FS_AddElement
  <2>3. Cardinality(S) = Cardinality(T) + (IF Head(thread[t].todo) \in verdicts THEN 1 ELSE 0)
    BY <1>2, <2>1, <2>2
  <2>4. QED
    BY <1>1, <1>2, <1>6, <2>3 DEF S, T
<1>7. CASE thread[t].at = "export" /\ s.at = "export"
  BY <1>1, <1>2, <1>7 DEF S
<1>8. QED
  BY <1>4, <1>5, <1>6, <1>7

\* At first nothing was logged.
LEMMA EvalsStart == Evals!Init => EvalsInv
<1> SUFFICES ASSUME Evals!Init PROVE EvalsInv
  OBVIOUS
<1>1. /\ cases = << >> /\ exported = << >> /\ runs = << >> /\ record = Evals!None /\ raced = FALSE
      /\ thread = [t \in Threads |-> [at |-> "idle"]]
  BY DEF Evals!Init, Evals!Idle
<1>2. EvalsType
  <2>1. [at |-> "idle"] \in ThreadStates
    BY DEF ThreadStates
  <2>2. QED
    BY <1>1, <2>1, EmptySeq DEF EvalsType
<1>3. CasesAreExported
  <2>1. \A verdicts : BeingExported(verdicts) = {}
    BY <1>1 DEF BeingExported
  <2>2. \A verdicts : Counted(cases, verdicts) \in Nat /\ Counted(cases, verdicts) = Counted(exported, verdicts)
    BY <1>1, <1>2, CountGrows DEF EvalsType
  <2>3. QED
    BY <2>1, <2>2, FS_EmptySet DEF CasesAreExported
<1>4. QED
  BY <1>1, <1>2, <1>3 DEF EvalsInv, SummariesAreOfCases, FinishesAlone

\* A step that exports nothing, logs nothing and ends no summary.
LEMMA QuietSteps ==
  ASSUME EvalsInv, NEW t \in Threads, NEW s \in ThreadStates, thread' = [thread EXCEPT ![t] = s],
         thread[t].at # "export", s.at # "export",
         s.at = "emit" => AtMost(s.summary, cases),
         UNCHANGED <<cases, record, exported, runs>>, raced' \in BOOLEAN
  PROVE  EvalsType' /\ CasesAreExported' /\ SummariesAreOfCases'
<1>1. /\ thread'[t] = s /\ \A u \in Threads \ {t} : thread'[u] = thread[u]
      /\ thread' \in [Threads -> ThreadStates]
      /\ \A verdicts : BeingExported(verdicts)' = BeingExported(verdicts)
  <2>1. EvalsType
    BY DEF EvalsInv
  <2>2. /\ thread'[t] = s /\ \A u \in Threads \ {t} : thread'[u] = thread[u]
        /\ thread' \in [Threads -> ThreadStates]
    BY <2>1, ExportingMoves
  <2>3. ASSUME NEW verdicts PROVE BeingExported(verdicts)' = BeingExported(verdicts)
    <3>1. \A u \in Threads : thread'[u] = thread[u] \/ (thread'[u].at # "export" /\ thread[u].at # "export")
      BY <2>2
    <3>2. QED
      BY <3>1 DEF BeingExported
  <2>4. QED
    BY <2>2, <2>3
<1>2. EvalsType'
  BY <1>1 DEF EvalsInv, EvalsType
<1>3. CasesAreExported'
  BY <1>1 DEF EvalsInv, CasesAreExported, Counted
<1>4. SummariesAreOfCases'
  BY <1>1 DEF EvalsInv, SummariesAreOfCases, AtMost, Evals!Count
<1>5. QED
  BY <1>2, <1>3, <1>4

\* log_case and ingest begin.
LEMMA EvalsLog ==
  ASSUME EvalsInv, NEW t \in Threads, NEW verdicts \in Seq(Evals!Verdicts), verdicts # << >>, Evals!Log(t, verdicts)
  PROVE  EvalsInv'
<1> DEFINE s == [at |-> "check", todo |-> verdicts]
<1>1. /\ s \in ThreadStates /\ s.at = "check" /\ thread' = [thread EXCEPT ![t] = s] /\ thread[t].at = "idle"
      /\ raced' = (raced \/ Evals!Finishing) /\ UNCHANGED <<cases, record, exported, runs>>
  BY DEF ThreadStates, Evals!Log, Evals!Goto, Evals!At
<1>2. thread'[t] = s /\ \A u \in Threads \ {t} : thread'[u] = thread[u]
  BY <1>1, ExportingMoves DEF EvalsInv
<1>3. raced' \in BOOLEAN
  BY <1>1
<1>4. EvalsType' /\ CasesAreExported' /\ SummariesAreOfCases'
  BY <1>1, <1>3, QuietSteps
<1>5. ASSUME ~ raced' PROVE FinishesAlone'
  <2>1. ~ raced /\ \A u \in Threads : thread[u].at \notin {"summarize", "emit"}
    BY <1>1, <1>5 DEF Evals!Finishing
  <2>2. \A u \in Threads : thread'[u].at \notin {"summarize", "emit"}
    BY <1>1, <1>2, <2>1
  <2>3. FinishesAlone
    BY <2>1 DEF EvalsInv
  <2>4. \A u \in Threads : thread'[u].at \in {"append", "export"} => record' = Evals!None
    BY <1>1, <1>2, <2>3 DEF FinishesAlone
  <2>5. record' # Evals!None => runs' = <<Evals!Summary(cases)'>>
    BY <1>1, <2>3 DEF FinishesAlone, Evals!Summary, Evals!Count
  <2>6. QED
    BY <2>2, <2>4, <2>5 DEF FinishesAlone
<1>6. QED
  BY <1>4, <1>5 DEF EvalsInv

\* What a thread that logs has to log.
LEMMA LoggingState ==
  ASSUME EvalsType, NEW t \in Threads, thread[t].at \in {"check", "append", "export"}
  PROVE  /\ thread[t].todo \in Seq(Evals!Verdicts) /\ thread[t].todo # << >>
         /\ Head(thread[t].todo) \in Evals!Verdicts /\ Tail(thread[t].todo) \in Seq(Evals!Verdicts)
         /\ Len(thread[t].todo) \in Nat /\ Len(Tail(thread[t].todo)) = Len(thread[t].todo) - 1
         /\ thread[t] = [at |-> thread[t].at, todo |-> thread[t].todo]
         /\ \A at \in {"check", "append", "export"} :
              [thread[t] EXCEPT !.at = at] = [at |-> at, todo |-> thread[t].todo]
<1>1. thread[t] \in [at : {"check", "append", "export"}, todo : Seq(Evals!Verdicts) \ {<< >>}]
  BY DEF EvalsType, ThreadStates
<1>2. thread[t].todo \in Seq(Evals!Verdicts) /\ thread[t].todo # << >>
  BY <1>1
<1>3. /\ Head(thread[t].todo) \in Evals!Verdicts /\ Tail(thread[t].todo) \in Seq(Evals!Verdicts)
      /\ Len(thread[t].todo) \in Nat /\ Len(Tail(thread[t].todo)) = Len(thread[t].todo) - 1
  BY <1>2, HeadTailProperties, LenProperties
<1>4. /\ thread[t] = [at |-> thread[t].at, todo |-> thread[t].todo]
      /\ \A at \in {"check", "append", "export"} :
           [thread[t] EXCEPT !.at = at] = [at |-> at, todo |-> thread[t].todo]
  BY <1>1
<1>5. QED
  BY <1>2, <1>3, <1>4

\* A thread that logs is alone with no finish that did not overlap.
LEMMA LoggingAlone ==
  ASSUME FinishesAlone, NEW t \in Threads, thread[t].at \in {"check", "append", "export"},
         NEW s, s.at \in {"idle", "check", "append", "export"},
         s.at \in {"append", "export"} => record = Evals!None,
         thread'[t] = s, \A u \in Threads \ {t} : thread'[u] = thread[u], UNCHANGED <<record, runs>>,
         UNCHANGED cases \/ record = Evals!None
  PROVE  FinishesAlone'
<1>1. \A u \in Threads : thread[u].at \notin {"summarize", "emit"}
  BY DEF FinishesAlone
<1>2. \A u \in Threads : thread'[u].at \notin {"summarize", "emit"}
  BY <1>1
<1>3. \A u \in Threads : thread'[u].at \in {"append", "export"} => record' = Evals!None
  BY DEF FinishesAlone
<1>4. record' # Evals!None => runs' = <<Evals!Summary(cases)'>>
  BY DEF FinishesAlone, Evals!Summary, Evals!Count
<1>5. QED
  BY <1>2, <1>3, <1>4 DEF FinishesAlone

\* The check whether the run takes cases.
LEMMA EvalsCheck ==
  ASSUME EvalsInv, NEW t \in Threads, Evals!Check(t)
  PROVE  EvalsInv'
<1> DEFINE s == IF record = Evals!None THEN [at |-> "append", todo |-> thread[t].todo] ELSE [at |-> "idle"]
<1>1. thread[t].at = "check" /\ UNCHANGED <<cases, record, exported, runs, raced>>
  BY DEF Evals!Check, Evals!At
<1>2. thread[t].todo \in Seq(Evals!Verdicts) /\ thread[t].todo # << >>
      /\ [thread[t] EXCEPT !.at = "append"] = [at |-> "append", todo |-> thread[t].todo]
  BY <1>1, LoggingState DEF EvalsInv
<1>3. thread' = [thread EXCEPT ![t] = s] /\ s \in ThreadStates
      /\ s.at \in {"idle", "append"} /\ (s.at = "append" => record = Evals!None)
  BY <1>2 DEF Evals!Check, Evals!Goto, Evals!Open, Evals!Idle, ThreadStates
<1> HIDE DEF s
<1>4. thread'[t] = s /\ \A u \in Threads \ {t} : thread'[u] = thread[u]
  BY <1>3, ExportingMoves DEF EvalsInv
<1>5. raced' \in BOOLEAN /\ s.at # "export" /\ s.at # "emit"
  BY <1>1, <1>3 DEF EvalsInv, EvalsType
<1>6. EvalsType' /\ CasesAreExported' /\ SummariesAreOfCases'
  BY <1>1, <1>3, <1>5, QuietSteps
<1>7. ~ raced => FinishesAlone'
  BY <1>1, <1>3, <1>4, LoggingAlone DEF EvalsInv
<1>8. QED
  BY <1>1, <1>6, <1>7 DEF EvalsInv

\* A case is added.
LEMMA EvalsAppend ==
  ASSUME EvalsInv, NEW t \in Threads, Evals!AppendCase(t)
  PROVE  EvalsInv'
<1> DEFINE v == Head(thread[t].todo)
           s == [at |-> "export", todo |-> thread[t].todo]
<1>1. /\ thread[t].at = "append" /\ cases' = Append(cases, v) /\ UNCHANGED <<record, exported, runs, raced>>
      /\ cases \in Seq(Evals!Verdicts)
  BY DEF Evals!AppendCase, Evals!At, EvalsInv, EvalsType
<1>2. /\ thread[t].todo \in Seq(Evals!Verdicts) /\ thread[t].todo # << >> /\ v \in Evals!Verdicts
      /\ [thread[t] EXCEPT !.at = "export"] = s
  BY <1>1, LoggingState DEF EvalsInv
<1>3. s \in ThreadStates /\ s.at = "export" /\ Head(s.todo) = v /\ thread' = [thread EXCEPT ![t] = s]
  BY <1>2 DEF ThreadStates, Evals!AppendCase, Evals!Goto
<1> HIDE DEF s, v
<1>4. /\ thread'[t] = s /\ \A u \in Threads \ {t} : thread'[u] = thread[u]
      /\ thread' \in [Threads -> ThreadStates]
  BY <1>3, ExportingMoves DEF EvalsInv
<1>5. EvalsType'
  <2>1. cases' \in Seq(Evals!Verdicts)
    BY <1>1, <1>2, AppendProperties
  <2>2. QED
    BY <1>1, <1>4, <2>1 DEF EvalsInv, EvalsType
<1>6. CasesAreExported'
  <2>1. SUFFICES ASSUME NEW verdicts \in SUBSET Evals!Verdicts
                 PROVE  Counted(cases, verdicts)' = Counted(exported, verdicts)' + Cardinality(BeingExported(verdicts)')
    BY DEF CasesAreExported, Evals!Verdicts
  <2> DEFINE one == IF v \in verdicts THEN 1 ELSE 0
  <2>2. Counted(cases, verdicts)' = Counted(cases, verdicts) + one /\ Counted(exported, verdicts)' = Counted(exported, verdicts)
    <3>1. Counted(Append(cases, v), verdicts) = Counted(cases, verdicts) + one
      BY <1>1, <1>2, CountGrows
    <3>2. QED
      BY <1>1, <3>1 DEF Counted
  <2>3. Cardinality(BeingExported(verdicts)') = Cardinality(BeingExported(verdicts)) + one
    BY <1>1, <1>3, ExportingMoves DEF EvalsInv
  <2>4. Counted(cases, verdicts) = Counted(exported, verdicts) + Cardinality(BeingExported(verdicts))
    BY DEF EvalsInv, CasesAreExported
  <2>5. Counted(exported, verdicts) \in Nat /\ Cardinality(BeingExported(verdicts)) \in Nat /\ one \in Nat
    BY <1>3, CountGrows, ExportingMoves DEF EvalsInv, EvalsType
  <2> HIDE DEF one
  <2>6. QED
    BY <2>2, <2>3, <2>4, <2>5
<1>7. SummariesAreOfCases'
  <2>1. \A i \in DOMAIN runs : runs[i] \in Summaries
    BY ElementOfSeq, LenProperties DEF EvalsInv, EvalsType
  <2>2. \A i \in DOMAIN runs : AtMost(runs[i], cases')
    BY <1>1, <1>2, <2>1, SummaryStaysBelow DEF EvalsInv, SummariesAreOfCases
  <2>3. \A u \in Threads \ {t} : thread[u].at = "emit" => AtMost(thread[u].summary, cases')
    <3>1. \A u \in Threads : thread[u].at = "emit" => thread[u].summary \in Summaries
      BY DEF EvalsInv, EvalsType, ThreadStates
    <3>2. QED
      BY <1>1, <1>2, <3>1, SummaryStaysBelow DEF EvalsInv, SummariesAreOfCases
  <2>4. \A x : AtMost(x, cases)' <=> AtMost(x, cases')
    BY DEF AtMost, Evals!Count
  <2>5. \A i \in DOMAIN runs' : AtMost(runs'[i], cases')
    BY <1>1, <2>2
  <2>6. \A u \in Threads : thread'[u].at = "emit" => AtMost(thread'[u].summary, cases')
    BY <1>3, <1>4, <2>3
  <2>7. record' = Evals!None => runs' = << >>
    BY <1>1 DEF EvalsInv, SummariesAreOfCases
  <2>8. QED
    BY <2>5, <2>6, <2>7 DEF SummariesAreOfCases, AtMost, Evals!Count
<1>8. ~ raced => FinishesAlone'
  <2>1. ~ raced => FinishesAlone /\ record = Evals!None
    BY <1>1 DEF EvalsInv, FinishesAlone
  <2>2. QED
    BY <1>1, <1>3, <1>4, <2>1, LoggingAlone
<1>9. QED
  BY <1>1, <1>5, <1>6, <1>7, <1>8 DEF EvalsInv

\* Its record is exported.
LEMMA EvalsExport ==
  ASSUME EvalsInv, NEW t \in Threads, Evals!ExportCase(t)
  PROVE  EvalsInv'
<1> DEFINE v == Head(thread[t].todo)
           s == IF Len(thread[t].todo) = 1 THEN [at |-> "idle"] ELSE [at |-> "check", todo |-> Tail(thread[t].todo)]
<1>1. /\ thread[t].at = "export" /\ exported' = Append(exported, v) /\ UNCHANGED <<cases, record, runs, raced>>
      /\ exported \in Seq(Evals!Verdicts) /\ thread' = [thread EXCEPT ![t] = s]
  BY DEF Evals!ExportCase, Evals!At, Evals!Goto, Evals!Idle, EvalsInv, EvalsType
<1>2. /\ v \in Evals!Verdicts /\ Tail(thread[t].todo) \in Seq(Evals!Verdicts)
      /\ Len(thread[t].todo) # 1 => Tail(thread[t].todo) # << >>
  <2>1. /\ thread[t].todo \in Seq(Evals!Verdicts) /\ thread[t].todo # << >> /\ v \in Evals!Verdicts
        /\ Tail(thread[t].todo) \in Seq(Evals!Verdicts) /\ Len(thread[t].todo) \in Nat
        /\ Len(Tail(thread[t].todo)) = Len(thread[t].todo) - 1
    BY <1>1, LoggingState DEF EvalsInv
  <2>2. ASSUME Tail(thread[t].todo) = << >> PROVE Len(thread[t].todo) = 1
    <3> DEFINE rest == Tail(thread[t].todo)
    <3>1. Len(<< >>) = 0
      OBVIOUS
    <3> HIDE DEF rest
    <3>2. rest = << >> /\ Len(rest) = Len(thread[t].todo) - 1
      BY <2>1, <2>2 DEF rest
    <3>3. Len(rest) = 0
      BY <3>1, <3>2, Zenon
    <3>4. QED
      BY <2>1, <3>2, <3>3
  <2>3. QED
    BY <2>1, <2>2
<1>3. s \in ThreadStates /\ s.at \in {"idle", "check"}
  BY <1>2 DEF ThreadStates
<1> HIDE DEF s, v
<1>4. /\ thread'[t] = s /\ \A u \in Threads \ {t} : thread'[u] = thread[u]
      /\ thread' \in [Threads -> ThreadStates] /\ s.at # "export"
  BY <1>1, <1>3, ExportingMoves DEF EvalsInv
<1>5. EvalsType'
  <2>1. exported' \in Seq(Evals!Verdicts)
    BY <1>1, <1>2, AppendProperties
  <2>2. QED
    BY <1>1, <1>4, <2>1 DEF EvalsInv, EvalsType
<1>6. CasesAreExported'
  <2>1. SUFFICES ASSUME NEW verdicts \in SUBSET Evals!Verdicts
                 PROVE  Counted(cases, verdicts)' = Counted(exported, verdicts)' + Cardinality(BeingExported(verdicts)')
    BY DEF CasesAreExported, Evals!Verdicts
  <2> DEFINE one == IF v \in verdicts THEN 1 ELSE 0
  <2>2. Counted(cases, verdicts)' = Counted(cases, verdicts) /\ Counted(exported, verdicts)' = Counted(exported, verdicts) + one
    <3>1. Counted(Append(exported, v), verdicts) = Counted(exported, verdicts) + one
      BY <1>1, <1>2, CountGrows
    <3>2. QED
      BY <1>1, <3>1 DEF Counted
  <2>3. Cardinality(BeingExported(verdicts)) = Cardinality(BeingExported(verdicts)') + one
    BY <1>1, <1>3, <1>4, ExportingMoves DEF EvalsInv, v
  <2>4. Counted(cases, verdicts) = Counted(exported, verdicts) + Cardinality(BeingExported(verdicts))
    BY DEF EvalsInv, CasesAreExported
  <2>5. Counted(exported, verdicts) \in Nat /\ one \in Nat
    BY <1>1, CountGrows
  <2>6. Cardinality(BeingExported(verdicts)') \in Nat
    <3>1. BeingExported(verdicts)' \subseteq Threads /\ IsFiniteSet(Threads)
      BY SideAssumption, EvalCounts DEF Evals!EvalAssumption, BeingExported
    <3>2. QED
      BY <3>1, FS_Subset, FS_CardinalityType
  <2> HIDE DEF one
  <2>7. QED
    BY <2>2, <2>3, <2>4, <2>5, <2>6
<1>7. SummariesAreOfCases'
  BY <1>1, <1>3, <1>4 DEF EvalsInv, SummariesAreOfCases, AtMost, Evals!Count
<1>8. ~ raced => FinishesAlone'
  BY <1>1, <1>3, <1>4, LoggingAlone DEF EvalsInv
<1>9. QED
  BY <1>1, <1>5, <1>6, <1>7, <1>8 DEF EvalsInv

\* finish begins.
LEMMA EvalsFinish ==
  ASSUME EvalsInv, NEW t \in Threads, Evals!Finish(t)
  PROVE  EvalsInv'
<1> DEFINE s == [at |-> "summarize"]
<1>1. /\ s \in ThreadStates /\ s.at = "summarize" /\ thread' = [thread EXCEPT ![t] = s] /\ thread[t].at = "idle"
      /\ raced' = (raced \/ ~ Evals!OthersIdle(t)) /\ record = Evals!None
      /\ UNCHANGED <<cases, record, exported, runs>>
  BY DEF ThreadStates, Evals!Finish, Evals!Goto, Evals!At
<1>2. thread'[t] = s /\ \A u \in Threads \ {t} : thread'[u] = thread[u]
  BY <1>1, ExportingMoves DEF EvalsInv
<1>3. raced' \in BOOLEAN
  BY <1>1
<1>4. EvalsType' /\ CasesAreExported' /\ SummariesAreOfCases'
  BY <1>1, <1>3, QuietSteps
<1>5. ASSUME ~ raced' PROVE FinishesAlone'
  <2>1. \A u \in Threads \ {t} : thread'[u].at = "idle"
    BY <1>1, <1>2, <1>5 DEF Evals!OthersIdle, Evals!At
  <2>2. QED
    BY <1>1, <1>2, <2>1 DEF FinishesAlone
<1>6. QED
  BY <1>4, <1>5 DEF EvalsInv

\* The summary is made.
LEMMA EvalsSummarize ==
  ASSUME EvalsInv, NEW t \in Threads, Evals!Summarize(t)
  PROVE  EvalsInv'
<1> DEFINE s == [at |-> "emit", summary |-> Evals!Summary(cases)]
<1>1. /\ thread[t].at = "summarize" /\ thread' = [thread EXCEPT ![t] = s]
      /\ UNCHANGED <<cases, record, exported, runs, raced>>
  BY DEF Evals!Summarize, Evals!Goto, Evals!At
<1>2. s \in ThreadStates /\ s.at = "emit" /\ s.summary = Evals!Summary(cases) /\ AtMost(s.summary, cases)
  <2>1. cases \in Seq(Evals!Verdicts)
    BY DEF EvalsInv, EvalsType
  <2>2. Evals!Summary(cases) \in Summaries
    BY <2>1, CountsAgree
  <2>3. Len(cases) \in Nat /\ Evals!Count(cases, "passed") \in Nat
    <3>1. Evals!Count(cases, "passed") = Counted(cases, {"passed"}) /\ Counted(cases, {"passed"}) \in Nat
      BY <2>1, CountsAgree, CountGrows
    <3>2. QED
      BY <2>1, <3>1, LenProperties
  <2>4. AtMost(Evals!Summary(cases), cases)
    BY <2>3 DEF AtMost, Evals!Summary
  <2>5. QED
    BY <2>2, <2>4 DEF ThreadStates
<1> HIDE DEF s
<1>3. thread'[t] = s /\ \A u \in Threads \ {t} : thread'[u] = thread[u]
  BY <1>1, <1>2, ExportingMoves DEF EvalsInv
<1>4. raced' \in BOOLEAN
  BY <1>1 DEF EvalsInv, EvalsType
<1>5. EvalsType' /\ CasesAreExported' /\ SummariesAreOfCases'
  BY <1>1, <1>2, <1>4, QuietSteps
<1>6. ASSUME ~ raced PROVE FinishesAlone'
  <2>1. FinishesAlone
    BY <1>6 DEF EvalsInv
  <2>2. record = Evals!None /\ \A u \in Threads \ {t} : thread'[u].at = "idle"
    BY <1>1, <1>3, <2>1 DEF FinishesAlone
  <2>3. Evals!Summary(cases)' = Evals!Summary(cases)
    BY <1>1 DEF Evals!Summary, Evals!Count
  <2>4. QED
    BY <1>1, <1>2, <1>3, <2>2, <2>3 DEF FinishesAlone
<1>7. QED
  BY <1>1, <1>5, <1>6 DEF EvalsInv

\* It is emitted.
LEMMA EvalsEmit ==
  ASSUME EvalsInv, NEW t \in Threads, Evals!Emit(t)
  PROVE  EvalsInv'
<1> DEFINE x == thread[t].summary
           s == [at |-> "idle"]
<1>1. /\ thread[t].at = "emit" /\ thread' = [thread EXCEPT ![t] = s] /\ s.at = "idle" /\ s \in ThreadStates
      /\ record' = <<x>> /\ runs' = Append(runs, x) /\ UNCHANGED <<cases, exported, raced>>
  BY DEF Evals!Emit, Evals!Goto, Evals!At, Evals!Idle, ThreadStates
<1>2. x \in Summaries /\ AtMost(x, cases)
  BY <1>1 DEF EvalsInv, EvalsType, ThreadStates, SummariesAreOfCases
<1> HIDE DEF s
<1>3. /\ thread'[t] = s /\ \A u \in Threads \ {t} : thread'[u] = thread[u]
      /\ thread' \in [Threads -> ThreadStates]
      /\ \A verdicts : BeingExported(verdicts)' = BeingExported(verdicts)
  BY <1>1, ExportingMoves DEF EvalsInv
<1>4. /\ runs' \in Seq(Summaries) /\ Len(runs) \in Nat /\ Len(runs') = Len(runs) + 1 /\ runs'[Len(runs) + 1] = x
      /\ \A i \in 1..Len(runs) : runs'[i] = runs[i]
  BY <1>1, <1>2, AppendProperties, LenProperties DEF EvalsInv, EvalsType
<1>5. DOMAIN runs' = 1..Len(runs) \union {Len(runs) + 1} /\ DOMAIN runs = 1..Len(runs)
  BY <1>4, LenProperties DEF EvalsInv, EvalsType
<1>6. EvalsType'
  BY <1>1, <1>3, <1>4 DEF EvalsInv, EvalsType
<1>7. CasesAreExported'
  BY <1>1, <1>3 DEF EvalsInv, CasesAreExported, Counted
<1>8. record' # Evals!None
  BY <1>1 DEF Evals!None
<1>9. SummariesAreOfCases'
  <2>1. \A i \in DOMAIN runs' : AtMost(runs'[i], cases)
    BY <1>2, <1>4, <1>5 DEF EvalsInv, SummariesAreOfCases
  <2>2. \A u \in Threads : thread'[u].at = "emit" => AtMost(thread'[u].summary, cases)
    BY <1>1, <1>3 DEF EvalsInv, SummariesAreOfCases
  <2>3. QED
    BY <1>1, <1>8, <2>1, <2>2 DEF SummariesAreOfCases, AtMost, Evals!Count
<1>10. ASSUME ~ raced PROVE FinishesAlone'
  <2>1. FinishesAlone
    BY <1>10 DEF EvalsInv
  <2>2. /\ record = Evals!None /\ \A u \in Threads : thread'[u].at = "idle"
        /\ x = Evals!Summary(cases)
    BY <1>1, <1>3, <2>1 DEF FinishesAlone
  <2>3. runs' = <<x>>
    <3>1. runs = << >>
      BY <2>2 DEF EvalsInv, SummariesAreOfCases
    <3>2. QED
      BY <1>1, <3>1
  <2>4. Evals!Summary(cases)' = Evals!Summary(cases)
    BY <1>1 DEF Evals!Summary, Evals!Count
  <2>5. QED
    BY <2>2, <2>3, <2>4 DEF FinishesAlone
<1>11. QED
  BY <1>1, <1>6, <1>7, <1>9, <1>10 DEF EvalsInv

\* Every action keeps the invariant.
LEMMA EvalsSteps ==
  ASSUME EvalsInv, Evals!Next
  PROVE  EvalsInv'
<1>1. PICK t \in Threads :
        \/ \E v \in Evals!Verdicts : Evals!Log(t, <<v>>) \/ \E w \in Evals!Verdicts : Evals!Log(t, <<v, w>>)
        \/ Evals!Check(t) \/ Evals!AppendCase(t) \/ Evals!ExportCase(t)
        \/ Evals!Finish(t) \/ Evals!Summarize(t) \/ Evals!Emit(t)
  BY DEF Evals!Next
<1>2. ASSUME NEW v \in Evals!Verdicts, Evals!Log(t, <<v>>) PROVE EvalsInv'
  <2>1. <<v>> \in Seq(Evals!Verdicts) /\ <<v>> # << >>
    OBVIOUS
  <2>2. QED
    BY <1>2, <2>1, EvalsLog
<1>3. ASSUME NEW v \in Evals!Verdicts, NEW w \in Evals!Verdicts, Evals!Log(t, <<v, w>>) PROVE EvalsInv'
  <2>1. <<v, w>> \in Seq(Evals!Verdicts) /\ <<v, w>> # << >>
    OBVIOUS
  <2>2. QED
    BY <1>3, <2>1, EvalsLog
<1>4. QED
  BY <1>1, <1>2, <1>3, EvalsCheck, EvalsAppend, EvalsExport, EvalsFinish, EvalsSummarize, EvalsEmit

\* Nothing else touches the run.
LEMMA EvalsStutter ==
  ASSUME EvalsInv, UNCHANGED evalVars
  PROVE  EvalsInv'
BY DEF evalVars, EvalsInv, EvalsType, CasesAreExported, SummariesAreOfCases, FinishesAlone, AtMost,
       Counted, BeingExported, Evals!Count, Evals!Summary

\* Every step keeps the invariant.
LEMMA EvalsStep ==
  ASSUME EvalsInv, [Evals!Next]_(Evals!vars)
  PROVE  EvalsInv'
BY EvalsSteps, EvalsStutter DEF Evals!vars, evalVars

\* With nothing on its way, cases and exported records agree in number.
LEMMA EvalsHold ==
  ASSUME EvalsInv
  PROVE  Evals!RunsAddUp
<1>1. ASSUME \A t \in Threads : thread[t].at # "export"
      PROVE  Evals!Summary(cases) = Evals!Summary(exported)
  <2>1. \A verdicts : BeingExported(verdicts) = {}
    BY <1>1 DEF BeingExported
  <2>2. \A verdicts \in SUBSET Evals!Verdicts :
          Counted(exported, verdicts) \in Nat /\ Counted(cases, verdicts) = Counted(exported, verdicts)
    <3>1. ASSUME NEW verdicts \in SUBSET Evals!Verdicts
          PROVE  Counted(exported, verdicts) \in Nat
      BY CountGrows DEF EvalsInv, EvalsType
    <3>2. ASSUME NEW verdicts \in SUBSET Evals!Verdicts
          PROVE  Counted(cases, verdicts) = Counted(exported, verdicts) + 0
      <4>1. Counted(cases, verdicts) = Counted(exported, verdicts) + Cardinality(BeingExported(verdicts))
        BY DEF EvalsInv, CasesAreExported
      <4>2. Cardinality(BeingExported(verdicts)) = 0
        BY <2>1, FS_EmptySet
      <4>3. QED
        BY <4>1, <4>2
    <3>3. QED
      BY <3>1, <3>2
  <2>3. {"passed"} \in SUBSET Evals!Verdicts /\ {"failed"} \in SUBSET Evals!Verdicts
    BY DEF Evals!Verdicts
  <2>4. cases \in Seq(Evals!Verdicts) /\ exported \in Seq(Evals!Verdicts)
    BY DEF EvalsInv, EvalsType
  <2>5. QED
    BY <2>2, <2>3, <2>4, CountsAgree
<1>2. ASSUME record # Evals!None, ~ raced
      PROVE  Len(runs) = 1 /\ runs[1] = Evals!Summary(exported)
  <2>1. \A t \in Threads : thread[t].at # "export"
    BY <1>2 DEF EvalsInv, FinishesAlone
  <2>2. runs = <<Evals!Summary(cases)>>
    BY <1>2 DEF EvalsInv, FinishesAlone
  <2>3. QED
    BY <1>1, <2>1, <2>2
<1>3. ASSUME \A t \in Threads : thread[t].at = "idle", NEW i \in DOMAIN runs
      PROVE  runs[i].total <= Len(exported) /\ runs[i].passed <= Evals!Summary(exported).passed
  <2>1. Evals!Summary(cases) = Evals!Summary(exported)
    BY <1>1, <1>3
  <2>2. Len(cases) = Len(exported) /\ Evals!Count(cases, "passed") = Evals!Summary(exported).passed
    BY <2>1 DEF Evals!Summary
  <2>3. AtMost(runs[i], cases)
    BY <1>3 DEF EvalsInv, SummariesAreOfCases
  <2>4. QED
    BY <2>2, <2>3 DEF AtMost
<1>4. QED
  BY <1>2, <1>3 DEF Evals!RunsAddUp, Evals!At

------------------------------------------------------------------------------
\* CaptureExport.

Ended == {c \in Calls : outcome[c] # "none"}
SentTo(e) == {c \in Ended : to[c] = e}
Flushes == [records : Seq(Calls) \ {<< >>}, step : {"copied", "cleared"}] \union {Capture!NotFlushing}
IsFlushing(w) == flushes[w].step # "none"

CaptureType ==
  /\ configured \in Exporters \union {Capture!NoExporter}
  /\ calls \in [Calls -> {"idle", "running", "cancelled", "exporting", "waited", "ended"}]
  /\ to \in [Calls -> Exporters \union {Capture!NoExporter}]
  /\ outcome \in [Calls -> {"none", "result", "error"}]
  /\ queue \in Seq(Ended) /\ (holds = << >> \/ \E c \in Ended : holds = <<c>>)
  /\ buffer \in Seq(SentTo("gcp")) /\ flushes \in [Capture!Who -> Flushes]
  /\ \A w \in Capture!Who : flushes[w].records \in Seq(SentTo("gcp"))
  /\ DOMAIN arrived = Exporters /\ \A e \in Exporters : arrived[e] \in Seq(SentTo(e))
  /\ dropped \subseteq Ended /\ shared \in BOOLEAN

\* A call that runs has an exporter, and one whose record is finished had one.
CallsHaveExporters ==
  \A c \in Calls :
    /\ calls[c] = "running" => to[c] # Capture!NoExporter /\ outcome[c] = "none"
    /\ calls[c] = "idle" => outcome[c] = "none"
    /\ calls[c] \in {"exporting", "waited"} => c \in Ended
    /\ c \in Ended => to[c] # Capture!NoExporter

\* One thread at a time is in the gcp exporter, and what it copied is the buffer
\* until it clears that.
FlushesAlone ==
  /\ \A v, w \in Capture!Who : IsFlushing(v) /\ IsFlushing(w) => v = w
  /\ \A w \in Capture!Who :
       /\ flushes[w].step = "copied" => buffer = flushes[w].records
       /\ flushes[w].step = "cleared" => buffer = << >>

\* No record is twice in a place, and each is in one.
NoRecordTwice ==
  /\ Capture!IsInjective(queue) /\ Capture!IsInjective(buffer)
  /\ \A w \in Capture!Who : Capture!IsInjective(flushes[w].records)
  /\ \A e \in Exporters : Capture!IsInjective(arrived[e])

\* What is copied of the buffer, and what of it is not sent yet.
InFlushes(f) == UNION {Capture!Range(f[w].records) : w \in Capture!Who}
InCopies(f) == UNION {Capture!Range(f[w].records) : w \in {v \in Capture!Who : f[v].step = "copied"}}

PlaceNames == {"queue", "worker", "call", "buffer", "flush", "destination", "dropped"}

\* All of a set are in one of some places each, and nothing else is in any.
OnePlaceEach(places, all) ==
  \A c : /\ c \in all => \E p \in PlaceNames : \A q \in PlaceNames : c \in places[q] <=> q = p
         /\ c \notin all => \A p \in PlaceNames : c \notin places[p]

\* Some of what is in one place goes to another, and nothing else moves.
Moves(P, Q, from, into, some) ==
  /\ from \in PlaceNames /\ into \in PlaceNames /\ from # into /\ some \subseteq P[from]
  /\ Q[from] = P[from] \ some /\ Q[into] = P[into] \union some
  /\ \A p \in PlaceNames \ {from, into} : Q[p] = P[p]

CaptureInv ==
  /\ CaptureType /\ CallsHaveExporters
  /\ ~ shared => FlushesAlone /\ NoRecordTwice /\ OnePlaceEach(Capture!Places, Ended)

\* What is in no list, and in a list of one.
LEMMA RangeSmall ==
  /\ Capture!Range(<< >>) = {} /\ Capture!IsInjective(<< >>)
  /\ \A x : Capture!Range(<<x>>) = {x}
<1>1. DOMAIN << >> = {} /\ \A x : DOMAIN <<x>> = {1} /\ <<x>>[1] = x
  OBVIOUS
<1>2. QED
  BY <1>1 DEF Capture!Range, Capture!IsInjective

\* What is in a list that grows, and it does not repeat.
LEMMA RangeAppend ==
  ASSUME NEW S, NEW s \in Seq(S), NEW x \in S
  PROVE  /\ Capture!Range(Append(s, x)) = Capture!Range(s) \union {x}
         /\ x \notin Capture!Range(s) /\ Capture!IsInjective(s) => Capture!IsInjective(Append(s, x))
<1> DEFINE new == Append(s, x)
           k == Len(s) + 1
<1>1. Len(s) \in Nat /\ DOMAIN s = 1..Len(s) /\ \A i \in DOMAIN s : s[i] \in S
  BY LenProperties, ElementOfSeq
<1>2. new \in Seq(S) /\ Len(new) = k /\ new[k] = x /\ \A i \in 1..Len(s) : new[i] = s[i]
  BY AppendProperties
<1>3. DOMAIN new = DOMAIN s \union {k} /\ k \notin DOMAIN s
  BY <1>1, <1>2, LenProperties
<1>4. new[k] = x /\ \A i \in DOMAIN s : new[i] = s[i]
  BY <1>1, <1>2
<1> HIDE DEF new, k
<1>5. Capture!Range(new) = Capture!Range(s) \union {x}
  BY <1>3, <1>4 DEF Capture!Range
<1>6. x \notin Capture!Range(s) /\ Capture!IsInjective(s) => Capture!IsInjective(new)
  BY <1>3, <1>4 DEF Capture!Range, Capture!IsInjective
<1>7. QED
  BY <1>5, <1>6 DEF new

\* A list holds members of what it is of.
LEMMA RangeInside ==
  ASSUME NEW S, NEW s \in Seq(S)
  PROVE  Capture!Range(s) \subseteq S
<1>1. \A i \in DOMAIN s : s[i] \in S
  BY LenProperties, ElementOfSeq
<1>2. QED
  BY <1>1 DEF Capture!Range

\* What is in a list that loses its first.
LEMMA RangeTail ==
  ASSUME NEW S, NEW s \in Seq(S), s # << >>
  PROVE  /\ Head(s) \in S /\ Tail(s) \in Seq(S) /\ Capture!Range(s) = Capture!Range(Tail(s)) \union {Head(s)}
         /\ Capture!IsInjective(s) => Capture!IsInjective(Tail(s)) /\ Head(s) \notin Capture!Range(Tail(s))
<1> DEFINE rest == Tail(s)
<1>1. Len(s) \in Nat \ {0} /\ DOMAIN s = 1..Len(s)
  BY LenProperties, EmptySeq
<1>2. /\ Head(s) \in S /\ rest \in Seq(S) /\ Head(s) = s[1] /\ Len(rest) = Len(s) - 1
      /\ \A i \in 1..Len(rest) : rest[i] = s[i + 1]
  BY <1>1, HeadTailProperties
<1> HIDE DEF rest
<1>3. DOMAIN rest = 1..(Len(s) - 1)
  BY <1>2, LenProperties
<1>4. /\ 1 \in DOMAIN s /\ \A i \in DOMAIN rest : i + 1 \in DOMAIN s /\ i + 1 # 1 /\ rest[i] = s[i + 1]
      /\ \A i \in DOMAIN s : i = 1 \/ (i - 1 \in DOMAIN rest /\ rest[i - 1] = s[i])
  BY <1>1, <1>2, <1>3
<1>5. Capture!Range(s) = Capture!Range(rest) \union {s[1]}
  BY <1>4 DEF Capture!Range
<1>6. ASSUME Capture!IsInjective(s)
      PROVE  Capture!IsInjective(rest) /\ s[1] \notin Capture!Range(rest)
  <2>1. s[1] \notin Capture!Range(rest)
    BY <1>4, <1>6 DEF Capture!Range, Capture!IsInjective
  <2>2. ASSUME NEW i \in DOMAIN rest, NEW j \in DOMAIN rest, rest[i] = rest[j] PROVE i = j
    <3>1. i + 1 = j + 1
      BY <1>4, <1>6, <2>2 DEF Capture!IsInjective
    <3>2. QED
      BY <1>3, <2>2, <3>1
  <2>3. QED
    BY <2>1, <2>2 DEF Capture!IsInjective
<1>7. QED
  BY <1>2, <1>5, <1>6 DEF rest

\* Some of what is in a place goes to another.
LEMMA SomeMove ==
  ASSUME NEW P, NEW Q, NEW all, NEW from, NEW into, NEW S, OnePlaceEach(P, all), Moves(P, Q, from, into, S)
  PROVE  OnePlaceEach(Q, all)
<1>0. /\ from \in PlaceNames /\ into \in PlaceNames /\ from # into /\ S \subseteq P[from]
      /\ Q[from] = P[from] \ S /\ Q[into] = P[into] \union S
      /\ \A p \in PlaceNames \ {from, into} : Q[p] = P[p]
  BY DEF Moves
<1>1. ASSUME NEW c, c \notin S, NEW p \in PlaceNames PROVE c \in Q[p] <=> c \in P[p]
  BY <1>0, <1>1
<1>2. ASSUME NEW c, c \in S
      PROVE  c \in all /\ \A p \in PlaceNames : c \in Q[p] <=> p = into
  <2>1. c \in P[from]
    BY <1>0, <1>2
  <2>2. c \in all
    BY <1>0, <2>1 DEF OnePlaceEach
  <2>3. \A p \in PlaceNames : c \in P[p] <=> p = from
    BY <1>0, <2>1, <2>2 DEF OnePlaceEach
  <2>4. QED
    BY <1>0, <1>2, <2>2, <2>3
<1>3. ASSUME NEW c \in all PROVE \E p \in PlaceNames : \A q \in PlaceNames : c \in Q[q] <=> q = p
  BY <1>0, <1>1, <1>2, <1>3 DEF OnePlaceEach
<1>4. ASSUME NEW c, c \notin all, NEW p \in PlaceNames PROVE c \notin Q[p]
  BY <1>0, <1>1, <1>2, <1>4 DEF OnePlaceEach
<1>5. QED
  BY <1>3, <1>4 DEF OnePlaceEach

\* Something new is in a place.
LEMMA OneComes ==
  ASSUME NEW P, NEW Q, NEW all, OnePlaceEach(P, all), NEW into \in PlaceNames, NEW c, c \notin all,
         Q[into] = P[into] \union {c}, \A p \in PlaceNames \ {into} : Q[p] = P[p]
  PROVE  OnePlaceEach(Q, all \union {c})
<1>1. ASSUME NEW d, d # c, NEW p \in PlaceNames PROVE d \in Q[p] <=> d \in P[p]
  BY <1>1
<1>2. \A p \in PlaceNames : c \in Q[p] <=> p = into
  BY DEF OnePlaceEach
<1>3. ASSUME NEW d \in all \union {c} PROVE \E p \in PlaceNames : \A q \in PlaceNames : d \in Q[q] <=> q = p
  BY <1>1, <1>2, <1>3 DEF OnePlaceEach
<1>4. ASSUME NEW d, d \notin all \union {c}, NEW p \in PlaceNames PROVE d \notin Q[p]
  BY <1>1, <1>4 DEF OnePlaceEach
<1>5. QED
  BY <1>3, <1>4 DEF OnePlaceEach

\* The places are these.
LEMMA PlacesAre ==
  /\ DOMAIN Capture!Places = PlaceNames
  /\ Capture!Places["queue"] = Capture!Range(queue) /\ Capture!Places["worker"] = Capture!Range(holds)
  /\ Capture!Places["call"] = {c \in Calls : calls[c] \in {"exporting", "waited"}}
  /\ Capture!Places["buffer"] = Capture!Range(buffer) \ InCopies(flushes)
  /\ Capture!Places["flush"] = InFlushes(flushes)
  /\ Capture!Places["destination"] = UNION {Capture!Range(arrived[e]) : e \in Exporters}
  /\ Capture!Places["dropped"] = dropped
BY DEF Capture!Places, PlaceNames, InCopies, InFlushes

\* So they are after a step.
LEMMA PlacesWillBe ==
  /\ DOMAIN Capture!Places' = PlaceNames
  /\ Capture!Places'["queue"] = Capture!Range(queue') /\ Capture!Places'["worker"] = Capture!Range(holds')
  /\ Capture!Places'["call"] = {c \in Calls : calls'[c] \in {"exporting", "waited"}}
  /\ Capture!Places'["buffer"] = Capture!Range(buffer') \ InCopies(flushes')
  /\ Capture!Places'["flush"] = InFlushes(flushes')
  /\ Capture!Places'["destination"] = UNION {Capture!Range(arrived'[e]) : e \in Exporters}
  /\ Capture!Places'["dropped"] = dropped'
BY DEF Capture!Places, PlaceNames, InCopies, InFlushes

\* What is copied and sent when at most w flushes.
LEMMA OneFlushes ==
  ASSUME NEW f, NEW w \in Capture!Who, \A v \in Capture!Who \ {w} : f[v] = Capture!NotFlushing
  PROVE  /\ InFlushes(f) = Capture!Range(f[w].records)
         /\ f[w].step = "copied" => InCopies(f) = Capture!Range(f[w].records)
         /\ f[w].step # "copied" => InCopies(f) = {}
<1>1. \A v \in Capture!Who \ {w} : Capture!Range(f[v].records) = {} /\ f[v].step # "copied"
  BY RangeSmall DEF Capture!NotFlushing
<1>2. InFlushes(f) = Capture!Range(f[w].records)
  BY <1>1 DEF InFlushes
<1>3. f[w].step = "copied" => InCopies(f) = Capture!Range(f[w].records)
  BY <1>1 DEF InCopies
<1>4. f[w].step # "copied" => InCopies(f) = {}
  BY <1>1 DEF InCopies
<1>5. QED
  BY <1>2, <1>3, <1>4

\* Whose record is finished does not change, nor where it goes.
LEMMA SameEnded ==
  ASSUME outcome' = outcome, \A c \in Ended : to'[c] = to[c]
  PROVE  Ended' = Ended /\ \A e : SentTo(e)' = SentTo(e)
BY DEF Ended, SentTo

\* Only the calls move on.
LEMMA CaptureQuiet ==
  ASSUME CaptureInv, UNCHANGED <<outcome, queue, holds, buffer, flushes, arrived, dropped, shared>>,
         configured' \in Exporters \union {Capture!NoExporter},
         calls' \in [Calls -> {"idle", "running", "cancelled", "exporting", "waited", "ended"}],
         to' \in [Calls -> Exporters \union {Capture!NoExporter}], \A c \in Ended : to'[c] = to[c],
         CallsHaveExporters',
         \A c \in Calls : calls'[c] \in {"exporting", "waited"} <=> calls[c] \in {"exporting", "waited"}
  PROVE  CaptureInv'
<1>1. Ended' = Ended /\ SentTo("gcp")' = SentTo("gcp") /\ \A e \in Exporters : SentTo(e)' = SentTo(e)
  BY SameEnded
<1>2. CaptureType'
  BY <1>1 DEF CaptureInv, CaptureType, Flushes
<1>3. Capture!Places' = Capture!Places
  BY DEF Capture!Places
<1>4. ~ shared => FlushesAlone' /\ NoRecordTwice'
  BY DEF CaptureInv, FlushesAlone, IsFlushing, NoRecordTwice
<1>5. ~ shared => OnePlaceEach(Capture!Places, Ended)'
  BY <1>1, <1>3 DEF CaptureInv, OnePlaceEach
<1>6. QED
  BY <1>2, <1>4, <1>5 DEF CaptureInv

\* setup, observe, reset, and a call that begins, is cancelled, or is waited for too long.
LEMMA CaptureCalls ==
  ASSUME CaptureInv,
         \/ \E e \in Exporters \union {Capture!NoExporter} : Capture!Setup(e)
         \/ \E c \in Calls : Capture!CallBegins(c) \/ Capture!CallCancelled(c) \/ Capture!TimeOut(c)
  PROVE  CaptureInv'
<1>1. /\ configured \in Exporters \union {Capture!NoExporter}
      /\ calls \in [Calls -> {"idle", "running", "cancelled", "exporting", "waited", "ended"}]
      /\ to \in [Calls -> Exporters \union {Capture!NoExporter}]
  BY DEF CaptureInv, CaptureType
<1>2. ASSUME NEW e \in Exporters \union {Capture!NoExporter}, Capture!Setup(e) PROVE CaptureInv'
  <2>1. CallsHaveExporters'
    BY <1>2 DEF Capture!Setup, CaptureInv, CallsHaveExporters, Ended
  <2>2. QED
    BY <1>1, <1>2, <2>1, CaptureQuiet DEF Capture!Setup
<1>3. ASSUME NEW c \in Calls, Capture!CallBegins(c) PROVE CaptureInv'
  <2>1. outcome[c] = "none" /\ outcome' = outcome /\ c \notin Ended
    BY <1>3 DEF Capture!CallBegins, CaptureInv, CallsHaveExporters, Ended
  <2>2. to'[c] = configured /\ \A d \in Calls \ {c} : to'[d] = to[d] /\ calls'[d] = calls[d]
    BY <1>1, <1>3 DEF Capture!CallBegins
  <2>3. /\ calls[c] = "idle" /\ calls'[c] \in {"running", "ended"}
        /\ calls'[c] = "running" => configured # Capture!NoExporter
    BY <1>1, <1>3 DEF Capture!CallBegins
  <2>4. CallsHaveExporters'
    <3>1. CallsHaveExporters
      BY DEF CaptureInv
    <3>2. Ended' = Ended
      BY <2>1 DEF Ended
    <3>3. QED
      BY <2>1, <2>2, <2>3, <3>1, <3>2 DEF CallsHaveExporters
  <2>5. \A d \in Ended : to'[d] = to[d]
    BY <2>1, <2>2 DEF Ended
  <2>6. /\ calls' \in [Calls -> {"idle", "running", "cancelled", "exporting", "waited", "ended"}]
        /\ to' \in [Calls -> Exporters \union {Capture!NoExporter}] /\ configured' = configured
        /\ UNCHANGED <<outcome, queue, holds, buffer, flushes, arrived, dropped, shared>>
    BY <1>1, <1>3 DEF Capture!CallBegins
  <2>7. \A d \in Calls : calls'[d] \in {"exporting", "waited"} <=> calls[d] \in {"exporting", "waited"}
    BY <2>2, <2>3
  <2>8. QED
    BY <1>1, <2>4, <2>5, <2>6, <2>7, CaptureQuiet
<1>4. ASSUME NEW c \in Calls, Capture!CallCancelled(c) \/ Capture!TimeOut(c) PROVE CaptureInv'
  <2>1. /\ calls' \in [Calls -> {"idle", "running", "cancelled", "exporting", "waited", "ended"}]
        /\ UNCHANGED <<configured, to, outcome, queue, holds, buffer, flushes, arrived, dropped, shared>>
    BY <1>1, <1>4 DEF Capture!CallCancelled, Capture!TimeOut
  <2>2. /\ (calls[c] = "running" /\ calls'[c] = "cancelled") \/ (calls[c] = "exporting" /\ calls'[c] = "waited")
        /\ \A d \in Calls \ {c} : calls'[d] = calls[d]
    BY <1>1, <1>4 DEF Capture!CallCancelled, Capture!TimeOut
  <2>3. CallsHaveExporters'
    BY <2>1, <2>2 DEF CaptureInv, CallsHaveExporters, Ended
  <2>4. \A d \in Calls : calls'[d] \in {"exporting", "waited"} <=> calls[d] \in {"exporting", "waited"}
    BY <2>2
  <2>5. QED
    BY <1>1, <2>1, <2>3, <2>4, CaptureQuiet
<1>5. QED
  BY <1>2, <1>3, <1>4

\* A call ended: its record is queued, or its thread exports it.
LEMMA CaptureEnds ==
  ASSUME CaptureInv, NEW c \in Calls, NEW how, how = "result" \/ how = "error", NEW async \in BOOLEAN,
         Capture!CallEnds(c, how, async)
  PROVE  CaptureInv'
<1> DEFINE P == Capture!Places
           Q == Capture!Places'
<1>1. /\ calls[c] = "running" /\ outcome[c] = "none" /\ to[c] # Capture!NoExporter /\ c \notin Ended
      /\ outcome \in [Calls -> {"none", "result", "error"}]
      /\ calls \in [Calls -> {"idle", "running", "cancelled", "exporting", "waited", "ended"}]
  BY DEF Capture!CallEnds, CaptureInv, CaptureType, CallsHaveExporters, Ended
<1>2. /\ outcome' \in [Calls -> {"none", "result", "error"}] /\ outcome'[c] # "none"
      /\ \A d \in Calls \ {c} : outcome'[d] = outcome[d]
      /\ UNCHANGED <<configured, to, holds, buffer, flushes, arrived, dropped, shared>>
  BY <1>1 DEF Capture!CallEnds
<1>3. Ended' = Ended \union {c} /\ \A e : SentTo(e) \subseteq SentTo(e)'
  BY <1>1, <1>2 DEF Ended, SentTo
<1>4. /\ calls' \in [Calls -> {"idle", "running", "cancelled", "exporting", "waited", "ended"}]
      /\ \A d \in Calls \ {c} : calls'[d] = calls[d]
      /\ \/ async /\ queue' = Append(queue, c) /\ calls'[c] = "ended"
         \/ ~ async /\ queue' = queue /\ calls'[c] = "exporting"
  BY <1>1 DEF Capture!CallEnds
<1>5. /\ queue \in Seq(Ended') /\ buffer \in Seq(SentTo("gcp")')
      /\ \A w \in Capture!Who : flushes[w].records \in Seq(SentTo("gcp")')
      /\ \A e \in Exporters : arrived[e] \in Seq(SentTo(e)')
  BY <1>3, SeqMonotonic DEF CaptureInv, CaptureType
<1>6. queue' \in Seq(Ended')
  <2>1. c \in Ended'
    BY <1>3
  <2>2. Append(queue, c) \in Seq(Ended')
    BY <1>5, <2>1, AppendProperties
  <2>3. QED
    BY <1>4, <1>5, <2>2
<1>7. CaptureType'
  <2>1. /\ DOMAIN arrived = Exporters /\ dropped \subseteq Ended' /\ shared \in BOOLEAN
        /\ holds = << >> \/ \E d \in Ended' : holds = <<d>>
        /\ to \in [Calls -> Exporters \union {Capture!NoExporter}]
        /\ configured \in Exporters \union {Capture!NoExporter} /\ flushes \in [Capture!Who -> Flushes]
    BY <1>3 DEF CaptureInv, CaptureType
  <2>2. QED
    BY <1>2, <1>4, <1>5, <1>6, <2>1 DEF CaptureType, Flushes
<1>8. CallsHaveExporters'
  <2>1. CallsHaveExporters
    BY DEF CaptureInv
  <2>2. QED
    BY <1>1, <1>2, <1>3, <1>4, <2>1 DEF CallsHaveExporters
<1>9. ASSUME ~ shared PROVE FlushesAlone' /\ NoRecordTwice' /\ OnePlaceEach(Q, Ended')
  <2>1. FlushesAlone /\ NoRecordTwice /\ OnePlaceEach(P, Ended)
    BY <1>9 DEF CaptureInv
  <2>2. FlushesAlone'
    BY <1>2, <2>1 DEF FlushesAlone, IsFlushing
  <2>3. /\ queue \in Seq(Calls) /\ c \notin Capture!Range(queue)
        /\ Capture!Range(Append(queue, c)) = Capture!Range(queue) \union {c}
        /\ Capture!IsInjective(queue) => Capture!IsInjective(Append(queue, c))
    <3>1. queue \in Seq(Ended) /\ queue \in Seq(Calls)
      BY SeqMonotonic DEF CaptureInv, CaptureType, Ended
    <3>2. c \notin Capture!Range(queue)
      BY <1>1, <3>1, RangeInside
    <3>3. QED
      BY <3>1, <3>2, RangeAppend
  <2>4. NoRecordTwice'
    BY <1>2, <1>4, <2>1, <2>3 DEF NoRecordTwice
  <2>5. /\ Q["worker"] = P["worker"] /\ Q["buffer"] = P["buffer"] /\ Q["flush"] = P["flush"]
        /\ Q["destination"] = P["destination"] /\ Q["dropped"] = P["dropped"]
    BY <1>2, PlacesAre, PlacesWillBe
  <2>6. /\ async => Q["queue"] = P["queue"] \union {c} /\ Q["call"] = P["call"]
        /\ ~ async => Q["queue"] = P["queue"] /\ Q["call"] = P["call"] \union {c}
    <3>1. /\ P["queue"] = Capture!Range(queue) /\ Q["queue"] = Capture!Range(queue')
          /\ P["call"] = {d \in Calls : calls[d] \in {"exporting", "waited"}}
          /\ Q["call"] = {d \in Calls : calls'[d] \in {"exporting", "waited"}}
      BY PlacesAre, PlacesWillBe
    <3> HIDE DEF P, Q
    <3>2. async => Q["queue"] = P["queue"] \union {c} /\ Q["call"] = P["call"]
      BY <1>1, <1>4, <2>3, <3>1
    <3>3. ~ async => Q["queue"] = P["queue"] /\ Q["call"] = P["call"] \union {c}
      BY <1>1, <1>4, <3>1
    <3>4. QED
      BY <3>2, <3>3
  <2>7. OnePlaceEach(Q, Ended \union {c})
    <3>1. CASE async
      <4>1. "queue" \in PlaceNames /\ \A p \in PlaceNames \ {"queue"} : Q[p] = P[p]
        BY <2>5, <2>6, <3>1 DEF PlaceNames
      <4>2. QED
        BY <1>1, <2>1, <2>6, <3>1, <4>1, OneComes
    <3>2. CASE ~ async
      <4>1. "call" \in PlaceNames /\ \A p \in PlaceNames \ {"call"} : Q[p] = P[p]
        BY <2>5, <2>6, <3>2 DEF PlaceNames
      <4>2. QED
        BY <1>1, <2>1, <2>6, <3>2, <4>1, OneComes
    <3>3. QED
      BY <3>1, <3>2
  <2>8. QED
    BY <1>3, <2>2, <2>4, <2>7
<1>10. QED
  BY <1>2, <1>7, <1>8, <1>9 DEF CaptureInv, OnePlaceEach

\* The worker takes a record.
LEMMA CaptureTake ==
  ASSUME CaptureInv, Capture!Take
  PROVE  CaptureInv'
<1> DEFINE P == Capture!Places
           Q == Capture!Places'
           c == Head(queue)
<1>1. /\ queue # << >> /\ holds = << >> /\ holds' = <<c>> /\ queue' = Tail(queue)
      /\ UNCHANGED <<configured, calls, to, outcome, buffer, flushes, arrived, dropped, shared>>
      /\ queue \in Seq(Ended)
  BY DEF Capture!Take, Capture!call, CaptureInv, CaptureType
<1>2. /\ c \in Ended /\ Tail(queue) \in Seq(Ended)
      /\ Capture!Range(queue) = Capture!Range(Tail(queue)) \union {c}
      /\ Capture!IsInjective(queue) => Capture!IsInjective(Tail(queue)) /\ c \notin Capture!Range(Tail(queue))
  BY <1>1, RangeTail
<1> HIDE DEF c
<1>3. Ended' = Ended /\ SentTo("gcp")' = SentTo("gcp") /\ \A e \in Exporters : SentTo(e)' = SentTo(e)
  BY <1>1, SameEnded
<1>4. CaptureType'
  <2>1. queue' \in Seq(Ended') /\ (holds' = << >> \/ \E d \in Ended' : holds' = <<d>>)
    BY <1>1, <1>2, <1>3
  <2>2. QED
    BY <1>1, <1>3, <2>1 DEF CaptureInv, CaptureType, Flushes
<1>5. CallsHaveExporters'
  BY <1>1 DEF CaptureInv, CallsHaveExporters, Ended
<1>6. ASSUME ~ shared PROVE FlushesAlone' /\ NoRecordTwice' /\ OnePlaceEach(Q, Ended)
  <2>1. FlushesAlone /\ NoRecordTwice /\ OnePlaceEach(P, Ended)
    BY <1>6 DEF CaptureInv
  <2>2. FlushesAlone'
    BY <1>1, <2>1 DEF FlushesAlone, IsFlushing
  <2>3. NoRecordTwice'
    BY <1>1, <1>2, <2>1 DEF NoRecordTwice
  <2>4. /\ Q["call"] = P["call"] /\ Q["buffer"] = P["buffer"] /\ Q["flush"] = P["flush"]
        /\ Q["destination"] = P["destination"] /\ Q["dropped"] = P["dropped"]
    BY <1>1, PlacesAre, PlacesWillBe
  <2>5. /\ P["queue"] = Capture!Range(queue) /\ Q["queue"] = Capture!Range(Tail(queue))
        /\ P["worker"] = {} /\ Q["worker"] = {c}
    BY <1>1, PlacesAre, PlacesWillBe, RangeSmall
  <2> HIDE DEF P, Q
  <2>6. {c} \subseteq P["queue"] /\ Q["queue"] = P["queue"] \ {c} /\ Q["worker"] = P["worker"] \union {c}
    BY <1>2, <2>1, <2>5 DEF NoRecordTwice
  <2>7. /\ "queue" \in PlaceNames /\ "worker" \in PlaceNames /\ "queue" # "worker"
        /\ \A p \in PlaceNames \ {"queue", "worker"} : Q[p] = P[p]
    BY <2>4 DEF PlaceNames
  <2>8. Moves(P, Q, "queue", "worker", {c})
    BY <2>6, <2>7 DEF Moves
  <2>9. OnePlaceEach(Q, Ended)
    BY <2>1, <2>8, SomeMove
  <2>10. QED
    BY <2>2, <2>3, <2>9
<1>7. QED
  BY <1>1, <1>3, <1>4, <1>5, <1>6 DEF CaptureInv, OnePlaceEach

\* A record that is exported leaves its thread.
LEMMA OneIsExported ==
  ASSUME CaptureInv, NEW c \in Calls, NEW w, w = c \/ w = Capture!Worker, Capture!Has(w, c), Capture!Done(w),
         UNCHANGED <<to, outcome>>
  PROVE  /\ c \in Ended /\ to[c] \in Exporters /\ w \in Capture!Who
         /\ calls' \in [Calls -> {"idle", "running", "cancelled", "exporting", "waited", "ended"}]
         /\ holds' = << >> \/ \E d \in Ended : holds' = <<d>>
         /\ CallsHaveExporters'
         /\ \E from, other : 
              /\ (from = "worker" /\ other = "call") \/ (from = "call" /\ other = "worker")
              /\ c \in Capture!Places[from] /\ Capture!Places'[from] = Capture!Places[from] \ {c}
              /\ Capture!Places'[other] = Capture!Places[other]
<1>1. /\ calls \in [Calls -> {"idle", "running", "cancelled", "exporting", "waited", "ended"}]
      /\ holds = << >> \/ \E d \in Ended : holds = <<d>>
      /\ to \in [Calls -> Exporters \union {Capture!NoExporter}] /\ CallsHaveExporters
  BY DEF CaptureInv, CaptureType
<1>2. Capture!Worker \notin Calls /\ Capture!Worker \in Capture!Who /\ Calls \subseteq Capture!Who
  BY SideAssumption DEF Capture!CaptureAssumption, Capture!Worker, Capture!Who
<1>3. Ended' = Ended
  BY DEF Ended
<1>4. /\ Capture!Places["worker"] = Capture!Range(holds) /\ Capture!Places'["worker"] = Capture!Range(holds')
      /\ Capture!Places["call"] = {d \in Calls : calls[d] \in {"exporting", "waited"}}
      /\ Capture!Places'["call"] = {d \in Calls : calls'[d] \in {"exporting", "waited"}}
  BY PlacesAre, PlacesWillBe
<1>5. CASE w = Capture!Worker
  <2>1. holds = <<c>> /\ holds' = << >> /\ calls' = calls
    BY <1>5 DEF Capture!Has, Capture!Done
  <2>2. c \in Ended
    <3>1. PICK d \in Ended : holds = <<d>>
      BY <1>1, <2>1
    <3>2. QED
      BY <2>1, <3>1
  <2>3. CallsHaveExporters'
    BY <1>1, <1>3, <2>1 DEF CallsHaveExporters
  <2>4. /\ c \in Capture!Places["worker"] /\ Capture!Places'["worker"] = Capture!Places["worker"] \ {c}
        /\ Capture!Places'["call"] = Capture!Places["call"]
    BY <1>4, <2>1, RangeSmall
  <2>5. to[c] \in Exporters
    BY <1>1, <2>2 DEF CallsHaveExporters
  <2>6. QED
    BY <1>1, <1>2, <1>5, <2>1, <2>2, <2>3, <2>4, <2>5
<1>6. CASE w = c
  <2>1. w # Capture!Worker
    BY <1>2, <1>6
  <2>2. /\ calls[c] \in {"exporting", "waited"} /\ holds' = holds /\ calls' = [calls EXCEPT ![c] = "ended"]
    BY <1>6, <2>1 DEF Capture!Has, Capture!Done
  <2>3. calls'[c] = "ended" /\ \A d \in Calls \ {c} : calls'[d] = calls[d]
    BY <1>1, <2>2
  <2>4. c \in Ended /\ to[c] \in Exporters
    BY <1>1, <2>2 DEF CallsHaveExporters
  <2>5. CallsHaveExporters'
    BY <1>1, <1>3, <2>3 DEF CallsHaveExporters
  <2>6. /\ c \in Capture!Places["call"] /\ Capture!Places'["call"] = Capture!Places["call"] \ {c}
        /\ Capture!Places'["worker"] = Capture!Places["worker"]
    BY <1>4, <2>2, <2>3
  <2>7. calls' \in [Calls -> {"idle", "running", "cancelled", "exporting", "waited", "ended"}]
    BY <1>1, <2>2
  <2>8. QED
    BY <1>1, <1>2, <1>6, <2>2, <2>4, <2>5, <2>6, <2>7
<1>7. QED
  BY <1>5, <1>6

\* A record arrives at a destination without a buffer, or is dropped.
LEMMA CaptureExports ==
  ASSUME CaptureInv, NEW c \in Calls, NEW w, w = c \/ w = Capture!Worker,
         Capture!Export(w, c) \/ Capture!ExportFails(w, c)
  PROVE  CaptureInv'
<1> DEFINE P == Capture!Places
           Q == Capture!Places'
<1>1. /\ Capture!Has(w, c) /\ Capture!Done(w)
      /\ UNCHANGED <<configured, to, outcome, queue, buffer, flushes, shared>>
      /\ \/ arrived' = [arrived EXCEPT ![to[c]] = Append(@, c)] /\ dropped' = dropped
         \/ arrived' = arrived /\ dropped' = dropped \union {c}
  BY DEF Capture!Export, Capture!ExportFails
<1>2. /\ c \in Ended /\ to[c] \in Exporters /\ c \in SentTo(to[c])
      /\ calls' \in [Calls -> {"idle", "running", "cancelled", "exporting", "waited", "ended"}]
      /\ holds' = << >> \/ \E d \in Ended : holds' = <<d>>
      /\ CallsHaveExporters'
  BY <1>1, OneIsExported DEF SentTo
<1>3. PICK from, other :
        /\ (from = "worker" /\ other = "call") \/ (from = "call" /\ other = "worker")
        /\ c \in P[from] /\ Q[from] = P[from] \ {c} /\ Q[other] = P[other]
  BY <1>1, OneIsExported
<1>4. Ended' = Ended /\ SentTo("gcp")' = SentTo("gcp") /\ \A e \in Exporters : SentTo(e)' = SentTo(e)
  BY <1>1, SameEnded
<1>5. /\ DOMAIN arrived = Exporters /\ arrived[to[c]] \in Seq(SentTo(to[c]))
      /\ \A e \in Exporters : arrived[e] \in Seq(SentTo(e))
  BY <1>2 DEF CaptureInv, CaptureType
<1>6. /\ Append(arrived[to[c]], c) \in Seq(SentTo(to[c]))
      /\ Capture!Range(Append(arrived[to[c]], c)) = Capture!Range(arrived[to[c]]) \union {c}
      /\ c \notin Capture!Range(arrived[to[c]]) /\ Capture!IsInjective(arrived[to[c]])
           => Capture!IsInjective(Append(arrived[to[c]], c))
  BY <1>2, <1>5, AppendProperties, RangeAppend
<1>7. /\ DOMAIN arrived' = Exporters
      /\ \A e \in Exporters : arrived'[e] = arrived[e] \/ (e = to[c] /\ arrived'[e] = Append(arrived[e], c))
  BY <1>1, <1>5
<1>8. CaptureType'
  <2>1. \A e \in Exporters : arrived'[e] \in Seq(SentTo(e)')
    BY <1>4, <1>5, <1>6, <1>7
  <2>2. dropped' \subseteq Ended'
    BY <1>1, <1>2, <1>4 DEF CaptureInv, CaptureType
  <2>3. /\ queue' \in Seq(Ended') /\ buffer' \in Seq(SentTo("gcp")') /\ flushes' \in [Capture!Who -> Flushes]
        /\ \A v \in Capture!Who : flushes'[v].records \in Seq(SentTo("gcp")')
        /\ configured' \in Exporters \union {Capture!NoExporter}
        /\ to' \in [Calls -> Exporters \union {Capture!NoExporter}]
        /\ outcome' \in [Calls -> {"none", "result", "error"}] /\ shared' \in BOOLEAN
    BY <1>1, <1>4 DEF CaptureInv, CaptureType
  <2>4. QED
    BY <1>2, <1>4, <1>7, <2>1, <2>2, <2>3 DEF CaptureType, Flushes
<1>9. ASSUME ~ shared PROVE FlushesAlone' /\ NoRecordTwice' /\ OnePlaceEach(Q, Ended)
  <2>1. FlushesAlone /\ NoRecordTwice /\ OnePlaceEach(P, Ended)
    BY <1>9 DEF CaptureInv
  <2>2. FlushesAlone'
    BY <1>1, <2>1 DEF FlushesAlone, IsFlushing
  <2>3. P["destination"] = UNION {Capture!Range(arrived[e]) : e \in Exporters}
        /\ Q["destination"] = UNION {Capture!Range(arrived'[e]) : e \in Exporters}
        /\ P["dropped"] = dropped /\ Q["dropped"] = dropped'
        /\ Q["queue"] = P["queue"] /\ Q["buffer"] = P["buffer"] /\ Q["flush"] = P["flush"]
    BY <1>1, PlacesAre, PlacesWillBe
  <2>4. from \in PlaceNames /\ from # "destination" /\ from # "dropped"
        /\ "destination" \in PlaceNames /\ "dropped" \in PlaceNames
    BY <1>3 DEF PlaceNames
  <2> HIDE DEF P, Q
  <2>5. c \notin P["destination"]
    BY <1>2, <1>3, <2>1, <2>4 DEF OnePlaceEach
  <2>6. NoRecordTwice'
    <3>1. c \notin Capture!Range(arrived[to[c]])
      BY <1>2, <2>3, <2>5
    <3>2. \A e \in Exporters : Capture!IsInjective(arrived'[e])
      BY <1>6, <1>7, <2>1, <3>1 DEF NoRecordTwice
    <3>3. QED
      BY <1>1, <2>1, <3>2 DEF NoRecordTwice
  <2>7. CASE arrived' = arrived /\ dropped' = dropped \union {c}
    <3>1. Q["dropped"] = P["dropped"] \union {c} /\ Q["destination"] = P["destination"]
      BY <2>3, <2>7
    <3>2. \A p \in PlaceNames \ {from, "dropped"} : Q[p] = P[p]
      BY <1>3, <2>3, <3>1 DEF PlaceNames
    <3>3. {c} \subseteq P[from] /\ Q[from] = P[from] \ {c}
      BY <1>3
    <3>4. Moves(P, Q, from, "dropped", {c})
      BY <2>4, <3>1, <3>2, <3>3 DEF Moves
    <3>5. OnePlaceEach(Q, Ended)
      BY <2>1, <3>4, SomeMove
    <3>6. QED
      BY <2>2, <2>6, <3>5
  <2>8. CASE arrived' = [arrived EXCEPT ![to[c]] = Append(@, c)] /\ dropped' = dropped
    <3>1. arrived'[to[c]] = Append(arrived[to[c]], c) /\ \A e \in Exporters \ {to[c]} : arrived'[e] = arrived[e]
      BY <1>2, <1>5, <2>8
    <3>2. Q["destination"] = P["destination"] \union {c} /\ Q["dropped"] = P["dropped"]
      BY <1>2, <1>6, <2>3, <2>8, <3>1
    <3>3. \A p \in PlaceNames \ {from, "destination"} : Q[p] = P[p]
      BY <1>3, <2>3, <3>2 DEF PlaceNames
    <3>4. {c} \subseteq P[from] /\ Q[from] = P[from] \ {c}
      BY <1>3
    <3>5. Moves(P, Q, from, "destination", {c})
      BY <2>4, <3>2, <3>3, <3>4 DEF Moves
    <3>6. OnePlaceEach(Q, Ended)
      BY <2>1, <3>5, SomeMove
    <3>7. QED
      BY <2>2, <2>6, <3>6
  <2>9. QED
    BY <1>1, <2>7, <2>8
<1>10. QED
  BY <1>1, <1>2, <1>4, <1>8, <1>9 DEF CaptureInv, OnePlaceEach

\* What a thread that flushes has copied.
LEMMA FlushState ==
  ASSUME CaptureType, NEW w \in Capture!Who
  PROVE  /\ flushes[w] \in Flushes /\ flushes[w].records \in Seq(SentTo("gcp"))
         /\ flushes[w].step = "none" => flushes[w] = Capture!NotFlushing
         /\ flushes[w].step # "none" =>
              /\ flushes[w].records # << >>
              /\ \A s : [flushes[w] EXCEPT !.step = s] = [records |-> flushes[w].records, step |-> s]
              /\ \A r : [flushes[w] EXCEPT !.records = r] = [records |-> r, step |-> flushes[w].step]
<1>1. flushes[w] \in Flushes /\ flushes[w].records \in Seq(SentTo("gcp"))
  BY DEF CaptureType
<1>2. CASE flushes[w] = Capture!NotFlushing
  BY <1>1, <1>2 DEF Capture!NotFlushing
<1>3. CASE flushes[w] \in [records : Seq(Calls) \ {<< >>}, step : {"copied", "cleared"}]
  BY <1>1, <1>3
<1>4. QED
  BY <1>1, <1>2, <1>3 DEF Flushes

\* Some records copied of the buffer are a flush.
LEMMA CopiedIsFlush ==
  ASSUME NEW r \in Seq(SentTo("gcp")), r # << >>, NEW s, s = "copied" \/ s = "cleared"
  PROVE  [records |-> r, step |-> s] \in Flushes
<1>1. r \in Seq(Calls)
  BY SeqMonotonic DEF SentTo, Ended
<1>2. QED
  BY <1>1 DEF Flushes

\* A step of the flush of one thread keeps the types.
LEMMA FlushTypes ==
  ASSUME CaptureInv, NEW w \in Capture!Who, NEW s \in Flushes, flushes' = [flushes EXCEPT ![w] = s],
         s.records \in Seq(SentTo("gcp")), buffer' \in Seq(SentTo("gcp")),
         UNCHANGED <<configured, to, outcome, queue>>,
         calls' \in [Calls -> {"idle", "running", "cancelled", "exporting", "waited", "ended"}],
         holds' = << >> \/ \E d \in Ended : holds' = <<d>>,
         DOMAIN arrived' = Exporters, \A e \in Exporters : arrived'[e] \in Seq(SentTo(e)),
         dropped' \subseteq Ended, shared' \in BOOLEAN
  PROVE  /\ CaptureType' /\ Ended' = Ended
         /\ flushes'[w] = s /\ \A v \in Capture!Who \ {w} : flushes'[v] = flushes[v]
<1>1. Ended' = Ended /\ SentTo("gcp")' = SentTo("gcp") /\ \A e \in Exporters : SentTo(e)' = SentTo(e)
  BY SameEnded
<1>2. flushes \in [Capture!Who -> Flushes] /\ \A v \in Capture!Who : flushes[v].records \in Seq(SentTo("gcp"))
  BY DEF CaptureInv, CaptureType
<1>3. flushes'[w] = s /\ \A v \in Capture!Who \ {w} : flushes'[v] = flushes[v]
  BY <1>2
<1>4. flushes' \in [Capture!Who -> Flushes] /\ \A v \in Capture!Who : flushes'[v].records \in Seq(SentTo("gcp"))
  <2>1. flushes' \in [Capture!Who -> Flushes]
    BY <1>2
  <2>2. QED
    BY <1>2, <1>3, <2>1
<1>5. /\ queue' \in Seq(Ended) /\ configured' \in Exporters \union {Capture!NoExporter}
      /\ to' \in [Calls -> Exporters \union {Capture!NoExporter}]
      /\ outcome' \in [Calls -> {"none", "result", "error"}]
  BY DEF CaptureInv, CaptureType
<1>6. CaptureType'
  BY <1>1, <1>4, <1>5 DEF CaptureType, Flushes
<1>7. QED
  BY <1>1, <1>3, <1>6

\* A step of the flush of one thread while no other flushes.
LEMMA FlushesOn ==
  ASSUME CaptureType, NoRecordTwice, NEW w \in Capture!Who, NEW s, flushes'[w] = s,
         \A v \in Capture!Who \ {w} : flushes[v] = Capture!NotFlushing /\ flushes'[v] = flushes[v],
         s.step = "copied" => buffer' = s.records, s.step = "cleared" => buffer' = << >>,
         Capture!IsInjective(buffer'), Capture!IsInjective(s.records), queue' = queue,
         \A e \in Exporters : Capture!IsInjective(arrived'[e])
  PROVE  /\ FlushesAlone' /\ NoRecordTwice'
         /\ Capture!Places'["flush"] = Capture!Range(s.records)
         /\ s.step = "copied" => Capture!Places'["buffer"] = {}
         /\ s.step # "copied" => Capture!Places'["buffer"] = Capture!Range(buffer')
         /\ Capture!Places["flush"] = Capture!Range(flushes[w].records)
         /\ flushes[w].step = "copied" =>
              Capture!Places["buffer"] = Capture!Range(buffer) \ Capture!Range(flushes[w].records)
         /\ flushes[w].step # "copied" => Capture!Places["buffer"] = Capture!Range(buffer)
<1>1. \A v \in Capture!Who \ {w} : flushes'[v] = Capture!NotFlushing /\ flushes'[v].step = "none"
                                   /\ Capture!IsInjective(flushes'[v].records)
  BY RangeSmall DEF Capture!NotFlushing
<1>2. FlushesAlone'
  BY <1>1 DEF FlushesAlone, IsFlushing
<1>3. NoRecordTwice'
  BY <1>1 DEF NoRecordTwice
<1>4. /\ InFlushes(flushes) = Capture!Range(flushes[w].records)
      /\ flushes[w].step = "copied" => InCopies(flushes) = Capture!Range(flushes[w].records)
      /\ flushes[w].step # "copied" => InCopies(flushes) = {}
  BY OneFlushes
<1>5. /\ InFlushes(flushes') = Capture!Range(s.records)
      /\ s.step = "copied" => InCopies(flushes') = Capture!Range(s.records)
      /\ s.step # "copied" => InCopies(flushes') = {}
  BY <1>1, OneFlushes
<1>6. /\ Capture!Places'["buffer"] = Capture!Range(buffer') \ InCopies(flushes')
      /\ Capture!Places'["flush"] = InFlushes(flushes')
      /\ Capture!Places["buffer"] = Capture!Range(buffer) \ InCopies(flushes)
      /\ Capture!Places["flush"] = InFlushes(flushes)
  BY PlacesAre, PlacesWillBe
<1>7. QED
  BY <1>2, <1>3, <1>4, <1>5, <1>6

\* Who flushes is alone.
LEMMA OthersDoNot ==
  ASSUME CaptureType
  PROVE  /\ \A w \in Capture!Who : FlushesAlone /\ IsFlushing(w)
              => \A v \in Capture!Who \ {w} : flushes[v] = Capture!NotFlushing
         /\ \A w : ~ Capture!Others(w) => \A v \in Capture!Who \ {w} : flushes[v] = Capture!NotFlushing
<1>1. \A v \in Capture!Who : ~ IsFlushing(v) => flushes[v] = Capture!NotFlushing
  BY FlushState DEF IsFlushing
<1>2. QED
  BY <1>1 DEF FlushesAlone, Capture!Others

\* flush and close copy the buffer.
LEMMA CaptureFlush ==
  ASSUME CaptureInv, Capture!Flush
  PROVE  CaptureInv'
<1> DEFINE P == Capture!Places
           Q == Capture!Places'
           w == Capture!Main
           s == [records |-> buffer, step |-> "copied"]
<1>1. /\ flushes[w] = Capture!NotFlushing /\ buffer # << >> /\ flushes' = [flushes EXCEPT ![w] = s]
      /\ shared' = (shared \/ Capture!Others(w))
      /\ UNCHANGED <<configured, calls, to, outcome, queue, holds, buffer, arrived, dropped>>
      /\ w \in Capture!Who
  BY DEF Capture!Flush, Capture!call, Capture!Who
<1>2. /\ buffer \in Seq(SentTo("gcp")) /\ CaptureType
      /\ calls \in [Calls -> {"idle", "running", "cancelled", "exporting", "waited", "ended"}]
      /\ holds = << >> \/ \E d \in Ended : holds = <<d>>
      /\ DOMAIN arrived = Exporters /\ \A e \in Exporters : arrived[e] \in Seq(SentTo(e))
      /\ dropped \subseteq Ended
  BY DEF CaptureInv, CaptureType
<1>3. s \in Flushes /\ s.records = buffer /\ s.step = "copied"
  BY <1>1, <1>2, CopiedIsFlush
<1> HIDE DEF s, w
<1>4. /\ CaptureType' /\ Ended' = Ended
      /\ flushes'[w] = s /\ \A v \in Capture!Who \ {w} : flushes'[v] = flushes[v]
  <2>1. shared' \in BOOLEAN
    BY <1>1
  <2>2. QED
    BY <1>1, <1>2, <1>3, <2>1, FlushTypes
<1>5. CallsHaveExporters'
  BY <1>1 DEF CaptureInv, CallsHaveExporters, Ended
<1>6. ASSUME ~ shared' PROVE FlushesAlone' /\ NoRecordTwice' /\ OnePlaceEach(Q, Ended)
  <2>1. FlushesAlone /\ NoRecordTwice /\ OnePlaceEach(P, Ended) /\ ~ Capture!Others(w)
    BY <1>1, <1>6 DEF CaptureInv
  <2>2. \A v \in Capture!Who \ {w} : flushes[v] = Capture!NotFlushing /\ flushes'[v] = flushes[v]
    BY <1>2, <1>4, <2>1, OthersDoNot
  <2>3. /\ buffer' = s.records /\ s.step # "cleared" /\ Capture!IsInjective(buffer')
        /\ Capture!IsInjective(s.records) /\ \A e \in Exporters : Capture!IsInjective(arrived'[e])
    BY <1>1, <1>3, <2>1 DEF NoRecordTwice
  <2>4. /\ FlushesAlone' /\ NoRecordTwice'
        /\ Q["flush"] = Capture!Range(buffer) /\ Q["buffer"] = {}
        /\ P["flush"] = {} /\ P["buffer"] = Capture!Range(buffer)
    <3>1. flushes[w].records = << >> /\ flushes[w].step = "none"
      BY <1>1 DEF Capture!NotFlushing
    <3>2. QED
      BY <1>1, <1>2, <1>3, <1>4, <2>1, <2>2, <2>3, <3>1, FlushesOn, RangeSmall
  <2>5. /\ Q["queue"] = P["queue"] /\ Q["worker"] = P["worker"] /\ Q["call"] = P["call"]
        /\ Q["destination"] = P["destination"] /\ Q["dropped"] = P["dropped"]
    BY <1>1, PlacesAre, PlacesWillBe
  <2> HIDE DEF P, Q
  <2>6. Moves(P, Q, "buffer", "flush", Capture!Range(buffer))
    BY <2>4, <2>5 DEF Moves, PlaceNames
  <2>7. OnePlaceEach(Q, Ended)
    BY <2>1, <2>6, SomeMove
  <2>8. QED
    BY <2>4, <2>7
<1>7. QED
  BY <1>4, <1>5, <1>6 DEF CaptureInv, OnePlaceEach

\* The buffer that was copied is cleared.
LEMMA CaptureClear ==
  ASSUME CaptureInv, NEW w \in Capture!Who, Capture!Clear(w)
  PROVE  CaptureInv'
<1> DEFINE P == Capture!Places
           Q == Capture!Places'
           r == flushes[w].records
           s == [records |-> r, step |-> "cleared"]
<1>1. /\ flushes[w].step = "copied" /\ buffer' = << >>
      /\ UNCHANGED <<configured, calls, to, outcome, queue, holds, arrived, dropped, shared>>
  BY DEF Capture!Clear, Capture!call
<1>2. /\ CaptureType /\ buffer' \in Seq(SentTo("gcp")) /\ shared' \in BOOLEAN
      /\ calls \in [Calls -> {"idle", "running", "cancelled", "exporting", "waited", "ended"}]
      /\ holds = << >> \/ \E d \in Ended : holds = <<d>>
      /\ DOMAIN arrived = Exporters /\ \A e \in Exporters : arrived[e] \in Seq(SentTo(e))
      /\ dropped \subseteq Ended
  BY <1>1 DEF CaptureInv, CaptureType
<1>3. r \in Seq(SentTo("gcp")) /\ r # << >> /\ [flushes[w] EXCEPT !.step = "cleared"] = s
  BY <1>1, <1>2, FlushState
<1>4. flushes' = [flushes EXCEPT ![w] = s]
  <2>1. flushes' = [flushes EXCEPT ![w] = [flushes[w] EXCEPT !.step = "cleared"]]
    BY DEF Capture!Clear
  <2>2. QED
    BY <1>3, <2>1
<1>5. s \in Flushes /\ s.records = r /\ s.step = "cleared"
  BY <1>3, CopiedIsFlush
<1> HIDE DEF s, r
<1>6. /\ CaptureType' /\ Ended' = Ended
      /\ flushes'[w] = s /\ \A v \in Capture!Who \ {w} : flushes'[v] = flushes[v]
  BY <1>1, <1>2, <1>3, <1>4, <1>5, FlushTypes
<1>7. CallsHaveExporters'
  BY <1>1 DEF CaptureInv, CallsHaveExporters, Ended
<1>8. ASSUME ~ shared PROVE FlushesAlone' /\ NoRecordTwice' /\ OnePlaceEach(Q, Ended)
  <2>1. FlushesAlone /\ NoRecordTwice /\ OnePlaceEach(P, Ended) /\ IsFlushing(w)
    BY <1>1, <1>8 DEF CaptureInv, IsFlushing
  <2>2. \A v \in Capture!Who \ {w} : flushes[v] = Capture!NotFlushing /\ flushes'[v] = flushes[v]
    BY <1>2, <1>6, <2>1, OthersDoNot
  <2>3. /\ s.step # "copied" /\ Capture!IsInjective(buffer')
        /\ Capture!IsInjective(s.records) /\ \A e \in Exporters : Capture!IsInjective(arrived'[e])
    BY <1>1, <1>5, <2>1, RangeSmall DEF NoRecordTwice, r
  <2>4. /\ FlushesAlone' /\ NoRecordTwice'
        /\ Q["flush"] = Capture!Range(r) /\ Q["buffer"] = Capture!Range(buffer')
        /\ P["flush"] = Capture!Range(r) /\ P["buffer"] = Capture!Range(buffer) \ Capture!Range(r)
    BY <1>1, <1>2, <1>5, <1>6, <2>1, <2>2, <2>3, FlushesOn DEF r
  <2>5. /\ Q["queue"] = P["queue"] /\ Q["worker"] = P["worker"] /\ Q["call"] = P["call"]
        /\ Q["destination"] = P["destination"] /\ Q["dropped"] = P["dropped"]
    BY <1>1, PlacesAre, PlacesWillBe
  <2>6. buffer = r /\ Capture!Range(buffer') = {}
    BY <1>1, <2>1, RangeSmall DEF FlushesAlone, r
  <2> HIDE DEF P, Q
  <2>7. \A p \in PlaceNames : Q[p] = P[p]
    BY <2>4, <2>5, <2>6 DEF PlaceNames
  <2>8. OnePlaceEach(Q, Ended)
    BY <2>1, <2>7 DEF OnePlaceEach
  <2>9. QED
    BY <2>4, <2>8
<1>9. QED
  BY <1>1, <1>6, <1>7, <1>8 DEF CaptureInv, OnePlaceEach

\* The first of the copied records is sent.
LEMMA CaptureSend ==
  ASSUME CaptureInv, NEW w \in Capture!Who, Capture!Send(w)
  PROVE  CaptureInv'
<1> DEFINE P == Capture!Places
           Q == Capture!Places'
           r == flushes[w].records
           c == Head(r)
           s == IF Tail(r) = << >> THEN Capture!NotFlushing ELSE [records |-> Tail(r), step |-> "cleared"]
<1>1. /\ flushes[w].step = "cleared" /\ arrived' = [arrived EXCEPT !["gcp"] = Append(@, c)]
      /\ UNCHANGED <<configured, calls, to, outcome, queue, holds, buffer, dropped, shared>>
  BY DEF Capture!Send, Capture!call
<1>2. /\ CaptureType /\ buffer \in Seq(SentTo("gcp")) /\ shared \in BOOLEAN
      /\ calls \in [Calls -> {"idle", "running", "cancelled", "exporting", "waited", "ended"}]
      /\ holds = << >> \/ \E d \in Ended : holds = <<d>>
      /\ DOMAIN arrived = Exporters /\ \A e \in Exporters : arrived[e] \in Seq(SentTo(e))
      /\ dropped \subseteq Ended
  BY DEF CaptureInv, CaptureType
<1>3. /\ r \in Seq(SentTo("gcp")) /\ r # << >>
  BY <1>1, <1>2, FlushState
<1>4. flushes' = [flushes EXCEPT ![w] = s]
  BY DEF Capture!Send
<1>5. /\ c \in SentTo("gcp") /\ Tail(r) \in Seq(SentTo("gcp"))
      /\ Capture!Range(r) = Capture!Range(Tail(r)) \union {c}
      /\ Capture!IsInjective(r) => Capture!IsInjective(Tail(r)) /\ c \notin Capture!Range(Tail(r))
  BY <1>3, RangeTail
<1>6. s \in Flushes /\ s.records = Tail(r) /\ s.step # "copied" /\ (s.step = "cleared" \/ s = Capture!NotFlushing)
  <2>1. CASE Tail(r) = << >>
    BY <2>1 DEF Flushes, Capture!NotFlushing
  <2>2. CASE Tail(r) # << >>
    <3>1. [records |-> Tail(r), step |-> "cleared"] \in Flushes
      BY <1>5, <2>2, CopiedIsFlush
    <3>2. QED
      BY <2>2, <3>1
  <2>3. QED
    BY <2>1, <2>2
<1>7. /\ "gcp" \in Exporters /\ c \in Ended /\ to[c] = "gcp"
  BY <1>2, <1>5 DEF SentTo, Ended, CaptureType, Capture!NoExporter
<1> HIDE DEF s, r, c
<1>8. /\ DOMAIN arrived' = Exporters /\ arrived'["gcp"] = Append(arrived["gcp"], c)
      /\ \A e \in Exporters \ {"gcp"} : arrived'[e] = arrived[e]
  BY <1>1, <1>2, <1>7
<1>9. /\ Append(arrived["gcp"], c) \in Seq(SentTo("gcp"))
      /\ Capture!Range(Append(arrived["gcp"], c)) = Capture!Range(arrived["gcp"]) \union {c}
      /\ c \notin Capture!Range(arrived["gcp"]) /\ Capture!IsInjective(arrived["gcp"])
           => Capture!IsInjective(Append(arrived["gcp"], c))
  BY <1>2, <1>5, <1>7, AppendProperties, RangeAppend
<1>10. /\ CaptureType' /\ Ended' = Ended
       /\ flushes'[w] = s /\ \A v \in Capture!Who \ {w} : flushes'[v] = flushes[v]
  <2>1. \A e \in Exporters : arrived'[e] \in Seq(SentTo(e))
    BY <1>2, <1>8, <1>9
  <2>2. QED
    BY <1>1, <1>2, <1>4, <1>5, <1>6, <1>8, <2>1, FlushTypes
<1>11. CallsHaveExporters'
  BY <1>1 DEF CaptureInv, CallsHaveExporters, Ended
<1>12. ASSUME ~ shared PROVE FlushesAlone' /\ NoRecordTwice' /\ OnePlaceEach(Q, Ended)
  <2>1. FlushesAlone /\ NoRecordTwice /\ OnePlaceEach(P, Ended) /\ IsFlushing(w)
    BY <1>1, <1>12 DEF CaptureInv, IsFlushing
  <2>2. \A v \in Capture!Who \ {w} : flushes[v] = Capture!NotFlushing /\ flushes'[v] = flushes[v]
    BY <1>2, <1>10, <2>1, OthersDoNot
  <2>3. /\ buffer = << >> /\ buffer' = << >> /\ Capture!IsInjective(r) /\ Capture!IsInjective(s.records)
        /\ c \notin Capture!Range(Tail(r)) /\ Capture!IsInjective(buffer')
        /\ Capture!Range(buffer) = {} /\ Capture!Range(buffer') = {}
    <3>1. buffer = << >> /\ Capture!IsInjective(r)
      BY <1>1, <2>1 DEF FlushesAlone, NoRecordTwice, r
    <3>2. QED
      BY <1>1, <1>5, <1>6, <3>1, RangeSmall
  <2>4. /\ P["destination"] = UNION {Capture!Range(arrived[e]) : e \in Exporters}
        /\ Q["destination"] = UNION {Capture!Range(arrived'[e]) : e \in Exporters}
        /\ Q["queue"] = P["queue"] /\ Q["worker"] = P["worker"] /\ Q["call"] = P["call"]
        /\ Q["dropped"] = P["dropped"] /\ P["flush"] = InFlushes(flushes)
    BY <1>1, PlacesAre, PlacesWillBe
  <2>5. c \notin Capture!Range(arrived["gcp"])
    <3>1. c \in P["flush"]
      <4>1. InFlushes(flushes) = Capture!Range(r)
        BY <2>2, OneFlushes DEF r
      <4>2. QED
        BY <1>5, <2>4, <4>1
    <3>2. "flush" \in PlaceNames /\ "destination" \in PlaceNames /\ "flush" # "destination"
      BY DEF PlaceNames
    <3>3. c \notin P["destination"]
      BY <1>7, <2>1, <3>1, <3>2 DEF OnePlaceEach
    <3>4. QED
      BY <1>7, <2>4, <3>3
  <2>6. \A e \in Exporters : Capture!IsInjective(arrived'[e])
    BY <1>8, <1>9, <2>1, <2>5 DEF NoRecordTwice
  <2>7. /\ FlushesAlone' /\ NoRecordTwice'
        /\ Q["flush"] = Capture!Range(Tail(r)) /\ Q["buffer"] = {}
        /\ P["flush"] = Capture!Range(r) /\ P["buffer"] = {}
    BY <1>1, <1>2, <1>6, <1>10, <2>1, <2>2, <2>3, <2>6, FlushesOn DEF r
  <2> HIDE DEF P, Q
  <2>8. Q["destination"] = P["destination"] \union {c}
    <3>1. Capture!Range(arrived'["gcp"]) = Capture!Range(arrived["gcp"]) \union {c}
      BY <1>8, <1>9
    <3>2. \A e \in Exporters \ {"gcp"} : Capture!Range(arrived'[e]) = Capture!Range(arrived[e])
      BY <1>8
    <3>3. QED
      BY <1>7, <2>4, <3>1, <3>2
  <2>9. Moves(P, Q, "flush", "destination", {c})
    <3>1. {c} \subseteq P["flush"] /\ Q["flush"] = P["flush"] \ {c}
      BY <1>5, <2>3, <2>7
    <3>2. \A p \in PlaceNames \ {"flush", "destination"} : Q[p] = P[p]
      BY <2>4, <2>7 DEF PlaceNames
    <3>3. QED
      BY <2>8, <3>1, <3>2 DEF Moves, PlaceNames
  <2>10. OnePlaceEach(Q, Ended)
    BY <2>1, <2>9, SomeMove
  <2>11. QED
    BY <2>7, <2>10
<1>13. QED
  BY <1>1, <1>10, <1>11, <1>12 DEF CaptureInv, OnePlaceEach

\* What was copied and not sent is dropped.
LEMMA CaptureSendFails ==
  ASSUME CaptureInv, NEW w \in Capture!Who, Capture!SendFails(w)
  PROVE  CaptureInv'
<1> DEFINE P == Capture!Places
           Q == Capture!Places'
           r == flushes[w].records
           s == Capture!NotFlushing
<1>1. /\ flushes[w].step = "cleared" /\ dropped' = dropped \union Capture!Range(r)
      /\ flushes' = [flushes EXCEPT ![w] = s]
      /\ UNCHANGED <<configured, calls, to, outcome, queue, holds, buffer, arrived, shared>>
  BY DEF Capture!SendFails, Capture!call
<1>2. /\ CaptureType /\ buffer \in Seq(SentTo("gcp")) /\ shared \in BOOLEAN
      /\ calls \in [Calls -> {"idle", "running", "cancelled", "exporting", "waited", "ended"}]
      /\ holds = << >> \/ \E d \in Ended : holds = <<d>>
      /\ DOMAIN arrived = Exporters /\ \A e \in Exporters : arrived[e] \in Seq(SentTo(e))
      /\ dropped \subseteq Ended
  BY DEF CaptureInv, CaptureType
<1>3. r \in Seq(SentTo("gcp")) /\ Capture!Range(r) \subseteq Ended
  <2>1. r \in Seq(SentTo("gcp"))
    BY <1>2, FlushState
  <2>2. Capture!Range(r) \subseteq SentTo("gcp")
    BY <2>1, RangeInside
  <2>3. QED
    BY <2>1, <2>2 DEF SentTo
<1>4. s \in Flushes /\ s.records = << >> /\ s.step = "none" /\ s.records \in Seq(SentTo("gcp"))
  BY DEF Flushes, Capture!NotFlushing
<1> HIDE DEF s, r
<1>5. /\ CaptureType' /\ Ended' = Ended
      /\ flushes'[w] = s /\ \A v \in Capture!Who \ {w} : flushes'[v] = flushes[v]
  <2>1. dropped' \subseteq Ended
    BY <1>1, <1>2, <1>3
  <2>2. QED
    BY <1>1, <1>2, <1>4, <2>1, FlushTypes
<1>6. CallsHaveExporters'
  BY <1>1 DEF CaptureInv, CallsHaveExporters, Ended
<1>7. ASSUME ~ shared PROVE FlushesAlone' /\ NoRecordTwice' /\ OnePlaceEach(Q, Ended)
  <2>1. FlushesAlone /\ NoRecordTwice /\ OnePlaceEach(P, Ended) /\ IsFlushing(w)
    BY <1>1, <1>7 DEF CaptureInv, IsFlushing
  <2>2. \A v \in Capture!Who \ {w} : flushes[v] = Capture!NotFlushing /\ flushes'[v] = flushes[v]
    BY <1>2, <1>5, <2>1, OthersDoNot
  <2>3. /\ Capture!IsInjective(buffer') /\ Capture!IsInjective(s.records) /\ buffer' = buffer
        /\ \A e \in Exporters : Capture!IsInjective(arrived'[e])
    BY <1>1, <1>4, <2>1, RangeSmall DEF NoRecordTwice
  <2>4. /\ FlushesAlone' /\ NoRecordTwice'
        /\ Q["flush"] = {} /\ Q["buffer"] = Capture!Range(buffer)
        /\ P["flush"] = Capture!Range(r) /\ P["buffer"] = Capture!Range(buffer)
    BY <1>1, <1>2, <1>4, <1>5, <2>1, <2>2, <2>3, FlushesOn, RangeSmall DEF r
  <2>5. /\ Q["queue"] = P["queue"] /\ Q["worker"] = P["worker"] /\ Q["call"] = P["call"]
        /\ Q["destination"] = P["destination"] /\ P["dropped"] = dropped /\ Q["dropped"] = dropped'
    BY <1>1, PlacesAre, PlacesWillBe
  <2> HIDE DEF P, Q
  <2>6. Moves(P, Q, "flush", "dropped", Capture!Range(r))
    BY <1>1, <2>4, <2>5 DEF Moves, PlaceNames
  <2>7. OnePlaceEach(Q, Ended)
    BY <2>1, <2>6, SomeMove
  <2>8. QED
    BY <2>4, <2>7
<1>8. QED
  BY <1>1, <1>5, <1>6, <1>7 DEF CaptureInv, OnePlaceEach

\* A record for gcp is buffered, and a full buffer copied.
LEMMA CaptureBuffers ==
  ASSUME CaptureInv, NEW c \in Calls, NEW w, w = c \/ w = Capture!Worker, Capture!Buffer(w, c)
  PROVE  CaptureInv'
<1> DEFINE P == Capture!Places
           Q == Capture!Places'
           full == Len(buffer') >= BatchSize
           s == IF full THEN [records |-> buffer', step |-> "copied"] ELSE Capture!NotFlushing
<1>1. /\ Capture!Has(w, c) /\ Capture!Done(w) /\ to[c] = "gcp" /\ flushes[w] = Capture!NotFlushing
      /\ buffer' = Append(buffer, c) /\ shared' = (shared \/ Capture!Others(w))
      /\ UNCHANGED <<configured, to, outcome, queue, arrived, dropped>>
  BY DEF Capture!Buffer
<1>2. /\ c \in Ended /\ c \in SentTo("gcp") /\ w \in Capture!Who
      /\ calls' \in [Calls -> {"idle", "running", "cancelled", "exporting", "waited", "ended"}]
      /\ holds' = << >> \/ \E d \in Ended : holds' = <<d>>
      /\ CallsHaveExporters'
  BY <1>1, OneIsExported DEF SentTo
<1>3. PICK from, other :
        /\ (from = "worker" /\ other = "call") \/ (from = "call" /\ other = "worker")
        /\ c \in P[from] /\ Q[from] = P[from] \ {c} /\ Q[other] = P[other]
  BY <1>1, OneIsExported
<1>4. /\ CaptureType /\ buffer \in Seq(SentTo("gcp")) /\ shared' \in BOOLEAN
      /\ DOMAIN arrived' = Exporters /\ \A e \in Exporters : arrived'[e] \in Seq(SentTo(e))
      /\ dropped' \subseteq Ended /\ flushes \in [Capture!Who -> Flushes]
  BY <1>1 DEF CaptureInv, CaptureType
<1>5. /\ buffer' \in Seq(SentTo("gcp")) /\ Capture!Range(buffer') = Capture!Range(buffer) \union {c}
      /\ c \notin Capture!Range(buffer) /\ Capture!IsInjective(buffer) => Capture!IsInjective(buffer')
      /\ buffer' # << >>
  <2>1. buffer' \in Seq(SentTo("gcp")) /\ Capture!Range(buffer') = Capture!Range(buffer) \union {c}
    BY <1>1, <1>2, <1>4, AppendProperties, RangeAppend
  <2>2. c \notin Capture!Range(buffer) /\ Capture!IsInjective(buffer) => Capture!IsInjective(buffer')
    BY <1>1, <1>2, <1>4, RangeAppend
  <2>3. buffer' # << >>
    BY <2>1, RangeSmall
  <2>4. QED
    BY <2>1, <2>2, <2>3
<1>6. flushes' = [flushes EXCEPT ![w] = s]
  BY <1>1, <1>2, <1>4 DEF Capture!Buffer
<1>7. /\ s \in Flushes /\ s.records \in Seq(SentTo("gcp")) /\ s.step # "cleared"
      /\ s.step = "copied" => s.records = buffer'
      /\ s.step # "copied" => s.records = << >>
      /\ s.records = buffer' \/ s.records = << >>
  <2>1. [records |-> buffer', step |-> "copied"] \in Flushes
    BY <1>5, CopiedIsFlush
  <2>2. Capture!NotFlushing \in Flushes /\ Capture!NotFlushing.records = << >> /\ Capture!NotFlushing.step = "none"
    BY DEF Flushes, Capture!NotFlushing
  <2> HIDE DEF full
  <2>3. CASE full
    <3>1. s = [records |-> buffer', step |-> "copied"]
      BY <2>3
    <3>2. s.records = buffer' /\ s.step = "copied"
      BY <3>1
    <3>3. QED
      BY <1>5, <2>1, <3>1, <3>2
  <2>4. CASE ~ full
    <3>1. s = Capture!NotFlushing
      BY <2>4
    <3>2. << >> \in Seq(SentTo("gcp"))
      OBVIOUS
    <3> HIDE DEF s
    <3>3. QED
      BY <2>2, <3>1, <3>2
  <2>5. QED
    BY <2>3, <2>4
<1> HIDE DEF s, full
<1>8. /\ CaptureType' /\ Ended' = Ended
      /\ flushes'[w] = s /\ \A v \in Capture!Who \ {w} : flushes'[v] = flushes[v]
  BY <1>1, <1>2, <1>4, <1>5, <1>6, <1>7, FlushTypes
<1>9. ASSUME ~ shared' PROVE FlushesAlone' /\ NoRecordTwice' /\ OnePlaceEach(Q, Ended)
  <2>1. FlushesAlone /\ NoRecordTwice /\ OnePlaceEach(P, Ended) /\ ~ Capture!Others(w)
    BY <1>1, <1>9 DEF CaptureInv
  <2>2. \A v \in Capture!Who \ {w} : flushes[v] = Capture!NotFlushing /\ flushes'[v] = flushes[v]
    BY <1>4, <1>8, <2>1, OthersDoNot
  <2>3. flushes[w].records = << >> /\ flushes[w].step = "none"
    BY <1>1 DEF Capture!NotFlushing
  <2>4. c \notin Capture!Range(buffer)
    <3>1. InCopies(flushes) = {}
      BY <1>2, <2>2, <2>3, OneFlushes
    <3>2. P["buffer"] = Capture!Range(buffer)
      BY <3>1, PlacesAre
    <3>3. from \in PlaceNames /\ "buffer" \in PlaceNames /\ from # "buffer"
      BY <1>3 DEF PlaceNames
    <3>4. c \notin P["buffer"]
      BY <1>2, <1>3, <2>1, <3>3 DEF OnePlaceEach
    <3>5. QED
      BY <3>2, <3>4
  <2>5. /\ Capture!IsInjective(buffer') /\ Capture!IsInjective(s.records)
        /\ \A e \in Exporters : Capture!IsInjective(arrived'[e])
    BY <1>1, <1>5, <1>7, <2>1, <2>4, RangeSmall DEF NoRecordTwice
  <2>6. /\ FlushesAlone' /\ NoRecordTwice' /\ Q["flush"] = Capture!Range(s.records)
        /\ s.step = "copied" => Q["buffer"] = {}
        /\ s.step # "copied" => Q["buffer"] = Capture!Range(buffer')
        /\ P["flush"] = {} /\ P["buffer"] = Capture!Range(buffer)
    BY <1>1, <1>2, <1>4, <1>7, <1>8, <2>1, <2>2, <2>3, <2>5, FlushesOn, RangeSmall
  <2>7. Q["queue"] = P["queue"] /\ Q["destination"] = P["destination"] /\ Q["dropped"] = P["dropped"]
    BY <1>1, PlacesAre, PlacesWillBe
  <2> DEFINE R == [p \in PlaceNames |-> IF p = "buffer" THEN Capture!Range(buffer')
                                        ELSE IF p = "flush" THEN {} ELSE Q[p]]
  <2> HIDE DEF P, Q
  <2>8. Moves(P, R, from, "buffer", {c})
    BY <1>3, <1>5, <2>6, <2>7 DEF Moves, PlaceNames
  <2>9. OnePlaceEach(R, Ended)
    <3> HIDE DEF R
    <3>1. QED
      BY <2>1, <2>8, SomeMove
  <2>10. CASE s.step = "copied"
    <3>1. Moves(R, Q, "buffer", "flush", Capture!Range(buffer'))
      BY <1>7, <2>6, <2>10 DEF Moves, PlaceNames
    <3> HIDE DEF R
    <3>2. OnePlaceEach(Q, Ended)
      BY <2>9, <3>1, SomeMove
    <3>3. QED
      BY <2>6, <3>2
  <2>11. CASE s.step # "copied"
    <3>1. \A p \in PlaceNames : R[p] = Q[p]
      BY <1>7, <2>6, <2>11, RangeSmall DEF PlaceNames
    <3> HIDE DEF R
    <3>2. OnePlaceEach(Q, Ended)
      BY <2>9, <3>1 DEF OnePlaceEach
    <3>3. QED
      BY <2>6, <3>2
  <2>12. QED
    BY <2>10, <2>11
<1>10. QED
  BY <1>1, <1>2, <1>8, <1>9 DEF CaptureInv, OnePlaceEach

\* It holds at first.
LEMMA CaptureStart == Capture!Init => CaptureInv
<1> SUFFICES ASSUME Capture!Init PROVE CaptureInv
  OBVIOUS
<1>1. Ended = {}
  BY DEF Capture!Init, Ended
<1>2. /\ << >> \in Seq(Ended) /\ << >> \in Seq(SentTo("gcp")) /\ \A e : << >> \in Seq(SentTo(e))
  OBVIOUS
<1>3. \A w \in Capture!Who : flushes[w] = Capture!NotFlushing /\ flushes[w].records = << >> /\ flushes[w].step = "none"
  BY DEF Capture!Init, Capture!NotFlushing
<1>4. CaptureType
  <2>1. flushes \in [Capture!Who -> Flushes]
    BY DEF Capture!Init, Flushes
  <2>2. /\ configured \in Exporters \union {Capture!NoExporter} /\ dropped \subseteq Ended /\ shared \in BOOLEAN
        /\ calls \in [Calls -> {"idle", "running", "cancelled", "exporting", "waited", "ended"}]
        /\ to \in [Calls -> Exporters \union {Capture!NoExporter}] /\ outcome \in [Calls -> {"none", "result", "error"}]
        /\ queue = << >> /\ holds = << >> /\ buffer = << >>
        /\ DOMAIN arrived = Exporters /\ \A e \in Exporters : arrived[e] = << >>
    BY DEF Capture!Init
  <2>3. QED
    BY <1>2, <1>3, <2>1, <2>2 DEF CaptureType
<1>5. CallsHaveExporters
  BY <1>1 DEF Capture!Init, CallsHaveExporters
<1>6. FlushesAlone /\ NoRecordTwice
  BY <1>3, RangeSmall DEF Capture!Init, FlushesAlone, IsFlushing, NoRecordTwice
<1>7. \A p \in PlaceNames : Capture!Places[p] = {}
  <2>1. Capture!Places["queue"] = {} /\ Capture!Places["worker"] = {} /\ Capture!Places["buffer"] = {}
    BY PlacesAre, RangeSmall DEF Capture!Init
  <2>2. Capture!Places["call"] = {} /\ Capture!Places["dropped"] = {}
    BY PlacesAre DEF Capture!Init
  <2>3. Capture!Places["destination"] = {}
    BY PlacesAre, RangeSmall DEF Capture!Init
  <2>4. Capture!Places["flush"] = {}
    BY <1>3, PlacesAre, RangeSmall DEF InFlushes
  <2>5. QED
    BY <2>1, <2>2, <2>3, <2>4 DEF PlaceNames
<1>8. OnePlaceEach(Capture!Places, Ended)
  BY <1>1, <1>7 DEF OnePlaceEach
<1>9. QED
  BY <1>4, <1>5, <1>6, <1>8 DEF CaptureInv

\* Every action keeps it.
LEMMA CaptureNexts ==
  ASSUME CaptureInv, Capture!Next
  PROVE  CaptureInv'
<1>1. CASE \E e \in Exporters \union {Capture!NoExporter} : Capture!Setup(e)
  BY <1>1, CaptureCalls
<1>2. ASSUME NEW c \in Calls,
             \/ Capture!CallBegins(c) \/ Capture!CallCancelled(c) \/ Capture!TimeOut(c)
             \/ \E how \in {"result", "error"}, async \in BOOLEAN : Capture!CallEnds(c, how, async)
             \/ \E w \in {c, Capture!Worker} : Capture!Export(w, c) \/ Capture!ExportFails(w, c) \/ Capture!Buffer(w, c)
      PROVE  CaptureInv'
  BY <1>2, CaptureCalls, CaptureEnds, CaptureExports, CaptureBuffers
<1>3. CASE Capture!Take \/ Capture!Flush
  BY <1>3, CaptureTake, CaptureFlush
<1>4. CASE \E w \in Capture!Who : Capture!Clear(w) \/ Capture!Send(w) \/ Capture!SendFails(w)
  BY <1>4, CaptureClear, CaptureSend, CaptureSendFails
<1>5. QED
  BY <1>1, <1>2, <1>3, <1>4 DEF Capture!Next

\* Nothing else touches the calls.
LEMMA CaptureStutter ==
  ASSUME CaptureInv, UNCHANGED captureVars
  PROVE  CaptureInv'
<1>1. UNCHANGED <<configured, calls, to, outcome, queue, holds, buffer, flushes, arrived, dropped, shared>>
  BY DEF captureVars
<1>2. CallsHaveExporters' /\ \A c \in Ended : to'[c] = to[c]
  BY <1>1 DEF CaptureInv, CallsHaveExporters, Ended
<1>3. /\ configured \in Exporters \union {Capture!NoExporter}
      /\ calls \in [Calls -> {"idle", "running", "cancelled", "exporting", "waited", "ended"}]
      /\ to \in [Calls -> Exporters \union {Capture!NoExporter}]
  BY DEF CaptureInv, CaptureType
<1>4. QED
  BY <1>1, <1>2, <1>3, CaptureQuiet

\* Every step keeps the invariant.
LEMMA CaptureStep ==
  ASSUME CaptureInv, [Capture!Next]_(Capture!vars)
  PROVE  CaptureInv'
BY CaptureNexts, CaptureStutter DEF Capture!vars, captureVars

\* Every record is in its place, and where it was sent.
LEMMA CaptureHolds ==
  ASSUME CaptureInv
  PROVE  Capture!RecordsAreInOnePlace
<1>1. ASSUME NEW c \in Calls, NEW e \in Exporters, c \in Capture!Range(arrived[e])
      PROVE  e = to[c] /\ outcome[c] # "none"
  <2>1. Capture!Range(arrived[e]) \subseteq SentTo(e)
    BY RangeInside DEF CaptureInv, CaptureType
  <2>2. QED
    BY <1>1, <2>1 DEF SentTo, Ended
<1>2. ASSUME NEW c \in Calls, outcome[c] # "none", ~ shared
      PROVE  \E p \in DOMAIN Capture!Places : \A q \in DOMAIN Capture!Places : c \in Capture!Places[q] <=> q = p
  BY <1>2, PlacesAre DEF CaptureInv, OnePlaceEach, Ended
<1>3. ~ shared => \A e \in Exporters : Capture!IsInjective(arrived[e])
  BY DEF CaptureInv, NoRecordTwice
<1>4. QED
  BY <1>1, <1>2, <1>3 DEF Capture!RecordsAreInOnePlace

------------------------------------------------------------------------------
\* The system.

SideInv ==
  /\ part = "storage" => StorageInv
  /\ part = "client" => ClientInv
  /\ part = "cli" => CliInv
  /\ part = "providers" => ProvidersInv
  /\ part = "routers" => RoutersInv
  /\ part = "pipeline" => PipelineInv
  /\ part = "stack" => StackInv
  /\ part = "curriculum" => CurriculumInv
  /\ part = "registry" => RegistryInv
  /\ part = "capture" => CaptureInv
  /\ part = "workflows" => WorkflowsInv
  /\ part = "episodes" => EpisodesInv
  /\ part = "evals" => EvalsInv

\* The invariant of the system holds at the start, whichever part it is.
LEMMA SideStart == SideInit => SideInv
BY StorageStart, ClientStart, CliStart, ProvidersStart, RoutersStart, PipelineStart, StackStart,
   CurriculumStart, RegistryStart, CaptureStart, WorkflowsStart, EpisodesStart, EvalsStart
   DEF SideInit, SideInv

\* ... and every step of that part keeps it.
LEMMA SideStep == SideInv /\ [SideNext]_sideVars => SideInv'
<1> SUFFICES ASSUME SideInv, [SideNext]_sideVars PROVE SideInv'
  OBVIOUS
<1>1. part' = part
  BY DEF SideNext, sideVars
<1>2. part = "storage" => [Storage!Next]_(Storage!vars)
  BY DEF SideNext, sideVars, sides, callVars, storageVars, Storage!vars
<1>3. part = "client" => [Client!Next]_(Client!vars)
  BY DEF SideNext, sideVars, sides, callVars, clientVars, Client!vars
<1>4. part = "cli" => [Cli!Next]_(Cli!vars)
  BY DEF SideNext, sideVars, sides, callVars, cliVars, Cli!vars
<1>5. part = "providers" => [Providers!Next]_(Providers!vars)
  BY DEF SideNext, sideVars, sides, callVars, providerVars, Providers!vars
<1>6. part = "routers" => [Routers!Next]_(Routers!vars)
  BY DEF SideNext, sideVars, sides, callVars, routerVars, Routers!vars
<1>7. part = "pipeline" => [Pipeline!Next]_stages
  BY DEF SideNext, sideVars, sides, guardrailVars
<1>8. part = "stack" => [Stack!Next]_(Stack!vars)
  BY DEF SideNext, sideVars, sides, guardrailVars, stackVars, Stack!vars
<1>9. part = "curriculum" => [Curriculum!Next]_(Curriculum!vars)
  BY DEF SideNext, sideVars, sides, guardrailVars, curriculumVars, Curriculum!vars
<1>10. part = "registry" => [Registry!Next]_(Registry!vars)
  BY DEF SideNext, sideVars, sides, guardrailVars, registryVars, Registry!vars
<1>11. part = "capture" => [Capture!Next]_(Capture!vars)
  BY DEF SideNext, sideVars, sides, recordVars, captureVars, Capture!vars
<1>12. part = "workflows" => [Workflows!Next]_(Workflows!vars)
  BY DEF SideNext, sideVars, sides, recordVars, workflowVars, Workflows!vars
<1>13. part = "episodes" => [Gym!Next]_(Gym!vars)
  BY DEF SideNext, sideVars, sides, recordVars, episodeVars, Gym!vars
<1>14. part = "evals" => [Evals!Next]_(Evals!vars)
  BY DEF SideNext, sideVars, sides, recordVars, evalVars, Evals!vars
<1>15. part \in {"capture", "workflows", "episodes", "evals"} => SideInv'
  BY <1>1, <1>11, <1>12, <1>13, <1>14, CaptureStep, WorkflowsStep, RecordsStep, EvalsStep DEF SideInv
<1>16. part \notin {"capture", "workflows", "episodes", "evals"} => SideInv'
  BY <1>1, <1>2, <1>3, <1>4, <1>5, <1>6, <1>7, <1>8, <1>9, <1>10, StorageStep, ClientStep, CliStep, ProvidersStep,
     RoutersStep, PipelineStep, StackStep, CurriculumStep, RegistryStep DEF SideInv
<1>17. QED
  BY <1>15, <1>16

\* Whichever component runs, what was stored is found once and whole (StoresAreWhole):
\* no snapshot is in two places or in none after a flush, no cached permission is too
\* old, no registry is half written (adapter.rs, client.rs, cli/state.py).
THEOREM WholeStores == SideSpec => []StoresAreWhole
<1>1. SideInv => StoresAreWhole
  BY SavedOnce, PagesApart, CachedIsRecent, RegistriesHold DEF SideInv, StoresAreWhole
<1>2. QED
  BY <1>1, SideStart, SideStep, PTL DEF SideSpec

\* Whichever component runs, calls go out under the right key and in time
\* (CallsAreCurrent; controls/providers.py, controls/retry.py, routing/opa.py, events).
THEOREM CurrentCalls == SideSpec => []CallsAreCurrent
<1>1. SideInv => CallsAreCurrent
  BY CallsStayInBounds DEF SideInv, CallsAreCurrent, RoutersInv
<1>2. QED
  BY <1>1, SideStart, SideStep, PTL DEF SideSpec

\* Whichever component runs, guardrails allow what their parts allow (GuardrailsAreSound):
\* for any environments, rules and patterns, any number of callers and of workers that
\* miss their deadline, any tasks and any registrations (guardrails/framework.py).
THEOREM SoundGuardrails == SideSpec => []GuardrailsAreSound
<1>1. SideInv => GuardrailsAreSound
  BY AllowsHold, IncompatibleAllow, NeighboursMeet, UnionHolds, ReportsHold, MadeHolds
     DEF SideInv, GuardrailsAreSound
<1>2. QED
  BY <1>1, SideStart, SideStep, PTL DEF SideSpec

\* Whichever component runs, what a call, an episode and an evaluation record adds up
\* and is correlated with its own, in the sense and with the exceptions of
\* CallsAreCorrelated: for any number of calls, threads, coroutines, nested workflows,
\* finalizations that fail, episodes and cases (decorators.py,
\* gcp_logging.py, correlation/workflow.py, gym/capture.py, evals/run.py).
THEOREM CorrelatedCalls == SideSpec => []CallsAreCorrelated
<1>1. SideInv => CallsAreCorrelated
  BY CaptureHolds, WorkflowsHold, EpisodesHold, EvalsHold DEF SideInv, CallsAreCorrelated
<1>2. QED
  BY <1>1, SideStart, SideStep, PTL DEF SideSpec

\* The storage backend by itself: failing flushes lose what they took and nothing
\* else, and a query's pages neither repeat nor miss (adapter.rs, flush and query).
THEOREM StorageIsWhole == Storage!Spec => [](Storage!SavedIsInOnePlace /\ Storage!PagesPartition)
BY StorageStart, StorageStep, SavedOnce, PagesApart, PTL DEF Storage!Spec

\* The API client by itself: however calls and invalidations overlap, revalidate does
\* not answer from the cache with what is out of date (client.rs, revalidate).
THEOREM ClientIsRecent == Client!Spec => []Client!CachedAnswersAreRecent
BY ClientStart, ClientStep, CachedIsRecent, PTL DEF Client!Spec

\* The command line by itself: overlapping and killed commands leave whole registries,
\* and a run that reads as submitted was taken (cli/state.py, cli/commands.py).
THEOREM RegistriesAreSound == Cli!Spec => [](Cli!RegistriesAreWhole /\ Cli!SubmittedWasAccepted)
BY CliStart, CliStep, RegistriesHold, PTL DEF Cli!Spec

\* Provider calls by themselves: no rung of the ladder and no retry moves a tenant's
\* call to another credential, and no sleep passes the deadline (controls).
THEOREM CallsAreSound == Providers!Spec => [](Providers!TenantsStayOnTheirKeys /\ Providers!SleepsEndInTime)
BY ProvidersStart, ProvidersStep, CallsStayInBounds, PTL DEF Providers!Spec

\* The routers by themselves: a cached decision is OPA's and recent, and a review is
\* sent before the route returns, again after a 5xx answer only (routing, events).
THEOREM RoutesAreSound == Routers!Spec => [](Routers!RoutesAreCurrent /\ Routers!ReviewsAreAnnounced)
<1>1. RoutersInv => Routers!RoutesAreCurrent /\ Routers!ReviewsAreAnnounced
  BY DEF RoutersInv
<1>2. QED
  BY <1>1, RoutersStart, RoutersStep, PTL DEF Routers!Spec

\* A pipeline by itself: what stages that share no space allow together is what their
\* spaces overlook, compatible spaces meet in what both contain and the box around two
\* that constrain alike holds both (SpaceAlgebra, GuardrailPipeline).
THEOREM SpacesAreSound ==
  Pipeline!Spec => [](/\ Pipeline!IncompatibleAllowsNothing /\ Pipeline!IntersectionIsBoth
                      /\ Pipeline!UnionHoldsEither)
BY PipelineStart, PipelineStep, IncompatibleAllow, NeighboursMeet, UnionHolds, PTL DEF Pipeline!Spec

\* A wrapped guardrail by itself: no late worker, lost race in the cache, exception or
\* reset lets a caller through whom no configuration allowed (DenyByDefaultWrapper,
\* TimeoutWrapper, CacheWrapper, ViolationModeWrapper).
THEOREM AnswersAreEarned == Stack!Spec => []Stack!AllowsAreEarned
BY StackStart, StackStep, AllowsHold, PTL DEF Stack!Spec

\* The curriculum by itself: whatever the guardrail answers, the report that comes out
\* counts every task with and without every injection (GuardrailCurriculum.run).
THEOREM CurriculumIsSound == Curriculum!Spec => []Curriculum!ReportsAreFinal
BY CurriculumStart, CurriculumStep, ReportsHold, PTL DEF Curriculum!Spec

\* The registry by itself: registrations do not change what an id made, but for a newer
\* version or the very id or name asked for (GuardrailRegistry).
THEOREM IdsAreSound == Registry!Spec => []Registry!MadeStays
BY RegistryStart, RegistryStep, MadeHolds, PTL DEF Registry!Spec

\* Captured calls by themselves: while one thread at a time is in the gcp exporter, a
\* record is in one place until it is sent or dropped, and it is sent once and where the
\* call began to send it (decorators.py, _export_mixin.py, gcp_logging.py).
THEOREM RecordsArrive == Capture!Spec => []Capture!RecordsAreInOnePlace
BY CaptureStart, CaptureStep, CaptureHolds, PTL DEF Capture!Spec

\* Workflows by themselves: in a coroutine of its own thread the innermost open workflow
\* is current, and elsewhere one of its thread's; the trace context is of its own, and is
\* that of the innermost block with a span unless one within that block could not be
\* finalized, whatever other coroutines enter and leave (correlation/workflow.py).
THEOREM WorkflowsAreSound == Workflows!Spec => [](Workflows!WorkflowsNest /\ Workflows!TracesFollowTasks)
BY WorkflowsStart, WorkflowsStep, WorkflowsHold, PTL DEF Workflows!Spec

\* Episodes by themselves: an episode has one record, and its steps and return are those
\* of its step records, however often the environment is reset (gym/capture.py).
THEOREM EpisodesAreSound == Gym!Spec => []Gym!EpisodesAddUp
BY EpisodesStart, RecordsStep, EpisodesHold, PTL DEF Gym!Spec

\* Evaluation runs by themselves: a run is summarised once, by the records of its cases,
\* unless finish overlaps with another call, and never by more (evals/run.py).
THEOREM EvaluationsAreSound == Evals!Spec => []Evals!RunsAddUp
BY EvalsStart, EvalsStep, EvalsHold, PTL DEF Evals!Spec
=============================================================================
