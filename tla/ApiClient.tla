-------------------------------- MODULE ApiClient --------------------------------
(***************************************************************************)
(* BriefcaseClient of client.rs: a key validated when the client is made   *)
(* and again by revalidate, which answers from a cache while that is       *)
(* fresh.  The lock of the cache is not held while the server is asked, so *)
(* calls overlap each other and invalidate_cache.  The server is external: *)
(* it grants permissions, revokes the key or fails.                        *)
(***************************************************************************)
EXTENDS Integers, FiniteSets

CONSTANTS
  Tasks,
  Permissions,
  Ttl, Retries,
  Timeout,  \* how long an answer may be on its way
  MaxTime   \* bound of the model

ClientAssumption == {Ttl, Retries, Timeout, MaxTime} \subseteq Nat

VARIABLES
  granted,    \* what the server grants the key now; {} when it is revoked
  clock,
  validated,  \* whether the client was made, and the grants it was made with
  cache,      \* the answer with the time it was cached; history: when the server
              \* gave it, and whether an invalidation overtook the call
  task,       \* of each task: the requests that failed, the answer on its way
  forgotten   \* history: when the cache was last invalidated

vars == <<granted, clock, validated, cache, task, forgotten>>

Unmade == [made |-> FALSE, grants |-> {}]
Empty == [full |-> FALSE, grants |-> {}, at |-> 0, said |-> 0, overtaken |-> FALSE]
Idle == [at |-> "idle", tries |-> 0, grants |-> {}, said |-> 0, overtaken |-> FALSE]

Init ==
  /\ granted \in SUBSET Permissions /\ clock = 0
  /\ validated = Unmade /\ cache = Empty /\ forgotten = 0
  /\ task = [t \in Tasks |-> Idle]

------------------------------------------------------------------------------
\* do_validate, for a new client or an existing one.

Ask(t) == task' = [task EXCEPT ![t] = [Idle EXCEPT !.at = "asking"]]

\* The server answers and says so with a status of success.
ServerGrants(t) ==
  /\ task[t].at = "asking" /\ granted # {}
  /\ task' = [task EXCEPT ![t] = [at |-> "answered", tries |-> @.tries, grants |-> granted,
                                  said |-> clock, overtaken |-> @.overtaken]]
  /\ UNCHANGED <<granted, clock, validated, cache, forgotten>>

\* A refusal, or an answer that cannot be read, is final.
ServerRefuses(t) ==
  /\ task[t].at = "asking"
  /\ task' = [task EXCEPT ![t] = Idle]
  /\ UNCHANGED <<granted, clock, validated, cache, forgotten>>

\* A failure of the server or the network is tried again after a while.
ServerFails(t) ==
  /\ task[t].at = "asking"
  /\ task' = [task EXCEPT ![t] = IF task[t].tries = Retries THEN Idle
                                  ELSE [task[t] EXCEPT !.tries = @ + 1]]
  /\ UNCHANGED <<granted, clock, validated, cache, forgotten>>

------------------------------------------------------------------------------
\* with_config asks before there is a client that anybody could share.
WithConfig(t) ==
  /\ ~ validated.made /\ \A u \in Tasks : task[u].at = "idle"
  /\ Ask(t)
  /\ UNCHANGED <<granted, clock, validated, cache, forgotten>>

Fresh == cache.full /\ clock - cache.at < Ttl

Cached(t) == [full |-> TRUE, grants |-> task[t].grants, at |-> clock,
              said |-> task[t].said, overtaken |-> task[t].overtaken]

\* The answer arrives; it makes the client, or only its cache new.
Answered(t) ==
  /\ task[t].at = "answered"
  /\ validated' = IF validated.made THEN validated ELSE [made |-> TRUE, grants |-> task[t].grants]
  /\ cache' = Cached(t)
  /\ task' = [task EXCEPT ![t] = Idle]
  /\ UNCHANGED <<granted, clock, forgotten>>

\* Faulty variant of Revalidate: an answer from the cache makes it fresh again.
RevalidateRenewing(t) ==
  /\ validated.made /\ task[t].at = "idle"
  /\ IF Fresh THEN cache' = [cache EXCEPT !.at = clock] /\ UNCHANGED task
     ELSE Ask(t) /\ UNCHANGED cache
  /\ UNCHANGED <<granted, clock, validated, forgotten>>

\* revalidate: a fresh answer of the cache changes nothing.
Revalidate(t) ==
  /\ validated.made /\ task[t].at = "idle" /\ ~ Fresh
  /\ Ask(t)
  /\ UNCHANGED <<granted, clock, validated, cache, forgotten>>

InvalidateCache ==
  /\ cache.full
  /\ cache' = Empty
  /\ forgotten' = clock
  /\ task' = [t \in Tasks |-> [task[t] EXCEPT !.overtaken = task[t].at # "idle"]]
  /\ UNCHANGED <<granted, clock, validated>>

ServerChanges(grants) ==
  /\ granted # grants /\ granted' = grants
  /\ UNCHANGED <<clock, validated, cache, task, forgotten>>

\* A request that takes too long fails.
Tick ==
  /\ clock < MaxTime /\ clock' = clock + 1
  /\ \A t \in Tasks : task[t].at = "answered" => clock - task[t].said < Timeout
  /\ UNCHANGED <<granted, validated, cache, task, forgotten>>

Next ==
  \/ \E t \in Tasks : \/ WithConfig(t) \/ Revalidate(t) \/ Answered(t)
                      \/ ServerGrants(t) \/ ServerRefuses(t) \/ ServerFails(t)
  \/ \E grants \in SUBSET Permissions : ServerChanges(grants)
  \/ InvalidateCache \/ Tick

Spec == Init /\ [][Next]_vars

------------------------------------------------------------------------------
\* Properties

TypeOK ==
  /\ granted \subseteq Permissions /\ clock \in 0..MaxTime
  /\ validated \in [made : BOOLEAN, grants : SUBSET Permissions]
  /\ cache \in [full : BOOLEAN, grants : SUBSET Permissions, at : 0..clock, said : 0..clock,
             overtaken : BOOLEAN]
  /\ task \in [Tasks -> [at : {"idle", "asking", "answered"}, tries : 0..Retries,
                         grants : SUBSET Permissions, said : 0..clock, overtaken : BOOLEAN]]
  /\ forgotten \in 0..clock

\* revalidate never answers from the cache with what the server said longer ago
\* than the time to live and one request's timeout, nor, unless a call was on its
\* way then, with what it said before the cache was invalidated, however calls,
\* retries and invalidations overlap.
CachedAnswersAreRecent ==
  Fresh => /\ clock - cache.said < Ttl + Timeout
           /\ cache.said >= forgotten \/ cache.overtaken
==============================================================================
