----------------------------- MODULE GuardrailStack -----------------------------
(***************************************************************************)
(* A guardrail behind the wrappers of guardrails/framework.py, stacked the *)
(* way their documentation advises: DenyByDefaultWrapper outside           *)
(* TimeoutWrapper outside CacheWrapper outside ViolationModeWrapper.  A    *)
(* call runs on a worker thread of its own; one that misses its deadline   *)
(* is abandoned but goes on, so even a single caller has several threads   *)
(* in the cache, which has no lock.  reset gives the guardrail a new       *)
(* configuration and reaches it through every wrapper.                     *)
(***************************************************************************)
EXTENDS Integers, Sequences

CONSTANTS
  Callers, Workers,
  Requests,     \* by their cache keys
  Configs,      \* a sequence: of each configuration, the requests it permits
  Mode,         \* the violation mode: "block", "warn" or "audit"
  Ttl, MaxEntries

StackAssumption ==
  /\ Configs \in Seq(SUBSET Requests) /\ Configs # << >>
  /\ Ttl \in Nat /\ MaxEntries \in Nat /\ Requests # {}
  /\ "nobody" \notin Workers

VARIABLES
  config,  \* the configuration in force
  store,   \* CacheWrapper._store, least recently used first
  worker,  \* of each worker thread: where it is, its request and its outcome
  caller   \* of each caller: the worker it waits for, and its last answer

vars == <<config, store, worker, caller>>

Nobody == "nobody"

\* An evaluation's effect, the configuration it was made under, and whether it
\* is an effect at all or an exception.
Outcomes == [effect : {"allow", "deny", "raised"}, config : 0..Len(Configs)]
Raised == [effect |-> "raised", config |-> 0]
Denied == [effect |-> "deny", config |-> 0]

Idle == [at |-> "idle", request |-> CHOOSE r \in Requests : TRUE, out |-> Denied]

Init ==
  /\ config = 1
  /\ store = << >>
  /\ worker = [w \in Workers |-> Idle]
  /\ caller = [c \in Callers |-> [waits |-> Nobody, request |-> Idle.request, answer |-> Denied]]

------------------------------------------------------------------------------
\* The cache.  Each operation on its dictionary is atomic, and other threads
\* run between two of them.

\* Faulty variant of Positions: the key leaves the action out, and the requests
\* differ in nothing else.
AnyPositions(r) == DOMAIN store

\* The entries under a request's key: its agent, action, resource and context.
Positions(r) == {i \in DOMAIN store : store[i].request = r}
Position(r) == CHOOSE i \in Positions(r) : TRUE
Cached(r) == Positions(r) # {}

\* The entries but the request's.
Others(r) == SubSeq(store, 1, Position(r) - 1) \o SubSeq(store, Position(r) + 1, Len(store))

Move(w, there) == worker' = [worker EXCEPT ![w].at = there]
Finish(w, out) == worker' = [worker EXCEPT ![w].at = "done", ![w].out = out]

\* get and the age test.
Lookup(w) ==
  /\ worker[w].at = "get"
  /\ LET r == worker[w].request
     IN  IF ~ Cached(r) THEN Move(w, "evaluate")
         ELSE IF store[Position(r)].age <= Ttl
         THEN worker' = [worker EXCEPT ![w].at = "touch", ![w].out = store[Position(r)].out]
         ELSE Move(w, "drop")
  /\ UNCHANGED <<config, store, caller>>

\* Faulty variant of Touch: a hit makes the entry young again.
TouchRenewing(w) ==
  /\ worker[w].at = "touch"
  /\ LET r == worker[w].request
     IN  IF Cached(r)
         THEN /\ store' = Append(Others(r), [store[Position(r)] EXCEPT !.age = 0])
              /\ Finish(w, worker[w].out)
         ELSE Finish(w, Raised) /\ UNCHANGED store
  /\ UNCHANGED <<config, caller>>

\* move_to_end, a KeyError when the entry was evicted since.
Touch(w) ==
  /\ worker[w].at = "touch"
  /\ LET r == worker[w].request
     IN  IF Cached(r)
         THEN /\ store' = Append(Others(r), store[Position(r)])
              /\ Finish(w, worker[w].out)
         ELSE Finish(w, Raised) /\ UNCHANGED store
  /\ UNCHANGED <<config, caller>>

\* del of an expired entry, a KeyError when another thread deleted it.
Drop(w) ==
  /\ worker[w].at = "drop"
  /\ LET r == worker[w].request
     IN  IF Cached(r)
         THEN store' = Others(r) /\ Move(w, "evaluate")
         ELSE Finish(w, Raised) /\ UNCHANGED store
  /\ UNCHANGED <<config, caller>>

\* ViolationModeWrapper.evaluate: outside the blocking mode nothing is denied.
Applied(effect) == IF Mode = "block" THEN effect ELSE "allow"

\* The guardrail answers, or raises.
EvaluateEnv(w) ==
  /\ worker[w].at = "evaluate"
  /\ \/ worker' = [worker EXCEPT ![w].at = "store",
                     ![w].out = [effect |-> Applied(IF worker[w].request \in Configs[config]
                                                    THEN "allow" ELSE "deny"),
                                 config |-> config]]
     \/ Finish(w, Raised)
  /\ UNCHANGED <<config, store, caller>>

\* A known key keeps its place in the order.
Store(w) ==
  /\ worker[w].at = "store"
  /\ LET r == worker[w].request
         entry == [request |-> r, out |-> worker[w].out, age |-> 0]
     IN  store' = IF Cached(r) THEN [store EXCEPT ![Position(r)] = entry] ELSE Append(store, entry)
  /\ Move(w, "evict")
  /\ UNCHANGED <<config, caller>>

\* One turn of the loop that evicts.
Evict(w) ==
  /\ worker[w].at = "evict"
  /\ IF Len(store) > MaxEntries
     THEN store' = Tail(store) /\ UNCHANGED worker
     ELSE Move(w, "done") /\ UNCHANGED store
  /\ UNCHANGED <<config, caller>>

------------------------------------------------------------------------------
\* TimeoutWrapper.evaluate inside DenyByDefaultWrapper.evaluate.

Call(c, r, w) ==
  /\ caller[c].waits = Nobody /\ worker[w].at = "idle"
  /\ worker' = [worker EXCEPT ![w].at = "get", ![w].request = r]
  /\ caller' = [caller EXCEPT ![c].waits = w, ![c].request = r]
  /\ UNCHANGED <<config, store>>

Answer(c, out) == caller' = [caller EXCEPT ![c].waits = Nobody, ![c].answer = out]

\* The worker ended in time; what it raised becomes a denial.
Join(c) ==
  /\ caller[c].waits # Nobody /\ worker[caller[c].waits].at = "done"
  /\ LET out == worker[caller[c].waits].out
     IN  Answer(c, IF out.effect = "raised" THEN Denied ELSE out)
  /\ worker' = [worker EXCEPT ![caller[c].waits] = Idle]
  /\ UNCHANGED <<config, store>>

\* It did not: the fallback is to deny.
TimeOut(c) ==
  /\ caller[c].waits # Nobody
  /\ Answer(c, Denied)
  /\ UNCHANGED <<config, store, worker>>

\* An abandoned worker ends.
Abandoned(w) ==
  /\ worker[w].at = "done" /\ \A c \in Callers : caller[c].waits # w
  /\ worker' = [worker EXCEPT ![w] = Idle]
  /\ UNCHANGED <<config, store, caller>>

\* GuardrailWrapper.reset, which no wrapper overrides: the cache is kept.
Reset ==
  /\ config < Len(Configs) /\ config' = config + 1
  /\ UNCHANGED <<store, worker, caller>>

Tick ==
  /\ \E i \in DOMAIN store : store[i].age <= Ttl
  /\ store' = [i \in DOMAIN store |-> [store[i] EXCEPT !.age = IF @ <= Ttl THEN @ + 1 ELSE @]]
  /\ UNCHANGED <<config, worker, caller>>

Next ==
  \/ \E c \in Callers : Join(c) \/ TimeOut(c) \/ \E r \in Requests, w \in Workers : Call(c, r, w)
  \/ \E w \in Workers : \/ Lookup(w) \/ Touch(w) \/ Drop(w) \/ EvaluateEnv(w)
                        \/ Store(w) \/ Evict(w) \/ Abandoned(w)
  \/ Reset \/ Tick

\* Time passes.
Fairness == WF_vars(Tick)

Spec == Init /\ [][Next]_vars /\ Fairness

------------------------------------------------------------------------------
\* Properties

TypeOK ==
  /\ config \in DOMAIN Configs
  /\ \A i \in DOMAIN store : store[i] \in [request : Requests, out : Outcomes, age : 0..Ttl + 1]
  /\ worker \in [Workers -> [at : {"idle", "get", "touch", "drop", "evaluate", "store",
                                   "evict", "done"}, request : Requests, out : Outcomes]]
  /\ caller \in [Callers -> [waits : Workers \union {Nobody}, request : Requests, answer : Outcomes]]

\* Nobody is let through but by an evaluation that allowed that very request
\* under some configuration: not by a late worker, a lost race in the cache, an
\* exception, or the answer to another request (framework.py, the deny-by-default
\* invariant).
AllowsAreEarned ==
  \A c \in Callers :
    LET answer == caller[c].answer
    IN  (caller[c].waits = Nobody /\ answer.effect = "allow" /\ Mode = "block")
        => answer.config \in 1..config /\ caller[c].request \in Configs[answer.config]

Replaced(v) == config > v
DiedOut(v) == \A i \in DOMAIN store : store[i].out.config = v => store[i].age > Ttl

\* What a superseded configuration allowed does not live on: the cache, which a
\* reset does not clear, in the end answers with it no more, however often it is
\* asked (CacheWrapper, a hit does not renew the entry).
StaleEntriesDieOut == \A v \in DOMAIN Configs : Replaced(v) ~> []DiedOut(v)
==============================================================================
