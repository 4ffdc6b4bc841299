------------------------------ MODULE PolicyRouters ------------------------------
(***************************************************************************)
(* OPARouter, the InternalRouter it falls back to, its cache of decisions, *)
(* and the events that a review emits: routes overlap at every await,      *)
(* while the policy of the OPA server changes and the server fails.  A     *)
(* document is the input that the router builds for OPA.                   *)
(***************************************************************************)
EXTENDS Integers, Sequences, FiniteSets

CONSTANTS
  Routes,       \* the coroutines that route
  Docs,
  Confident,    \* the documents at or above the fallback's threshold
  TTL, Timeout, \* of the cache and of a request
  MaxTime       \* bound of the model

RouterAssumption ==
  Confident \subseteq Docs /\ TTL \in Nat /\ Timeout \in Nat /\ MaxTime \in Nat

PolicyActions == {"auto", "human_review"}
MaxPosts == 3
None == "none"

VARIABLES
  policy,    \* what OPA answers for each document; an undefined rule reads as a review
  cache,     \* document -> [action, source, set, at]
  routes,    \* each coroutine
  bus,       \* the configured event bus
  now,
  answer     \* ghost: what was answered last, and how it was announced

vars == <<policy, cache, routes, bus, now, answer>>

Idle == [pc |-> "idle"]

Init ==
  /\ policy \in [Docs -> PolicyActions]
  /\ cache = << >> /\ routes = [r \in Routes |-> Idle]
  /\ bus \in {"webhook", "kafka", None}
  /\ now = 0 /\ answer = << >>

Goto(r, state) == routes' = [routes EXCEPT ![r] = state]

\* posts: what every attempt to announce the decision came to; age: of what OPA
\* said, when it comes from the cache.
Return(r, action, source, cached, age, posts) ==
  /\ Goto(r, Idle)
  /\ answer' = <<[action |-> action, source |-> source, cached |-> cached, age |-> age, posts |-> posts]>>

------------------------------------------------------------------------------
Forget(d) == [e \in DOMAIN cache \ {d} |-> cache[e]]

\* Faulty variant of Lookup: reading an entry renews it.
LookupRenewing(d) ==
  IF d \in DOMAIN cache /\ now - cache[d].set <= TTL THEN [cache EXCEPT ![d].set = now]
  ELSE Forget(d)

\* _TTLCache.get: an entry past its time is removed.
Lookup(d) ==
  IF d \in DOMAIN cache /\ now - cache[d].set > TTL THEN Forget(d) ELSE cache

\* route: a cached decision is returned as it is, and announced to nobody.
Route(r, d) ==
  /\ routes[r] = Idle
  /\ cache' = Lookup(d)
  /\ IF d \in DOMAIN cache'
     THEN Return(r, cache[d].action, cache[d].source, TRUE, now - cache[d].at, << >>)
     ELSE Goto(r, [pc |-> "asking", doc |-> d, began |-> now]) /\ UNCHANGED answer
  /\ UNCHANGED <<policy, bus, now>>

\* The OPA server evaluates its policy; the answer is on its way.
Evaluates(r) ==
  /\ routes[r].pc = "asking"
  /\ Goto(r, [pc |-> "replied", doc |-> routes[r].doc, began |-> routes[r].began,
              action |-> policy[routes[r].doc], at |-> now])
  /\ UNCHANGED <<policy, cache, bus, now, answer>>

\* _maybe_emit: a review is announced before the route returns.
MaybeEmit(r, action, source) ==
  IF action = "human_review" /\ bus # None
  THEN Goto(r, [pc |-> "emitting", source |-> source, posts |-> << >>]) /\ UNCHANGED answer
  ELSE Return(r, action, source, FALSE, 0, << >>)

\* A decision and the time OPA made it are cached under the time it arrives.
Entered(doc, action, source, at) ==
  [e \in DOMAIN cache \union {doc} |->
     IF e = doc THEN [action |-> action, source |-> source, set |-> now, at |-> at] ELSE cache[e]]

Receive(r) ==
  /\ routes[r].pc = "replied"
  /\ cache' = Entered(routes[r].doc, routes[r].action, "opa", routes[r].at)
  /\ MaybeEmit(r, routes[r].action, "opa")
  /\ UNCHANGED <<policy, bus, now>>

\* InternalRouter.route.
InternalAction(d) == IF d \in Confident THEN "auto" ELSE "human_review"

\* Faulty variant of Remember: the fallback's decision is cached as well.
RememberAll(d) == Entered(d, InternalAction(d), "internal", now)

\* A decision of the fallback is not cached.
Remember(d) == cache

\* A timeout, an error status or an answer that makes no sense.
FallBack(r) ==
  /\ routes[r].pc \in {"asking", "replied"}
  /\ cache' = Remember(routes[r].doc)
  /\ MaybeEmit(r, InternalAction(routes[r].doc), "internal")
  /\ UNCHANGED <<policy, bus, now>>

------------------------------------------------------------------------------
\* Faulty variant of Again: what was refused is sent again.
AgainUnlessTaken(posts) == posts[Len(posts)] # "ok" /\ Len(posts) < MaxPosts

\* Only a 5xx answer is a reason to send again.
Again(posts) == posts[Len(posts)] = "5xx" /\ Len(posts) < MaxPosts

\* WebhookEmitter.emit: one attempt.  An attempt that raises is the last one.
WebhookEmit(r, status) ==
  /\ bus = "webhook" /\ routes[r].pc = "emitting"
  /\ LET posts == Append(routes[r].posts, status)
     IN  IF Again(posts) THEN Goto(r, [routes[r] EXCEPT !.posts = posts]) /\ UNCHANGED answer
         ELSE Return(r, "human_review", routes[r].source, FALSE, 0, posts)
  /\ UNCHANGED <<policy, cache, bus, now>>

\* KafkaPublisher.publish: one attempt, whatever comes of it.
KafkaPublish(r) ==
  /\ bus = "kafka" /\ routes[r].pc = "emitting"
  /\ \E status \in {"ok", "error"} : Return(r, "human_review", routes[r].source, FALSE, 0, <<status>>)
  /\ UNCHANGED <<policy, cache, bus, now>>

ChangePolicy(d) ==
  /\ \E a \in PolicyActions : policy' = [policy EXCEPT ![d] = a]
  /\ UNCHANGED <<cache, routes, bus, now, answer>>

\* A request is given up at its timeout; emitting may take any time.
Tick ==
  /\ now < MaxTime
  /\ \A r \in Routes : routes[r].pc \in {"asking", "replied"} => now < routes[r].began + Timeout
  /\ now' = now + 1
  /\ UNCHANGED <<policy, cache, routes, bus, answer>>

Next ==
  \/ \E r \in Routes :
       \/ \E d \in Docs : Route(r, d)
       \/ \E status \in {"ok", "4xx", "5xx", "error"} : WebhookEmit(r, status)
       \/ Evaluates(r) \/ Receive(r) \/ FallBack(r) \/ KafkaPublish(r)
  \/ \E d \in Docs : ChangePolicy(d)
  \/ Tick

Spec == Init /\ [][Next]_vars

------------------------------------------------------------------------------
\* Properties

TypeOK ==
  /\ policy \in [Docs -> PolicyActions] /\ DOMAIN cache \subseteq Docs /\ now \in 0..MaxTime
  /\ \A r \in Routes : routes[r].pc \in {"idle", "asking", "replied", "emitting"}

\* What the cache answers is a decision of OPA, at most as old as the cache
\* keeps one that was a whole timeout on its way: the failure of one route
\* decides no other (_TTLCache, route).
RoutesAreCurrent ==
  \A i \in DOMAIN answer :
    answer[i].cached => answer[i].source = "opa" /\ answer[i].age <= TTL + Timeout

\* A review that was decided in the call was sent to the bus before the route
\* returned, and was sent again after a 5xx answer only, at most MaxPosts times
\* in all; nothing else was sent (_maybe_emit, emit).
ReviewsAreAnnounced ==
  \A n \in DOMAIN answer : LET a == answer[n] IN
    /\ a.posts # << >> <=> bus # None /\ a.action = "human_review" /\ ~a.cached
    /\ Len(a.posts) <= MaxPosts
    /\ \A i \in 1..Len(a.posts) : i < Len(a.posts) => a.posts[i] = "5xx"
    /\ bus = "webhook" /\ Len(a.posts) \in 1..MaxPosts - 1 => a.posts[Len(a.posts)] # "5xx"
==============================================================================
