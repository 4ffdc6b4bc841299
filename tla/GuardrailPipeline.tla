--------------------------- MODULE GuardrailPipeline ---------------------------
(***************************************************************************)
(* Guardrail environments, the spaces of requests they declare and the     *)
(* pipelines made of them (guardrails/framework.py, envs/rbac.py,          *)
(* envs/abac.py).  A pipeline is grown one stage at a time; what it decides *)
(* about each request, and whether it calls itself compatible, are         *)
(* functions of its stages.  A context has one attribute.                  *)
(***************************************************************************)
EXTENDS Integers, Sequences, FiniteSets

CONSTANTS
  Agents, Actions, Resources,
  Patterns,       \* resource patterns, Resources among them
  Matches(_, _),  \* fnmatch: of a resource or a pattern, and a pattern
  Values,         \* of the context attribute: integers
  NoValue,        \* the attribute is missing
  Lowest, Highest,  \* float("-inf") and float("inf"): no value is beyond them
  RBACs, ABACs,   \* the environments a stage may be
  MaxStages

Default == "access"                    \* the action of a space that names none
Operators == {">=", "<=", ">", "<", "==", "!=", "misspelt"}
Rules == [op : Operators, value : Lowest..Highest, effect : {"deny", "allow"}]

GuardrailAssumption ==
  /\ Lowest \in Int /\ Highest \in Int /\ Lowest <= Highest
  /\ Values \subseteq Lowest..Highest /\ NoValue \notin Values /\ MaxStages \in Nat
  /\ Resources \subseteq Patterns
  /\ \A r \in Patterns : Matches(r, r)
  /\ RBACs \subseteq [kind : {"rbac"}, agents : SUBSET Agents, actions : SUBSET (Actions \union {Default}),
                      resources : SUBSET Patterns]
  /\ ABACs \subseteq [kind : {"abac"}, rules : Seq(Rules)]

VARIABLE stages

EvalRequests == [agent : Agents, action : Actions, resource : Resources,
                 value : Values \union {NoValue}]

------------------------------------------------------------------------------
\* Environments.  A rule of an ABAC environment is an operator, the value to
\* compare with and the effect of violating it; the operators of membership, which
\* bound nothing, are left out.

\* RBACGuardrailEnv.evaluate.
RbacAllows(env, request) ==
  /\ request.agent \in env.agents
  /\ request.action \in env.actions
  /\ \E pattern \in env.resources : Matches(request.resource, pattern)

\* _check_rule; an operator that is not known is never satisfied.
CheckRule(rule, actual) ==
  CASE rule.op = ">=" -> actual >= rule.value
    [] rule.op = "<=" -> actual <= rule.value
    [] rule.op = ">"  -> actual > rule.value
    [] rule.op = "<"  -> actual < rule.value
    [] rule.op = "==" -> actual = rule.value
    [] rule.op = "!=" -> actual # rule.value
    [] OTHER -> FALSE

\* ABACGuardrailEnv.evaluate: the effect of the first rule that is violated, or
\* whose attribute is missing.
AbacAllows(env, request) ==
  LET violated == {i \in DOMAIN env.rules : \/ request.value = NoValue
                                            \/ ~ CheckRule(env.rules[i], request.value)}
      first == CHOOSE i \in violated : \A j \in violated : i <= j
  IN  violated = {} \/ env.rules[first].effect = "allow"

Allows(env, request) ==
  IF env.kind = "rbac" THEN RbacAllows(env, request) ELSE AbacAllows(env, request)

------------------------------------------------------------------------------
\* Spaces: sets of agents, actions and resource patterns, where the empty set
\* constrains nothing, and bounds on the attribute.

Open == [low |-> Lowest, high |-> Highest]

Comparisons(rules) == {i \in DOMAIN rules : rules[i].op \in {">=", ">", "<=", "<"}}

\* The rule whose bound is written last.
LastComparison(rules) ==
  rules[CHOOSE i \in Comparisons(rules) : \A j \in Comparisons(rules) : j <= i]

\* Faulty variant of BuildSpace: the bound of a comparison is on the wrong side.
BuildSpaceSwapped(rules) ==
  LET last == LastComparison(rules)
  IN  IF Comparisons(rules) = {} THEN Open
      ELSE IF last.op \in {">=", ">"} THEN [low |-> Lowest, high |-> last.value]
      ELSE [low |-> last.value, high |-> Highest]

\* ABACGuardrailEnv._build_space: each comparison overwrites the bounds, the
\* other rules leave them open.
BuildSpace(rules) ==
  LET last == LastComparison(rules)
  IN  IF Comparisons(rules) = {} THEN Open
      ELSE IF last.op \in {">=", ">"} THEN [low |-> last.value, high |-> Highest]
      ELSE [low |-> Lowest, high |-> last.value]

RequestSpace(env) ==
  IF env.kind = "rbac"
  THEN [agents |-> env.agents, actions |-> env.actions, resources |-> env.resources,
        low |-> Lowest, high |-> Highest]
  ELSE [agents |-> {}, actions |-> {Default}, resources |-> {},
        low |-> BuildSpace(env.rules).low, high |-> BuildSpace(env.rules).high]

\* PolicySpace.contains, which ignores the resources and lets a missing
\* attribute pass.
InSpace(space, request) ==
  /\ space.agents # {} => request.agent \in space.agents
  /\ space.actions # {} => request.action \in space.actions
  /\ request.value = NoValue \/ request.value \in space.low..space.high

\* SpaceAlgebra._glob_intersect_resources: of two patterns one of which matches
\* the other, the narrower.
GlobIntersect(as, bs) ==
  {b \in bs : \E a \in as : Matches(b, a)} \union
  {a \in as : \E b \in bs : Matches(a, b) /\ ~ Matches(b, a)}

\* Faulty variant of Meet: the sets are put together.
Join(as, bs) == as \union bs

\* One dimension of the intersection.
Meet(as, bs) == IF as # {} /\ bs # {} THEN as \intersect bs ELSE as \union bs

Higher(a, b) == IF a > b THEN a ELSE b
Lower(a, b) == IF a < b THEN a ELSE b

\* SpaceAlgebra.intersection.
Intersection(a, b) ==
  [agents |-> Meet(a.agents, b.agents), actions |-> Meet(a.actions, b.actions),
   resources |-> IF a.resources # {} /\ b.resources # {}
                 THEN GlobIntersect(a.resources, b.resources)
                 ELSE a.resources \union b.resources,
   low |-> Higher(a.low, b.low), high |-> Lower(a.high, b.high)]

\* SpaceAlgebra.union: one box around both.
Union(a, b) ==
  [agents |-> a.agents \union b.agents, actions |-> a.actions \union b.actions,
   resources |-> a.resources \union b.resources,
   low |-> Lower(a.low, b.low), high |-> Higher(a.high, b.high)]

\* SpaceAlgebra.is_compatible.
IsCompatible(a, b) ==
  LET inter == Intersection(a, b)
      NonEmpty(x, y, both) == x # {} /\ y # {} => both # {}
  IN  /\ NonEmpty(a.agents, b.agents, inter.agents)
      /\ NonEmpty(a.actions, b.actions, inter.actions)
      /\ NonEmpty(a.resources, b.resources, inter.resources)
      /\ inter.low <= inter.high

------------------------------------------------------------------------------
\* Pipelines

\* GuardrailPipeline.check_compatibility, which compares neighbours only.
Neighbours(i) == IsCompatible(RequestSpace(stages[i]), RequestSpace(stages[i + 1]))

\* GuardrailPipeline.evaluate: what its stages say, up to the first denial in
\* the mode that stops there, and the final effect.
Evaluate(mode, request) ==
  LET allowed == {i \in DOMAIN stages : Allows(stages[i], request)}
      denied == DOMAIN stages \ allowed
      ran == IF mode = "first_deny" /\ denied # {}
             THEN 1..CHOOSE i \in denied : \A j \in denied : i <= j
             ELSE DOMAIN stages
  IN  [ran |-> ran,
       allow |-> IF mode = "majority" THEN 2 * Cardinality(allowed) > Len(stages)
                                      ELSE ran \subseteq allowed]

Init == stages = << >>

AddStage(env) == Len(stages) < MaxStages /\ stages' = Append(stages, env)

Next == \E env \in RBACs \union ABACs : AddStage(env)

Spec == Init /\ [][Next]_stages

------------------------------------------------------------------------------
\* Properties

TypeOK == stages \in Seq(RBACs \union ABACs) /\ Len(stages) <= MaxStages

\* What two stages may allow together although their spaces have nothing in common:
\* attributes decide about every action and declare the default one, a rule may
\* allow what violates it, and of two patterns neither need match the other.
Overlooked(a, b, request) ==
  \/ a.kind # b.kind /\ request.action # Default
  \/ \E env \in {a, b} : env.kind = "abac" /\ \E i \in DOMAIN env.rules : env.rules[i].effect = "allow"
  \/ /\ a.kind = "rbac" /\ b.kind = "rbac"
     /\ \E p \in a.resources, q \in b.resources :
          /\ Matches(request.resource, p) /\ Matches(request.resource, q)
          /\ ~ Matches(p, q) /\ ~ Matches(q, p)

\* A pipeline that calls itself incompatible allows no request, in either of the
\* modes that need every stage, but what the spaces of the two neighbours overlook
\* (framework.py, is_compatible: False is for an impossible evaluation domain).
IncompatibleAllowsNothing ==
  \A i \in 1..Len(stages) - 1 : ~ Neighbours(i) =>
    \A request \in EvalRequests, mode \in {"first_deny", "all"} :
      Evaluate(mode, request).allow => Overlooked(stages[i], stages[i + 1], request)

\* The intersection of the spaces of two compatible neighbours contains just the
\* requests that both contain (SpaceAlgebra.intersection: accepts inputs valid
\* in both spaces).
IntersectionIsBoth ==
  \A i \in 1..Len(stages) - 1 :
    LET a == RequestSpace(stages[i])
        b == RequestSpace(stages[i + 1])
    IN  Neighbours(i) =>
          \A request \in EvalRequests :
            InSpace(Intersection(a, b), request) <=> InSpace(a, request) /\ InSpace(b, request)

\* The union of the spaces of two stages contains what either contains, when both
\* or neither constrain the agents, and the actions: beside a space that names some
\* one that leaves them open loses all the others (SpaceAlgebra.union: accepts inputs valid
\* in either space).
UnionHoldsEither ==
  \A i, j \in DOMAIN stages :
    LET a == RequestSpace(stages[i])
        b == RequestSpace(stages[j])
    IN  (a.agents = {}) = (b.agents = {}) /\ (a.actions = {}) = (b.actions = {}) =>
          \A request \in EvalRequests :
            InSpace(a, request) \/ InSpace(b, request) => InSpace(Union(a, b), request)
==============================================================================
