--------------------------- MODULE GuardrailCurriculum ---------------------------
(***************************************************************************)
(* GuardrailCurriculum over GuardrailBenchmark: a guardrail is evaluated   *)
(* on every task and on every task with every injection, and the tasks of  *)
(* the categories that scored badly are multiplied for the next round.     *)
(* Tasks of one category are alike; what the guardrail answers is free.    *)
(***************************************************************************)
EXTENDS Naturals, FiniteSets

CONSTANTS
  Categories, Injections,  \* the injections: a number of them
  Factor, MaxRounds,       \* amplification_factor, max_rounds
  Tenths,                  \* focus_threshold, in tenths
  MaxTasks                 \* bound of the model: tasks of a category at the start

CurriculumAssumption ==
  Injections \in Nat /\ Factor \in Nat /\ MaxRounds \in Nat /\ Tenths \in 0..10 /\ MaxTasks \in Nat

VARIABLES
  tasks,    \* category -> how many tasks
  todo,     \* category -> evaluations left: of the tasks as they are, of injected ones
  report,   \* category -> the evaluations so far, the useless and the insecure ones
  round,
  pc        \* "clean", "injected", "decide", "done", "raised"

vars == <<tasks, todo, report, round, pc>>

Nothing == [c \in Categories |-> [total |-> 0, useless |-> 0, insecure |-> 0]]
AllOf(ts) == [c \in Categories |-> [clean |-> ts[c], injected |-> ts[c] * Injections]]

Init ==
  /\ tasks \in [Categories -> 0..MaxTasks]
  /\ todo = AllOf(tasks) /\ report = Nothing
  /\ round = 0 /\ pc = "clean"

------------------------------------------------------------------------------
\* GuardrailBenchmark.run.

Count(c, useful, secure) ==
  report' = [report EXCEPT ![c].total = @ + 1,
                           ![c].useless = @ + (IF useful THEN 0 ELSE 1),
                           ![c].insecure = @ + (IF secure THEN 0 ELSE 1)]

\* The tasks as they are: an exception of the guardrail ends the curriculum.
Utility(c, outcome) ==
  /\ pc = "clean" /\ todo[c].clean > 0
  /\ IF outcome = "raises" THEN pc' = "raised" /\ UNCHANGED <<todo, report>>
     ELSE /\ Count(c, outcome = "expected", TRUE)
          /\ todo' = [todo EXCEPT ![c].clean = @ - 1] /\ UNCHANGED pc
  /\ UNCHANGED <<tasks, round>>

\* The injected tasks: an exception counts as a denial, and as resistance.
Security(c, useful, outcome) ==
  /\ pc = "injected" /\ todo[c].injected > 0
  /\ Count(c, useful, outcome # "bypassed")
  /\ todo' = [todo EXCEPT ![c].injected = @ - 1]
  /\ UNCHANGED <<tasks, round, pc>>

NextPhase ==
  \/ /\ pc = "clean" /\ \A c \in Categories : todo[c].clean = 0
     /\ pc' = "injected" /\ UNCHANGED <<tasks, todo, report, round>>
  \/ /\ pc = "injected" /\ \A c \in Categories : todo[c].injected = 0
     /\ pc' = "decide" /\ UNCHANGED <<tasks, todo, report, round>>

------------------------------------------------------------------------------
\* GuardrailCurriculum.run.

Below(bad, total) == 10 * (total - bad) < Tenths * total

\* Faulty variant of WeakCategories: only the security score is looked at.
WeakInSecurity == {c \in Categories : Below(report[c].insecure, report[c].total)}

\* identify_weak_categories: of the categories the report has.
WeakCategories ==
  {c \in Categories : Below(report[c].useless, report[c].total) \/ Below(report[c].insecure, report[c].total)}

\* amplify_tasks: Factor variants of every task of a weak category.
AmplifyTasks == [c \in Categories |-> IF c \in WeakCategories THEN tasks[c] * Factor ELSE 0]

\* Faulty variant of Benchmarked: only the new tasks are run.
BenchmarkedNew(ts) == AllOf([c \in Categories |-> ts[c] - tasks[c]])

\* Every benchmark starts anew, over all the tasks.
Benchmarked(ts) == AllOf(ts)

Decide ==
  /\ pc = "decide"
  /\ IF round = MaxRounds \/ (\A c \in Categories : AmplifyTasks[c] = 0)
     THEN pc' = "done" /\ UNCHANGED <<tasks, todo, report, round>>
     ELSE /\ tasks' = [c \in Categories |-> tasks[c] + AmplifyTasks[c]]
          /\ todo' = Benchmarked(tasks') /\ report' = Nothing
          /\ round' = round + 1 /\ pc' = "clean"

Next ==
  \/ \E c \in Categories :
       \/ \E outcome \in {"expected", "other", "raises"} : Utility(c, outcome)
       \/ \E useful \in BOOLEAN, outcome \in {"resisted", "bypassed", "crashed"} :
            Security(c, useful, outcome)
  \/ NextPhase \/ Decide

Spec == Init /\ [][Next]_vars

------------------------------------------------------------------------------
\* Properties

TypeOK ==
  /\ round \in 0..MaxRounds /\ pc \in {"clean", "injected", "decide", "done", "raised"}
  /\ \A c \in Categories : report[c].useless <= report[c].total /\ report[c].insecure <= report[c].total

\* The report that comes out is of every task there is, the multiplied ones
\* included, with and without every injection, and when it came out before the
\* last round no category of it is below the threshold (run).
ReportsAreFinal ==
  pc = "done" =>
    \A c \in Categories :
      /\ report[c].total = tasks[c] * (1 + Injections)
      /\ round < MaxRounds /\ Factor > 0 =>
           /\ 10 * (report[c].total - report[c].useless) >= Tenths * report[c].total
           /\ 10 * (report[c].total - report[c].insecure) >= Tenths * report[c].total
==============================================================================
