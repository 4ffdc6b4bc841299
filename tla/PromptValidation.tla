---------------------------- MODULE PromptValidation ----------------------------
(***************************************************************************)
(* PromptValidationEngine: the references of a prompt are resolved against *)
(* a knowledge base under version control, and the report is pinned to a   *)
(* commit that is asked for at the end.  Extractor, resolver and semantic  *)
(* validator are the caller's: the resolver reads the head and decides     *)
(* whether a missing reference is an error or a warning.                   *)
(***************************************************************************)
EXTENDS Naturals, Sequences, FiniteSets

CONSTANTS
  Tasks,      \* concurrent validations
  References,
  Modes,      \* of "strict", "tolerant", "warn_only"
  MaxCommits  \* bound of the model

ValidationAssumption == Modes \subseteq {"strict", "tolerant", "warn_only"} /\ MaxCommits \in Nat

Unknown == 0  \* the commit when the client cannot tell

VARIABLES
  mode,
  base,   \* the references that resolve, at each commit
  tasks,  \* each validation: where it is, what it found, its report
  moved   \* history: validations during which somebody committed

vars == <<mode, base, tasks, moved>>

HeadCommit == Len(base)
Idle == [at |-> "idle"]

Init ==
  /\ mode \in Modes /\ base \in {<<s>> : s \in SUBSET References}
  /\ tasks = [t \in Tasks |-> Idle] /\ moved = {}

Goto(t, state) == tasks' = [tasks EXCEPT ![t] = state]
At(t, at) == tasks[t].at = at

------------------------------------------------------------------------------
\* Somebody commits: one reference begins or ceases to resolve.
Commit(r) ==
  /\ Len(base) < MaxCommits
  /\ base' = Append(base, IF r \in base[HeadCommit] THEN base[HeadCommit] \ {r} ELSE base[HeadCommit] \union {r})
  /\ moved' = moved \union {t \in Tasks : tasks[t].at \notin {"idle", "report"}}
  /\ UNCHANGED <<mode, tasks>>

\* validate of a prompt with these references; without any it has passed.
Validate(t, refs) ==
  /\ tasks[t].at \in {"idle", "report"}
  /\ Goto(t, [at |-> IF refs = {} THEN "commit" ELSE "resolve", refs |-> refs,
              errors |-> {}, warnings |-> FALSE])
  /\ moved' = moved \ {t}
  /\ UNCHANGED <<mode, base>>

\* resolve_all; of the missing references some are errors, the rest warnings.
Resolve(t, errors) ==
  /\ At(t, "resolve") /\ errors \subseteq tasks[t].refs \ base[HeadCommit]
  /\ Goto(t, [tasks[t] EXCEPT !.at = IF errors = {} THEN "semantic" ELSE "commit", !.errors = errors,
                              !.warnings = tasks[t].refs \ base[HeadCommit] # errors])
  /\ UNCHANGED <<mode, base, moved>>

\* The semantic layer, when there is one and nothing failed, only adds warnings.
Semantic(t, warns) ==
  /\ At(t, "semantic")
  /\ Goto(t, [tasks[t] EXCEPT !.at = "commit", !.warnings = @ \/ warns])
  /\ UNCHANGED <<mode, base, moved>>

\* Faulty variant of DetermineStatus: strict and tolerant are one.
TolerantStatus(errors, warnings) == IF mode # "warn_only" /\ errors # {} THEN "failed" ELSE "passed"

DetermineStatus(errors, warnings) ==
  CASE mode # "warn_only" /\ errors # {} -> "failed"
    [] mode = "strict" /\ errors = {} /\ warnings -> "warning"
    [] OTHER -> "passed"

\* _commit_sha: get_commit() of the client, with or without the repository and
\* the branch; one that fails leaves the report without a commit.
Report(t, known) ==
  /\ At(t, "commit")
  /\ Goto(t, [at |-> "report", refs |-> tasks[t].refs, commit |-> IF known THEN HeadCommit ELSE Unknown,
              status |-> DetermineStatus(tasks[t].errors, tasks[t].warnings)])
  /\ UNCHANGED <<mode, base, moved>>

Next ==
  \/ \E r \in References : Commit(r)
  \/ \E t \in Tasks :
       \/ \E refs \in SUBSET References : Validate(t, refs) \/ Resolve(t, refs)
       \/ \E b \in BOOLEAN : Semantic(t, b) \/ Report(t, b)

Spec == Init /\ [][Next]_vars

------------------------------------------------------------------------------
\* Properties

TypeOK ==
  /\ mode \in Modes /\ base \in Seq(SUBSET References) /\ Len(base) <= MaxCommits
  /\ moved \subseteq Tasks
  /\ \A t \in Tasks : At(t, "report") => tasks[t].commit \in 0..HeadCommit

\* In the strict mode what passed resolves at the commit of the report, unless
\* somebody committed in the meantime; then it resolved at that commit or one
\* before it, and never only at a later one (_validate_internal).
PassedMeansResolved ==
  \A t \in Tasks :
    (At(t, "report") /\ mode = "strict" /\ tasks[t].status = "passed" /\ tasks[t].commit # Unknown)
    => IF t \notin moved THEN tasks[t].refs \subseteq base[tasks[t].commit]
       ELSE \E c \in 1..tasks[t].commit : tasks[t].refs \subseteq base[c]
==============================================================================
