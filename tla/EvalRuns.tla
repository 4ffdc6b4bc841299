-------------------------------- MODULE EvalRuns --------------------------------
(***************************************************************************)
(* EvalRun: threads of a harness log evaluation cases, one by one or by    *)
(* ingesting a list, and one finishes the run.  Every case becomes a       *)
(* record and so does the run, with a summary of its cases.  There is no   *)
(* lock.  A case is its verdict; scores, tokens and cost are left out.     *)
(***************************************************************************)
EXTENDS Naturals, Sequences, FiniteSets

CONSTANTS
  Threads,
  MaxCases  \* bound of the model

EvalAssumption == IsFiniteSet(Threads) /\ MaxCases \in Nat

Verdicts == {"passed", "failed", "none"}
None == << >>

VARIABLES
  cases,     \* _cases
  record,    \* _run_record, or None
  thread,    \* each thread: where it is, the cases it has to log, its summary
  exported,  \* the records exported: verdicts of cases
  runs,      \* and summaries of runs
  raced      \* history: a finish overlapped with a call of another thread

vars == <<cases, record, thread, exported, runs, raced>>

Idle == [at |-> "idle"]

Init ==
  /\ cases = << >> /\ record = None /\ exported = << >> /\ runs = << >> /\ raced = FALSE
  /\ thread = [t \in Threads |-> Idle]

Goto(t, state) == thread' = [thread EXCEPT ![t] = state]
At(t, at) == thread[t].at = at
OthersIdle(t) == \A u \in Threads \ {t} : At(u, "idle")
Finishing == \E u \in Threads : thread[u].at \in {"summarize", "emit"}

------------------------------------------------------------------------------
\* log_case of one, ingest of several.
Log(t, verdicts) ==
  /\ At(t, "idle") /\ Len(cases) + Len(verdicts) <= MaxCases
  /\ Goto(t, [at |-> "check", todo |-> verdicts])
  /\ raced' = (raced \/ Finishing)
  /\ UNCHANGED <<cases, record, exported, runs>>

\* Faulty variant of Open: always.
OpenAlways == TRUE

Open == record = None

\* A finished run takes no more cases: the rest of an ingest is lost with it.
Check(t) ==
  /\ At(t, "check")
  /\ Goto(t, IF Open THEN [thread[t] EXCEPT !.at = "append"] ELSE Idle)
  /\ UNCHANGED <<cases, record, exported, runs, raced>>

AppendCase(t) ==
  /\ At(t, "append") /\ cases' = Append(cases, Head(thread[t].todo))
  /\ Goto(t, [thread[t] EXCEPT !.at = "export"])
  /\ UNCHANGED <<record, exported, runs, raced>>

ExportCase(t) ==
  /\ At(t, "export") /\ exported' = Append(exported, Head(thread[t].todo))
  /\ Goto(t, IF Len(thread[t].todo) = 1 THEN Idle ELSE [at |-> "check", todo |-> Tail(thread[t].todo)])
  /\ UNCHANGED <<cases, record, runs, raced>>

------------------------------------------------------------------------------
\* summary
Count(cs, verdict) == Cardinality({i \in DOMAIN cs : cs[i] = verdict})
Summary(cs) == [total |-> Len(cs), passed |-> Count(cs, "passed"), failed |-> Count(cs, "failed")]

\* finish, also at the end of a with block; a run that is finished stays.
Finish(t) ==
  /\ At(t, "idle") /\ record = None
  /\ Goto(t, [at |-> "summarize"])
  /\ raced' = (raced \/ ~ OthersIdle(t))
  /\ UNCHANGED <<cases, record, exported, runs>>

Summarize(t) ==
  /\ At(t, "summarize") /\ Goto(t, [at |-> "emit", summary |-> Summary(cases)])
  /\ UNCHANGED <<cases, record, exported, runs, raced>>

Emit(t) ==
  /\ At(t, "emit") /\ record' = <<thread[t].summary>> /\ runs' = Append(runs, thread[t].summary)
  /\ Goto(t, Idle)
  /\ UNCHANGED <<cases, exported, raced>>

Next ==
  \E t \in Threads :
    \/ \E v \in Verdicts : Log(t, <<v>>) \/ \E w \in Verdicts : Log(t, <<v, w>>)
    \/ Check(t) \/ AppendCase(t) \/ ExportCase(t)
    \/ Finish(t) \/ Summarize(t) \/ Emit(t)

Spec == Init /\ [][Next]_vars

------------------------------------------------------------------------------
\* Properties

TypeOK ==
  /\ cases \in Seq(Verdicts) /\ exported \in Seq(Verdicts) /\ Len(record) <= 1
  /\ \A t \in Threads : thread[t].at \in {"idle", "check", "append", "export", "summarize", "emit"}

\* Unless a finish overlapped with another call, the run has one record and its
\* summary is of the very cases that were exported, and of no case since; and
\* when every call has returned no summary counts more than was exported, not
\* even one that overlapped (log_case, ingest, finish).
RunsAddUp ==
  /\ record # None /\ ~ raced => Len(runs) = 1 /\ runs[1] = Summary(exported)
  /\ (\A t \in Threads : At(t, "idle")) => \A i \in DOMAIN runs :
       runs[i].total <= Len(exported) /\ runs[i].passed <= Summary(exported).passed
==============================================================================
