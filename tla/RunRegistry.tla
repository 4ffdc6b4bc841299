------------------------------- MODULE RunRegistry -------------------------------
(***************************************************************************)
(* The evaluation-run command line: every command is a process that loads  *)
(* a registry of ~/.briefcase whole, changes its copy and replaces the     *)
(* file, with no lock between two commands.  run submit asks the engine    *)
(* between reading the dataset and recording the run.  A process may be    *)
(* killed at any point.                                                    *)
(***************************************************************************)
EXTENDS Naturals, FiniteSets

CONSTANTS
  Procs,        \* the processes
  Names,        \* names of datasets and of runs
  Uris,         \* what a dataset's name can stand for, and values of secrets
  MaxCommands   \* bound of the model: commands that are given

NoFile == << >>       \* a registry that was never saved loads as empty
Torn == [torn |-> TRUE]    \* no JSON: no registry of any names

RegistryAssumption == MaxCommands \in Nat /\ "torn" \notin Names

VARIABLES
  files,      \* datasets: name -> URI; runs: name -> [dataset, uri, status]; secrets: name -> value
  procs,      \* each process: what it is about to do
  commands,   \* commands given so far
  accepted,   \* ghost: the runs the engine took, as name and URI
  registered  \* ghost: the pairs of name and URI that were ever registered

vars == <<files, procs, commands, accepted, registered>>

Idle == [pc |-> "idle"]

Init ==
  /\ files = [datasets |-> NoFile, runs |-> NoFile, secrets |-> NoFile]
  /\ procs = [p \in Procs |-> Idle]
  /\ commands = 0 /\ accepted = {} /\ registered = {}

Goto(p, state) == procs' = [procs EXCEPT ![p] = state]
Given(p) == procs[p] = Idle /\ commands < MaxCommands /\ commands' = commands + 1
At(p, pc) == procs[p].pc = pc

------------------------------------------------------------------------------
\* The store.

\* A loaded copy with one record set or removed.
Put(copy, n, rec) == [m \in DOMAIN copy \union {n} |-> IF m = n THEN rec ELSE copy[m]]
Remove(copy, n) == [m \in DOMAIN copy \ {n} |-> copy[m]]

\* Faulty variant of WriteTemp: the registry itself is opened for writing.
WriteInPlace(file) == files' = [files EXCEPT ![file] = Torn]

\* _save serialises into a file of its own first ...
WriteTemp(file) == UNCHANGED files

Write(p) ==
  /\ At(p, "write")
  /\ WriteTemp(procs[p].file)
  /\ Goto(p, [procs[p] EXCEPT !.pc = "replace"])
  /\ UNCHANGED <<commands, accepted, registered>>

\* ... and then puts that file in the place of the registry.
Replace(p) ==
  /\ At(p, "replace")
  /\ files' = [files EXCEPT ![procs[p].file] = procs[p].new]
  /\ registered' = registered \union procs[p].adds
  /\ Goto(p, Idle)
  /\ UNCHANGED <<commands, accepted>>

\* A command's copy is what the file holds when it is loaded, and is saved later.
Save(p, file, new, adds) == Goto(p, [pc |-> "write", file |-> file, new |-> new, adds |-> adds])

\* A command that dies, by a signal or an exception, leaves the files alone.
Kill(p) ==
  /\ procs[p] # Idle /\ Goto(p, Idle)
  /\ UNCHANGED <<files, commands, accepted, registered>>

------------------------------------------------------------------------------
\* The commands.

DatasetRegister(p, n, u) ==
  /\ Given(p) /\ files.datasets # Torn
  /\ Save(p, "datasets", Put(files.datasets, n, u), {<<n, u>>})
  /\ UNCHANGED <<files, accepted, registered>>

\* secret set.
SecretSet(p, n, value) ==
  /\ Given(p) /\ files.secrets # Torn
  /\ Save(p, "secrets", Put(files.secrets, n, value), {})
  /\ UNCHANGED <<files, accepted, registered>>

\* run submit: an unknown dataset ends it.  A dry run is recorded at once.
RunSubmit(p, r, n, dry) ==
  /\ Given(p) /\ files.datasets # Torn /\ n \in DOMAIN files.datasets
  /\ Goto(p, [pc |-> IF dry THEN "record" ELSE "exec", run |-> r, dataset |-> n,
              rec |-> [dataset |-> n, uri |-> files.datasets[n], status |-> "dry-run"]])
  /\ UNCHANGED <<files, accepted, registered>>

\* The engine takes the call or not, and says so or not: an answer that does not
\* come in time reads as a failure.  A server that cannot be reached at all is an
\* exception, and nothing is recorded (Kill).
Exec(p, takes, answers) ==
  /\ At(p, "exec")
  /\ accepted' = IF takes THEN accepted \union {<<procs[p].run, procs[p].rec.uri>>} ELSE accepted
  /\ Goto(p, [pc |-> "record", run |-> procs[p].run, dataset |-> procs[p].dataset,
              rec |-> [procs[p].rec EXCEPT !.status = IF takes /\ answers THEN "submitted" ELSE "error"]])
  /\ UNCHANGED <<files, commands, registered>>

\* Faulty variant of Recorded: the dataset is looked up again.
RecordedLate(p) ==
  IF procs[p].dataset \in DOMAIN files.datasets THEN [procs[p].rec EXCEPT !.uri = files.datasets[procs[p].dataset]]
  ELSE procs[p].rec

Recorded(p) == procs[p].rec

RecordRun(p) ==
  /\ At(p, "record") /\ files.runs # Torn
  /\ Save(p, "runs", Put(files.runs, procs[p].run, Recorded(p)), {})
  /\ UNCHANGED <<files, commands, accepted, registered>>

\* run stop only marks the run here: it looks for it, and loads again to update.
RunStop(p, r) ==
  /\ Given(p) /\ files.runs # Torn /\ r \in DOMAIN files.runs
  /\ Goto(p, [pc |-> "update", run |-> r])
  /\ UNCHANGED <<files, accepted, registered>>

UpdateRun(p) ==
  /\ At(p, "update") /\ files.runs # Torn /\ procs[p].run \in DOMAIN files.runs
  /\ Save(p, "runs", [files.runs EXCEPT ![procs[p].run].status = "stopped"], {})
  /\ UNCHANGED <<files, commands, accepted, registered>>

RunDelete(p, r) ==
  /\ Given(p) /\ files.runs # Torn /\ r \in DOMAIN files.runs
  /\ Save(p, "runs", Remove(files.runs, r), {})
  /\ UNCHANGED <<files, accepted, registered>>

Next ==
  \E p \in Procs :
    \/ \E n \in Names, u \in Uris : DatasetRegister(p, n, u) \/ SecretSet(p, n, u)
    \/ \E r, n \in Names, dry \in BOOLEAN : RunSubmit(p, r, n, dry)
    \/ \E takes, answers \in BOOLEAN : Exec(p, takes, answers)
    \/ RecordRun(p) \/ UpdateRun(p) \/ Write(p) \/ Replace(p) \/ Kill(p)
    \/ \E r \in Names : RunStop(p, r) \/ RunDelete(p, r)

Spec == Init /\ [][Next]_vars

------------------------------------------------------------------------------
\* Properties

TypeOK ==
  /\ files.datasets # Torn => \A n \in DOMAIN files.datasets : n \in Names /\ files.datasets[n] \in Uris
  /\ files.runs # Torn => \A r \in DOMAIN files.runs :
       r \in Names /\ files.runs[r].status \in {"dry-run", "submitted", "error", "stopped"}
  /\ commands \in 0..MaxCommands

\* However commands overlap and wherever one is killed, a registry is what some
\* command made of a whole registry, never half of one (_save).
RegistriesAreWhole == \A f \in DOMAIN files : files[f] # Torn

\* A run that reads as submitted was taken by the engine with the very URI that
\* is recorded, whatever its dataset's name stands for by now and whichever of
\* two commands on one name came last (cmd_run_submit, record_run, update_run).
SubmittedWasAccepted ==
  files.runs # Torn => \A r \in DOMAIN files.runs :
    /\ <<files.runs[r].dataset, files.runs[r].uri>> \in registered
    /\ files.runs[r].status = "submitted" => <<r, files.runs[r].uri>> \in accepted
==============================================================================
