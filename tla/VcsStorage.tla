------------------------------- MODULE VcsStorage -------------------------------
(***************************************************************************)
(* VcsStorageBackend of storage/vcs/adapter.rs: snapshots are held back    *)
(* until a flush writes them, one object each, and cuts a version;         *)
(* decisions are written at once.  Tasks overlap at every await; the       *)
(* provider is external, lists objects in the order of their paths and     *)
(* may fail at any write.  Snapshot identifiers are fresh.                 *)
(***************************************************************************)
EXTENDS Integers, Sequences, FiniteSets

CONSTANTS
  Tasks,
  Snapshots,  \* numbers, in the order of their paths
  Matching    \* those that match the query's filters

VcsAssumption == Snapshots \subseteq Nat /\ IsFiniteSet(Snapshots) /\ Matching \subseteq Snapshots

VARIABLES
  pending,    \* pending_writes
  objects,    \* snapshots the provider holds
  versions,   \* what each version holds
  task,       \* of each task: where it is and what it has yet to write
  decisions,  \* identifiers whose decision was written
  saved, deleted, dropped  \* history: saved, deleted, and given up by failing flushes

vars == <<pending, objects, versions, task, decisions, saved, deleted, dropped>>
history == <<saved, deleted, dropped>>

Idle == [at |-> "idle", batch |-> << >>, next |-> 1]

Init ==
  /\ pending = << >> /\ objects = {} /\ versions = << >> /\ decisions = {}
  /\ task = [t \in Tasks |-> Idle]
  /\ saved = {} /\ deleted = {} /\ dropped = {}

------------------------------------------------------------------------------
Save(s) ==
  /\ s \notin saved
  /\ pending' = Append(pending, s)
  /\ saved' = saved \union {s}
  /\ UNCHANGED <<objects, versions, task, decisions, deleted, dropped>>

\* The failure of its write changes nothing.
SaveDecision(s) ==
  /\ s \notin decisions
  /\ decisions' = decisions \union {s}
  /\ UNCHANGED <<pending, objects, versions, task>> /\ UNCHANGED history

\* Faulty variant of Flush: what is taken stays pending.
FlushUncleared(t) ==
  /\ task[t].at = "idle" /\ pending # << >>
  /\ task' = [task EXCEPT ![t] = [at |-> "write", batch |-> pending, next |-> 1]]
  /\ UNCHANGED <<pending, objects, versions, decisions>> /\ UNCHANGED history

\* flush takes what is pending, and is done when that is nothing.
Flush(t) ==
  /\ task[t].at = "idle" /\ pending # << >>
  /\ task' = [task EXCEPT ![t] = [at |-> "write", batch |-> pending, next |-> 1]]
  /\ pending' = << >>
  /\ UNCHANGED <<objects, versions, decisions>> /\ UNCHANGED history

\* write_object of the next one.
WriteObject(t) ==
  /\ task[t].at = "write"
  /\ objects' = objects \union {task[t].batch[task[t].next]}
  /\ task' = [task EXCEPT ![t] = [at |-> IF @.next = Len(@.batch) THEN "version" ELSE "write",
                                  batch |-> @.batch, next |-> @.next + 1]]
  /\ UNCHANGED <<pending, versions, decisions>> /\ UNCHANGED history

Unwritten(t) == {task[t].batch[i] : i \in task[t].next..Len(task[t].batch)}

\* The first failure ends the flush; what it had taken is not put back.
WriteFails(t) ==
  /\ task[t].at = "write"
  /\ dropped' = dropped \union Unwritten(t)
  /\ task' = [task EXCEPT ![t] = Idle]
  /\ UNCHANGED <<pending, objects, versions, decisions, saved, deleted>>

\* create_version of all that the provider holds, or its failure.
CreateVersion(t) ==
  /\ task[t].at = "version"
  /\ versions' \in {versions, Append(versions, objects)}
  /\ task' = [task EXCEPT ![t] = Idle]
  /\ UNCHANGED <<pending, objects, decisions>> /\ UNCHANGED history

\* delete reaches only what the provider holds.
Delete(s) ==
  /\ s \in objects
  /\ objects' = objects \ {s} /\ deleted' = deleted \union {s}
  /\ UNCHANGED <<pending, versions, task, decisions, saved, dropped>>

\* load, which knows nothing of what is pending.
Loads(s) == s \in objects

\* What a query matches, and how many matches it has counted when it comes to s.
Matched == {s \in objects : s \in Matching /\ Loads(s)}
Counted(s) == Cardinality({m \in Matched : m < s})

\* Faulty variant of QueryPage: the first match past the offset is skipped.
QueryPageShifted(offset, limit) == {s \in Matched : Counted(s) - offset \in 1..limit}

\* query: a page of at least one of the matches in the order of the paths.  The
\* sort by time comes after the limit, so it orders the page and does not choose it.
QueryPage(offset, limit) == {s \in Matched : Counted(s) - offset \in 0..limit - 1}

Next ==
  \/ \E s \in Snapshots : Save(s) \/ SaveDecision(s) \/ Delete(s)
  \/ \E t \in Tasks : Flush(t) \/ WriteObject(t) \/ WriteFails(t) \/ CreateVersion(t)

Spec == Init /\ [][Next]_vars

------------------------------------------------------------------------------
\* Properties

TypeOK ==
  /\ pending \in Seq(Snapshots) /\ objects \subseteq Snapshots /\ decisions \subseteq Snapshots
  /\ versions \in Seq(SUBSET Snapshots)
  /\ \A t \in Tasks : /\ task[t].at \in {"idle", "write", "version"}
                     /\ task[t].batch \in Seq(Snapshots) /\ task[t].next \in Nat \ {0}
  /\ saved \subseteq Snapshots /\ deleted \subseteq Snapshots /\ dropped \subseteq Snapshots

\* A saved snapshot is in exactly one place: held back, taken by one flush that
\* has not come to it, with the provider, deleted, or given up by a flush that
\* failed; so only a failure loses one, and nothing is written twice (save, flush).
SavedIsInOnePlace ==
  LET places == << {pending[i] : i \in DOMAIN pending}, objects, deleted, dropped >>
      takers(s) == {t \in Tasks : task[t].at = "write" /\ s \in Unwritten(t)}
  IN  \A s \in saved :
        Cardinality({i \in 1..4 : s \in places[i]}) + Cardinality(takers(s)) = 1

\* The pages of a store that stands still are disjoint, miss nothing and are no
\* longer than the caller asked for, whatever was pending, deleted or dropped
\* before (query).
PagesPartition ==
  \A limit \in 1..2 :
    LET page(k) == QueryPage(k * limit, limit)
        pages == 0..Cardinality(Snapshots)
    IN  /\ UNION {page(k) : k \in pages} = objects \intersect Matching
        /\ \A j, k \in pages : j # k => page(j) \intersect page(k) = {}
        /\ \A k \in pages : Cardinality(page(k)) <= limit
==============================================================================
