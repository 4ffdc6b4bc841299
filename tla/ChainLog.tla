------------------------------- MODULE ChainLog -------------------------------
(***************************************************************************)
(* What a HashChainStore promises its appenders: one log per table to      *)
(* which entries are added one at a time, each extending the tail of its   *)
(* own segment.  A prefix of the log is durable; what lies beyond it may   *)
(* be lost, always from the end.                                           *)
(***************************************************************************)
EXTENDS Chain

VARIABLES log, durable

logVars == <<log, durable>>

Init ==
  /\ log = << >>
  /\ durable = 0

\* An append takes effect: the new entry's prior hash is the tail of its
\* segment at that very step.  A store that does not outlive its process
\* calls everything it holds durable.
Commit(row) ==
  /\ log' = Append(log, NewEntry(row, TailHash(log, TableOf[row], EntityOf[row])))
  /\ durable' \in {durable, Len(log) + 1}

\* The log so far reaches stable storage.
Sync ==
  /\ durable' \in (durable + 1)..Len(log)
  /\ UNCHANGED log

\* A machine crash takes entries that had not reached stable storage.
Lose ==
  /\ \E n \in durable..Len(log) : log' = SubSeq(log, 1, n)
  /\ UNCHANGED durable

Next ==
  \/ \E row \in Rows : Commit(row)
  \/ Sync
  \/ Lose

Spec == Init /\ [][Next]_logVars
==============================================================================
