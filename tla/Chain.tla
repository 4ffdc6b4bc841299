-------------------------------- MODULE Chain --------------------------------
(***************************************************************************)
(* The data of briefcase.integrity: entries, segments, tails and the       *)
(* verifier's loop.  Shared by the abstract chain (ChainLog), the appender *)
(* over the in-memory store (HashChain) and the JSONL file store           *)
(* (JsonlChainStore).                                                      *)
(*                                                                         *)
(* A row stands for everything an entry's hash covers besides the prior    *)
(* hash (id, table, entity, timestamps, payload hash, supersedes).  SHA-256 *)
(* is taken to be collision free: the hash of an entry is the history it   *)
(* commits to, the sequence of rows that ends with its own row.            *)
(***************************************************************************)
EXTENDS Naturals, Sequences, Subsequences

CONSTANTS
  Rows,       \* the rows callers append
  Tables,     \* stream names
  Entities,   \* partition keys within a stream
  NoEntity,   \* the caller's entity_id = None
  TableOf,    \* the table of a row
  EntityOf    \* the entity of a row, or NoEntity

ASSUME RowsAssumption ==
  /\ TableOf \in [Rows -> Tables]
  /\ EntityOf \in [Rows -> Entities \union {NoEntity}]
  /\ NoEntity \notin Entities

Hash == Seq(Rows)

Genesis == << >>

\* compute_entry_hash: the fields of the row and the prior hash, digested.
HashOf(row, prior) == Append(prior, row)

Entry == [row : Rows, prior : Hash, hash : Hash]

NewEntry(row, prior) ==
  [row |-> row, prior |-> prior, hash |-> HashOf(row, prior)]

\* The filter of _tail_locked and entries_for: entity None matches any entity.
InSegment(e, table, entity) ==
  /\ TableOf[e.row] = table
  /\ entity = NoEntity \/ EntityOf[e.row] = entity

\* Positions of a segment among the first n entries of a log.
Indices(log, n, table, entity) ==
  {i \in 1..n : InSegment(log[i], table, entity)}

\* The hash last_entry_hash returned when the log held n entries.
TailAt(log, n, table, entity) ==
  LET S == Indices(log, n, table, entity)
  IN  IF S = {} THEN Genesis ELSE log[Latest(S)].hash

TailHash(log, table, entity) == TailAt(log, Len(log), table, entity)

EntriesFor(log, table, entity) ==
  Picked(log, Indices(log, Len(log), table, entity))

\* The verdict of the loop of verify_chain_segment on a slice.
VerifyChainSegment(slice, expectedPrior) ==
  \A i \in 1..Len(slice) :
    /\ slice[i].prior = IF i = 1 THEN expectedPrior ELSE slice[i - 1].hash
    /\ slice[i].hash = HashOf(slice[i].row, slice[i].prior)

\* A segment that one caller can verify on its own: an entity's rows, or a
\* whole table none of whose rows names an entity.
Verifiable(table, entity) ==
  \/ entity \in Entities
  \/ /\ entity = NoEntity
     /\ \A r \in Rows : TableOf[r] = table => EntityOf[r] = NoEntity

\* What verification of a segment amounts to on the positions of the log.
LinkedAt(log, i, table, entity) ==
  /\ log[i].prior = TailAt(log, i - 1, table, entity)
  /\ log[i].hash = HashOf(log[i].row, log[i].prior)

\* No two entries of one verifiable segment extend the same entry.
ForkFree(log) ==
  \A i, j \in 1..Len(log) :
    /\ i < j
    /\ TableOf[log[i].row] = TableOf[log[j].row]
    /\ EntityOf[log[i].row] = EntityOf[log[j].row]
    /\ Verifiable(TableOf[log[i].row], EntityOf[log[i].row])
    => log[i].prior # log[j].prior
==============================================================================
