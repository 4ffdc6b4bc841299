--------------------------- MODULE BitemporalBackends ---------------------------
(***************************************************************************)
(* The four stores behind the BitemporalStore protocol: in memory, SQLite, *)
(* kdb+ and Iceberg (also in a Glue catalog).  Clients append batches and  *)
(* corrections and query; each request to a server is one step.  Times are *)
(* in half milliseconds: a read-only SQLite file whose rows keep an older  *)
(* representation compares whole milliseconds only.                        *)
(***************************************************************************)
EXTENDS BitemporalStore, FiniteSets, SequencesExt

CONSTANTS
  Backends,     \* a subset of the four
  Clients,
  Batches,      \* sequences of records [id, key, vt, tx, parent]
  Legacy,       \* the rows a read-only SQLite file has
  MaxRows       \* bounds the model

BackendsAssumption ==
  /\ Backends \subseteq {"memory", "sqlite", "kdb", "iceberg"}
  /\ MaxRows \in Nat

VARIABLES
  backend, rows,
  coarse,     \* _compare_in_utc
  connected,  \* clients with a connection, a table handle or an open file
  handle,     \* of each client, how many rows its Iceberg handle knows of
  expired,    \* the credentials frozen into the Glue catalog's arguments are void
  left,       \* of each client, the records its call has yet to append
  at,         \* where the call is: "idle", "append" or "insert"
  overlapped  \* history: identifiers that two calls have both found unused

vars == <<backend, rows, coarse, connected, handle, expired, left, at, overlapped>>
client == <<connected, handle, expired>>

Init ==
  /\ backend \in Backends
  /\ coarse \in (IF backend = "sqlite" THEN BOOLEAN ELSE {FALSE})
  /\ rows = IF coarse THEN Legacy ELSE << >>
  /\ connected = {} /\ handle = [c \in Clients |-> 0] /\ expired = FALSE
  /\ left = [c \in Clients |-> << >>] /\ at = [c \in Clients |-> "idle"]
  /\ overlapped = {}

------------------------------------------------------------------------------
\* Appends.  A call may return, or raise, with records left.

Ids(records) == {records[i].id : i \in DOMAIN records}
Fits(records) == Len(rows) + Len(records) <= MaxRows
At(c, b, place) == backend = b /\ at[c] = place /\ UNCHANGED <<backend, coarse>>
Here(c, b, place) == At(c, b, place) /\ UNCHANGED overlapped
Ends(c) == at' = [at EXCEPT ![c] = "idle"] /\ left' = [left EXCEPT ![c] = << >>]
Returns(c) == Ends(c) /\ UNCHANGED rows

Begin(c, batch) ==
  /\ at[c] = "idle" /\ Fits(batch)
  /\ left' = [left EXCEPT ![c] = batch] /\ at' = [at EXCEPT ![c] = "append"]
  /\ UNCHANGED <<backend, rows, coarse, overlapped>> /\ UNCHANGED client

\* A call has not found the identifier of its next record, and is about to append it.
Unused(c) ==
  LET id == Head(left[c]).id
      both == \E d \in Clients : at[d] = "insert" /\ Head(left[d]).id = id
  IN  /\ at' = [at EXCEPT ![c] = "insert"] /\ UNCHANGED <<rows, left>>
      /\ overlapped' = IF both THEN overlapped \union {id} ELSE overlapped

Insert(c) ==
  /\ rows' = Append(rows, Head(left[c])) /\ left' = [left EXCEPT ![c] = Tail(@)]
  /\ at' = [at EXCEPT ![c] = "append"]

\* InMemoryBitemporalStore: one by one, without a lock of its own; only the records
\* of the same key are searched for the identifier.
MemoryAppend(c) ==
  /\ At(c, "memory", "append")
  /\ LET known(r) == \E i \in DOMAIN rows : rows[i].key = r.key /\ rows[i].id = r.id
     IN  IF left[c] = << >> \/ known(Head(left[c])) THEN Returns(c) /\ UNCHANGED overlapped ELSE Unused(c)
  /\ UNCHANGED client

MemoryInsert(c) == Here(c, "memory", "insert") /\ Insert(c) /\ UNCHANGED client

\* SqliteBitemporalBackend: in one transaction, with a unique identifier and a
\* foreign key on the parent; a read-only file refuses.
SqliteAppendMany(c) ==
  /\ Here(c, "sqlite", "append")
  /\ LET after == rows \o left[c]
         violated == \E i \in Len(rows) + 1 .. Len(after) :
           \/ after[i].id \in Ids(SubSeq(after, 1, i - 1))
           \/ IsCorrection(after[i]) /\ after[i].parent \notin Ids(SubSeq(after, 1, i))
     IN  IF coarse \/ violated THEN Returns(c)
         ELSE rows' = after /\ Ends(c)
  /\ UNCHANGED client

\* KdbBitemporalBackend._conn, which opens a connection on first use.
KdbConnect(c) ==
  /\ Here(c, "kdb", "append") /\ c \notin connected
  /\ connected' = connected \union {c}
  /\ UNCHANGED <<rows, handle, expired, left, at>>

\* append, one record after the other: count the identifier, then upsert.
KdbAppend(c) ==
  /\ At(c, "kdb", "append") /\ c \in connected
  /\ IF left[c] = << >> \/ Head(left[c]).id \in Ids(rows) THEN Returns(c) /\ UNCHANGED overlapped ELSE Unused(c)
  /\ UNCHANGED client

KdbUpsert(c) == Here(c, "kdb", "insert") /\ Insert(c) /\ UNCHANGED client

\* A request to the server fails, before it has an effect or after.
KdbFails(c) ==
  /\ backend = "kdb" /\ at[c] \in {"append", "insert"}
  /\ \/ UNCHANGED rows
     \/ at[c] = "insert" /\ rows' = Append(rows, Head(left[c]))
  /\ Ends(c)
  /\ UNCHANGED <<backend, coarse, overlapped>> /\ UNCHANGED client

\* An identifier nobody has used.
Fresh == CHOOSE id \in 100..100 + 2 * MaxRows + Cardinality(Clients) :
           id \notin Ids(rows) /\ \A c \in Clients : id \notin Ids(left[c])

\* append_correction of kdb: strictly later than its parent, with a fresh id.
KdbCorrect(c, i, tx) ==
  /\ Here(c, "kdb", "idle") /\ Fits(<<1>>)
  /\ rows[i].tx < tx
  /\ left' = [left EXCEPT ![c] = <<[rows[i] EXCEPT !.id = Fresh, !.tx = tx,
                                    !.parent = rows[i].id]>>]
  /\ at' = [at EXCEPT ![c] = "append"]
  /\ UNCHANGED rows /\ UNCHANGED client

\* IcebergBitemporalBackend._get_table: load_table, or create_table whatever
\* made it fail; the handle knows the rows there are.
IcebergGetTable(c) ==
  /\ Here(c, "iceberg", "append") /\ c \notin connected /\ ~ expired
  /\ connected' = connected \union {c} /\ handle' = [handle EXCEPT ![c] = Len(rows)]
  /\ UNCHANGED <<rows, expired, left, at>>


\* append_many in one snapshot, without any test of identifiers.  pyiceberg
\* refuses to commit on top of a snapshot the handle does not know of.
IcebergAppendMany(c) ==
  /\ Here(c, "iceberg", "append") /\ c \in connected
  /\ IF left[c] = << >> \/ expired \/ handle[c] # Len(rows) THEN Returns(c) /\ UNCHANGED handle
     ELSE /\ rows' = rows \o left[c] /\ handle' = [handle EXCEPT ![c] = Len(rows')]
          /\ Ends(c)
  /\ UNCHANGED <<connected, expired>>

\* The open itself fails, as it does once the credentials are void.
IcebergFails(c) == Here(c, "iceberg", "append") /\ Returns(c) /\ UNCHANGED client

\* close of kdb and of Iceberg drops the connection and the handle.
Close(c) ==
  /\ backend \in {"kdb", "iceberg"} /\ at[c] = "idle" /\ c \in connected
  /\ connected' = connected \ {c} /\ handle' = [handle EXCEPT ![c] = 0]
  /\ UNCHANGED <<backend, rows, coarse, expired, left, at, overlapped>>

\* The credentials of GlueIcebergBackend's role run out; they were frozen when
\* it was constructed, so that a close does not renew them.
Expire ==
  /\ backend = "iceberg" /\ ~ expired /\ expired' = TRUE
  /\ UNCHANGED <<backend, rows, coarse, connected, handle, left, at, overlapped>>

Next ==
  \/ \E c \in Clients :
       \/ \E batch \in Batches : Begin(c, batch)
       \/ MemoryAppend(c) \/ MemoryInsert(c) \/ SqliteAppendMany(c)
       \/ KdbConnect(c) \/ KdbAppend(c) \/ KdbUpsert(c) \/ KdbFails(c)
       \/ \E i \in DOMAIN rows : \E tx \in 1..rows[i].tx + 1 : KdbCorrect(c, i, tx)
       \/ IcebergGetTable(c) \/ IcebergAppendMany(c) \/ IcebergFails(c) \/ Close(c)
  \/ Expire

Spec == Init /\ [][Next]_vars

------------------------------------------------------------------------------
\* Reads.  Positions of rows stand for records; a set of them for an answer the
\* server leaves open.

\* The rows of a key that a scan of Iceberg by a client returns: those its
\* handle knows of, and none if the scan failed, for whatever reason.
IcebergScan(c, key, failed) == {i \in 1..handle[c] : ~ failed /\ rows[i].key = key}

\* Whether it failed: it may at any time, and does once the credentials are void.
ScanFailures == IF backend = "iceberg" THEN {expired, TRUE} ELSE {FALSE}

\* Python's tuples compare from the left; max takes the first of equal ones.
TupleLess(a, b) == \E n \in 1..3 : a[n] < b[n] /\ \A m \in 1..n - 1 : a[m] = b[m]
SortKey(r) == <<r.tx, r.vt, IF r.parent # 0 THEN 1 ELSE 0>>
Greatest(S) == {i \in S : \A j \in S : ~ TupleLess(SortKey(rows[i]), SortKey(rows[j]))}

IcebergAsOf(c, key, tx, vt, failed) ==
  Greatest({i \in IcebergScan(c, key, failed) : Within(rows[i].tx, tx) /\ Within(rows[i].vt, vt)})

MemoryAsOf(key, tx, vt) ==
  LET greatest == Greatest({i \in DOMAIN rows : /\ rows[i].key = key
                                                /\ Within(rows[i].tx, tx) /\ Within(rows[i].vt, vt)})
  IN  {i \in greatest : \A j \in greatest : i <= j}

\* The columns SQLite orders and compares on.
TimeExpr(t) == IF coarse THEN t \div 2 ELSE t
TimeExprs(r) == <<TimeExpr(r.tx), TimeExpr(r.vt)>>

SqliteAsOf(key, tx, vt) ==
  LET Bound(t, clamp) == clamp = NoTime \/ TimeExpr(t) <= TimeExpr(clamp)
      Columns(r) == Append(TimeExprs(r), IF r.parent # 0 THEN 1 ELSE 0)
      found == {i \in DOMAIN rows : rows[i].key = key /\ Bound(rows[i].tx, tx) /\ Bound(rows[i].vt, vt)}
  IN  {i \in found : \A j \in found : ~ TupleLess(Columns(rows[i]), Columns(rows[j]))}

\* Faulty variant of KdbAsOf: the valid time comes first.
KdbAsOfByValidTime(key, tx, vt) ==
  LET found == {i \in DOMAIN rows : rows[i].key = key /\ Within(rows[i].tx, tx) /\ Within(rows[i].vt, vt)}
      Columns(r) == <<r.vt, r.tx, IF r.parent # 0 THEN 1 ELSE 0>>
  IN  {i \in found : \A j \in found : ~ TupleLess(Columns(rows[i]), Columns(rows[j]))}

\* 1# of an xdesc over three columns.
KdbAsOf(key, tx, vt) ==
  LET found == {i \in DOMAIN rows : rows[i].key = key /\ Within(rows[i].tx, tx) /\ Within(rows[i].vt, vt)}
      Columns(r) == <<r.tx, r.vt, IF r.parent # 0 THEN 1 ELSE 0>>
  IN  {i \in found : \A j \in found : ~ TupleLess(Columns(rows[i]), Columns(rows[j]))}

Answers(c, key, tx, vt, failed) ==
  CASE backend = "memory" -> MemoryAsOf(key, tx, vt)
    [] backend = "sqlite" -> SqliteAsOf(key, tx, vt)
    [] backend = "kdb" -> KdbAsOf(key, tx, vt)
    [] OTHER -> IcebergAsOf(c, key, tx, vt, failed)

\* history of a client: in the order of appends in memory, by the two times in
\* the others.
History(c, key, failed) ==
  LET mine == SetToSeq(IF backend = "iceberg" THEN IcebergScan(c, key, failed)
                       ELSE {i \in DOMAIN rows : rows[i].key = key})
      Earlier(i, j) ==
        IF backend = "memory" THEN i < j
        ELSE TupleLess(TimeExprs(rows[i]) \o <<i>>, TimeExprs(rows[j]) \o <<j>>)
  IN  SortSeq(mine, Earlier)

------------------------------------------------------------------------------
\* Properties

Record == [id : Nat, key : Keys, vt : Nat, tx : Nat, parent : Nat]

TypeOK ==
  /\ backend \in Backends /\ rows \in Seq(Record) /\ Len(rows) <= 2 * MaxRows
  /\ coarse \in BOOLEAN /\ expired \in BOOLEAN
  /\ connected \subseteq Clients /\ handle \in [Clients -> 0..Len(rows)]
  /\ left \in [Clients -> Seq(Record)] /\ at \in [Clients -> {"idle", "append", "insert"}]
  /\ overlapped \subseteq Nat

Times == {NoTime} \union {rows[i].tx : i \in DOMAIN rows} \union {rows[i].vt : i \in DOMAIN rows}

\* The rows of a key came in the order of their times.
InOrder(key) ==
  \A i, j \in {i \in DOMAIN rows : rows[i].key = key} :
    i < j => TupleLess(Append(TimeExprs(rows[i]), i), Append(TimeExprs(rows[j]), j))

\* The backends agree on what was believed when: on the rows a client can see,
\* as_of answers what the reference order picks, and nothing learned after the
\* clamp gets in; a history the server sorts ends with the record as_of finds,
\* or one of its times.  Where they differ from the protocol and from one another:
\* history, which the protocol promises in the order of insertion, is sorted by the
\* times in all but the memory store, and has that order only if the rows came in it; an
\* Iceberg scan that fails, for whatever reason, sees no rows, so that its answer is that
\* of an empty table; and a read-only SQLite file holds all of it to the millisecond only
\* (InMemoryBitemporalStore.as_of and the queries of the other three, _scan_for_key).
AnswersAgree ==
  \A c \in Clients, key \in Keys, tx \in Times, vt \in Times, failed \in ScanFailures :
    LET seen == IF backend = "iceberg" THEN IF failed THEN << >> ELSE SubSeq(rows, 1, handle[c])
                ELSE rows
        answers == Answers(c, key, tx, vt, failed)
        history == History(c, key, failed)
    IN  IF coarse
        THEN \A i \in answers : Within(rows[i].tx, IF tx = NoTime THEN tx ELSE tx + 1)
        ELSE /\ answers \subseteq AsOf(seen, key, tx, vt)
             /\ answers = {} => AsOf(seen, key, tx, vt) = {}
             /\ backend # "memory" /\ history # << >> =>
                  \E i \in Answers(c, key, NoTime, NoTime, failed) :
                    TimeExprs(rows[i]) = TimeExprs(rows[Last(history)])
             /\ backend = "memory" \/ InOrder(key) =>
                  \A m, n \in DOMAIN history : m < n => history[m] < history[n]

\* An identifier means one record, whichever record of a batch is refused: everywhere
\* in SQLite, where a correction also comes after its parent and whichever calls overlap;
\* everywhere in kdb and among the records of a key in memory, unless two calls have both
\* found it unused before either appended.  The comment of append in memory says unique
\* across keys, which the code does not look at, and Iceberg does not test identifiers at
\* all (append and append_many of the three).
IdentifiersHold ==
  LET Twice(i, j) == i # j /\ rows[i].id = rows[j].id
  IN  /\ (backend = "sqlite" /\ ~ coarse) => \A i \in DOMAIN rows :
           /\ \A j \in DOMAIN rows : ~ Twice(i, j)
           /\ IsCorrection(rows[i]) => rows[i].parent \in Ids(SubSeq(rows, 1, i))
      /\ backend \in {"memory", "kdb"} => \A i, j \in DOMAIN rows :
           Twice(i, j) => \/ rows[i].id \in overlapped
                          \/ backend = "memory" /\ rows[i].key # rows[j].key

\* Nothing that was appended is lost or changed, by any backend or a failure.
\* Of every step.
AppendOnly == rows' # rows => IsPrefix(rows, rows')
==============================================================================
