------------------------------- MODULE HashChain -------------------------------
(***************************************************************************)
(* HashChainAppender.append_row called by concurrent writers over an       *)
(* InMemoryHashChainStore.  The store's lock makes reading the tail and    *)
(* the compare-and-swap append atomic, each on its own; between the two    *)
(* any other writer may append.                                            *)
(***************************************************************************)
EXTENDS Chain, FiniteSets

CONSTANTS
  Writers,      \* threads that call append_row
  MaxAttempts,  \* append_row's max_attempts
  MaxCalls      \* bound of the model: calls made in a behaviour

ASSUME AttemptsAssumption ==
  /\ MaxAttempts \in Nat \ {0}
  /\ MaxCalls \in Nat
  /\ Rows # {}

VARIABLES
  entries,  \* InMemoryHashChainStore._entries
  pc,       \* where each writer is in append_row
  row,      \* the row of each writer's current or last call
  prior,    \* the tail it read last
  attempt,  \* conflicts its call has met
  calls,    \* calls made so far
  start,    \* history: length of the chain when the call began
  seen      \* history: length of the chain when the tail was read

vars == <<entries, pc, row, prior, attempt, calls, start, seen>>

SegmentTail(r) == TailHash(entries, TableOf[r], EntityOf[r])

\* Stands for the row of a writer that has made no call.
AnyRow == CHOOSE r \in Rows : TRUE

Init ==
  /\ entries = << >>
  /\ pc = [w \in Writers |-> "idle"]
  /\ row = [w \in Writers |-> AnyRow]
  /\ prior = [w \in Writers |-> Genesis]
  /\ attempt = [w \in Writers |-> 0]
  /\ calls = 0
  /\ start = [w \in Writers |-> 0]
  /\ seen = [w \in Writers |-> 0]

\* A writer calls append_row.
Call(w, r) ==
  /\ pc[w] \in {"idle", "raised"}
  /\ calls < MaxCalls
  /\ calls' = calls + 1
  /\ pc' = [pc EXCEPT ![w] = "read"]
  /\ row' = [row EXCEPT ![w] = r]
  /\ attempt' = [attempt EXCEPT ![w] = 0]
  /\ start' = [start EXCEPT ![w] = Len(entries)]
  /\ seen' = [seen EXCEPT ![w] = Len(entries)]
  /\ UNCHANGED <<entries, prior>>

\* last_entry_hash, and the entry built on what it returned.
ReadTail(w) ==
  /\ pc[w] = "read"
  /\ prior' = [prior EXCEPT ![w] = SegmentTail(row[w])]
  /\ seen' = [seen EXCEPT ![w] = Len(entries)]
  /\ pc' = [pc EXCEPT ![w] = "append"]
  /\ UNCHANGED <<entries, row, attempt, calls, start>>

\* Faulty variant of AppendEntry: a blind append, without the compare-and-swap.
AppendEntryBlind(w) ==
  /\ pc[w] = "append"
  /\ entries' = Append(entries, NewEntry(row[w], prior[w]))
  /\ pc' = [pc EXCEPT ![w] = "idle"]
  /\ prior' = [prior EXCEPT ![w] = Genesis]
  /\ attempt' = [attempt EXCEPT ![w] = 0]
  /\ UNCHANGED <<row, calls, start, seen>>

\* Another: it compares with the tail of the row's table, whatever the entity.
AppendEntryOfTable(w) ==
  /\ pc[w] = "append"
  /\ TailHash(entries, TableOf[row[w]], NoEntity) = TailAt(entries, seen[w], TableOf[row[w]], NoEntity)
  /\ entries' = Append(entries, NewEntry(row[w], TailHash(entries, TableOf[row[w]], NoEntity)))
  /\ pc' = [pc EXCEPT ![w] = "idle"]
  /\ prior' = [prior EXCEPT ![w] = Genesis]
  /\ attempt' = [attempt EXCEPT ![w] = 0]
  /\ UNCHANGED <<row, calls, start, seen>>

\* store.append: the tail is still the one the entry extends.  The call
\* returns the entry and its locals go out of scope.
AppendEntry(w) ==
  /\ pc[w] = "append"
  /\ prior[w] = SegmentTail(row[w])
  /\ entries' = Append(entries, NewEntry(row[w], prior[w]))
  /\ pc' = [pc EXCEPT ![w] = "idle"]
  /\ prior' = [prior EXCEPT ![w] = Genesis]
  /\ attempt' = [attempt EXCEPT ![w] = 0]
  /\ UNCHANGED <<row, calls, start, seen>>

\* Faulty variants of AppendConflict: one attempt too many; the tail read once,
\* before the loop; and that in a loop that does not count.
AppendConflictOffByOne(w) ==
  /\ pc[w] = "append"
  /\ prior[w] # SegmentTail(row[w])
  /\ attempt' = [attempt EXCEPT ![w] = @ + 1]
  /\ pc' = [pc EXCEPT ![w] = IF attempt[w] < MaxAttempts THEN "read" ELSE "raised"]
  /\ prior' = [prior EXCEPT ![w] = Genesis]
  /\ UNCHANGED <<entries, row, calls, start, seen>>

AppendConflictHoisted(w) ==
  /\ pc[w] = "append"
  /\ prior[w] # SegmentTail(row[w])
  /\ attempt' = [attempt EXCEPT ![w] = @ + 1]
  /\ pc' = [pc EXCEPT ![w] = IF attempt[w] + 1 < MaxAttempts THEN "append" ELSE "raised"]
  /\ UNCHANGED <<entries, row, prior, calls, start, seen>>

AppendConflictForever(w) ==
  /\ pc[w] = "append"
  /\ prior[w] # SegmentTail(row[w])
  /\ UNCHANGED vars

\* store.append raises ChainConflictError: the loop reads the tail again, or
\* the attempts are spent and the error reaches the caller.
AppendConflict(w) ==
  /\ pc[w] = "append"
  /\ prior[w] # SegmentTail(row[w])
  /\ attempt' = [attempt EXCEPT ![w] = @ + 1]
  /\ pc' = [pc EXCEPT ![w] = IF attempt[w] + 1 < MaxAttempts THEN "read" ELSE "raised"]
  /\ prior' = [prior EXCEPT ![w] = Genesis]
  /\ UNCHANGED <<entries, row, calls, start, seen>>

Step(w) == ReadTail(w) \/ AppendEntry(w) \/ AppendConflict(w)

Next ==
  \E w \in Writers :
    \/ \E r \in Rows : Call(w, r)
    \/ Step(w)

\* A thread inside append_row is never blocked: the store's lock is released
\* by every holder, and the backoff between attempts is a bounded sleep.
Fairness == \A w \in Writers : WF_vars(Step(w))

Spec == Init /\ [][Next]_vars /\ Fairness

------------------------------------------------------------------------------
TypeOK ==
  /\ entries \in Seq(Entry)
  /\ pc \in [Writers -> {"idle", "read", "append", "raised"}]
  /\ row \in [Writers -> Rows]
  /\ prior \in [Writers -> Hash]
  /\ attempt \in [Writers -> 0..MaxAttempts]
  /\ calls \in 0..MaxCalls
  /\ start \in [Writers -> 0..Len(entries)]
  /\ seen \in [Writers -> 0..Len(entries)]
  /\ \A w \in Writers : (attempt[w] = MaxAttempts) <=> (pc[w] = "raised")

\* verify_chain_segment accepts entries_for(table, entity) of every segment a
\* caller can verify, whatever appends raced and whatever rows of other
\* segments, partitioned or not, were appended between.
SegmentsVerify ==
  \A t \in Tables, e \in Entities \union {NoEntity} :
    Verifiable(t, e) => VerifyChainSegment(EntriesFor(entries, t, e), Genesis)

\* Two entries of a segment never carry the same prior hash: a writer that
\* lost the race retries instead of forking the chain.
NoFork == ForkFree(entries)

\* Entries of the call's own segment appended since the call began.
Overtakers(w) ==
  {i \in start[w] + 1 .. Len(entries) :
     InSegment(entries[i], TableOf[row[w]], EntityOf[row[w]])}

\* Every conflict a call meets is another writer's append to its own segment
\* during the call: ChainConflictError reaches a caller only when its segment
\* grew by max_attempts entries meanwhile, and never a segment's only writer.
ConflictsAreContention ==
  \A w \in Writers : Cardinality(Overtakers(w)) >= attempt[w]

\* Every call of append_row comes back, with its entry or with the error.
CallsReturn ==
  \A w \in Writers :
    pc[w] \in {"read", "append"} ~> pc[w] \in {"idle", "raised"}

\* The writers implement the abstract chain; memory is as durable as it gets.
Log == INSTANCE ChainLog WITH log <- entries, durable <- Len(entries)

\* Each step of append_row appends at most one entry, on the tail of its segment at that
\* step, and never touches an earlier entry.
ImplementsChainLog == Log!Spec
==============================================================================
