---------------------------- MODULE JsonlChainStore ----------------------------
(***************************************************************************)
(* append_row over JsonlHashChainStore: several store objects, one per     *)
(* process, on one chain file, each with its own write buffer, read offset *)
(* and tail cache, and the faults that hit them.                           *)
(*                                                                         *)
(* A line of the file is two chunks, its head and the rest up to the       *)
(* newline, so that a write can stop half way.  Every line has the same    *)
(* length; offsets count chunks.                                           *)
(***************************************************************************)
EXTENDS Chain, FiniteSets, FiniteSetsExt

CONSTANTS
  Stores, Writers,
  StoreOf,      \* the store a writer's appender uses
  NoStore,
  MaxAttempts,  \* append_row's max_attempts
  Faults,       \* which of "kill", "power", "write", "fsync" can happen
  MaxCalls, MaxFaults  \* bounds of the model

ASSUME StoreAssumption ==
  /\ StoreOf \in [Writers -> Stores]
  /\ NoStore \notin Stores
  /\ Rows # {}
  /\ Faults \subseteq {"kill", "power", "write", "fsync"}
  /\ MaxAttempts \in Nat \ {0} /\ MaxCalls \in Nat /\ MaxFaults \in Nat

VARIABLES
  file,     \* the chunks of the file
  synced,   \* how many of them have reached the disk
  flock,    \* the store that holds the file lock inside append
  st,       \* of each store: "down" (no object), "open", "closed", "broken"
  buf,      \* chunks written to its file object and not yet to the file
  offset,   \* _read_offset
  tails,    \* _tails, and _table_tails under NoEntity
  pc, row, prior, attempt,  \* each writer's append_row
  calls,
  faults,   \* faults so far
  failedWrites,  \* history: writes to the file that raised
  acked     \* history: the entries append_row returned

storeVars == <<st, buf, offset, tails>>
callVars == <<pc, row, prior, attempt>>
fileVars == <<file, synced>>
history == <<calls, faults, failedWrites, acked>>
vars == <<fileVars, flock, storeVars, callVars, history>>

Keys == Tables \X (Entities \union {NoEntity})

Line(e) == <<[entry |-> e, part |-> "head"], [entry |-> e, part |-> "rest"]>>

\* Lines at the start of s that decode, and the entries they hold.
WholeLines(s) ==
  LET Whole(n) == \A i \in 1..n : SubSeq(s, 2 * i - 1, 2 * i) = Line(s[2 * i].entry)
  IN  Max({n \in 0..(Len(s) \div 2) : Whole(n)})

EntriesIn(s) == [i \in 1..WholeLines(s) |-> s[2 * i].entry]

\* Neither a torn final line nor a line that is not an entry.
Parses(s) == Len(s) = 2 * WholeLines(s)

Unread(s) == SubSeq(file, offset[s] + 1, Len(file))

\* Faulty variant of Fold: the tail of the table as a whole is forgotten.
FoldEntities(cache, es) ==
  [k \in Keys |-> LET S == Indices(es, Len(es), k[1], k[2])
                  IN  IF S = {} \/ k[2] = NoEntity THEN cache[k] ELSE es[Latest(S)].hash]

\* The loop of _refresh_tails_locked folds entries into the tail caches.
Fold(cache, es) ==
  [k \in Keys |-> LET S == Indices(es, Len(es), k[1], k[2])
                  IN  IF S = {} THEN cache[k] ELSE es[Latest(S)].hash]

TailOf(cache, r) == cache[<<TableOf[r], EntityOf[r]>>]

\* A crash in the middle of a write left no newline at the end.
Torn(s) == s # << >> /\ s[Len(s)].part = "head"

\* What the store's cache holds once it has refreshed: a torn final line is
\* noticed before anything is folded, a line that is not an entry after.
Refreshed(s) ==
  IF Torn(Unread(s)) THEN tails[s] ELSE Fold(tails[s], EntriesIn(Unread(s)))

\* Faulty variant of Refresh: the offset moves before the lines are decoded.
RefreshSkips(s) ==
  /\ flock = NoStore
  /\ st[s] \in {"open", "closed"}
  /\ st' = [st EXCEPT ![s] = "open"]
  /\ tails' = [tails EXCEPT ![s] = Refreshed(s)]
  /\ offset' = [offset EXCEPT ![s] = Len(file)]

\* An operation of the store takes its locks, reopens a closed file and
\* refreshes; the read offset moves only past lines that all decode.
Refresh(s) ==
  /\ flock = NoStore
  /\ st[s] \in {"open", "closed"}
  /\ st' = [st EXCEPT ![s] = "open"]
  /\ tails' = [tails EXCEPT ![s] = Refreshed(s)]
  /\ offset' = [offset EXCEPT ![s] = IF Parses(Unread(s)) THEN Len(file) ELSE @]

AnyRow == CHOOSE r \in Rows : TRUE

Init ==
  /\ file = << >> /\ synced = 0 /\ flock = NoStore
  /\ st = [s \in Stores |-> "open"]
  /\ buf = [s \in Stores |-> << >>]
  /\ offset = [s \in Stores |-> 0]
  /\ tails = [s \in Stores |-> [k \in Keys |-> Genesis]]
  /\ pc = [w \in Writers |-> "idle"]
  /\ row = [w \in Writers |-> AnyRow]
  /\ prior = [w \in Writers |-> Genesis]
  /\ attempt = [w \in Writers |-> 0]
  /\ calls = 0 /\ faults = 0 /\ failedWrites = 0 /\ acked = {}

------------------------------------------------------------------------------
Call(w, r) ==
  /\ pc[w] = "idle" /\ calls < MaxCalls /\ st[StoreOf[w]] # "down"
  /\ calls' = calls + 1
  /\ pc' = [pc EXCEPT ![w] = "read"]
  /\ row' = [row EXCEPT ![w] = r]
  /\ attempt' = [attempt EXCEPT ![w] = 0]
  /\ UNCHANGED <<fileVars, flock, storeVars, prior, faults, failedWrites, acked>>

\* append_row comes back to its caller, with the entry or with an error.
Return(w) ==
  /\ pc' = [pc EXCEPT ![w] = "idle"]
  /\ prior' = [prior EXCEPT ![w] = Genesis]
  /\ UNCHANGED <<row, attempt>>

\* last_entry_hash
ReadTail(w) ==
  LET s == StoreOf[w]
  IN  /\ pc[w] = "read"
      /\ Refresh(s) /\ Parses(Unread(s))
      /\ prior' = [prior EXCEPT ![w] = TailOf(Refreshed(s), row[w])]
      /\ pc' = [pc EXCEPT ![w] = "append"]
      /\ UNCHANGED <<fileVars, flock, buf, row, attempt, history>>

\* Either operation raises TruncatedChainFileError from its refresh, or
\* ValueError because a failed close left a closed file object behind.
OperationRaises(w) ==
  LET s == StoreOf[w]
  IN  /\ pc[w] \in {"read", "append"}
      /\ \/ Refresh(s) /\ ~ Parses(Unread(s))
         \/ st[s] = "broken" /\ UNCHANGED <<st, tails, offset>>
      /\ Return(w)
      /\ UNCHANGED <<fileVars, flock, buf, history>>

\* append raises ChainConflictError; append_row retries or gives up.
AppendConflict(w) ==
  LET s == StoreOf[w]
  IN  /\ pc[w] = "append"
      /\ Refresh(s) /\ Parses(Unread(s))
      /\ prior[w] # TailOf(Refreshed(s), row[w])
      /\ attempt' = [attempt EXCEPT ![w] = @ + 1]
      /\ pc' = [pc EXCEPT ![w] = IF attempt[w] + 1 < MaxAttempts THEN "read" ELSE "idle"]
      /\ prior' = [prior EXCEPT ![w] = Genesis]
      /\ UNCHANGED <<fileVars, flock, buf, row, history>>

\* Faulty variant of AppendBegin: the compare-and-swap trusts the cached tails.
AppendBeginCached(w) ==
  LET s == StoreOf[w]
  IN  /\ pc[w] = "append"
      /\ flock = NoStore /\ st[s] = "open"
      /\ prior[w] = TailOf(tails[s], row[w])
      /\ flock' = s
      /\ buf' = [buf EXCEPT ![s] = @ \o Line(NewEntry(row[w], prior[w]))]
      /\ pc' = [pc EXCEPT ![w] = "write"]
      /\ UNCHANGED <<fileVars, st, offset, tails, row, prior, attempt, history>>

\* append passes the compare-and-swap, keeps the locks and hands its line to
\* the file object, whose buffer may still hold the line of a failed append.
AppendBegin(w) ==
  LET s == StoreOf[w]
  IN  /\ pc[w] = "append"
      /\ Refresh(s) /\ Parses(Unread(s))
      /\ prior[w] = TailOf(Refreshed(s), row[w])
      /\ flock' = s
      /\ buf' = [buf EXCEPT ![s] = @ \o Line(NewEntry(row[w], prior[w]))]
      /\ pc' = [pc EXCEPT ![w] = "write"]
      /\ UNCHANGED <<fileVars, row, prior, attempt, history>>

\* flush moves the buffer to the file; a reader may look at it in between.
WriteChunk(w) ==
  LET s == StoreOf[w]
  IN  /\ pc[w] = "write"
      /\ file' = Append(file, Head(buf[s]))
      /\ buf' = [buf EXCEPT ![s] = Tail(@)]
      /\ pc' = [pc EXCEPT ![w] = IF Len(buf[s]) = 1 THEN "fsync" ELSE "write"]
      /\ UNCHANGED <<synced, flock, st, offset, tails, row, prior, attempt, history>>

\* Faulty variant of AppendEnd: flushed to the file, never to the disk.
AppendEndUnsynced(w) ==
  LET s == StoreOf[w]
      e == NewEntry(row[w], prior[w])
  IN  /\ pc[w] = "fsync"
      /\ offset' = [offset EXCEPT ![s] = @ + Len(Line(e))]
      /\ tails' = [tails EXCEPT ![s] = Fold(@, <<e>>)]
      /\ acked' = acked \union {e}
      /\ flock' = NoStore
      /\ Return(w)
      /\ UNCHANGED <<fileVars, st, buf, calls, faults, failedWrites>>

\* fsync succeeds: offset and tails move past the line, the locks are
\* released and append_row returns the entry.
AppendEnd(w) ==
  LET s == StoreOf[w]
      e == NewEntry(row[w], prior[w])
  IN  /\ pc[w] = "fsync"
      /\ synced' = Len(file)
      /\ offset' = [offset EXCEPT ![s] = @ + Len(Line(e))]
      /\ tails' = [tails EXCEPT ![s] = Fold(@, <<e>>)]
      /\ acked' = acked \union {e}
      /\ flock' = NoStore
      /\ Return(w)
      /\ UNCHANGED <<file, st, buf, calls, faults, failedWrites>>

Fault(kind) == kind \in Faults /\ faults < MaxFaults /\ faults' = faults + 1

\* Faulty variants of WriteFails and FsyncFails: no finally releases the lock.
WriteFailsLocked(w) ==
  /\ pc[w] = "write" /\ Fault("write")
  /\ failedWrites' = failedWrites + 1
  /\ Return(w)
  /\ UNCHANGED <<fileVars, flock, storeVars, calls, acked>>

FsyncFailsLocked(w) ==
  /\ pc[w] = "fsync" /\ Fault("fsync")
  /\ Return(w)
  /\ UNCHANGED <<fileVars, flock, storeVars, calls, failedWrites, acked>>

\* flush raises OSError: append releases its locks and the error reaches the
\* caller, while the file object keeps what it could not write.
WriteFails(w) ==
  /\ pc[w] = "write" /\ Fault("write")
  /\ failedWrites' = failedWrites + 1
  /\ flock' = NoStore
  /\ Return(w)
  /\ UNCHANGED <<fileVars, storeVars, calls, acked>>

\* fsync raises OSError: the line is in the file, but not known to be on disk.
FsyncFails(w) ==
  /\ pc[w] = "fsync" /\ Fault("fsync")
  /\ flock' = NoStore
  /\ Return(w)
  /\ UNCHANGED <<fileVars, storeVars, calls, failedWrites, acked>>

------------------------------------------------------------------------------
\* close flushes the buffer without taking the file lock; the next operation
\* of the store opens the file again.
Close(s) ==
  /\ st[s] = "open" /\ flock # s
  /\ file' = file \o buf[s]
  /\ buf' = [buf EXCEPT ![s] = << >>]
  /\ st' = [st EXCEPT ![s] = "closed"]
  /\ UNCHANGED <<synced, flock, offset, tails, callVars, history>>

\* The flush of close raises: the buffer is dropped with the descriptor and
\* the store keeps a closed file object.
CloseFails(s) ==
  /\ st[s] = "open" /\ flock # s /\ buf[s] # << >> /\ Fault("write")
  /\ failedWrites' = failedWrites + 1
  /\ buf' = [buf EXCEPT ![s] = << >>]
  /\ st' = [st EXCEPT ![s] = "broken"]
  /\ UNCHANGED <<fileVars, flock, offset, tails, callVars, calls, acked>>

\* The stores D go with their processes: buffers and calls are lost, and the
\* kernel releases a lock they held.
Vanish(D) ==
  /\ st' = [s \in Stores |-> IF s \in D THEN "down" ELSE st[s]]
  /\ buf' = [s \in Stores |-> IF s \in D THEN << >> ELSE buf[s]]
  /\ offset' = [s \in Stores |-> IF s \in D THEN 0 ELSE offset[s]]
  /\ tails' = [s \in Stores |-> IF s \in D THEN [k \in Keys |-> Genesis] ELSE tails[s]]
  /\ flock' = IF flock \in D THEN NoStore ELSE flock
  /\ pc' = [w \in Writers |-> IF StoreOf[w] \in D THEN "idle" ELSE pc[w]]
  /\ prior' = [w \in Writers |-> IF StoreOf[w] \in D THEN Genesis ELSE prior[w]]
  /\ UNCHANGED <<row, attempt, calls, failedWrites, acked>>

Kill(s) ==
  /\ st[s] # "down" /\ Fault("kill")
  /\ Vanish({s})
  /\ UNCHANGED fileVars

\* A machine crash also takes an unsynced end of the file, from any chunk on.
PowerLoss ==
  /\ Fault("power")
  /\ Vanish(Stores)
  /\ \E n \in synced..Len(file) : file' = SubSeq(file, 1, n)
  /\ UNCHANGED synced

\* The constructor, in a new process: it reads the whole file and raises,
\* leaving no object, unless every line decodes.
Open(s) ==
  /\ st[s] = "down" /\ flock = NoStore /\ Parses(file)
  /\ st' = [st EXCEPT ![s] = "open"]
  /\ offset' = [offset EXCEPT ![s] = Len(file)]
  /\ tails' = [tails EXCEPT ![s] = Fold(@, EntriesIn(file))]
  /\ UNCHANGED <<fileVars, flock, buf, callVars, history>>

Step(w) ==
  \/ ReadTail(w) \/ OperationRaises(w) \/ AppendConflict(w) \/ AppendBegin(w)
  \/ WriteChunk(w) \/ AppendEnd(w)

Next ==
  \/ \E w \in Writers :
       \/ \E r \in Rows : Call(w, r)
       \/ Step(w) \/ WriteFails(w) \/ FsyncFails(w)
  \/ \E s \in Stores : Close(s) \/ CloseFails(s) \/ Kill(s) \/ Open(s)
  \/ PowerLoss

\* A live thread inside append_row keeps running; nothing obliges callers,
\* closers or faults.
Fairness == \A w \in Writers : WF_vars(Step(w))

Spec == Init /\ [][Next]_vars /\ Fairness

------------------------------------------------------------------------------
Chunk == [entry : Entry, part : {"head", "rest"}]

TypeOK ==
  /\ file \in Seq(Chunk) /\ synced \in 0..Len(file)
  /\ flock \in Stores \union {NoStore}
  /\ st \in [Stores -> {"down", "open", "closed", "broken"}]
  /\ buf \in [Stores -> Seq(Chunk)]
  /\ offset \in [Stores -> 0..Len(file)]
  /\ tails \in [Stores -> [Keys -> Hash]]
  /\ pc \in [Writers -> {"idle", "read", "append", "write", "fsync"}]
  /\ row \in [Writers -> Rows]
  /\ prior \in [Writers -> Hash]
  /\ attempt \in [Writers -> 0..MaxAttempts]
  /\ acked \subseteq Entry
  \* The lock is held by exactly the store whose thread is inside append.
  /\ \A w \in Writers : pc[w] \in {"write", "fsync"} => flock = StoreOf[w]
  /\ flock # NoStore => \E w \in Writers : pc[w] \in {"write", "fsync"} /\ StoreOf[w] = flock

FileChain == EntriesIn(file)

OnDisk == EntriesIn(SubSeq(file, 1, synced))

\* The file implements the abstract chain as long as no write to it raised:
\* whichever processes append, die or come back, whatever a machine crash
\* takes, entries appear one at a time on the tail of their segment and
\* disappear only from the end, never the synced ones.
Log == INSTANCE ChainLog WITH log <- FileChain, durable <- Len(OnDisk)

ImplementsUntilWriteFails ==
  [][failedWrites' = 0 => [Log!Next]_(Log!logVars)]_vars

\* An entry append_row returned is on disk for good, unless a write raised.
ReturnedIsDurable ==
  failedWrites = 0 => acked \subseteq {OnDisk[i] : i \in 1..Len(OnDisk)}

\* The incremental caches say what a scan of the consumed lines would: no
\* interleaving of stores on the file makes a tail stale past the next refresh.
CachesMatchFile ==
  failedWrites = 0 =>
    \A s \in Stores : st[s] # "down" =>
      LET read == EntriesIn(SubSeq(file, 1, offset[s]))
      IN  /\ 2 * Len(read) = offset[s]
          /\ \A k \in Keys : tails[s][k] = TailHash(read, k[1], k[2])

\* A line torn by a crash stays the end of the file: no append gets past its
\* checks to write behind it and nothing completes it; only a machine crash may
\* still take it away.
TornLineIsFinal ==
  [][failedWrites' = 0 /\ flock = NoStore /\ ~ Parses(file)
       => /\ flock' = NoStore
          /\ Len(file') <= Len(file) /\ file' = SubSeq(file, 1, Len(file'))]_vars

\* Every call of append_row comes back or dies with its process: no error path
\* of the store and no death of another process leaves a lock behind.
CallsReturn == \A w \in Writers : pc[w] # "idle" ~> pc[w] = "idle"

\* Two entries of a segment never carry the same prior hash.  False of this
\* store: the line of an append that raised is still in the file object's
\* buffer and a later append or close writes it.
NoFork == ForkFree(FileChain)
==============================================================================
