------------------------ MODULE JsonlChainStoreProofs ------------------------
(***************************************************************************)
(* The JSONL chain store, for any stores, writers, rows and faults: its    *)
(* locks exclude, and until a write to the file has failed what            *)
(* append_row returned is on disk, caches say what the file says, nobody   *)
(* writes behind a torn line, and the file implements the abstract chain.  *)
(***************************************************************************)
EXTENDS JsonlChainStore, Integers

Writing(w) == pc[w] \in {"write", "fsync"}

\* One thread at a time is inside append; its store has an open file object,
\* whose buffer it empties before it syncs, and room for its line is made.
OneWrites ==
  /\ \A v, w \in Writers : Writing(v) /\ Writing(w) => v = w
  /\ \A w \in Writers : Writing(w) =>
       /\ st[StoreOf[w]] = "open"
       /\ pc[w] = "write" <=> buf[StoreOf[w]] # << >>
       /\ Len(file) + Len(buf[StoreOf[w]]) >= offset[StoreOf[w]] + 2

\* A call that will append again has attempts left.
AttemptsLeft ==
  \A w \in Writers : pc[w] \in {"read", "append"} => attempt[w] < MaxAttempts

\* The lock is held by exactly the store whose thread is inside append.
LockHeld ==
  /\ \A w \in Writers : Writing(w) => flock = StoreOf[w]
  /\ flock # NoStore => \E w \in Writers : Writing(w) /\ StoreOf[w] = flock

\* The types alone.
Shapes ==
  /\ file \in Seq(Chunk) /\ synced \in 0..Len(file)
  /\ flock \in Stores \union {NoStore}
  /\ st \in [Stores -> {"down", "open", "closed", "broken"}]
  /\ buf \in [Stores -> Seq(Chunk)]
  /\ offset \in [Stores -> 0..Len(file)]
  /\ tails \in [Stores -> [Keys -> Hash]]
  /\ pc \in [Writers -> {"idle", "read", "append", "write", "fsync"}]
  /\ row \in [Writers -> Rows]
  /\ prior \in [Writers -> Hash]
  /\ attempt \in [Writers -> 0..MaxAttempts]
  /\ acked \subseteq Entry

LocksHold == TypeOK /\ OneWrites /\ AttemptsLeft /\ failedWrites \in Nat

\* The entry append_row builds is well formed and its hash is one row longer
\* than the tail it extends.
LEMMA NewEntryType ==
  ASSUME NEW r \in Rows, NEW p \in Hash
  PROVE  /\ NewEntry(r, p) \in Entry
         /\ Len(NewEntry(r, p).hash) = Len(p) + 1
BY AppendProperties DEF NewEntry, Entry, Hash, HashOf

------------------------------------------------------------------------------
\* The type invariant is the types and the rule of the lock.
LEMMA TypeIsShapes ==
  /\ TypeOK <=> Shapes /\ LockHeld
  /\ TypeOK' <=> Shapes' /\ LockHeld'
BY Zenon DEF TypeOK, Shapes, LockHeld, Writing

\* A nonempty set of naturals up to a bound has a maximum.
LEMMA MaxOfNaturals ==
  ASSUME NEW n \in Nat, NEW S \in SUBSET (0..n), S # {}
  PROVE  Max(S) \in S /\ \A x \in S : x <= Max(S)
<1>1. ASSUME S # {0}
      PROVE  \E z \in S : \A y \in S : z >= y
  <2>1. S \ {0} \in SUBSET (1..n) /\ S \ {0} # {}
    BY <1>1
  <2>2. PICK z \in S \ {0} : \A y \in S \ {0} : y <= z
    BY <2>1, LastPosition
  <2>3. QED
    BY <2>1, <2>2
<1>2. ASSUME S = {0}
      PROVE  \E z \in S : \A y \in S : z >= y
  BY <1>2
<1>3. \E z \in S : \A y \in S : z >= y
  BY <1>1, <1>2
<1>4. Max(S) \in S /\ \A y \in S : Max(S) >= y
  BY <1>3 DEF Max
<1>5. QED
  BY <1>4

\* The lines that decode are among the lines there are.
LEMMA EntriesAreTyped ==
  ASSUME NEW q \in Seq(Chunk)
  PROVE  /\ WholeLines(q) \in Nat /\ 2 * WholeLines(q) <= Len(q)
         /\ EntriesIn(q) \in Seq(Entry) /\ Len(EntriesIn(q)) = WholeLines(q)
<1> DEFINE Whole(n) == \A i \in 1..n : SubSeq(q, 2 * i - 1, 2 * i) = Line(q[2 * i].entry)
           half == Len(q) \div 2
           S == {n \in 0..half : Whole(n)}
<1>1. Len(q) \in Nat /\ half \in Nat /\ 2 * half <= Len(q)
  OBVIOUS
<1>2. 0 \in S /\ S \in SUBSET (0..half)
  <2>1. Whole(0)
    OBVIOUS
  <2>2. QED
    BY <1>1, <2>1
<1>3. WholeLines(q) = Max(S)
  BY DEF WholeLines
<1>4. WholeLines(q) \in 0..half
  BY <1>1, <1>2, <1>3, MaxOfNaturals
<1>5. WholeLines(q) \in Nat /\ 2 * WholeLines(q) <= Len(q)
  BY <1>1, <1>4
<1>6. ASSUME NEW i \in 1..WholeLines(q)
      PROVE  q[2 * i].entry \in Entry
  <2>1. 2 * i \in 1..Len(q)
    BY <1>1, <1>5
  <2>2. q[2 * i] \in Chunk
    BY <2>1
  <2>3. QED
    BY <2>2 DEF Chunk
<1>7. EntriesIn(q) \in [1..WholeLines(q) -> Entry]
  BY <1>6 DEF EntriesIn
<1>8. QED
  BY <1>5, <1>7

\* Folding entries into tails gives tails.
LEMMA FoldIsTyped ==
  ASSUME NEW cache \in [Keys -> Hash], NEW es \in Seq(Entry)
  PROVE  Fold(cache, es) \in [Keys -> Hash]
<1>1. ASSUME NEW k \in Keys, Indices(es, Len(es), k[1], k[2]) # {}
      PROVE  es[Latest(Indices(es, Len(es), k[1], k[2]))].hash \in Hash
  <2> DEFINE S == Indices(es, Len(es), k[1], k[2])
  <2>1. Len(es) \in Nat /\ S \in SUBSET (1..Len(es))
    BY LenProperties DEF Indices
  <2>2. Latest(S) \in 1..Len(es)
    BY <1>1, <2>1, LatestIsGreatest
  <2>3. es[Latest(S)] \in Entry
    BY <2>2, ElementOfSeq
  <2>4. QED
    BY <2>3 DEF Entry
<1>2. QED
  BY <1>1 DEF Fold

\* The two halves of a line.
LEMMA LineIsTyped ==
  ASSUME NEW e \in Entry
  PROVE  /\ Line(e) \in Seq(Chunk) /\ Len(Line(e)) = 2
         /\ Line(e)[1] = [entry |-> e, part |-> "head"]
         /\ Line(e)[2] = [entry |-> e, part |-> "rest"]
BY DEF Line, Chunk

\* A buffer is empty when nothing is left of it; a line adds two chunks to it.
LEMMA BufferFacts ==
  ASSUME NEW q \in Seq(Chunk)
  PROVE  /\ Len(q) \in Nat /\ (q = << >> <=> Len(q) = 0)
         /\ \A e \in Entry : q \o Line(e) \in Seq(Chunk) /\ Len(q \o Line(e)) = Len(q) + 2
<1>1. Len(q) \in Nat /\ (q = << >> <=> Len(q) = 0)
  BY LenProperties, EmptySeq
<1>2. ASSUME NEW e \in Entry
      PROVE  q \o Line(e) \in Seq(Chunk) /\ Len(q \o Line(e)) = Len(q) + 2
  <2>1. PICK l \in Seq(Chunk) : l = Line(e) /\ Len(l) = 2
    BY LineIsTyped
  <2>2. q \o l \in Seq(Chunk) /\ Len(q \o l) = Len(q) + Len(l)
    BY ConcatProperties
  <2>3. QED
    BY <2>1, <2>2
<1>3. QED
  BY <1>1, <1>2

\* What a store has yet to read, and its tails when it has.
LEMMA UnreadIsTyped ==
  ASSUME TypeOK, NEW s \in Stores
  PROVE  /\ Unread(s) \in Seq(Chunk)
         /\ Len(file) \in Nat /\ offset[s] \in 0..Len(file)
         /\ Len(Unread(s)) = Len(file) - offset[s]
         /\ \A i \in 1..Len(Unread(s)) : Unread(s)[i] = file[offset[s] + i]
         /\ Refreshed(s) \in [Keys -> Hash]
<1>1. /\ file \in Seq(Chunk) /\ Len(file) \in Nat /\ offset[s] \in 0..Len(file)
      /\ tails[s] \in [Keys -> Hash]
  BY LenProperties DEF TypeOK
<1>2. \A i \in offset[s] + 1 .. Len(file) : file[i] \in Chunk
  BY <1>1
<1>3. /\ Unread(s) \in Seq(Chunk)
      /\ Len(Unread(s)) = Len(file) - offset[s]
      /\ \A i \in 1..Len(Unread(s)) : Unread(s)[i] = file[offset[s] + i]
  <2> DEFINE o == offset[s]
             l == Len(file)
  <2>1. o \in Nat /\ l \in Nat /\ o <= l /\ \A i \in o + 1 .. l : file[i] \in Chunk
    BY <1>1, <1>2
  <2> HIDE DEF o, l
  <2>2. Len(SubSeq(file, o + 1, l)) = l - o
    BY <2>1
  <2>3. \A i \in 1..(l - o) : SubSeq(file, o + 1, l)[i] = file[o + i]
    BY <2>1
  <2>4. SubSeq(file, o + 1, l) \in Seq(Chunk)
    BY <2>1
  <2>5. QED
    BY <2>2, <2>3, <2>4 DEF Unread, o, l
<1>4. Refreshed(s) \in [Keys -> Hash]
  BY <1>1, <1>3, EntriesAreTyped, FoldIsTyped DEF Refreshed
<1>5. QED
  BY <1>1, <1>3, <1>4

\* The tail of a row's segment is one of the cached ones.
LEMMA TailOfIsTyped ==
  ASSUME NEW cache \in [Keys -> Hash], NEW r \in Rows
  PROVE  TailOf(cache, r) \in Hash
BY RowsAssumption DEF TailOf, Keys

\* A refresh moves the offset to the end of the file or leaves it.
LEMMA RefreshIsTyped ==
  ASSUME TypeOK, NEW s \in Stores, Refresh(s)
  PROVE  /\ flock = NoStore
         /\ st' \in [Stores -> {"down", "open", "closed", "broken"}]
         /\ offset' \in [Stores -> 0..Len(file)]
         /\ tails' \in [Stores -> [Keys -> Hash]]
         /\ st'[s] = "open"
         /\ Parses(Unread(s)) => offset'[s] = Len(file)
<1>1. Refreshed(s) \in [Keys -> Hash] /\ Len(file) \in Nat
  BY UnreadIsTyped
<1>2. QED
  BY <1>1 DEF Refresh, TypeOK

\* Between operations on the file nobody is inside append.
LEMMA LockIsFree ==
  ASSUME TypeOK, flock = NoStore
  PROVE  \A w \in Writers : ~ Writing(w)
BY StoreAssumption DEF TypeOK, Writing

\* Nobody is inside append of a store that does not hold the lock.
LEMMA OthersAreOut ==
  ASSUME TypeOK, NEW s, flock # s
  PROVE  \A w \in Writers : StoreOf[w] = s => ~ Writing(w)
BY DEF TypeOK, Writing

\* Calls, their reads and conflicts leave the locks as they were.
LEMMA OperationsLeaveLocks ==
  ASSUME LocksHold, NEW w \in Writers,
         \/ \E r \in Rows : Call(w, r)
         \/ ReadTail(w) \/ OperationRaises(w) \/ AppendConflict(w)
  PROVE  LocksHold'
<1> USE StoreAssumption DEF LocksHold
<1>0. StoreOf[w] \in Stores /\ Genesis \in Hash
  BY DEF Genesis, Hash
<1>1. CASE \E r \in Rows : Call(w, r)
  <2>1. TypeOK'
    BY <1>1 DEF Call, TypeOK, fileVars, storeVars
  <2>2. OneWrites' /\ AttemptsLeft' /\ failedWrites' \in Nat
    BY <1>1 DEF Call, TypeOK, OneWrites, AttemptsLeft, Writing, fileVars, storeVars
  <2>3. QED
    BY <2>1, <2>2
<1>2. CASE ReadTail(w) \/ OperationRaises(w) \/ AppendConflict(w)
  <2>1. /\ UNCHANGED <<fileVars, flock, buf, row, history>>
        /\ pc[w] \in {"read", "append"}
        /\ pc' = [pc EXCEPT ![w] = pc'[w]] /\ pc'[w] \in {"idle", "read", "append"}
        /\ attempt' = [attempt EXCEPT ![w] = attempt'[w]]
        /\ attempt'[w] \in 0..MaxAttempts
        /\ pc'[w] # "idle" => attempt'[w] < MaxAttempts
    BY <1>2 DEF ReadTail, OperationRaises, AppendConflict, Return, TypeOK, AttemptsLeft, history
  <2>2. prior' = [prior EXCEPT ![w] = prior'[w]] /\ prior'[w] \in Hash
    <3>1. CASE ReadTail(w)
      <4>1. TailOf(Refreshed(StoreOf[w]), row[w]) \in Hash
        BY <1>0, UnreadIsTyped, TailOfIsTyped DEF TypeOK
      <4>2. QED
        BY <3>1, <4>1 DEF ReadTail, TypeOK
    <3>2. CASE OperationRaises(w) \/ AppendConflict(w)
      BY <1>0, <3>2 DEF OperationRaises, AppendConflict, Return, TypeOK
    <3>3. QED
      BY <1>2, <3>1, <3>2
  <2>3. \/ Refresh(StoreOf[w])
        \/ UNCHANGED <<st, tails, offset>>
    BY <1>2 DEF ReadTail, OperationRaises, AppendConflict
  <2>4. /\ st' \in [Stores -> {"down", "open", "closed", "broken"}]
        /\ offset' \in [Stores -> 0..Len(file)]
        /\ tails' \in [Stores -> [Keys -> Hash]]
    BY <1>0, <2>3, RefreshIsTyped DEF TypeOK
  <2>5. \A v \in Writers : pc'[v] \in {"write", "fsync"} <=> pc[v] \in {"write", "fsync"}
    BY <2>1 DEF TypeOK
  <2>6. TypeOK'
    <3>1. /\ pc' \in [Writers -> {"idle", "read", "append", "write", "fsync"}]
          /\ attempt' \in [Writers -> 0..MaxAttempts]
          /\ prior' \in [Writers -> Hash]
      <4>1. /\ pc \in [Writers -> {"idle", "read", "append", "write", "fsync"}]
            /\ attempt \in [Writers -> 0..MaxAttempts] /\ prior \in [Writers -> Hash]
        BY DEF TypeOK
      <4>2. QED
        BY <2>1, <2>2, <4>1
    <3>2. LockHeld
      BY TypeIsShapes
    <3>3. LockHeld'
      BY <2>1, <2>5, <3>2 DEF LockHeld, Writing
    <3>4. Shapes'
      BY <2>1, <2>4, <3>1, TypeIsShapes DEF Shapes, fileVars, history
    <3>5. QED
      BY <3>3, <3>4, TypeIsShapes
  <2>7. \A v \in Writers : Writing(v) =>
          st'[StoreOf[v]] = st[StoreOf[v]] /\ offset'[StoreOf[v]] = offset[StoreOf[v]]
    <3>1. Refresh(StoreOf[w]) => \A v \in Writers : ~ Writing(v)
      BY LockIsFree DEF Refresh
    <3>2. QED
      BY <2>3, <3>1
  <2>8. OneWrites'
    <3>1. \A v \in Writers : Writing(v)' <=> Writing(v)
      BY <2>5 DEF Writing
    <3>2. ASSUME NEW v \in Writers, Writing(v)
          PROVE  /\ st'[StoreOf[v]] = "open"
                 /\ pc'[v] = "write" <=> buf'[StoreOf[v]] # << >>
                 /\ Len(file') + Len(buf'[StoreOf[v]]) >= offset'[StoreOf[v]] + 2
      <4>1. pc'[v] = pc[v]
        BY <2>1, <3>2 DEF TypeOK, Writing
      <4>2. /\ st[StoreOf[v]] = "open"
            /\ pc[v] = "write" <=> buf[StoreOf[v]] # << >>
            /\ Len(file) + Len(buf[StoreOf[v]]) >= offset[StoreOf[v]] + 2
        BY <3>2 DEF OneWrites
      <4>3. /\ st'[StoreOf[v]] = st[StoreOf[v]] /\ offset'[StoreOf[v]] = offset[StoreOf[v]]
            /\ file' = file /\ buf' = buf
        BY <2>1, <2>7, <3>2 DEF fileVars
      <4>4. QED
        BY <4>1, <4>2, <4>3
    <3>3. QED
      BY <3>1, <3>2 DEF OneWrites
  <2>9. AttemptsLeft' /\ failedWrites' \in Nat
    <3>1. \A v \in Writers \ {w} : pc'[v] = pc[v] /\ attempt'[v] = attempt[v]
      BY <2>1 DEF TypeOK
    <3>2. AttemptsLeft'
      BY <2>1, <3>1 DEF AttemptsLeft
    <3>3. QED
      BY <2>1, <3>2 DEF history
  <2>10. QED
    BY <2>6, <2>8, <2>9
<1>3. QED
  BY <1>1, <1>2

\* An append takes the lock, moves its line chunk by chunk, and gives the lock
\* back whether it succeeds or not.
LEMMA AppendsKeepLocks ==
  ASSUME LocksHold, NEW w \in Writers,
         \/ AppendBegin(w) \/ WriteChunk(w) \/ AppendEnd(w)
         \/ WriteFails(w) \/ FsyncFails(w)
  PROVE  LocksHold'
<1> USE StoreAssumption DEF LocksHold
<1> DEFINE s == StoreOf[w]
           e == NewEntry(row[w], prior[w])
<1>0. /\ s \in Stores /\ Genesis \in Hash /\ e \in Entry
      /\ Len(file) \in Nat /\ buf[s] \in Seq(Chunk) /\ Len(buf[s]) \in Nat
  BY NewEntryType, LenProperties DEF Genesis, Hash, TypeOK
<1>1. CASE AppendBegin(w)
  <2>1. /\ pc[w] = "append" /\ flock' = s
        /\ Refresh(s) /\ Parses(Unread(s))
        /\ buf' = [buf EXCEPT ![s] = buf[s] \o Line(e)]
        /\ pc' = [pc EXCEPT ![w] = "write"]
        /\ UNCHANGED <<fileVars, row, prior, attempt, history>>
    BY <1>1 DEF AppendBegin
  <2>2. \A v \in Writers : ~ Writing(v)
    BY <2>1, LockIsFree DEF Refresh
  <2>3. /\ st' \in [Stores -> {"down", "open", "closed", "broken"}]
        /\ offset' \in [Stores -> 0..Len(file)]
        /\ tails' \in [Stores -> [Keys -> Hash]]
        /\ st'[s] = "open" /\ offset'[s] = Len(file)
    BY <1>0, <2>1, RefreshIsTyped
  <2>4. buf[s] \o Line(e) \in Seq(Chunk) /\ Len(buf[s] \o Line(e)) = Len(buf[s]) + 2
    <3> HIDE DEF e
    <3>1. QED
      BY <1>0, BufferFacts
  <2>5. buf' \in [Stores -> Seq(Chunk)] /\ buf'[s] = buf[s] \o Line(e)
    BY <1>0, <2>1, <2>4 DEF TypeOK
  <2>6. pc'[w] = "write" /\ \A v \in Writers \ {w} : pc'[v] = pc[v]
    BY <2>1 DEF TypeOK
  <2>7. TypeOK'
    <3>1. pc' \in [Writers -> {"idle", "read", "append", "write", "fsync"}]
      BY <2>1 DEF TypeOK
    <3>2. LockHeld'
      BY <1>0, <2>1, <2>2, <2>6 DEF LockHeld, Writing
    <3>3. Shapes'
      BY <1>0, <2>1, <2>3, <2>5, <3>1, TypeIsShapes DEF Shapes, fileVars, history
    <3>4. QED
      BY <3>2, <3>3, TypeIsShapes
  <2>8. buf'[s] # << >>
    <3> HIDE DEF s, e
    <3>1. Len(buf'[s]) # 0
      BY <1>0, <2>4, <2>5
    <3>2. QED
      BY <3>1
  <2>9. OneWrites'
    <3>1. \A v \in Writers : Writing(v)' <=> v = w
      BY <2>2, <2>6 DEF Writing
    <3>2. Len(file') + Len(buf'[s]) >= offset'[s] + 2
      BY <1>0, <2>1, <2>3, <2>4, <2>5 DEF fileVars
    <3>3. QED
      BY <2>3, <2>6, <2>8, <3>1, <3>2 DEF OneWrites
  <2>10. AttemptsLeft' /\ failedWrites' \in Nat
    BY <2>1 DEF AttemptsLeft, TypeOK, history
  <2>11. QED
    BY <2>7, <2>9, <2>10
<1>2. CASE WriteChunk(w)
  <2>1. /\ pc[w] = "write" /\ Writing(w)
        /\ file' = Append(file, Head(buf[s]))
        /\ buf' = [buf EXCEPT ![s] = Tail(buf[s])]
        /\ pc' = [pc EXCEPT ![w] = IF Len(buf[s]) = 1 THEN "fsync" ELSE "write"]
        /\ UNCHANGED <<synced, flock, st, offset, tails, row, prior, attempt, history>>
    BY <1>2 DEF WriteChunk, Writing
  <2>2. buf[s] # << >> /\ Len(file) + Len(buf[s]) >= offset[s] + 2 /\ st[s] = "open"
    BY <2>1 DEF OneWrites
  <2>3. /\ Head(buf[s]) \in Chunk /\ Tail(buf[s]) \in Seq(Chunk)
        /\ Len(Tail(buf[s])) = Len(buf[s]) - 1 /\ Len(buf[s]) >= 1
    BY <1>0, <2>2, HeadTailProperties, EmptySeq
  <2>4. /\ file' \in Seq(Chunk) /\ Len(file') = Len(file) + 1
        /\ buf' \in [Stores -> Seq(Chunk)] /\ buf'[s] = Tail(buf[s])
    BY <1>0, <2>1, <2>3, AppendProperties DEF TypeOK
  <2>5. /\ pc'[w] = (IF Len(buf[s]) = 1 THEN "fsync" ELSE "write")
        /\ \A v \in Writers \ {w} : pc'[v] = pc[v]
        /\ pc' \in [Writers -> {"idle", "read", "append", "write", "fsync"}]
    BY <2>1 DEF TypeOK
  <2>6. \A v \in Writers : Writing(v)' <=> Writing(v)
    BY <2>1, <2>5 DEF Writing
  <2>7. TypeOK'
    <3>1. synced' \in 0..Len(file') /\ offset' \in [Stores -> 0..Len(file')]
      BY <1>0, <2>1, <2>4 DEF TypeOK
    <3>2. LockHeld
      BY TypeIsShapes
    <3>3. LockHeld'
      BY <2>1, <2>6, <3>2 DEF LockHeld
    <3>4. Shapes'
      BY <2>1, <2>4, <2>5, <3>1, TypeIsShapes DEF Shapes, history
    <3>5. QED
      BY <3>3, <3>4, TypeIsShapes
  <2>8. \A v \in Writers : Writing(v) => v = w
    BY <2>1 DEF OneWrites
  <2>9. pc'[w] = "write" <=> buf'[s] # << >>
    <3>1. buf'[s] # << >> <=> Len(buf[s]) - 1 # 0
      BY <2>3, <2>4, BufferFacts
    <3>2. QED
      BY <1>0, <2>5, <3>1
  <2>10. Len(file') + Len(buf'[s]) >= offset'[s] + 2
    BY <1>0, <2>1, <2>2, <2>3, <2>4 DEF TypeOK
  <2>11. OneWrites'
    BY <2>1, <2>2, <2>6, <2>8, <2>9, <2>10 DEF OneWrites
  <2>12. AttemptsLeft' /\ failedWrites' \in Nat
    BY <2>1, <2>5 DEF AttemptsLeft, history
  <2>13. QED
    BY <2>7, <2>11, <2>12
<1>3. CASE AppendEnd(w) \/ WriteFails(w) \/ FsyncFails(w)
  <2>1. /\ Writing(w) /\ flock' = NoStore /\ Return(w)
        /\ UNCHANGED <<file, st, buf, calls>>
        /\ failedWrites' \in Nat
    BY <1>3 DEF AppendEnd, WriteFails, FsyncFails, Writing, storeVars, fileVars
  <2>2. \A v \in Writers : Writing(v) => v = w
    BY <2>1 DEF OneWrites
  <2>3. /\ pc' = [pc EXCEPT ![w] = "idle"] /\ prior' = [prior EXCEPT ![w] = Genesis]
        /\ UNCHANGED <<row, attempt>>
    BY <2>1 DEF Return
  <2>4. \A v \in Writers : ~ Writing(v)' /\ (pc'[v] = pc[v] \/ pc'[v] = "idle")
    BY <2>2, <2>3 DEF TypeOK, Writing
  <2>5. /\ synced' \in 0..Len(file) /\ acked' \subseteq Entry
        /\ offset' \in [Stores -> 0..Len(file)]
        /\ tails' \in [Stores -> [Keys -> Hash]]
    <3>1. CASE AppendEnd(w)
      <4>1. /\ pc[w] = "fsync" /\ synced' = Len(file) /\ acked' = acked \union {e}
            /\ offset' = [offset EXCEPT ![s] = offset[s] + Len(Line(e))]
            /\ tails' = [tails EXCEPT ![s] = Fold(tails[s], <<e>>)]
        BY <3>1 DEF AppendEnd
      <4>2. buf[s] = << >> /\ Len(file) + Len(buf[s]) >= offset[s] + 2
        BY <2>1, <4>1 DEF OneWrites
      <4>3. offset[s] + Len(Line(e)) \in 0..Len(file)
        <5>1. Len(Line(e)) = 2 /\ Len(buf[s]) = 0
          BY <4>2 DEF Line
        <5>2. offset[s] \in Nat
          BY <1>0 DEF TypeOK
        <5>3. QED
          BY <1>0, <4>2, <5>1, <5>2
      <4>4. Fold(tails[s], <<e>>) \in [Keys -> Hash]
        <5>1. <<e>> \in Seq(Entry) /\ tails[s] \in [Keys -> Hash]
          BY <1>0 DEF TypeOK
        <5> DEFINE es == <<e>>
        <5>2. es \in Seq(Entry)
          BY <5>1
        <5> HIDE DEF es
        <5>3. Fold(tails[s], es) \in [Keys -> Hash]
          BY <5>1, <5>2, FoldIsTyped
        <5>4. QED
          BY <5>3 DEF es
      <4> HIDE DEF s, e
      <4>5. offset' \in [Stores -> 0..Len(file)]
        BY <1>0, <4>1, <4>3 DEF TypeOK
      <4>6. tails' \in [Stores -> [Keys -> Hash]]
        BY <1>0, <4>1, <4>4 DEF TypeOK
      <4>7. synced' \in 0..Len(file)
        BY <1>0, <4>1
      <4>8. acked' \subseteq Entry
        BY <1>0, <4>1 DEF TypeOK
      <4>9. QED
        BY <4>5, <4>6, <4>7, <4>8
    <3>2. CASE WriteFails(w) \/ FsyncFails(w)
      BY <3>2 DEF WriteFails, FsyncFails, TypeOK, fileVars, storeVars
    <3>3. QED
      BY <1>3, <3>1, <3>2
  <2>6. TypeOK'
    BY <1>0, <2>1, <2>3, <2>4, <2>5 DEF TypeOK, Writing
  <2>7. OneWrites' /\ AttemptsLeft'
    BY <2>3, <2>4 DEF OneWrites, AttemptsLeft
  <2>8. QED
    BY <2>1, <2>6, <2>7
<1>4. QED
  BY <1>1, <1>2, <1>3

\* Closing and opening stores, and their deaths, leave nobody inside append who
\* has lost its lock.
LEMMA StoresKeepLocks ==
  ASSUME LocksHold,
         \/ \E s \in Stores : Close(s) \/ CloseFails(s) \/ Kill(s) \/ Open(s)
         \/ PowerLoss
  PROVE  LocksHold'
<1> USE StoreAssumption DEF LocksHold
<1>0. Len(file) \in Nat /\ Genesis \in Hash /\ TypeOK /\ Shapes /\ LockHeld
  <2>1. TypeOK /\ Shapes /\ LockHeld
    BY TypeIsShapes
  <2>2. Len(file) \in Nat
    BY <2>1, LenProperties DEF Shapes
  <2>3. Genesis \in Hash
    BY DEF Genesis, Hash
  <2>4. QED
    BY <2>1, <2>2, <2>3
<1>1. ASSUME NEW s \in Stores, Close(s) \/ CloseFails(s)
      PROVE  LocksHold'
  <2>1. /\ st[s] = "open" /\ flock # s /\ UNCHANGED <<synced, flock, offset, tails, callVars, acked>>
        /\ buf' = [buf EXCEPT ![s] = << >>]
        /\ st' \in [Stores -> {"down", "open", "closed", "broken"}]
        /\ \A u \in Stores \ {s} : st'[u] = st[u] /\ buf'[u] = buf[u]
        /\ failedWrites' \in Nat
    <3>1. /\ st[s] = "open" /\ flock # s /\ UNCHANGED <<synced, flock, offset, tails, callVars, acked>>
          /\ buf' = [buf EXCEPT ![s] = << >>]
          /\ st' = [st EXCEPT ![s] = st'[s]] /\ st'[s] \in {"closed", "broken"}
          /\ failedWrites' = failedWrites \/ failedWrites' = failedWrites + 1
      BY <1>0, <1>1 DEF Close, CloseFails, history, callVars, fileVars, Shapes
    <3>2. /\ st \in [Stores -> {"down", "open", "closed", "broken"}]
          /\ DOMAIN buf = Stores
      BY <1>0 DEF Shapes
    <3>3. QED
      BY <3>1, <3>2
  <2>2. /\ file' \in Seq(Chunk) /\ Len(file') \in Nat /\ Len(file) <= Len(file')
    <3>1. CASE Close(s)
      <4>1. file \in Seq(Chunk) /\ buf[s] \in Seq(Chunk) /\ file' = file \o buf[s]
        BY <3>1 DEF Close, TypeOK
      <4>2. file' \in Seq(Chunk) /\ Len(file') = Len(file) + Len(buf[s]) /\ Len(buf[s]) \in Nat
        BY <4>1, ConcatProperties, LenProperties
      <4>3. QED
        BY <1>0, <4>2
    <3>2. CASE CloseFails(s)
      BY <1>0, <3>2 DEF CloseFails, fileVars, TypeOK
    <3>3. QED
      BY <1>1, <3>1, <3>2
  <2>3. /\ buf' \in [Stores -> Seq(Chunk)]
        /\ synced' \in 0..Len(file') /\ offset' \in [Stores -> 0..Len(file')]
    BY <1>0, <2>1, <2>2 DEF Shapes
  <2>4. \A v \in Writers : (Writing(v)' <=> Writing(v)) /\ (Writing(v) => StoreOf[v] # s)
    BY <2>1, OthersAreOut DEF Writing, callVars
  <2>5. Shapes'
    BY <1>0, <2>1, <2>2, <2>3 DEF Shapes, callVars
  <2>6. LockHeld'
    BY <1>0, <2>1, <2>4 DEF LockHeld
  <2>7. OneWrites'
    <3>1. ASSUME NEW v \in Writers, Writing(v)
          PROVE  /\ st'[StoreOf[v]] = "open"
                 /\ pc'[v] = "write" <=> buf'[StoreOf[v]] # << >>
                 /\ Len(file') + Len(buf'[StoreOf[v]]) >= offset'[StoreOf[v]] + 2
      <4>1. StoreOf[v] \in Stores \ {s} /\ buf[StoreOf[v]] \in Seq(Chunk)
        BY <1>0, <2>4, <3>1 DEF Shapes
      <4>2. Len(buf[StoreOf[v]]) \in Nat /\ offset[StoreOf[v]] \in Nat
        BY <1>0, <4>1, LenProperties DEF Shapes
      <4>3. QED
        BY <1>0, <2>1, <2>2, <3>1, <4>1, <4>2 DEF OneWrites, callVars
    <3>2. QED
      BY <2>4, <3>1 DEF OneWrites
  <2>8. AttemptsLeft'
    BY <2>1 DEF AttemptsLeft, callVars
  <2>9. QED
    BY <2>1, <2>5, <2>6, <2>7, <2>8, TypeIsShapes
<1>2. ASSUME NEW D \in SUBSET Stores, Vanish(D), UNCHANGED synced,
             \/ file' = file
             \/ D = Stores /\ \E n \in synced..Len(file) : file' = SubSeq(file, 1, n)
      PROVE  LocksHold'
  <2>1. /\ st' = [s \in Stores |-> IF s \in D THEN "down" ELSE st[s]]
        /\ buf' = [s \in Stores |-> IF s \in D THEN << >> ELSE buf[s]]
        /\ offset' = [s \in Stores |-> IF s \in D THEN 0 ELSE offset[s]]
        /\ tails' = [s \in Stores |-> IF s \in D THEN [k \in Keys |-> Genesis] ELSE tails[s]]
        /\ flock' = IF flock \in D THEN NoStore ELSE flock
        /\ pc' = [w \in Writers |-> IF StoreOf[w] \in D THEN "idle" ELSE pc[w]]
        /\ prior' = [w \in Writers |-> IF StoreOf[w] \in D THEN Genesis ELSE prior[w]]
        /\ UNCHANGED <<row, attempt, failedWrites, acked>>
    BY <1>2 DEF Vanish
  <2>2. /\ file' \in Seq(Chunk) /\ Len(file') \in Nat /\ synced <= Len(file')
        /\ file' = file \/ D = Stores
    <3>1. CASE file' = file
      BY <1>0, <3>1 DEF Shapes
    <3>2. ASSUME NEW n \in synced..Len(file), file' = SubSeq(file, 1, n)
          PROVE  file' \in Seq(Chunk) /\ Len(file') = n /\ n \in Nat
      <4>1. file \in Seq(Chunk) /\ synced \in Nat /\ n \in 0..Len(file)
        BY <1>0 DEF Shapes
      <4>2. \A i \in 1..n : file[i] \in Chunk
        BY <1>0, <4>1
      <4>3. QED
        BY <1>0, <3>2, <4>1, <4>2
    <3>3. synced \in Nat
      BY <1>0 DEF Shapes
    <3>4. QED
      BY <1>2, <3>1, <3>2, <3>3
  <2>3. Shapes'
    <3>1. synced' \in 0..Len(file')
      BY <1>0, <1>2, <2>2 DEF Shapes
    <3>2. offset' \in [Stores -> 0..Len(file')]
      BY <1>0, <2>1, <2>2 DEF Shapes
    <3>3. /\ tails' \in [Stores -> [Keys -> Hash]] /\ buf' \in [Stores -> Seq(Chunk)]
          /\ st' \in [Stores -> {"down", "open", "closed", "broken"}]
      BY <1>0, <2>1 DEF Shapes
    <3>4. /\ pc' \in [Writers -> {"idle", "read", "append", "write", "fsync"}]
          /\ prior' \in [Writers -> Hash] /\ flock' \in Stores \union {NoStore}
      BY <1>0, <2>1 DEF Shapes
    <3>5. QED
      BY <1>0, <2>1, <2>2, <3>1, <3>2, <3>3, <3>4 DEF Shapes
  <2>4. \A v \in Writers : Writing(v)' <=> Writing(v) /\ StoreOf[v] \notin D
    BY <2>1 DEF Writing
  <2>5. LockHeld'
    BY <1>0, <2>1, <2>4 DEF LockHeld
  <2>6. OneWrites'
    BY <2>1, <2>2, <2>4 DEF OneWrites
  <2>7. AttemptsLeft'
    BY <2>1 DEF AttemptsLeft
  <2>8. QED
    BY <2>1, <2>3, <2>5, <2>6, <2>7, TypeIsShapes
<1>3. ASSUME NEW s \in Stores, Open(s)
      PROVE  LocksHold'
  <2>1. /\ flock = NoStore /\ st' = [st EXCEPT ![s] = "open"]
        /\ offset' = [offset EXCEPT ![s] = Len(file)]
        /\ tails' = [tails EXCEPT ![s] = Fold(tails[s], EntriesIn(file))]
        /\ UNCHANGED <<fileVars, flock, buf, callVars, history>>
    BY <1>3 DEF Open
  <2>2. Fold(tails[s], EntriesIn(file)) \in [Keys -> Hash]
    BY <1>0, EntriesAreTyped, FoldIsTyped DEF Shapes
  <2>3. Shapes'
    BY <1>0, <2>1, <2>2 DEF Shapes, fileVars, callVars, history
  <2>4. \A v \in Writers : ~ Writing(v) /\ ~ Writing(v)'
    BY <1>0, <2>1, LockIsFree DEF Writing, callVars
  <2>5. LockHeld' /\ OneWrites' /\ AttemptsLeft'
    BY <2>1, <2>4 DEF LockHeld, OneWrites, AttemptsLeft, callVars
  <2>6. QED
    BY <2>1, <2>3, <2>5, TypeIsShapes DEF history
<1>4. ASSUME NEW s \in Stores, Kill(s)
      PROVE  LocksHold'
  BY <1>2, <1>4 DEF Kill, fileVars
<1>5. CASE PowerLoss
  BY <1>2, <1>5 DEF PowerLoss
<1>6. QED
  BY <1>1, <1>3, <1>4, <1>5

\* The locks exclude, whatever fails and dies.
LEMMA LocksStep == LocksHold /\ [Next]_vars => LocksHold'
<1>1. CASE UNCHANGED vars
  BY <1>1 DEF vars, fileVars, storeVars, callVars, history, LocksHold, TypeOK, OneWrites,
       AttemptsLeft, Writing
<1>2. QED
  BY <1>1, OperationsLeaveLocks, AppendsKeepLocks, StoresKeepLocks DEF Next, Step

\* Nobody holds a lock at the start.
LEMMA InitLocks == Init => LocksHold
<1> SUFFICES ASSUME Init PROVE LocksHold
  OBVIOUS
<1> USE StoreAssumption DEF Init
<1>1. << >> \in Seq(Chunk) /\ Genesis \in Hash /\ Len(<< >>) = 0
  BY DEF Genesis, Hash
<1>2. LockHeld /\ OneWrites /\ AttemptsLeft
  BY DEF LockHeld, OneWrites, AttemptsLeft, Writing
<1>3. AnyRow \in Rows
  BY DEF AnyRow
<1>4. Shapes
  BY <1>1, <1>3 DEF Shapes
<1>5. QED
  BY <1>2, <1>4, TypeIsShapes DEF LocksHold

\* Whatever writers do, writes fail and processes die, the lock is held by the
\* store of the thread inside append, and offsets stay within the file.
THEOREM TypeCorrect == Spec => []TypeOK
<1>1. Spec => []LocksHold
  BY InitLocks, LocksStep, PTL DEF Spec
<1>2. QED
  BY <1>1, PTL DEF LocksHold

------------------------------------------------------------------------------
\* The first n lines of a file of whole lines.
Lines(f, n) == [i \in 1..n |-> f[2 * i].entry]

\* The file is heads followed by their rests, but for a head at its end.
Paired(f) ==
  \A n \in 1..Len(f) :
    /\ 2 * n - 1 <= Len(f) => f[2 * n - 1].part = "head"
    /\ 2 * n <= Len(f) => f[2 * n] = [entry |-> f[2 * n - 1].entry, part |-> "rest"]

\* A cache holds the tails of the first n lines.
TailsAre(cache, f, n) == \A k \in Keys : cache[k] = TailHash(Lines(f, n), k[1], k[2])

\* Entries are those of the lines after the first m.
FollowLines(es, f, m) == \A i \in 1..Len(es) : es[i] = f[2 * (m + i)].entry

\* Store s has read n lines, and its caches are the tails of them.
HasRead(s, n) == offset[s] = 2 * n /\ TailsAre(tails[s], file, n)

CachesHold == \A s \in Stores : \E n \in Nat : HasRead(s, n)

\* Whole lines are on disk, those of the returned entries among them.
ReturnedAreSynced ==
  \E n \in Nat : synced = 2 * n /\ \A e \in acked : \E i \in 1..n : file[2 * i].entry = e

\* Only a store inside append has chunks in its buffer.
BufferIsLocked ==
  \A s \in Stores : buf[s] # << >> => \E w \in Writers : pc[w] = "write" /\ StoreOf[w] = s

\* The line under way extends the tail its store knows; what is not in the
\* file after the lines the store has read is in the buffer.
Halfway(w) ==
  LET s == StoreOf[w]
      l == Line(NewEntry(row[w], prior[w]))
  IN  /\ prior[w] = TailOf(tails[s], row[w])
      /\ \/ Len(file) = offset[s] /\ buf[s] = l
         \/ /\ Len(file) = offset[s] + 1 /\ buf[s] = <<l[2]>>
            /\ file[offset[s] + 1] = l[1]
         \/ /\ Len(file) = offset[s] + 2 /\ buf[s] = << >>
            /\ file[offset[s] + 1] = l[1] /\ file[offset[s] + 2] = l[2]

LineUnderWay == \A w \in Writers : Writing(w) => Halfway(w)

\* What holds until a write has failed.
Clean == Paired(file) /\ CachesHold /\ ReturnedAreSynced /\ BufferIsLocked /\ LineUnderWay

\* A process that is down has read nothing.
DownHaveRead == \A s \in Stores : st[s] = "down" => offset[s] = 0

IInv == LocksHold /\ DownHaveRead /\ (failedWrites = 0 => Clean)

------------------------------------------------------------------------------
\* Every length is that of a number of lines, or of one chunk more.
LEMMA Halves ==
  ASSUME NEW l \in Nat
  PROVE  \E n \in Nat : l = 2 * n \/ l = 2 * n + 1
<1>1. l \div 2 \in Nat /\ (l = 2 * (l \div 2) \/ l = 2 * (l \div 2) + 1)
  OBVIOUS
<1>2. QED
  BY <1>1

\* All whole lines of a paired file decode; it parses if that is all there is,
\* and is torn otherwise.
LEMMA PairedDecodes ==
  ASSUME NEW f \in Seq(Chunk), Paired(f), NEW n \in Nat, Len(f) = 2 * n \/ Len(f) = 2 * n + 1
  PROVE  /\ EntriesIn(f) = Lines(f, n) /\ Len(EntriesIn(f)) = n
         /\ Parses(f) <=> Len(f) = 2 * n
         /\ Torn(f) <=> Len(f) = 2 * n + 1
<1> DEFINE Whole(m) == \A i \in 1..m : SubSeq(f, 2 * i - 1, 2 * i) = Line(f[2 * i].entry)
           half == Len(f) \div 2
           S == {m \in 0..half : Whole(m)}
<1>1. half = n /\ Len(f) \in Nat
  OBVIOUS
<1>2. ASSUME NEW i \in 1..n
      PROVE  SubSeq(f, 2 * i - 1, 2 * i) = Line(f[2 * i].entry)
  <2>1. /\ i \in 1..Len(f) /\ 2 * i - 1 \in 1..Len(f) /\ 2 * i \in 1..Len(f)
        /\ 2 * i - 1 <= Len(f) /\ 2 * i <= Len(f)
    BY <1>1
  <2>2. /\ f[2 * i - 1].part = "head"
        /\ f[2 * i] = [entry |-> f[2 * i - 1].entry, part |-> "rest"]
    BY <2>1 DEF Paired
  <2>3. f[2 * i - 1] \in Chunk /\ f[2 * i] \in Chunk
    BY <2>1
  <2>4. f[2 * i - 1] = [entry |-> f[2 * i].entry, part |-> "head"]
    BY <2>2, <2>3 DEF Chunk
  <2>5. f[2 * i] = [entry |-> f[2 * i].entry, part |-> "rest"]
    BY <2>2
  <2> DEFINE a == 2 * i - 1
  <2>6. a \in Nat /\ 2 * i = a + 1 /\ a \in 1..Len(f) /\ a + 1 \in 1..Len(f)
    BY <2>1
  <2> HIDE DEF a
  <2>7. SubSeq(f, a, a + 1) = <<f[a], f[a + 1]>>
    <3> DEFINE q == SubSeq(f, a, a + 1)
    <3>1. /\ q \in Seq(Chunk) /\ Len(q) = 2
          /\ q[1] = f[a] /\ q[2] = f[a + 1]
      BY <1>1, <2>6
    <3>2. <<f[a], f[a + 1]>> \in Seq(Chunk) /\ Len(<<f[a], f[a + 1]>>) = 2
      BY <2>6
    <3> HIDE DEF q
    <3>3. \A j \in 1..2 : q[j] = <<f[a], f[a + 1]>>[j]
      BY <3>1
    <3>4. q = <<f[a], f[a + 1]>>
      BY <3>1, <3>2, <3>3, SeqEqual
    <3>5. QED
      BY <3>4 DEF q
  <2>8. SubSeq(f, 2 * i - 1, 2 * i) = <<f[2 * i - 1], f[2 * i]>>
    BY <2>6, <2>7 DEF a
  <2>9. QED
    BY <2>4, <2>5, <2>8 DEF Line
<1>3. n \in S /\ S \in SUBSET (0..n)
  BY <1>1, <1>2
<1>4. Max(S) \in S /\ n <= Max(S)
  BY <1>3, MaxOfNaturals
<1>5. Max(S) = n
  BY <1>3, <1>4
<1>6. WholeLines(f) = n
  BY <1>5 DEF WholeLines
<1>7. EntriesIn(f) = Lines(f, n)
  BY <1>6 DEF EntriesIn, Lines
<1>8. Len(EntriesIn(f)) = n
  BY <1>6, EntriesAreTyped
<1>9. Parses(f) <=> Len(f) = 2 * n
  BY <1>6 DEF Parses
<1>10. Torn(f) <=> Len(f) = 2 * n + 1
  <2>1. CASE Len(f) = 2 * n + 1
    <3>1. PICK k \in Nat : k = n + 1
      OBVIOUS
    <3>2. k \in 1..Len(f) /\ 2 * k - 1 = Len(f) /\ 2 * k - 1 <= Len(f)
      BY <2>1, <3>1
    <3>3. f[Len(f)].part = "head" /\ f # << >>
      <4>1. f[2 * k - 1].part = "head"
        BY <3>2 DEF Paired
      <4>2. QED
        BY <2>1, <3>2, <4>1
    <3>4. QED
      BY <2>1, <3>3 DEF Torn
  <2>2. CASE Len(f) = 2 * n /\ n # 0
    <3>1. n \in 1..Len(f) /\ 2 * n <= Len(f)
      BY <2>2
    <3>2. f[2 * n].part = "rest"
      <4>1. f[2 * n] = [entry |-> f[2 * n - 1].entry, part |-> "rest"]
        BY <3>1 DEF Paired
      <4>2. QED
        BY <4>1
    <3>3. QED
      BY <2>2, <3>2 DEF Torn
  <2>3. CASE Len(f) = 2 * n /\ n = 0
    BY <2>3, EmptySeq DEF Torn
  <2>4. QED
    BY <2>1, <2>2, <2>3
<1>11. QED
  BY <1>7, <1>8, <1>9, <1>10

\* What follows whole lines of a paired file is paired.
LEMMA PairedFrom ==
  ASSUME NEW f \in Seq(Chunk), Paired(f), NEW m \in Nat, 2 * m <= Len(f),
         NEW q \in Seq(Chunk), Len(q) = Len(f) - 2 * m,
         \A i \in 1..Len(q) : q[i] = f[2 * m + i]
  PROVE  Paired(q)
<1>0. Len(f) \in Nat /\ Len(q) \in Nat
  BY LenProperties
<1>1. ASSUME NEW n \in 1..Len(q)
      PROVE  /\ 2 * n - 1 <= Len(q) => q[2 * n - 1].part = "head"
             /\ 2 * n <= Len(q) => q[2 * n] = [entry |-> q[2 * n - 1].entry, part |-> "rest"]
  <2> DEFINE k == m + n
  <2>1. /\ k \in 1..Len(f) /\ 2 * k - 1 = 2 * m + (2 * n - 1) /\ 2 * k = 2 * m + 2 * n
        /\ 2 * n - 1 <= Len(q) => 2 * n - 1 \in 1..Len(q) /\ 2 * k - 1 <= Len(f)
        /\ 2 * n <= Len(q) => 2 * n \in 1..Len(q) /\ 2 * n - 1 \in 1..Len(q) /\ 2 * k <= Len(f)
    BY <1>0
  <2>2. /\ 2 * k - 1 <= Len(f) => f[2 * k - 1].part = "head"
        /\ 2 * k <= Len(f) => f[2 * k] = [entry |-> f[2 * k - 1].entry, part |-> "rest"]
    BY <2>1 DEF Paired
  <2> HIDE DEF k
  <2>3. /\ 2 * n - 1 <= Len(q) => q[2 * n - 1] = f[2 * k - 1]
        /\ 2 * n <= Len(q) => q[2 * n - 1] = f[2 * k - 1] /\ q[2 * n] = f[2 * k]
    BY <2>1
  <2>4. QED
    BY <2>1, <2>2, <2>3
<1>2. QED
  BY <1>1 DEF Paired

\* So is the start of a paired file.
LEMMA PairedTo ==
  ASSUME NEW f \in Seq(Chunk), Paired(f), NEW n \in Nat, n <= Len(f),
         NEW q, Len(q) = n, \A i \in 1..n : q[i] = f[i]
  PROVE  Paired(q)
<1> SUFFICES ASSUME NEW i \in 1..n
             PROVE  /\ 2 * i - 1 <= n => q[2 * i - 1].part = "head"
                    /\ 2 * i <= n => q[2 * i] = [entry |-> q[2 * i - 1].entry, part |-> "rest"]
  BY DEF Paired
<1>1. /\ i \in 1..Len(f)
      /\ 2 * i - 1 <= n => 2 * i - 1 \in 1..n /\ 2 * i - 1 <= Len(f)
      /\ 2 * i <= n => 2 * i \in 1..n /\ 2 * i - 1 \in 1..n /\ 2 * i <= Len(f)
  BY LenProperties
<1>2. /\ 2 * i - 1 <= Len(f) => f[2 * i - 1].part = "head"
      /\ 2 * i <= Len(f) => f[2 * i] = [entry |-> f[2 * i - 1].entry, part |-> "rest"]
  BY <1>1 DEF Paired
<1>3. QED
  BY <1>1, <1>2

\* Lines are entries, and depend on the file only so far.
LEMMA LinesFacts ==
  ASSUME NEW f \in Seq(Chunk), NEW n \in Nat, 2 * n <= Len(f)
  PROVE  /\ Lines(f, n) \in Seq(Entry) /\ Len(Lines(f, n)) = n
         /\ \A i \in 1..n : Lines(f, n)[i] = f[2 * i].entry
<1>1. ASSUME NEW i \in 1..n
      PROVE  f[2 * i].entry \in Entry
  <2>1. f[2 * i] \in Chunk
    OBVIOUS
  <2>2. QED
    BY <2>1 DEF Chunk
<1>2. QED
  BY <1>1 DEF Lines

\* The same lines at the start of two files.
LEMMA LinesAgree ==
  ASSUME NEW f, NEW g, NEW n \in Nat, \A i \in 1..2 * n : f[i] = g[i]
  PROVE  Lines(f, n) = Lines(g, n)
<1>1. \A i \in 1..n : f[2 * i] = g[2 * i]
  OBVIOUS
<1>2. QED
  BY <1>1 DEF Lines

\* The first n lines of a paired file are what its first 2 * n chunks decode to.
LEMMA StartDecodes ==
  ASSUME NEW f \in Seq(Chunk), Paired(f), NEW n \in Nat, 2 * n <= Len(f)
  PROVE  /\ EntriesIn(SubSeq(f, 1, 2 * n)) = Lines(f, n)
         /\ Len(EntriesIn(SubSeq(f, 1, 2 * n))) = n
<1> DEFINE q == SubSeq(f, 1, 2 * n)
<1>1. /\ q \in Seq(Chunk) /\ Len(q) = 2 * n /\ 2 * n \in Nat
      /\ \A i \in 1..2 * n : q[i] = f[i]
  <2>1. 2 * n \in 0..Len(f) /\ Len(f) \in Nat
    BY LenProperties
  <2>2. PICK k \in Nat : k = 2 * n
    BY <2>1
  <2>3. \A i \in 1..k : f[i] \in Chunk
    BY <2>1, <2>2
  <2>4. SubSeq(f, 1, k) \in Seq(Chunk) /\ Len(SubSeq(f, 1, k)) = k
        /\ \A i \in 1..k : SubSeq(f, 1, k)[i] = f[i]
    BY <2>1, <2>2, <2>3
  <2>5. QED
    BY <2>1, <2>2, <2>4
<1> HIDE DEF q
<1>2. Paired(q)
  BY <1>1, PairedTo
<1>3. EntriesIn(q) = Lines(q, n) /\ Len(EntriesIn(q)) = n
  BY <1>1, <1>2, PairedDecodes
<1>4. Lines(q, n) = Lines(f, n)
  BY <1>1, LinesAgree
<1>5. QED
  BY <1>3, <1>4 DEF q

\* Folding lines m + 1 to n into the tails of the first m gives those of the
\* first n.
LEMMA FoldReads ==
  ASSUME NEW f \in Seq(Chunk), NEW m \in Nat, NEW n \in Nat, m <= n, 2 * n <= Len(f),
         NEW cache \in [Keys -> Hash],
         TailsAre(cache, f, m), NEW es \in Seq(Entry), Len(es) = n - m, FollowLines(es, f, m)
  PROVE  TailsAre(Fold(cache, es), f, n)
<1> SUFFICES ASSUME NEW k \in Keys
             PROVE  Fold(cache, es)[k] = TailHash(Lines(f, n), k[1], k[2])
  BY DEF TailsAre
<1>0. /\ cache[k] = TailHash(Lines(f, m), k[1], k[2])
      /\ \A i \in 1..Len(es) : es[i] = f[2 * (m + i)].entry
  BY DEF TailsAre, FollowLines
<1> DEFINE log == Lines(f, n)
           old == Lines(f, m)
           S == Indices(es, Len(es), k[1], k[2])
           All == Indices(log, n, k[1], k[2])
           Old == Indices(old, m, k[1], k[2])
<1>1. /\ Len(f) \in Nat /\ Len(es) \in Nat
      /\ Len(log) = n /\ Len(old) = m
      /\ \A i \in 1..m : log[i] = old[i]
      /\ \A i \in 1..Len(es) : m + i \in 1..n /\ log[m + i] = es[i]
  <2>1. Len(f) \in Nat /\ Len(es) \in Nat /\ 2 * m <= Len(f) /\ n - m \in Nat
    BY LenProperties
  <2>2. /\ Len(log) = n /\ \A i \in 1..n : log[i] = f[2 * i].entry
        /\ Len(old) = m /\ \A i \in 1..m : old[i] = f[2 * i].entry
    BY <2>1, LinesFacts
  <2>3. \A i \in 1..Len(es) : m + i \in 1..n
    BY <2>1
  <2>4. \A i \in 1..m : i \in 1..n
    BY <2>1
  <2> HIDE DEF log, old
  <2>5. QED
    BY <1>0, <2>1, <2>2, <2>3, <2>4
<1>2. /\ Fold(cache, es)[k] = IF S = {} THEN cache[k] ELSE es[Latest(S)].hash
      /\ TailHash(log, k[1], k[2]) = IF All = {} THEN Genesis ELSE log[Latest(All)].hash
      /\ cache[k] = IF Old = {} THEN Genesis ELSE old[Latest(Old)].hash
  BY <1>0, <1>1 DEF Fold, TailHash, TailAt
<1>3. /\ \A i \in 1..m : i \in All <=> i \in Old
      /\ \A i \in 1..Len(es) : m + i \in All <=> i \in S
  <2>1. \A i \in 1..m : i \in 1..n /\ log[i] = old[i]
    BY <1>1
  <2>2. \A i \in 1..Len(es) : m + i \in 1..n /\ log[m + i] = es[i]
    BY <1>1
  <2> HIDE DEF log, old
  <2>3. \A i \in 1..m : i \in All <=> i \in Old
    BY <2>1 DEF Indices, InSegment
  <2>4. \A i \in 1..Len(es) : m + i \in All <=> i \in S
    BY <2>2 DEF Indices, InSegment
  <2>5. QED
    BY <2>3, <2>4
<1>4. /\ S \in SUBSET (1..Len(es)) /\ All \in SUBSET (1..n) /\ Old \in SUBSET (1..m)
  BY DEF Indices
<1> HIDE DEF S, All, Old, log, old
<1>5. CASE S = {}
  <2>1. All = Old
    <3>1. ASSUME NEW i \in All, i \notin 1..m
          PROVE  FALSE
      <4>1. i - m \in 1..Len(es) /\ m + (i - m) = i
        BY <1>1, <1>4, <3>1
      <4>2. i - m \in S
        BY <1>3, <4>1
      <4>3. QED
        BY <1>5, <4>2
    <3>2. QED
      BY <1>3, <1>4, <3>1
  <2>2. CASE Old = {}
    BY <1>2, <1>5, <2>1, <2>2 DEF log
  <2>3. CASE Old # {}
    <3>1. Latest(Old) \in 1..m
      BY <1>4, <2>3, LatestIsGreatest
    <3>2. QED
      BY <1>1, <1>2, <1>5, <2>1, <2>3, <3>1 DEF log
  <2>4. QED
    BY <2>2, <2>3
<1>6. CASE S # {}
  <2>1. Latest(S) \in S /\ \A j \in S : j <= Latest(S)
    BY <1>1, <1>4, <1>6, LatestIsGreatest
  <2>2. m + Latest(S) \in All /\ Latest(S) \in 1..Len(es)
    BY <1>3, <1>4, <2>1
  <2>3. Latest(All) \in All /\ \A j \in All : j <= Latest(All)
    BY <1>4, <2>2, LatestIsGreatest
  <2>4. Latest(All) - m \in 1..Len(es) /\ m + (Latest(All) - m) = Latest(All)
    <3>1. Latest(All) \in 1..n /\ m + Latest(S) <= Latest(All)
      BY <1>4, <2>2, <2>3
    <3>2. QED
      BY <1>1, <2>2, <3>1
  <2>5. Latest(All) - m \in S
    BY <1>3, <2>3, <2>4
  <2>6. Latest(All) = m + Latest(S)
    <3>1. Latest(All) \in 1..n /\ m + Latest(S) <= Latest(All)
      BY <1>4, <2>2, <2>3
    <3>2. Latest(All) - m <= Latest(S)
      BY <2>1, <2>5
    <3>3. PICK x \in Nat, y \in Nat : x = Latest(S) /\ y = Latest(All)
      BY <1>1, <2>2, <3>1
    <3>4. m + x <= y /\ y - m <= x
      BY <3>1, <3>2, <3>3
    <3>5. y = m + x
      BY <3>4
    <3>6. QED
      BY <3>3, <3>5
  <2>7. All # {} /\ log[m + Latest(S)] = es[Latest(S)]
    BY <1>1, <2>2
  <2>8. QED
    BY <1>2, <1>6, <2>6, <2>7 DEF log
<1>7. QED
  BY <1>5, <1>6 DEF log

\* The lines of a file from the m-th on.
LEMMA LinesLeft ==
  ASSUME NEW l \in Nat, NEW m \in Nat, NEW n \in Nat, 2 * m <= l, l = 2 * n \/ l = 2 * n + 1
  PROVE  \E j \in Nat :
           /\ j = n - m /\ m <= n /\ 2 * n <= l
           /\ l - 2 * m \in Nat /\ 2 * j <= l - 2 * m
           /\ l - 2 * m = 2 * j \/ l - 2 * m = 2 * j + 1
           /\ l - 2 * m = 2 * j <=> l = 2 * n
           /\ l - 2 * m = 2 * j + 1 <=> l = 2 * n + 1
<1>1. m <= n /\ n - m \in Nat
  OBVIOUS
<1>2. PICK j \in Nat : n = m + j
  BY <1>1
<1>3. QED
  BY <1>2

\* What a store still reads of a paired file brings its tails up to date, or
\* ends in half of a line.
LEMMA RestIsRead ==
  ASSUME TypeOK, Paired(file), NEW s \in Stores, NEW m \in Nat, HasRead(s, m),
         NEW q \in Seq(Chunk), Len(q) = Len(file) - 2 * m,
         \A i \in 1..Len(q) : q[i] = file[2 * m + i],
         NEW n \in Nat, Len(file) = 2 * n \/ Len(file) = 2 * n + 1
  PROVE  /\ Parses(q) <=> Len(file) = 2 * n
         /\ Torn(q) <=> Len(file) = 2 * n + 1
         /\ TailsAre(Fold(tails[s], EntriesIn(q)), file, n)
<1>1. /\ file \in Seq(Chunk) /\ Len(file) \in Nat /\ tails[s] \in [Keys -> Hash]
      /\ 2 * m <= Len(file)
  <2>1. file \in Seq(Chunk) /\ tails[s] \in [Keys -> Hash] /\ offset[s] \in 0..Len(file)
    BY DEF TypeOK
  <2>2. offset[s] = 2 * m
    BY DEF HasRead
  <2>3. Len(file) \in Nat
    BY <2>1, LenProperties
  <2>4. QED
    BY <2>1, <2>2, <2>3
<1>2. PICK j \in Nat :
        /\ j = n - m /\ m <= n /\ 2 * n <= Len(file)
        /\ Len(q) \in Nat /\ 2 * j <= Len(q)
        /\ Len(q) = 2 * j \/ Len(q) = 2 * j + 1
        /\ Len(q) = 2 * j <=> Len(file) = 2 * n
        /\ Len(q) = 2 * j + 1 <=> Len(file) = 2 * n + 1
  BY <1>1, LinesLeft
<1>3. Paired(q)
  BY <1>1, PairedFrom
<1>4. /\ EntriesIn(q) = Lines(q, j) /\ Len(EntriesIn(q)) = j
      /\ Parses(q) <=> Len(q) = 2 * j
      /\ Torn(q) <=> Len(q) = 2 * j + 1
  BY <1>2, <1>3, PairedDecodes
<1> DEFINE es == EntriesIn(q)
<1>5. ASSUME NEW i \in 1..j
      PROVE  es[i] = file[2 * (m + i)].entry
  <2>1. 2 * i \in 1..Len(q) /\ 2 * m + 2 * i = 2 * (m + i)
    BY <1>2
  <2>2. es[i] = q[2 * i].entry
    BY <1>4 DEF Lines
  <2>3. q[2 * i] = file[2 * m + 2 * i]
    BY <2>1
  <2>4. QED
    BY <2>1, <2>2, <2>3
<1>6. es \in Seq(Entry) /\ Len(es) = n - m
  BY <1>2, <1>4, EntriesAreTyped
<1>7. FollowLines(es, file, m)
  BY <1>4, <1>5 DEF FollowLines
<1>8. TailsAre(tails[s], file, m)
  BY DEF HasRead
<1> HIDE DEF es
<1>9. TailsAre(Fold(tails[s], es), file, n)
  BY <1>1, <1>2, <1>6, <1>7, <1>8, FoldReads
<1>10. QED
  BY <1>2, <1>4, <1>9 DEF es

\* A refresh reads the file to its end, or not at all.
LEMMA RefreshReads ==
  ASSUME TypeOK, Paired(file), CachesHold, NEW s \in Stores
  PROVE  \E n \in Nat :
           \/ /\ Len(file) = 2 * n /\ Parses(Unread(s))
              /\ TailsAre(Refreshed(s), file, n)
           \/ Len(file) = 2 * n + 1 /\ ~ Parses(Unread(s)) /\ Refreshed(s) = tails[s]
<1>1. PICK m \in Nat : HasRead(s, m)
  BY DEF CachesHold
<1>2. /\ Unread(s) \in Seq(Chunk) /\ Len(file) \in Nat
      /\ Len(Unread(s)) = Len(file) - 2 * m
      /\ \A i \in 1..Len(Unread(s)) : Unread(s)[i] = file[2 * m + i]
  <2>1. offset[s] = 2 * m
    BY <1>1 DEF HasRead
  <2>2. QED
    BY <2>1, UnreadIsTyped
<1>3. PICK n \in Nat : Len(file) = 2 * n \/ Len(file) = 2 * n + 1
  BY <1>2, Halves
<1>4. /\ Parses(Unread(s)) <=> Len(file) = 2 * n
      /\ Torn(Unread(s)) <=> Len(file) = 2 * n + 1
      /\ TailsAre(Fold(tails[s], EntriesIn(Unread(s))), file, n)
  BY <1>1, <1>2, <1>3, RestIsRead
<1>5. CASE Len(file) = 2 * n
  <2>1. Parses(Unread(s)) /\ ~ Torn(Unread(s))
    BY <1>4, <1>5
  <2>2. QED
    BY <1>4, <1>5, <2>1 DEF Refreshed
<1>6. CASE Len(file) = 2 * n + 1
  BY <1>2, <1>4, <1>6 DEF Refreshed
<1>7. QED
  BY <1>3, <1>5, <1>6

\* A refresh leaves a store with the lines it has read.
LEMMA RefreshKeepsCaches ==
  ASSUME TypeOK, Paired(file), CachesHold, NEW s \in Stores, Refresh(s), file' = file
  PROVE  /\ \A u \in Stores : \E n \in Nat : HasRead(u, n)'
         /\ \A u \in Stores \ {s} : tails'[u] = tails[u] /\ offset'[u] = offset[u]
         /\ tails'[s] = Refreshed(s)
<1>1. /\ tails' = [tails EXCEPT ![s] = Refreshed(s)]
      /\ offset' = [offset EXCEPT ![s] = IF Parses(Unread(s)) THEN Len(file) ELSE offset[s]]
  BY DEF Refresh
<1>2. /\ tails'[s] = Refreshed(s)
      /\ offset'[s] = IF Parses(Unread(s)) THEN Len(file) ELSE offset[s]
      /\ \A u \in Stores \ {s} : tails'[u] = tails[u] /\ offset'[u] = offset[u]
  BY <1>1 DEF TypeOK
<1>3. ASSUME NEW u \in Stores, u # s
      PROVE  \E n \in Nat : HasRead(u, n)'
  BY <1>2, <1>3 DEF CachesHold, HasRead
<1>4. \E n \in Nat : HasRead(s, n)'
  <2>1. PICK n \in Nat :
           \/ /\ Len(file) = 2 * n /\ Parses(Unread(s))
              /\ TailsAre(Refreshed(s), file, n)
           \/ Len(file) = 2 * n + 1 /\ ~ Parses(Unread(s)) /\ Refreshed(s) = tails[s]
    BY RefreshReads
  <2>2. CASE Parses(Unread(s))
    BY <1>2, <2>1, <2>2 DEF HasRead
  <2>3. CASE ~ Parses(Unread(s))
    BY <1>2, <2>1, <2>3 DEF CachesHold, HasRead
  <2>4. QED
    BY <2>2, <2>3
<1>5. QED
  BY <1>2, <1>3, <1>4

\* Steps that leave the file alone keep it clean, if they leave every cache
\* right, the lines under way alone and no chunk in a buffer behind.
LEMMA FileLeftAlone ==
  ASSUME Clean, UNCHANGED <<file, synced, acked>>,
         \A v \in Writers : Writing(v)' =>
           /\ Writing(v) /\ row'[v] = row[v] /\ prior'[v] = prior[v]
           /\ buf'[StoreOf[v]] = buf[StoreOf[v]]
           /\ tails'[StoreOf[v]] = tails[StoreOf[v]]
           /\ offset'[StoreOf[v]] = offset[StoreOf[v]],
         BufferIsLocked',
         \A s \in Stores : \E n \in Nat : HasRead(s, n)'
  PROVE  Clean'
<1>1. Paired(file)' /\ ReturnedAreSynced'
  BY DEF Clean, ReturnedAreSynced
<1>2. CachesHold'
  BY DEF CachesHold
<1>3. LineUnderWay'
  <2> SUFFICES ASSUME NEW v \in Writers, Writing(v)'
               PROVE  Halfway(v)'
    BY DEF LineUnderWay
  <2>1. /\ Writing(v) /\ row'[v] = row[v] /\ prior'[v] = prior[v]
        /\ buf'[StoreOf[v]] = buf[StoreOf[v]]
        /\ tails'[StoreOf[v]] = tails[StoreOf[v]]
        /\ offset'[StoreOf[v]] = offset[StoreOf[v]]
    OBVIOUS
  <2>2. TailOf(tails'[StoreOf[v]], row'[v]) = TailOf(tails[StoreOf[v]], row[v])
    BY <2>1 DEF TailOf
  <2>3. QED
    BY <2>1, <2>2 DEF Clean, LineUnderWay, Halfway
<1>4. QED
  BY <1>1, <1>2, <1>3 DEF Clean

\* What a store has read of a file is still there in one that starts alike.
LEMMA ReadStaysRead ==
  ASSUME TypeOK, NEW s \in Stores, NEW n \in Nat, HasRead(s, n),
         offset'[s] = offset[s], tails'[s] = tails[s],
         \A i \in 1..2 * n : file'[i] = file[i]
  PROVE  HasRead(s, n)'
<1>1. Lines(file', n) = Lines(file, n)
  BY LinesAgree
<1>2. QED
  BY <1>1 DEF HasRead, TailsAre

\* A store that has read nothing knows no tails.
LEMMA NothingRead ==
  ASSUME NEW s \in Stores, offset'[s] = 0, tails'[s] = [k \in Keys |-> Genesis]
  PROVE  HasRead(s, 0)'
<1>1. ASSUME NEW f, NEW k
      PROVE  TailHash(Lines(f, 0), k[1], k[2]) = Genesis
  <2>1. Len(Lines(f, 0)) = 0
    BY DEF Lines
  <2>2. Indices(Lines(f, 0), 0, k[1], k[2]) = {}
    BY DEF Indices
  <2>3. QED
    BY <2>1, <2>2 DEF TailHash, TailAt
<1>2. \A k \in Keys : tails'[s][k] = TailHash(Lines(file', 0), k[1], k[2])
  BY <1>1
<1>3. QED
  BY <1>2 DEF HasRead, TailsAre

\* Calls, reads and conflicts write nothing.
LEMMA OperationsStayClean ==
  ASSUME LocksHold, Clean, NEW w \in Writers,
         \/ \E r \in Rows : Call(w, r)
         \/ ReadTail(w) \/ OperationRaises(w) \/ AppendConflict(w)
  PROVE  Clean'
<1>1. /\ UNCHANGED <<file, synced, acked, buf>>
      /\ pc[w] \in {"idle", "read", "append"}
      /\ pc' = [pc EXCEPT ![w] = pc'[w]] /\ pc'[w] \in {"idle", "read", "append"}
      /\ row' = [row EXCEPT ![w] = row'[w]]
      /\ prior' = [prior EXCEPT ![w] = prior'[w]]
      /\ Refresh(StoreOf[w]) \/ UNCHANGED <<st, tails, offset>>
  <2>0. /\ pc \in [Writers -> {"idle", "read", "append", "write", "fsync"}]
        /\ row \in [Writers -> Rows] /\ prior \in [Writers -> Hash]
    BY DEF LocksHold, TypeOK
  <2>1. CASE \E r \in Rows : Call(w, r)
    BY <2>0, <2>1 DEF Call, fileVars, storeVars
  <2>2. CASE ReadTail(w)
    BY <2>0, <2>2 DEF ReadTail, fileVars, history
  <2>3. CASE OperationRaises(w)
    BY <2>0, <2>3 DEF OperationRaises, Return, fileVars, history
  <2>4. CASE AppendConflict(w)
    BY <2>0, <2>4 DEF AppendConflict, fileVars, history
  <2>5. QED
    BY <2>1, <2>2, <2>3, <2>4
<1>2. /\ StoreOf[w] \in Stores /\ TypeOK /\ Paired(file) /\ CachesHold
  BY StoreAssumption DEF LocksHold, Clean
<1>3. \A v \in Writers :
        /\ Writing(v)' => v # w
        /\ v # w => pc'[v] = pc[v] /\ row'[v] = row[v] /\ prior'[v] = prior[v]
        /\ pc'[v] = "write" <=> pc[v] = "write"
  BY <1>1, <1>2 DEF TypeOK, Writing
<1>4. \A s \in Stores : \E n \in Nat : HasRead(s, n)'
  <2>1. CASE Refresh(StoreOf[w])
    BY <1>1, <1>2, <2>1, RefreshKeepsCaches
  <2>2. CASE UNCHANGED <<tails, offset>>
    BY <1>1, <1>2, <2>2 DEF CachesHold, HasRead
  <2>3. QED
    BY <1>1, <2>1, <2>2
<1>5. \A v \in Writers : Writing(v)' =>
        /\ Writing(v) /\ row'[v] = row[v] /\ prior'[v] = prior[v]
        /\ tails'[StoreOf[v]] = tails[StoreOf[v]]
        /\ offset'[StoreOf[v]] = offset[StoreOf[v]]
  <2>1. CASE Refresh(StoreOf[w])
    <3>1. \A v \in Writers : ~ Writing(v)
      BY <1>2, <2>1, LockIsFree DEF Refresh
    <3>2. \A v \in Writers : ~ Writing(v)'
      BY <1>3, <3>1 DEF Writing
    <3>3. QED
      BY <3>2
  <2>2. CASE UNCHANGED <<tails, offset>>
    BY <1>3, <2>2 DEF Writing
  <2>3. QED
    BY <1>1, <2>1, <2>2
<1>6. BufferIsLocked'
  BY <1>1, <1>3 DEF Clean, BufferIsLocked
<1>7. QED
  BY <1>1, <1>4, <1>5, <1>6, FileLeftAlone

\* An append begins on the tail its store has just read.
LEMMA BeginStaysClean ==
  ASSUME LocksHold, LocksHold', Clean, NEW w \in Writers, AppendBegin(w)
  PROVE  Clean'
<1> DEFINE s == StoreOf[w]
           e == NewEntry(row[w], prior[w])
<1>1. /\ pc[w] = "append" /\ Refresh(s) /\ Parses(Unread(s))
      /\ prior[w] = TailOf(Refreshed(s), row[w])
      /\ buf' = [buf EXCEPT ![s] = buf[s] \o Line(e)]
      /\ pc' = [pc EXCEPT ![w] = "write"]
      /\ UNCHANGED <<file, synced, row, prior, acked>>
  BY DEF AppendBegin, fileVars, history
<1>2. s \in Stores /\ TypeOK /\ Paired(file) /\ CachesHold
  BY StoreAssumption DEF LocksHold, Clean
<1>3. \A v \in Writers : ~ Writing(v)
  BY <1>1, <1>2, LockIsFree DEF Refresh
<1>4. \A u \in Stores : buf[u] = << >>
  BY <1>3 DEF Clean, BufferIsLocked, Writing
<1>5. e \in Entry
  BY <1>2, NewEntryType DEF TypeOK
<1>6. buf'[s] = Line(e) /\ \A u \in Stores \ {s} : buf'[u] = << >>
  <2>1. buf'[s] = << >> \o Line(e) /\ \A u \in Stores \ {s} : buf'[u] = << >>
    BY <1>1, <1>2, <1>4 DEF TypeOK
  <2>2. << >> \o Line(e) = Line(e)
    <3> HIDE DEF e
    <3>1. Line(e) \in Seq(Chunk)
      BY <1>5, LineIsTyped
    <3>2. QED
      BY <3>1, ConcatEmptySeq
  <2>3. QED
    BY <2>1, <2>2
<1>7. /\ pc'[w] = "write" /\ \A v \in Writers \ {w} : ~ Writing(v)'
  BY <1>1, <1>2, <1>3 DEF TypeOK, Writing
<1>8. /\ \A u \in Stores : \E n \in Nat : HasRead(u, n)'
      /\ tails'[s] = Refreshed(s) /\ offset'[s] = Len(file)
  <2> HIDE DEF s
  <2>1. QED
    BY <1>1, <1>2, RefreshKeepsCaches, RefreshIsTyped
<1>9. BufferIsLocked'
  BY <1>6, <1>7 DEF BufferIsLocked
<1>10. LineUnderWay'
  <2>1. /\ prior'[w] = TailOf(tails'[s], row'[w])
        /\ Len(file') = offset'[s] /\ buf'[s] = Line(NewEntry(row'[w], prior'[w]))
    BY <1>1, <1>6, <1>8
  <2>2. QED
    BY <1>7, <2>1 DEF LineUnderWay, Halfway
<1>11. QED
  BY <1>1, <1>2, <1>8, <1>9, <1>10 DEF Clean, CachesHold, ReturnedAreSynced

\* A head after whole lines, or the rest of the line a file ends in, leaves the
\* file paired.
LEMMA PairedGrows ==
  ASSUME NEW f \in Seq(Chunk), Paired(f), NEW n \in Nat, NEW e \in Entry, NEW c \in Chunk,
         \/ Len(f) = 2 * n /\ c = [entry |-> e, part |-> "head"]
         \/ /\ Len(f) = 2 * n + 1 /\ f[2 * n + 1].entry = e
            /\ c = [entry |-> e, part |-> "rest"]
  PROVE  Paired(Append(f, c))
<1> DEFINE g == Append(f, c)
<1>1. /\ g \in Seq(Chunk) /\ Len(g) = Len(f) + 1 /\ Len(f) \in Nat
      /\ g[Len(f) + 1] = c /\ \A i \in 1..Len(f) : g[i] = f[i]
  BY LenProperties, AppendProperties
<1> HIDE DEF g
<1>2. ASSUME NEW i \in 1..Len(g)
      PROVE  /\ 2 * i - 1 <= Len(g) => g[2 * i - 1].part = "head"
             /\ 2 * i <= Len(g) => g[2 * i] = [entry |-> g[2 * i - 1].entry, part |-> "rest"]
  <2>1. CASE 2 * i <= Len(f)
    <3>1. i \in 1..Len(f) /\ 2 * i - 1 \in 1..Len(f) /\ 2 * i \in 1..Len(f) /\ 2 * i - 1 <= Len(f)
      BY <1>1, <2>1
    <3>2. f[2 * i - 1].part = "head" /\ f[2 * i] = [entry |-> f[2 * i - 1].entry, part |-> "rest"]
      BY <2>1, <3>1 DEF Paired
    <3>3. QED
      BY <1>1, <3>1, <3>2
  <2>2. CASE 2 * i - 1 = Len(f)
    <3>1. i \in 1..Len(f) /\ 2 * i - 1 \in 1..Len(f) /\ 2 * i - 1 <= Len(f)
          /\ 2 * i = Len(f) + 1 /\ 2 * i - 1 = 2 * n + 1 /\ Len(f) = 2 * n + 1
      BY <1>1, <2>2
    <3>2. f[2 * i - 1].part = "head"
      BY <3>1 DEF Paired
    <3>3. c = [entry |-> f[2 * i - 1].entry, part |-> "rest"]
      BY <3>1
    <3>4. QED
      BY <1>1, <3>1, <3>2, <3>3
  <2>3. CASE 2 * i - 1 > Len(f)
    <3>1. 2 * i - 1 <= Len(g) => 2 * i - 1 = Len(f) + 1 /\ Len(f) = 2 * n
      BY <1>1, <2>3
    <3>2. ~ (2 * i <= Len(g))
      BY <1>1, <2>3
    <3>3. Len(f) = 2 * n => c.part = "head"
      BY <1>1
    <3>4. 2 * i - 1 <= Len(g) => g[2 * i - 1] = c /\ c.part = "head"
      BY <1>1, <3>1, <3>3
    <3>5. QED
      BY <3>2, <3>4
  <2>4. QED
    BY <1>1, <2>1, <2>2, <2>3
<1>3. QED
  BY <1>2 DEF Paired, g

\* A chunk of a line moves from the buffer to the file.
LEMMA ChunkStaysClean ==
  ASSUME LocksHold, LocksHold', Clean, NEW w \in Writers, WriteChunk(w)
  PROVE  Clean'
<1> DEFINE s == StoreOf[w]
           e == NewEntry(row[w], prior[w])
           l == Line(e)
<1>1. /\ pc[w] = "write" /\ Writing(w)
      /\ file' = Append(file, Head(buf[s]))
      /\ buf' = [buf EXCEPT ![s] = Tail(buf[s])]
      /\ pc' = [pc EXCEPT ![w] = IF Len(buf[s]) = 1 THEN "fsync" ELSE "write"]
      /\ UNCHANGED <<synced, offset, tails, row, prior, acked>>
  BY DEF WriteChunk, Writing, history
<1>2. /\ s \in Stores /\ TypeOK /\ file \in Seq(Chunk) /\ Len(file) \in Nat
      /\ OneWrites /\ buf[s] \in Seq(Chunk) /\ buf[s] # << >>
      /\ Paired(file) /\ CachesHold /\ Halfway(w) /\ synced \in 0..Len(file)
  <2>1. s \in Stores /\ TypeOK /\ file \in Seq(Chunk) /\ Len(file) \in Nat /\ OneWrites
        /\ buf[s] \in Seq(Chunk) /\ synced \in 0..Len(file)
    BY StoreAssumption, LenProperties DEF LocksHold, TypeOK
  <2>2. buf[s] # << >>
    BY <1>1, <2>1 DEF OneWrites
  <2>3. Paired(file) /\ CachesHold /\ Halfway(w)
    BY <1>1 DEF Clean, LineUnderWay
  <2>4. QED
    BY <2>1, <2>2, <2>3
<1>3. /\ e \in Entry /\ l \in Seq(Chunk) /\ Len(l) = 2
      /\ l[1] = [entry |-> e, part |-> "head"] /\ l[2] = [entry |-> e, part |-> "rest"]
  <2>1. e \in Entry
    BY <1>2, NewEntryType DEF TypeOK
  <2>2. QED
    BY <2>1, LineIsTyped
<1>4. \/ Len(file) = offset[s] /\ buf[s] = l
      \/ Len(file) = offset[s] + 1 /\ buf[s] = <<l[2]>> /\ file[offset[s] + 1] = l[1]
  BY <1>2 DEF Halfway
<1>5. PICK n \in Nat : HasRead(s, n)
  BY <1>2 DEF CachesHold
<1>6. offset[s] = 2 * n
  BY <1>5 DEF HasRead
<1>7. /\ Head(l) = l[1] /\ Tail(l) = <<l[2]>>
      /\ Head(<<l[2]>>) = l[2] /\ Tail(<<l[2]>>) = << >>
  BY DEF Line
<1>8. /\ Head(buf[s]) = l[1] \/ Head(buf[s]) = l[2]
      /\ Head(buf[s]) \in Chunk
      /\ \A i \in 1..Len(file) : file'[i] = file[i]
      /\ Len(file') = Len(file) + 1 /\ file'[Len(file) + 1] = Head(buf[s])
  <2>1. Head(buf[s]) \in Chunk
    BY <1>2, EmptySeq
  <2>2. Head(buf[s]) = l[1] \/ Head(buf[s]) = l[2]
    BY <1>4, <1>7
  <2> HIDE DEF s, l
  <2>3. QED
    BY <1>1, <1>2, <2>1, <2>2
<1> HIDE DEF e, l
<1>9. Paired(file')
  <2>1. CASE Len(file) = offset[s] /\ buf[s] = l
    <3>1. Head(buf[s]) = [entry |-> e, part |-> "head"] /\ Len(file) = 2 * n
      BY <1>3, <1>6, <1>7, <2>1
    <3>2. QED
      BY <1>1, <1>2, <1>3, <1>8, <3>1, PairedGrows
  <2>2. CASE Len(file) = offset[s] + 1 /\ buf[s] = <<l[2]>> /\ file[offset[s] + 1] = l[1]
    <3>1. Head(buf[s]) = [entry |-> e, part |-> "rest"] /\ Len(file) = 2 * n + 1
          /\ file[2 * n + 1].entry = e
      BY <1>3, <1>6, <1>7, <2>2
    <3>2. QED
      BY <1>1, <1>2, <1>3, <1>8, <3>1, PairedGrows
  <2>3. QED
    BY <1>4, <2>1, <2>2
<1>10. CachesHold'
  <2> SUFFICES ASSUME NEW u \in Stores
               PROVE  \E m \in Nat : HasRead(u, m)'
    BY DEF CachesHold
  <2>1. PICK m \in Nat : HasRead(u, m)
    BY <1>2 DEF CachesHold
  <2>2. 2 * m <= Len(file)
    BY <1>2, <2>1 DEF HasRead, TypeOK
  <2>3. \A i \in 1..2 * m : file'[i] = file[i]
    BY <1>2, <1>8, <2>2
  <2>4. QED
    BY <1>1, <1>2, <2>1, <2>3, ReadStaysRead
<1>11. ReturnedAreSynced'
  <2>1. PICK m \in Nat : /\ synced = 2 * m
                         /\ \A x \in acked : \E i \in 1..m : file[2 * i].entry = x
    BY DEF Clean, ReturnedAreSynced
  <2>2. \A i \in 1..m : file'[2 * i] = file[2 * i]
    BY <1>2, <1>8, <2>1
  <2>3. \A x \in acked : \E i \in 1..m : file'[2 * i].entry = x
    BY <2>1, <2>2
  <2>4. QED
    BY <1>1, <2>1, <2>3 DEF ReturnedAreSynced
<1>12. /\ buf'[s] = Tail(buf[s]) /\ \A u \in Stores \ {s} : buf'[u] = buf[u]
       /\ \A v \in Writers \ {w} : pc'[v] = pc[v] /\ ~ Writing(v)'
  <2>1. buf'[s] = Tail(buf[s]) /\ \A u \in Stores \ {s} : buf'[u] = buf[u]
    BY <1>1, <1>2 DEF TypeOK
  <2>2. \A v \in Writers \ {w} : pc'[v] = pc[v] /\ ~ Writing(v)
    BY <1>1, <1>2 DEF TypeOK, OneWrites
  <2>3. QED
    BY <2>1, <2>2 DEF Writing
<1>13. BufferIsLocked'
  <2>1. ASSUME NEW u \in Stores \ {s}, buf'[u] # << >>
        PROVE  \E v \in Writers : pc'[v] = "write" /\ StoreOf[v] = u
    <3>1. PICK v \in Writers : pc[v] = "write" /\ StoreOf[v] = u
      BY <1>12, <2>1 DEF Clean, BufferIsLocked
    <3>2. v # w
      BY <3>1
    <3>3. QED
      BY <1>12, <3>1, <3>2
  <2>2. buf'[s] # << >> => pc'[w] = "write"
    <3>1. Writing(w)'
      BY <1>1, <1>2 DEF TypeOK, Writing
    <3>2. QED
      BY <3>1 DEF LocksHold, OneWrites
  <2>3. QED
    BY <2>1, <2>2 DEF BufferIsLocked
<1>14. LineUnderWay'
  <2>1. NewEntry(row'[w], prior'[w]) = e /\ prior'[w] = TailOf(tails'[s], row'[w])
    BY <1>1, <1>2 DEF Halfway, e
  <2>2. \/ Len(file') = offset'[s] + 1 /\ buf'[s] = <<l[2]>> /\ file'[offset'[s] + 1] = l[1]
        \/ /\ Len(file') = offset'[s] + 2 /\ buf'[s] = << >>
           /\ file'[offset'[s] + 1] = l[1] /\ file'[offset'[s] + 2] = l[2]
    <3>1. offset'[s] = 2 * n /\ offset[s] = 2 * n
      BY <1>1, <1>6
    <3>2. CASE Len(file) = offset[s] /\ buf[s] = l
      <4>1. buf'[s] = <<l[2]>> /\ file'[Len(file) + 1] = l[1] /\ Len(file) = 2 * n
        BY <1>6, <1>7, <1>8, <1>12, <3>2
      <4>2. QED
        BY <1>8, <3>1, <4>1
    <3>3. CASE Len(file) = offset[s] + 1 /\ buf[s] = <<l[2]>> /\ file[offset[s] + 1] = l[1]
      <4>1. buf'[s] = << >> /\ file'[Len(file) + 1] = l[2] /\ Len(file) = 2 * n + 1
        BY <1>6, <1>7, <1>8, <1>12, <3>3
      <4>2. 2 * n + 1 \in 1..Len(file)
        BY <4>1
      <4>3. file'[2 * n + 1] = l[1]
        BY <1>8, <3>1, <3>3, <4>2
      <4>4. QED
        BY <1>8, <3>1, <4>1, <4>3
    <3>4. QED
      BY <1>4, <3>2, <3>3
  <2>3. Halfway(w)'
    BY <2>1, <2>2 DEF Halfway, l
  <2>4. QED
    BY <1>12, <2>3 DEF LineUnderWay
<1>15. QED
  BY <1>9, <1>10, <1>11, <1>13, <1>14 DEF Clean

\* The line reaches the disk: its store has read it, and it is returned.
LEMMA EndStaysClean ==
  ASSUME LocksHold, LocksHold', Clean, NEW w \in Writers, AppendEnd(w)
  PROVE  Clean'
<1> DEFINE s == StoreOf[w]
           e == NewEntry(row[w], prior[w])
           es == <<e>>
<1>1. /\ pc[w] = "fsync" /\ Writing(w) /\ file' = file /\ synced' = Len(file) /\ buf' = buf
      /\ offset' = [offset EXCEPT ![s] = offset[s] + Len(Line(e))]
      /\ tails' = [tails EXCEPT ![s] = Fold(tails[s], es)]
      /\ acked' = acked \union {e}
      /\ pc' = [pc EXCEPT ![w] = "idle"]
  BY DEF AppendEnd, Return, Writing
<1>2. /\ s \in Stores /\ TypeOK /\ file \in Seq(Chunk) /\ Len(file) \in Nat
      /\ OneWrites /\ buf[s] = << >> /\ tails[s] \in [Keys -> Hash]
      /\ Paired(file) /\ CachesHold /\ Halfway(w) /\ synced \in 0..Len(file)
  <2>1. s \in Stores /\ TypeOK /\ file \in Seq(Chunk) /\ Len(file) \in Nat /\ OneWrites
        /\ synced \in 0..Len(file) /\ tails[s] \in [Keys -> Hash]
    BY StoreAssumption, LenProperties DEF LocksHold, TypeOK
  <2>2. buf[s] = << >>
    BY <1>1, <2>1 DEF OneWrites
  <2>3. Paired(file) /\ CachesHold /\ Halfway(w)
    BY <1>1 DEF Clean, LineUnderWay
  <2>4. QED
    BY <2>1, <2>2, <2>3
<1>3. /\ e \in Entry /\ Len(Line(e)) = 2 /\ Line(e)[2].entry = e
      /\ es \in Seq(Entry) /\ Len(es) = 1 /\ es[1] = e
  <2>1. e \in Entry
    BY <1>2, NewEntryType DEF TypeOK
  <2>2. QED
    BY <2>1 DEF Line
<1> HIDE DEF e, es
<1>4. PICK n \in Nat : HasRead(s, n)
  BY <1>2 DEF CachesHold
<1>5. /\ offset[s] = 2 * n /\ TailsAre(tails[s], file, n)
  BY <1>4 DEF HasRead
<1>6. Len(file) = offset[s] + 2 /\ file[offset[s] + 2] = Line(e)[2]
  <2>1. \A x : Line(x) # << >> /\ <<Line(x)[2]>> # << >>
    BY DEF Line
  <2>2. QED
    BY <1>2, <2>1 DEF Halfway, e
<1>7. Len(file) = 2 * (n + 1) /\ file[2 * (n + 1)].entry = e
  BY <1>3, <1>5, <1>6
<1>8. /\ offset'[s] = 2 * (n + 1) /\ tails'[s] = Fold(tails[s], es)
      /\ \A u \in Stores \ {s} : offset'[u] = offset[u] /\ tails'[u] = tails[u]
  <2>1. offset'[s] = offset[s] + 2
    BY <1>1, <1>2, <1>3 DEF TypeOK
  <2>2. tails'[s] = Fold(tails[s], es)
    BY <1>1, <1>2 DEF TypeOK
  <2>3. \A u \in Stores \ {s} : offset'[u] = offset[u] /\ tails'[u] = tails[u]
    BY <1>1, <1>2 DEF TypeOK
  <2>4. QED
    BY <1>5, <2>1, <2>2, <2>3
<1>9. TailsAre(Fold(tails[s], es), file, n + 1)
  <2>1. FollowLines(es, file, n)
    BY <1>3, <1>7 DEF FollowLines
  <2>2. PICK m \in Nat : m = n + 1
    OBVIOUS
  <2>3. n <= m /\ 2 * m <= Len(file) /\ Len(es) = m - n
    BY <1>3, <1>7, <2>2
  <2>4. TailsAre(Fold(tails[s], es), file, m)
    BY <1>2, <1>3, <1>5, <2>1, <2>3, FoldReads
  <2>5. QED
    BY <2>2, <2>4
<1>10. CachesHold'
  <2>1. HasRead(s, n + 1)'
    BY <1>1, <1>8, <1>9 DEF HasRead
  <2>2. ASSUME NEW u \in Stores \ {s}
        PROVE  \E m \in Nat : HasRead(u, m)'
    BY <1>1, <1>2, <1>8, <2>2 DEF CachesHold, HasRead
  <2>3. n + 1 \in Nat
    OBVIOUS
  <2>4. QED
    BY <2>1, <2>2, <2>3 DEF CachesHold
<1>11. ReturnedAreSynced'
  <2>1. PICK m \in Nat : /\ synced = 2 * m
                         /\ \A x \in acked : \E i \in 1..m : file[2 * i].entry = x
    BY DEF Clean, ReturnedAreSynced
  <2>2. m <= n + 1
    BY <1>2, <1>7, <2>1
  <2>3. \A i \in 1..m : i \in 1..(n + 1)
    BY <2>2
  <2>4. n + 1 \in 1..(n + 1) /\ n + 1 \in Nat
    OBVIOUS
  <2>5. \A x \in acked' : \E i \in 1..(n + 1) : file[2 * i].entry = x
    BY <1>1, <1>7, <2>1, <2>3, <2>4
  <2>6. synced' = 2 * (n + 1)
    BY <1>1, <1>7
  <2>7. QED
    BY <1>1, <2>4, <2>5, <2>6 DEF ReturnedAreSynced
<1>12. \A v \in Writers : ~ Writing(v)' /\ pc[v] # "write"
  <2>1. \A v \in Writers \ {w} : ~ Writing(v)
    BY <1>1, <1>2 DEF OneWrites
  <2>2. QED
    BY <1>1, <1>2, <2>1 DEF TypeOK, Writing
<1>13. BufferIsLocked'
  <2>1. \A u \in Stores : buf[u] = << >>
    BY <1>12 DEF Clean, BufferIsLocked
  <2>2. QED
    BY <1>1, <2>1 DEF BufferIsLocked
<1>14. LineUnderWay'
  BY <1>12 DEF LineUnderWay
<1>15. QED
  BY <1>1, <1>2, <1>10, <1>11, <1>13, <1>14 DEF Clean

\* An append whose line was written and not synced leaves the line to be read.
LEMMA UnsyncedStaysClean ==
  ASSUME LocksHold, Clean, NEW w \in Writers, FsyncFails(w)
  PROVE  Clean'
<1>1. /\ pc[w] = "fsync" /\ pc' = [pc EXCEPT ![w] = "idle"]
      /\ UNCHANGED <<file, synced, acked, buf, tails, offset>>
  BY DEF FsyncFails, Return, fileVars, storeVars
<1>2. \A v \in Writers : ~ Writing(v)' /\ pc[v] # "write"
  <2>1. \A v \in Writers \ {w} : ~ Writing(v)
    BY <1>1 DEF LocksHold, OneWrites, Writing
  <2>2. QED
    BY <1>1, <2>1 DEF LocksHold, TypeOK, Writing
<1>3. BufferIsLocked'
  BY <1>1, <1>2 DEF Clean, BufferIsLocked
<1>4. \A s \in Stores : \E n \in Nat : HasRead(s, n)'
  BY <1>1 DEF Clean, CachesHold, HasRead
<1>5. QED
  BY <1>1, <1>2, <1>3, <1>4, FileLeftAlone

\* A store outside append has nothing to flush when it closes.
LEMMA CloseStaysClean ==
  ASSUME LocksHold, Clean, NEW s \in Stores, Close(s)
  PROVE  Clean'
<1>1. /\ flock # s /\ file' = file \o buf[s] /\ buf' = [buf EXCEPT ![s] = << >>]
      /\ UNCHANGED <<synced, offset, tails, pc, row, prior, acked>>
  BY DEF Close, callVars, history
<1>2. TypeOK /\ file \in Seq(Chunk) /\ buf \in [Stores -> Seq(Chunk)]
  BY DEF LocksHold, TypeOK
<1>3. buf[s] = << >>
  <2>1. \A v \in Writers : StoreOf[v] = s => pc[v] # "write"
    BY <1>1, <1>2, OthersAreOut DEF Writing
  <2>2. QED
    BY <2>1 DEF Clean, BufferIsLocked
<1>4. file' = file
  BY <1>1, <1>2, <1>3, ConcatEmptySeq
<1>5. buf' = buf
  BY <1>1, <1>2, <1>3
<1>6. BufferIsLocked'
  BY <1>1, <1>5 DEF Clean, BufferIsLocked
<1>7. \A u \in Stores : \E n \in Nat : HasRead(u, n)'
  BY <1>1, <1>4 DEF Clean, CachesHold, HasRead
<1>8. \A v \in Writers : Writing(v)' => Writing(v)
  BY <1>1 DEF Writing
<1>9. QED
  BY <1>1, <1>4, <1>5, <1>6, <1>7, <1>8, FileLeftAlone

\* A new process reads the whole file.
LEMMA OpenStaysClean ==
  ASSUME LocksHold, DownHaveRead, Clean, NEW s \in Stores, Open(s)
  PROVE  Clean'
<1>1. /\ st[s] = "down" /\ flock = NoStore /\ Parses(file)
      /\ offset' = [offset EXCEPT ![s] = Len(file)]
      /\ tails' = [tails EXCEPT ![s] = Fold(tails[s], EntriesIn(file))]
      /\ UNCHANGED <<file, synced, buf, pc, row, prior, acked>>
  BY DEF Open, fileVars, callVars, history
<1>2. /\ TypeOK /\ Paired(file) /\ CachesHold /\ file \in Seq(Chunk) /\ Len(file) \in Nat
  BY LenProperties DEF LocksHold, Clean, TypeOK
<1>3. HasRead(s, 0)
  <2>1. PICK m \in Nat : HasRead(s, m)
    BY <1>2 DEF CachesHold
  <2>2. offset[s] = 0 /\ offset[s] = 2 * m
    BY <1>1, <2>1 DEF DownHaveRead, HasRead
  <2>3. QED
    BY <2>1, <2>2
<1>4. PICK n \in Nat : Len(file) = 2 * n \/ Len(file) = 2 * n + 1
  BY <1>2, Halves
<1>5. /\ Len(file) = 2 * n
      /\ TailsAre(Fold(tails[s], EntriesIn(file)), file, n)
  <2>1. PICK m \in Nat : m = 0
    OBVIOUS
  <2>2. HasRead(s, m) /\ Len(file) = Len(file) - 2 * m
        /\ \A i \in 1..Len(file) : file[i] = file[2 * m + i]
    BY <1>2, <1>3, <2>1
  <2>3. /\ Parses(file) <=> Len(file) = 2 * n
        /\ TailsAre(Fold(tails[s], EntriesIn(file)), file, n)
    BY <1>2, <1>4, <2>2, RestIsRead
  <2>4. QED
    BY <1>1, <2>3
<1>6. /\ offset'[s] = Len(file) /\ tails'[s] = Fold(tails[s], EntriesIn(file))
      /\ \A u \in Stores \ {s} : offset'[u] = offset[u] /\ tails'[u] = tails[u]
  BY <1>1, <1>2 DEF TypeOK
<1>7. HasRead(s, n)'
  BY <1>1, <1>5, <1>6 DEF HasRead
<1>8. \A u \in Stores : \E m \in Nat : HasRead(u, m)'
  BY <1>1, <1>2, <1>6, <1>7 DEF CachesHold, HasRead
<1>9. BufferIsLocked'
  BY <1>1 DEF Clean, BufferIsLocked
<1>10. \A v \in Writers : ~ Writing(v)'
  BY <1>1, <1>2, LockIsFree DEF Writing
<1>11. QED
  BY <1>1, <1>8, <1>9, <1>10, FileLeftAlone

\* The stores that die forget what they read; what the others read is still in
\* the file, unless the machine took its end and every store with it.
LEMMA DeathsStayClean ==
  ASSUME LocksHold, Clean, NEW D \in SUBSET Stores, Vanish(D), synced' = synced,
         \/ file' = file
         \/ D = Stores /\ \E n \in synced..Len(file) : file' = SubSeq(file, 1, n)
  PROVE  Clean'
<1>1. /\ buf' = [s \in Stores |-> IF s \in D THEN << >> ELSE buf[s]]
      /\ offset' = [s \in Stores |-> IF s \in D THEN 0 ELSE offset[s]]
      /\ tails' = [s \in Stores |-> IF s \in D THEN [k \in Keys |-> Genesis] ELSE tails[s]]
      /\ pc' = [w \in Writers |-> IF StoreOf[w] \in D THEN "idle" ELSE pc[w]]
      /\ prior' = [w \in Writers |-> IF StoreOf[w] \in D THEN Genesis ELSE prior[w]]
      /\ UNCHANGED <<row, acked>>
  BY DEF Vanish
<1>2. /\ TypeOK /\ file \in Seq(Chunk) /\ Len(file) \in Nat /\ synced \in 0..Len(file)
      /\ Paired(file) /\ CachesHold /\ StoreOf \in [Writers -> Stores]
  BY StoreAssumption, LenProperties DEF LocksHold, Clean, TypeOK
<1>3. CASE file' = file
  <2>1. \A v \in Writers : Writing(v)' => StoreOf[v] \in Stores \ D
    BY <1>1, <1>2 DEF Writing
  <2>2. \A v \in Writers : Writing(v)' =>
          /\ Writing(v) /\ row'[v] = row[v] /\ prior'[v] = prior[v]
          /\ buf'[StoreOf[v]] = buf[StoreOf[v]]
          /\ tails'[StoreOf[v]] = tails[StoreOf[v]]
          /\ offset'[StoreOf[v]] = offset[StoreOf[v]]
    BY <1>1, <2>1 DEF Writing
  <2>3. BufferIsLocked'
    BY <1>1 DEF Clean, BufferIsLocked
  <2>4. ASSUME NEW s \in Stores
        PROVE  \E n \in Nat : HasRead(s, n)'
    <3>1. CASE s \in D
      <4>1. offset'[s] = 0 /\ tails'[s] = [k \in Keys |-> Genesis]
        BY <1>1, <3>1
      <4>2. HasRead(s, 0)'
        BY <4>1, NothingRead
      <4>3. QED
        BY <4>2
    <3>2. CASE s \notin D
      <4>1. offset'[s] = offset[s] /\ tails'[s] = tails[s]
        BY <1>1, <3>2
      <4>2. QED
        BY <1>2, <1>3, <4>1 DEF CachesHold, HasRead
    <3>3. QED
      BY <3>1, <3>2
  <2>5. QED
    BY <1>1, <1>3, <2>2, <2>3, <2>4, FileLeftAlone
<1>4. ASSUME D = Stores, NEW n \in synced..Len(file), file' = SubSeq(file, 1, n)
      PROVE  Clean'
  <2>1. /\ n \in Nat /\ n <= Len(file) /\ synced <= n
        /\ Len(file') = n /\ \A i \in 1..n : file'[i] = file[i]
    BY <1>2, <1>4
  <2>2. Paired(file)'
    BY <1>2, <2>1, PairedTo
  <2>3. CachesHold'
    <3>1. \A s \in Stores : HasRead(s, 0)'
      BY <1>1, <1>4, NothingRead
    <3>2. QED
      BY <3>1 DEF CachesHold
  <2>4. ReturnedAreSynced'
    <3>1. PICK m \in Nat : /\ synced = 2 * m
                           /\ \A e \in acked : \E i \in 1..m : file[2 * i].entry = e
      BY DEF Clean, ReturnedAreSynced
    <3>2. \A i \in 1..m : file'[2 * i] = file[2 * i]
      BY <2>1, <3>1
    <3>3. \A e \in acked : \E i \in 1..m : file'[2 * i].entry = e
      BY <3>1, <3>2
    <3>4. QED
      BY <1>1, <3>1, <3>3 DEF ReturnedAreSynced
  <2>5. BufferIsLocked' /\ LineUnderWay'
    BY <1>1, <1>2, <1>4 DEF BufferIsLocked, LineUnderWay, Writing
  <2>6. QED
    BY <2>2, <2>3, <2>4, <2>5 DEF Clean
<1>5. QED
  BY <1>3, <1>4

\* Writes that fail are counted for good.
LEMMA FailuresStay == LocksHold /\ [Next]_vars /\ failedWrites' = 0 => failedWrites = 0
<1> SUFFICES ASSUME failedWrites \in Nat, [Next]_vars, failedWrites' = 0
             PROVE  failedWrites = 0
  BY DEF LocksHold
<1>1. ASSUME NEW w \in Writers,
             \/ \E r \in Rows : Call(w, r)
             \/ Step(w) \/ FsyncFails(w)
      PROVE  failedWrites' = failedWrites
  BY <1>1 DEF Call, Step, ReadTail, OperationRaises, AppendConflict, AppendBegin, WriteChunk,
       AppendEnd, FsyncFails, history
<1>2. ASSUME NEW s \in Stores, Close(s) \/ Kill(s) \/ Open(s)
      PROVE  failedWrites' = failedWrites
  BY <1>2 DEF Close, Kill, Open, Vanish, history
<1>3. PowerLoss => failedWrites' = failedWrites
  BY DEF PowerLoss, Vanish
<1>4. UNCHANGED vars => failedWrites' = failedWrites
  BY DEF vars, history
<1>5. /\ \A w \in Writers : ~ WriteFails(w)
      /\ \A s \in Stores : ~ CloseFails(s)
  BY DEF WriteFails, CloseFails
<1>6. QED
  BY <1>1, <1>2, <1>3, <1>4, <1>5 DEF Next

\* As long as no write fails, the file stays clean.
LEMMA CleanStep == IInv /\ [Next]_vars /\ LocksHold' /\ failedWrites' = 0 => Clean'
<1> SUFFICES ASSUME IInv, [Next]_vars, LocksHold', failedWrites' = 0
             PROVE  Clean'
  OBVIOUS
<1>1. CASE UNCHANGED vars
  <2>1. failedWrites = 0 /\ UNCHANGED <<file, synced, st, buf, offset, tails, pc, row, prior, acked>>
    BY <1>1 DEF vars, fileVars, storeVars, callVars, history
  <2>2. Clean
    BY <2>1 DEF IInv
  <2>3. BufferIsLocked'
    BY <2>1, <2>2 DEF Clean, BufferIsLocked
  <2>4. \A s \in Stores : \E n \in Nat : HasRead(s, n)'
    BY <2>1, <2>2 DEF Clean, CachesHold, HasRead
  <2>5. \A v \in Writers : Writing(v)' => Writing(v)
    BY <2>1 DEF Writing
  <2>6. QED
    BY <2>1, <2>2, <2>3, <2>4, <2>5, FileLeftAlone
<1>2. CASE Next
  <2>1. failedWrites \in Nat
    BY DEF IInv, LocksHold
  <2>2. /\ \A w \in Writers : ~ WriteFails(w)
        /\ \A s \in Stores : ~ CloseFails(s)
    BY <2>1 DEF WriteFails, CloseFails
  <2>3. failedWrites = 0
    BY FailuresStay DEF IInv
  <2>4. LocksHold /\ DownHaveRead /\ Clean
    BY <2>3 DEF IInv
  <2>5. ASSUME NEW w \in Writers,
               \/ \E r \in Rows : Call(w, r)
               \/ Step(w) \/ FsyncFails(w)
        PROVE  Clean'
    BY <2>4, <2>5, OperationsStayClean, BeginStaysClean, ChunkStaysClean, EndStaysClean,
       UnsyncedStaysClean DEF Step
  <2>6. ASSUME NEW s \in Stores, Kill(s)
        PROVE  Clean'
    <3>1. {s} \in SUBSET Stores /\ Vanish({s}) /\ synced' = synced /\ file' = file
      BY <2>6 DEF Kill, fileVars
    <3>2. QED
      BY <2>4, <3>1, DeathsStayClean
  <2>7. CASE PowerLoss
    <3>1. /\ Stores \in SUBSET Stores /\ Vanish(Stores) /\ synced' = synced
          /\ \E n \in synced..Len(file) : file' = SubSeq(file, 1, n)
      BY <2>7 DEF PowerLoss
    <3>2. QED
      BY <2>4, <3>1, DeathsStayClean
  <2>8. QED
    BY <1>2, <2>2, <2>4, <2>5, <2>6, <2>7, CloseStaysClean, OpenStaysClean DEF Next
<1>3. QED
  BY <1>1, <1>2

\* Only a store with an object reads.
LEMMA DownStep == IInv /\ [Next]_vars => DownHaveRead'
<1> SUFFICES ASSUME IInv, [Next]_vars, NEW s \in Stores, st'[s] = "down"
             PROVE  offset'[s] = 0
  BY DEF DownHaveRead
<1> USE StoreAssumption
<1>1. /\ st \in [Stores -> {"down", "open", "closed", "broken"}]
      /\ DOMAIN offset = Stores /\ TypeOK /\ OneWrites /\ (st[s] = "down" => offset[s] = 0)
  BY DEF IInv, LocksHold, TypeOK, DownHaveRead
<1>2. ASSUME NEW u \in Stores, Refresh(u)
      PROVE  offset'[s] = 0
  BY <1>1, <1>2 DEF Refresh
<1>3. ASSUME UNCHANGED <<st, offset>>
      PROVE  offset'[s] = 0
  BY <1>1, <1>3
<1>4. ASSUME NEW w \in Writers,
             \/ \E r \in Rows : Call(w, r)
             \/ Step(w) \/ WriteFails(w) \/ FsyncFails(w)
      PROVE  offset'[s] = 0
  <2>1. CASE ReadTail(w) \/ OperationRaises(w) \/ AppendConflict(w) \/ AppendBegin(w)
    <3>1. StoreOf[w] \in Stores
      OBVIOUS
    <3>2. Refresh(StoreOf[w]) \/ UNCHANGED <<st, offset>>
      BY <2>1 DEF ReadTail, OperationRaises, AppendConflict, AppendBegin
    <3>3. QED
      BY <1>2, <1>3, <3>1, <3>2
  <2>2. CASE AppendEnd(w)
    <3>1. st[StoreOf[w]] = "open"
      BY <1>1, <2>2 DEF AppendEnd, OneWrites, Writing
    <3>2. st' = st /\ s # StoreOf[w] /\ offset' = [offset EXCEPT ![StoreOf[w]] = offset'[StoreOf[w]]]
      BY <1>1, <2>2, <3>1 DEF AppendEnd
    <3>3. QED
      BY <1>1, <3>2
  <2>3. CASE (\E r \in Rows : Call(w, r)) \/ WriteChunk(w) \/ WriteFails(w) \/ FsyncFails(w)
    BY <1>3, <2>3 DEF Call, WriteChunk, WriteFails, FsyncFails, storeVars
  <2>4. QED
    BY <1>4, <2>1, <2>2, <2>3 DEF Step
<1>5. ASSUME NEW u \in Stores, Close(u) \/ CloseFails(u) \/ Kill(u) \/ Open(u)
      PROVE  offset'[s] = 0
  BY <1>1, <1>5 DEF Close, CloseFails, Kill, Open, Vanish
<1>6. CASE PowerLoss
  BY <1>1, <1>6 DEF PowerLoss, Vanish
<1>7. CASE UNCHANGED vars
  BY <1>3, <1>7 DEF vars, storeVars
<1>8. QED
  BY <1>4, <1>5, <1>6, <1>7 DEF Next

\* An empty file is clean.
LEMMA InitClean == Init => IInv
<1> SUFFICES ASSUME Init PROVE IInv
  OBVIOUS
<1>1. LocksHold
  BY InitLocks
<1>2. DownHaveRead
  BY DEF Init, DownHaveRead
<1>3. Paired(file) /\ BufferIsLocked /\ LineUnderWay
  BY DEF Init, Paired, BufferIsLocked, LineUnderWay, Writing
<1>4. ReturnedAreSynced
  <2>1. synced = 2 * 0 /\ acked = {}
    BY DEF Init
  <2>2. QED
    BY <2>1 DEF ReturnedAreSynced
<1>5. CachesHold
  <2>1. \A f, k : TailHash(Lines(f, 0), k[1], k[2]) = Genesis
    BY DEF Lines, TailHash, TailAt, Indices
  <2>2. \A s \in Stores : HasRead(s, 0)
    BY <2>1 DEF Init, HasRead, TailsAre
  <2>3. QED
    BY <2>2 DEF CachesHold
<1>6. QED
  BY <1>1, <1>2, <1>3, <1>4, <1>5 DEF IInv, Clean

\* The inductive invariant.
LEMMA Invariance == Spec => []IInv
<1>1. IInv /\ [Next]_vars => IInv'
  <2>1. IInv /\ [Next]_vars => LocksHold'
    BY LocksStep DEF IInv
  <2>2. QED
    BY <2>1, CleanStep, DownStep DEF IInv
<1>2. QED
  BY <1>1, InitClean, PTL DEF Spec

------------------------------------------------------------------------------
\* What append_row returned stays on disk, whoever dies, until a write fails.
THEOREM ReturnedDurable == Spec => []ReturnedIsDurable
<1>1. IInv => ReturnedIsDurable
  <2> SUFFICES ASSUME IInv, failedWrites = 0
               PROVE  acked \subseteq {OnDisk[i] : i \in 1..Len(OnDisk)}
    BY DEF ReturnedIsDurable
  <2>1. /\ file \in Seq(Chunk) /\ Len(file) \in Nat /\ synced \in 0..Len(file)
        /\ Paired(file) /\ ReturnedAreSynced
    BY LenProperties DEF IInv, LocksHold, TypeOK, Clean
  <2>2. PICK n \in Nat : /\ synced = 2 * n
                         /\ \A e \in acked : \E i \in 1..n : file[2 * i].entry = e
    BY <2>1 DEF ReturnedAreSynced
  <2>3. OnDisk = Lines(file, n) /\ Len(OnDisk) = n
    BY <2>1, <2>2, StartDecodes DEF OnDisk
  <2>4. \A i \in 1..n : OnDisk[i] = file[2 * i].entry
    BY <2>3 DEF Lines
  <2>5. QED
    BY <2>2, <2>3, <2>4
<1>2. QED
  BY <1>1, Invariance, PTL

\* The incremental caches are what a scan of the lines read would give.
THEOREM CachesAreRight == Spec => []CachesMatchFile
<1>1. IInv => CachesMatchFile
  <2> SUFFICES ASSUME IInv, failedWrites = 0, NEW s \in Stores
               PROVE  LET read == EntriesIn(SubSeq(file, 1, offset[s]))
                      IN  /\ 2 * Len(read) = offset[s]
                          /\ \A k \in Keys : tails[s][k] = TailHash(read, k[1], k[2])
    BY DEF CachesMatchFile
  <2>1. /\ file \in Seq(Chunk) /\ Len(file) \in Nat /\ offset[s] \in 0..Len(file)
        /\ Paired(file) /\ CachesHold
    BY LenProperties DEF IInv, LocksHold, TypeOK, Clean
  <2>2. PICK n \in Nat : HasRead(s, n)
    BY <2>1 DEF CachesHold
  <2>3. offset[s] = 2 * n /\ TailsAre(tails[s], file, n)
    BY <2>2 DEF HasRead
  <2>4. /\ EntriesIn(SubSeq(file, 1, offset[s])) = Lines(file, n)
        /\ Len(EntriesIn(SubSeq(file, 1, offset[s]))) = n
    BY <2>1, <2>3, StartDecodes
  <2>5. QED
    BY <2>3, <2>4 DEF TailsAre
<1>2. QED
  BY <1>1, Invariance, PTL

------------------------------------------------------------------------------
\* How a step changes a clean file: it leaves it alone, an append moves a chunk
\* there, or a machine crash takes an unsynced end.
LEMMA FileStep ==
  ASSUME LocksHold, Clean, [Next]_vars, failedWrites' = 0
  PROVE  \/ /\ file' = file /\ synced' = synced
            /\ flock = NoStore => flock' = NoStore \/ Parses(file)
         \/ \E w \in Writers : WriteChunk(w)
         \/ \E w \in Writers : AppendEnd(w)
         \/ /\ \E n \in synced..Len(file) : file' = SubSeq(file, 1, n)
            /\ synced' = synced /\ (flock = NoStore => flock' = NoStore)
<1>1. /\ TypeOK /\ Paired(file) /\ CachesHold /\ file \in Seq(Chunk) /\ Len(file) \in Nat
      /\ StoreOf \in [Writers -> Stores] /\ failedWrites \in Nat
      /\ NoStore \notin Stores
  BY StoreAssumption, LenProperties DEF LocksHold, Clean, TypeOK
<1>2. ASSUME NEW w \in Writers,
             \/ \E r \in Rows : Call(w, r)
             \/ ReadTail(w) \/ OperationRaises(w) \/ AppendConflict(w) \/ FsyncFails(w)
      PROVE  file' = file /\ synced' = synced /\ (flock = NoStore => flock' = NoStore)
  BY <1>2 DEF Call, ReadTail, OperationRaises, AppendConflict, FsyncFails, fileVars
<1>3. ASSUME NEW w \in Writers, AppendBegin(w)
      PROVE  file' = file /\ synced' = synced /\ Parses(file)
  <2>1. StoreOf[w] \in Stores /\ Parses(Unread(StoreOf[w])) /\ file' = file /\ synced' = synced
    BY <1>1, <1>3 DEF AppendBegin, fileVars
  <2>2. PICK n \in Nat : Len(file) = 2 * n
    BY <1>1, <2>1, RefreshReads
  <2>3. Parses(file)
    BY <1>1, <2>2, PairedDecodes
  <2>4. QED
    BY <2>1, <2>3
<1>4. ASSUME NEW s \in Stores, Close(s)
      PROVE  file' = file /\ synced' = synced /\ flock' = flock
  <2>1. flock # s /\ file' = file \o buf[s] /\ synced' = synced /\ flock' = flock
    BY <1>4 DEF Close
  <2>2. \A v \in Writers : StoreOf[v] = s => pc[v] # "write"
    BY <1>1, <2>1, OthersAreOut DEF Writing
  <2>3. buf[s] = << >>
    BY <2>2 DEF Clean, BufferIsLocked
  <2>4. QED
    BY <1>1, <2>1, <2>3, ConcatEmptySeq
<1>5. ASSUME NEW s \in Stores, Kill(s) \/ Open(s)
      PROVE  file' = file /\ synced' = synced /\ (flock = NoStore => flock' = NoStore)
  BY <1>1, <1>5 DEF Kill, Open, Vanish, fileVars
<1>6. CASE PowerLoss
  BY <1>1, <1>6 DEF PowerLoss, Vanish
<1>7. CASE UNCHANGED vars
  BY <1>7 DEF vars, fileVars
<1>8. /\ \A w \in Writers : ~ WriteFails(w)
      /\ \A s \in Stores : ~ CloseFails(s)
  BY <1>1 DEF WriteFails, CloseFails
<1>9. QED
  BY <1>2, <1>3, <1>4, <1>5, <1>6, <1>7, <1>8 DEF Next, Step

\* A torn line stays the end of the file until a machine crash takes it: nobody
\* appends behind it.
THEOREM TornLineStays == Spec => TornLineIsFinal
<1> DEFINE Final ==
      failedWrites' = 0 /\ flock = NoStore /\ ~ Parses(file)
        => /\ flock' = NoStore
           /\ Len(file') <= Len(file) /\ file' = SubSeq(file, 1, Len(file'))
<1>1. IInv /\ [Next]_vars => [Final]_vars
  <2> SUFFICES ASSUME IInv, [Next]_vars, failedWrites' = 0, flock = NoStore, ~ Parses(file)
               PROVE  /\ flock' = NoStore
                      /\ Len(file') <= Len(file) /\ file' = SubSeq(file, 1, Len(file'))
    OBVIOUS
  <2>1. LocksHold /\ Clean /\ file \in Seq(Chunk) /\ Len(file) \in Nat /\ synced \in 0..Len(file)
    BY FailuresStay, LenProperties DEF IInv, LocksHold, TypeOK
  <2>2. \A w \in Writers : ~ WriteChunk(w) /\ ~ AppendEnd(w)
    BY <2>1, LockIsFree DEF LocksHold, WriteChunk, AppendEnd, Writing
  <2>3. /\ flock' = NoStore
        /\ \/ file' = file
           \/ \E n \in synced..Len(file) : file' = SubSeq(file, 1, n)
    BY <2>1, <2>2, FileStep
  <2>4. \A n \in 0..Len(file) : Len(SubSeq(file, 1, n)) = n
    BY <2>1
  <2>5. file = SubSeq(file, 1, Len(file))
    BY <2>1
  <2>6. QED
    BY <2>1, <2>3, <2>4, <2>5
<1>2. QED
  BY <1>1, Invariance, PTL DEF Spec, TornLineIsFinal

\* The same entries and tails, read by the abstract chain.
LEMMA LogReadsAlike ==
  ASSUME NEW l, NEW r \in Rows
  PROVE  Log!NewEntry(r, Log!TailHash(l, TableOf[r], EntityOf[r]))
           = NewEntry(r, TailHash(l, TableOf[r], EntityOf[r]))
BY DEF NewEntry, HashOf, TailHash, TailAt, Indices, InSegment, Latest, Genesis, Log!NewEntry,
     Log!HashOf, Log!TailHash, Log!TailAt, Log!Indices, Log!InSegment, Log!Latest, Log!Genesis

\* What the abstract chain sees of a paired file whose first m lines are synced.
LEMMA LogIsLines ==
  ASSUME NEW f \in Seq(Chunk), Paired(f), NEW m \in Nat, 2 * m <= Len(f)
  PROVE  \E n \in Nat :
           /\ Len(f) = 2 * n \/ Len(f) = 2 * n + 1
           /\ m <= n /\ EntriesIn(f) = Lines(f, n) /\ Len(EntriesIn(f)) = n
           /\ EntriesIn(f) \in Seq(Entry)
           /\ Len(EntriesIn(SubSeq(f, 1, 2 * m))) = m
<1>1. PICK n \in Nat : Len(f) = 2 * n \/ Len(f) = 2 * n + 1
  BY LenProperties, Halves
<1>2. m <= n
  BY <1>1
<1>3. /\ EntriesIn(f) = Lines(f, n) /\ Len(EntriesIn(f)) = n
      /\ EntriesIn(f) \in Seq(Entry)
      /\ Len(EntriesIn(SubSeq(f, 1, 2 * m))) = m
  BY <1>1, PairedDecodes, EntriesAreTyped, StartDecodes
<1>4. QED
  BY <1>1, <1>2, <1>3

\* The rest of a line commits its entry; the head of one commits nothing.
LEMMA ChunkCommits ==
  ASSUME LocksHold, LocksHold', Clean, Clean', NEW w \in Writers, WriteChunk(w)
  PROVE  [Log!Next]_(Log!logVars)
<1> DEFINE s == StoreOf[w]
           e == NewEntry(row[w], prior[w])
           l == Line(e)
<1>1. /\ TypeOK /\ s \in Stores /\ row[w] \in Rows /\ e \in Entry
      /\ file \in Seq(Chunk) /\ file' \in Seq(Chunk) /\ Len(file) \in Nat
      /\ Paired(file) /\ Paired(file') /\ CachesHold /\ synced \in 0..Len(file)
      /\ buf[s] \in Seq(Chunk) /\ buf[s] # << >> /\ Halfway(w)
  <2>1. TypeOK /\ TypeOK' /\ s \in Stores /\ OneWrites /\ Writing(w) /\ pc[w] = "write"
    BY StoreAssumption DEF LocksHold, WriteChunk, Writing
  <2>2. /\ row[w] \in Rows /\ prior[w] \in Hash /\ buf[s] \in Seq(Chunk)
        /\ file \in Seq(Chunk) /\ file' \in Seq(Chunk) /\ synced \in 0..Len(file)
    BY <2>1 DEF TypeOK
  <2>3. e \in Entry /\ Len(file) \in Nat
    BY <2>2, NewEntryType, LenProperties
  <2>4. buf[s] # << >>
    BY <2>1 DEF OneWrites
  <2>5. Paired(file) /\ Paired(file') /\ CachesHold /\ Halfway(w)
    BY <2>1 DEF Clean, LineUnderWay
  <2>6. QED
    BY <2>1, <2>2, <2>3, <2>4, <2>5
<1>2. file' = Append(file, Head(buf[s])) /\ synced' = synced
  BY DEF WriteChunk
<1>3. Head(buf[s]) \in Chunk
  BY <1>1, EmptySeq
<1>4. /\ Len(file') = Len(file) + 1 /\ file'[Len(file) + 1] = Head(buf[s])
      /\ \A i \in 1..Len(file) : file'[i] = file[i]
  <2> HIDE DEF s
  <2>1. QED
    BY <1>1, <1>2, <1>3
<1>5. PICK m \in Nat : synced = 2 * m
  BY DEF Clean, ReturnedAreSynced
<1>6. PICK n \in Nat :
        /\ Len(file) = 2 * n \/ Len(file) = 2 * n + 1
        /\ m <= n /\ EntriesIn(file) = Lines(file, n) /\ Len(EntriesIn(file)) = n
        /\ EntriesIn(file) \in Seq(Entry)
        /\ Len(EntriesIn(SubSeq(file, 1, 2 * m))) = m
  BY <1>1, <1>5, LogIsLines
<1>7. PICK k \in Nat :
        /\ Len(file') = 2 * k \/ Len(file') = 2 * k + 1
        /\ m <= k /\ EntriesIn(file') = Lines(file', k) /\ Len(EntriesIn(file')) = k
        /\ EntriesIn(file') \in Seq(Entry)
        /\ Len(EntriesIn(SubSeq(file', 1, 2 * m))) = m
  <2>1. 2 * m <= Len(file')
    BY <1>1, <1>4, <1>5
  <2>2. QED
    BY <1>1, <2>1, LogIsLines
<1>8. /\ FileChain = Lines(file, n) /\ FileChain' = Lines(file', k)
      /\ Len(OnDisk) = m /\ Len(OnDisk') = m
  BY <1>2, <1>5, <1>6, <1>7 DEF FileChain, OnDisk
<1>9. PICK p \in Nat : HasRead(s, p)
  BY <1>1 DEF CachesHold
<1>10. offset[s] = 2 * p /\ TailsAre(tails[s], file, p)
  BY <1>9 DEF HasRead
<1>11. CASE Len(file) = 2 * n
  <2>1. k = n
    BY <1>4, <1>7, <1>11
  <2>2. Lines(file', n) = Lines(file, n)
    BY <1>4, <1>11, LinesAgree
  <2>3. QED
    BY <1>8, <2>1, <2>2 DEF Log!logVars
<1>12. CASE Len(file) = 2 * n + 1
  <2>1. k = n + 1
    <3>1. Len(file') = 2 * n + 2
      BY <1>4, <1>12
    <3>2. Len(file') = 2 * k \/ Len(file') = 2 * k + 1
      BY <1>7
    <3>3. QED
      BY <3>1, <3>2
  <2>2. Head(buf[s]) = l[2] /\ p = n
    <3>1. Len(file) = offset[s] + 1 /\ buf[s] = <<l[2]>>
      <4>1. \/ Len(file) = offset[s] /\ buf[s] = l
            \/ Len(file) = offset[s] + 1 /\ buf[s] = <<l[2]>>
        BY <1>1 DEF Halfway
      <4>2. Len(file) # offset[s]
        BY <1>10, <1>12
      <4>3. QED
        BY <4>1, <4>2
    <3>2. Head(<<l[2]>>) = l[2]
      BY DEF Line
    <3>3. p = n
      BY <1>10, <1>12, <3>1
    <3>4. QED
      BY <3>1, <3>2, <3>3
  <2>3. prior[w] = TailHash(FileChain, TableOf[row[w]], EntityOf[row[w]])
    <3>1. <<TableOf[row[w]], EntityOf[row[w]]>> \in Keys
      BY <1>1, RowsAssumption DEF Keys
    <3>2. prior[w] = tails[s][<<TableOf[row[w]], EntityOf[row[w]]>>]
      BY <1>1 DEF Halfway, TailOf
    <3>3. tails[s][<<TableOf[row[w]], EntityOf[row[w]]>>]
            = TailHash(Lines(file, n), TableOf[row[w]], EntityOf[row[w]])
      BY <1>10, <2>2, <3>1 DEF TailsAre
    <3>4. QED
      BY <1>8, <3>2, <3>3
  <2>4. l[2].entry = e
    BY DEF Line
  <2> HIDE DEF s, e, l
  <2>5. FileChain' = Append(FileChain, e)
    <3>1. /\ FileChain \in Seq(Entry) /\ FileChain' \in Seq(Entry)
          /\ Len(FileChain) = n /\ Len(FileChain') = n + 1
      BY <1>6, <1>7, <2>1 DEF FileChain
    <3>2. \A i \in 1..n : FileChain'[i] = FileChain[i]
      <4>1. \A i \in 1..n : 2 * i \in 1..Len(file) /\ i \in 1..n + 1
        BY <1>12
      <4>2. \A i \in 1..n : file'[2 * i] = file[2 * i]
        BY <1>4, <4>1
      <4>3. QED
        BY <1>8, <2>1, <4>1, <4>2 DEF Lines
    <3>3. FileChain'[n + 1] = e
      <4>1. 2 * (n + 1) = Len(file) + 1 /\ n + 1 \in 1..n + 1
        BY <1>12
      <4>2. file'[2 * (n + 1)].entry = e
        BY <1>4, <2>2, <2>4, <4>1
      <4>3. QED
        BY <1>8, <2>1, <4>1, <4>2 DEF Lines
    <3> DEFINE old == FileChain
               new == FileChain'
    <3>4. old \in Seq(Entry) /\ new \in Seq(Entry) /\ Len(old) = n /\ Len(new) = n + 1
          /\ (\A i \in 1..n : new[i] = old[i]) /\ new[n + 1] = e
      BY <3>1, <3>2, <3>3
    <3> HIDE DEF old, new
    <3>5. /\ Append(old, e) \in Seq(Entry) /\ Len(Append(old, e)) = n + 1
          /\ \A i \in 1..n + 1 : new[i] = Append(old, e)[i]
      BY <1>1, <3>4
    <3>6. new = Append(old, e)
      BY <3>4, <3>5, SeqEqual
    <3>7. QED
      BY <3>6 DEF old, new
  <2>6. Log!Commit(row[w])
    <3>1. e = NewEntry(row[w], TailHash(FileChain, TableOf[row[w]], EntityOf[row[w]]))
      BY <2>3 DEF e
    <3>2. e = Log!NewEntry(row[w], Log!TailHash(FileChain, TableOf[row[w]], EntityOf[row[w]]))
      BY <1>1, <3>1, LogReadsAlike
    <3>3. Len(OnDisk') = Len(OnDisk)
      BY <1>8
    <3>4. QED
      BY <2>5, <3>2, <3>3 DEF Log!Commit
  <2>7. QED
    BY <1>1, <2>6 DEF Log!Next
<1>13. QED
  BY <1>6, <1>11, <1>12

\* An append that ends syncs every entry of the file.
LEMMA EndSyncs ==
  ASSUME LocksHold, Clean, Clean', NEW w \in Writers, AppendEnd(w)
  PROVE  [Log!Next]_(Log!logVars)
<1>1. file' = file /\ synced' = Len(file)
  BY DEF AppendEnd
<1>2. file \in Seq(Chunk) /\ Len(file) \in Nat /\ synced \in 0..Len(file) /\ Paired(file)
  BY LenProperties DEF LocksHold, TypeOK, Clean
<1>3. PICK m \in Nat, j \in Nat : synced = 2 * m /\ synced' = 2 * j
  BY DEF Clean, ReturnedAreSynced
<1>4. Len(EntriesIn(file)) = j /\ Len(EntriesIn(SubSeq(file, 1, 2 * m))) = m
      /\ Len(EntriesIn(SubSeq(file, 1, 2 * j))) = j /\ m <= j
  <2>1. 2 * m <= Len(file) /\ 2 * j = Len(file)
    BY <1>1, <1>2, <1>3
  <2>2. Len(EntriesIn(file)) = j
    BY <1>2, <2>1, PairedDecodes
  <2>3. QED
    BY <1>2, <2>1, <2>2, StartDecodes
<1>5. FileChain' = FileChain /\ Len(FileChain) = j /\ Len(OnDisk) = m /\ Len(OnDisk') = j
  BY <1>1, <1>3, <1>4 DEF FileChain, OnDisk
<1>6. CASE m = j
  BY <1>5, <1>6 DEF Log!logVars
<1>7. CASE m < j
  <2>1. j \in (m + 1)..j
    BY <1>7
  <2>2. Log!Sync
    BY <1>5, <2>1 DEF Log!Sync
  <2>3. QED
    BY <2>2 DEF Log!Next
<1>8. QED
  BY <1>4, <1>6, <1>7

\* A machine crash loses the last entries, never synced ones.
LEMMA CrashLoses ==
  ASSUME LocksHold, Clean, synced' = synced,
         NEW c \in synced..Len(file), file' = SubSeq(file, 1, c), Paired(file')
  PROVE  Log!Lose
<1>1. file \in Seq(Chunk) /\ Len(file) \in Nat /\ synced \in 0..Len(file) /\ Paired(file)
  BY LenProperties DEF LocksHold, TypeOK, Clean
<1>2. /\ c \in Nat /\ c <= Len(file) /\ synced <= c
      /\ file' \in Seq(Chunk) /\ Len(file') = c /\ \A i \in 1..c : file'[i] = file[i]
  <2>1. c \in 0..Len(file) /\ synced <= c
    BY <1>1
  <2>2. \A i \in 1..c : file[i] \in Chunk
    BY <1>1, <2>1
  <2>3. QED
    BY <1>1, <2>1, <2>2
<1>3. PICK m \in Nat : synced = 2 * m
  BY DEF Clean, ReturnedAreSynced
<1>4. PICK n \in Nat :
        /\ Len(file) = 2 * n \/ Len(file) = 2 * n + 1
        /\ m <= n /\ EntriesIn(file) = Lines(file, n) /\ Len(EntriesIn(file)) = n
        /\ EntriesIn(file) \in Seq(Entry)
        /\ Len(EntriesIn(SubSeq(file, 1, 2 * m))) = m
  BY <1>1, <1>3, LogIsLines
<1>5. PICK k \in Nat :
        /\ Len(file') = 2 * k \/ Len(file') = 2 * k + 1
        /\ m <= k /\ EntriesIn(file') = Lines(file', k) /\ Len(EntriesIn(file')) = k
        /\ EntriesIn(file') \in Seq(Entry)
        /\ Len(EntriesIn(SubSeq(file', 1, 2 * m))) = m
  <2>1. 2 * m <= Len(file')
    BY <1>2, <1>3
  <2>2. QED
    BY <1>2, <2>1, LogIsLines
<1>6. /\ FileChain = Lines(file, n) /\ FileChain \in Seq(Entry) /\ Len(FileChain) = n
      /\ FileChain' = Lines(file', k) /\ FileChain' \in Seq(Entry) /\ Len(FileChain') = k
      /\ Len(OnDisk) = m /\ Len(OnDisk') = m
  BY <1>3, <1>4, <1>5 DEF FileChain, OnDisk
<1>7. k <= n /\ 2 * k <= c
  BY <1>2, <1>4, <1>5
<1>8. \A i \in 1..k : FileChain'[i] = FileChain[i]
  <2>1. \A i \in 1..k : 2 * i \in 1..c /\ i \in 1..n
    BY <1>7
  <2>2. \A i \in 1..k : file'[2 * i] = file[2 * i]
    BY <1>2, <2>1
  <2>3. QED
    BY <1>6, <2>1, <2>2 DEF Lines
<1>9. FileChain' = SubSeq(FileChain, 1, k)
  <2> DEFINE old == FileChain
             new == FileChain'
  <2>1. /\ old \in Seq(Entry) /\ new \in Seq(Entry) /\ Len(old) = n /\ Len(new) = k
        /\ \A i \in 1..k : new[i] = old[i]
    BY <1>6, <1>8
  <2> HIDE DEF old, new
  <2>2. /\ SubSeq(old, 1, k) \in Seq(Entry) /\ Len(SubSeq(old, 1, k)) = k
        /\ \A i \in 1..k : SubSeq(old, 1, k)[i] = old[i]
    <3>1. \A i \in 1..k : old[i] \in Entry
      BY <1>7, <2>1
    <3>2. QED
      BY <1>7, <2>1, <3>1
  <2>3. new = SubSeq(old, 1, k)
    BY <2>1, <2>2, SeqEqual
  <2>4. QED
    BY <2>3 DEF old, new
<1>10. k \in m..n
  BY <1>5, <1>7
<1>11. QED
  BY <1>6, <1>9, <1>10 DEF Log!Lose

\* Until a write fails the file is the abstract chain: every step commits one
\* entry on the tail of its segment, syncs, loses unsynced entries from the end,
\* or shows nothing.
THEOREM RefinesUntilWriteFails == Spec => ImplementsUntilWriteFails
<1> DEFINE Implements == failedWrites' = 0 => [Log!Next]_(Log!logVars)
<1>1. IInv /\ IInv' /\ [Next]_vars => Implements
  <2> SUFFICES ASSUME IInv, IInv', [Next]_vars, failedWrites' = 0
               PROVE  [Log!Next]_(Log!logVars)
    OBVIOUS
  <2>1. LocksHold /\ LocksHold' /\ Clean /\ Clean'
    BY FailuresStay DEF IInv
  <2>2. CASE file' = file /\ synced' = synced
    BY <2>2 DEF FileChain, OnDisk, Log!logVars
  <2>3. ASSUME NEW w \in Writers, WriteChunk(w)
        PROVE  [Log!Next]_(Log!logVars)
    BY <2>1, <2>3, ChunkCommits
  <2>4. ASSUME NEW w \in Writers, AppendEnd(w)
        PROVE  [Log!Next]_(Log!logVars)
    BY <2>1, <2>4, EndSyncs
  <2>5. ASSUME NEW c \in synced..Len(file), file' = SubSeq(file, 1, c), synced' = synced
        PROVE  [Log!Next]_(Log!logVars)
    <3>1. Paired(file')
      BY <2>1 DEF Clean
    <3>2. Log!Lose
      BY <2>1, <2>5, <3>1, CrashLoses
    <3>3. QED
      BY <3>2 DEF Log!Next
  <2>6. QED
    BY <2>1, <2>2, <2>3, <2>4, <2>5, FileStep
<1>2. QED
  BY <1>1, Invariance, PTL DEF Spec, ImplementsUntilWriteFails
==============================================================================
