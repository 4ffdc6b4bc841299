--------------------------- MODULE HashChainProofs ---------------------------
(***************************************************************************)
(* append_row over the in-memory store, for any writers, rows and tables:  *)
(* the chain never forks, every conflict is another writer's append, and   *)
(* each step is a step of the abstract chain.  First, what holds of a log  *)
(* that grows by entries on the tail of their segment: every entry stays   *)
(* linked, hashes lengthen along a segment, and so no two entries of a     *)
(* segment share a prior hash.                                             *)
(***************************************************************************)
EXTENDS HashChain, Integers

\* Every entry extends the tail its segment had when it was appended.
Linked(log) ==
  \A i \in 1..Len(log) :
    LinkedAt(log, i, TableOf[log[i].row], EntityOf[log[i].row])

\* The two positions are in one segment a caller can verify.
SameSegment(log, i, j) ==
  /\ TableOf[log[i].row] = TableOf[log[j].row]
  /\ EntityOf[log[i].row] = EntityOf[log[j].row]
  /\ Verifiable(TableOf[log[i].row], EntityOf[log[i].row])

\* An entry commits to a longer history than those before it in its segment.
Growing(log) ==
  \A i, j \in 1..Len(log) :
    i < j /\ SameSegment(log, i, j) => Len(log[i].hash) < Len(log[j].hash)

\* The log after an append of row r on the tail of its segment.
Appended(log, r) ==
  Append(log, NewEntry(r, TailHash(log, TableOf[r], EntityOf[r])))

\* The entry append_row builds is well formed and its hash is one row longer
\* than the tail it extends.
LEMMA NewEntryType ==
  ASSUME NEW r \in Rows, NEW p \in Hash
  PROVE  /\ NewEntry(r, p) \in Entry
         /\ Len(NewEntry(r, p).hash) = Len(p) + 1
BY AppendProperties DEF NewEntry, Entry, Hash, HashOf

------------------------------------------------------------------------------
\* The tail a store reports is a hash.
LEMMA TailType ==
  ASSUME NEW log \in Seq(Entry), NEW n \in 0..Len(log), NEW t, NEW e
  PROVE  TailAt(log, n, t, e) \in Hash
<1> DEFINE S == Indices(log, n, t, e)
<1>1. S \in SUBSET (1..n) /\ n \in Nat /\ 1..n \subseteq 1..Len(log)
  BY LenProperties DEF Indices
<1>2. CASE S = {}
  BY <1>2 DEF TailAt, Genesis, Hash
<1>3. CASE S # {}
  <2>1. Latest(S) \in S
    BY <1>1, <1>3, LatestIsGreatest
  <2>2. log[Latest(S)] \in Entry
    BY <1>1, <2>1, ElementOfSeq
  <2>3. QED
    BY <1>3, <2>2 DEF TailAt, Entry
<1>4. QED
  BY <1>2, <1>3

\* An append changes no earlier entry, hence no earlier tail.
LEMMA AppendKeepsTails ==
  ASSUME NEW log \in Seq(Entry), NEW x \in Entry, NEW n \in 0..Len(log),
         NEW t, NEW e
  PROVE  /\ Indices(Append(log, x), n, t, e) = Indices(log, n, t, e)
         /\ TailAt(Append(log, x), n, t, e) = TailAt(log, n, t, e)
<1>1. \A i \in 1..n : Append(log, x)[i] = log[i]
  BY AppendProperties
<1>2. Indices(Append(log, x), n, t, e) = Indices(log, n, t, e)
  BY <1>1 DEF Indices, InSegment
<1> DEFINE S == Indices(log, n, t, e)
<1>3. S # {} => Latest(S) \in 1..n
  <2>1. n \in Nat /\ S \in SUBSET (1..n)
    BY DEF Indices
  <2>2. QED
    BY <2>1, LatestIsGreatest
<1>4. QED
  BY <1>1, <1>2, <1>3 DEF TailAt

\* An append on the tail of the row's segment keeps every entry linked.
LEMMA AppendKeepsLinked ==
  ASSUME NEW log \in Seq(Entry), Linked(log), NEW r \in Rows
  PROVE  /\ Appended(log, r) \in Seq(Entry)
         /\ Linked(Appended(log, r))
<1> DEFINE p == TailHash(log, TableOf[r], EntityOf[r])
           x == NewEntry(r, p)
           new == Appended(log, r)
<1>1. Len(log) \in Nat /\ Len(log) \in 0..Len(log)
  BY LenProperties
<1>2. p \in Hash /\ x \in Entry
  BY <1>1, TailType, NewEntryType DEF TailHash
<1>3. new = Append(log, x) /\ new \in Seq(Entry) /\ Len(new) = Len(log) + 1
  BY <1>2, AppendProperties DEF Appended
<1>4. SUFFICES ASSUME NEW i \in 1..Len(new)
               PROVE  LinkedAt(new, i, TableOf[new[i].row], EntityOf[new[i].row])
  BY <1>3 DEF Linked
<1>5. /\ i - 1 \in 0..Len(log)
      /\ \A t, e : TailAt(new, i - 1, t, e) = TailAt(log, i - 1, t, e)
  BY <1>1, <1>2, <1>3, AppendKeepsTails
<1>6. CASE i \in 1..Len(log)
  <2>1. new[i] = log[i]
    BY <1>2, <1>3, <1>6, AppendProperties
  <2>2. LinkedAt(log, i, TableOf[log[i].row], EntityOf[log[i].row])
    BY <1>6 DEF Linked
  <2>3. QED
    BY <1>5, <2>1, <2>2 DEF LinkedAt
<1>7. CASE i = Len(log) + 1
  <2>1. new[i] = x
    BY <1>2, <1>3, <1>7, AppendProperties
  <2>2. x.row = r /\ x.prior = p /\ x.hash = HashOf(r, p)
    BY DEF NewEntry
  <2>3. p = TailAt(log, i - 1, TableOf[r], EntityOf[r])
    BY <1>1, <1>7 DEF TailHash
  <2>4. QED
    BY <1>5, <2>1, <2>2, <2>3 DEF LinkedAt
<1>8. QED
  BY <1>1, <1>3, <1>6, <1>7

\* The tail a verifiable segment had at position j is the hash of an entry of
\* that segment which commits to at least as long a history as entry i.
LEMMA TailCoversSegment ==
  ASSUME NEW log \in Seq(Entry), Growing(log), NEW n \in 0..Len(log),
         NEW i \in 1..n, NEW t, NEW e,
         TableOf[log[i].row] = t, EntityOf[log[i].row] = e, Verifiable(t, e)
  PROVE  /\ TailAt(log, n, t, e) \in Hash
         /\ Len(log[i].hash) <= Len(TailAt(log, n, t, e))
<1> DEFINE S == Indices(log, n, t, e)
           k == Latest(S)
<1>1. n \in Nat /\ S \in SUBSET (1..n) /\ 1..n \subseteq 1..Len(log)
  BY LenProperties DEF Indices
<1>2. i \in S
  BY DEF Indices, InSegment
<1>3. k \in S /\ i <= k
  BY <1>1, <1>2, LatestIsGreatest
<1>4. TailAt(log, n, t, e) = log[k].hash
  BY <1>2 DEF TailAt
<1>5. log[i] \in Entry /\ log[k] \in Entry
  BY <1>1, <1>3, ElementOfSeq
<1>6. TableOf[log[k].row] = t /\ EntityOf[log[k].row] = e
  <2>1. /\ TableOf[log[k].row] = t
        /\ e = NoEntity \/ EntityOf[log[k].row] = e
    BY <1>3 DEF Indices, InSegment
  <2>2. CASE e = NoEntity
    <3>1. e \notin Entities
      BY <2>2, RowsAssumption
    <3>2. QED
      BY <1>5, <2>1, <2>2, <3>1 DEF Verifiable, Entry
  <2>3. QED
    BY <2>1, <2>2
<1>7. log[i].hash \in Seq(Rows) /\ log[k].hash \in Seq(Rows)
  BY <1>5 DEF Entry, Hash
<1>8. Len(log[i].hash) <= Len(log[k].hash)
  <2>1. CASE i = k
    BY <1>7, <2>1, LenProperties
  <2>2. CASE i < k
    <3>1. SameSegment(log, i, k)
      BY <1>6 DEF SameSegment
    <3>2. Len(log[i].hash) < Len(log[k].hash)
      BY <1>1, <1>3, <2>2, <3>1 DEF Growing
    <3>3. QED
      BY <1>7, <3>2, LenProperties
  <2>3. QED
    BY <1>1, <1>3, <2>1, <2>2
<1>9. QED
  BY <1>4, <1>7, <1>8 DEF Hash

\* Such an append keeps hashes lengthening along each segment.
LEMMA AppendKeepsGrowing ==
  ASSUME NEW log \in Seq(Entry), Growing(log), NEW r \in Rows
  PROVE  Growing(Appended(log, r))
<1> DEFINE p == TailHash(log, TableOf[r], EntityOf[r])
           x == NewEntry(r, p)
           new == Appended(log, r)
<1>1. Len(log) \in Nat /\ Len(log) \in 0..Len(log)
  BY LenProperties
<1>2. p \in Hash /\ x \in Entry /\ Len(x.hash) = Len(p) + 1 /\ x.row = r
  BY <1>1, TailType, NewEntryType DEF TailHash, NewEntry
<1>3. /\ Len(new) = Len(log) + 1
      /\ \A i \in 1..Len(log) : new[i] = log[i]
      /\ new[Len(log) + 1] = x
  BY <1>2, AppendProperties DEF Appended
<1>4. SUFFICES ASSUME NEW i \in 1..Len(new), NEW j \in 1..Len(new),
                      i < j, SameSegment(new, i, j)
               PROVE  Len(new[i].hash) < Len(new[j].hash)
  BY DEF Growing
<1>5. i \in 1..Len(log) /\ new[i] = log[i]
  BY <1>1, <1>3, <1>4
<1>6. CASE j \in 1..Len(log)
  <2>1. new[j] = log[j] /\ SameSegment(log, i, j)
    BY <1>3, <1>4, <1>5, <1>6 DEF SameSegment
  <2>2. QED
    BY <1>4, <1>5, <1>6, <2>1 DEF Growing
<1>7. CASE j = Len(log) + 1
  <2>1. new[j] = x
    BY <1>3, <1>7
  <2>2. /\ TableOf[log[i].row] = TableOf[r]
        /\ EntityOf[log[i].row] = EntityOf[r]
        /\ Verifiable(TableOf[r], EntityOf[r])
    BY <1>2, <1>4, <1>5, <2>1 DEF SameSegment
  <2>3. Len(log[i].hash) <= Len(p)
    BY <1>1, <1>5, <2>2, TailCoversSegment DEF TailHash
  <2>4. Len(log[i].hash) \in Nat /\ Len(p) \in Nat
    BY <1>2, <1>5, ElementOfSeq, LenProperties DEF Entry, Hash
  <2>5. QED
    BY <1>2, <1>5, <2>1, <2>3, <2>4
<1>8. QED
  BY <1>1, <1>3, <1>6, <1>7

\* A linked log whose hashes lengthen along each segment has no fork: the
\* prior hash of a later entry commits to the earlier one.
LEMMA LinkedGrowingForkFree ==
  ASSUME NEW log \in Seq(Entry), Linked(log), Growing(log)
  PROVE  ForkFree(log)
<1>1. SUFFICES ASSUME NEW i \in 1..Len(log), NEW j \in 1..Len(log), i < j,
                      SameSegment(log, i, j)
               PROVE  log[i].prior # log[j].prior
  BY DEF ForkFree, SameSegment
<1> DEFINE t == TableOf[log[j].row]
           e == EntityOf[log[j].row]
<1>2. Len(log) \in Nat /\ j - 1 \in 0..Len(log) /\ i \in 1..(j - 1)
  BY <1>1, LenProperties
<1>3. log[j].prior = TailAt(log, j - 1, t, e)
  BY DEF Linked, LinkedAt
<1>4. Len(log[i].hash) <= Len(log[j].prior)
  BY <1>1, <1>2, <1>3, TailCoversSegment DEF SameSegment
<1>5. log[i] \in Entry /\ log[j] \in Entry
  BY ElementOfSeq
<1>6. log[i].hash = Append(log[i].prior, log[i].row)
  BY DEF Linked, LinkedAt, HashOf
<1>7. Len(log[i].hash) = Len(log[i].prior) + 1 /\ Len(log[i].prior) \in Nat
  BY <1>5, <1>6, AppendProperties, LenProperties DEF Entry, Hash
<1>8. Len(log[i].prior) # Len(log[j].prior)
  BY <1>4, <1>5, <1>7, LenProperties DEF Entry, Hash
<1>9. QED
  BY <1>8

\* The verifier's loop accepts the entries entries_for returns of a segment
\* when each of them is linked to the tail the segment had before it: the entry
\* before it in the slice is the one whose hash that tail was.
LEMMA LinkedSegmentVerifies ==
  ASSUME NEW log \in Seq(Entry), NEW t, NEW e,
         \A i \in Indices(log, Len(log), t, e) : LinkedAt(log, i, t, e)
  PROVE  VerifyChainSegment(EntriesFor(log, t, e), Genesis)
<1> DEFINE n == Len(log)
           I == Indices(log, n, t, e)
           slice == EntriesFor(log, t, e)
<1>1. n \in Nat /\ I \in SUBSET (1..n)
  BY LenProperties DEF Indices
<1>2. /\ Len(slice) = Cardinality(I)
      /\ \A k \in 1..Len(slice) : Nth(I, k) \in I /\ slice[k] = log[Nth(I, k)]
  BY <1>1, PickedProperties DEF EntriesFor
<1>3. SUFFICES ASSUME NEW k \in 1..Len(slice)
               PROVE  /\ slice[k].prior = IF k = 1 THEN Genesis ELSE slice[k - 1].hash
                      /\ slice[k].hash = HashOf(slice[k].row, slice[k].prior)
  BY DEF VerifyChainSegment
<1> DEFINE i == Nth(I, k)
           S == Indices(log, i - 1, t, e)
<1>4. i \in I /\ slice[k] = log[i] /\ LinkedAt(log, i, t, e) /\ i \in 1..n
  BY <1>1, <1>2
<1>5. S = {j \in I : j < i}
  <2>1. \A j : (j \in 1..(i - 1)) <=> (j \in 1..n /\ j < i)
    BY <1>1, <1>4
  <2>2. QED
    BY <2>1 DEF Indices
<1>6. CASE S = {}
  <2>1. k = 1
    <3>1. SUFFICES ASSUME k # 1 PROVE FALSE
      OBVIOUS
    <3>2. k - 1 \in 1..Cardinality(I) /\ k \in 1..Cardinality(I) /\ Cardinality(I) \in Nat
      BY <1>1, <1>2, <3>1, RankCounts
    <3>3. Nth(I, k - 1) \in I /\ Rank(I, Nth(I, k - 1)) = k - 1 /\ Rank(I, i) = k
      BY <1>1, <3>2, NthIsPosition
    <3>4. Nth(I, k - 1) \in 1..n
      BY <1>1, <3>3
    <3>5. ~ (Nth(I, k - 1) < i) /\ Nth(I, k - 1) # i
      BY <1>5, <1>6, <3>2, <3>3
    <3>6. i < Nth(I, k - 1)
      BY <1>4, <3>4, <3>5
    <3>7. i \in 0..n
      BY <1>4
    <3>8. Rank(I, i) < Rank(I, Nth(I, k - 1))
      BY <1>1, <3>3, <3>6, <3>7, RankGrows
    <3>9. QED
      BY <3>2, <3>3, <3>8
  <2>2. QED
    BY <1>4, <1>6, <2>1 DEF LinkedAt, TailAt
<1>7. CASE S # {}
  <2> DEFINE l == Latest(S)
             h == Nth(I, k - 1)
  <2>1. l \in S /\ \A j \in S : j <= l
    <3>1. i - 1 \in Nat /\ S \in SUBSET (1..(i - 1))
      BY <1>4 DEF Indices
    <3>2. QED
      BY <1>7, <3>1, LatestIsGreatest
  <2>2. l \in I /\ l < i
    BY <1>5, <2>1
  <2>3. k - 1 \in 1..Len(slice) /\ h < i /\ l <= h
    BY <1>1, <1>2, <2>2, NthAreNeighbours
  <2>4. h \in I /\ slice[k - 1] = log[h]
    BY <1>2, <2>3
  <2>5. h <= l
    BY <1>5, <2>1, <2>3, <2>4
  <2>6. h = l
    <3>1. h \in 1..n /\ l \in 1..n
      BY <1>1, <2>2, <2>4
    <3>2. QED
      BY <2>3, <2>5, <3>1
  <2>7. k # 1
    BY <2>3
  <2>8. QED
    BY <1>4, <1>7, <2>4, <2>6, <2>7 DEF LinkedAt, TailAt
<1>8. QED
  BY <1>6, <1>7

------------------------------------------------------------------------------
\* Overtakers among the first n entries.
OvertakersAt(w, n) ==
  {i \in start[w] + 1 .. n :
     InSegment(entries[i], TableOf[row[w]], EntityOf[row[w]])}

\* What a writer between its tail read and its append relies on.
ReadsInv ==
  \A w \in Writers : pc[w] = "append" =>
    /\ start[w] <= seen[w]
    /\ prior[w] = TailAt(entries, seen[w], TableOf[row[w]], EntityOf[row[w]])
    /\ Cardinality(OvertakersAt(w, seen[w])) >= attempt[w]

IInv ==
  /\ TypeOK
  /\ Linked(entries)
  /\ Growing(entries)
  /\ ReadsInv
  /\ ConflictsAreContention

------------------------------------------------------------------------------
\* The variables keep their types: hashes are hashes, and a call has met
\* max_attempts conflicts exactly when it has raised.
LEMMA TypeStep == TypeOK /\ [Next]_vars => TypeOK'
<1> SUFFICES ASSUME TypeOK, [Next]_vars PROVE TypeOK'
  OBVIOUS
<1> USE AttemptsAssumption DEF TypeOK
<1>0. Len(entries) \in Nat /\ Len(entries) \in 0..Len(entries)
  BY LenProperties
<1>1. ASSUME NEW w \in Writers, NEW r \in Rows, Call(w, r)
      PROVE  TypeOK'
  BY <1>0, <1>1 DEF Call
<1>2. ASSUME NEW w \in Writers, ReadTail(w)
      PROVE  TypeOK'
  <2>1. SegmentTail(row[w]) \in Hash
    BY <1>0, TailType DEF SegmentTail, TailHash
  <2>2. QED
    BY <1>0, <1>2, <2>1 DEF ReadTail
<1>3. ASSUME NEW w \in Writers, AppendEntry(w)
      PROVE  TypeOK'
  <2>1. NewEntry(row[w], prior[w]) \in Entry
    BY NewEntryType
  <2>2. entries' \in Seq(Entry) /\ Len(entries') = Len(entries) + 1
    BY <1>3, <2>1, AppendProperties DEF AppendEntry
  <2>3. Genesis \in Hash
    BY DEF Genesis, Hash
  <2>4. QED
    BY <1>0, <1>3, <2>2, <2>3 DEF AppendEntry
<1>4. ASSUME NEW w \in Writers, AppendConflict(w)
      PROVE  TypeOK'
  <2>1. Genesis \in Hash
    BY DEF Genesis, Hash
  <2>2. QED
    BY <1>0, <1>4, <2>1 DEF AppendConflict
<1>5. CASE UNCHANGED vars
  BY <1>5 DEF vars
<1>6. QED
  BY <1>1, <1>2, <1>3, <1>4, <1>5 DEF Next, Step

\* The chain changes only by an append on the tail of the row's segment.
LEMMA EntriesStep ==
  ASSUME TypeOK, [Next]_vars
  PROVE  \/ entries' = entries
         \/ \E r \in Rows : entries' = Appended(entries, r)
<1>1. ASSUME NEW w \in Writers, AppendEntry(w)
      PROVE  entries' = Appended(entries, row[w]) /\ row[w] \in Rows
  BY <1>1 DEF AppendEntry, Appended, SegmentTail, TypeOK
<1>2. QED
  BY <1>1 DEF Next, Step, Call, ReadTail, AppendConflict, vars

\* So every entry stays linked to the tail it was appended on, and hashes keep
\* lengthening along each segment.
LEMMA ChainStep ==
  ASSUME TypeOK, Linked(entries), Growing(entries), [Next]_vars
  PROVE  Linked(entries)' /\ Growing(entries)'
<1>1. CASE entries' = entries
  BY <1>1 DEF Linked, Growing, LinkedAt, SameSegment
<1>2. ASSUME NEW r \in Rows, entries' = Appended(entries, r)
      PROVE  Linked(entries)' /\ Growing(entries)'
  <2>1. entries \in Seq(Entry)
    BY DEF TypeOK
  <2>2. Linked(Appended(entries, r)) /\ Growing(Appended(entries, r))
    BY <2>1, AppendKeepsLinked, AppendKeepsGrowing
  <2>3. QED
    BY <1>2, <2>2
<1>3. QED
  BY <1>1, <1>2, EntriesStep

------------------------------------------------------------------------------
\* Overtakers are counted among finitely many positions.
LEMMA OvertakersFinite ==
  ASSUME TypeOK, NEW w \in Writers, NEW n \in 0..Len(entries)
  PROVE  /\ IsFiniteSet(OvertakersAt(w, n))
         /\ Cardinality(OvertakersAt(w, n)) \in Nat
<1>1. start[w] \in Nat /\ n \in Nat
  BY LenProperties DEF TypeOK
<1>2. IsFiniteSet(start[w] + 1 .. n)
  BY <1>1, FS_Interval
<1>3. OvertakersAt(w, n) \in SUBSET (start[w] + 1 .. n)
  BY DEF OvertakersAt
<1>4. QED
  BY <1>2, <1>3, FS_Subset, FS_CardinalityType

\* A larger finite set has at least as many elements, and one more when it
\* holds an element the smaller lacks.
LEMMA CardinalityGrows ==
  ASSUME NEW S, NEW T, IsFiniteSet(T), S \subseteq T
  PROVE  /\ Cardinality(S) <= Cardinality(T)
         /\ \A k \in T \ S : Cardinality(S) + 1 <= Cardinality(T)
<1>1. IsFiniteSet(S) /\ Cardinality(S) <= Cardinality(T)
  BY FS_Subset
<1>2. ASSUME NEW k \in T \ S
      PROVE  Cardinality(S) + 1 <= Cardinality(T)
  <2>1. S \cup {k} \in SUBSET T
    OBVIOUS
  <2>2. Cardinality(S \cup {k}) <= Cardinality(T)
    BY <2>1, FS_Subset
  <2>3. Cardinality(S \cup {k}) = Cardinality(S) + 1
    BY <1>1, FS_AddElement
  <2>4. QED
    BY <2>2, <2>3
<1>3. QED
  BY <1>1, <1>2

\* A tail that moved since position n was moved by an entry of the segment.
LEMMA MovedTail ==
  ASSUME NEW log \in Seq(Entry), NEW n \in 0..Len(log), NEW t, NEW e,
         TailAt(log, n, t, e) # TailHash(log, t, e)
  PROVE  \E k \in n + 1 .. Len(log) : InSegment(log[k], t, e)
<1>1. Len(log) \in Nat
  BY LenProperties
<1>2. SUFFICES ASSUME \A k \in n + 1 .. Len(log) : ~ InSegment(log[k], t, e)
               PROVE  Indices(log, n, t, e) = Indices(log, Len(log), t, e)
  BY DEF TailHash, TailAt
<1>3. QED
  BY <1>1, <1>2 DEF Indices

\* A call that begins has met no conflict.
LEMMA CallContention ==
  ASSUME TypeOK, ReadsInv, ConflictsAreContention,
         NEW w \in Writers, NEW r \in Rows, Call(w, r)
  PROVE  ReadsInv' /\ ConflictsAreContention'
<1>1. \A v \in Writers \ {w} :
        /\ pc'[v] = pc[v] /\ row'[v] = row[v] /\ start'[v] = start[v]
        /\ seen'[v] = seen[v] /\ prior'[v] = prior[v] /\ attempt'[v] = attempt[v]
  BY DEF Call, TypeOK
<1>2. entries' = entries
  BY DEF Call
<1>3. ReadsInv'
  <2>1. pc'[w] = "read"
    BY DEF Call, TypeOK
  <2>2. QED
    BY <1>1, <1>2, <2>1 DEF ReadsInv, OvertakersAt
<1>4. ASSUME NEW v \in Writers
      PROVE  Cardinality(Overtakers(v)') >= attempt'[v]
  <2>1. CASE v = w
    <3>1. attempt'[v] = 0 /\ start'[v] = Len(entries)
      BY <2>1 DEF Call, TypeOK
    <3>2. Overtakers(v)' = {}
      BY <1>2, <3>1, LenProperties DEF Overtakers, TypeOK
    <3>3. QED
      BY <3>1, <3>2, FS_EmptySet
  <2>2. CASE v # w
    BY <1>1, <1>2, <2>2 DEF ConflictsAreContention, Overtakers
  <2>3. QED
    BY <2>1, <2>2
<1>5. QED
  BY <1>3, <1>4 DEF ConflictsAreContention

\* Reading the tail starts the count of what may make the next append fail.
LEMMA ReadTailContention ==
  ASSUME TypeOK, ReadsInv, ConflictsAreContention,
         NEW w \in Writers, ReadTail(w)
  PROVE  ReadsInv' /\ ConflictsAreContention'
<1>1. /\ entries' = entries /\ row' = row /\ attempt' = attempt
      /\ start' = start
  BY DEF ReadTail
<1>2. ConflictsAreContention'
  BY <1>1 DEF ConflictsAreContention, Overtakers
<1>3. ASSUME NEW v \in Writers, pc'[v] = "append"
      PROVE  /\ start'[v] <= seen'[v]
             /\ prior'[v] = TailAt(entries', seen'[v], TableOf[row'[v]], EntityOf[row'[v]])
             /\ Cardinality(OvertakersAt(v, seen[v])') >= attempt'[v]
  <2>1. CASE v = w
    <3>1. seen'[v] = Len(entries) /\ prior'[v] = SegmentTail(row[v])
      BY <2>1 DEF ReadTail, TypeOK
    <3>2. start[v] <= Len(entries)
      BY LenProperties DEF TypeOK
    <3>3. OvertakersAt(v, seen[v])' = Overtakers(v)
      BY <1>1, <3>1 DEF OvertakersAt, Overtakers
    <3>4. QED
      BY <1>1, <3>1, <3>2, <3>3
         DEF ConflictsAreContention, SegmentTail, TailHash
  <2>2. CASE v # w
    <3>1. pc[v] = "append" /\ prior'[v] = prior[v] /\ seen'[v] = seen[v]
      BY <1>3, <2>2 DEF ReadTail, TypeOK
    <3>2. OvertakersAt(v, seen[v])' = OvertakersAt(v, seen[v])
      BY <1>1, <3>1 DEF OvertakersAt
    <3>3. QED
      BY <1>1, <3>1, <3>2 DEF ReadsInv
  <2>3. QED
    BY <2>1, <2>2
<1>4. QED
  BY <1>2, <1>3 DEF ReadsInv

\* An append is one more overtaker for the calls of its segment, and changes
\* nothing a writer has read.
LEMMA AppendContention ==
  ASSUME TypeOK, ReadsInv, ConflictsAreContention,
         NEW w \in Writers, AppendEntry(w)
  PROVE  ReadsInv' /\ ConflictsAreContention'
<1> DEFINE x == NewEntry(row[w], prior[w])
<1>1. /\ row' = row /\ start' = start /\ seen' = seen
      /\ attempt' = [attempt EXCEPT ![w] = 0]
      /\ entries' = Append(entries, x)
      /\ x \in Entry
  BY NewEntryType DEF AppendEntry, TypeOK
<1>2. /\ Len(entries) \in Nat
      /\ Len(entries') = Len(entries) + 1
      /\ Len(entries') \in 0..Len(entries')
      /\ \A i \in 1..Len(entries) : entries'[i] = entries[i]
  BY <1>1, AppendProperties, LenProperties DEF TypeOK
<1>3. TypeOK'
  BY TypeStep DEF Next, Step
<1>4. ASSUME NEW v \in Writers, NEW n \in 0..Len(entries)
      PROVE  OvertakersAt(v, n)' = OvertakersAt(v, n)
  BY <1>1, <1>2 DEF OvertakersAt, TypeOK
<1>5. ASSUME NEW v \in Writers
      PROVE  Cardinality(Overtakers(v)') >= attempt'[v]
  <2>2. IsFiniteSet(Overtakers(v)') /\ Cardinality(Overtakers(v)') \in Nat
    <3>1. start'[v] + 1 \in Int /\ Len(entries') \in Int
      BY <1>2, <1>3 DEF TypeOK
    <3>2. IsFiniteSet(start'[v] + 1 .. Len(entries'))
      BY <3>1, FS_Interval
    <3>3. Overtakers(v)' \in SUBSET (start'[v] + 1 .. Len(entries'))
      BY DEF Overtakers
    <3>4. QED
      BY <3>2, <3>3, FS_Subset, FS_CardinalityType
  <2>3. Overtakers(v) \subseteq Overtakers(v)'
    BY <1>1, <1>2 DEF Overtakers, TypeOK
  <2>4. Cardinality(Overtakers(v)) <= Cardinality(Overtakers(v)')
    BY <2>2, <2>3, CardinalityGrows
  <2>5. CASE v = w
    BY <1>1, <2>2, <2>5 DEF TypeOK
  <2>6. CASE v # w
    <3>1. attempt'[v] = attempt[v] /\ attempt[v] \in Nat
      BY <1>1, <2>6, AttemptsAssumption DEF TypeOK
    <3>2. Cardinality(Overtakers(v)) \in Nat
      BY <2>2, <2>3, FS_Subset, FS_CardinalityType
    <3>3. QED
      BY <2>2, <2>4, <3>1, <3>2 DEF ConflictsAreContention
  <2>7. QED
    BY <2>5, <2>6
<1>6. ASSUME NEW v \in Writers, pc'[v] = "append"
      PROVE  /\ start'[v] <= seen'[v]
             /\ prior'[v] = TailAt(entries', seen'[v], TableOf[row'[v]], EntityOf[row'[v]])
             /\ Cardinality(OvertakersAt(v, seen[v])') >= attempt'[v]
  <2>1. v # w
    BY <1>6 DEF AppendEntry, TypeOK
  <2>2. pc[v] = "append" /\ prior'[v] = prior[v] /\ attempt'[v] = attempt[v]
    BY <1>6, <2>1 DEF AppendEntry, TypeOK
  <2>3. seen[v] \in 0..Len(entries)
    BY DEF TypeOK
  <2>4. TailAt(entries', seen[v], TableOf[row[v]], EntityOf[row[v]])
          = TailAt(entries, seen[v], TableOf[row[v]], EntityOf[row[v]])
    BY <1>1, <2>3, AppendKeepsTails DEF TypeOK
  <2>5. OvertakersAt(v, seen[v])' = OvertakersAt(v, seen[v])
    BY <1>1, <1>4, <2>3 DEF OvertakersAt
  <2>6. QED
    BY <1>1, <2>2, <2>4, <2>5 DEF ReadsInv
<1>7. QED
  BY <1>5, <1>6 DEF ReadsInv, ConflictsAreContention

\* A conflict means an entry of the segment landed after the tail was read,
\* one that no earlier conflict of the call accounts for.
LEMMA ConflictContention ==
  ASSUME TypeOK, ReadsInv, ConflictsAreContention,
         NEW w \in Writers, AppendConflict(w)
  PROVE  ReadsInv' /\ ConflictsAreContention'
<1>1. /\ entries' = entries /\ row' = row /\ start' = start /\ seen' = seen
      /\ attempt' = [attempt EXCEPT ![w] = @ + 1]
  BY DEF AppendConflict
<1>2. pc'[w] # "append"
  BY DEF AppendConflict, TypeOK
<1>3. ReadsInv'
  <2>1. \A v \in Writers \ {w} :
          pc'[v] = pc[v] /\ prior'[v] = prior[v] /\ attempt'[v] = attempt[v]
    BY DEF AppendConflict, TypeOK
  <2>2. QED
    BY <1>1, <1>2, <2>1 DEF ReadsInv, OvertakersAt
<1>4. Cardinality(Overtakers(w)) >= attempt[w] + 1
  <2> DEFINE t == TableOf[row[w]]
             e == EntityOf[row[w]]
  <2>1. /\ Len(entries) \in Nat /\ Len(entries) \in 0..Len(entries)
        /\ entries \in Seq(Entry)
        /\ seen[w] \in 0..Len(entries) /\ start[w] \in 0..Len(entries)
    BY LenProperties DEF TypeOK
  <2>2. /\ start[w] <= seen[w]
        /\ Cardinality(OvertakersAt(w, seen[w])) >= attempt[w]
        /\ TailAt(entries, seen[w], t, e) # TailHash(entries, t, e)
    BY DEF ReadsInv, AppendConflict, SegmentTail
  <2>3. PICK k \in seen[w] + 1 .. Len(entries) : InSegment(entries[k], t, e)
    BY <2>1, <2>2, MovedTail
  <2>4. Overtakers(w) = OvertakersAt(w, Len(entries))
    BY DEF Overtakers, OvertakersAt
  <2>5. /\ OvertakersAt(w, seen[w]) \subseteq Overtakers(w)
        /\ k \in Overtakers(w) \ OvertakersAt(w, seen[w])
    BY <2>1, <2>2, <2>3 DEF Overtakers, OvertakersAt
  <2>6. /\ IsFiniteSet(Overtakers(w)) /\ Cardinality(Overtakers(w)) \in Nat
        /\ Cardinality(OvertakersAt(w, seen[w])) \in Nat
    BY <2>1, <2>4, OvertakersFinite
  <2>7. Cardinality(OvertakersAt(w, seen[w])) + 1 <= Cardinality(Overtakers(w))
    BY <2>5, <2>6, CardinalityGrows
  <2>8. attempt[w] \in Nat
    BY AttemptsAssumption DEF TypeOK
  <2>9. QED
    BY <2>2, <2>6, <2>7, <2>8
<1>5. ASSUME NEW v \in Writers
      PROVE  Cardinality(Overtakers(v)') >= attempt'[v]
  <2>1. Overtakers(v)' = Overtakers(v)
    BY <1>1 DEF Overtakers
  <2>2. attempt'[v] = IF v = w THEN attempt[w] + 1 ELSE attempt[v]
    BY <1>1 DEF TypeOK
  <2>3. QED
    BY <1>4, <2>1, <2>2 DEF ConflictsAreContention
<1>6. QED
  BY <1>3, <1>5 DEF ConflictsAreContention

------------------------------------------------------------------------------
\* The empty chain, with no call in progress, satisfies the invariant.
LEMMA InitIInv == Init => IInv
<1> SUFFICES ASSUME Init PROVE IInv
  OBVIOUS
<1>1. entries = << >> /\ entries \in Seq(Entry) /\ Len(entries) = 0
  BY DEF Init
<1>2. TypeOK
  <2>1. AnyRow \in Rows
    BY AttemptsAssumption DEF AnyRow
  <2>2. Genesis \in Hash
    BY DEF Genesis, Hash
  <2>3. QED
    BY <1>1, <2>1, <2>2, AttemptsAssumption DEF Init, TypeOK
<1>3. Linked(entries) /\ Growing(entries)
  BY <1>1 DEF Linked, Growing
<1>4. ReadsInv
  BY DEF Init, ReadsInv
<1>5. ConflictsAreContention
  <2>1. ASSUME NEW w \in Writers
        PROVE  Overtakers(w) = {} /\ attempt[w] = 0
    BY <1>1 DEF Init, Overtakers
  <2>2. QED
    BY <2>1, FS_EmptySet DEF ConflictsAreContention
<1>6. QED
  BY <1>2, <1>3, <1>4, <1>5 DEF IInv

\* Every step of append_row keeps it.
LEMMA StepIInv == IInv /\ [Next]_vars => IInv'
<1> SUFFICES ASSUME IInv, [Next]_vars PROVE IInv'
  OBVIOUS
<1> USE DEF IInv
<1>1. TypeOK'
  BY TypeStep
<1>2. Linked(entries)' /\ Growing(entries)'
  BY ChainStep
<1>3. ReadsInv' /\ ConflictsAreContention'
  <2>1. CASE UNCHANGED vars
    BY <2>1 DEF vars, ReadsInv, ConflictsAreContention, Overtakers, OvertakersAt
  <2>2. CASE Next
    BY <2>2, CallContention, ReadTailContention, AppendContention,
       ConflictContention DEF Next, Step
  <2>3. QED
    BY <2>1, <2>2
<1>4. QED
  BY <1>1, <1>2, <1>3

\* The invariant the results below follow from: beside the types, every entry
\* extends the tail its segment had, hashes lengthen along a segment, and each
\* conflict a call has met is accounted for by an overtaker of its own.
THEOREM Invariance == Spec => []IInv
BY InitIInv, StepIInv, PTL DEF Spec

\* The type invariant of the appender and its store.
THEOREM TypeCorrect == Spec => []TypeOK
<1>1. IInv => TypeOK
  BY DEF IInv
<1>2. QED
  BY <1>1, Invariance, PTL

\* However many writers race, no two entries of a segment a caller can verify
\* carry the same prior hash.
THEOREM NeverForks == Spec => []NoFork
<1>1. IInv => NoFork
  BY LinkedGrowingForkFree DEF IInv, NoFork, TypeOK
<1>2. QED
  BY <1>1, Invariance, PTL

\* In every segment a caller can verify, each entry's prior hash is the hash of
\* the segment's previous entry (or genesis) and its hash is recomputable: what
\* the loop of verify_chain_segment tests on the segment's slice.
SegmentsLinked ==
  \A t \in Tables, e \in Entities \union {NoEntity} : Verifiable(t, e) =>
    \A i \in Indices(entries, Len(entries), t, e) : LinkedAt(entries, i, t, e)

\* The chain is always linked segment by segment.
THEOREM ChainLinked == Spec => []SegmentsLinked
<1>1. IInv => SegmentsLinked
  <2> SUFFICES ASSUME IInv, NEW t \in Tables, NEW e \in Entities \union {NoEntity},
                      Verifiable(t, e), NEW i \in Indices(entries, Len(entries), t, e)
               PROVE  LinkedAt(entries, i, t, e)
    BY DEF SegmentsLinked
  <2>1. i \in 1..Len(entries) /\ InSegment(entries[i], t, e)
    BY DEF Indices
  <2>2. entries[i].row \in Rows
    <3>1. entries \in Seq(Entry)
      BY DEF IInv, TypeOK
    <3>2. entries[i] \in Entry
      BY <2>1, <3>1, ElementOfSeq
    <3>3. QED
      BY <3>2 DEF Entry
  <2>3. TableOf[entries[i].row] = t /\ EntityOf[entries[i].row] = e
    BY <2>1, <2>2, RowsAssumption DEF InSegment, Verifiable
  <2>4. LinkedAt(entries, i, TableOf[entries[i].row], EntityOf[entries[i].row])
    BY <2>1 DEF IInv, Linked
  <2>5. QED
    BY <2>3, <2>4
<1>2. QED
  BY <1>1, Invariance, PTL

\* verify_chain_segment therefore accepts the entries of every such segment,
\* from genesis on, at every moment and whatever appends have raced.
THEOREM EverySegmentVerifies == Spec => []SegmentsVerify
<1>1. TypeOK /\ SegmentsLinked => SegmentsVerify
  BY LinkedSegmentVerifies DEF TypeOK, SegmentsLinked, SegmentsVerify
<1>2. QED
  BY <1>1, TypeCorrect, ChainLinked, PTL

\* ChainConflictError reaches a caller only when its own segment grew by at
\* least max_attempts entries during the call.
THEOREM ConflictsJustified == Spec => []ConflictsAreContention
<1>1. IInv => ConflictsAreContention
  BY DEF IInv
<1>2. QED
  BY <1>1, Invariance, PTL

\* Each step of the appenders is a step of the abstract chain: one entry on the
\* tail of its segment, or nothing.
THEOREM RefinesChainLog == Spec => ImplementsChainLog
<1>1. Init => Log!Init
  BY DEF Init, Log!Init
<1>2. IInv /\ [Next]_vars => [Log!Next]_(Log!logVars)
  <2> SUFFICES ASSUME IInv, [Next]_vars PROVE [Log!Next]_(Log!logVars)
    OBVIOUS
  <2>1. CASE entries' = entries
    BY <2>1 DEF Log!logVars
  <2>2. ASSUME NEW r \in Rows, entries' = Appended(entries, r)
        PROVE  Log!Next
    <3> DEFINE x == NewEntry(r, TailHash(entries, TableOf[r], EntityOf[r]))
    <3>1. entries \in Seq(Entry) /\ Len(entries) \in 0..Len(entries)
      BY LenProperties DEF IInv, TypeOK
    <3>2. x \in Entry
      BY <3>1, TailType, NewEntryType DEF TailHash
    <3>3. Len(entries') = Len(entries) + 1
      BY <2>2, <3>1, <3>2, AppendProperties DEF Appended
    <3>4. Log!Commit(r)
      BY <2>2, <3>3
         DEF Appended, NewEntry, HashOf, TailHash, TailAt, Indices, InSegment,
             Latest, Genesis, Log!Commit, Log!NewEntry, Log!HashOf,
             Log!TailHash, Log!TailAt, Log!Indices, Log!InSegment, Log!Latest,
             Log!Genesis
    <3>5. QED
      BY <3>4 DEF Log!Next
  <2>3. QED
    BY <2>1, <2>2, EntriesStep DEF IInv
<1>3. QED
  BY <1>1, <1>2, Invariance, PTL DEF Spec, ImplementsChainLog, Log!Spec
==============================================================================
