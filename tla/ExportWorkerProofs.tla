--------------------------- MODULE ExportWorkerProofs ---------------------------
(***************************************************************************)
(* Proofs about ExportWorker: the order in which exporters are given the   *)
(* records of a thread, and what a wait that returned True may have left   *)
(* behind, for any number of callers, calls and deaths of the worker.      *)
(***************************************************************************)
EXTENDS ExportWorker, SequenceTheorems, TLAPS

Held(g) == hand[g] # NoItem

\* What a caller is about to put, and where: its own item, numbered by its call.
CallersHold ==
  \A c \in Callers : pc[c] # "idle" =>
    /\ item[c] \in Items /\ item[c].by = c /\ item[c].n <= calls
    /\ IsSentinel(item[c]) <=> pc[c] # "put"
    /\ pc[c] # "check" => mine[c] \in Generations

\* A worker that does not run holds nothing and is replaced only after it has
\* died; a queue nobody has made yet is empty.
WorkersAreReplaced ==
  /\ alive \subseteq Generations
  /\ gen \notin alive => gen <= deaths
  /\ \A g \in Generations : (g \notin alive => ~ Held(g)) /\ (g > gen => queue[g] = << >>)

\* An item some queue, worker or exporter has, or had.
Out(x) ==
  \/ x \in Range(handed) \/ x \in landed
  \/ \E g \in Generations : x \in Range(queue[g]) \/ (Held(g) /\ x = hand[g])

\* A caller's next item is newer than all it has put.
OutIsOlder ==
  \A x \in Items : Out(x) =>
    /\ x.n <= calls
    /\ \A c \in Callers : pc[c] \in {"put", "check", "sentinel"} /\ x.by = c => x.n < item[c].n

Behind(y, x) == x.by = y.by => x.n < y.n

\* Each thread's items are in line: in a queue, in the hand of its worker before
\* them, and those handed over before both.
InLine ==
  /\ \A g \in Generations : \A k, l \in DOMAIN queue[g] : k < l => Behind(queue[g][l], queue[g][k])
  /\ \A g \in alive : Held(g) => \A k \in DOMAIN queue[g] : Behind(queue[g][k], hand[g])
  /\ \A g \in alive, i \in DOMAIN handed :
       /\ Held(g) => Behind(hand[g], handed[i])
       /\ \A k \in DOMAIN queue[g] : Behind(queue[g][k], handed[i])

\* A record the exporter has been given, or that nobody will read.
Settled(r) == r \in Range(handed) \/ r \in Stranded

\* A record a live worker has or will read.
AtWorker(r, g) == g \in alive /\ (r = hand[g] \/ r \in Range(queue[g]))

\* A record a live worker will be done with before it reads sentinel s.
AheadOf(r, s, g) ==
  /\ g \in alive /\ s \notin landed
  /\ \/ r = hand[g]
     \/ \E k, l \in DOMAIN queue[g] : k < l /\ queue[g][k] = r /\ queue[g][l] = s

\* No record is lost between a queue and its exporter, and a wait is for every
\* record it found: none of them can pass the sentinel.
RecordsAreFollowed ==
  /\ \A r \in put : Settled(r) \/ \E g \in Generations : AtWorker(r, g)
  /\ \A c \in Callers : pc[c] \in {"check", "sentinel"} =>
       \A r \in before[c] : Settled(r) \/ AtWorker(r, mine[c])
  /\ \A c \in Callers : pc[c] = "wait" =>
       \A r \in before[c] : Settled(r) \/ AheadOf(r, item[c], mine[c])

IInv ==
  /\ TypeOK /\ CallersHold /\ WorkersAreReplaced /\ OutIsOlder /\ InLine /\ InOrder
  /\ RecordsAreFollowed /\ MissedAreStranded

------------------------------------------------------------------------------
\* The items of a queue as it grows at one end and shrinks at the other.
LEMMA RangeOfAppend ==
  ASSUME NEW S, NEW s \in Seq(S), NEW x \in S
  PROVE  /\ Range(Append(s, x)) = Range(s) \union {x}
         /\ \A k \in DOMAIN s : k \in DOMAIN Append(s, x) /\ Append(s, x)[k] = s[k]
         /\ \A k \in DOMAIN Append(s, x) :
              (k \in DOMAIN s /\ Append(s, x)[k] = s[k]) \/ (k = Len(s) + 1 /\ Append(s, x)[k] = x)
         /\ Len(s) + 1 \in DOMAIN Append(s, x) /\ Append(s, x)[Len(s) + 1] = x
         /\ \A k \in DOMAIN s : k < Len(s) + 1
<1>1. /\ \A k \in DOMAIN s : k \in DOMAIN Append(s, x) /\ Append(s, x)[k] = s[k]
      /\ \A k \in DOMAIN Append(s, x) :
           (k \in DOMAIN s /\ Append(s, x)[k] = s[k]) \/ (k = Len(s) + 1 /\ Append(s, x)[k] = x)
      /\ Len(s) + 1 \in DOMAIN Append(s, x) /\ Append(s, x)[Len(s) + 1] = x
      /\ \A k \in DOMAIN s : k < Len(s) + 1
  OBVIOUS
<1>2. Range(Append(s, x)) = Range(s) \union {x}
  BY <1>1 DEF Range
<1>3. QED
  BY <1>1, <1>2

\* Taking the head off a nonempty queue.
LEMMA RangeOfTail ==
  ASSUME NEW S, NEW s \in Seq(S), s # << >>
  PROVE  /\ Tail(s) \in Seq(S) /\ Head(s) \in S
         /\ Range(s) = Range(Tail(s)) \union {Head(s)}
         /\ \A k \in DOMAIN Tail(s) : k + 1 \in DOMAIN s /\ Tail(s)[k] = s[k + 1]
         /\ \A k \in DOMAIN s : k = 1 \/ k - 1 \in DOMAIN Tail(s)
         /\ 1 \in DOMAIN s /\ Head(s) = s[1]
<1>1. /\ Tail(s) \in Seq(S) /\ Head(s) \in S
      /\ \A k \in DOMAIN Tail(s) : k + 1 \in DOMAIN s /\ Tail(s)[k] = s[k + 1]
      /\ \A k \in DOMAIN s : k = 1 \/ (k - 1 \in DOMAIN Tail(s) /\ Tail(s)[k - 1] = s[k])
      /\ 1 \in DOMAIN s /\ Head(s) = s[1]
  OBVIOUS
<1>2. Range(s) = Range(Tail(s)) \union {Head(s)}
  <2>1. ASSUME NEW k \in DOMAIN s
        PROVE  s[k] \in Range(Tail(s)) \union {Head(s)}
    BY <1>1 DEF Range
  <2>2. ASSUME NEW k \in DOMAIN Tail(s)
        PROVE  Tail(s)[k] \in Range(s)
    BY <1>1 DEF Range
  <2>3. Head(s) \in Range(s)
    BY <1>1 DEF Range
  <2>4. QED
    BY <2>1, <2>2, <2>3 DEF Range
<1>3. QED
  BY <1>1, <1>2

\* Facts about types that the steps below use.
LEMMA Types ==
  ASSUME TypeOK
  PROVE  /\ gen \in Nat /\ calls \in Nat /\ deaths \in Nat
         /\ MaxCalls \in Nat /\ MaxDeaths \in Nat
         /\ \A g \in Generations : g \in Nat /\ queue[g] \in Seq(Items)
         /\ \A g \in Generations : Held(g) => hand[g] \in Items
         /\ handed \in Seq(Records)
         /\ \A x \in Items : x.n \in Nat /\ x.n \in 1..MaxCalls
         /\ \A x \in Items : ~ IsSentinel(x) <=> x \in Records
         /\ Records \subseteq Items
<1>1. /\ \A x \in Items : x.n \in Nat /\ x.n \in 1..MaxCalls
      /\ \A x \in Items : ~ IsSentinel(x) <=> x \in Records
      /\ Records \subseteq Items
  BY BoundsAssumption DEF Items, Records, IsSentinel
<1>2. QED
  BY <1>1, BoundsAssumption DEF TypeOK, Generations, Held

\* Every step puts an item, moves one on, or leaves queues and exporters alone
\* and at most makes a new worker for one that does not run.
LEMMA Kinds ==
  ASSUME [Next]_vars
  PROVE  \/ \E c \in Callers : Put(c) \/ PutSentinel(c)
         \/ \E g \in Generations : Get(g) \/ Process(g) \/ Die(g)
         \/ /\ UNCHANGED <<queue, hand, handed, landed, put>>
            /\ \/ UNCHANGED <<gen, alive>>
               \/ gen \notin alive /\ gen' = gen + 1 /\ alive' = alive \union {gen + 1}
<1>1. ASSUME NEW c \in Callers, Enqueue(c)
      PROVE  /\ UNCHANGED <<queue, hand, handed, landed, put>>
             /\ \/ UNCHANGED <<gen, alive>>
                \/ gen \notin alive /\ gen' = gen + 1 /\ alive' = alive \union {gen + 1}
  BY <1>1 DEF Enqueue, history
<1>2. ASSUME NEW c \in Callers,
             Wait(c) \/ CheckDead(c) \/ CheckAlive(c) \/ WaitReturns(c) \/ WaitTimesOut(c)
      PROVE  UNCHANGED <<queue, hand, handed, landed, put, gen, alive>>
  BY <1>2 DEF Wait, CheckDead, CheckAlive, WaitReturns, WaitTimesOut, Drained, history, worker
<1>3. CASE UNCHANGED vars
  BY <1>3 DEF vars, worker, history
<1>4. QED
  BY <1>1, <1>2, <1>3 DEF Next, CallerStep, WorkerStep

\* Every step keeps the types.
LEMMA TypeStep ==
  ASSUME TypeOK, CallersHold, WorkersAreReplaced, [Next]_vars
  PROVE  TypeOK'
<1> USE BoundsAssumption
<1>1. Generations' = Generations /\ Items' = Items /\ Records' = Records
  BY DEF Generations, Items, Records
<1>2. ASSUME NEW c \in Callers, Enqueue(c)
      PROVE  TypeOK'
  <2>1. Record(c) \in Items /\ calls' \in 0..MaxCalls
    BY <1>2 DEF Enqueue, Begin, Record, Items, Records, TypeOK
  <2>2. gen' \in 0..(MaxDeaths + 1) /\ alive' \subseteq {gen'} /\ gen' <= deaths + 1 /\ gen <= gen'
    <3>1. /\ gen \in 0..(MaxDeaths + 1) /\ deaths \in 0..MaxDeaths /\ gen <= deaths + 1
          /\ alive \subseteq {gen}
          /\ gen \notin alive => gen <= deaths
      BY DEF TypeOK, WorkersAreReplaced
    <3>2. CASE gen \in alive
      <4>1. gen' = gen /\ alive' = alive
        BY <1>2, <3>2 DEF Enqueue
      <4>2. QED
        BY <3>1, <4>1
    <3>3. CASE gen \notin alive
      <4>1. gen' = gen + 1 /\ alive' = alive \union {gen + 1}
        BY <1>2, <3>3 DEF Enqueue
      <4>2. alive = {}
        BY <3>1, <3>3
      <4>3. QED
        BY <3>1, <3>3, <4>1, <4>2
    <3>4. QED
      BY <3>2, <3>3
  <2>3. /\ mine' = [mine EXCEPT ![c] = gen'] /\ item' = [item EXCEPT ![c] = Record(c)]
        /\ pc' = [pc EXCEPT ![c] = "put"]
        /\ UNCHANGED <<queue, hand, landed, deaths, put, handed, before, missed>>
    BY <1>2 DEF Enqueue, Begin, history
  <2>4. mine \in [Callers -> 0..gen'] /\ gen' \in 0..gen'
    BY <2>2 DEF TypeOK
  <2>5. mine' \in [Callers -> 0..gen']
    BY <2>3, <2>4
  <2>6. QED
    BY <1>1, <2>1, <2>2, <2>3, <2>5 DEF TypeOK
<1>3. ASSUME NEW c \in Callers, Put(c)
      PROVE  TypeOK'
  <2>1. item[c] \in Records
    BY <1>3 DEF Put, CallersHold, Items, Records, IsSentinel
  <2>2. item[c] \in Items /\ mine[c] \in Generations
    BY <1>3 DEF Put, CallersHold
  <2>3. queue' \in [Generations -> Seq(Items)]
    BY <1>3, <2>2 DEF Put, TypeOK
  <2>4. QED
    BY <1>1, <1>3, <2>1, <2>3 DEF Put, Return, TypeOK
<1>4. ASSUME NEW g \in Generations, Get(g)
      PROVE  TypeOK'
  <2>1. queue[g] \in Seq(Items) /\ queue[g] # << >>
    BY <1>4 DEF Get, TypeOK
  <2>2. Head(queue[g]) \in Items /\ Tail(queue[g]) \in Seq(Items)
    BY <2>1, RangeOfTail
  <2>3. /\ hand' = [hand EXCEPT ![g] = Head(queue[g])]
        /\ queue' = [queue EXCEPT ![g] = Tail(queue[g])]
        /\ UNCHANGED <<gen, alive, pc, mine, item, landed, calls, deaths, put, handed, before, missed>>
    BY <1>4 DEF Get, caller, history
  <2>4. queue' \in [Generations -> Seq(Items)] /\ hand' \in [Generations -> Items \union {NoItem}]
    BY <2>2, <2>3 DEF TypeOK
  <2>5. QED
    BY <1>1, <2>3, <2>4 DEF TypeOK
<1>5. ASSUME NEW g \in Generations, Process(g) \/ Die(g)
      PROVE  TypeOK'
  <2>1. hand[g] \in Items /\ (~ IsSentinel(hand[g]) => hand[g] \in Records)
    BY <1>5 DEF Process, Die, TypeOK, Items, Records, IsSentinel
  <2>2. /\ landed' = landed \/ landed' = landed \union {hand[g]}
        /\ handed' = handed \/ (~ IsSentinel(hand[g]) /\ handed' = Append(handed, hand[g]))
        /\ alive' \subseteq alive /\ deaths' \in 0..MaxDeaths /\ deaths <= deaths'
        /\ hand' = [hand EXCEPT ![g] = NoItem]
        /\ UNCHANGED <<gen, queue, pc, mine, item, calls, put, before, missed>>
    <3>1. deaths \in 0..MaxDeaths
      BY DEF TypeOK
    <3>2. CASE Process(g)
      BY <3>1, <3>2 DEF Process, HandOver, caller
    <3>3. CASE Die(g)
      BY <3>1, <3>3 DEF Die, HandOver, caller
    <3>4. QED
      BY <1>5, <3>2, <3>3
  <2>3. landed' \subseteq Items /\ handed' \in Seq(Records)
    <3>1. landed \subseteq Items /\ handed \in Seq(Records)
      BY DEF TypeOK
    <3>2. landed' \subseteq Items
      BY <2>1, <2>2, <3>1
    <3>3. handed' \in Seq(Records)
      BY <2>1, <2>2, <3>1, AppendProperties
    <3>4. QED
      BY <3>2, <3>3
  <2>4. alive' \subseteq {gen} /\ gen <= deaths' + 1
    <3>1. alive \subseteq {gen}
      BY DEF TypeOK
    <3>2. gen \in Nat /\ deaths \in Nat /\ gen <= deaths + 1
      BY Types DEF TypeOK
    <3>3. deaths <= deaths' /\ deaths' \in Nat
      <4>1. deaths <= deaths' /\ deaths' \in 0..MaxDeaths
        BY <2>2, Zenon
      <4>2. QED
        BY <4>1
    <3>4. gen <= deaths' + 1
      <4>1. PICK n \in Nat : n = deaths'
        BY <3>3
      <4>2. deaths <= n
        BY <3>3, <4>1, Zenon
      <4>3. gen <= n + 1
        BY <3>2, <4>2
      <4>4. QED
        BY <4>1, <4>3, Zenon
    <3>5. QED
      BY <2>2, <3>1, <3>4
  <2>5. QED
    BY <1>1, <2>2, <2>3, <2>4 DEF TypeOK
<1>6. ASSUME NEW c \in Callers, Wait(c)
      PROVE  TypeOK'
  <2>1. Sentinel(c) \in Items /\ calls' \in 0..MaxCalls
    BY <1>6 DEF Wait, Begin, Sentinel, Items, TypeOK
  <2>2. /\ mine' = [mine EXCEPT ![c] = gen] /\ item' = [item EXCEPT ![c] = Sentinel(c)]
        /\ pc' = [pc EXCEPT ![c] = "check"] /\ before' = [before EXCEPT ![c] = put]
        /\ UNCHANGED <<gen, queue, alive, hand, landed, deaths, put, handed, missed>>
    BY <1>6 DEF Wait, Begin, worker
  <2>3. gen \in 0..gen
    BY DEF TypeOK
  <2>4. QED
    BY <1>1, <2>1, <2>2, <2>3 DEF TypeOK
<1>7. ASSUME NEW c \in Callers, CheckDead(c) \/ WaitReturns(c)
      PROVE  TypeOK'
  <2>1. /\ pc' = [pc EXCEPT ![c] = "idle"] /\ mine' = [mine EXCEPT ![c] = 0]
        /\ item' = [item EXCEPT ![c] = NoItem] /\ before' = [before EXCEPT ![c] = {}]
        /\ missed' = missed \union
             {[record |-> r, heard |-> pc[c] = "wait"] : r \in before[c] \ Range(handed)}
        /\ UNCHANGED <<gen, queue, alive, hand, landed, calls, deaths, put, handed>>
    BY <1>7 DEF CheckDead, WaitReturns, Drained, Return, worker
  <2>2. before[c] \subseteq Records
    BY DEF TypeOK
  <2>3. missed' \subseteq [record : Records, heard : BOOLEAN]
    <3>1. \A r \in before[c] : [record |-> r, heard |-> pc[c] = "wait"]
                                \in [record : Records, heard : BOOLEAN]
      BY <2>2
    <3>2. missed \subseteq [record : Records, heard : BOOLEAN]
      BY DEF TypeOK
    <3>3. QED
      BY <2>1, <3>1, <3>2
  <2>4. 0 \in 0..gen
    BY DEF TypeOK
  <2>5. QED
    BY <1>1, <2>1, <2>3, <2>4 DEF TypeOK
<1>8. ASSUME NEW c \in Callers, CheckAlive(c)
      PROVE  TypeOK'
  BY <1>1, <1>8 DEF CheckAlive, worker, history, TypeOK
<1>9. ASSUME NEW c \in Callers, PutSentinel(c)
      PROVE  TypeOK'
  <2>1. item[c] \in Items /\ mine[c] \in Generations
    BY <1>9 DEF PutSentinel, CallersHold
  <2>2. queue' \in [Generations -> Seq(Items)]
    BY <1>9, <2>1 DEF PutSentinel, TypeOK
  <2>3. QED
    BY <1>1, <1>9, <2>2 DEF PutSentinel, history, TypeOK
<1>10. ASSUME NEW c \in Callers, WaitTimesOut(c)
       PROVE  TypeOK'
  <2>1. 0 \in 0..gen
    BY DEF TypeOK
  <2>2. QED
    BY <1>1, <1>10, <2>1 DEF WaitTimesOut, Return, worker, TypeOK
<1>11. CASE UNCHANGED vars
  BY <1>1, <1>11 DEF vars, worker, caller, history, TypeOK
<1>12. QED
  BY <1>2, <1>3, <1>4, <1>5, <1>6, <1>7, <1>8, <1>9, <1>10, <1>11
     DEF Next, CallerStep, WorkerStep

------------------------------------------------------------------------------
\* Callers hold what their call is about, and workers are replaced once dead.
LEMMA ShapeStep ==
  ASSUME TypeOK, CallersHold, WorkersAreReplaced, [Next]_vars
  PROVE  CallersHold' /\ WorkersAreReplaced'
<1> USE BoundsAssumption
<1>1. Generations' = Generations /\ Items' = Items
  BY DEF Generations, Items, Records
<1>2. /\ gen \in Nat /\ calls \in Nat /\ deaths \in Nat /\ alive \subseteq {gen}
      /\ alive \subseteq Generations
  BY Types DEF TypeOK, WorkersAreReplaced
\* What a step may do to callers.
<1>3. ASSUME calls \in Nat, calls' \in Nat, calls <= calls',
             \A c \in Callers :
               \/ pc'[c] = "idle"
               \/ pc'[c] = pc[c] /\ item'[c] = item[c] /\ mine'[c] = mine[c]
               \/ /\ pc'[c] # "idle" => item'[c] \in Items /\ item'[c].by = c /\ item'[c].n <= calls'
                  /\ IsSentinel(item'[c]) <=> pc'[c] # "put"
                  /\ pc'[c] # "check" => mine'[c] \in Generations
      PROVE  CallersHold'
  <2>1. ASSUME NEW c \in Callers, pc'[c] = pc[c], item'[c] = item[c], mine'[c] = mine[c],
               pc[c] # "idle"
        PROVE  /\ item'[c] \in Items /\ item'[c].by = c /\ item'[c].n <= calls'
               /\ IsSentinel(item'[c]) <=> pc'[c] # "put"
               /\ pc'[c] # "check" => mine'[c] \in Generations
    <3>1. /\ item[c] \in Items /\ item[c].by = c /\ item[c].n <= calls
          /\ IsSentinel(item[c]) <=> pc[c] # "put"
          /\ pc[c] # "check" => mine[c] \in Generations
      BY <2>1 DEF CallersHold
    <3>2. item[c].n \in Nat
      BY <3>1, Types
    <3>3. QED
      BY <1>3, <2>1, <3>1, <3>2
  <2>2. QED
    BY <1>1, <1>3, <2>1 DEF CallersHold, IsSentinel
<1>4. ASSUME NEW c \in Callers, Enqueue(c)
      PROVE  CallersHold' /\ WorkersAreReplaced'
  <2>1. /\ pc' = [pc EXCEPT ![c] = "put"] /\ calls' = calls + 1 /\ calls < MaxCalls
        /\ mine' = [mine EXCEPT ![c] = gen'] /\ item' = [item EXCEPT ![c] = Record(c)]
        /\ UNCHANGED <<queue, hand, deaths>>
    BY <1>4 DEF Enqueue, Begin
  <2>2. Record(c) \in Items /\ Record(c).by = c /\ Record(c).n <= calls' /\ ~ IsSentinel(Record(c))
    BY <1>2, <2>1 DEF Record, Items, Records, IsSentinel
  <2>3. gen' \in Generations
    <3>1. CASE gen \in alive
      BY <1>2, <1>4, <3>1 DEF Enqueue
    <3>2. CASE gen \notin alive
      <4>1. gen <= deaths /\ deaths <= MaxDeaths /\ gen' = gen + 1
        BY <1>4, <3>2 DEF Enqueue, WorkersAreReplaced, TypeOK
      <4>2. QED
        BY <1>2, <4>1 DEF Generations
    <3>3. QED
      BY <3>1, <3>2
  <2>4. /\ pc'[c] = "put" /\ item'[c] = Record(c) /\ mine'[c] = gen'
        /\ \A d \in Callers \ {c} : pc'[d] = pc[d] /\ item'[d] = item[d] /\ mine'[d] = mine[d]
    BY <2>1 DEF TypeOK
  <2>5. CallersHold'
    BY <1>2, <1>3, <2>1, <2>2, <2>3, <2>4
  <2>6. WorkersAreReplaced'
    <3>1. CASE gen \in alive
      BY <1>1, <1>4, <2>1, <3>1 DEF Enqueue, WorkersAreReplaced, Held
    <3>2. CASE gen \notin alive
      <4>1. gen' = gen + 1 /\ alive' = alive \union {gen + 1}
        BY <1>4, <3>2 DEF Enqueue
      <4>2. \A g \in Generations : g \in Nat
        BY DEF Generations
      <4>3. alive' \subseteq Generations /\ gen' \in alive'
        BY <1>2, <2>3, <4>1
      <4>4. ASSUME NEW g \in Generations
            PROVE  /\ g \notin alive' => hand'[g] = NoItem
                   /\ g > gen' => queue'[g] = << >>
        <5>1. g > gen' => g > gen
          BY <1>2, <4>1, <4>2
        <5>2. QED
          BY <2>1, <4>1, <5>1 DEF WorkersAreReplaced, Held
      <4>5. QED
        BY <1>1, <4>3, <4>4 DEF WorkersAreReplaced, Held
    <3>3. QED
      BY <3>1, <3>2
  <2>7. QED
    BY <2>5, <2>6
<1>5. ASSUME NEW c \in Callers, Put(c) \/ PutSentinel(c)
      PROVE  CallersHold' /\ WorkersAreReplaced'
  <2>1. /\ pc[c] \in {"put", "sentinel"}
        /\ queue' = [queue EXCEPT ![mine[c]] = Append(@, item[c])]
        /\ UNCHANGED <<gen, alive, hand, calls, deaths>>
        /\ \/ pc' = [pc EXCEPT ![c] = "idle"] /\ mine' = [mine EXCEPT ![c] = 0]
              /\ item' = [item EXCEPT ![c] = NoItem]
           \/ pc[c] = "sentinel" /\ pc' = [pc EXCEPT ![c] = "wait"] /\ UNCHANGED <<mine, item>>
    BY <1>5 DEF Put, PutSentinel, Return
  <2>2. /\ item[c] \in Items /\ item[c].by = c /\ item[c].n <= calls
        /\ IsSentinel(item[c]) <=> pc[c] # "put"
        /\ mine[c] \in Generations /\ mine[c] \in 0..gen
    BY <2>1 DEF CallersHold, TypeOK
  <2>3. /\ \/ pc'[c] = "idle"
           \/ pc[c] = "sentinel" /\ pc'[c] = "wait" /\ item'[c] = item[c] /\ mine'[c] = mine[c]
        /\ \A d \in Callers \ {c} : pc'[d] = pc[d] /\ item'[d] = item[d] /\ mine'[d] = mine[d]
    BY <2>1 DEF TypeOK
  <2>4. CallersHold'
    BY <1>2, <1>3, <2>1, <2>2, <2>3
  <2>5. \A g \in Generations : g > gen => queue'[g] = queue[g]
    BY <1>2, <2>1, <2>2 DEF TypeOK
  <2>6. WorkersAreReplaced'
    BY <1>1, <2>1, <2>5 DEF WorkersAreReplaced, Held
  <2>7. QED
    BY <2>4, <2>6
<1>6. ASSUME NEW g \in Generations, Get(g) \/ Process(g) \/ Die(g)
      PROVE  CallersHold' /\ WorkersAreReplaced'
  <2>1. UNCHANGED <<pc, mine, item, calls, gen>> /\ g \in alive /\ g = gen
    BY <1>2, <1>6 DEF Get, Process, Die, caller
  <2>2. CallersHold'
    BY <1>2, <1>3, <2>1
  <2>3. \A h \in Generations \ {g} : hand'[h] = hand[h] /\ queue'[h] = queue[h]
    BY <1>6 DEF Get, Process, Die, TypeOK
  <2>4. g \in Nat /\ ~ (g > gen)
    BY <1>2, <2>1
  <2>5. CASE Get(g) \/ Process(g)
    <3>1. alive' = alive /\ deaths' = deaths
      BY <2>5 DEF Get, Process
    <3>2. QED
      BY <1>1, <2>1, <2>2, <2>3, <2>4, <3>1 DEF WorkersAreReplaced, Held
  <2>6. CASE Die(g)
    <3>1. alive' = alive \ {g} /\ deaths' = deaths + 1 /\ hand'[g] = NoItem /\ gen <= deaths + 1
      BY <2>6 DEF Die, TypeOK
    <3>2. QED
      BY <1>1, <2>1, <2>2, <2>3, <2>4, <3>1 DEF WorkersAreReplaced, Held
  <2>7. QED
    BY <1>6, <2>5, <2>6
<1>7. ASSUME UNCHANGED <<gen, alive, queue, hand, deaths>>
      PROVE  WorkersAreReplaced'
  BY <1>1, <1>7 DEF WorkersAreReplaced, Held
<1>8. ASSUME NEW c \in Callers, Wait(c)
      PROVE  CallersHold' /\ WorkersAreReplaced'
  <2>1. /\ pc' = [pc EXCEPT ![c] = "check"] /\ calls' = calls + 1 /\ calls < MaxCalls
        /\ item' = [item EXCEPT ![c] = Sentinel(c)] /\ mine' = [mine EXCEPT ![c] = gen]
        /\ UNCHANGED <<gen, alive, queue, hand, deaths>>
    BY <1>8 DEF Wait, Begin, worker
  <2>2. Sentinel(c) \in Items /\ Sentinel(c).by = c /\ Sentinel(c).n <= calls' /\ IsSentinel(Sentinel(c))
    BY <1>2, <2>1 DEF Sentinel, Items, Records, IsSentinel
  <2>3. /\ pc'[c] = "check" /\ item'[c] = Sentinel(c)
        /\ \A d \in Callers \ {c} : pc'[d] = pc[d] /\ item'[d] = item[d] /\ mine'[d] = mine[d]
    BY <2>1 DEF TypeOK
  <2>4. CallersHold'
    BY <1>2, <1>3, <2>1, <2>2, <2>3
  <2>5. QED
    BY <1>7, <2>1, <2>4
<1>9. ASSUME NEW c \in Callers, CheckDead(c) \/ WaitReturns(c) \/ WaitTimesOut(c)
      PROVE  CallersHold' /\ WorkersAreReplaced'
  <2>1. /\ pc' = [pc EXCEPT ![c] = "idle"] /\ mine' = [mine EXCEPT ![c] = 0]
        /\ item' = [item EXCEPT ![c] = NoItem]
        /\ UNCHANGED <<gen, alive, queue, hand, deaths, calls>>
    BY <1>9 DEF CheckDead, WaitReturns, WaitTimesOut, Drained, Return, worker
  <2>2. /\ pc'[c] = "idle"
        /\ \A d \in Callers \ {c} : pc'[d] = pc[d] /\ item'[d] = item[d] /\ mine'[d] = mine[d]
    BY <2>1 DEF TypeOK
  <2>3. QED
    BY <1>2, <1>3, <1>7, <2>1, <2>2
<1>10. ASSUME NEW c \in Callers, CheckAlive(c)
       PROVE  CallersHold' /\ WorkersAreReplaced'
  <2>1. /\ pc[c] = "check" /\ mine[c] \in alive /\ pc' = [pc EXCEPT ![c] = "sentinel"]
        /\ UNCHANGED <<gen, alive, queue, hand, deaths, calls, mine, item>>
    BY <1>10 DEF CheckAlive, worker
  <2>2. /\ item[c] \in Items /\ item[c].by = c /\ item[c].n <= calls /\ IsSentinel(item[c])
        /\ mine[c] \in Generations
    BY <1>2, <2>1 DEF CallersHold
  <2>3. /\ pc'[c] = "sentinel" /\ \A d \in Callers \ {c} : pc'[d] = pc[d]
    BY <2>1 DEF TypeOK
  <2>4. QED
    BY <1>2, <1>3, <1>7, <2>1, <2>2, <2>3
<1>11. CASE UNCHANGED vars
  <2>1. UNCHANGED <<gen, alive, queue, hand, deaths, calls, pc, mine, item>>
    BY <1>11 DEF vars, worker, caller
  <2>2. QED
    BY <1>2, <1>3, <1>7, <2>1
<1>12. QED
  BY <1>4, <1>5, <1>6, <1>8, <1>9, <1>10, <1>11 DEF Next, CallerStep, WorkerStep

------------------------------------------------------------------------------
\* What is out after a step was out before, or is what a caller has put.
LEMMA OutGrows ==
  ASSUME TypeOK, CallersHold, [Next]_vars, NEW x \in Items, Out(x)'
  PROVE  Out(x) \/ \E c \in Callers : (Put(c) \/ PutSentinel(c)) /\ x = item[c]
<1>1. Generations' = Generations
  BY DEF Generations
<1>2. Out(x)' <=>
        \/ x \in Range(handed') \/ x \in landed'
        \/ \E g \in Generations : x \in Range(queue'[g]) \/ (hand'[g] # NoItem /\ x = hand'[g])
  BY <1>1 DEF Out, Held
<1>3. ASSUME NEW c \in Callers, Put(c) \/ PutSentinel(c)
      PROVE  Out(x) \/ x = item[c]
  <2>1. /\ queue' = [queue EXCEPT ![mine[c]] = Append(@, item[c])]
        /\ UNCHANGED <<hand, handed, landed>>
    BY <1>3 DEF Put, PutSentinel, history
  <2>2. item[c] \in Items /\ mine[c] \in Generations
    BY <1>3 DEF Put, PutSentinel, CallersHold
  <2>3. queue[mine[c]] \in Seq(Items)
    BY <2>2, Types
  <2>4. Range(Append(queue[mine[c]], item[c])) = Range(queue[mine[c]]) \union {item[c]}
    BY <2>2, <2>3, RangeOfAppend
  <2>5. /\ \A g \in Generations \ {mine[c]} : queue'[g] = queue[g]
        /\ queue'[mine[c]] = Append(queue[mine[c]], item[c])
    BY <2>1, <2>2 DEF TypeOK
  <2>6. \A g \in Generations : x \in Range(queue'[g]) => x \in Range(queue[g]) \/ x = item[c]
    BY <2>4, <2>5
  <2>7. QED
    BY <1>2, <2>1, <2>6 DEF Out, Held
<1>4. ASSUME NEW g \in Generations, Get(g)
      PROVE  Out(x)
  <2>1. /\ queue' = [queue EXCEPT ![g] = Tail(queue[g])] /\ queue[g] # << >>
        /\ hand' = [hand EXCEPT ![g] = Head(queue[g])]
        /\ UNCHANGED <<handed, landed>>
    BY <1>4 DEF Get, history
  <2>2. Range(queue[g]) = Range(Tail(queue[g])) \union {Head(queue[g])}
    BY <2>1, Types, RangeOfTail
  <2>3. /\ \A h \in Generations \ {g} : queue'[h] = queue[h] /\ hand'[h] = hand[h]
        /\ queue'[g] = Tail(queue[g]) /\ hand'[g] = Head(queue[g])
    BY <2>1 DEF TypeOK
  <2>4. QED
    BY <1>2, <2>1, <2>2, <2>3 DEF Out, Held
<1>5. ASSUME NEW g \in Generations, Process(g) \/ Die(g)
      PROVE  Out(x)
  <2>1. /\ landed' = landed \/ landed' = landed \union {hand[g]}
        /\ handed' = handed \/ (~ IsSentinel(hand[g]) /\ handed' = Append(handed, hand[g]))
        /\ Held(g) /\ hand' = [hand EXCEPT ![g] = NoItem] /\ queue' = queue
    BY <1>5 DEF Process, Die, HandOver, Held
  <2>2. handed \in Seq(Records) /\ hand[g] \in Items
        /\ (~ IsSentinel(hand[g]) => hand[g] \in Records)
    BY <2>1, Types
  <2>3. x \in Range(handed') => x \in Range(handed) \/ x = hand[g]
    <3>1. CASE handed' = handed
      BY <3>1
    <3>2. CASE hand[g] \in Records /\ handed' = Append(handed, hand[g])
      <4>1. Range(handed') = Range(handed) \union {hand[g]}
        BY <2>2, <3>2, RangeOfAppend
      <4>2. QED
        BY <4>1
    <3>3. QED
      BY <2>1, <2>2, <3>1, <3>2
  <2>4. /\ \A h \in Generations \ {g} : hand'[h] = hand[h]
        /\ hand'[g] = NoItem
    BY <2>1 DEF TypeOK
  <2>5. QED
    BY <1>2, <2>1, <2>3, <2>4 DEF Out, Held
<1>6. CASE UNCHANGED <<queue, hand, handed, landed>>
  BY <1>2, <1>6 DEF Out, Held
<1>7. QED
  BY <1>3, <1>4, <1>5, <1>6, Kinds

\* A caller that is about to put, or will be, has its item from before, or has
\* just got a newer one than any.
LEMMA CallersMove ==
  ASSUME TypeOK, [Next]_vars, NEW c \in Callers, pc'[c] \in {"put", "check", "sentinel"}
  PROVE  \/ pc[c] \in {"put", "check", "sentinel"} /\ item'[c] = item[c]
         \/ calls' = calls + 1 /\ item'[c].n = calls + 1
<1>1. ASSUME NEW d \in Callers, Enqueue(d) \/ Wait(d)
      PROVE  \/ pc[c] \in {"put", "check", "sentinel"} /\ item'[c] = item[c]
             \/ calls' = calls + 1 /\ item'[c].n = calls + 1
  <2>1. PICK r \in {Record(d), Sentinel(d)} : item' = [item EXCEPT ![d] = r]
    BY <1>1 DEF Enqueue, Wait
  <2>2. r.n = calls + 1
    BY DEF Record, Sentinel
  <2>3. calls' = calls + 1 /\ \E step : pc' = [pc EXCEPT ![d] = step]
    BY <1>1 DEF Enqueue, Wait, Begin
  <2>4. CASE c = d
    BY <2>1, <2>2, <2>3, <2>4 DEF TypeOK
  <2>5. CASE c # d
    BY <2>1, <2>3, <2>5 DEF TypeOK
  <2>6. QED
    BY <2>4, <2>5
<1>2. ASSUME NEW d \in Callers,
             Put(d) \/ CheckDead(d) \/ PutSentinel(d) \/ WaitReturns(d) \/ WaitTimesOut(d)
      PROVE  pc[c] \in {"put", "check", "sentinel"} /\ item'[c] = item[c]
  <2>1. /\ pc' = [pc EXCEPT ![d] = "idle"] \/ pc' = [pc EXCEPT ![d] = "wait"]
        /\ item' = [item EXCEPT ![d] = NoItem] \/ item' = item
    BY <1>2 DEF Put, CheckDead, PutSentinel, WaitReturns, WaitTimesOut, Drained, Return
  <2>2. c # d
    BY <2>1 DEF TypeOK
  <2>3. QED
    BY <2>1, <2>2 DEF TypeOK
<1>3. ASSUME NEW d \in Callers, CheckAlive(d)
      PROVE  pc[c] \in {"put", "check", "sentinel"} /\ item'[c] = item[c]
  BY <1>3 DEF CheckAlive, TypeOK
<1>4. CASE UNCHANGED <<pc, item>>
  BY <1>4
<1>5. ASSUME NEW g \in Generations, Get(g) \/ Process(g) \/ Die(g)
      PROVE  UNCHANGED <<pc, item>>
  BY <1>5 DEF Get, Process, Die, caller
<1>6. CASE UNCHANGED vars
  BY <1>4, <1>6 DEF vars, caller
<1>7. QED
  BY <1>1, <1>2, <1>3, <1>4, <1>5, <1>6 DEF Next, CallerStep, WorkerStep

\* Calls are numbered upwards, one at a time.
LEMMA CallsGrow ==
  ASSUME TypeOK, [Next]_vars
  PROVE  calls \in Nat /\ (calls' = calls \/ calls' = calls + 1)
<1>1. calls \in Nat
  BY Types
<1>2. calls' = calls \/ calls' = calls + 1
  BY DEF Next, CallerStep, WorkerStep, vars, Enqueue, Begin, Wait, Put, CheckDead, CheckAlive,
         PutSentinel, WaitReturns, WaitTimesOut, Get, Process, Die
<1>3. QED
  BY <1>1, <1>2

\* What a caller is about to put stays newer than all it has put.
LEMMA OutStep ==
  ASSUME TypeOK, CallersHold, OutIsOlder, [Next]_vars
  PROVE  OutIsOlder'
<1>1. Items' = Items
  BY DEF Items, Records
<1>2. calls \in Nat /\ calls' \in Nat /\ calls <= calls'
  BY CallsGrow
<1>3. \A x \in Items : x.n \in Nat
  BY Types
<1>4. ASSUME NEW x \in Items, Out(x)'
      PROVE  x.n <= calls'
             /\ \A c \in Callers : pc'[c] \in {"put", "check", "sentinel"} /\ x.by = c => x.n < item'[c].n
  <2>1. CASE Out(x)
    <3>1. /\ x.n <= calls /\ x.n \in Nat
          /\ \A c \in Callers : pc[c] \in {"put", "check", "sentinel"} /\ x.by = c => x.n < item[c].n
      BY <1>3, <2>1 DEF OutIsOlder
    <3>2. ASSUME NEW c \in Callers, pc'[c] \in {"put", "check", "sentinel"}, x.by = c
          PROVE  x.n < item'[c].n
      <4>1. CASE pc[c] \in {"put", "check", "sentinel"} /\ item'[c] = item[c]
        BY <3>1, <3>2, <4>1
      <4>2. CASE item'[c].n = calls + 1
        BY <1>2, <3>1, <4>2
      <4>3. QED
        BY <3>2, <4>1, <4>2, CallersMove
    <3>3. QED
      BY <1>2, <3>1, <3>2
  <2>2. ASSUME NEW c \in Callers, Put(c) \/ PutSentinel(c), x = item[c]
        PROVE  x.n <= calls'
               /\ \A d \in Callers : pc'[d] \in {"put", "check", "sentinel"} /\ x.by = d => x.n < item'[d].n
    <3>1. x.by = c /\ x.n <= calls /\ calls' = calls
      BY <2>2 DEF CallersHold, Put, PutSentinel
    <3>2. pc' = [pc EXCEPT ![c] = "idle"] \/ pc' = [pc EXCEPT ![c] = "wait"]
      BY <2>2 DEF Put, PutSentinel, Return
    <3>3. pc'[c] \notin {"put", "check", "sentinel"}
      BY <3>2 DEF TypeOK
    <3>4. QED
      BY <3>1, <3>3
  <2>3. QED
    BY <1>4, <2>1, <2>2, OutGrows
<1>5. QED
  BY <1>1, <1>4 DEF OutIsOlder

------------------------------------------------------------------------------
\* The step of a caller that puts, and of a worker, on its queue and its hand.
LEMMA PutEffect ==
  ASSUME TypeOK, CallersHold, NEW c \in Callers, Put(c) \/ PutSentinel(c)
  PROVE  /\ item[c] \in Items /\ item[c].by = c /\ pc[c] \in {"put", "sentinel"}
         /\ mine[c] \in Generations /\ mine[c] \in 1..gen
         /\ UNCHANGED <<gen, alive, hand, handed, landed>>
         /\ queue'[mine[c]] = Append(queue[mine[c]], item[c])
         /\ \A g \in Generations \ {mine[c]} : queue'[g] = queue[g]
<1>1. /\ queue' = [queue EXCEPT ![mine[c]] = Append(@, item[c])]
      /\ UNCHANGED <<gen, alive, hand, handed, landed>> /\ pc[c] \in {"put", "sentinel"}
  BY DEF Put, PutSentinel, history
<1>2. item[c] \in Items /\ item[c].by = c /\ mine[c] \in Generations
  BY <1>1 DEF CallersHold
<1>3. mine[c] \in 1..gen
  BY <1>2, Types DEF TypeOK, Generations
<1>4. QED
  BY <1>1, <1>2, <1>3 DEF TypeOK

\* Get moves the head of the current queue into the hand of its worker.
LEMMA GetEffect ==
  ASSUME TypeOK, NEW g \in Generations, Get(g)
  PROVE  /\ g \in alive /\ g = gen /\ hand[g] = NoItem /\ queue[g] # << >>
         /\ UNCHANGED <<gen, alive, handed, landed>>
         /\ queue'[g] = Tail(queue[g]) /\ hand'[g] = Head(queue[g])
         /\ \A h \in Generations \ {g} : queue'[h] = queue[h] /\ hand'[h] = hand[h]
BY DEF Get, history, TypeOK

\* A worker is done with its item by handing it over or by setting its event,
\* and may die of a record only.
LEMMA DoneEffect ==
  ASSUME TypeOK, NEW g \in Generations, Process(g) \/ Die(g)
  PROVE  /\ g \in alive /\ g = gen /\ Held(g) /\ hand[g] \in Items
         /\ UNCHANGED <<gen, queue>> /\ hand'[g] = NoItem
         /\ \A h \in Generations \ {g} : hand'[h] = hand[h]
         /\ alive' = alive \/ (alive' = alive \ {g} /\ ~ IsSentinel(hand[g]))
         /\ \/ /\ IsSentinel(hand[g]) /\ handed' = handed
               /\ landed' = landed \union {hand[g]}
            \/ /\ hand[g] \in Records /\ handed' = Append(handed, hand[g]) /\ landed' = landed
<1>1. Held(g) /\ g \in alive /\ hand' = [hand EXCEPT ![g] = NoItem] /\ UNCHANGED <<gen, queue>>
  BY DEF Process, Die, Held
<1>2. hand[g] \in Items /\ (~ IsSentinel(hand[g]) => hand[g] \in Records)
  BY <1>1, Types
<1>3. CASE Process(g)
  BY <1>1, <1>2, <1>3 DEF Process, HandOver, TypeOK
<1>4. CASE Die(g)
  BY <1>1, <1>2, <1>4 DEF Die, HandOver, TypeOK
<1>5. QED
  BY <1>3, <1>4

\* Every step keeps each thread's records in line and in order.
LEMMA LineStep ==
  ASSUME TypeOK, CallersHold, WorkersAreReplaced, WorkersAreReplaced', OutIsOlder, InLine, InOrder,
         [Next]_vars
  PROVE  InLine' /\ InOrder'
<1>1. Generations' = Generations
  BY DEF Generations
<1>2. /\ \A x \in Items : x.n \in Nat
      /\ \A g \in Generations : queue[g] \in Seq(Items)
      /\ handed \in Seq(Records) /\ Records \subseteq Items /\ gen \in Nat
      /\ alive \subseteq {gen} /\ alive \subseteq Generations
  BY Types DEF TypeOK, WorkersAreReplaced
<1>3. ASSUME NEW c \in Callers, Put(c) \/ PutSentinel(c)
      PROVE  InLine' /\ InOrder'
  <2> DEFINE m == mine[c]
             x == item[c]
  <2>1. /\ x \in Items /\ x.by = c /\ pc[c] \in {"put", "sentinel"}
        /\ m \in Generations
        /\ UNCHANGED <<gen, alive, hand, handed, landed>>
        /\ queue'[m] = Append(queue[m], x)
        /\ \A g \in Generations \ {m} : queue'[g] = queue[g]
    BY <1>3, PutEffect
  <2>2. \A y \in Items : Out(y) => Behind(x, y)
    BY <2>1 DEF OutIsOlder, Behind
  <2>3. queue[m] \in Seq(Items)
    BY <1>2, <2>1
  <2>4. /\ \A k \in DOMAIN queue[m] : queue[m][k] \in Items /\ Out(queue[m][k])
        /\ Held(m) => Out(hand[m])
        /\ \A i \in DOMAIN handed : handed[i] \in Items /\ Out(handed[i])
    <3>1. \A k \in DOMAIN queue[m] : queue[m][k] \in Items /\ queue[m][k] \in Range(queue[m])
      BY <2>3 DEF Range
    <3>2. \A i \in DOMAIN handed : handed[i] \in Items /\ handed[i] \in Range(handed)
      BY <1>2 DEF Range
    <3>3. QED
      BY <2>1, <3>1, <3>2 DEF Out
  <2>5. /\ \A k \in DOMAIN queue[m] : Behind(x, queue[m][k])
        /\ Held(m) => Behind(x, hand[m])
        /\ \A i \in DOMAIN handed : Behind(x, handed[i])
    BY <2>1, <2>2, <2>4, Types
  <2> HIDE DEF m, x
  <2>6. \A k \in DOMAIN queue'[m] :
          \/ k \in DOMAIN queue[m] /\ queue'[m][k] = queue[m][k]
          \/ k = Len(queue[m]) + 1 /\ queue'[m][k] = x
    BY <2>1, <2>3, RangeOfAppend
  <2>7. \A k \in DOMAIN queue[m] : ~ (Len(queue[m]) + 1 < k)
    BY <2>3
  <2>8. ASSUME NEW k \in DOMAIN queue'[m], NEW l \in DOMAIN queue'[m], k < l
        PROVE  Behind(queue'[m][l], queue'[m][k])
    <3>1. CASE l \in DOMAIN queue[m] /\ k \in DOMAIN queue[m]
      BY <2>1, <2>3, <2>8, <3>1, RangeOfAppend DEF InLine
    <3>2. CASE l = Len(queue[m]) + 1 /\ queue'[m][l] = x /\ k \in DOMAIN queue[m]
               /\ queue'[m][k] = queue[m][k]
      BY <2>5, <3>2
    <3>3. CASE k = Len(queue[m]) + 1
      <4>1. ~ (k < l)
        BY <2>3, <2>6, <2>7, <3>3
      <4>2. QED
        BY <2>8, <4>1
    <3>4. QED
      BY <2>6, <3>1, <3>2, <3>3
  <2>9. ASSUME NEW g \in Generations, NEW k \in DOMAIN queue'[g], NEW l \in DOMAIN queue'[g], k < l
        PROVE  Behind(queue'[g][l], queue'[g][k])
    BY <2>1, <2>8, <2>9 DEF InLine
  <2>10. ASSUME NEW g \in alive, Held(g), NEW k \in DOMAIN queue'[g]
         PROVE  Behind(queue'[g][k], hand[g])
    <3>1. CASE g = m
      <4>1. Held(m) /\ k \in DOMAIN queue'[m] /\ m \in alive
        BY <2>10, <3>1
      <4>2. \A j \in DOMAIN queue[m] : Behind(queue[m][j], hand[m])
        BY <4>1 DEF InLine
      <4>3. Behind(queue'[m][k], hand[m])
        BY <2>5, <2>6, <4>1, <4>2
      <4>4. QED
        BY <3>1, <4>3
    <3>2. CASE g # m
      <4>1. queue'[g] = queue[g]
        BY <1>2, <2>1, <3>2
      <4>2. QED
        BY <2>10, <4>1 DEF InLine
    <3>3. QED
      BY <3>1, <3>2
  <2>11. ASSUME NEW g \in alive, NEW i \in DOMAIN handed, NEW k \in DOMAIN queue'[g]
         PROVE  Behind(queue'[g][k], handed[i])
    <3>1. CASE g = m
      <4>1. k \in DOMAIN queue'[m] /\ m \in alive
        BY <3>1
      <4>2. \A j \in DOMAIN queue[m] : Behind(queue[m][j], handed[i])
        BY <4>1 DEF InLine
      <4>3. Behind(queue'[m][k], handed[i])
        BY <2>5, <2>6, <4>1, <4>2
      <4>4. QED
        BY <3>1, <4>3
    <3>2. CASE g # m
      <4>1. queue'[g] = queue[g]
        BY <1>2, <2>1, <3>2
      <4>2. QED
        BY <4>1 DEF InLine
    <3>3. QED
      BY <3>1, <3>2
  <2>12. InLine'
    BY <1>1, <2>1, <2>9, <2>10, <2>11 DEF InLine, Held, Behind
  <2>13. QED
    BY <2>1, <2>12 DEF InOrder
<1>4. ASSUME NEW g \in Generations, Get(g)
      PROVE  InLine' /\ InOrder'
  <2>1. /\ g \in alive /\ g = gen /\ queue[g] # << >>
        /\ UNCHANGED <<gen, alive, handed, landed>>
        /\ queue'[g] = Tail(queue[g]) /\ hand'[g] = Head(queue[g])
        /\ \A h \in Generations \ {g} : queue'[h] = queue[h] /\ hand'[h] = hand[h]
    BY <1>4, GetEffect
  <2>2. queue[g] \in Seq(Items)
    BY <1>2
  <2>3. /\ \A k \in DOMAIN queue'[g] : k + 1 \in DOMAIN queue[g] /\ queue'[g][k] = queue[g][k + 1]
        /\ 1 \in DOMAIN queue[g] /\ hand'[g] = queue[g][1]
    BY <2>1, <2>2, RangeOfTail
  <2>4. \A k \in DOMAIN queue'[g] : k \in Nat /\ 1 < k + 1
    BY <2>1, <2>2
  <2>5. \A k, l \in DOMAIN queue'[g] : k < l => k + 1 < l + 1
    BY <2>4
  <2>6. \A k, l \in DOMAIN queue'[g] : k < l => Behind(queue'[g][l], queue'[g][k])
    BY <2>3, <2>5 DEF InLine
  <2>7. \A k \in DOMAIN queue'[g] : Behind(queue'[g][k], hand'[g])
    BY <2>3, <2>4 DEF InLine
  <2>8. \A i \in DOMAIN handed : /\ Behind(hand'[g], handed[i])
                                 /\ \A k \in DOMAIN queue'[g] : Behind(queue'[g][k], handed[i])
    BY <2>1, <2>3 DEF InLine
  <2>9. \A h \in Generations : \A k, l \in DOMAIN queue'[h] : k < l => Behind(queue'[h][l], queue'[h][k])
    BY <2>1, <2>6 DEF InLine
  <2>10. \A h \in alive : h = g
    BY <1>2, <2>1
  <2>11. InLine'
    <3>1. \A h \in alive' : \A k \in DOMAIN queue'[h] : Behind(queue'[h][k], hand'[h])
      BY <2>1, <2>7, <2>10
    <3>2. \A h \in alive', i \in DOMAIN handed' :
            /\ Behind(hand'[h], handed'[i])
            /\ \A k \in DOMAIN queue'[h] : Behind(queue'[h][k], handed'[i])
      BY <2>1, <2>8, <2>10
    <3>3. QED
      BY <1>1, <2>9, <3>1, <3>2 DEF InLine, Held, Behind
  <2>12. QED
    BY <2>1, <2>11 DEF InOrder
<1>5. ASSUME NEW g \in Generations, Process(g) \/ Die(g)
      PROVE  InLine' /\ InOrder'
  <2>1. /\ g \in alive /\ g = gen /\ Held(g)
        /\ UNCHANGED <<gen, queue>> /\ hand'[g] = NoItem
        /\ alive' \subseteq alive
        /\ handed' = handed \/ (hand[g] \in Records /\ handed' = Append(handed, hand[g]))
    BY <1>5, DoneEffect
  <2>2. \A h \in alive' : h = g
    BY <1>2, <2>1
  <2>3. ASSUME NEW i \in DOMAIN handed'
        PROVE  \/ i \in DOMAIN handed /\ handed'[i] = handed[i]
               \/ i = Len(handed) + 1 /\ handed'[i] = hand[g]
    BY <1>2, <2>1, RangeOfAppend
  <2>4. \A k \in DOMAIN queue[g] : /\ Behind(queue[g][k], hand[g])
                                   /\ \A i \in DOMAIN handed : Behind(queue[g][k], handed[i])
    BY <2>1 DEF InLine
  <2>5. \A i \in DOMAIN handed', k \in DOMAIN queue[g] : Behind(queue[g][k], handed'[i])
    BY <2>3, <2>4
  <2>6. InLine'
    <3>1. \A h \in Generations : \A k, l \in DOMAIN queue'[h] : k < l => Behind(queue'[h][l], queue'[h][k])
      BY <2>1 DEF InLine
    <3>2. QED
      BY <1>1, <2>1, <2>2, <2>5, <3>1 DEF InLine, Held, Behind
  <2>7. \A i \in DOMAIN handed : Behind(hand[g], handed[i])
    BY <2>1 DEF InLine
  <2>8. InOrder'
    <3>1. DOMAIN handed' = 1..Len(handed') /\ DOMAIN handed = 1..Len(handed) /\ Len(handed) \in Nat
      BY <1>2, <2>1
    <3>2. ASSUME NEW i \in 1..Len(handed'), NEW j \in 1..Len(handed'), i < j,
                 handed'[i].by = handed'[j].by
          PROVE  handed'[i].n < handed'[j].n
      <4>1. CASE j \in DOMAIN handed /\ handed'[j] = handed[j]
        <5>1. i \in DOMAIN handed /\ i # Len(handed) + 1
          BY <3>1, <3>2, <4>1
        <5>2. handed'[i] = handed[i]
          BY <2>3, <3>1, <5>1
        <5>3. QED
          BY <3>1, <3>2, <4>1, <5>1, <5>2 DEF InOrder
      <4>2. CASE j = Len(handed) + 1 /\ handed'[j] = hand[g]
        <5>1. i \in DOMAIN handed /\ i # Len(handed) + 1
          BY <3>1, <3>2, <4>2
        <5>2. handed'[i] = handed[i]
          BY <2>3, <3>1, <5>1
        <5>3. QED
          BY <2>7, <3>2, <4>2, <5>1, <5>2 DEF Behind
      <4>3. QED
        BY <2>3, <3>1, <4>1, <4>2
    <3>3. QED
      BY <3>2 DEF InOrder
  <2>9. QED
    BY <2>6, <2>8
<1>6. CASE /\ UNCHANGED <<queue, hand, handed>>
           /\ \/ UNCHANGED <<gen, alive>>
              \/ gen \notin alive /\ gen' = gen + 1 /\ alive' = alive \union {gen + 1}
  <2>1. CASE alive' = alive
    BY <1>1, <1>6, <2>1 DEF InLine, InOrder, Held, Behind
  <2>2. CASE gen \notin alive /\ alive' = alive \union {gen + 1}
    <3>1. \A g \in alive' : g = gen + 1 /\ g \in Generations
      BY <1>1, <1>2, <2>2 DEF WorkersAreReplaced
    <3>2. \A g \in alive' : queue[g] = << >> /\ ~ Held(g)
      BY <1>2, <2>2, <3>1 DEF WorkersAreReplaced
    <3>3. \A g \in alive' : \A k \in DOMAIN queue[g] : FALSE
      BY <3>2
    <3>4. QED
      BY <1>1, <1>6, <3>2, <3>3 DEF InLine, InOrder, Held, Behind
  <2>3. QED
    BY <1>6, <2>1, <2>2
<1>7. QED
  BY <1>3, <1>4, <1>5, <1>6, Kinds

------------------------------------------------------------------------------
\* What is stranded, and what is settled, stays so.
LEMMA StrandedStays ==
  ASSUME TypeOK, CallersHold, WorkersAreReplaced, [Next]_vars, NEW r, r \in Stranded
  PROVE  r \in Stranded'
<1>1. PICK g \in (1..gen) \ alive : r \in Range(queue[g])
  BY DEF Stranded
<1>2. gen \in Nat /\ alive \subseteq {gen} /\ g \in Generations /\ queue[g] \in Seq(Items)
  BY <1>1, Types DEF TypeOK, Generations
<1>3. SUFFICES g \in (1..gen') \ alive' /\ r \in Range(queue'[g])
  BY DEF Stranded
<1>4. ASSUME NEW c \in Callers, Put(c) \/ PutSentinel(c)
      PROVE  g \in (1..gen') \ alive' /\ r \in Range(queue'[g])
  <2>1. /\ item[c] \in Items /\ UNCHANGED <<gen, alive>> /\ mine[c] \in Generations
        /\ queue'[mine[c]] = Append(queue[mine[c]], item[c])
        /\ \A h \in Generations \ {mine[c]} : queue'[h] = queue[h]
    BY <1>4, PutEffect
  <2>2. CASE g = mine[c]
    <3>1. queue'[g] = Append(queue[g], item[c])
      BY <2>1, <2>2
    <3>2. Range(Append(queue[g], item[c])) = Range(queue[g]) \union {item[c]}
      BY <1>2, <2>1, RangeOfAppend
    <3>3. QED
      BY <1>1, <2>1, <3>1, <3>2
  <2>3. CASE g # mine[c]
    BY <1>1, <1>2, <2>1, <2>3
  <2>4. QED
    BY <2>2, <2>3
<1>5. ASSUME NEW h \in Generations, Get(h)
      PROVE  g \in (1..gen') \ alive' /\ r \in Range(queue'[g])
  BY <1>1, <1>2, <1>5, GetEffect
<1>6. ASSUME NEW h \in Generations, Process(h) \/ Die(h)
      PROVE  g \in (1..gen') \ alive' /\ r \in Range(queue'[g])
  <2>1. UNCHANGED <<gen, queue>> /\ alive' \subseteq alive
    BY <1>6, DoneEffect
  <2>2. QED
    BY <1>1, <2>1
<1>7. CASE /\ queue' = queue
           /\ \/ UNCHANGED <<gen, alive>>
              \/ gen \notin alive /\ gen' = gen + 1 /\ alive' = alive \union {gen + 1}
  BY <1>1, <1>2, <1>7
<1>8. QED
  BY <1>4, <1>5, <1>6, <1>7, Kinds

\* A record that was given to the exporter or stranded stays so.
LEMMA SettledStays ==
  ASSUME TypeOK, CallersHold, WorkersAreReplaced, [Next]_vars, NEW r, Settled(r)
  PROVE  Settled(r)'
<1>1. CASE r \in Stranded
  BY <1>1, StrandedStays DEF Settled
<1>2. CASE r \in Range(handed)
  <2>1. handed \in Seq(Records)
    BY Types
  <2>2. ASSUME NEW g \in Generations, Process(g) \/ Die(g)
        PROVE  r \in Range(handed')
    <3>1. handed' = handed \/ (hand[g] \in Records /\ handed' = Append(handed, hand[g]))
      BY <2>2, DoneEffect
    <3>2. hand[g] \in Records => Range(Append(handed, hand[g])) = Range(handed) \union {hand[g]}
      BY <2>1, RangeOfAppend
    <3>3. QED
      BY <1>2, <3>1, <3>2
  <2>3. ASSUME NEW c \in Callers, Put(c) \/ PutSentinel(c)
        PROVE  handed' = handed
    BY <2>3, PutEffect
  <2>4. ASSUME NEW g \in Generations, Get(g)
        PROVE  handed' = handed
    BY <2>4, GetEffect
  <2>5. r \in Range(handed')
    BY <1>2, <2>2, <2>3, <2>4, Kinds
  <2>6. QED
    BY <2>5 DEF Settled
<1>3. QED
  BY <1>1, <1>2 DEF Settled

\* A record that a worker has or will read stays that until it is settled; the
\* worker that dies hands over what it holds, and strands its queue.
LEMMA WorkerHolds ==
  ASSUME TypeOK, CallersHold, WorkersAreReplaced, [Next]_vars,
         NEW r \in Records, NEW g, AtWorker(r, g)
  PROVE  Settled(r)' \/ AtWorker(r, g)'
<1>1. /\ g \in alive /\ g \in Generations /\ g = gen /\ g \in 1..gen /\ alive \subseteq {gen}
      /\ r = hand[g] \/ r \in Range(queue[g])
      /\ queue[g] \in Seq(Items) /\ handed \in Seq(Records)
      /\ r # NoItem
  BY Types, ItemAssumption DEF AtWorker, WorkersAreReplaced, TypeOK, Generations
<1>2. ASSUME NEW c \in Callers, Put(c) \/ PutSentinel(c)
      PROVE  AtWorker(r, g)'
  <2>1. /\ item[c] \in Items /\ UNCHANGED <<gen, alive, hand>> /\ mine[c] \in Generations
        /\ queue'[mine[c]] = Append(queue[mine[c]], item[c])
        /\ \A h \in Generations \ {mine[c]} : queue'[h] = queue[h]
    BY <1>2, PutEffect
  <2>2. r \in Range(queue[g]) => r \in Range(queue'[g])
    <3>1. CASE g = mine[c]
      <4>1. queue'[g] = Append(queue[g], item[c])
        BY <2>1, <3>1
      <4>2. Range(Append(queue[g], item[c])) = Range(queue[g]) \union {item[c]}
        BY <1>1, <2>1, RangeOfAppend
      <4>3. QED
        BY <4>1, <4>2
    <3>2. CASE g # mine[c]
      BY <1>1, <2>1, <3>2
    <3>3. QED
      BY <3>1, <3>2
  <2>3. QED
    BY <1>1, <2>1, <2>2 DEF AtWorker
<1>3. ASSUME NEW h \in Generations, Get(h)
      PROVE  AtWorker(r, g)'
  <2>1. /\ h = gen /\ hand[h] = NoItem /\ queue[h] # << >> /\ alive' = alive
        /\ queue'[h] = Tail(queue[h]) /\ hand'[h] = Head(queue[h])
    BY <1>3, GetEffect
  <2>2. r \in Range(Tail(queue[g])) \union {Head(queue[g])}
    BY <1>1, <2>1, RangeOfTail
  <2>3. QED
    BY <1>1, <2>1, <2>2 DEF AtWorker
<1>4. ASSUME NEW h \in Generations, Process(h) \/ Die(h)
      PROVE  Settled(r)' \/ AtWorker(r, g)'
  <2>1. /\ h = gen /\ UNCHANGED <<gen, queue>>
        /\ alive' = alive \/ alive' = alive \ {h}
        /\ \/ IsSentinel(hand[h])
           \/ hand[h] \in Records /\ handed' = Append(handed, hand[h])
    BY <1>4, DoneEffect
  <2>2. CASE r = hand[g]
    <3>1. ~ IsSentinel(r)
      BY DEF Records, IsSentinel
    <3>2. handed' = Append(handed, r)
      BY <1>1, <2>1, <2>2, <3>1
    <3>3. r \in Range(handed')
      BY <1>1, <3>2, RangeOfAppend
    <3>4. QED
      BY <3>3 DEF Settled
  <2>3. CASE r \in Range(queue[g]) /\ alive' = alive
    BY <1>1, <2>1, <2>3 DEF AtWorker
  <2>4. CASE r \in Range(queue[g]) /\ alive' = alive \ {h}
    BY <1>1, <2>1, <2>4 DEF Settled, Stranded
  <2>5. QED
    BY <1>1, <2>1, <2>2, <2>3, <2>4
<1>5. CASE /\ UNCHANGED <<queue, hand>>
           /\ \/ UNCHANGED <<gen, alive>>
              \/ gen \notin alive /\ gen' = gen + 1 /\ alive' = alive \union {gen + 1}
  BY <1>1, <1>5 DEF AtWorker
<1>6. QED
  BY <1>2, <1>3, <1>4, <1>5, Kinds

\* A record ahead of a sentinel stays ahead of it until it is settled.
LEMMA AheadHolds ==
  ASSUME TypeOK, CallersHold, WorkersAreReplaced, InLine, [Next]_vars,
         NEW r \in Records, NEW s \in Items, IsSentinel(s), NEW g, AheadOf(r, s, g)
  PROVE  Settled(r)' \/ AheadOf(r, s, g)'
<1> DEFINE Apart(q) == \E k, l \in DOMAIN q : k < l /\ q[k] = r /\ q[l] = s
<1>1. /\ g \in alive /\ g \in Generations /\ g = gen /\ g \in 1..gen /\ alive \subseteq {gen}
      /\ r = hand[g] \/ Apart(queue[g])
      /\ s \notin landed
      /\ queue[g] \in Seq(Items) /\ handed \in Seq(Records)
      /\ r # NoItem
  BY Types, ItemAssumption DEF AheadOf, WorkersAreReplaced, TypeOK, Generations
<1>2. ASSUME NEW c \in Callers, Put(c) \/ PutSentinel(c)
      PROVE  AheadOf(r, s, g)'
  <2>1. /\ item[c] \in Items /\ UNCHANGED <<gen, alive, hand, landed>> /\ mine[c] \in Generations
        /\ queue'[mine[c]] = Append(queue[mine[c]], item[c])
        /\ \A h \in Generations \ {mine[c]} : queue'[h] = queue[h]
    BY <1>2, PutEffect
  <2>2. Apart(queue[g]) => Apart(queue'[g])
    <3>1. CASE g = mine[c]
      <4>1. queue'[g] = Append(queue[g], item[c])
        BY <2>1, <3>1
      <4>2. \A k \in DOMAIN queue[g] : k \in DOMAIN queue'[g] /\ queue'[g][k] = queue[g][k]
        BY <1>1, <2>1, <4>1, RangeOfAppend
      <4>3. QED
        BY <4>2
    <3>2. CASE g # mine[c]
      BY <1>1, <2>1, <3>2
    <3>3. QED
      BY <3>1, <3>2
  <2>3. QED
    BY <1>1, <2>1, <2>2 DEF AheadOf
<1>3. ASSUME NEW h \in Generations, Get(h)
      PROVE  AheadOf(r, s, g)'
  <2>1. /\ h = gen /\ hand[h] = NoItem /\ queue[h] # << >> /\ alive' = alive
        /\ queue'[h] = Tail(queue[h]) /\ hand'[h] = Head(queue[h]) /\ landed' = landed
    BY <1>3, GetEffect
  <2>2. PICK k \in DOMAIN queue[g], l \in DOMAIN queue[g] :
          k < l /\ queue[g][k] = r /\ queue[g][l] = s
    BY <1>1, <2>1
  <2>3. CASE k = 1
    <3>1. hand'[g] = r
      BY <1>1, <2>1, <2>2, <2>3, RangeOfTail
    <3>2. QED
      BY <1>1, <2>1, <3>1 DEF AheadOf
  <2>4. CASE k # 1
    <3>1. k \in Nat /\ l \in Nat /\ l # 1
      BY <1>1, <2>2
    <3>2. /\ k - 1 \in DOMAIN queue'[g] /\ l - 1 \in DOMAIN queue'[g]
          /\ queue'[g][k - 1] = queue[g][k - 1 + 1] /\ queue'[g][l - 1] = queue[g][l - 1 + 1]
      <4>1. queue'[g] = Tail(queue[g])
        BY <1>1, <2>1
      <4>2. /\ \A i \in DOMAIN Tail(queue[g]) : Tail(queue[g])[i] = queue[g][i + 1]
            /\ \A i \in DOMAIN queue[g] : i = 1 \/ i - 1 \in DOMAIN Tail(queue[g])
        BY <1>1, <2>1, RangeOfTail
      <4>3. k - 1 \in DOMAIN Tail(queue[g]) /\ l - 1 \in DOMAIN Tail(queue[g])
        BY <2>2, <2>4, <3>1, <4>2
      <4>4. QED
        BY <4>1, <4>2, <4>3
    <3>3. k - 1 < l - 1 /\ k - 1 + 1 = k /\ l - 1 + 1 = l
      BY <2>2, <3>1
    <3>4. QED
      BY <1>1, <2>1, <2>2, <3>2, <3>3 DEF AheadOf
  <2>5. QED
    BY <2>3, <2>4
<1>4. ASSUME NEW h \in Generations, Process(h) \/ Die(h)
      PROVE  Settled(r)' \/ AheadOf(r, s, g)'
  <2>1. /\ h = gen /\ Held(h) /\ UNCHANGED <<gen, queue>>
        /\ alive' = alive \/ (alive' = alive \ {h} /\ ~ IsSentinel(hand[h]))
        /\ \/ IsSentinel(hand[h]) /\ landed' = landed \union {hand[h]}
           \/ hand[h] \in Records /\ handed' = Append(handed, hand[h]) /\ landed' = landed
    BY <1>4, DoneEffect
  <2>2. CASE r = hand[g]
    <3>1. ~ IsSentinel(r)
      BY DEF Records, IsSentinel
    <3>2. handed' = Append(handed, r)
      BY <1>1, <2>1, <2>2, <3>1
    <3>3. r \in Range(handed')
      BY <1>1, <3>2, RangeOfAppend
    <3>4. QED
      BY <3>3 DEF Settled
  <2>3. ASSUME NEW k \in DOMAIN queue[g], NEW l \in DOMAIN queue[g], k < l,
               queue[g][k] = r, queue[g][l] = s
        PROVE  Settled(r)' \/ AheadOf(r, s, g)'
    <3>1. CASE alive' = alive
      <4>1. Behind(s, hand[g])
        BY <1>1, <2>1, <2>3 DEF InLine
      <4>2. s.n \in Nat
        BY Types
      <4>3. s # hand[g]
        BY <4>1, <4>2 DEF Behind
      <4>4. s \notin landed'
        BY <1>1, <2>1, <4>3
      <4>5. QED
        BY <1>1, <2>1, <2>3, <3>1, <4>4 DEF AheadOf
    <3>2. CASE alive' = alive \ {h}
      <4>1. r \in Range(queue[g])
        BY <2>3 DEF Range
      <4>2. QED
        BY <1>1, <2>1, <3>2, <4>1 DEF Settled, Stranded
    <3>3. QED
      BY <2>1, <3>1, <3>2
  <2>4. QED
    BY <1>1, <2>2, <2>3
<1>5. CASE /\ UNCHANGED <<queue, hand, landed>>
           /\ \/ UNCHANGED <<gen, alive>>
              \/ gen \notin alive /\ gen' = gen + 1 /\ alive' = alive \union {gen + 1}
  BY <1>1, <1>5 DEF AheadOf
<1>6. QED
  BY <1>2, <1>3, <1>4, <1>5, Kinds

\* What a wait is for when it begins is followed until it ends.
LEMMA FollowStep ==
  ASSUME TypeOK, CallersHold, WorkersAreReplaced, OutIsOlder, InLine, RecordsAreFollowed,
         [Next]_vars
  PROVE  RecordsAreFollowed'
<1>1. /\ alive \subseteq {gen} /\ put \subseteq Records
      /\ \A c \in Callers : before[c] \subseteq Records
      /\ gen \in Nat /\ \A g \in Generations : queue[g] \in Seq(Items)
      /\ Generations' = Generations
  BY Types DEF TypeOK, Generations
<1>2. ASSUME NEW r \in put'
      PROVE  Settled(r)' \/ \E g \in Generations : AtWorker(r, g)'
  <2>1. CASE r \in put
    <3>1. CASE Settled(r)
      BY <3>1, SettledStays
    <3>2. ASSUME NEW g \in Generations, AtWorker(r, g)
          PROVE  Settled(r)' \/ AtWorker(r, g)'
      BY <1>1, <2>1, <3>2, WorkerHolds
    <3>3. QED
      BY <2>1, <3>1, <3>2 DEF RecordsAreFollowed
  <2>2. CASE r \notin put
    <3>1. PICK c \in Callers : Put(c)
      BY <2>2 DEF Next, vars, history, CallerStep, WorkerStep, Enqueue, Wait, CheckDead, CheckAlive,
           PutSentinel, WaitReturns, WaitTimesOut, Get, Process, Die
    <3>2. r = item[c]
      BY <2>2, <3>1 DEF Put
    <3>3. PICK m : m = mine[c]
      OBVIOUS
    <3>4. /\ r \in Items /\ UNCHANGED <<gen, alive>> /\ m \in Generations /\ m \in 1..gen
          /\ queue'[m] = Append(queue[m], r)
      BY <3>1, <3>2, <3>3, PutEffect
    <3>5. Range(Append(queue[m], r)) = Range(queue[m]) \union {r}
      BY <1>1, <3>4, RangeOfAppend
    <3>6. r \in Range(queue'[m])
      BY <3>4, <3>5
    <3>7. CASE m \in alive
      BY <3>4, <3>6, <3>7 DEF AtWorker
    <3>8. CASE m \notin alive
      BY <3>4, <3>6, <3>8 DEF Settled, Stranded
    <3>9. QED
      BY <3>7, <3>8
  <2>3. QED
    BY <2>1, <2>2
\* A wait in progress keeps its sentinel, its worker and what it is for.
<1>3. ASSUME NEW c \in Callers, pc'[c] \in {"check", "sentinel", "wait"}, ~ Wait(c)
      PROVE  /\ item'[c] = item[c] /\ mine'[c] = mine[c] /\ before'[c] = before[c]
             /\ \/ pc'[c] = pc[c]
                \/ pc[c] = "check" /\ pc'[c] = "sentinel"
                \/ pc[c] = "sentinel" /\ pc'[c] = "wait" /\ PutSentinel(c)
  <2>1. ASSUME NEW d \in Callers, d # c, Enqueue(d) \/ Wait(d) \/ CallerStep(d)
        PROVE  UNCHANGED <<pc[c], item[c], mine[c], before[c]>>
    <3>1. CASE Enqueue(d)
      BY <2>1, <3>1 DEF Enqueue, Begin, history, TypeOK
    <3>2. CASE Wait(d)
      BY <2>1, <3>2 DEF Wait, Begin, history, TypeOK
    <3>3. CASE Put(d)
      BY <2>1, <3>3 DEF Put, Return, TypeOK
    <3>4. CASE CheckDead(d) \/ WaitReturns(d)
      BY <2>1, <3>4 DEF CheckDead, WaitReturns, Drained, Return, TypeOK
    <3>5. CASE CheckAlive(d) \/ PutSentinel(d)
      BY <2>1, <3>5 DEF CheckAlive, PutSentinel, history, TypeOK
    <3>6. CASE WaitTimesOut(d)
      BY <2>1, <3>6 DEF WaitTimesOut, Return, TypeOK
    <3>7. QED
      BY <2>1, <3>1, <3>2, <3>3, <3>4, <3>5, <3>6 DEF CallerStep
  <2>2. ASSUME Enqueue(c) \/ Put(c) \/ CheckDead(c) \/ WaitReturns(c) \/ WaitTimesOut(c)
        PROVE  FALSE
    <3>1. pc' = [pc EXCEPT ![c] = "put"] \/ pc' = [pc EXCEPT ![c] = "idle"]
      BY <2>2 DEF Enqueue, Begin, Put, CheckDead, WaitReturns, WaitTimesOut, Drained, Return
    <3>2. QED
      BY <1>3, <3>1 DEF TypeOK
  <2>3. CASE CheckAlive(c) \/ PutSentinel(c)
    BY <2>3 DEF CheckAlive, PutSentinel, history, TypeOK
  <2>4. ASSUME UNCHANGED <<pc, item, mine, before>>
        PROVE  UNCHANGED <<pc[c], item[c], mine[c], before[c]>>
    BY <2>4
  <2>5. ASSUME NEW g \in Generations, Get(g) \/ Process(g) \/ Die(g)
        PROVE  UNCHANGED <<pc, item, mine, before>>
    BY <2>5 DEF Get, Process, Die, caller, history
  <2>6. CASE UNCHANGED vars
    BY <2>4, <2>6 DEF vars, caller, history
  <2>7. QED
    BY <1>3, <2>1, <2>2, <2>3, <2>4, <2>5, <2>6 DEF Next, CallerStep, WorkerStep
<1>4. ASSUME NEW c \in Callers, Wait(c), NEW r \in before'[c]
      PROVE  Settled(r)' \/ AtWorker(r, mine[c])'
  <2>1. /\ mine' = [mine EXCEPT ![c] = gen] /\ before' = [before EXCEPT ![c] = put]
        /\ UNCHANGED <<gen, alive, queue, hand, handed, put>>
    BY <1>4 DEF Wait, worker
  <2>2. mine'[c] = gen /\ r \in put
    BY <1>4, <2>1 DEF TypeOK
  <2>3. Settled(r) \/ AtWorker(r, gen)
    BY <1>1, <2>2 DEF RecordsAreFollowed, AtWorker
  <2>4. CASE Settled(r)
    BY <2>4, SettledStays
  <2>5. CASE AtWorker(r, gen)
    BY <2>1, <2>2, <2>5 DEF AtWorker
  <2>6. QED
    BY <2>3, <2>4, <2>5
<1>5. ASSUME NEW c \in Callers, pc'[c] \in {"check", "sentinel"}, NEW r \in before'[c]
      PROVE  Settled(r)' \/ AtWorker(r, mine[c])'
  <2>1. CASE Wait(c)
    BY <1>4, <1>5, <2>1
  <2>2. CASE ~ Wait(c)
    <3>1. mine'[c] = mine[c] /\ r \in before[c] /\ pc[c] \in {"check", "sentinel"}
      BY <1>3, <1>5, <2>2
    <3>2. PICK m : m = mine[c]
      OBVIOUS
    <3>3. Settled(r) \/ AtWorker(r, m)
      BY <3>1, <3>2 DEF RecordsAreFollowed
    <3>4. r \in Records
      BY <1>1, <3>1
    <3>5. Settled(r)' \/ AtWorker(r, m)'
      BY <3>3, <3>4, SettledStays, WorkerHolds
    <3>6. QED
      BY <3>1, <3>2, <3>5
  <2>3. QED
    BY <2>1, <2>2
<1>6. ASSUME NEW c \in Callers, pc'[c] = "wait", NEW r \in before'[c]
      PROVE  Settled(r)' \/ AheadOf(r, item[c], mine[c])'
  <2>1. ~ Wait(c)
    BY <1>6 DEF Wait, Begin, TypeOK
  <2>2. /\ item'[c] = item[c] /\ mine'[c] = mine[c] /\ r \in before[c]
        /\ pc[c] = "wait" \/ (pc[c] = "sentinel" /\ PutSentinel(c))
    BY <1>3, <1>6, <2>1
  <2>3. PICK m, x : m = mine[c] /\ x = item[c]
    OBVIOUS
  <2>4. r \in Records
    BY <1>1, <2>2
  <2>5. CASE pc[c] = "wait"
    <3>1. Settled(r) \/ AheadOf(r, x, m)
      BY <2>2, <2>3, <2>5 DEF RecordsAreFollowed
    <3>2. x \in Items /\ IsSentinel(x)
      BY <2>3, <2>5 DEF CallersHold
    <3>3. Settled(r)' \/ AheadOf(r, x, m)'
      BY <2>4, <3>1, <3>2, SettledStays, AheadHolds
    <3>4. QED
      BY <2>2, <2>3, <3>3
  <2>6. CASE pc[c] = "sentinel" /\ PutSentinel(c)
    <3>1. Settled(r) \/ AtWorker(r, m)
      BY <2>2, <2>3, <2>6 DEF RecordsAreFollowed
    <3>2. /\ x \in Items /\ x.by = c /\ m \in Generations
          /\ UNCHANGED <<gen, alive, hand, handed, landed>>
          /\ queue'[m] = Append(queue[m], x)
      BY <2>3, <2>6, PutEffect
    <3>3. x.n \in Nat
      BY <3>2, Types
    <3>4. x \notin landed
      BY <2>3, <2>6, <3>2, <3>3 DEF OutIsOlder, Out
    <3>5. ASSUME AtWorker(r, m)
          PROVE  AheadOf(r, x, m)'
      <4>1. CASE r = hand[m]
        BY <3>2, <3>4, <3>5, <4>1 DEF AtWorker, AheadOf
      <4>2. CASE r \in Range(queue[m])
        <5>1. PICK k \in DOMAIN queue[m] : queue[m][k] = r
          BY <4>2 DEF Range
        <5>2. PICK l : l = Len(queue[m]) + 1
          OBVIOUS
        <5>3. /\ k \in DOMAIN queue'[m] /\ queue'[m][k] = r /\ k < l
              /\ l \in DOMAIN queue'[m] /\ queue'[m][l] = x
          BY <1>1, <3>2, <5>1, <5>2, RangeOfAppend
        <5>4. QED
          BY <3>2, <3>4, <3>5, <5>3 DEF AtWorker, AheadOf
      <4>3. QED
        BY <3>5, <4>1, <4>2 DEF AtWorker
    <3>6. Settled(r)' \/ AheadOf(r, x, m)'
      BY <3>1, <3>5, SettledStays
    <3>7. QED
      BY <2>2, <2>3, <3>6
  <2>7. QED
    BY <2>2, <2>5, <2>6
<1>7. QED
  BY <1>1, <1>2, <1>5, <1>6 DEF RecordsAreFollowed

\* What a wait that returns True adds to the missed records is stranded.
LEMMA MissedStep ==
  ASSUME TypeOK, CallersHold, WorkersAreReplaced, RecordsAreFollowed, MissedAreStranded,
         [Next]_vars
  PROVE  MissedAreStranded'
<1>1. \A r \in Stranded : r \in Stranded'
  BY StrandedStays
<1>2. ASSUME NEW c \in Callers, CheckDead(c) \/ WaitReturns(c)
      PROVE  MissedAreStranded'
  <2>1. missed' = missed \union
          {[record |-> r, heard |-> pc[c] = "wait"] : r \in before[c] \ Range(handed)}
    BY <1>2 DEF CheckDead, WaitReturns, Drained
  <2>2. ASSUME NEW r \in before[c] \ Range(handed)
        PROVE  r \in Stranded
    <3>1. CASE CheckDead(c)
      <4>1. Settled(r) \/ AtWorker(r, mine[c])
        BY <3>1 DEF RecordsAreFollowed, CheckDead
      <4>2. QED
        BY <3>1, <4>1 DEF CheckDead, AtWorker, Settled
    <3>2. CASE WaitReturns(c)
      <4>1. Settled(r) \/ AheadOf(r, item[c], mine[c])
        BY <3>2 DEF RecordsAreFollowed, WaitReturns
      <4>2. QED
        BY <3>2, <4>1 DEF WaitReturns, AheadOf, Settled
    <3>3. QED
      BY <1>2, <3>1, <3>2
  <2>3. \A m \in missed' : m.record \in Stranded
    <3>1. \A m \in missed : m.record \in Stranded
      BY DEF MissedAreStranded
    <3>2. QED
      BY <2>1, <2>2, <3>1
  <2>4. QED
    BY <1>1, <2>3 DEF MissedAreStranded
<1>3. CASE missed' = missed
  BY <1>1, <1>3 DEF MissedAreStranded
<1>4. QED
  BY <1>2, <1>3 DEF Next, CallerStep, WorkerStep, vars, history, Enqueue, Wait, Put, CheckAlive,
       PutSentinel, WaitTimesOut, Get, Process, Die

------------------------------------------------------------------------------
\* The invariant the results below follow from is kept: beside the types, what
\* callers remember of the queues, the order in which records pass from threads
\* through queues to exporters, and where the records a wait covers have gone.
THEOREM Invariance == Spec => []IInv
<1>1. Init => IInv
  <2> SUFFICES ASSUME Init PROVE IInv
    OBVIOUS
  <2> USE BoundsAssumption DEF Init
  <2>1. TypeOK
    <3>1. /\ 0 \in 0..(MaxDeaths + 1) /\ 0 \in 0..MaxCalls /\ 0 \in 0..MaxDeaths /\ 0 \in 0..0
          /\ 0 <= 0 + 1
      OBVIOUS
    <3>2. << >> \in Seq(Items) /\ << >> \in Seq(Records)
      OBVIOUS
    <3>3. QED
      BY <3>1, <3>2 DEF TypeOK
  <2>2. CallersHold
    BY DEF CallersHold
  <2>3. WorkersAreReplaced
    BY DEF WorkersAreReplaced, Held
  <2>4. \A g \in Generations : ~ Held(g) /\ Range(queue[g]) = {} /\ DOMAIN queue[g] = {}
    BY DEF Held, Range
  <2>5. Range(handed) = {} /\ DOMAIN handed = {} /\ Len(handed) = 0
    BY DEF Range
  <2>6. OutIsOlder
    BY <2>4, <2>5 DEF OutIsOlder, Out
  <2>7. InLine
    BY <2>4, <2>5 DEF InLine
  <2>8. InOrder
    BY <2>5 DEF InOrder
  <2>9. RecordsAreFollowed /\ MissedAreStranded
    BY DEF RecordsAreFollowed, MissedAreStranded
  <2>10. QED
    BY <2>1, <2>2, <2>3, <2>6, <2>7, <2>8, <2>9 DEF IInv
<1>2. IInv /\ [Next]_vars => IInv'
  <2> SUFFICES ASSUME IInv, [Next]_vars PROVE IInv'
    OBVIOUS
  <2>1. /\ TypeOK /\ CallersHold /\ WorkersAreReplaced /\ OutIsOlder /\ InLine /\ InOrder
        /\ RecordsAreFollowed /\ MissedAreStranded
    BY DEF IInv
  <2>2. TypeOK' /\ CallersHold' /\ WorkersAreReplaced'
    BY <2>1, TypeStep, ShapeStep
  <2>3. OutIsOlder' /\ InLine' /\ InOrder'
    BY <2>1, <2>2, OutStep, LineStep
  <2>4. RecordsAreFollowed' /\ MissedAreStranded'
    BY <2>1, FollowStep, MissedStep
  <2>5. QED
    BY <2>2, <2>3, <2>4 DEF IInv
<1>3. QED
  BY <1>1, <1>2, PTL DEF Spec

\* Types are kept: at most one worker runs, it reads the current queue, and a
\* generation is replaced only because its worker died.
THEOREM TypeCorrect == Spec => []TypeOK
<1>1. IInv => TypeOK
  BY DEF IInv
<1>2. QED
  BY <1>1, Invariance, PTL

\* Exporters are given a thread's records in its order, and once each, also
\* when the worker dies between them and is replaced.
THEOREM ExportsAreInOrder == Spec => []InOrder
<1>1. IInv => InOrder
  BY DEF IInv
<1>2. QED
  BY <1>1, Invariance, PTL

\* A wait that returned True leaves behind only what a dead worker's queue
\* holds, whatever the other threads do and however often workers die.
THEOREM MissedRecordsAreStranded == Spec => []MissedAreStranded
<1>1. IInv => MissedAreStranded
  BY DEF IInv
<1>2. QED
  BY <1>1, Invariance, PTL
==============================================================================
