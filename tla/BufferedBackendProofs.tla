------------------------- MODULE BufferedBackendProofs -------------------------
(***************************************************************************)
(* The buffered store, for any tasks, ids and batch size: nothing accepted *)
(* is lost or written twice (it implements WriteBehind), an undisturbed    *)
(* delete is final, a flush covers what it found, a full batch is taken,   *)
(* and an acknowledged id is missed only while a call is writing it.       *)
(***************************************************************************)
EXTENDS BufferedBackend, TLAPS

\* A call that goes on with an id has one, and a batch handed over directly is
\* of the call's own id.
ArgsGiven ==
  \A t \in Tasks :
    /\ pc[t] \in {"take", "direct", "fetch", "erase"} => arg[t] \in Ids
    /\ pc[t] = "direct" => \E d \in Range(batch[t]) : d.id = arg[t]

\* No decision is in two places: two calls, or a call and the buffer.
Apart ==
  \A t \in Tasks :
    /\ \A d \in Range(batch[t]) : d \notin Range(pending)
    /\ \A u \in Tasks \ {t} : \A d \in Range(batch[t]) : d \notin Range(batch[u])

\* The decision is in the buffer or in the batch of a call other than t's.
Elsewhere(t, d) ==
  d \in Range(pending) \/ \E u \in Tasks \ {t} : d \in Range(batch[u])

\* Call t saw the decision in flight when it looked, or the decision is younger.
Accounted(t, d) == d.n > began[t].serial \/ d \in began[t].flying

\* A flush took, and a delete removed of its id, all that was in the buffer.
LooksHold ==
  \A t \in Tasks : \A d :
    Elsewhere(t, d) =>
      /\ (pc[t] = "flush" \/ (pc[t] = "write" /\ arg[t] = NoId)) => Accounted(t, d)
      /\ (pc[t] = "erase" /\ d.id = arg[t]) => Accounted(t, d)

\* No version a final delete covers is in memory or on the wrapped store.
NothingDead ==
  /\ \A d \in Range(pending) : d.n > dead[d.id]
  /\ \A t \in Tasks : \A d \in Range(batch[t]) : d.n > dead[d.id]
  /\ \A id \in Ids : inner[id] = 0 \/ inner[id] > dead[id]

\* The id can be found on the wrapped store, in the buffer, or in a batch that
\* is written or put back.
Kept(id) ==
  \/ inner[id] # 0
  \/ \E d \in Range(pending) : d.id = id
  \/ \E t \in Tasks : pc[t] = "write" /\ \E d \in Range(batch[t]) : d.id = id

\* A save that will make its id known can rely on that as well; a read that
\* must find its id does so, or saw it in flight.
Relies(t) ==
  began[t].sure =>
    /\ pc[t] \in {"take", "write"} => arg[t] \in Ids /\ Kept(arg[t])
    /\ pc[t] = "fetch" =>
         inner[arg[t]] # 0 \/ \E d \in began[t].flying : d.id = arg[t]

KnownAreKept ==
  /\ \A id \in known : Kept(id)
  /\ \A t \in Tasks : Relies(t)

\* Unless a write failed, a save is about to take a full batch.
FullIsTaken ==
  (failures = 0 /\ Len(pending) >= BatchSize) => \E t \in Tasks : pc[t] = "take"

IInv ==
  /\ TypeOK /\ ArgsGiven /\ Apart /\ LooksHold /\ NothingDead
  /\ KnownAreKept /\ MissesAreInFlight /\ FullIsTaken

------------------------------------------------------------------------------
\* What a call can have found when it looked.
Looks == [serial : 0..serial, flying : SUBSET Decision, sure : BOOLEAN]

\* Versions already numbered stay so.
LEMMA DecisionsStay ==
  ASSUME TypeOK, serial' \in Nat, serial <= serial'
  PROVE  /\ Decision \subseteq Decision'
         /\ pending \in Seq(Decision')
         /\ batch \in [Tasks -> Seq(Decision')]
         /\ inner \in [Ids -> 0..serial'] /\ dead \in [Ids -> 0..serial']
         /\ began \in [Tasks -> Looks']
<1>1. serial \in Nat /\ 0..serial \subseteq 0..serial' /\ 1..serial \subseteq 1..serial'
  BY BatchAssumption DEF TypeOK
<1>2. Decision \subseteq Decision'
  BY <1>1 DEF Decision
<1>3. Seq(Decision) \subseteq Seq(Decision')
  BY <1>2, SeqMonotonic
<1>4. Looks \subseteq Looks'
  BY <1>1, <1>2 DEF Looks
<1>5. QED
  BY <1>1, <1>2, <1>3, <1>4 DEF TypeOK, Looks

\* They are the same while no version is numbered.
LEMMA DecisionsSame == serial' = serial => Decision' = Decision /\ Looks' = Looks
BY DEF Decision, Looks

\* What a call finds when it looks is well typed.
LEMMA FoundType ==
  ASSUME TypeOK, NEW t \in Tasks, NEW id
  PROVE  Found(t, id) \in Looks
<1>1. \A u \in Tasks : Range(batch[u]) \subseteq Decision
  BY RangeFacts DEF TypeOK
<1>2. InFlight(Tasks \ {t}) \subseteq Decision
  BY <1>1 DEF InFlight
<1>3. serial \in 0..serial
  BY BatchAssumption DEF TypeOK
<1>4. QED
  BY <1>2, <1>3 DEF Found, Looks

\* A version that is about to be numbered, and the batch of it alone.
LEMMA VersionType ==
  ASSUME TypeOK, NEW id \in Ids, serial' = serial + 1
  PROVE  /\ Version(id) \in Decision'
         /\ <<Version(id)>> \in Seq(Decision')
         /\ Range(<<Version(id)>>) = {Version(id)}
         /\ <<Version(id)>> # << >>
<1>1. serial \in Nat /\ serial + 1 \in 1..(serial + 1)
  BY BatchAssumption DEF TypeOK
<1>2. Version(id) \in Decision'
  BY <1>1 DEF Version, Decision
<1>3. << >> \in Seq(Decision') /\ Range(<< >>) = {}
  BY EmptySeq, RangeFacts
<1>4. /\ Append(<< >>, Version(id)) \in Seq(Decision')
      /\ Range(Append(<< >>, Version(id))) = Range(<< >>) \union {Version(id)}
  BY <1>2, <1>3, RangeFacts
<1>5. Append(<< >>, Version(id)) = <<Version(id)>>
  OBVIOUS
<1>6. QED
  BY <1>2, <1>3, <1>4, <1>5

\* What a delete leaves in the buffer.
LEMMA DeleteLeaves ==
  ASSUME TypeOK, NEW id
  PROVE  LET kept == Picked(pending, {i \in DOMAIN pending : pending[i].id # id})
         IN  /\ kept \in Seq(Decision)
             /\ Len(kept) \in 0..Len(pending)
             /\ Range(kept) = {d \in Range(pending) : d.id # id}
<1> DEFINE I == {i \in DOMAIN pending : pending[i].id # id}
           kept == Picked(pending, I)
<1>1. pending \in Seq(Decision) /\ DOMAIN pending = 1..Len(pending)
  BY LenProperties DEF TypeOK
<1>2. I \in SUBSET (1..Len(pending))
  BY <1>1
<1>3. kept \in Seq(Decision) /\ Len(kept) \in 0..Len(pending)
      /\ Range(kept) = {pending[i] : i \in I}
  BY <1>1, <1>2, PickedProperties
<1>4. Range(pending) = {pending[i] : i \in 1..Len(pending)}
  BY <1>1, RangeEquality
<1>5. {pending[i] : i \in I} = {d \in Range(pending) : d.id # id}
  BY <1>1, <1>4
<1>6. QED
  BY <1>3, <1>5
\* What a delete forgets of the histories leaves their types.
LEMMA UnsureType ==
  ASSUME TypeOK, NEW id
  PROVE  Unsure(id) \in [Tasks -> Looks]
<1>1. ASSUME NEW u \in Tasks
      PROVE  [began[u] EXCEPT !.sure = FALSE]
               \in Looks
  BY DEF TypeOK, Looks
<1>2. QED
  BY <1>1 DEF TypeOK, Looks, Unsure

------------------------------------------------------------------------------
\* The variables keep their types, and a call holds decisions exactly while it
\* is writing them.
LEMMA TypeStep == TypeOK /\ ArgsGiven /\ [Next]_vars => TypeOK'
<1> SUFFICES ASSUME TypeOK, ArgsGiven, [Next]_vars PROVE TypeOK'
  OBVIOUS
<1> USE BatchAssumption DEF Holding
<1>0. /\ serial \in Nat /\ calls \in Nat /\ failures \in Nat
      /\ Nothing \in Looks /\ << >> \in Seq(Decision)
      /\ \A s \in Seq(Decision) : Len(s) \in Nat
      /\ began \in [Tasks -> Looks]
  BY EmptySeq, LenProperties DEF Nothing, Looks, TypeOK
<1>a. serial' = serial => Decision' = Decision /\ Looks' = Looks
  BY DecisionsSame
<1>b. TypeOK' <=>
        /\ pending' \in Seq(Decision')
        /\ inner' \in [Ids -> 0..serial'] /\ dead' \in [Ids -> 0..serial']
        /\ pc' \in [Tasks -> {"idle", "take", "write", "direct", "flush", "fetch", "erase"}]
        /\ arg' \in [Tasks -> Ids \union {NoId}]
        /\ batch' \in [Tasks -> Seq(Decision')]
        /\ calls' \in 0..MaxCalls /\ failures' \in 0..MaxFailures /\ serial' \in 0..calls'
        /\ known' \subseteq Ids
        /\ began' \in [Tasks -> Looks']
        /\ missed' \subseteq [id : Ids, flying : BOOLEAN]
        /\ \A t \in Tasks : (batch'[t] # << >>) <=> (pc'[t] \in Holding)
  BY DEF Looks, TypeOK
<1>c. /\ pending \in Seq(Decision)
      /\ inner \in [Ids -> 0..serial] /\ dead \in [Ids -> 0..serial]
      /\ pc \in [Tasks -> {"idle", "take", "write", "direct", "flush", "fetch", "erase"}]
      /\ arg \in [Tasks -> Ids \union {NoId}]
      /\ batch \in [Tasks -> Seq(Decision)]
      /\ calls \in 0..MaxCalls /\ failures \in 0..MaxFailures /\ serial \in 0..calls
      /\ known \subseteq Ids
      /\ missed \subseteq [id : Ids, flying : BOOLEAN]
      /\ \A t \in Tasks : (batch[t] # << >>) <=> (pc[t] \in Holding)
  BY DEF TypeOK
<1> USE <1>a, <1>b, <1>c
<1>1. ASSUME NEW t \in Tasks, NEW id \in Ids, SaveDecision(t, id)
      PROVE  TypeOK'
  <2>1. /\ serial' = serial + 1 /\ calls' = calls + 1
        /\ serial' \in Nat /\ serial <= serial'
    BY <1>0, <1>1 DEF SaveDecision, Begin
  <2>2. /\ pending \in Seq(Decision') /\ Version(id) \in Decision'
        /\ batch \in [Tasks -> Seq(Decision')]
        /\ inner \in [Ids -> 0..serial'] /\ dead \in [Ids -> 0..serial']
        /\ began \in [Tasks -> Looks']
    BY <1>0, <2>1, DecisionsStay, VersionType
  <2>3. pending' \in Seq(Decision')
    BY <1>1, <2>2, RangeFacts DEF SaveDecision
  <2>a. BeginSave(t, id) => began' \in [Tasks -> Looks']
    BY <1>0, <2>1, <2>2 DEF BeginSave, Erasing, Looks
  <2>4. began' \in [Tasks -> Looks']
    BY <1>1, <2>2, <2>a DEF SaveDecision
  <2>5. /\ pc' \in [Tasks -> {"idle", "take", "write", "direct", "flush", "fetch", "erase"}]
        /\ arg' \in [Tasks -> Ids \union {NoId}]
        /\ \A u \in Tasks : (batch'[u] # << >>) <=> (pc'[u] \in Holding)
    BY <1>1 DEF SaveDecision, Begin
  <2>6. known' \subseteq Ids
    BY <1>1 DEF SaveDecision, Acknowledge
  <2>7. QED
    BY <1>0, <1>1, <2>1, <2>2, <2>3, <2>4, <2>5, <2>6 DEF SaveDecision, Begin
<1>2. ASSUME NEW t \in Tasks, NEW id \in Ids, SaveDecisions(t, id)
      PROVE  TypeOK'
  <2>1. /\ serial' = serial + 1 /\ calls' = calls + 1
        /\ serial' \in Nat /\ serial <= serial'
    BY <1>0, <1>2 DEF SaveDecisions, Begin
  <2>2. /\ pending \in Seq(Decision')
        /\ <<Version(id)>> \in Seq(Decision') /\ <<Version(id)>> # << >>
        /\ batch \in [Tasks -> Seq(Decision')]
        /\ inner \in [Ids -> 0..serial'] /\ dead \in [Ids -> 0..serial']
        /\ began \in [Tasks -> Looks']
    BY <1>0, <2>1, DecisionsStay, VersionType
  <2>3. began' \in [Tasks -> Looks']
    BY <1>0, <1>2, <2>1, <2>2 DEF SaveDecisions, BeginSave, Erasing, Looks
  <2>4. /\ pc' \in [Tasks -> {"idle", "take", "write", "direct", "flush", "fetch", "erase"}]
        /\ arg' \in [Tasks -> Ids \union {NoId}]
        /\ batch' \in [Tasks -> Seq(Decision')]
        /\ \A u \in Tasks : (batch'[u] # << >>) <=> (pc'[u] \in Holding)
    BY <1>2, <2>2 DEF SaveDecisions, Begin
  <2>5. QED
    BY <1>0, <1>2, <2>1, <2>2, <2>3, <2>4 DEF SaveDecisions, Begin, data
<1>3. ASSUME NEW t \in Tasks, NEW id \in Ids, LoadDecision(t, id)
      PROVE  TypeOK'
  <2>1. Found(t, id) \in Looks
    BY FoundType
  <2>2. Look(t, id) => began' \in [Tasks -> Looks]
    BY <1>0, <2>1 DEF Look
  <2>3. began' \in [Tasks -> Looks]
    BY <1>0, <1>3, <2>2 DEF LoadDecision
  <2>4. /\ calls' \in 0..MaxCalls /\ serial' = serial /\ serial' \in 0..calls'
    BY <1>0, <1>3 DEF LoadDecision, Begin
  <2>5. /\ pc' \in [Tasks -> {"idle", "take", "write", "direct", "flush", "fetch", "erase"}]
        /\ arg' \in [Tasks -> Ids \union {NoId}]
        /\ batch' = batch
        /\ \A u \in Tasks : (batch'[u] # << >>) <=> (pc'[u] \in Holding)
    BY <1>3 DEF LoadDecision, Begin
  <2>6. QED
    BY <1>0, <1>3, <2>3, <2>4, <2>5 DEF LoadDecision, data
<1>4. ASSUME NEW t \in Tasks, NEW id \in Ids, Delete(t, id)
      PROVE  TypeOK'
  <2>1. Found(t, id) \in Looks /\ Unsure(id) \in [Tasks -> Looks]
    BY FoundType, UnsureType
  <2>2. pending' \in Seq(Decision)
    BY <1>4, DeleteLeaves DEF Delete
  <2>3. began' \in [Tasks -> Looks]
    BY <1>4, <2>1 DEF Delete
  <2>4. known' \subseteq Ids
    BY <1>4 DEF Delete
  <2>5. /\ calls' \in 0..MaxCalls /\ serial' = serial /\ serial' \in 0..calls'
    BY <1>0, <1>4 DEF Delete, Begin
  <2>6. /\ pc' \in [Tasks -> {"idle", "take", "write", "direct", "flush", "fetch", "erase"}]
        /\ arg' \in [Tasks -> Ids \union {NoId}]
        /\ batch' = batch
        /\ \A u \in Tasks : (batch'[u] # << >>) <=> (pc'[u] \in Holding)
    BY <1>4 DEF Delete, Begin
  <2>7. QED
    BY <1>0, <1>4, <2>2, <2>3, <2>4, <2>5, <2>6 DEF Delete
<1>5. ASSUME NEW t \in Tasks, TakeFull(t)
      PROVE  TypeOK'
  <2>1. End(t) => began' \in [Tasks -> Looks]
    BY <1>0 DEF End
  <2>2. began' \in [Tasks -> Looks] /\ serial' = serial
    BY <1>0, <1>5, <2>1 DEF TakeFull
  <2>3. known' \subseteq Ids
    BY <1>5 DEF TakeFull, Acknowledge, ArgsGiven
  <2>4. /\ pc' \in [Tasks -> {"idle", "take", "write", "direct", "flush", "fetch", "erase"}]
        /\ arg' \in [Tasks -> Ids \union {NoId}]
        /\ batch' \in [Tasks -> Seq(Decision)] /\ pending' \in Seq(Decision)
        /\ \A u \in Tasks : (batch'[u] # << >>) <=> (pc'[u] \in Holding)
    BY <1>0, <1>5 DEF TakeFull, End, Finish
  <2>5. QED
    BY <1>5, <2>2, <2>3, <2>4 DEF TakeFull
<1>6. ASSUME NEW t \in Tasks, Flush(t)
      PROVE  TypeOK'
  <2>1. Found(t, NoId) \in Looks
    BY FoundType
  <2>2. QED
    BY <1>0, <1>6, <2>1 DEF Flush, Begin, Look
<1>7. ASSUME NEW t \in Tasks, WriteLands(t)
      PROVE  TypeOK'
  <2>1. inner' \in [Ids -> 0..serial]
    <3>1. ASSUME NEW id \in Ids, NEW at \in SUBSET (DOMAIN batch[t]), at # {}
          PROVE  batch[t][Max(at)].n \in 0..serial
      <4>1. batch[t] \in Seq(Decision)
        OBVIOUS
      <4>2. DOMAIN batch[t] = 1..Len(batch[t]) /\ Len(batch[t]) \in Nat
        BY <4>1, LenProperties
      <4>3. Max(at) \in at
        BY <3>1, <4>2, LastPosition DEF Max
      <4>4. batch[t][Max(at)] \in Decision
        BY <4>1, <4>2, <4>3, ElementOfSeq
      <4>5. QED
        BY <1>0, <4>4 DEF Decision
    <3>2. \A id \in Ids : Written(batch[t])[id] \in 0..serial
      BY <3>1 DEF Written
    <3>3. QED
      BY <1>7, <3>2 DEF WriteLands, Written
  <2>a. End(t) => began' \in [Tasks -> Looks]
    BY <1>0 DEF End
  <2>b. arg[t] # NoId => arg[t] \in Ids
    OBVIOUS
  <2>c. known' \subseteq Ids
    BY <1>7, <2>b DEF WriteLands, Acknowledge
  <2>2. began' \in [Tasks -> Looks] /\ known' \subseteq Ids /\ serial' = serial
    BY <1>0, <1>7, <2>a, <2>c DEF WriteLands
  <2>3. /\ pc' \in [Tasks -> {"idle", "take", "write", "direct", "flush", "fetch", "erase"}]
        /\ arg' \in [Tasks -> Ids \union {NoId}]
        /\ batch' \in [Tasks -> Seq(Decision)]
        /\ \A u \in Tasks : (batch'[u] # << >>) <=> (pc'[u] \in Holding)
    BY <1>0, <1>7 DEF WriteLands, End, Finish
  <2>4. QED
    BY <1>0, <1>7, <2>1, <2>2, <2>3 DEF WriteLands
<1>8. ASSUME NEW t \in Tasks, WriteFails(t)
      PROVE  TypeOK'
  <2>1. batch[t] \o pending \in Seq(Decision)
    BY RangeFacts
  <2>2. QED
    BY <1>0, <1>8, <2>1 DEF WriteFails, Failure, End, Finish
<1>9. ASSUME NEW t \in Tasks, FlushInner(t)
      PROVE  TypeOK'
  BY <1>0, <1>9 DEF FlushInner, End, Finish, data
<1>10. ASSUME NEW t \in Tasks, LoadInner(t)
      PROVE  TypeOK'
  <2>1. missed' \subseteq [id : Ids, flying : BOOLEAN]
    <3> DEFINE flew == \E d \in began[t].flying : d.id = arg[t]
    <3>1. arg[t] \in Ids /\ flew \in BOOLEAN
      BY <1>10 DEF LoadInner, ArgsGiven
    <3>2. missed' \subseteq missed \union {[id |-> arg[t], flying |-> flew]}
      BY <1>10 DEF LoadInner
    <3> HIDE DEF flew
    <3>3. QED
      BY <3>1, <3>2
  <2>2. QED
    BY <1>0, <1>10, <2>1 DEF LoadInner, End, Finish, data
<1>11. ASSUME NEW t \in Tasks, Erase(t)
      PROVE  TypeOK'
  <2>1. Unsure(arg[t]) \in [Tasks -> Looks] /\ arg[t] \in Ids
    BY <1>11, UnsureType DEF ArgsGiven, Erase
  <2>2. began' \in [Tasks -> Looks]
    BY <1>0, <1>11, <2>1 DEF Erase
  <2>3. inner' \in [Ids -> 0..serial] /\ serial' = serial
    BY <1>0, <1>11, <2>1 DEF Erase
  <2>4. dead' \in [Ids -> 0..serial]
    <3>1. began[t].serial \in 0..serial
      BY <1>0 DEF Looks
    <3>2. QED
      BY <1>11, <2>1, <3>1 DEF Erase
  <2>5. known' \subseteq Ids
    BY <1>11 DEF Erase
  <2>6. QED
    BY <1>0, <1>11, <2>2, <2>3, <2>4, <2>5 DEF Erase, Finish
<1>12. ASSUME NEW t \in Tasks, EraseFails(t)
      PROVE  TypeOK'
  BY <1>0, <1>12 DEF EraseFails, Failure, End, Finish, data
<1>13. CASE UNCHANGED vars
  BY <1>0, <1>13 DEF vars, data, history
<1>14. QED
  BY <1>1, <1>2, <1>3, <1>4, <1>5, <1>6, <1>7, <1>8, <1>9, <1>10, <1>11, <1>12, <1>13
     DEF Next
------------------------------------------------------------------------------
\* Every decision in memory is typed; a call that is not writing holds none.
LEMMA MemoryTypes ==
  ASSUME TypeOK
  PROVE  /\ serial \in Nat
         /\ \A d \in Range(pending) : d.id \in Ids /\ d.n \in Nat /\ d.n > 0 /\ d.n <= serial
         /\ \A t \in Tasks : \A d \in Range(batch[t]) :
              d.id \in Ids /\ d.n \in Nat /\ d.n > 0 /\ d.n <= serial
         /\ \A t \in Tasks : pc[t] \notin Holding <=> Range(batch[t]) = {}
         /\ pending = << >> <=> Range(pending) = {}
<1>1. serial \in Nat
  BY BatchAssumption DEF TypeOK
<1>2. \A d \in Decision : d.id \in Ids /\ d.n \in Nat /\ d.n > 0 /\ d.n <= serial
  BY <1>1 DEF Decision
<1>3. Range(pending) \subseteq Decision /\ (pending = << >> <=> Range(pending) = {})
  BY RangeFacts DEF TypeOK
<1>4. \A t \in Tasks :
        Range(batch[t]) \subseteq Decision /\ (batch[t] = << >> <=> Range(batch[t]) = {})
  BY RangeFacts DEF TypeOK
<1>5. QED
  BY <1>1, <1>2, <1>3, <1>4 DEF TypeOK

\* What each operation does to the buffer and the batches.
LEMMA SaveMemory ==
  ASSUME TypeOK, NEW t \in Tasks, NEW id \in Ids, SaveDecision(t, id)
  PROVE  /\ serial' = serial + 1
         /\ Range(pending') = Range(pending) \union {Version(id)}
         /\ Version(id).id = id /\ Version(id).n = serial + 1
         /\ batch' = batch
         /\ Len(pending') = Len(pending) + 1
<1>1. serial' = serial + 1 /\ pending' = Append(pending, Version(id)) /\ batch' = batch
  BY DEF SaveDecision
<1>2. serial \in Nat /\ serial' \in Nat /\ serial <= serial'
  BY <1>1, MemoryTypes
<1>3. pending \in Seq(Decision') /\ Version(id) \in Decision'
  BY <1>1, <1>2, DecisionsStay, VersionType
<1>4. Range(pending') = Range(pending) \union {Version(id)}
  BY <1>1, <1>3, RangeFacts
<1>5. Len(pending') = Len(pending) + 1
  BY <1>1, <1>3, AppendProperties
<1>6. QED
  BY <1>1, <1>4, <1>5 DEF Version

\* A call that takes the buffer moves all of it into a batch of its own.
LEMMA TakeMemory ==
  ASSUME TypeOK, NEW t \in Tasks, TakeFull(t) \/ Flush(t)
  PROVE  /\ pending' = << >> /\ Range(pending') = {}
         /\ Range(batch[t]) = {} /\ Range(batch'[t]) = Range(pending)
         /\ \A u \in Tasks \ {t} : batch'[u] = batch[u]
         /\ serial' = serial
<1>1. pc[t] \notin Holding
  BY DEF TakeFull, Flush, Begin, Holding
<1>2. Range(batch[t]) = {}
  BY <1>1, MemoryTypes
<1>3. pending' = << >> /\ batch' = [batch EXCEPT ![t] = pending] /\ serial' = serial
  BY DEF TakeFull, Flush
<1>4. << >> \in Seq(Decision)
  OBVIOUS
<1>5. QED
  BY <1>2, <1>3, <1>4, RangeFacts DEF TypeOK

\* save_decisions makes a new version and passes the buffer by.
LEMMA DirectMemory ==
  ASSUME TypeOK, NEW t \in Tasks, NEW id \in Ids, SaveDecisions(t, id)
  PROVE  /\ serial' = serial + 1
         /\ pending' = pending
         /\ Range(batch[t]) = {} /\ Range(batch'[t]) = {Version(id)}
         /\ Version(id).id = id /\ Version(id).n = serial + 1
         /\ \A u \in Tasks \ {t} : batch'[u] = batch[u]
<1>1. pc[t] \notin Holding
  BY DEF SaveDecisions, Begin, Holding
<1>2. Range(batch[t]) = {}
  BY <1>1, MemoryTypes
<1>3. /\ pending' = pending /\ batch' = [batch EXCEPT ![t] = <<Version(id)>>]
      /\ serial' = serial + 1
  BY DEF SaveDecisions, data
<1>4. Range(<<Version(id)>>) = {Version(id)}
  BY <1>3, VersionType
<1>5. QED
  BY <1>2, <1>3, <1>4 DEF TypeOK, Version

\* A write leaves of each id one of the versions in the batch.
LEMMA LandMemory ==
  ASSUME TypeOK, NEW t \in Tasks, WriteLands(t)
  PROVE  /\ pending' = pending /\ Range(batch'[t]) = {}
         /\ \A u \in Tasks \ {t} : batch'[u] = batch[u]
         /\ serial' = serial
         /\ \A id \in Ids :
              \/ \E d \in Range(batch[t]) : d.id = id /\ inner'[id] = d.n
              \/ inner'[id] = inner[id] /\ \A d \in Range(batch[t]) : d.id # id
<1>1. /\ pending' = pending /\ batch' = [batch EXCEPT ![t] = << >>] /\ serial' = serial
      /\ inner' = Written(batch[t])
  BY DEF WriteLands
<1>2. Range(<< >>) = {}
  <2>1. << >> \in Seq(Decision)
    OBVIOUS
  <2>2. QED
    BY <2>1, RangeFacts
<1>3. Range(batch'[t]) = {} /\ \A u \in Tasks \ {t} : batch'[u] = batch[u]
  <2>1. batch'[t] = << >> /\ \A u \in Tasks \ {t} : batch'[u] = batch[u]
    BY <1>1 DEF TypeOK
  <2>2. QED
    BY <1>2, <2>1
<1>4. ASSUME NEW id \in Ids
      PROVE  \/ \E d \in Range(batch[t]) : d.id = id /\ inner'[id] = d.n
             \/ inner'[id] = inner[id] /\ \A d \in Range(batch[t]) : d.id # id
  <2> DEFINE b == batch[t]
             at == {i \in DOMAIN b : b[i].id = id}
  <2>1. b \in Seq(Decision)
    BY DEF TypeOK
  <2>2. /\ DOMAIN b = 1..Len(b) /\ Len(b) \in Nat
        /\ Range(b) = {b[i] : i \in 1..Len(b)}
    BY <2>1, LenProperties, RangeEquality
  <2>3. inner'[id] = IF at = {} THEN inner[id] ELSE b[Max(at)].n
    BY <1>1 DEF Written
  <2>4. CASE at = {}
    BY <2>2, <2>3, <2>4
  <2>5. CASE at # {}
    <3>1. at \in SUBSET (1..Len(b))
      BY <2>2
    <3>2. Max(at) \in at
      BY <2>2, <2>5, <3>1, LastPosition DEF Max
    <3>3. b[Max(at)] \in Range(b) /\ b[Max(at)].id = id
      BY <2>2, <3>2
    <3>4. QED
      BY <2>3, <2>5, <3>3
  <2>6. QED
    BY <2>4, <2>5
<1>5. QED
  BY <1>1, <1>3, <1>4

\* A failed batch goes back before what was pushed meanwhile; a failed direct
\* write goes nowhere.
LEMMA FailMemory ==
  ASSUME TypeOK, NEW t \in Tasks, WriteFails(t)
  PROVE  /\ Range(pending') = Range(pending) \union (IF pc[t] = "write" THEN Range(batch[t]) ELSE {})
         /\ Range(batch'[t]) = {}
         /\ \A u \in Tasks \ {t} : batch'[u] = batch[u]
         /\ serial' = serial /\ inner' = inner
<1>1. /\ pending' = IF pc[t] = "write" THEN batch[t] \o pending ELSE pending
      /\ batch' = [batch EXCEPT ![t] = << >>]
      /\ serial' = serial /\ inner' = inner
  BY DEF WriteFails
<1>2. << >> \in Seq(Decision) /\ pending \in Seq(Decision) /\ batch[t] \in Seq(Decision)
  BY DEF TypeOK
<1>3. Range(batch[t] \o pending) = Range(batch[t]) \union Range(pending) /\ Range(<< >>) = {}
  <2>1. Range(batch[t] \o pending) = Range(batch[t]) \union Range(pending)
    BY <1>2, RangeConcatenation
  <2>2. Range(<< >>) = {}
    BY <1>2, RangeFacts
  <2>3. QED
    BY <2>1, <2>2
<1>4. batch'[t] = << >> /\ \A u \in Tasks \ {t} : batch'[u] = batch[u]
  BY <1>1 DEF TypeOK
<1>5. CASE pc[t] = "write"
  BY <1>1, <1>3, <1>4, <1>5
<1>6. CASE pc[t] # "write"
  BY <1>1, <1>3, <1>4, <1>6
<1>7. QED
  BY <1>5, <1>6

\* Delete removes exactly the versions of its id from the buffer.
LEMMA DeleteMemory ==
  ASSUME TypeOK, NEW t \in Tasks, NEW id \in Ids, Delete(t, id)
  PROVE  /\ Range(pending') = {d \in Range(pending) : d.id # id}
         /\ Len(pending') <= Len(pending) /\ Len(pending') \in Nat /\ Len(pending) \in Nat
         /\ batch' = batch /\ serial' = serial /\ inner' = inner
<1>1. Len(pending) \in Nat
  BY LenProperties DEF TypeOK
<1>2. /\ Range(pending') = {d \in Range(pending) : d.id # id}
      /\ Len(pending') \in 0..Len(pending)
  BY DeleteLeaves DEF Delete
<1>3. batch' = batch /\ serial' = serial /\ inner' = inner
  BY DEF Delete
<1>4. QED
  BY <1>1, <1>2, <1>3

\* The other operations leave both alone.
LEMMA OtherMemory ==
  ASSUME NEW t \in Tasks,
         \/ \E id \in Ids : LoadDecision(t, id)
         \/ FlushInner(t) \/ LoadInner(t) \/ Erase(t) \/ EraseFails(t)
  PROVE  pending' = pending /\ batch' = batch /\ serial' = serial
  BY DEF LoadDecision, FlushInner, LoadInner, Erase, EraseFails, data
------------------------------------------------------------------------------
\* No step copies a decision: what an operation puts in one place it has made
\* or has taken out of another.
LEMMA ApartStep == TypeOK /\ Apart /\ [Next]_vars => Apart'
<1> SUFFICES ASSUME TypeOK, Apart, [Next]_vars PROVE Apart'
  OBVIOUS
<1> USE DEF Apart
<1>1. ASSUME NEW t \in Tasks, NEW id \in Ids, SaveDecision(t, id)
      PROVE  Apart'
  BY <1>1, SaveMemory, MemoryTypes
<1>2. ASSUME NEW t \in Tasks, NEW id \in Ids, SaveDecisions(t, id)
      PROVE  Apart'
  <2>1. /\ pending' = pending /\ Range(batch'[t]) = {Version(id)}
        /\ \A u \in Tasks \ {t} : batch'[u] = batch[u]
        /\ Version(id).n = serial + 1
    BY <1>2, DirectMemory
  <2>2. /\ Version(id) \notin Range(pending)
        /\ \A u \in Tasks : Version(id) \notin Range(batch[u])
    BY <2>1, MemoryTypes
  <2>3. QED
    BY <2>1, <2>2
<1>3. ASSUME NEW t \in Tasks, TakeFull(t) \/ Flush(t)
      PROVE  Apart'
  BY <1>3, TakeMemory
<1>4. ASSUME NEW t \in Tasks, WriteLands(t)
      PROVE  Apart'
  BY <1>4, LandMemory
<1>5. ASSUME NEW t \in Tasks, WriteFails(t)
      PROVE  Apart'
  BY <1>5, FailMemory
<1>6. ASSUME NEW t \in Tasks, NEW id \in Ids, Delete(t, id)
      PROVE  Apart'
  BY <1>6, DeleteMemory
<1>7. ASSUME NEW t \in Tasks,
             \/ \E id \in Ids : LoadDecision(t, id)
             \/ FlushInner(t) \/ LoadInner(t) \/ Erase(t) \/ EraseFails(t)
      PROVE  Apart'
  BY <1>7, OtherMemory
<1>8. CASE UNCHANGED vars
  BY <1>8 DEF vars, data
<1>9. QED
  BY <1>1, <1>2, <1>3, <1>4, <1>5, <1>6, <1>7, <1>8 DEF Next

\* An operation that goes on with an id was given one.
LEMMA ArgsStep == TypeOK /\ ArgsGiven /\ [Next]_vars => ArgsGiven'
<1> SUFFICES ASSUME TypeOK, ArgsGiven, [Next]_vars PROVE ArgsGiven'
  OBVIOUS
<1> USE DEF ArgsGiven
<1>0. pc \in [Tasks -> {"idle", "take", "write", "direct", "flush", "fetch", "erase"}]
      /\ arg \in [Tasks -> Ids \union {NoId}]
  BY DEF TypeOK
<1>1. ASSUME NEW t \in Tasks, NEW id \in Ids, SaveDecision(t, id)
      PROVE  ArgsGiven'
  BY <1>0, <1>1 DEF SaveDecision, Begin
<1>2. ASSUME NEW t \in Tasks, NEW id \in Ids, SaveDecisions(t, id)
      PROVE  ArgsGiven'
  <2>1. /\ Range(batch'[t]) = {Version(id)} /\ Version(id).id = id
        /\ \A u \in Tasks \ {t} : batch'[u] = batch[u]
    BY <1>2, DirectMemory
  <2>2. pc' = [pc EXCEPT ![t] = "direct"] /\ arg' = [arg EXCEPT ![t] = id]
    BY <1>2 DEF SaveDecisions, Begin
  <2>3. QED
    BY <1>0, <2>1, <2>2
<1>3. ASSUME NEW t \in Tasks, TakeFull(t)
      PROVE  ArgsGiven'
  BY <1>0, <1>3, TakeMemory DEF TakeFull, End, Finish
<1>4. ASSUME NEW t \in Tasks, Flush(t)
      PROVE  ArgsGiven'
  BY <1>0, <1>4, TakeMemory DEF Flush, Begin
<1>5. ASSUME NEW t \in Tasks, WriteLands(t)
      PROVE  ArgsGiven'
  BY <1>0, <1>5, LandMemory DEF WriteLands, End, Finish
<1>6. ASSUME NEW t \in Tasks, WriteFails(t)
      PROVE  ArgsGiven'
  BY <1>0, <1>6, FailMemory DEF WriteFails, End, Finish
<1>7. ASSUME NEW t \in Tasks, NEW id \in Ids, Delete(t, id) \/ LoadDecision(t, id)
      PROVE  ArgsGiven'
  BY <1>0, <1>7 DEF Delete, LoadDecision, Begin
<1>8. ASSUME NEW t \in Tasks, FlushInner(t) \/ LoadInner(t) \/ Erase(t) \/ EraseFails(t)
      PROVE  ArgsGiven'
  BY <1>0, <1>8 DEF FlushInner, LoadInner, Erase, EraseFails, End, Finish
<1>9. CASE UNCHANGED vars
  BY <1>9 DEF vars
<1>10. QED
  BY <1>1, <1>2, <1>3, <1>4, <1>5, <1>6, <1>7, <1>8, <1>9 DEF Next
\* What a flush or a delete found when it looked stays all there is, for it, of
\* what was saved before: decisions move between the buffer and the batches of
\* other calls, and those that come are younger.
LEMMA LooksStep == TypeOK /\ ArgsGiven /\ LooksHold /\ [Next]_vars => LooksHold'
<1> SUFFICES ASSUME TypeOK, ArgsGiven, LooksHold, [Next]_vars PROVE LooksHold'
  OBVIOUS
<1>0. /\ pc \in [Tasks -> {"idle", "take", "write", "direct", "flush", "fetch", "erase"}]
      /\ arg \in [Tasks -> Ids \union {NoId}]
      /\ began \in [Tasks -> Looks] /\ serial \in Nat
      /\ \A u \in Tasks : began[u].serial \in 0..serial
  BY BatchAssumption DEF TypeOK, Looks
<1> USE DEF LooksHold, Elsewhere, Accounted
<1>1. ASSUME NEW t \in Tasks, NEW id \in Ids, SaveDecision(t, id)
      PROVE  LooksHold'
  <2>1. /\ Range(pending') = Range(pending) \union {Version(id)}
        /\ Version(id).n = serial + 1 /\ batch' = batch
    BY <1>1, SaveMemory
  <2>2. /\ \A u \in Tasks \ {t} : pc'[u] = pc[u] /\ arg'[u] = arg[u] /\ began'[u] = began[u]
        /\ pc'[t] \in {"idle", "take"}
    BY <1>0, <1>1 DEF SaveDecision, Begin, BeginSave
  <2>3. \A u \in Tasks : Version(id).n > began[u].serial
    BY <1>0, <2>1
  <2>4. QED
    BY <2>1, <2>2, <2>3
<1>2. ASSUME NEW t \in Tasks, NEW id \in Ids, SaveDecisions(t, id)
      PROVE  LooksHold'
  <2>1. /\ Range(batch'[t]) = {Version(id)}
        /\ \A u \in Tasks \ {t} : batch'[u] = batch[u]
        /\ Version(id).n = serial + 1 /\ pending' = pending
    BY <1>2, DirectMemory
  <2>2. /\ \A u \in Tasks \ {t} : pc'[u] = pc[u] /\ arg'[u] = arg[u] /\ began'[u] = began[u]
        /\ pc'[t] = "direct"
    BY <1>0, <1>2 DEF SaveDecisions, Begin, BeginSave
  <2>3. \A u \in Tasks : Version(id).n > began[u].serial
    BY <1>0, <2>1
  <2>4. QED
    BY <2>1, <2>2, <2>3
<1>3. ASSUME NEW t \in Tasks, TakeFull(t)
      PROVE  LooksHold'
  <2>1. /\ Range(pending') = {} /\ Range(batch'[t]) = Range(pending)
        /\ \A u \in Tasks \ {t} : batch'[u] = batch[u]
    BY <1>3, TakeMemory
  <2>2. /\ \A u \in Tasks \ {t} : pc'[u] = pc[u] /\ arg'[u] = arg[u] /\ began'[u] = began[u]
        /\ pc'[t] \in {"idle", "write"}
        /\ pc'[t] = "write" => arg'[t] = arg[t]
    BY <1>0, <1>3 DEF TakeFull, End, Finish
  <2>3. arg[t] # NoId
    BY <1>3, BatchAssumption DEF TakeFull, ArgsGiven
  <2>4. QED
    BY <2>1, <2>2, <2>3
<1>4. ASSUME NEW t \in Tasks, Flush(t)
      PROVE  LooksHold'
  <2>1. /\ Range(pending') = {} /\ Range(batch'[t]) = Range(pending)
        /\ \A u \in Tasks \ {t} : batch'[u] = batch[u]
    BY <1>4, TakeMemory
  <2>2. /\ \A u \in Tasks \ {t} : pc'[u] = pc[u] /\ arg'[u] = arg[u] /\ began'[u] = began[u]
        /\ pc'[t] \in {"flush", "write"}
        /\ began'[t] = Found(t, NoId)
    BY <1>0, <1>4 DEF Flush, Begin, Look
  <2>3. \A u \in Tasks \ {t} : \A d \in Range(batch'[u]) : d \in began'[t].flying
    BY <2>1, <2>2 DEF Found, InFlight
  <2>4. QED
    BY <2>1, <2>2, <2>3
<1>5. ASSUME NEW t \in Tasks, WriteLands(t)
      PROVE  LooksHold'
  <2>1. /\ pending' = pending /\ Range(batch'[t]) = {}
        /\ \A u \in Tasks \ {t} : batch'[u] = batch[u]
    BY <1>5, LandMemory
  <2>2. /\ \A u \in Tasks \ {t} : pc'[u] = pc[u] /\ arg'[u] = arg[u] /\ began'[u] = began[u]
        /\ pc'[t] \in {"flush", "idle"}
        /\ pc'[t] = "flush" => pc[t] = "write" /\ arg[t] = NoId /\ began'[t] = began[t]
    BY <1>0, <1>5, BatchAssumption DEF WriteLands, End, Finish, ArgsGiven
  <2>3. QED
    BY <2>1, <2>2
<1>6. ASSUME NEW t \in Tasks, WriteFails(t)
      PROVE  LooksHold'
  <2>1. /\ Range(batch'[t]) = {}
        /\ \A d \in Range(pending') : d \in Range(pending) \/ d \in Range(batch[t])
        /\ \A u \in Tasks \ {t} : batch'[u] = batch[u]
    BY <1>6, FailMemory
  <2>2. /\ \A u \in Tasks \ {t} : pc'[u] = pc[u] /\ arg'[u] = arg[u] /\ began'[u] = began[u]
        /\ pc'[t] = "idle"
    BY <1>0, <1>6 DEF WriteFails, End, Finish
  <2>3. QED
    BY <2>1, <2>2
<1>7. ASSUME NEW t \in Tasks, NEW id \in Ids, Delete(t, id)
      PROVE  LooksHold'
  <2>1. /\ Range(pending') = {d \in Range(pending) : d.id # id}
        /\ batch' = batch
    BY <1>7, DeleteMemory
  <2>2. /\ \A u \in Tasks \ {t} :
             /\ pc'[u] = pc[u] /\ arg'[u] = arg[u]
             /\ began'[u].serial = began[u].serial /\ began'[u].flying = began[u].flying
        /\ pc'[t] = "erase" /\ arg'[t] = id
        /\ began'[t] = Found(t, id)
    BY <1>0, <1>7 DEF Delete, Begin, Unsure, Looks
  <2>3. \A u \in Tasks \ {t} : \A d \in Range(batch[u]) : d \in began'[t].flying
    BY <2>2 DEF Found, InFlight
  <2>4. QED
    BY <2>1, <2>2, <2>3
<1>8. ASSUME NEW t \in Tasks, Erase(t)
      PROVE  LooksHold'
  <2>1. pending' = pending /\ batch' = batch
    BY <1>8, OtherMemory
  <2>2. /\ \A u \in Tasks \ {t} :
             /\ pc'[u] = pc[u] /\ arg'[u] = arg[u]
             /\ began'[u].serial = began[u].serial /\ began'[u].flying = began[u].flying
        /\ pc'[t] = "idle"
    BY <1>0, <1>8 DEF Erase, Finish, Unsure, Looks
  <2>3. QED
    BY <2>1, <2>2
<1>9. ASSUME NEW t \in Tasks,
             \/ \E id \in Ids : LoadDecision(t, id)
             \/ FlushInner(t) \/ LoadInner(t) \/ EraseFails(t)
      PROVE  LooksHold'
  <2>1. pending' = pending /\ batch' = batch
    BY <1>9, OtherMemory
  <2>2. /\ \A u \in Tasks \ {t} : pc'[u] = pc[u] /\ arg'[u] = arg[u] /\ began'[u] = began[u]
        /\ pc'[t] \in {"idle", "fetch"}
    BY <1>0, <1>9 DEF LoadDecision, FlushInner, LoadInner, EraseFails, Begin, Look, End, Finish
  <2>3. QED
    BY <2>1, <2>2
<1>10. CASE UNCHANGED vars
  BY <1>10 DEF vars, data, history
<1>11. QED
  BY <1>1, <1>2, <1>3, <1>4, <1>5, <1>6, <1>7, <1>8, <1>9, <1>10 DEF Next

\* No version that a final delete covers comes back: what is written or put
\* back was in a batch the delete saw in flight, and then it was not final.
LEMMA DeadStep == TypeOK /\ ArgsGiven /\ LooksHold /\ NothingDead /\ [Next]_vars => NothingDead'
<1> SUFFICES ASSUME TypeOK, ArgsGiven, LooksHold, NothingDead, [Next]_vars
             PROVE  NothingDead'
  OBVIOUS
<1>0. /\ serial \in Nat /\ inner \in [Ids -> 0..serial] /\ dead \in [Ids -> 0..serial]
      /\ began \in [Tasks -> Looks]
      /\ \A u \in Tasks : began[u].serial \in 0..serial
  BY MemoryTypes DEF TypeOK, Looks
<1> USE DEF NothingDead
<1>1. ASSUME NEW t \in Tasks, NEW id \in Ids, SaveDecision(t, id)
      PROVE  NothingDead'
  <2>1. /\ Range(pending') = Range(pending) \union {Version(id)}
        /\ Version(id).id = id /\ Version(id).n = serial + 1 /\ batch' = batch
        /\ inner' = inner /\ dead' = dead
    BY <1>1, SaveMemory DEF SaveDecision
  <2>2. QED
    BY <1>0, <2>1
<1>2. ASSUME NEW t \in Tasks, NEW id \in Ids, SaveDecisions(t, id)
      PROVE  NothingDead'
  <2>1. /\ Range(batch'[t]) = {Version(id)} /\ pending' = pending
        /\ \A u \in Tasks \ {t} : batch'[u] = batch[u]
        /\ Version(id).id = id /\ Version(id).n = serial + 1
        /\ inner' = inner /\ dead' = dead
    BY <1>2, DirectMemory DEF SaveDecisions, data
  <2>2. QED
    BY <1>0, <2>1
<1>3. ASSUME NEW t \in Tasks, TakeFull(t) \/ Flush(t)
      PROVE  NothingDead'
  BY <1>3, TakeMemory DEF TakeFull, Flush
<1>4. ASSUME NEW t \in Tasks, WriteLands(t)
      PROVE  NothingDead'
  <2>1. dead' = dead
    BY <1>4 DEF WriteLands
  <2>2. QED
    BY <1>4, <2>1, LandMemory
<1>5. ASSUME NEW t \in Tasks, WriteFails(t)
      PROVE  NothingDead'
  BY <1>5, FailMemory DEF WriteFails
<1>6. ASSUME NEW t \in Tasks, NEW id \in Ids, Delete(t, id)
      PROVE  NothingDead'
  BY <1>6, DeleteMemory DEF Delete
<1>7. ASSUME NEW t \in Tasks, Erase(t)
      PROVE  NothingDead'
  <2> DEFINE id == arg[t]
  <2>1. /\ pending' = pending /\ batch' = batch
        /\ id \in Ids /\ pc[t] = "erase"
        /\ inner' = [inner EXCEPT ![id] = 0]
    BY <1>7, OtherMemory DEF Erase, ArgsGiven
  <2>2. CASE \E d \in began[t].flying : d.id = id
    <3>1. dead' = dead
      BY <1>7, <2>2 DEF Erase
    <3>2. QED
      BY <1>0, <2>1, <3>1
  <2>3. CASE ~ \E d \in began[t].flying : d.id = id
    <3>1. dead' = [dead EXCEPT ![id] = IF @ < began[t].serial THEN began[t].serial ELSE @]
      BY <1>7, <2>3 DEF Erase
    <3>2. Range(batch[t]) = {}
      BY <2>1, MemoryTypes DEF Holding
    <3>3. \A d : Elsewhere(t, d) /\ d.id = id => d.n > began[t].serial
      BY <2>1, <2>3 DEF LooksHold, Accounted
    <3>4. /\ \A d \in Range(pending) : d.id = id => d.n > began[t].serial
          /\ \A u \in Tasks : \A d \in Range(batch[u]) : d.id = id => d.n > began[t].serial
      BY <3>2, <3>3 DEF Elsewhere
    <3>5. dead'[id] = dead[id] \/ dead'[id] = began[t].serial
      BY <1>0, <2>1, <3>1
    <3>6. \A i \in Ids : i # id => dead'[i] = dead[i] /\ inner'[i] = inner[i]
      BY <1>0, <2>1, <3>1
    <3>7. inner'[id] = 0
      BY <1>0, <2>1
    <3>8. QED
      BY <2>1, <3>4, <3>5, <3>6, <3>7, MemoryTypes
  <2>4. QED
    BY <2>2, <2>3
<1>8. ASSUME NEW t \in Tasks,
             \/ \E id \in Ids : LoadDecision(t, id)
             \/ FlushInner(t) \/ LoadInner(t) \/ EraseFails(t)
      PROVE  NothingDead'
  <2>1. inner' = inner /\ dead' = dead
    BY <1>8 DEF LoadDecision, FlushInner, LoadInner, EraseFails, data
  <2>2. QED
    BY <1>8, <2>1, OtherMemory
<1>9. CASE UNCHANGED vars
  BY <1>9 DEF vars, data, history
<1>10. QED
  BY <1>1, <1>2, <1>3, <1>4, <1>5, <1>6, <1>7, <1>8, <1>9 DEF Next
\* An id that can be found or is about to be written stays so until a delete of
\* it: a version leaves the buffer only into a batch, and a batch only onto the
\* wrapped store or back into the buffer.
LEMMA KeptStep ==
  ASSUME TypeOK, [Next]_vars, NEW id \in Ids, Kept(id),
         \A t \in Tasks : ~ Delete(t, id) /\ ~ (Erase(t) /\ arg[t] = id)
  PROVE  Kept(id)'
<1> USE DEF Kept
<1>0. pc \in [Tasks -> {"idle", "take", "write", "direct", "flush", "fetch", "erase"}]
      /\ inner \in [Ids -> 0..serial]
  BY DEF TypeOK
<1>1. ASSUME NEW t \in Tasks, NEW i \in Ids, SaveDecision(t, i)
      PROVE  Kept(id)'
  <2>1. /\ Range(pending') = Range(pending) \union {Version(i)} /\ batch' = batch
        /\ inner' = inner
        /\ \A u \in Tasks : pc[u] = "write" => pc'[u] = "write"
    BY <1>0, <1>1, SaveMemory DEF SaveDecision, Begin
  <2>2. QED
    BY <2>1
<1>2. ASSUME NEW t \in Tasks, NEW i \in Ids, SaveDecisions(t, i)
      PROVE  Kept(id)'
  <2>1. /\ pending' = pending /\ inner' = inner
        /\ \A u \in Tasks : pc[u] = "write" => pc'[u] = "write" /\ batch'[u] = batch[u]
    BY <1>0, <1>2, DirectMemory DEF SaveDecisions, Begin, data
  <2>2. QED
    BY <2>1
<1>3. ASSUME NEW t \in Tasks, TakeFull(t) \/ Flush(t)
      PROVE  Kept(id)'
  <2>1. /\ Range(batch'[t]) = Range(pending) /\ inner' = inner
        /\ \A u \in Tasks : pc[u] = "write" => pc'[u] = "write" /\ batch'[u] = batch[u]
    BY <1>0, <1>3, TakeMemory DEF TakeFull, Flush, Begin, End, Finish
  <2>2. Range(pending) # {} => pc'[t] = "write"
    BY <1>0, <1>3, MemoryTypes DEF TakeFull, Flush, Begin
  <2>3. QED
    BY <2>1, <2>2
<1>4. ASSUME NEW t \in Tasks, WriteLands(t)
      PROVE  Kept(id)'
  <2>1. /\ pending' = pending
        /\ \A u \in Tasks \ {t} : pc'[u] = pc[u] /\ batch'[u] = batch[u]
        /\ \/ \E d \in Range(batch[t]) : d.id = id /\ inner'[id] = d.n
           \/ inner'[id] = inner[id] /\ \A d \in Range(batch[t]) : d.id # id
    BY <1>0, <1>4, LandMemory DEF WriteLands, End, Finish
  <2>2. \A d \in Range(batch[t]) : d.n # 0
    BY MemoryTypes
  <2>3. QED
    BY <2>1, <2>2
<1>5. ASSUME NEW t \in Tasks, WriteFails(t)
      PROVE  Kept(id)'
  <2>1. /\ \A d \in Range(pending) : d \in Range(pending')
        /\ pc[t] = "write" => \A d \in Range(batch[t]) : d \in Range(pending')
        /\ inner' = inner
        /\ \A u \in Tasks \ {t} : pc'[u] = pc[u] /\ batch'[u] = batch[u]
    BY <1>0, <1>5, FailMemory DEF WriteFails, End, Finish
  <2>2. QED
    BY <2>1
<1>6. ASSUME NEW t \in Tasks, NEW i \in Ids, Delete(t, i)
      PROVE  Kept(id)'
  <2>1. /\ i # id /\ inner' = inner /\ batch' = batch
        /\ Range(pending') = {d \in Range(pending) : d.id # i}
        /\ \A u \in Tasks : pc[u] = "write" => pc'[u] = "write"
    BY <1>0, <1>6, DeleteMemory DEF Delete, Begin
  <2>2. QED
    BY <2>1
<1>7. ASSUME NEW t \in Tasks, Erase(t)
      PROVE  Kept(id)'
  <2>1. /\ pending' = pending /\ batch' = batch /\ inner'[id] = inner[id]
        /\ \A u \in Tasks : pc[u] = "write" => pc'[u] = "write"
    BY <1>0, <1>7, OtherMemory DEF Erase, Finish
  <2>2. QED
    BY <2>1
<1>8. ASSUME NEW t \in Tasks,
             \/ \E i \in Ids : LoadDecision(t, i)
             \/ FlushInner(t) \/ LoadInner(t) \/ EraseFails(t)
      PROVE  Kept(id)'
  <2>1. /\ pending' = pending /\ batch' = batch /\ inner' = inner
        /\ \A u \in Tasks : pc[u] = "write" => pc'[u] = "write"
    BY <1>0, <1>8, OtherMemory
       DEF LoadDecision, FlushInner, LoadInner, EraseFails, Begin, End, Finish, data
  <2>2. QED
    BY <2>1
<1>9. CASE UNCHANGED vars
  BY <1>9 DEF vars, data
<1>10. QED
  BY <1>1, <1>2, <1>3, <1>4, <1>5, <1>6, <1>7, <1>8, <1>9 DEF Next

------------------------------------------------------------------------------
\* What the end of a call leaves.
LEMMA EndFrame ==
  ASSUME TypeOK, NEW t \in Tasks, End(t)
  PROVE  /\ \A u \in Tasks \ {t} :
              pc'[u] = pc[u] /\ arg'[u] = arg[u] /\ began'[u] = began[u]
         /\ pc'[t] = "idle" /\ arg'[t] = NoId
BY DEF TypeOK, End, Finish

\* Of an operation that is no part of a delete, a few things are to be shown.
LEMMA KnownFrame ==
  ASSUME TypeOK, ArgsGiven, KnownAreKept, [Next]_vars,
         \A u \in Tasks : ~ Erase(u) /\ \A i \in Ids : ~ Delete(u, i),
         NEW t \in Tasks,
         \A u \in Tasks \ {t} :
           pc'[u] = pc[u] /\ arg'[u] = arg[u] /\ began'[u] = began[u],
         \A i \in Ids : inner[i] # 0 => inner'[i] # 0,
         \A i \in known' : i \in known \/ (i \in Ids /\ Kept(i)'),
         Relies(t)'
  PROVE  KnownAreKept'
<1>1. ASSUME NEW i \in Ids, Kept(i)
      PROVE  Kept(i)'
  BY <1>1, KeptStep
<1>2. known \subseteq Ids
  BY DEF TypeOK
<1>3. \A i \in known' : Kept(i)'
  BY <1>1, <1>2 DEF KnownAreKept
<1>4. ASSUME NEW u \in Tasks \ {t}
      PROVE  Relies(u)'
  <2>1. Relies(u) /\ pc'[u] = pc[u] /\ arg'[u] = arg[u] /\ began'[u] = began[u]
    BY DEF KnownAreKept
  <2>2. CASE pc[u] \in {"take", "write"} /\ began[u].sure
    <3>1. PICK i \in Ids : i = arg[u]
      BY <2>1, <2>2 DEF Relies
    <3>2. Kept(i)
      BY <2>1, <2>2, <3>1 DEF Relies
    <3>3. Kept(i)'
      BY <1>1, <3>2
    <3>4. QED
      BY <2>1, <2>2, <3>1, <3>3 DEF Relies
  <2>3. CASE pc[u] = "fetch" /\ began[u].sure
    <3>1. arg[u] \in Ids
      BY <2>3 DEF ArgsGiven
    <3>2. inner[arg[u]] # 0 => inner'[arg[u]] # 0
      BY <3>1
    <3>3. inner[arg[u]] # 0 \/ \E d \in began[u].flying : d.id = arg[u]
      BY <2>1, <2>3 DEF Relies
    <3>4. QED
      BY <2>1, <2>3, <3>2, <3>3 DEF Relies
  <2>4. QED
    BY <2>1, <2>2, <2>3 DEF Relies
<1>5. QED
  BY <1>3, <1>4 DEF KnownAreKept

\* A delete of id costs only id: other known ids, and the calls on other ids,
\* keep what they rely on.
LEMMA DeleteFrame ==
  ASSUME TypeOK, ArgsGiven, KnownAreKept, NEW t \in Tasks, NEW id \in Ids,
         known' = known \ {id},
         NEW look, began' = [Unsure(id) EXCEPT ![t] = look],
         \A u \in Tasks \ {t} : pc'[u] = pc[u] /\ arg'[u] = arg[u],
         pc'[t] \in {"idle", "erase"},
         \A i \in Ids \ {id} : inner'[i] = inner[i] /\ (Kept(i) => Kept(i)')
  PROVE  KnownAreKept'
<1>1. known \subseteq Ids /\ began \in [Tasks -> Looks]
  BY DEF TypeOK, Looks
<1>2. \A i \in known' : Kept(i)'
  BY <1>1 DEF KnownAreKept
<1>3. Relies(t)'
  BY DEF Relies
<1>4. ASSUME NEW u \in Tasks \ {t}, began'[u].sure
      PROVE  arg[u] # id /\ began'[u] = began[u]
  BY <1>1, <1>4 DEF Unsure, Looks
<1>5. ASSUME NEW u \in Tasks \ {t}
      PROVE  Relies(u)'
  <2>1. Relies(u) /\ pc'[u] = pc[u] /\ arg'[u] = arg[u]
    BY DEF KnownAreKept
  <2>2. CASE pc[u] \in {"take", "write"} /\ began'[u].sure
    <3>1. arg[u] # id /\ began'[u] = began[u]
      BY <1>4, <2>2
    <3>2. PICK i \in Ids \ {id} : i = arg[u]
      BY <2>1, <2>2, <3>1 DEF Relies
    <3>3. Kept(i)
      BY <2>1, <2>2, <3>1, <3>2 DEF Relies
    <3>4. Kept(i)'
      BY <3>3
    <3>5. QED
      BY <2>1, <2>2, <3>2, <3>4 DEF Relies
  <2>3. CASE pc[u] = "fetch" /\ began'[u].sure
    <3>1. arg[u] # id /\ began'[u] = began[u]
      BY <1>4, <2>3
    <3>2. arg[u] \in Ids
      BY <2>3 DEF ArgsGiven
    <3>3. inner'[arg[u]] = inner[arg[u]]
      BY <3>1, <3>2
    <3>4. inner[arg[u]] # 0 \/ \E d \in began[u].flying : d.id = arg[u]
      BY <2>1, <2>3, <3>1 DEF Relies
    <3>5. QED
      BY <2>1, <2>3, <3>1, <3>3, <3>4 DEF Relies
  <2>4. QED
    BY <2>1, <2>2, <2>3 DEF Relies
<1>6. QED
  BY <1>2, <1>3, <1>5 DEF KnownAreKept

\* An id becomes known when it can be found, and is known no more once a delete
\* of it has begun; the same holds of the calls that rely on it.
LEMMA KnownStep ==
  TypeOK /\ ArgsGiven /\ KnownAreKept /\ [Next]_vars => KnownAreKept'
<1> SUFFICES ASSUME TypeOK, ArgsGiven, KnownAreKept, [Next]_vars
             PROVE  KnownAreKept'
  OBVIOUS
<1>a. /\ pc \in [Tasks -> {"idle", "take", "write", "direct", "flush", "fetch", "erase"}]
      /\ arg \in [Tasks -> Ids \union {NoId}]
      /\ began \in [Tasks -> Looks] /\ known \subseteq Ids
  BY DEF TypeOK, Looks
<1>b. NoId \notin Ids
  BY BatchAssumption
<1> DEFINE NoDelete == \A u \in Tasks : ~ Erase(u) /\ \A i \in Ids : ~ Delete(u, i)
           Alone(t) == \A u \in Tasks \ {t} :
                         pc'[u] = pc[u] /\ arg'[u] = arg[u] /\ began'[u] = began[u]
<1>1. ASSUME NEW t \in Tasks, NEW id \in Ids, SaveDecision(t, id), NoDelete
      PROVE  KnownAreKept'
  <2>1. Kept(id)'
    BY <1>1, SaveMemory DEF Kept
  <2>2. /\ pc[t] = "idle" /\ inner' = inner
        /\ pc' = [pc EXCEPT ![t] = IF Len(pending) + 1 >= BatchSize THEN "take" ELSE "idle"]
        /\ arg' = [arg EXCEPT ![t] = IF Len(pending) + 1 >= BatchSize THEN id ELSE NoId]
    BY <1>1 DEF SaveDecision, Begin
  <2>3. \A u \in Tasks \ {t} : began'[u] = began[u]
    <3>1. BeginSave(t, id) => \A u \in Tasks \ {t} : began'[u] = began[u]
      BY <1>a DEF BeginSave
    <3>2. QED
      BY <1>1, <3>1 DEF SaveDecision
  <2>4. Alone(t)
    BY <1>a, <2>2, <2>3
  <2>5. known' \subseteq known \union {id}
    BY <1>1 DEF SaveDecision, Acknowledge
  <2>6. Relies(t)'
    <3>1. pc'[t] = "idle" \/ (pc'[t] = "take" /\ arg'[t] = id)
      BY <1>a, <2>2
    <3>2. QED
      BY <2>1, <3>1 DEF Relies, Kept
  <2>7. QED
    BY <1>1, <2>1, <2>2, <2>4, <2>5, <2>6, KnownFrame
<1>2. ASSUME NEW t \in Tasks, NEW id \in Ids, SaveDecisions(t, id), NoDelete
      PROVE  KnownAreKept'
  <2>1. /\ pc[t] = "idle" /\ pc' = [pc EXCEPT ![t] = "direct"]
        /\ arg' = [arg EXCEPT ![t] = id] /\ inner' = inner /\ known' = known
    BY <1>2 DEF SaveDecisions, Begin, data
  <2>2. \A u \in Tasks \ {t} : began'[u] = began[u]
    BY <1>a, <1>2 DEF SaveDecisions, BeginSave
  <2>3. Alone(t) /\ pc'[t] = "direct"
    BY <1>a, <2>1, <2>2
  <2>4. Relies(t)'
    BY <2>3 DEF Relies
  <2>5. QED
    BY <1>2, <2>1, <2>3, <2>4, KnownFrame
<1>3. ASSUME NEW t \in Tasks, NEW id \in Ids, LoadDecision(t, id), NoDelete
      PROVE  KnownAreKept'
  <2> DEFINE buffered == \E d \in Range(pending) : d.id = id
  <2>1. /\ pc[t] = "idle" /\ inner' = inner /\ known' = known
        /\ pc' = [pc EXCEPT ![t] = IF buffered THEN "idle" ELSE "fetch"]
        /\ arg' = [arg EXCEPT ![t] =
                     IF (IF buffered THEN "idle" ELSE "fetch") = "idle" THEN NoId ELSE id]
        /\ IF buffered THEN began' = began ELSE Look(t, id)
    BY <1>3 DEF LoadDecision, Begin, data
  <2>2. CASE buffered
    <3>1. Alone(t) /\ pc'[t] = "idle"
      BY <1>a, <2>1, <2>2
    <3>2. Relies(t)'
      BY <3>1 DEF Relies
    <3>3. QED
      BY <1>3, <2>1, <3>1, <3>2, KnownFrame
  <2>3. CASE ~ buffered
    <3> HIDE DEF buffered
    <3>1. /\ pc' = [pc EXCEPT ![t] = "fetch"] /\ arg' = [arg EXCEPT ![t] = id]
          /\ began' = [began EXCEPT ![t] = Found(t, id)]
      BY <2>1, <2>3 DEF Look
    <3>2. Alone(t) /\ pc'[t] = "fetch" /\ arg'[t] = id
      BY <1>a, <3>1
    <3>3. /\ began'[t].sure = (id \in known)
          /\ began'[t].flying = InFlight(Tasks \ {t})
      BY <1>a, <3>1 DEF Found
    <3>4. ASSUME id \in known
          PROVE  inner[id] # 0 \/ \E d \in InFlight(Tasks \ {t}) : d.id = id
      <4>1. Kept(id)
        BY <3>4 DEF KnownAreKept
      <4>2. \A u \in Tasks \ {t} : \A d \in Range(batch[u]) : d \in InFlight(Tasks \ {t})
        BY DEF InFlight
      <4>3. QED
        BY <2>1, <2>3, <4>1, <4>2 DEF Kept, buffered
    <3>5. Relies(t)'
      BY <2>1, <3>2, <3>3, <3>4 DEF Relies
    <3>6. QED
      BY <1>3, <2>1, <3>2, <3>5, KnownFrame
  <2>4. QED
    BY <2>2, <2>3
<1>4. ASSUME NEW t \in Tasks, TakeFull(t), NoDelete
      PROVE  KnownAreKept'
  <2>1. pc[t] = "take" /\ arg[t] \in Ids /\ inner' = inner
    BY <1>4 DEF TakeFull, ArgsGiven
  <2> PICK id \in Ids : id = arg[t]
    BY <2>1
  <2>2. began[t].sure => Kept(id)
    BY <2>1 DEF KnownAreKept, Relies
  <2>3. began[t].sure => Kept(id)'
    BY <1>4, <2>1, <2>2, KeptStep
  <2>4. CASE pending = << >>
    <3>1. End(t) /\ Acknowledge(arg[t], began[t].sure)
      BY <1>4, <2>4 DEF TakeFull
    <3>2. Alone(t) /\ pc'[t] = "idle"
      BY <3>1, EndFrame
    <3>3. \A i \in known' : i \in known \/ (i \in Ids /\ Kept(i)')
      BY <1>a, <2>3, <3>1 DEF Acknowledge
    <3>4. Relies(t)'
      BY <3>2 DEF Relies
    <3>5. QED
      BY <1>4, <2>1, <3>2, <3>3, <3>4, KnownFrame
  <2>5. CASE pending # << >>
    <3>1. /\ pc' = [pc EXCEPT ![t] = "write"]
          /\ arg' = arg /\ began' = began /\ known' = known
      BY <1>4, <2>5 DEF TakeFull
    <3>2. Alone(t) /\ pc'[t] = "write"
      BY <1>a, <3>1
    <3>3. Relies(t)'
      BY <2>3, <3>1, <3>2 DEF Relies
    <3>4. QED
      BY <1>4, <2>1, <3>1, <3>2, <3>3, KnownFrame
  <2>6. QED
    BY <2>4, <2>5
<1>5. ASSUME NEW t \in Tasks, Flush(t), NoDelete
      PROVE  KnownAreKept'
  <2>1. /\ pc' = [pc EXCEPT ![t] = IF pending = << >> THEN "flush" ELSE "write"]
        /\ arg' = [arg EXCEPT ![t] =
             IF (IF pending = << >> THEN "flush" ELSE "write") = "idle" THEN NoId ELSE NoId]
        /\ began' = [began EXCEPT ![t] = Found(t, NoId)]
        /\ inner' = inner /\ known' = known
    BY <1>5 DEF Flush, Begin, Look
  <2>2. Alone(t)
    BY <1>a, <2>1
  <2>3. began'[t].sure = (NoId \in known)
    BY <1>a, <2>1 DEF Found
  <2>4. Relies(t)'
    BY <1>a, <1>b, <2>3 DEF Relies
  <2>5. QED
    BY <1>5, <2>1, <2>2, <2>4, KnownFrame
<1>6. ASSUME NEW t \in Tasks, WriteLands(t), NoDelete
      PROVE  KnownAreKept'
  <2>1. \A d \in Range(batch[t]) : d.n # 0
    BY MemoryTypes
  <2>2. \A i \in Ids :
          \/ \E d \in Range(batch[t]) : d.id = i /\ inner'[i] = d.n
          \/ inner'[i] = inner[i] /\ \A d \in Range(batch[t]) : d.id # i
    BY <1>6, LandMemory
  <2>3. \A i \in Ids : inner[i] # 0 => inner'[i] # 0
    BY <2>1, <2>2
  <2>4. CASE arg[t] = NoId
    <3>1. /\ pc' = [pc EXCEPT ![t] = "flush"]
          /\ arg' = arg /\ began' = began /\ known' = known
      BY <1>6, <2>4 DEF WriteLands
    <3>2. Alone(t) /\ pc'[t] = "flush"
      BY <1>a, <3>1
    <3>3. Relies(t)'
      BY <3>2 DEF Relies
    <3>4. QED
      BY <1>6, <2>3, <3>1, <3>2, <3>3, KnownFrame
  <2>5. CASE arg[t] # NoId
    <3>1. End(t) /\ Acknowledge(arg[t], began[t].sure)
      BY <1>6, <2>5 DEF WriteLands
    <3>2. Alone(t) /\ pc'[t] = "idle" /\ arg[t] \in Ids
      BY <1>a, <2>5, <3>1, EndFrame
    <3> PICK id \in Ids : id = arg[t]
      BY <3>2
    <3>3. ASSUME began[t].sure
          PROVE  Kept(id)'
      <4>1. CASE pc[t] = "write"
        <5>1. Kept(id)
          BY <3>3, <4>1 DEF KnownAreKept, Relies
        <5>2. QED
          BY <1>6, <5>1, KeptStep
      <4>2. CASE pc[t] = "direct"
        <5>1. \E d \in Range(batch[t]) : d.id = id
          BY <4>2 DEF ArgsGiven
        <5>2. inner'[id] # 0
          BY <2>1, <2>2, <5>1
        <5>3. QED
          BY <5>2 DEF Kept
      <4>3. QED
        BY <1>6, <4>1, <4>2 DEF WriteLands
    <3>4. \A i \in known' : i \in known \/ (i \in Ids /\ Kept(i)')
      BY <1>a, <3>1, <3>3 DEF Acknowledge
    <3>5. Relies(t)'
      BY <3>2 DEF Relies
    <3>6. QED
      BY <1>6, <2>3, <3>2, <3>4, <3>5, KnownFrame
  <2>6. QED
    BY <2>4, <2>5
<1>7. ASSUME NEW t \in Tasks, NoDelete,
             WriteFails(t) \/ FlushInner(t) \/ LoadInner(t) \/ EraseFails(t)
      PROVE  KnownAreKept'
  <2>1. End(t) /\ inner' = inner /\ known' = known
    BY <1>7 DEF WriteFails, FlushInner, LoadInner, EraseFails, data
  <2>2. Alone(t) /\ pc'[t] = "idle"
    BY <2>1, EndFrame
  <2>3. Relies(t)'
    BY <2>2 DEF Relies
  <2>4. QED
    BY <1>7, <2>1, <2>2, <2>3, KnownFrame
<1>8. ASSUME NEW t \in Tasks, NEW id \in Ids, Delete(t, id)
      PROVE  KnownAreKept'
  <2>1. /\ pc[t] = "idle" /\ pc' = [pc EXCEPT ![t] = "erase"] /\ arg' = [arg EXCEPT ![t] = id]
        /\ known' = known \ {id}
        /\ began' = [Unsure(id) EXCEPT ![t] = Found(t, id)]
    BY <1>8 DEF Delete, Begin
  <2>2. /\ inner' = inner /\ batch' = batch
        /\ Range(pending') = {d \in Range(pending) : d.id # id}
    BY <1>8, DeleteMemory
  <2>3. \A u \in Tasks : pc[u] = "write" => pc'[u] = "write"
    BY <1>a, <2>1
  <2>4. ASSUME NEW i \in Ids \ {id}, Kept(i)
        PROVE  Kept(i)'
    BY <2>2, <2>3, <2>4 DEF Kept
  <2>5. /\ \A u \in Tasks \ {t} : pc'[u] = pc[u] /\ arg'[u] = arg[u]
        /\ pc'[t] = "erase"
    BY <1>a, <2>1
  <2>6. QED
    BY <2>1, <2>2, <2>4, <2>5, DeleteFrame
<1>9. ASSUME NEW t \in Tasks, Erase(t)
      PROVE  KnownAreKept'
  <2>1. pc[t] = "erase" /\ arg[t] \in Ids
    BY <1>9 DEF Erase, ArgsGiven
  <2>2. PICK id \in Ids : id = arg[t]
    BY <2>1
  <2>3. /\ pc' = [pc EXCEPT ![t] = "idle"] /\ arg' = [arg EXCEPT ![t] = NoId]
        /\ inner' = [inner EXCEPT ![id] = 0] /\ known' = known \ {id}
        /\ began' = [Unsure(id) EXCEPT ![t] = Nothing]
    BY <1>9, <2>2 DEF Erase, Finish
  <2>4. pending' = pending /\ batch' = batch
    BY <1>9, OtherMemory
  <2>5. \A u \in Tasks : pc[u] = "write" => pc'[u] = "write"
    BY <1>a, <2>1, <2>3
  <2>6. \A i \in Ids \ {id} : inner'[i] = inner[i]
    BY <2>3 DEF TypeOK
  <2>7. ASSUME NEW i \in Ids \ {id}, Kept(i)
        PROVE  Kept(i)'
    BY <2>4, <2>5, <2>6, <2>7 DEF Kept
  <2>8. /\ \A u \in Tasks \ {t} : pc'[u] = pc[u] /\ arg'[u] = arg[u]
        /\ pc'[t] = "idle"
    BY <1>a, <2>3
  <2>9. QED
    BY <2>3, <2>6, <2>7, <2>8, DeleteFrame
<1>10. CASE UNCHANGED vars
  BY <1>10 DEF vars, data, history, KnownAreKept, Relies, Kept
<1>11. NoDelete \/ (\E t \in Tasks : Erase(t) \/ \E id \in Ids : Delete(t, id))
  OBVIOUS
<1> HIDE DEF NoDelete
<1>12. QED
  BY <1>1, <1>2, <1>3, <1>4, <1>5, <1>6, <1>7, <1>8, <1>9, <1>10, <1>11 DEF Next

\* A save that finds the batch full goes on to take it; only its own step, which
\* empties the buffer, ends that.
LEMMA FullStep == TypeOK /\ FullIsTaken /\ [Next]_vars => FullIsTaken'
<1> SUFFICES ASSUME TypeOK, FullIsTaken, [Next]_vars PROVE FullIsTaken'
  OBVIOUS
<1>0. /\ pc \in [Tasks -> {"idle", "take", "write", "direct", "flush", "fetch", "erase"}]
      /\ failures \in Nat /\ BatchSize \in Nat /\ BatchSize > 0 /\ Len(pending) \in Nat
  BY BatchAssumption, LenProperties DEF TypeOK
<1> USE DEF FullIsTaken
<1>1. ASSUME NEW t \in Tasks, NEW id \in Ids, SaveDecision(t, id)
      PROVE  FullIsTaken'
  BY <1>0, <1>1, SaveMemory DEF SaveDecision, Begin
<1>2. ASSUME NEW t \in Tasks, TakeFull(t) \/ Flush(t)
      PROVE  FullIsTaken'
  <2>1. Len(pending') = 0
    BY <1>2, TakeMemory
  <2>2. QED
    BY <1>0, <2>1
<1>3. ASSUME NEW t \in Tasks, WriteFails(t) \/ EraseFails(t)
      PROVE  FullIsTaken'
  BY <1>0, <1>3 DEF WriteFails, EraseFails, Failure
<1>4. ASSUME NEW t \in Tasks, pc[t] # "take", failures' = failures,
             Len(pending') <= Len(pending), Len(pending') \in Nat,
             \A u \in Tasks \ {t} : pc'[u] = pc[u]
      PROVE  FullIsTaken'
  BY <1>0, <1>4
<1>5. ASSUME NEW t \in Tasks, NEW id \in Ids, SaveDecisions(t, id) \/ LoadDecision(t, id)
      PROVE  FullIsTaken'
  BY <1>0, <1>4, <1>5 DEF SaveDecisions, LoadDecision, Begin, data
<1>6. ASSUME NEW t \in Tasks, NEW id \in Ids, Delete(t, id)
      PROVE  FullIsTaken'
  BY <1>0, <1>4, <1>6, DeleteMemory DEF Delete, Begin
<1>7. ASSUME NEW t \in Tasks, WriteLands(t) \/ FlushInner(t) \/ LoadInner(t) \/ Erase(t)
      PROVE  FullIsTaken'
  BY <1>0, <1>4, <1>7 DEF WriteLands, FlushInner, LoadInner, Erase, End, Finish, data
<1>8. CASE UNCHANGED vars
  BY <1>8 DEF vars, data
<1>9. QED
  BY <1>1, <1>2, <1>3, <1>5, <1>6, <1>7, <1>8 DEF Next

\* A read that had to find its id and did not saw it in flight.
LEMMA MissesStep ==
  TypeOK /\ KnownAreKept /\ MissesAreInFlight /\ [Next]_vars => MissesAreInFlight'
<1> SUFFICES ASSUME TypeOK, KnownAreKept, MissesAreInFlight, [Next]_vars
             PROVE  MissesAreInFlight'
  OBVIOUS
<1> USE DEF MissesAreInFlight
<1>1. ASSUME NEW t \in Tasks, LoadInner(t)
      PROVE  MissesAreInFlight'
  <2>1. Relies(t) /\ pc[t] = "fetch"
    BY <1>1 DEF KnownAreKept, LoadInner
  <2>2. CASE inner[arg[t]] = 0 /\ began[t].sure
    <3>1. \E d \in began[t].flying : d.id = arg[t]
      BY <2>1, <2>2 DEF Relies
    <3>2. missed' = missed \union {[id |-> arg[t], flying |-> TRUE]}
      BY <1>1, <2>2, <3>1 DEF LoadInner
    <3>3. QED
      BY <3>2
  <2>3. CASE ~ (inner[arg[t]] = 0 /\ began[t].sure)
    BY <1>1, <2>3 DEF LoadInner
  <2>4. QED
    BY <2>2, <2>3
<1>2. CASE \A t \in Tasks : ~ LoadInner(t)
  <2>1. missed' = missed
    BY <1>2 DEF Next, SaveDecision, SaveDecisions, LoadDecision, Delete, TakeFull, Flush,
       WriteLands, WriteFails, FlushInner, Erase, EraseFails, vars, history
  <2>2. QED
    BY <2>1
<1>3. QED
  BY <1>1, <1>2

\* Nothing is buffered, held or known at the start.
LEMMA InitIInv == Init => IInv
<1> SUFFICES ASSUME Init PROVE IInv
  OBVIOUS
<1> USE BatchAssumption DEF Init
<1>1. << >> \in Seq(Decision) /\ Range(<< >>) = {} /\ Len(<< >>) = 0
  <2>1. << >> \in Seq(Decision) /\ Len(<< >>) = 0
    BY EmptySeq
  <2>2. QED
    BY <2>1, RangeFacts
<1>2. TypeOK
  BY <1>1 DEF TypeOK, Nothing, Holding
<1>3. ArgsGiven /\ Apart /\ NothingDead /\ MissesAreInFlight
  BY <1>1 DEF ArgsGiven, Apart, NothingDead, MissesAreInFlight
<1>4. LooksHold
  BY <1>1 DEF LooksHold
<1>5. KnownAreKept
  BY DEF KnownAreKept, Relies, Nothing
<1>6. FullIsTaken
  BY <1>1 DEF FullIsTaken
<1>7. QED
  BY <1>2, <1>3, <1>4, <1>5, <1>6 DEF IInv

\* Every step keeps the invariant.
LEMMA StepIInv == IInv /\ [Next]_vars => IInv'
BY TypeStep, ArgsStep, ApartStep, LooksStep, DeadStep, KnownStep, MissesStep, FullStep
   DEF IInv

\* What relates the buffer, the batches, the calls and the histories is kept.
THEOREM Invariance == Spec => []IInv
BY InitIInv, StepIInv, PTL DEF Spec

\* The state is well formed, and a call holds decisions only while writing them.
THEOREM TypeCorrect == Spec => []TypeOK
<1>1. IInv => TypeOK
  BY DEF IInv
<1>2. QED
  BY <1>1, Invariance, PTL

\* What the refinement calls owed and what it calls loose, now and next.
LEMMA OwedIs ==
  /\ \A d : d \in Owed <=>
       d \in Range(pending) \/ \E u \in Tasks : pc[u] = "write" /\ d \in Range(batch[u])
  /\ \A d : d \in HeldAt("direct") <=>
       \E u \in Tasks : pc[u] = "direct" /\ d \in Range(batch[u])
  /\ \A d : d \in Owed' <=>
       d \in Range(pending') \/ \E u \in Tasks : pc'[u] = "write" /\ d \in Range(batch'[u])
  /\ \A d : d \in HeldAt("direct")' <=>
       \E u \in Tasks : pc'[u] = "direct" /\ d \in Range(batch'[u])
BY DEF Owed, HeldAt, InFlight

\* A delete that succeeds while no call is writing its id is final.
THEOREM DeletesStick == Spec => []DeleteSticks
<1>1. NothingDead => DeleteSticks
  BY OwedIs DEF NothingDead, DeleteSticks
<1>2. QED
  BY <1>1, Invariance, PTL DEF IInv

\* A flush whose batch has been written leaves nothing accepted before it in
\* memory but what other calls were writing when it began.
THEOREM FlushesCover == Spec => []FlushCovers
<1>1. TypeOK /\ LooksHold => FlushCovers
  <2> SUFFICES ASSUME TypeOK, LooksHold, NEW t \in Tasks, pc[t] = "flush", NEW d \in Owed
               PROVE  d.n > began[t].serial \/ d \in began[t].flying
    BY DEF FlushCovers
  <2>1. Elsewhere(t, d)
    BY OwedIs DEF Elsewhere
  <2>2. QED
    BY <2>1 DEF LooksHold, Accounted
<1>2. QED
  BY <1>1, Invariance, PTL DEF IInv

\* Unless a write failed, no schedule of overlapping saves leaves a full batch
\* behind for nobody to write.
THEOREM FullBatchesGo == Spec => []FullBatchesLeave
<1>1. TypeOK /\ FullIsTaken => FullBatchesLeave
  <2>1. TypeOK => Len(pending) \in Nat /\ BatchSize \in Nat
    BY LenProperties, BatchAssumption DEF TypeOK
  <2>2. QED
    BY <2>1 DEF FullIsTaken, FullBatchesLeave
<1>2. QED
  BY <1>1, Invariance, PTL DEF IInv

\* An acknowledged id is missed by a read only if a call was writing it when
\* the read looked at the buffer.
THEOREM MissesExplained == Spec => []MissesAreInFlight
<1>1. IInv => MissesAreInFlight
  BY DEF IInv
<1>2. QED
  BY <1>1, Invariance, PTL

------------------------------------------------------------------------------
\* The deletes in progress change only by the call that begins or ends one.
LEMMA DeletesFrame ==
  ASSUME NEW t \in Tasks,
         \A u \in Tasks \ {t} : pc'[u] = pc[u] /\ arg'[u] = arg[u]
  PROVE  /\ pc[t] # "erase" /\ pc'[t] # "erase" => Deletes' = Deletes
         /\ pc[t] # "erase" /\ pc'[t] = "erase" => Deletes' = Deletes \union {<<t, arg'[t]>>}
         /\ pc[t] = "erase" /\ pc'[t] # "erase" => Deletes' = Deletes \ {<<t, arg[t]>>}
<1>1. \A p : p \in Deletes <=> \E u \in Tasks : pc[u] = "erase" /\ p = <<u, arg[u]>>
  BY DEF Deletes
<1>2. \A p : p \in Deletes' <=> \E u \in Tasks : pc'[u] = "erase" /\ p = <<u, arg'[u]>>
  BY DEF Deletes
<1>3. \A u \in Tasks \ {t} : \A i, j : <<u, i>> # <<t, j>>
  OBVIOUS
<1>4. QED
  BY <1>1, <1>2, <1>3

\* A step of another kind: no version moves between the places.
LEMMA MemoryFrame ==
  ASSUME TypeOK, NEW t \in Tasks,
         pending' = pending, batch' = batch,
         pc[t] \notin Holding, pc'[t] \notin Holding,
         \A u \in Tasks \ {t} : pc'[u] = pc[u]
  PROVE  Owed' = Owed /\ HeldAt("direct")' = HeldAt("direct")
<1>1. \A u \in Tasks : (pc'[u] = "write" <=> pc[u] = "write")
                    /\ (pc'[u] = "direct" <=> pc[u] = "direct")
  BY DEF Holding
<1>2. QED
  BY <1>1, OwedIs

\* The initial state is one of the contract.
LEMMA RefineInit == Init => Contract!Init
<1> SUFFICES ASSUME Init PROVE Contract!Init
  OBVIOUS
<1>1. Range(<< >>) = {}
  <2>1. << >> \in Seq(Decision)
    BY EmptySeq
  <2>2. QED
    BY <2>1, RangeFacts
<1>2. Owed = {} /\ HeldAt("direct") = {}
  BY <1>1, OwedIs DEF Init
<1>3. Deletes = {}
  BY DEF Init, Deletes
<1>4. QED
  BY <1>2, <1>3 DEF Init, Contract!Init

\* Every step is one of the contract or leaves what the contract speaks of: a
\* save accepts or offers, the commit writes, a failed direct write refuses, a
\* delete forgets and then erases; taking a batch and putting one back do not
\* show.
LEMMA RefineStep ==
  IInv /\ TypeOK' /\ [Next]_vars => [Contract!Next]_(Contract!wbVars)
<1> SUFFICES ASSUME TypeOK, ArgsGiven, Apart, TypeOK', [Next]_vars
             PROVE  Contract!Next \/ UNCHANGED Contract!wbVars
  BY DEF IInv
<1>a. /\ pc \in [Tasks -> {"idle", "take", "write", "direct", "flush", "fetch", "erase"}]
      /\ arg \in [Tasks -> Ids \union {NoId}]
      /\ inner' \in [Ids -> Nat]
  <2>1. serial' \in Nat
    BY BatchAssumption DEF TypeOK
  <2>2. QED
    BY <2>1 DEF TypeOK
<1>b. ASSUME serial' = serial, inner' = inner, Owed' = Owed,
             HeldAt("direct")' = HeldAt("direct"), Deletes' = Deletes
      PROVE  UNCHANGED Contract!wbVars
  BY <1>b DEF Contract!wbVars
<1> DEFINE Alone(t) == \A u \in Tasks \ {t} : pc'[u] = pc[u] /\ arg'[u] = arg[u]
<1>0. ASSUME NEW t \in Tasks, Alone(t), \A u \in Tasks \ {t} : batch'[u] = batch[u],
             \A d : (d \in Range(pending') \/ (pc'[t] = "write" /\ d \in Range(batch'[t])))
                      <=> (d \in Range(pending) \/ (pc[t] = "write" /\ d \in Range(batch[t])))
      PROVE  Owed' = Owed
  <2>1. ASSUME NEW d
        PROVE  d \in Owed' <=> d \in Owed
    <3>1. (\E u \in Tasks \ {t} : pc'[u] = "write" /\ d \in Range(batch'[u]))
            <=> (\E u \in Tasks \ {t} : pc[u] = "write" /\ d \in Range(batch[u]))
      BY <1>0
    <3>2. d \in Owed <=>
            \/ d \in Range(pending)
            \/ pc[t] = "write" /\ d \in Range(batch[t])
            \/ \E u \in Tasks \ {t} : pc[u] = "write" /\ d \in Range(batch[u])
      BY OwedIs
    <3>3. d \in Owed' <=>
            \/ d \in Range(pending')
            \/ pc'[t] = "write" /\ d \in Range(batch'[t])
            \/ \E u \in Tasks \ {t} : pc'[u] = "write" /\ d \in Range(batch'[u])
      BY OwedIs
    <3>4. QED
      BY <1>0, <3>1, <3>2, <3>3
  <2>2. QED
    BY <2>1
<1>1. ASSUME NEW t \in Tasks, NEW id \in Ids, SaveDecision(t, id)
      PROVE  Contract!Accept(id)
  <2>1. /\ pc[t] = "idle" /\ inner' = inner
        /\ pc' = [pc EXCEPT ![t] = IF Len(pending) + 1 >= BatchSize THEN "take" ELSE "idle"]
        /\ arg' = [arg EXCEPT ![t] =
             IF (IF Len(pending) + 1 >= BatchSize THEN "take" ELSE "idle") = "idle"
             THEN NoId ELSE id]
    BY <1>1 DEF SaveDecision, Begin
  <2>2. Alone(t) /\ pc'[t] \in {"idle", "take"}
    BY <1>a, <2>1
  <2>3. /\ serial' = serial + 1 /\ batch' = batch
        /\ Range(pending') = Range(pending) \union {Version(id)}
    BY <1>1, SaveMemory
  <2>4. Version(id) = [id |-> id, n |-> serial']
    BY <2>3 DEF Version
  <2>5. \A u \in Tasks : (pc'[u] = "write" <=> pc[u] = "write")
                      /\ (pc'[u] = "direct" <=> pc[u] = "direct")
    BY <2>1, <2>2
  <2>6. Owed' = Owed \union {Version(id)} /\ HeldAt("direct")' = HeldAt("direct")
    BY <2>3, <2>5, OwedIs
  <2>7. Deletes' = Deletes
    BY <2>1, <2>2, DeletesFrame
  <2>8. QED
    BY <2>1, <2>3, <2>4, <2>6, <2>7 DEF Contract!Accept
<1>2. ASSUME NEW t \in Tasks, NEW id \in Ids, SaveDecisions(t, id)
      PROVE  Contract!Offer(id)
  <2>1. /\ pc[t] = "idle" /\ inner' = inner
        /\ pc' = [pc EXCEPT ![t] = "direct"] /\ arg' = [arg EXCEPT ![t] = id]
    BY <1>2 DEF SaveDecisions, Begin, data
  <2>2. Alone(t) /\ pc'[t] = "direct"
    BY <1>a, <2>1
  <2>3. /\ serial' = serial + 1 /\ pending' = pending
        /\ Range(batch'[t]) = {Version(id)}
        /\ \A u \in Tasks \ {t} : batch'[u] = batch[u]
    BY <1>2, DirectMemory
  <2>4. Version(id) = [id |-> id, n |-> serial']
    BY <2>3 DEF Version
  <2>5. Owed' = Owed
    <3>1. \A u \in Tasks : pc[u] = "write" \/ pc'[u] = "write" =>
            pc'[u] = pc[u] /\ batch'[u] = batch[u]
      BY <2>1, <2>2, <2>3
    <3>2. ASSUME NEW d
          PROVE  d \in Owed' <=> d \in Owed
      <4>1. d \in Range(pending') <=> d \in Range(pending)
        BY <2>3
      <4>2. (\E u \in Tasks : pc'[u] = "write" /\ d \in Range(batch'[u]))
              <=> (\E u \in Tasks : pc[u] = "write" /\ d \in Range(batch[u]))
        BY <3>1
      <4>3. QED
        BY <4>1, <4>2, OwedIs
    <3>3. QED
      BY <3>2
  <2>6. HeldAt("direct")' = HeldAt("direct") \union {Version(id)}
    BY <2>1, <2>2, <2>3, OwedIs
  <2>7. Deletes' = Deletes
    BY <2>1, <2>2, DeletesFrame
  <2>8. QED
    BY <2>1, <2>3, <2>4, <2>5, <2>6, <2>7 DEF Contract!Offer
<1>3. ASSUME NEW t \in Tasks, TakeFull(t) \/ Flush(t)
      PROVE  UNCHANGED Contract!wbVars
  <2>1. /\ Range(pending') = {} /\ Range(batch[t]) = {}
        /\ Range(batch'[t]) = Range(pending)
        /\ \A u \in Tasks \ {t} : batch'[u] = batch[u]
        /\ serial' = serial
    BY <1>3, TakeMemory
  <2>2. pc[t] \in {"idle", "take"} /\ inner' = inner
    BY <1>3 DEF TakeFull, Flush, Begin
  <2>3. Alone(t) /\ pc'[t] = (IF pending # << >> THEN "write" ELSE IF pc[t] = "take" THEN "idle" ELSE "flush")
    <3>1. CASE TakeFull(t)
      BY <1>a, <3>1, EndFrame DEF TakeFull
    <3>2. CASE Flush(t)
      BY <1>a, <3>2 DEF Flush, Begin
    <3>3. QED
      BY <1>3, <3>1, <3>2
  <2>4. pending = << >> <=> Range(pending) = {}
    BY MemoryTypes
  <2>5. Owed' = Owed
    BY <1>0, <2>1, <2>2, <2>3, <2>4
  <2>6. HeldAt("direct")' = HeldAt("direct")
    BY <2>1, <2>2, <2>3, OwedIs
  <2>7. Deletes' = Deletes
    BY <2>2, <2>3, DeletesFrame
  <2>8. QED
    BY <1>b, <2>1, <2>2, <2>5, <2>6, <2>7
<1>4. ASSUME NEW t \in Tasks, WriteLands(t)
      PROVE  Contract!Write
  <2> DEFINE B == Range(batch[t])
  <2>1. /\ pending' = pending /\ Range(batch'[t]) = {} /\ serial' = serial
        /\ \A u \in Tasks \ {t} : batch'[u] = batch[u]
        /\ \A i \in Ids :
              \/ \E d \in B : d.id = i /\ inner'[i] = d.n
              \/ inner'[i] = inner[i] /\ \A d \in B : d.id # i
    BY <1>4, LandMemory
  <2>2. pc[t] \in {"write", "direct"}
    BY <1>4 DEF WriteLands
  <2>3. Alone(t) /\ pc'[t] \in {"idle", "flush"}
    <3>1. CASE arg[t] = NoId
      BY <1>a, <1>4, <3>1 DEF WriteLands
    <3>2. CASE arg[t] # NoId
      BY <1>4, <3>2, EndFrame DEF WriteLands
    <3>3. QED
      BY <3>1, <3>2
  <2>4. /\ \A d \in B : d \notin Range(pending)
        /\ \A u \in Tasks \ {t} : \A d \in B : d \notin Range(batch[u])
    BY DEF Apart
  <2> HIDE DEF B
  <2>5. Owed' = Owed \ B
    <3>1. \A d : d \in Owed <=>
            \/ d \in Range(pending) \/ (pc[t] = "write" /\ d \in B)
            \/ \E u \in Tasks \ {t} : pc[u] = "write" /\ d \in Range(batch[u])
      BY OwedIs DEF B
    <3>2. \A d : d \in Owed' <=>
            \/ d \in Range(pending)
            \/ \E u \in Tasks \ {t} : pc[u] = "write" /\ d \in Range(batch[u])
      BY <2>1, <2>3, OwedIs
    <3>3. QED
      BY <2>4, <3>1, <3>2
  <2>6. HeldAt("direct")' = HeldAt("direct") \ B
    <3>1. \A d : d \in HeldAt("direct") <=>
            \/ pc[t] = "direct" /\ d \in B
            \/ \E u \in Tasks \ {t} : pc[u] = "direct" /\ d \in Range(batch[u])
      BY OwedIs DEF B
    <3>2. \A d : d \in HeldAt("direct")' <=>
            \E u \in Tasks \ {t} : pc[u] = "direct" /\ d \in Range(batch[u])
      BY <2>1, <2>3, OwedIs
    <3>3. QED
      BY <2>4, <3>1, <3>2
  <2>7. B \in SUBSET (Owed \union HeldAt("direct"))
    BY <2>2, OwedIs DEF B
  <2>8. Deletes' = Deletes
    BY <2>2, <2>3, DeletesFrame
  <2>9. ASSUME NEW i \in Ids
        PROVE  LET versions == {d.n : d \in {x \in B : x.id = i}}
               IN  IF versions = {} THEN inner'[i] = inner[i] ELSE inner'[i] \in versions
    BY <2>1
  <2>10. QED
    BY <1>a, <2>1, <2>5, <2>6, <2>7, <2>8, <2>9 DEF Contract!Write
<1>5. ASSUME NEW t \in Tasks, WriteFails(t)
      PROVE  Contract!Refuse \/ UNCHANGED Contract!wbVars
  <2>1. /\ Range(pending') = Range(pending) \union (IF pc[t] = "write" THEN Range(batch[t]) ELSE {})
        /\ Range(batch'[t]) = {} /\ serial' = serial /\ inner' = inner
        /\ \A u \in Tasks \ {t} : batch'[u] = batch[u]
    BY <1>5, FailMemory
  <2>2. pc[t] \in {"write", "direct"}
    BY <1>5 DEF WriteFails
  <2>3. Alone(t) /\ pc'[t] = "idle"
    BY <1>5, EndFrame DEF WriteFails
  <2>4. Owed' = Owed
    BY <1>0, <2>1, <2>2, <2>3
  <2>5. HeldAt("direct")' \in SUBSET HeldAt("direct")
    BY <2>1, <2>2, <2>3, OwedIs
  <2>6. Deletes' = Deletes
    BY <2>2, <2>3, DeletesFrame
  <2>7. QED
    BY <2>1, <2>4, <2>5, <2>6 DEF Contract!Refuse
<1>6. ASSUME NEW t \in Tasks, NEW id \in Ids, Delete(t, id)
      PROVE  Contract!Forget(t, id)
  <2>1. /\ pc[t] = "idle"
        /\ pc' = [pc EXCEPT ![t] = "erase"] /\ arg' = [arg EXCEPT ![t] = id]
    BY <1>6 DEF Delete, Begin
  <2>2. Alone(t) /\ pc'[t] = "erase" /\ arg'[t] = id
    BY <1>a, <2>1
  <2>3. /\ Range(pending') = {d \in Range(pending) : d.id # id}
        /\ batch' = batch /\ serial' = serial /\ inner' = inner
    BY <1>6, DeleteMemory
  <2>4. \A u \in Tasks : (pc'[u] = "write" <=> pc[u] = "write")
                      /\ (pc'[u] = "direct" <=> pc[u] = "direct")
    BY <2>1, <2>2
  <2>5. /\ Owed' \in SUBSET Owed /\ \A d \in Owed \ Owed' : d.id = id
        /\ HeldAt("direct")' = HeldAt("direct")
    BY <2>3, <2>4, OwedIs
  <2>6. Deletes' = Deletes \union {<<t, id>>}
    BY <2>1, <2>2, DeletesFrame
  <2>7. <<t, id>> \notin Deletes
    BY <2>1 DEF Deletes
  <2>8. QED
    BY <2>3, <2>5, <2>6, <2>7 DEF Contract!Forget
<1>7. ASSUME NEW t \in Tasks, Erase(t) \/ EraseFails(t)
      PROVE  \E id \in Ids : Contract!Erase(t, id)
  <2>1. pc[t] = "erase" /\ arg[t] \in Ids
    BY <1>7 DEF Erase, EraseFails, ArgsGiven
  <2>2. PICK id \in Ids : id = arg[t]
    BY <2>1
  <2>3. /\ pending' = pending /\ batch' = batch /\ serial' = serial
    BY <1>7, OtherMemory
  <2>4. inner' \in {inner, [inner EXCEPT ![id] = 0]}
    BY <1>7, <2>2 DEF Erase, EraseFails, data
  <2>5. Alone(t) /\ pc'[t] = "idle"
    BY <1>a, <1>7 DEF Erase, EraseFails, End, Finish
  <2>6. Owed' = Owed /\ HeldAt("direct")' = HeldAt("direct")
    BY <2>1, <2>3, <2>5, MemoryFrame DEF Holding
  <2>7. Deletes' = Deletes \ {<<t, id>>}
    BY <2>1, <2>2, <2>5, DeletesFrame
  <2>8. <<t, id>> \in Deletes
    BY <2>1, <2>2 DEF Deletes
  <2>9. QED
    BY <2>3, <2>4, <2>6, <2>7, <2>8 DEF Contract!Erase
<1>8. ASSUME NEW t \in Tasks,
             (\E id \in Ids : LoadDecision(t, id)) \/ FlushInner(t) \/ LoadInner(t)
      PROVE  UNCHANGED Contract!wbVars
  <2>1. pending' = pending /\ batch' = batch /\ serial' = serial
    BY <1>8, OtherMemory
  <2>2. inner' = inner
    BY <1>8 DEF LoadDecision, FlushInner, LoadInner, data
  <2>3. Alone(t) /\ pc[t] \in {"idle", "flush", "fetch"} /\ pc'[t] \in {"idle", "fetch"}
    BY <1>a, <1>8, EndFrame DEF LoadDecision, FlushInner, LoadInner, Begin
  <2>4. Owed' = Owed /\ HeldAt("direct")' = HeldAt("direct")
    BY <2>1, <2>3, MemoryFrame DEF Holding
  <2>5. Deletes' = Deletes
    BY <2>3, DeletesFrame
  <2>6. QED
    BY <1>b, <2>1, <2>2, <2>4, <2>5
<1>9. CASE UNCHANGED vars
  <2>1. Owed' = Owed /\ HeldAt("direct")' = HeldAt("direct") /\ Deletes' = Deletes
    BY <1>9 DEF vars, data, Owed, HeldAt, InFlight, Deletes
  <2>2. QED
    BY <1>b, <1>9, <2>1 DEF vars, data, history
<1>10. QED
  BY <1>1, <1>2, <1>3, <1>4, <1>5, <1>6, <1>7, <1>8, <1>9 DEF Next, Contract!Next

\* Conservation, for any tasks, ids, batch size and number of failures: the
\* buffered store implements the write-behind contract.
THEOREM RefinesWriteBehind == Spec => ImplementsWriteBehind
<1>1. IInv => TypeOK
  BY DEF IInv
<1>2. QED
  BY <1>1, RefineInit, RefineStep, Invariance, PTL DEF Spec, ImplementsWriteBehind, Contract!Spec
==============================================================================
