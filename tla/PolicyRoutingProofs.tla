-------------------------- MODULE PolicyRoutingProofs --------------------------
(***************************************************************************)
(* What an append can change of as-of answers, so that the past is stable  *)
(* and views do not look ahead; and what the table and its readers rely    *)
(* on, so that corrections supersede and bundles are explained.            *)
(***************************************************************************)
EXTENDS PolicyRouting, SequenceTheorems, TLAPS

AnyRecord == [id : Nat, key : Keys, vt : Nat, tx : Nat, parent : Nat]

\* An append of records that a query does not consider leaves its answer: the
\* case of a record stamped later than the clamp on transaction time.
LEMMA AppendOutside ==
  ASSUME NEW r \in Seq(AnyRecord), NEW new \in Seq(AnyRecord),
         NEW key, NEW tx, NEW vt,
         \A i \in DOMAIN new : ~ (Within(new[i].tx, tx) /\ Within(new[i].vt, vt))
  PROVE  AsOf(r \o new, key, tx, vt) = AsOf(r, key, tx, vt)
<1>1. \A i \in DOMAIN r : i \in DOMAIN (r \o new) /\ (r \o new)[i] = r[i]
  OBVIOUS
<1>2. \A i \in DOMAIN (r \o new) :
        i \in DOMAIN r \/ (i - Len(r) \in DOMAIN new /\ (r \o new)[i] = new[i - Len(r)])
  OBVIOUS
<1>3. Candidates(r \o new, key, tx, vt) = Candidates(r, key, tx, vt)
  BY <1>1, <1>2 DEF Candidates
<1>4. \A i \in Candidates(r, key, tx, vt) : (r \o new)[i] = r[i]
  BY <1>1 DEF Candidates
<1>5. \A i, j \in Candidates(r, key, tx, vt) :
        Supersedes((r \o new)[j], (r \o new)[i]) <=> Supersedes(r[j], r[i])
  BY <1>4, Zenon
<1> DEFINE S == Candidates(r, key, tx, vt)
<1>6. AsOf(r \o new, key, tx, vt) = {i \in S : \A j \in S : ~ Supersedes((r \o new)[j], (r \o new)[i])}
  BY <1>3, Zenon DEF AsOf
<1>7. AsOf(r, key, tx, vt) = {i \in S : \A j \in S : ~ Supersedes(r[j], r[i])}
  BY Zenon DEF AsOf
<1> HIDE DEF S
<1> QED
  BY <1>5, <1>6, <1>7 DEF S

\* Within a narrowed clamp is within the view's: a caller cannot widen it.
LEMMA NarrowedStaysWithin ==
  ASSUME NEW t \in Nat, NEW view \in Nat \union {NoTime}, NEW clamp \in Nat \union {NoTime},
         Within(t, Narrowed(view, clamp))
  PROVE  Within(t, view)
BY RoutingAssumption, SMT DEF Within, Narrowed

------------------------------------------------------------------------------
\* What a writer holds carries the time it was built at.
HeldIsStamped ==
  \A w \in Writers : held[w] # Idle =>
    \A k \in DOMAIN held[w][1].new : held[w][1].new[k].tx = held[w][1].since

IInv ==
  /\ now \in Nat /\ issued \in Nat
  /\ rows \in Seq(AnyRecord)
  /\ held \in [Writers -> {Idle} \union {<<h>> : h \in [since : Nat, new : Seq(AnyRecord)]}]
  /\ HeldIsStamped

\* The invariant is kept by every step.
THEOREM Invariance == Spec => []IInv
<1>1. Init => IInv
  BY RoutingAssumption DEF Init, IInv, HeldIsStamped, AnyRecord
<1>2. IInv /\ [Next]_vars => IInv'
  <2> SUFFICES ASSUME IInv, [Next]_vars PROVE IInv'
    OBVIOUS
  <2> USE DEF IInv
  <2>1. CASE Tick
    BY <2>1 DEF Tick, HeldIsStamped
  <2>2. ASSUME NEW w \in Writers, NEW new \in Seq(AnyRecord), Build(w, new),
               \A k \in DOMAIN new : new[k].tx = now
        PROVE  IInv'
    <3>1. held' = [held EXCEPT ![w] = <<[since |-> now, new |-> new]>>]
      BY <2>2 DEF Build
    <3>2. /\ held' \in [Writers -> {Idle} \union {<<h>> : h \in [since : Nat, new : Seq(AnyRecord)]}]
          /\ held'[w] = <<[since |-> now, new |-> new]>>
          /\ \A u \in Writers \ {w} : held'[u] = held[u]
      BY <3>1
    <3>3. HeldIsStamped'
      BY <2>2, <3>2 DEF HeldIsStamped
    <3> QED
      BY <2>2, <3>2, <3>3 DEF Build
  <2>3. ASSUME NEW w \in Writers, NEW key \in Keys, NEW from \in ValidTimes, Publish(w, key, from)
        PROVE  IInv'
    <3> DEFINE new == <<New(1, key, from, 0)>>
    <3>1. New(1, key, from, 0) \in AnyRecord /\ New(1, key, from, 0).tx = now
      BY RoutingAssumption DEF New, AnyRecord
    <3>2. new \in Seq(AnyRecord) /\ \A k \in DOMAIN new : new[k].tx = now
      BY <3>1
    <3>3. Build(w, new)
      BY <2>3 DEF Publish
    <3> HIDE DEF new
    <3> QED
      BY <2>2, <3>2, <3>3
  <2>4. ASSUME NEW w \in Writers, NEW key \in Keys, NEW from \in ValidTimes,
               NEW key2 \in Keys, NEW from2 \in ValidTimes, BatchAppend(w, key, from, key2, from2)
        PROVE  IInv'
    <3> DEFINE new == <<New(1, key, from, 0), New(2, key2, from2, 0)>>
    <3>1. /\ New(1, key, from, 0) \in AnyRecord /\ New(1, key, from, 0).tx = now
          /\ New(2, key2, from2, 0) \in AnyRecord /\ New(2, key2, from2, 0).tx = now
      BY RoutingAssumption DEF New, AnyRecord
    <3>2. new \in Seq(AnyRecord) /\ \A k \in DOMAIN new : new[k].tx = now
      BY <3>1
    <3>3. Build(w, new)
      BY <2>4 DEF BatchAppend
    <3> HIDE DEF new
    <3> QED
      BY <2>2, <3>2, <3>3
  <2>5. ASSUME NEW w \in Writers, NEW i \in DOMAIN rows, Correct(w, i)
        PROVE  IInv'
    <3> DEFINE new == <<New(1, rows[i].key, rows[i].vt, rows[i].id)>>
    <3>1. rows[i] \in AnyRecord
      OBVIOUS
    <3>2. rows[i].key \in Keys /\ rows[i].vt \in Nat /\ rows[i].id \in Nat
      BY <3>1 DEF AnyRecord
    <3>3. /\ New(1, rows[i].key, rows[i].vt, rows[i].id) \in AnyRecord
          /\ New(1, rows[i].key, rows[i].vt, rows[i].id).tx = now
      BY <3>2 DEF New, AnyRecord
    <3>4. new \in Seq(AnyRecord) /\ \A k \in DOMAIN new : new[k].tx = now
      BY <3>3
    <3>5. Build(w, new)
      BY <2>5 DEF Correct
    <3> HIDE DEF new
    <3> QED
      BY <2>2, <3>4, <3>5
  <2>6. ASSUME NEW w \in Writers, Store(w)
        PROVE  IInv'
    <3>1. held[w][1].new \in Seq(AnyRecord)
      BY <2>6 DEF Store
    <3>2. rows' \in Seq(AnyRecord)
      BY <2>6, <3>1 DEF Store
    <3> QED
      BY <2>6, <3>2 DEF Store, HeldIsStamped
  <2>7. CASE UNCHANGED <<rows, now, held, issued>>
    BY <2>7 DEF HeldIsStamped
  <2>8. ASSUME NEW r \in Routers, NEW key \in Keys, NEW pin \in 0..now \union {NoTime},
               ReadPolicy(r, key, pin)
        PROVE  IInv'
    BY <2>7, <2>8 DEF ReadPolicy
  <2>9. ASSUME NEW r \in Routers, NEW pin \in 0..now \union {NoTime}, Decide(r, pin)
        PROVE  IInv'
    BY <2>7, <2>9 DEF Decide
  <2>10. ASSUME NEW d \in decisions, Examine(d)
        PROVE  IInv'
    BY <2>7, <2>10 DEF Examine
  <2>11. ASSUME NEW w \in Writers, WriterStep(w)
         PROVE  IInv'
    BY <2>3, <2>4, <2>5, <2>6, <2>11 DEF WriterStep
  <2>12. ASSUME NEW r \in Routers, RouterStep(r)
         PROVE  IInv'
    BY <2>8, <2>9, <2>12 DEF RouterStep
  <2> QED
    BY <2>1, <2>7, <2>10, <2>11, <2>12 DEF Next, vars
<1> QED
  BY <1>1, <1>2, PTL DEF Spec

\* Only Store changes the table, by what its writer holds.
LEMMA RowsGrow ==
  ASSUME IInv, [Next]_vars, rows' # rows
  PROVE  \E w \in Writers : /\ held[w] # Idle
                            /\ held[w][1].new \in Seq(AnyRecord)
                            /\ rows' = rows \o held[w][1].new
<1>1. PICK w \in Writers : Store(w)
  BY DEF Next, vars, Tick, WriterStep, RouterStep, Publish, BatchAppend, Correct, Build,
         ReadPolicy, Decide, Examine
<1>2. held[w] \in {<<h>> : h \in [since : Nat, new : Seq(AnyRecord)]}
  BY <1>1 DEF Store, IInv
<1> QED
  BY <1>1, <1>2 DEF Store

------------------------------------------------------------------------------
\* The past is stable, for any keys, writers, routers and times.
THEOREM PastStays == Spec => PastIsStable
<1>1. ASSUME IInv, [Next]_vars, NEW t \in 0..(now - 1),
             \A w \in Writers : held[w] # Idle => held[w][1].since > t,
             NEW key \in Keys, NEW v \in VtClamps
      PROVE  AsOf(rows', key, t, v) = AsOf(rows, key, t, v)
  <2>1. CASE rows' = rows
    BY <2>1
  <2>2. CASE rows' # rows
    <3>1. PICK w \in Writers : /\ held[w] # Idle
                               /\ held[w][1].new \in Seq(AnyRecord)
                               /\ rows' = rows \o held[w][1].new
      BY <1>1, <2>2, RowsGrow
    <3>2. t \in Nat /\ held[w][1].since > t
      BY <1>1, <3>1 DEF IInv
    <3>3. \A k \in DOMAIN held[w][1].new : held[w][1].new[k].tx = held[w][1].since
      BY <1>1, <3>1 DEF IInv, HeldIsStamped
    <3>4. held[w][1].since \in Nat
      BY <1>1, <3>1 DEF IInv
    <3>5. \A k \in DOMAIN held[w][1].new : ~ Within(held[w][1].new[k].tx, t)
      BY <3>2, <3>3, <3>4, RoutingAssumption DEF Within
    <3> QED
      BY <1>1, <3>1, <3>5, AppendOutside DEF IInv
  <2> QED
    BY <2>1, <2>2
<1>2. IInv /\ [Next]_vars =>
        [\A t \in 0..(now - 1) :
           (\A w \in Writers : held[w] # Idle => held[w][1].since > t)
             => \A key \in Keys, v \in VtClamps : AsOf(rows', key, t, v) = AsOf(rows, key, t, v)]_vars
  BY <1>1
<1> QED
  BY <1>2, Invariance, PTL DEF Spec, PastIsStable

\* Views do not look ahead, for any keys, writers, routers, times and clamps.
THEOREM ViewsHold == Spec => ViewsDoNotLookAhead
<1>1. ASSUME IInv, [Next]_vars, rows' # rows,
             NEW viewTx \in TxClamps, NEW viewVt \in VtClamps,
             \A i \in (Len(rows) + 1)..Len(rows') :
               ~ (Within(rows'[i].tx, viewTx) /\ Within(rows'[i].vt, viewVt)),
             NEW key \in Keys, NEW t \in TxClamps, NEW v \in VtClamps
      PROVE  ViewAsOf(rows', viewTx, viewVt, key, t, v) = ViewAsOf(rows, viewTx, viewVt, key, t, v)
  <2>1. PICK w \in Writers : /\ held[w] # Idle
                             /\ held[w][1].new \in Seq(AnyRecord)
                             /\ rows' = rows \o held[w][1].new
    BY <1>1, RowsGrow
  <2> DEFINE new == held[w][1].new
  <2>2. new \in Seq(AnyRecord) /\ rows' = rows \o new /\ rows \in Seq(AnyRecord)
    BY <1>1, <2>1 DEF IInv
  <2> HIDE DEF new
  <2>3. \A k \in DOMAIN new : /\ Len(rows) + k \in (Len(rows) + 1)..Len(rows')
                              /\ rows'[Len(rows) + k] = new[k]
    BY <2>2
  <2>4. \A k \in DOMAIN new : ~ (Within(new[k].tx, viewTx) /\ Within(new[k].vt, viewVt))
    BY <1>1, <2>3
  <2>5. \A k \in DOMAIN new : new[k].tx \in Nat /\ new[k].vt \in Nat
    <3> TAKE k \in DOMAIN new
    <3>1. new[k] \in AnyRecord
      BY <2>2
    <3> QED
      BY <3>1 DEF AnyRecord
  <2>6. /\ viewTx \in Nat \union {NoTime} /\ viewVt \in Nat \union {NoTime}
        /\ t \in Nat \union {NoTime} /\ v \in Nat \union {NoTime}
    BY <1>1, RoutingAssumption DEF TxClamps, VtClamps, Times
  <2>7. \A k \in DOMAIN new : ~ (/\ Within(new[k].tx, Narrowed(viewTx, t))
                                 /\ Within(new[k].vt, Narrowed(viewVt, v)))
    BY <2>4, <2>5, <2>6, NarrowedStaysWithin
  <2> QED
    BY <2>2, <2>7, AppendOutside DEF ViewAsOf
<1>2. IInv /\ [Next]_vars =>
        [rows' # rows =>
           \A viewTx \in TxClamps, viewVt \in VtClamps :
             (\A i \in (Len(rows) + 1)..Len(rows') :
                ~ (Within(rows'[i].tx, viewTx) /\ Within(rows'[i].vt, viewVt)))
               => \A key \in Keys, t \in TxClamps, v \in VtClamps :
                    ViewAsOf(rows', viewTx, viewVt, key, t, v)
                      = ViewAsOf(rows, viewTx, viewVt, key, t, v)]_vars
  BY <1>1
<1> QED
  BY <1>2, Invariance, PTL DEF Spec, ViewsDoNotLookAhead

------------------------------------------------------------------------------
\* The records a writer has built and not yet appended.
Unstored(w) == IF held[w] = Idle THEN << >> ELSE held[w][1].new

\* No id is given twice, in the table or to records on their way there.
IdsApart ==
  \A w \in Writers : \A k \in DOMAIN Unstored(w) :
    /\ \A i \in DOMAIN rows : Unstored(w)[k].id # rows[i].id
    /\ \A u \in Writers : \A m \in DOMAIN Unstored(u) :
         Unstored(w)[k].id = Unstored(u)[m].id => w = u /\ k = m

\* If c corrects r, it is of the same key and valid time, and later.
CorrectsLater(c, r) ==
  c.parent = r.id => c.key = r.key /\ c.vt = r.vt /\ c.tx > r.tx

\* A correction on its way corrects a record of the table, and corrections are
\* later than what they correct.
CorrectionsAreLater ==
  /\ \A w \in Writers : \A k \in DOMAIN Unstored(w) :
       /\ IsCorrection(Unstored(w)[k]) =>
            \E i \in DOMAIN rows : rows[i].id = Unstored(w)[k].parent
       /\ \A i \in DOMAIN rows : CorrectsLater(Unstored(w)[k], rows[i])
  /\ \A i, j \in DOMAIN rows : CorrectsLater(rows[j], rows[i])

\* Policy d.used answers, of the first d.seen rows, the query at a time.
Answers(d, at) ==
  /\ \E i \in DOMAIN rows : i <= d.seen /\ rows[i] = d.used
  /\ Within(d.used.tx, at)
  /\ \A i \in DOMAIN rows :
       i <= d.seen /\ rows[i].key = d.used.key /\ Within(rows[i].tx, at)
         => ~ Supersedes(rows[i], d.used)

\* What a router holds answered its query, and what it decided by answers the
\* query at the time of the decision.
ReadsAnswer ==
  /\ \A r \in Routers : reading[r] # Idle => Answers(reading[r][1], reading[r][1].pin)
  /\ \A d \in decisions : d.dated => Answers(d, d.at)

TableInv ==
  /\ IInv /\ TypeOK /\ IdsApart /\ CorrectionsAreLater /\ ReadsAnswer
  /\ BundlesAreExplained

\* The types of what writers hold, routers hold and examiners have.
HeldType == Seq([since : 0..now, new : Seq(Record)])
ReadType == Seq([used : Record, pin : TxClamps, seen : 0..Len(rows)])
BundleType == [decision : Decision, policy : Record]

\* They only grow.
LEMMA TypesGrow ==
  ASSUME now \in Nat, issued \in Nat, Len(rows) \in Nat,
         now' \in Nat, issued' \in Nat, Len(rows') \in Nat,
         now <= now', issued <= issued', Len(rows) <= Len(rows')
  PROVE  /\ Record \subseteq Record' /\ Seq(Record) \subseteq Seq(Record')
         /\ HeldType \subseteq HeldType' /\ ReadType \subseteq ReadType'
         /\ Decision \subseteq Decision' /\ BundleType \subseteq BundleType'
<1>1. /\ 0..now \subseteq 0..now' /\ 1..issued \subseteq 1..issued'
      /\ 0..issued \subseteq 0..issued' /\ 0..Len(rows) \subseteq 0..Len(rows')
  OBVIOUS
<1>2. Record \subseteq Record'
  BY <1>1 DEF Record
<1>3. Seq(Record) \subseteq Seq(Record')
  BY <1>2, SeqMonotonic
<1>4. [since : 0..now, new : Seq(Record)] \subseteq [since : 0..now', new : Seq(Record')]
  BY <1>1, <1>3
<1>5. HeldType \subseteq HeldType'
  BY <1>4, SeqMonotonic DEF HeldType
<1>6. [used : Record, pin : TxClamps, seen : 0..Len(rows)]
        \subseteq [used : Record', pin : TxClamps, seen : 0..Len(rows')]
  BY <1>1, <1>2
<1>7. TxClamps' = TxClamps
  BY DEF TxClamps, Times
<1>8. ReadType \subseteq ReadType'
  BY <1>6, <1>7, SeqMonotonic DEF ReadType
<1>9. Decision \subseteq Decision'
  BY <1>1, <1>2 DEF Decision
<1>10. BundleType \subseteq BundleType'
  BY <1>2, <1>9 DEF BundleType
<1>11. QED
  BY <1>2, <1>3, <1>5, <1>8, <1>9, <1>10

\* Records as the operations of a writer build them: numbered on, stamped with
\* the time, each of them new or a correction of an earlier row.
WellBuilt(new) ==
  /\ new \in Seq([id : (issued + 1)..(issued + Len(new)), key : Keys, vt : ValidTimes,
                  tx : {now}, parent : 0..issued])
  /\ \A k, m \in DOMAIN new : new[k].id = new[m].id => k = m
  /\ \A k \in DOMAIN new :
       \/ new[k].parent = 0
       \/ \E i \in DOMAIN rows :
            /\ new[k].parent = rows[i].id /\ rows[i].tx < now
            /\ new[k].key = rows[i].key /\ new[k].vt = rows[i].vt

\* What a writer builds is well formed, with ids of its own, and corrections
\* name a record that is in the table already.
LEMMA WritersBuild ==
  ASSUME IInv, TypeOK, NEW w \in Writers, WriterStep(w), ~ Store(w)
  PROVE  \E new : Build(w, new) /\ WellBuilt(new)
<1>1. issued \in Nat /\ now \in Nat /\ rows \in Seq(Record)
  BY DEF IInv, TypeOK
<1>2. ASSUME NEW key \in Keys, NEW from \in ValidTimes
      PROVE  WellBuilt(<<New(1, key, from, 0)>>)
  BY <1>1 DEF WellBuilt, New
<1>3. ASSUME NEW key \in Keys, NEW from \in ValidTimes,
             NEW key2 \in Keys, NEW from2 \in ValidTimes
      PROVE  WellBuilt(<<New(1, key, from, 0), New(2, key2, from2, 0)>>)
  BY <1>1 DEF WellBuilt, New
<1>4. ASSUME NEW i \in DOMAIN rows, rows[i].tx < now
      PROVE  WellBuilt(<<New(1, rows[i].key, rows[i].vt, rows[i].id)>>)
  <2>1. rows[i] \in Record
    BY <1>1
  <2>2. rows[i].key \in Keys /\ rows[i].vt \in ValidTimes /\ rows[i].id \in 0..issued
    BY <1>1, <2>1 DEF Record
  <2>3. QED
    BY <1>1, <1>4, <2>2 DEF WellBuilt, New
<1>5. QED
  BY <1>2, <1>3, <1>4 DEF WriterStep, Publish, BatchAppend, Correct

\* What Store does to the table and to what its writer holds.
LEMMA StoreAppends ==
  ASSUME IInv, NEW w \in Writers, Store(w)
  PROVE  /\ held[w] # Idle /\ held' = [held EXCEPT ![w] = Idle]
         /\ Unstored(w) \in Seq(AnyRecord) /\ Unstored(w) = held[w][1].new
         /\ rows' = rows \o Unstored(w)
         /\ Len(rows) \in Nat /\ Len(rows') \in Nat /\ Len(rows) <= Len(rows')
         /\ \A i \in DOMAIN rows : i \in DOMAIN rows' /\ rows'[i] = rows[i] /\ i <= Len(rows)
         /\ \A i \in DOMAIN rows' :
              \/ i \in DOMAIN rows /\ rows'[i] = rows[i]
              \/ /\ i - Len(rows) \in DOMAIN Unstored(w) /\ i > Len(rows)
                 /\ rows'[i] = Unstored(w)[i - Len(rows)]
<1>1. /\ held[w] # Idle /\ held' = [held EXCEPT ![w] = Idle]
      /\ rows' = rows \o held[w][1].new
  BY DEF Store
<1>2. held[w] \in {<<h>> : h \in [since : Nat, new : Seq(AnyRecord)]} /\ rows \in Seq(AnyRecord)
  BY <1>1 DEF IInv
<1>3. Unstored(w) = held[w][1].new
  BY <1>1 DEF Unstored
<1>4. Unstored(w) \in Seq(AnyRecord)
  BY <1>2, <1>3
<1> DEFINE new == Unstored(w)
<1>5. rows' = rows \o new /\ new \in Seq(AnyRecord) /\ rows \in Seq(AnyRecord)
  BY <1>1, <1>2, <1>3, <1>4
<1> HIDE DEF new
<1>6. /\ Len(rows) \in Nat /\ Len(rows') \in Nat /\ Len(rows) <= Len(rows')
      /\ \A i \in DOMAIN rows : i \in DOMAIN rows' /\ rows'[i] = rows[i] /\ i <= Len(rows)
      /\ \A i \in DOMAIN rows' :
              \/ i \in DOMAIN rows /\ rows'[i] = rows[i]
              \/ i - Len(rows) \in DOMAIN new /\ i > Len(rows) /\ rows'[i] = new[i - Len(rows)]
  BY <1>5
<1>7. QED
  BY <1>1, <1>3, <1>5, <1>6 DEF new

------------------------------------------------------------------------------
\* Steps of routers, examiners and the clock leave the writers and the table.
LEMMA OthersStep ==
  ASSUME [Next]_vars, \A w \in Writers : ~ WriterStep(w)
  PROVE  UNCHANGED <<rows, held, issued>>
BY DEF Next, vars, Tick, RouterStep, ReadPolicy, Decide, Examine

\* Those of writers leave the rest.
LEMMA WritersLeave ==
  ASSUME NEW w \in Writers, WriterStep(w)
  PROVE  UNCHANGED <<now, reading, decisions, bundles>>
BY DEF WriterStep, Publish, BatchAppend, Correct, Build, Store

\* Every step keeps the types.
LEMMA TypeStep == IInv /\ TableInv /\ [Next]_vars => TypeOK'
<1> SUFFICES ASSUME IInv, TableInv, [Next]_vars PROVE TypeOK'
  OBVIOUS
<1> USE RoutingAssumption
<1>1. /\ rows \in Seq(Record) /\ now \in Times /\ issued \in 0..MaxRecords
      /\ held \in [Writers -> HeldType] /\ reading \in [Routers -> ReadType]
      /\ decisions \subseteq Decision /\ bundles \subseteq BundleType
      /\ now \in Nat /\ issued \in Nat /\ Len(rows) \in Nat
      /\ \A i, j \in DOMAIN rows : rows[i].id = rows[j].id => i = j
      /\ \A i \in DOMAIN rows :
           IsCorrection(rows[i]) => \E j \in 1..(i - 1) : rows[j].id = rows[i].parent
  <2>1. /\ rows \in Seq(Record) /\ now \in Times /\ issued \in 0..MaxRecords
        /\ now \in Nat /\ issued \in Nat
    BY DEF TableInv, TypeOK, Times
  <2>2. Len(rows) \in Nat
    BY <2>1
  <2>3. QED
    BY <2>1, <2>2, Zenon DEF TableInv, TypeOK, HeldType, ReadType, BundleType
<1>2. TypeOK' <=>
        /\ rows' \in Seq(Record') /\ now' \in Times /\ issued' \in 0..MaxRecords
        /\ held' \in [Writers -> HeldType'] /\ reading' \in [Routers -> ReadType']
        /\ decisions' \subseteq Decision' /\ bundles' \subseteq BundleType'
        /\ \A i, j \in DOMAIN rows' : rows'[i].id = rows'[j].id => i = j
        /\ \A i \in DOMAIN rows' :
             IsCorrection(rows'[i]) => \E j \in 1..(i - 1) : rows'[j].id = rows'[i].parent
  BY DEF TypeOK, HeldType, ReadType, BundleType, Times
<1>3. ASSUME now' \in Nat, issued' \in Nat, Len(rows') \in Nat,
             now <= now', issued <= issued', Len(rows) <= Len(rows')
      PROVE  /\ Record \subseteq Record'
             /\ rows \in Seq(Record') /\ held \in [Writers -> HeldType']
             /\ reading \in [Routers -> ReadType']
             /\ decisions \subseteq Decision' /\ bundles \subseteq BundleType'
  BY <1>1, <1>3, TypesGrow
<1>4. ASSUME UNCHANGED <<rows, now, issued>>
      PROVE  /\ Record' = Record /\ HeldType' = HeldType /\ ReadType' = ReadType
             /\ Decision' = Decision /\ BundleType' = BundleType
  BY <1>4 DEF Record, HeldType, ReadType, Decision, BundleType, TxClamps, Times
<1>5. CASE Tick
  BY <1>1, <1>2, <1>3, <1>5 DEF Tick, Times
<1>6. ASSUME NEW w \in Writers, NEW new, Build(w, new), WellBuilt(new)
      PROVE  TypeOK'
  <2>1. /\ held' = [held EXCEPT ![w] = <<[since |-> now, new |-> new]>>]
        /\ issued' = issued + Len(new) /\ issued + Len(new) <= MaxRecords
        /\ UNCHANGED <<rows, now, reading, decisions, bundles>>
    BY <1>6 DEF Build
  <2>2. Len(new) \in Nat
    BY <1>6 DEF WellBuilt
  <2>3. [id : (issued + 1)..(issued + Len(new)), key : Keys, vt : ValidTimes,
         tx : {now}, parent : 0..issued] \subseteq Record'
    BY <1>1, <2>1, <2>2 DEF Record
  <2>4. new \in Seq(Record')
    BY <1>6, <2>3, SeqMonotonic DEF WellBuilt
  <2>5. <<[since |-> now, new |-> new]>> \in HeldType'
    BY <1>1, <2>1, <2>4 DEF HeldType
  <2>6. /\ held \in [Writers -> HeldType'] /\ rows \in Seq(Record')
        /\ reading \in [Routers -> ReadType']
        /\ decisions \subseteq Decision' /\ bundles \subseteq BundleType'
    BY <1>1, <1>3, <2>1, <2>2
  <2>7. QED
    BY <1>1, <1>2, <2>1, <2>2, <2>5, <2>6
<1>7. ASSUME NEW w \in Writers, Store(w)
      PROVE  TypeOK'
  <2> DEFINE new == Unstored(w)
  <2>1. /\ held' = [held EXCEPT ![w] = Idle] /\ held[w] # Idle
        /\ new \in Seq(AnyRecord) /\ new = held[w][1].new /\ rows' = rows \o new
        /\ Len(rows') \in Nat /\ Len(rows) <= Len(rows')
        /\ \A i \in DOMAIN rows : i \in DOMAIN rows' /\ rows'[i] = rows[i] /\ i <= Len(rows)
        /\ \A i \in DOMAIN rows' :
              \/ i \in DOMAIN rows /\ rows'[i] = rows[i]
              \/ i - Len(rows) \in DOMAIN new /\ i > Len(rows) /\ rows'[i] = new[i - Len(rows)]
    BY <1>7, StoreAppends
  <2>2. UNCHANGED <<now, issued, reading, decisions, bundles>>
    BY <1>7 DEF Store
  <2>3. new \in Seq(Record)
    <3>1. held[w] \in {<<h>> : h \in [since : Nat, new : Seq(AnyRecord)]}
      BY <2>1 DEF IInv
    <3>2. held[w][1] \in [since : 0..now, new : Seq(Record)]
      BY <1>1, <3>1 DEF HeldType
    <3>3. QED
      BY <2>1, <3>2
  <2>4. /\ \A k \in DOMAIN new : \A i \in DOMAIN rows : new[k].id # rows[i].id
        /\ \A k, m \in DOMAIN new : new[k].id = new[m].id => k = m
        /\ \A k \in DOMAIN new :
             IsCorrection(new[k]) => \E i \in DOMAIN rows : rows[i].id = new[k].parent
    BY DEF TableInv, IdsApart, CorrectionsAreLater
  <2> HIDE DEF new
  <2>5. rows' \in Seq(Record)
    BY <1>1, <2>1, <2>3, ConcatProperties
  <2>6. /\ Record' = Record /\ HeldType' = HeldType
        /\ reading \in [Routers -> ReadType']
        /\ decisions \subseteq Decision' /\ bundles \subseteq BundleType'
    BY <1>1, <1>3, <2>1, <2>2 DEF Record, HeldType
  <2>7. Idle \in HeldType
    BY EmptySeq DEF HeldType, Idle
  <2>8. held' \in [Writers -> HeldType']
    BY <1>1, <2>1, <2>6, <2>7
  <2>9. ASSUME NEW i \in DOMAIN rows', NEW j \in DOMAIN rows', rows'[i].id = rows'[j].id
        PROVE  i = j
    <3>1. i \in Nat /\ j \in Nat
      BY <2>5
    <3>2. CASE i \in DOMAIN rows /\ rows'[i] = rows[i] /\ j \in DOMAIN rows /\ rows'[j] = rows[j]
      BY <1>1, <2>9, <3>2
    <3>3. CASE /\ i - Len(rows) \in DOMAIN new /\ rows'[i] = new[i - Len(rows)]
               /\ j - Len(rows) \in DOMAIN new /\ rows'[j] = new[j - Len(rows)]
      <4>1. i - Len(rows) = j - Len(rows)
        BY <2>4, <2>9, <3>3
      <4>2. QED
        BY <1>1, <3>1, <4>1
    <3>4. CASE /\ i \in DOMAIN rows /\ rows'[i] = rows[i]
               /\ j - Len(rows) \in DOMAIN new /\ rows'[j] = new[j - Len(rows)]
      BY <2>4, <2>9, <3>4
    <3>5. CASE /\ i - Len(rows) \in DOMAIN new /\ rows'[i] = new[i - Len(rows)]
               /\ j \in DOMAIN rows /\ rows'[j] = rows[j]
      BY <2>4, <2>9, <3>5
    <3>6. QED
      BY <2>1, <3>2, <3>3, <3>4, <3>5
  <2>10. ASSUME NEW i \in DOMAIN rows', IsCorrection(rows'[i])
         PROVE  \E j \in 1..(i - 1) : rows'[j].id = rows'[i].parent
    <3>1. i \in Nat /\ \A j \in DOMAIN rows : j \in Nat /\ j >= 1
      BY <1>1, <2>5
    <3>2. CASE i \in DOMAIN rows /\ rows'[i] = rows[i]
      <4>1. PICK j \in 1..(i - 1) : rows[j].id = rows[i].parent
        BY <1>1, <2>10, <3>2
      <4>2. j \in DOMAIN rows
        BY <1>1, <3>1, <3>2, <4>1
      <4>3. QED
        BY <2>1, <3>2, <4>1, <4>2
    <3>3. CASE /\ i - Len(rows) \in DOMAIN new /\ i > Len(rows)
               /\ rows'[i] = new[i - Len(rows)]
      <4>1. PICK j \in DOMAIN rows : rows[j].id = rows'[i].parent
        BY <2>4, <2>10, <3>3
      <4>2. j \in 1..(i - 1) /\ rows'[j] = rows[j]
        BY <1>1, <2>1, <3>1, <3>3, <4>1
      <4>3. QED
        BY <4>1, <4>2
    <3>4. QED
      BY <2>1, <3>2, <3>3
  <2>11. QED
    BY <1>1, <1>2, <2>2, <2>5, <2>6, <2>8, <2>9, <2>10
<1>8. ASSUME NEW r \in Routers, NEW key \in Keys, NEW pin \in 0..now \union {NoTime},
             ReadPolicy(r, key, pin)
      PROVE  TypeOK'
  <2>1. PICK i \in DOMAIN rows :
          reading' = [reading EXCEPT ![r] = <<[used |-> rows[i], pin |-> pin, seen |-> Len(rows)]>>]
    BY <1>8 DEF ReadPolicy, AsOf, Candidates
  <2>2. UNCHANGED <<rows, now, held, issued, decisions, bundles>>
    BY <1>8 DEF ReadPolicy
  <2>3. rows[i] \in Record /\ pin \in TxClamps /\ Len(rows) \in 0..Len(rows)
    BY <1>1 DEF TxClamps, Times
  <2>4. <<[used |-> rows[i], pin |-> pin, seen |-> Len(rows)]>> \in ReadType
    BY <2>3 DEF ReadType
  <2>5. reading' \in [Routers -> ReadType]
    BY <1>1, <2>1, <2>4
  <2>6. QED
    BY <1>1, <1>2, <1>4, <2>2, <2>5
<1>9. ASSUME NEW r \in Routers, NEW decidedAt \in 0..now \union {NoTime}, Decide(r, decidedAt)
      PROVE  TypeOK'
  <2> DEFINE d == reading[r][1]
             at == IF decidedAt = NoTime THEN now ELSE decidedAt
  <2>1. /\ reading[r] # Idle /\ reading' = [reading EXCEPT ![r] = Idle]
        /\ decisions' = decisions \union
             {[used |-> d.used, seen |-> d.seen, at |-> at, dated |-> d.pin = decidedAt]}
        /\ UNCHANGED <<rows, now, held, issued, bundles>>
    BY <1>9 DEF Decide
  <2>2. d \in [used : Record, pin : TxClamps, seen : 0..Len(rows)]
    <3>1. reading[r] \in ReadType
      BY <1>1
    <3> DEFINE S == [used : Record, pin : TxClamps, seen : 0..Len(rows)]
    <3>2. reading[r] \in Seq(S) /\ reading[r] # << >>
      BY <2>1, <3>1 DEF ReadType, Idle
    <3> HIDE DEF S
    <3>3. reading[r][1] \in S
      BY <3>2, HeadTailProperties
    <3>4. QED
      BY <3>3 DEF S
  <2>3. at \in 0..now
    BY <1>1
  <2> DEFINE same == d.pin = decidedAt
  <2>4. same \in BOOLEAN
    OBVIOUS
  <2> HIDE DEF d, at, same
  <2>5. decisions' \subseteq Decision
    <3>1. decisions' = decisions \union
            {[used |-> d.used, seen |-> d.seen, at |-> at, dated |-> same]}
      BY <2>1 DEF same
    <3>2. QED
      BY <1>1, <2>2, <2>3, <2>4, <3>1 DEF Decision
  <2>6. reading' \in [Routers -> ReadType]
    BY <1>1, <2>1, EmptySeq DEF ReadType, Idle
  <2>7. QED
    BY <1>1, <1>2, <1>4, <2>1, <2>5, <2>6
<1>10. ASSUME NEW d \in decisions, Examine(d)
       PROVE  TypeOK'
  <2>1. PICK i \in DOMAIN rows :
          bundles' = bundles \union {[decision |-> d, policy |-> rows[i]]}
    BY <1>10 DEF Examine, AsOf, Candidates
  <2>2. UNCHANGED <<rows, now, held, issued, reading, decisions>>
    BY <1>10 DEF Examine
  <2>3. bundles' \subseteq BundleType
    BY <1>1, <2>1 DEF BundleType
  <2>4. QED
    BY <1>1, <1>2, <1>4, <2>2, <2>3
<1>11. CASE UNCHANGED vars
  <2>1. UNCHANGED <<rows, now, held, issued, reading, decisions, bundles>>
    BY <1>11 DEF vars
  <2>2. QED
    BY <1>1, <1>2, <1>4, <2>1
<1>12. ASSUME NEW w \in Writers, WriterStep(w)
       PROVE  TypeOK'
  BY <1>6, <1>7, <1>12, WritersBuild DEF TableInv
<1>13. QED
  BY <1>5, <1>8, <1>9, <1>10, <1>11, <1>12 DEF Next, RouterStep

------------------------------------------------------------------------------
\* What writers hold are records; ids are from 1 up to those issued.
LEMMA UnstoredType ==
  ASSUME IInv, TypeOK
  PROVE  /\ issued \in Nat /\ now \in Nat
         /\ \A w \in Writers : Unstored(w) \in Seq(Record)
         /\ \A i \in DOMAIN rows : rows[i] \in Record /\ rows[i].id \in 1..issued
         /\ \A w \in Writers : \A k \in DOMAIN Unstored(w) : Unstored(w)[k].id \in 1..issued
<1>1. issued \in Nat /\ now \in Nat /\ rows \in Seq(Record)
  BY DEF IInv, TypeOK
<1>2. \A r \in Record : r.id \in 1..issued
  BY <1>1 DEF Record
<1>3. ASSUME NEW w \in Writers
      PROVE  Unstored(w) \in Seq(Record)
  <2>1. CASE held[w] = Idle
    BY <2>1, EmptySeq DEF Unstored
  <2>2. CASE held[w] # Idle
    <3>1. held[w] \in {<<h>> : h \in [since : Nat, new : Seq(AnyRecord)]}
      BY <2>2 DEF IInv
    <3>2. held[w][1] \in [since : 0..now, new : Seq(Record)]
      BY <3>1 DEF TypeOK
    <3>3. QED
      BY <2>2, <3>2 DEF Unstored
  <2>3. QED
    BY <2>1, <2>2
<1>4. \A i \in DOMAIN rows : rows[i] \in Record
  BY <1>1
<1>5. \A w \in Writers : \A k \in DOMAIN Unstored(w) : Unstored(w)[k] \in Record
  BY <1>3
<1>6. QED
  BY <1>1, <1>2, <1>3, <1>4, <1>5

\* What becomes of the unstored records when a writer builds or stores.
LEMMA UnstoredAfterBuild ==
  ASSUME IInv, NEW w \in Writers, NEW new, Build(w, new)
  PROVE  /\ Unstored(w) = << >> /\ Unstored(w)' = new /\ rows' = rows
         /\ \A u \in Writers \ {w} : Unstored(u)' = Unstored(u)
<1>1. /\ held[w] = Idle /\ held' = [held EXCEPT ![w] = <<[since |-> now, new |-> new]>>]
      /\ rows' = rows
  BY DEF Build
<1>2. /\ held'[w] = <<[since |-> now, new |-> new]>>
      /\ \A u \in Writers \ {w} : held'[u] = held[u]
  BY <1>1 DEF IInv
<1>3. QED
  BY <1>1, <1>2 DEF Unstored, Idle

\* A writer that has stored its records holds none; the others are unaffected.
LEMMA UnstoredAfterStore ==
  ASSUME IInv, NEW w \in Writers, Store(w)
  PROVE  /\ Unstored(w)' = << >>
         /\ \A u \in Writers \ {w} : Unstored(u)' = Unstored(u)
<1>1. held' = [held EXCEPT ![w] = Idle]
  BY DEF Store
<1>2. held'[w] = Idle /\ \A u \in Writers \ {w} : held'[u] = held[u]
  BY <1>1 DEF IInv
<1>3. QED
  BY <1>2 DEF Unstored

\* Every step keeps ids unique among stored and held records.
LEMMA ApartStep == TableInv /\ [Next]_vars => IdsApart'
<1> SUFFICES ASSUME TableInv, [Next]_vars PROVE IdsApart'
  OBVIOUS
<1>0. IInv /\ TypeOK /\ IdsApart
  BY DEF TableInv
<1>1. CASE UNCHANGED <<rows, held, issued>>
  <2>1. \A w \in Writers : Unstored(w)' = Unstored(w)
    BY <1>1 DEF Unstored
  <2>2. QED
    BY <1>0, <1>1, <2>1 DEF IdsApart
<1>2. ASSUME NEW w \in Writers, NEW new, Build(w, new), WellBuilt(new)
      PROVE  IdsApart'
  <2>1. /\ Unstored(w)' = new /\ rows' = rows
        /\ \A u \in Writers \ {w} : Unstored(u)' = Unstored(u)
    BY <1>0, <1>2, UnstoredAfterBuild
  <2>2. \A k \in DOMAIN new : new[k].id \in Nat /\ new[k].id > issued
    <3> DEFINE S == [id : (issued + 1)..(issued + Len(new)), key : Keys, vt : ValidTimes,
                     tx : {now}, parent : 0..issued]
    <3>1. new \in Seq(S) /\ issued \in Nat /\ Len(new) \in Nat
      BY <1>0, <1>2, UnstoredType DEF WellBuilt
    <3>2. \A r \in S : r.id \in Nat /\ r.id > issued
      BY <3>1
    <3> HIDE DEF S
    <3>3. QED
      BY <3>1, <3>2
  <2>3. /\ issued \in Nat
        /\ \A i \in DOMAIN rows : rows[i].id \in 1..issued
        /\ \A u \in Writers : \A k \in DOMAIN Unstored(u) : Unstored(u)[k].id \in 1..issued
    BY <1>0, UnstoredType
  <2>4. /\ \A k \in DOMAIN new : \A i \in DOMAIN rows : new[k].id # rows[i].id
        /\ \A k \in DOMAIN new : \A u \in Writers \ {w} : \A m \in DOMAIN Unstored(u) :
             new[k].id # Unstored(u)[m].id
    BY <2>2, <2>3
  <2>5. \A k, m \in DOMAIN new : new[k].id = new[m].id => k = m
    BY <1>2 DEF WellBuilt
  <2>6. QED
    BY <1>0, <2>1, <2>4, <2>5 DEF IdsApart
<1>3. ASSUME NEW w \in Writers, Store(w)
      PROVE  IdsApart'
  <2>1. /\ Unstored(w)' = << >>
        /\ \A u \in Writers \ {w} : Unstored(u)' = Unstored(u)
    BY <1>0, <1>3, UnstoredAfterStore
  <2>2. \A i \in DOMAIN rows' :
          \/ i \in DOMAIN rows /\ rows'[i] = rows[i]
          \/ \E k \in DOMAIN Unstored(w) : rows'[i] = Unstored(w)[k]
    BY <1>0, <1>3, StoreAppends
  <2>3. \A u \in Writers \ {w} : \A k \in DOMAIN Unstored(u) : \A i \in DOMAIN rows' :
          Unstored(u)[k].id # rows'[i].id
    BY <1>0, <2>2 DEF IdsApart
  <2>4. QED
    BY <1>0, <2>1, <2>3 DEF IdsApart
<1>4. ASSUME NEW w \in Writers, WriterStep(w)
      PROVE  IdsApart'
  BY <1>0, <1>2, <1>3, <1>4, WritersBuild
<1>5. QED
  BY <1>1, <1>4, OthersStep

\* Every step keeps a correction later than the record it corrects.
LEMMA CorrectionsStep == TableInv /\ [Next]_vars => CorrectionsAreLater'
<1> SUFFICES ASSUME TableInv, [Next]_vars PROVE CorrectionsAreLater'
  OBVIOUS
<1>0. IInv /\ TypeOK /\ IdsApart /\ CorrectionsAreLater
  BY DEF TableInv
<1>a. /\ issued \in Nat /\ now \in Nat
      /\ \A i \in DOMAIN rows : rows[i] \in Record /\ rows[i].id # 0
      /\ \A w \in Writers : \A k \in DOMAIN Unstored(w) : Unstored(w)[k].id # 0
      /\ \A i, j \in DOMAIN rows : rows[i].id = rows[j].id => i = j
      /\ \A i \in DOMAIN rows :
           IsCorrection(rows[i]) => \E j \in 1..(i - 1) : rows[j].id = rows[i].parent
  <2>1. /\ issued \in Nat /\ now \in Nat
        /\ \A i \in DOMAIN rows : rows[i] \in Record /\ rows[i].id \in 1..issued
        /\ \A w \in Writers : \A k \in DOMAIN Unstored(w) : Unstored(w)[k].id \in 1..issued
    BY <1>0, UnstoredType
  <2>2. \A n \in 1..issued : n # 0
    BY <2>1
  <2>3. /\ \A i, j \in DOMAIN rows : rows[i].id = rows[j].id => i = j
        /\ \A i \in DOMAIN rows :
             IsCorrection(rows[i]) => \E j \in 1..(i - 1) : rows[j].id = rows[i].parent
    BY <1>0 DEF TypeOK
  <2>4. QED
    BY <2>1, <2>2, <2>3
<1>1. CASE UNCHANGED <<rows, held, issued>>
  <2>1. \A w \in Writers : Unstored(w)' = Unstored(w)
    BY <1>1 DEF Unstored
  <2>2. QED
    BY <1>0, <1>1, <2>1 DEF CorrectionsAreLater
<1>2. ASSUME NEW w \in Writers, NEW new, Build(w, new), WellBuilt(new)
      PROVE  CorrectionsAreLater'
  <2>1. /\ Unstored(w)' = new /\ rows' = rows
        /\ \A u \in Writers \ {w} : Unstored(u)' = Unstored(u)
    BY <1>0, <1>2, UnstoredAfterBuild
  <2>2. ASSUME NEW k \in DOMAIN new
        PROVE  /\ IsCorrection(new[k]) => \E i \in DOMAIN rows : rows[i].id = new[k].parent
               /\ \A i \in DOMAIN rows : CorrectsLater(new[k], rows[i])
    <3>1. new[k].tx = now
      <4> DEFINE S == [id : (issued + 1)..(issued + Len(new)), key : Keys, vt : ValidTimes,
                       tx : {now}, parent : 0..issued]
      <4>1. new \in Seq(S) /\ \A r \in S : r.tx = now
        BY <1>2 DEF WellBuilt
      <4> HIDE DEF S
      <4>2. QED
        BY <4>1
    <3>2. CASE new[k].parent = 0
      BY <1>a, <3>2 DEF IsCorrection, CorrectsLater
    <3>3. ASSUME NEW i \in DOMAIN rows, new[k].parent = rows[i].id, rows[i].tx < now,
                 new[k].key = rows[i].key, new[k].vt = rows[i].vt
          PROVE  /\ IsCorrection(new[k]) => \E j \in DOMAIN rows : rows[j].id = new[k].parent
                 /\ \A j \in DOMAIN rows : CorrectsLater(new[k], rows[j])
      <4>1. rows[i].tx \in Nat
        BY <1>a DEF Record
      <4>2. QED
        BY <1>a, <3>1, <3>3, <4>1 DEF CorrectsLater
    <3>4. QED
      BY <1>2, <3>2, <3>3 DEF WellBuilt
  <2>3. ASSUME NEW u \in Writers
        PROVE  \A k \in DOMAIN Unstored(u)' :
                 /\ IsCorrection(Unstored(u)[k])' =>
                      \E i \in DOMAIN rows' : rows'[i].id = (Unstored(u)[k].parent)'
                 /\ \A i \in DOMAIN rows' : CorrectsLater(Unstored(u)[k], rows[i])'
    <3>1. CASE u = w
      BY <2>1, <2>2, <3>1 DEF IsCorrection, CorrectsLater
    <3>2. CASE u # w
      BY <1>0, <2>1, <3>2 DEF CorrectionsAreLater, IsCorrection, CorrectsLater
    <3>3. QED
      BY <3>1, <3>2
  <2>4. \A i, j \in DOMAIN rows : CorrectsLater(rows[j], rows[i])'
    BY <1>0, <2>1 DEF CorrectionsAreLater, CorrectsLater
  <2>5. QED
    BY <2>1, <2>3, <2>4 DEF CorrectionsAreLater, IsCorrection, CorrectsLater
<1>3. ASSUME NEW w \in Writers, Store(w)
      PROVE  CorrectionsAreLater'
  <2>1. /\ Unstored(w)' = << >>
        /\ \A u \in Writers \ {w} : Unstored(u)' = Unstored(u)
    BY <1>0, <1>3, UnstoredAfterStore
  <2>2. /\ \A i \in DOMAIN rows : i \in DOMAIN rows' /\ rows'[i] = rows[i]
        /\ \A i \in DOMAIN rows' :
             \/ i \in DOMAIN rows /\ rows'[i] = rows[i]
             \/ \E k \in DOMAIN Unstored(w) : rows'[i] = Unstored(w)[k]
    BY <1>0, <1>3, StoreAppends
  \* A record on its way, or in the table, corrects none that is on its way.
  <2>3. ASSUME NEW u \in Writers, NEW k \in DOMAIN Unstored(u), NEW m \in DOMAIN Unstored(w)
        PROVE  Unstored(u)[k].parent # Unstored(w)[m].id
    BY <1>0, <1>a DEF CorrectionsAreLater, IdsApart, IsCorrection
  <2>4. ASSUME NEW j \in DOMAIN rows, NEW m \in DOMAIN Unstored(w)
        PROVE  rows[j].parent # Unstored(w)[m].id
    <3>1. SUFFICES ASSUME rows[j].parent = Unstored(w)[m].id PROVE FALSE
      OBVIOUS
    <3>2. IsCorrection(rows[j])
      BY <1>a, <3>1 DEF IsCorrection
    <3>3. PICK i \in 1..(j - 1) : rows[i].id = rows[j].parent
      BY <1>a, <3>2
    <3>4. i \in DOMAIN rows
      <4>1. rows \in Seq(AnyRecord)
        BY <1>0 DEF IInv
      <4>2. QED
        BY <4>1
    <3>5. QED
      BY <1>0, <3>1, <3>3, <3>4 DEF IdsApart
  <2>5. ASSUME NEW u \in Writers \ {w}, NEW k \in DOMAIN Unstored(u)
        PROVE  /\ IsCorrection(Unstored(u)[k]) =>
                    \E i \in DOMAIN rows' : rows'[i].id = Unstored(u)[k].parent
               /\ \A i \in DOMAIN rows' : CorrectsLater(Unstored(u)[k], rows'[i])
    <3>1. IsCorrection(Unstored(u)[k]) =>
            \E i \in DOMAIN rows' : rows'[i].id = Unstored(u)[k].parent
      BY <1>0, <2>2 DEF CorrectionsAreLater
    <3>2. ASSUME NEW i \in DOMAIN rows'
          PROVE  CorrectsLater(Unstored(u)[k], rows'[i])
      <4>1. CASE i \in DOMAIN rows /\ rows'[i] = rows[i]
        BY <1>0, <4>1 DEF CorrectionsAreLater
      <4>2. CASE \E m \in DOMAIN Unstored(w) : rows'[i] = Unstored(w)[m]
        BY <2>3, <4>2 DEF CorrectsLater
      <4>3. QED
        BY <2>2, <4>1, <4>2
    <3>3. QED
      BY <3>1, <3>2
  <2>6. ASSUME NEW i \in DOMAIN rows', NEW j \in DOMAIN rows'
        PROVE  CorrectsLater(rows'[j], rows'[i])
    <3>1. CASE i \in DOMAIN rows /\ rows'[i] = rows[i]
      BY <1>0, <2>2, <3>1 DEF CorrectionsAreLater
    <3>2. CASE \E m \in DOMAIN Unstored(w) : rows'[i] = Unstored(w)[m]
      BY <2>2, <2>3, <2>4, <3>2 DEF CorrectsLater
    <3>3. QED
      BY <2>2, <3>1, <3>2
  <2>7. QED
    BY <2>1, <2>5, <2>6 DEF CorrectionsAreLater
<1>4. ASSUME NEW w \in Writers, WriterStep(w)
      PROVE  CorrectionsAreLater'
  BY <1>0, <1>2, <1>3, <1>4, WritersBuild
<1>5. QED
  BY <1>1, <1>4, OthersStep

------------------------------------------------------------------------------
\* Appending changes nothing of what the rows before it answer.
LEMMA AnswersStay ==
  ASSUME NEW d, NEW at, d.seen \in Nat, d.seen <= Len(rows), Answers(d, at),
         rows \in Seq(AnyRecord), rows' \in Seq(AnyRecord),
         \A i \in DOMAIN rows : i \in DOMAIN rows' /\ rows'[i] = rows[i]
  PROVE  Answers(d, at)'
<1>1. \A i \in DOMAIN rows' : i <= d.seen => i \in DOMAIN rows
  OBVIOUS
<1>2. QED
  BY <1>1 DEF Answers

\* The table only grows, at its end.
LEMMA TableGrows ==
  ASSUME IInv, IInv', [Next]_vars
  PROVE  /\ rows \in Seq(AnyRecord) /\ rows' \in Seq(AnyRecord)
         /\ \A i \in DOMAIN rows : i \in DOMAIN rows' /\ rows'[i] = rows[i]
<1>1. rows \in Seq(AnyRecord) /\ rows' \in Seq(AnyRecord)
  BY DEF IInv
<1>2. ASSUME NEW w \in Writers, Store(w)
      PROVE  \A i \in DOMAIN rows : i \in DOMAIN rows' /\ rows'[i] = rows[i]
  BY <1>2, StoreAppends
<1>3. CASE rows' = rows
  BY <1>1, <1>3
<1>4. CASE rows' # rows
  <2>1. PICK w \in Writers : Store(w)
    BY <1>4 DEF Next, vars, Tick, WriterStep, RouterStep, Publish, BatchAppend, Correct, Build,
         ReadPolicy, Decide, Examine
  <2>2. QED
    BY <1>1, <1>2, <2>1
<1>5. QED
  BY <1>3, <1>4

\* What an as-of query that does not clamp the valid time answers with.
LEMMA AnswersOfAsOf ==
  ASSUME NEW key, NEW t, NEW i \in AsOf(rows, key, t, NoTime)
  PROVE  /\ i \in DOMAIN rows /\ rows[i].key = key /\ Within(rows[i].tx, t)
         /\ \A j \in DOMAIN rows :
              rows[j].key = key /\ Within(rows[j].tx, t) => ~ Supersedes(rows[j], rows[i])
<1>1. \A j : Within(rows[j].vt, NoTime)
  BY DEF Within
<1>2. QED
  BY <1>1, Zenon DEF AsOf, Candidates

\* Every step keeps that reads in progress, and decisions dated at their read,
\* answered their query on a prefix of the table.
LEMMA ReadsStep == TableInv /\ IInv' /\ [Next]_vars => ReadsAnswer'
<1> SUFFICES ASSUME TableInv, IInv', [Next]_vars PROVE ReadsAnswer'
  OBVIOUS
<1> USE RoutingAssumption
<1>0. IInv /\ TypeOK /\ ReadsAnswer
  BY DEF TableInv
<1> DEFINE Read == [used : Record, pin : TxClamps, seen : 0..Len(rows)]
<1>1. /\ now \in Nat /\ Len(rows) \in Nat /\ rows \in Seq(Record)
      /\ \A r \in Routers : reading[r] # Idle => reading[r][1] \in Read
      /\ decisions \subseteq Decision
      /\ reading \in [Routers -> Seq(Read)]
  <2>1. now \in Nat /\ rows \in Seq(Record) /\ reading \in [Routers -> Seq(Read)]
        /\ decisions \subseteq Decision
    BY <1>0 DEF IInv, TypeOK
  <2>2. ASSUME NEW r \in Routers, reading[r] # Idle
        PROVE  reading[r][1] \in Read
    <3>1. reading[r] \in Seq(Read) /\ reading[r] # << >>
      BY <2>1, <2>2 DEF Idle
    <3> HIDE DEF Read
    <3>2. QED
      BY <3>1, HeadTailProperties
  <2>3. Len(rows) \in Nat
    BY <2>1
  <2>4. QED
    BY <2>1, <2>2, <2>3
<1>2. \A r \in Routers : reading[r] # Idle => Answers(reading[r][1], reading[r][1].pin)
  BY <1>0 DEF ReadsAnswer
\* What was read or decided before stays answered, in the table as it grows.
<1>3. ASSUME NEW d, NEW at, d.seen \in 0..Len(rows), Answers(d, at)
      PROVE  Answers(d, at)'
  <2>1. d.seen \in Nat /\ d.seen <= Len(rows)
    BY <1>1, <1>3
  <2>2. QED
    BY <1>0, <1>3, <2>1, TableGrows, AnswersStay
<1>4. ASSUME NEW r \in Routers, reading[r] # Idle, reading'[r] = reading[r]
      PROVE  Answers(reading[r][1], reading[r][1].pin)'
  <2>1. PICK d : d = reading[r][1]
    OBVIOUS
  <2>2. PICK at : at = d.pin
    OBVIOUS
  <2>3. d \in Read
    BY <1>1, <1>4, <2>1
  <2>4. d.seen \in 0..Len(rows)
    BY <2>3
  <2>5. Answers(d, at)
    BY <1>2, <1>4, <2>1, <2>2
  <2>6. Answers(d, at)'
    BY <1>3, <2>4, <2>5
  <2>7. QED
    BY <1>4, <2>1, <2>2, <2>6
<1>5. ASSUME NEW d \in decisions, d.dated
      PROVE  Answers(d, d.at)'
  <2>1. PICK at : at = d.at
    OBVIOUS
  <2>2. d.seen \in 0..Len(rows)
    BY <1>1 DEF Decision
  <2>3. Answers(d, at)
    BY <1>0, <1>5, <2>1 DEF ReadsAnswer
  <2>4. Answers(d, at)'
    BY <1>3, <2>2, <2>3
  <2>5. QED
    BY <2>1, <2>4
<1>6. CASE UNCHANGED <<reading, decisions>>
  BY <1>4, <1>5, <1>6 DEF ReadsAnswer
<1>7. ASSUME NEW r \in Routers, NEW key \in Keys, NEW pin \in 0..now \union {NoTime},
             ReadPolicy(r, key, pin)
      PROVE  ReadsAnswer'
  <2>1. PICK i \in AsOf(rows, key, pin, NoTime) :
          reading' = [reading EXCEPT ![r] = <<[used |-> rows[i], pin |-> pin, seen |-> Len(rows)]>>]
    BY <1>7 DEF ReadPolicy
  <2>2. rows' = rows /\ decisions' = decisions
    BY <1>7 DEF ReadPolicy
  <2>3. PICK d : d = [used |-> rows[i], pin |-> pin, seen |-> Len(rows)]
    OBVIOUS
  <2>4. d.used = rows[i] /\ d.pin = pin /\ d.seen = Len(rows)
    BY <2>3
  <2>5. /\ i \in DOMAIN rows /\ rows[i].key = key /\ Within(rows[i].tx, pin)
        /\ \A j \in DOMAIN rows :
             rows[j].key = key /\ Within(rows[j].tx, pin) => ~ Supersedes(rows[j], rows[i])
    BY AnswersOfAsOf
  <2>6. i <= Len(rows)
    BY <1>1, <2>5
  <2>7. Answers(d, pin)
    BY <2>4, <2>5, <2>6 DEF Answers
  <2>8. Answers(d, pin)'
    BY <2>2, <2>7 DEF Answers
  <2>9. reading'[r] = <<d>> /\ \A u \in Routers \ {r} : reading'[u] = reading[u]
    BY <1>1, <2>1, <2>3
  <2>10. Answers(reading[r][1], reading[r][1].pin)'
    BY <2>4, <2>8, <2>9
  <2>11. \A u \in Routers : reading'[u] # Idle => Answers(reading[u][1], reading[u][1].pin)'
    BY <1>4, <2>9, <2>10
  <2>12. QED
    BY <1>5, <2>2, <2>11 DEF ReadsAnswer
<1>8. ASSUME NEW r \in Routers, NEW decidedAt \in 0..now \union {NoTime}, Decide(r, decidedAt)
      PROVE  ReadsAnswer'
  <2>1. PICK d : d = reading[r][1]
    OBVIOUS
  <2>2. PICK at : at = IF decidedAt = NoTime THEN now ELSE decidedAt
    OBVIOUS
  <2>3. /\ reading[r] # Idle /\ rows' = rows
        /\ decisions' = decisions \union
             {[used |-> d.used, seen |-> d.seen, at |-> at, dated |-> d.pin = decidedAt]}
        /\ reading' = [reading EXCEPT ![r] = Idle]
    BY <1>8, <2>1, <2>2 DEF Decide
  <2>4. d \in Read /\ Answers(d, d.pin)
    BY <1>1, <1>2, <2>1, <2>3
  <2>5. d.used \in Record
    BY <2>4
  <2>6. d.used.tx \in 0..now
    BY <2>5 DEF Record
  <2>7. ASSUME d.pin = decidedAt
        PROVE  Answers(d, at)
    <3>1. CASE decidedAt = NoTime
      <4>1. at = now /\ d.used.tx <= now
        BY <1>1, <2>2, <2>6, <3>1
      <4>2. \A t : Within(t, NoTime)
        BY DEF Within
      <4>3. Within(d.used.tx, at)
        BY <4>1 DEF Within
      <4>4. Answers(d, NoTime)
        BY <2>4, <2>7, <3>1
      <4>5. QED
        BY <4>2, <4>3, <4>4 DEF Answers
    <3>2. CASE decidedAt # NoTime
      BY <2>2, <2>4, <2>7, <3>2
    <3>3. QED
      BY <3>1, <3>2
  <2>8. PICK e : e = [used |-> d.used, seen |-> d.seen, at |-> at, dated |-> d.pin = decidedAt]
    OBVIOUS
  <2>9. e.used = d.used /\ e.seen = d.seen /\ e.at = at /\ e.dated = (d.pin = decidedAt)
    BY <2>8
  <2>10. e.dated => Answers(e, e.at)'
    BY <2>3, <2>7, <2>9 DEF Answers
  <2>11. decisions' = decisions \union {e}
    BY <2>3, <2>8
  <2>12. \A u \in Routers : reading'[u] # Idle => reading'[u] = reading[u] /\ reading[u] # Idle
    BY <1>1, <2>3
  <2>13. QED
    BY <1>4, <1>5, <2>10, <2>11, <2>12 DEF ReadsAnswer
<1>9. ASSUME NEW w \in Writers, WriterStep(w)
      PROVE  ReadsAnswer'
  BY <1>6, <1>9, WritersLeave
<1>10. CASE Tick
  BY <1>6, <1>10 DEF Tick
<1>11. ASSUME NEW d \in decisions, Examine(d)
       PROVE  ReadsAnswer'
  BY <1>6, <1>11 DEF Examine
<1>12. CASE UNCHANGED vars
  BY <1>6, <1>12 DEF vars
<1>13. QED
  BY <1>7, <1>8, <1>9, <1>10, <1>11, <1>12 DEF Next, RouterStep

\* Every step keeps that a bundle shows what its router saw, a record as good,
\* or one appended since.
LEMMA BundlesStep == TableInv /\ IInv' /\ [Next]_vars => BundlesAreExplained'
<1> SUFFICES ASSUME TableInv, IInv', [Next]_vars PROVE BundlesAreExplained'
  OBVIOUS
<1>0. IInv /\ TypeOK /\ ReadsAnswer /\ BundlesAreExplained
  BY DEF TableInv
<1>1. /\ rows \in Seq(AnyRecord)
      /\ \A i \in DOMAIN rows : i \in DOMAIN rows' /\ rows'[i] = rows[i]
  BY <1>0, TableGrows
<1> DEFINE Explained(b) ==
             \/ b.policy = b.decision.used
             \/ \E i \in DOMAIN rows' : i > b.decision.seen /\ rows'[i] = b.policy
             \/ ~ Supersedes(b.policy, b.decision.used) /\ ~ Supersedes(b.decision.used, b.policy)
\* What explained a bundle still does.
<1>2. ASSUME NEW b \in bundles, b.decision.dated
      PROVE  Explained(b)
  BY <1>0, <1>1, <1>2 DEF BundlesAreExplained, Dated
<1>3. ASSUME \A b \in bundles' : b.decision.dated => Explained(b)
      PROVE  BundlesAreExplained'
  BY <1>3 DEF BundlesAreExplained, Dated
<1>4. CASE bundles' = bundles
  BY <1>2, <1>3, <1>4
<1>5. ASSUME NEW d \in decisions, Examine(d)
      PROVE  BundlesAreExplained'
  <2>1. PICK i \in AsOf(rows, d.used.key, d.at, NoTime) :
          bundles' = bundles \union {[decision |-> d, policy |-> rows[i]]}
    BY <1>5 DEF Examine
  <2>2. /\ i \in DOMAIN rows /\ rows[i].key = d.used.key /\ Within(rows[i].tx, d.at)
        /\ \A j \in DOMAIN rows :
             rows[j].key = d.used.key /\ Within(rows[j].tx, d.at) => ~ Supersedes(rows[j], rows[i])
    BY AnswersOfAsOf
  <2>3. rows' = rows
    BY <1>5 DEF Examine
  <2>4. PICK b : b = [decision |-> d, policy |-> rows[i]]
    OBVIOUS
  <2>5. b.decision = d /\ b.policy = rows[i]
    BY <2>4
  <2>6. ASSUME d.dated, ~ (i > d.seen)
        PROVE  ~ Supersedes(rows[i], d.used) /\ ~ Supersedes(d.used, rows[i])
    <3>1. d.seen \in 0..Len(rows) /\ i \in Nat /\ Len(rows) \in Nat
      BY <1>0, <1>1, <2>2 DEF TypeOK, Decision
    <3>2. i <= d.seen
      BY <2>6, <3>1
    <3>3. Answers(d, d.at)
      BY <1>0, <2>6 DEF ReadsAnswer
    <3>4. ~ Supersedes(rows[i], d.used)
      BY <2>2, <3>2, <3>3 DEF Answers
    <3>5. PICK j \in DOMAIN rows : rows[j] = d.used
      BY <3>3 DEF Answers
    <3>6. Within(d.used.tx, d.at)
      BY <3>3 DEF Answers
    <3>7. ~ Supersedes(d.used, rows[i])
      BY <2>2, <3>5, <3>6
    <3>8. QED
      BY <3>4, <3>7
  <2>7. d.dated => Explained(b)
    BY <2>2, <2>3, <2>5, <2>6
  <2>8. bundles' = bundles \union {b}
    BY <2>1, <2>4
  <2>9. \A c \in bundles' : c.decision.dated => Explained(c)
    <3> HIDE DEF Explained
    <3>1. QED
      BY <1>2, <2>5, <2>7, <2>8
  <2>10. QED
    BY <1>3, <2>9
<1>6. ASSUME NEW w \in Writers, WriterStep(w)
      PROVE  BundlesAreExplained'
  BY <1>4, <1>6, WritersLeave
<1>7. ASSUME NEW r \in Routers, RouterStep(r)
      PROVE  BundlesAreExplained'
  BY <1>4, <1>7 DEF RouterStep, ReadPolicy, Decide
<1>8. CASE Tick
  BY <1>4, <1>8 DEF Tick
<1>9. CASE UNCHANGED vars
  BY <1>4, <1>9 DEF vars
<1>10. QED
  BY <1>5, <1>6, <1>7, <1>8, <1>9 DEF Next

------------------------------------------------------------------------------
\* The table holds what it should, with ids that are never shared, corrections
\* that come later than what they correct, and reads that answered their query.
THEOREM TableInvariance == Spec => []TableInv
<1>1. Init => TableInv
  <2> SUFFICES ASSUME Init PROVE TableInv
    OBVIOUS
  <2> USE RoutingAssumption DEF Init
  <2>1. IInv
    BY DEF IInv, HeldIsStamped, AnyRecord
  <2>2. TypeOK
    <3>1. Times = 0..MaxTime /\ 0 \in Times /\ 0 \in 0..MaxRecords
      BY DEF Times
    <3>2. \A S : << >> \in Seq(S)
      BY EmptySeq
    <3>3. QED
      BY <3>1, <3>2 DEF TypeOK, Idle
  <2>3. \A w \in Writers : Unstored(w) = << >>
    BY DEF Unstored
  <2>4. IdsApart /\ CorrectionsAreLater
    BY <2>3 DEF IdsApart, CorrectionsAreLater
  <2>5. ReadsAnswer /\ BundlesAreExplained
    BY DEF ReadsAnswer, BundlesAreExplained, Dated
  <2>6. QED
    BY <2>1, <2>2, <2>4, <2>5 DEF TableInv
<1>2. TableInv /\ IInv' /\ [Next]_vars => TableInv'
  <2>1. TableInv => IInv
    BY DEF TableInv
  <2>2. QED
    BY <2>1, TypeStep, ApartStep, CorrectionsStep, ReadsStep, BundlesStep DEF TableInv
<1>3. QED
  BY <1>1, <1>2, Invariance, PTL DEF Spec

\* Types are kept: ids are unique in the table, whichever writers build and
\* append in whatever order, and a correction's parent is in the table before it.
THEOREM TypeCorrect == Spec => []TypeOK
<1>1. TableInv => TypeOK
  BY DEF TableInv
<1>2. QED
  BY <1>1, TableInvariance, PTL

\* No as-of query, at any clamps, answers with a record one of whose
\* corrections it can see: the order of as_of needs no look at the parents.
THEOREM CorrectionsAnswer == Spec => []CorrectionsSupersede
<1>1. TableInv => CorrectionsSupersede
  <2> SUFFICES ASSUME TableInv,
                      NEW key \in Keys, NEW t \in TxClamps, NEW v \in VtClamps,
                      NEW i \in AsOf(rows, key, t, v), NEW j \in DOMAIN rows,
                      rows[j].parent = rows[i].id, Within(rows[j].tx, t)
               PROVE  FALSE
    BY DEF CorrectionsSupersede
  <2>1. i \in Candidates(rows, key, t, v)
    BY DEF AsOf
  <2>2. i \in DOMAIN rows /\ rows[i].key = key /\ Within(rows[i].vt, v)
    BY <2>1 DEF Candidates
  <2>3. rows[j].key = rows[i].key /\ rows[j].vt = rows[i].vt /\ rows[j].tx > rows[i].tx
    BY <2>2 DEF TableInv, CorrectionsAreLater, CorrectsLater
  <2>4. j \in Candidates(rows, key, t, v)
    BY <2>2, <2>3 DEF Candidates
  <2>5. ~ Supersedes(rows[j], rows[i])
    BY <2>4 DEF AsOf
  <2>6. QED
    BY <2>3, <2>5 DEF Supersedes
<1>2. QED
  BY <1>1, TableInvariance, PTL

\* An examiner's bundle never misses a version its router saw, for any
\* interleaving of publications, corrections, reads, decisions and reloads.
THEOREM BundlesExplained == Spec => []BundlesAreExplained
<1>1. TableInv => BundlesAreExplained
  BY DEF TableInv
<1>2. QED
  BY <1>1, TableInvariance, PTL
==============================================================================
