----------------------------- MODULE PolicyRouting -----------------------------
(***************************************************************************)
(* Policy versions published and corrected in a bitemporal store, routers  *)
(* that decide by them, and examiner bundles that reload the policy of a   *)
(* decision.  The store is the SQLite backend: each of its operations is   *)
(* atomic under its lock.  A record is stamped when it is built and        *)
(* appended after; a router reads the policy and takes the time of its     *)
(* decision after.  Transaction times are the clock's, not the caller's.   *)
(***************************************************************************)
EXTENDS BitemporalStore, FiniteSets, TLC

CONSTANTS
  Writers, Routers,
  ValidTimes,  \* from which a version may be valid
  MaxTime, MaxRecords, MaxDecisions  \* bounds of the model

ASSUME RoutingAssumption ==
  /\ MaxTime \in Nat /\ MaxRecords \in Nat /\ MaxDecisions \in Nat
  /\ NoTime \notin Nat /\ ValidTimes \subseteq Nat

VARIABLES
  rows,     \* the table, in the order of the appends
  now,      \* the clock
  held,     \* what each writer has stamped and not yet appended
  issued,   \* records built so far: their ids
  reading,  \* what each router has read and not yet decided on
  decisions, bundles

vars == <<rows, now, held, issued, reading, decisions, bundles>>

Idle == << >>

Init ==
  /\ rows = << >> /\ now = 0 /\ issued = 0
  /\ held = [w \in Writers |-> Idle]
  /\ reading = [r \in Routers |-> Idle]
  /\ decisions = {} /\ bundles = {}

Tick ==
  /\ now < MaxTime /\ now' = now + 1
  /\ UNCHANGED <<rows, held, issued, reading, decisions, bundles>>

------------------------------------------------------------------------------
\* A writer builds records, stamped with the time, and holds them.
Build(w, new) ==
  /\ held[w] = Idle /\ issued + Len(new) <= MaxRecords
  /\ held' = [held EXCEPT ![w] = <<[since |-> now, new |-> new]>>]
  /\ issued' = issued + Len(new)
  /\ UNCHANGED <<rows, now, reading, decisions, bundles>>

\* The n-th record to build.
New(n, key, from, parent) ==
  [id |-> issued + n, key |-> key, vt |-> from, tx |-> now, parent |-> parent]

\* PolicyRegistry.publish: a version valid from any time, also a later one.
Publish(w, key, from) == Build(w, <<New(1, key, from, 0)>>)

\* batch_append: several records settle at one transaction time.
BatchAppend(w, key, from, key2, from2) ==
  Build(w, <<New(1, key, from, 0), New(2, key2, from2, 0)>>)

\* Faulty variants of Correct: a correction may be as old as what it corrects;
\* it takes over the transaction time together with the valid time.
CorrectAtOnce(w, i) == Build(w, <<New(1, rows[i].key, rows[i].vt, rows[i].id)>>)

CorrectInPlace(w, i) ==
  Build(w, <<[New(1, rows[i].key, rows[i].vt, rows[i].id) EXCEPT !.tx = rows[i].tx]>>)

\* append_correction of an appended record: the same key and valid time, and
\* a transaction time that must be strictly later.
Correct(w, i) ==
  /\ rows[i].tx < now
  /\ Build(w, <<New(1, rows[i].key, rows[i].vt, rows[i].id)>>)

\* Faulty variant of Store: the writer keeps what it has appended.
StoreTwice(w) ==
  /\ held[w] # Idle
  /\ rows' = rows \o held[w][1].new
  /\ UNCHANGED <<held, now, issued, reading, decisions, bundles>>

\* append_many commits what the writer holds in one transaction.
Store(w) ==
  /\ held[w] # Idle
  /\ rows' = rows \o held[w][1].new
  /\ held' = [held EXCEPT ![w] = Idle]
  /\ UNCHANGED <<now, issued, reading, decisions, bundles>>

------------------------------------------------------------------------------
\* AgentRouter.route reads the policy, as of a pinned time or as it is; with
\* none to read it raises LookupError.
ReadPolicy(r, key, pin) ==
  /\ reading[r] = Idle /\ Cardinality(decisions) < MaxDecisions
  /\ \E i \in AsOf(rows, key, pin, NoTime) :
       reading' = [reading EXCEPT ![r] = <<[used |-> rows[i], pin |-> pin, seen |-> Len(rows)]>>]
  /\ UNCHANGED <<rows, now, held, issued, decisions, bundles>>

\* The decision it makes by that policy, dated as the caller says or, if it
\* says nothing, by the clock.
Decide(r, decidedAt) ==
  /\ reading[r] # Idle
  /\ LET d == reading[r][1]
         at == IF decidedAt = NoTime THEN now ELSE decidedAt
     IN  decisions' = decisions \union
           {[used |-> d.used, seen |-> d.seen, at |-> at, dated |-> d.pin = decidedAt]}
  /\ reading' = [reading EXCEPT ![r] = Idle]
  /\ UNCHANGED <<rows, now, held, issued, bundles>>

\* Faulty variant of Examine: it reads the policy that is current.
ExamineLatest(d) ==
  /\ \E i \in AsOf(rows, d.used.key, NoTime, NoTime) :
       bundles' = bundles \union {[decision |-> d, policy |-> rows[i]]}
  /\ UNCHANGED <<rows, now, held, issued, reading, decisions>>

\* ExaminerBundle.build reloads the policy as of the decision's time.
Examine(d) ==
  /\ \E i \in AsOf(rows, d.used.key, d.at, NoTime) :
       bundles' = bundles \union {[decision |-> d, policy |-> rows[i]]}
  /\ UNCHANGED <<rows, now, held, issued, reading, decisions>>

WriterStep(w) ==
  \/ \E key \in Keys, from \in ValidTimes : Publish(w, key, from)
  \/ \E key, key2 \in Keys, from, from2 \in ValidTimes : BatchAppend(w, key, from, key2, from2)
  \/ \E i \in DOMAIN rows : Correct(w, i)
  \/ Store(w)

RouterStep(r) ==
  \/ \E key \in Keys, pin \in 0..now \union {NoTime} : ReadPolicy(r, key, pin)
  \/ \E decidedAt \in 0..now \union {NoTime} : Decide(r, decidedAt)

Next ==
  \/ Tick
  \/ \E w \in Writers : WriterStep(w)
  \/ \E r \in Routers : RouterStep(r)
  \/ \E d \in decisions : Examine(d)

Spec == Init /\ [][Next]_vars

------------------------------------------------------------------------------
Times == 0..MaxTime
TxClamps == Times \union {NoTime}
VtClamps == ValidTimes \union {NoTime}

Record == [id : 1..issued, key : Keys, vt : ValidTimes, tx : 0..now, parent : 0..issued]

Decision == [used : Record, seen : 0..Len(rows), at : 0..now, dated : BOOLEAN]

TypeOK ==
  /\ rows \in Seq(Record) /\ now \in Times /\ issued \in 0..MaxRecords
  /\ held \in [Writers -> Seq([since : 0..now, new : Seq(Record)])]
  /\ reading \in [Routers -> Seq([used : Record, pin : TxClamps, seen : 0..Len(rows)])]
  /\ decisions \subseteq Decision
  /\ bundles \subseteq [decision : Decision, policy : Record]
  \* record_id is the primary key, and a parent is a record in the table.
  /\ \A i, j \in DOMAIN rows : rows[i].id = rows[j].id => i = j
  /\ \A i \in DOMAIN rows :
       IsCorrection(rows[i]) => \E j \in 1..(i - 1) : rows[j].id = rows[i].parent

\* The past does not change: once the clock has moved on and no writer still
\* holds what it began to build by then, no publication, batch or correction alters
\* any as-of answer for that time.
PastIsStable ==
  [][\A t \in 0..(now - 1) :
       (\A w \in Writers : held[w] # Idle => held[w][1].since > t)
         => \A key \in Keys, v \in VtClamps : AsOf(rows', key, t, v) = AsOf(rows, key, t, v)]_vars

\* Corrections supersede: no as-of query answers with a record one of whose
\* corrections it can see, also when corrections are corrected and several
\* share a transaction time.
CorrectionsSupersede ==
  \A key \in Keys, t \in TxClamps, v \in VtClamps :
    \A i \in AsOf(rows, key, t, v) :
      \A j \in DOMAIN rows : rows[j].parent = rows[i].id => ~ Within(rows[j].tx, t)

\* A view leaks nothing from after its clamps: appending records it may not
\* see changes none of its answers, whatever clamps its caller gives.
ViewsDoNotLookAhead ==
  [][rows' # rows =>
     \A viewTx \in TxClamps, viewVt \in VtClamps :
       (\A i \in (Len(rows) + 1)..Len(rows') :
          ~ (Within(rows'[i].tx, viewTx) /\ Within(rows'[i].vt, viewVt)))
         => \A key \in Keys, t \in TxClamps, v \in VtClamps :
              ViewAsOf(rows', viewTx, viewVt, key, t, v)
                = ViewAsOf(rows, viewTx, viewVt, key, t, v)]_vars

\* Decisions made live, or replayed with the read and the decision pinned to
\* one time: the two arguments of route that a bundle relies on.
Dated == {b \in bundles : b.decision.dated}

\* A bundle shows the policy its decision was made by, or a record that was
\* appended after the router had read the policy, or one the query cannot tell
\* from it: the examiner never misses a version the router saw.
BundlesAreExplained ==
  \A b \in Dated :
    \/ b.policy = b.decision.used
    \/ \E i \in DOMAIN rows : i > b.decision.seen /\ rows[i] = b.policy
    \/ ~ Supersedes(b.policy, b.decision.used) /\ ~ Supersedes(b.decision.used, b.policy)

\* The documented claim: clamped to the decision's time, the examiner reads the
\* rules that were active then, by construction.  False when a version lands
\* between the router's read and the time of the decision, or lands late with
\* an earlier stamp: the bundle then shows a policy newer than the one used.
BundlesShowPolicyUsed ==
  \A b \in Dated : ~ Supersedes(b.policy, b.decision.used)

\* For TLC: writers are interchangeable.
WritersAlike == Permutations(Writers)
==============================================================================
