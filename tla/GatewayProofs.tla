----------------------------- MODULE GatewayProofs -----------------------------
(***************************************************************************)
(* The quota gateway, for any keys, limits, window spans, callers and      *)
(* pruning bounds: the limit holds in every window a key ever had, no call *)
(* is admitted before the latest cooldown of its key is over, and stale    *)
(* windows do not survive the scan past the hard bound.                    *)
(***************************************************************************)
EXTENDS Gateway, FiniteSetTheorems, TLAPS

\* A caller in invoke has a key, and one between its clock reading and the lock
\* has a reading no older than a thread may hold.
CallersAreCurrent ==
  \A c \in Callers :
    /\ pc[c] # "idle" => key[c] \in Keys
    /\ pc[c] \in {"acquire", "mark"} => now <= ts[c] + Stall

\* Window w of key k is the last: what was admitted in it is among those it
\* counts, and the windows before it are over when it begins.
Last(k, w) ==
  \A x \in admitted[k] :
    (x.start = w.start /\ x.nth <= w.count) \/ x.start + Span[k] <= w.start

\* The window the store has of a key is its last.
StoredIsLast ==
  \A k \in DOMAIN windows : windows[k].start <= now /\ Last(k, windows[k])

\* Every window of a key the store has none of is over for each clock reading a
\* thread can still hold.
ForgottenIsOver ==
  \A k \in Keys \ DOMAIN windows : \A x \in admitted[k] :
    x.start + Span[k] + Stall <= now

\* The deadline the store has of a key is, but for the age of one reading, the
\* latest; without one the latest has passed, but for as much.
CooldownsAreLatest ==
  \A k \in Keys :
    /\ promised[k] <= now + CooldownSeconds
    /\ k \in DOMAIN cooldowns => promised[k] <= cooldowns[k] + Stall
    /\ k \notin DOMAIN cooldowns => promised[k] <= now + Stall

WindowsAreFinite == IsFiniteSet(DOMAIN windows)

IInv ==
  /\ TypeOK /\ CallersAreCurrent /\ StoredIsLast /\ ForgottenIsOver
  /\ CooldownsAreLatest /\ WindowsHoldTheLimit /\ WindowsAreFinite

------------------------------------------------------------------------------
\* The scan drops windows that began two spans before the reading and deadlines
\* before it, and changes nothing else; between scans the counter stays below
\* its bound.
LEMMA PruneFacts ==
  ASSUME NEW w, NEW d, NEW at, StoreAndPrune(w, d, at), QuotaTypeOK
  PROVE  /\ DOMAIN windows' \subseteq DOMAIN w
         /\ \A k \in DOMAIN windows' : windows'[k] = w[k]
         /\ \A k \in DOMAIN w \ DOMAIN windows' : w[k].start < at - 2 * Span[k]
         /\ DOMAIN cooldowns' \subseteq DOMAIN d
         /\ \A k \in DOMAIN cooldowns' : cooldowns'[k] = d[k]
         /\ \A k \in DOMAIN d \ DOMAIN cooldowns' : d[k] < at
         /\ sincePrune' \in Nat /\ sincePrune' < PruneEvery
<1> DEFINE n == Cardinality(DOMAIN w)
           late == {k \in DOMAIN d : d[k] < at}
<1>1. CASE ScanDue(n)
  <2>1. /\ windows' = Without(w, StaleWindows(w, at))
        /\ cooldowns' = Without(d, late) /\ sincePrune' = 0
    BY <1>1 DEF StoreAndPrune
  <2>2. /\ DOMAIN windows' = DOMAIN w \ StaleWindows(w, at)
        /\ \A k \in DOMAIN windows' : windows'[k] = w[k]
    BY <2>1 DEF Without, Restrict
  <2>3. /\ DOMAIN cooldowns' = DOMAIN d \ late
        /\ \A k \in DOMAIN cooldowns' : cooldowns'[k] = d[k]
    BY <2>1 DEF Without, Restrict
  <2>4. sincePrune' \in Nat /\ sincePrune' < PruneEvery
    BY <2>1, QuotaAssumption
  <2>5. QED
    BY <2>2, <2>3, <2>4 DEF StaleWindows
<1>2. CASE ~ ScanDue(n)
  <2>1. /\ windows' = w /\ cooldowns' = d
        /\ sincePrune' = IF n > PruneThreshold THEN sincePrune + 1 ELSE sincePrune
    BY <1>2 DEF StoreAndPrune
  <2>2. n > PruneThreshold => ~ (sincePrune + 1 >= PruneEvery)
    BY <1>2 DEF ScanDue
  <2>3. sincePrune' \in Nat /\ sincePrune' < PruneEvery
    BY <2>1, <2>2, QuotaAssumption DEF QuotaTypeOK
  <2>4. QED
    BY <2>1, <2>3
<1>3. QED
  BY <1>1, <1>2

\* The window acquire counts in is well typed and the last of its key: the
\* stored one, or one that begins when all others are over.
LEMMA WindowFollows ==
  ASSUME IInv, NEW c \in Callers, pc[c] = "acquire"
  PROVE  /\ key[c] \in Keys /\ ts[c] \in 0..now /\ now \in Nat
         /\ WindowAt(key[c], ts[c]) \in [start : 0..now, count : 0..Limit[key[c]]]
         /\ Last(key[c], WindowAt(key[c], ts[c]))
<1> DEFINE k == key[c]
           w == WindowAt(k, ts[c])
<1> USE QuotaAssumption, GatewayAssumption
<1>1. /\ k \in Keys /\ now \in Nat /\ ts[c] \in 0..now /\ now <= ts[c] + Stall
      /\ Span[k] \in Nat /\ Limit[k] \in Nat /\ Stall \in Nat
      /\ \A x \in admitted[k] : x.start \in Nat
  BY DEF IInv, TypeOK, CallersAreCurrent
<1>2. CASE k \in DOMAIN windows /\ ts[c] - windows[k].start < Span[k]
  <2>1. w = windows[k]
    BY <1>2 DEF WindowAt
  <2>2. /\ windows[k] \in [start : Nat, count : 0..Limit[k]]
        /\ windows[k].start <= now /\ Last(k, windows[k])
    BY <1>2 DEF IInv, TypeOK, QuotaTypeOK, StoredIsLast
  <2>3. QED
    BY <1>1, <2>1, <2>2
<1>3. CASE ~ (k \in DOMAIN windows /\ ts[c] - windows[k].start < Span[k])
  <2>1. w = [start |-> ts[c], count |-> 0]
    BY <1>3 DEF WindowAt
  <2>2. w \in [start : 0..now, count : 0..Limit[k]]
    BY <1>1, <2>1
  <2>3. \A x \in admitted[k] : x.start + Span[k] <= ts[c]
    <3>1. CASE k \in DOMAIN windows
      <4>1. windows[k].start \in Nat /\ Last(k, windows[k])
        BY <3>1 DEF IInv, TypeOK, QuotaTypeOK, StoredIsLast
      <4>2. \A x \in admitted[k] : x.start <= windows[k].start
        BY <1>1, <4>1 DEF Last
      <4>3. windows[k].start + Span[k] <= ts[c]
        BY <1>1, <1>3, <3>1, <4>1
      <4>4. QED
        BY <1>1, <4>1, <4>2, <4>3
    <3>2. CASE k \notin DOMAIN windows
      <4>1. \A x \in admitted[k] : x.start + Span[k] + Stall <= now
        BY <1>1, <3>2 DEF IInv, ForgottenIsOver
      <4>2. QED
        BY <1>1, <4>1
    <3>3. QED
      BY <3>1, <3>2
  <2>4. QED
    BY <1>1, <2>1, <2>2, <2>3 DEF Last
<1>4. QED
  BY <1>2, <1>3

\* Storing the last window of a key, and dropping what the scan drops, leaves of
\* each key its last window or none that a reading can still fall into.
LEMMA LastIsStored ==
  ASSUME IInv, NEW t \in Nat, t <= now, now' = now,
         NEW k \in Keys, NEW v \in [start : 0..now, count : 0..Limit[k]],
         Last(k, v)', admitted' \in [Keys -> SUBSET [start : 0..now, nth : Nat]],
         \A j \in Keys \ {k} : admitted'[j] = admitted[j],
         DOMAIN windows' \subseteq DOMAIN Put(windows, k, v),
         \A j \in DOMAIN windows' : windows'[j] = Put(windows, k, v)[j],
         \A j \in DOMAIN Put(windows, k, v) \ DOMAIN windows' :
           Put(windows, k, v)[j].start < t - 2 * Span[j]
  PROVE  /\ DOMAIN windows' \subseteq Keys
         /\ \A j \in DOMAIN windows' : windows'[j] \in [start : Nat, count : 0..Limit[j]]
         /\ StoredIsLast' /\ ForgottenIsOver' /\ WindowsAreFinite'
<1> DEFINE W == Put(windows, k, v)
<1> USE QuotaAssumption, GatewayAssumption
<1>1. now \in Nat /\ Stall \in Nat
  BY DEF IInv, TypeOK
<1>2. /\ DOMAIN W = DOMAIN windows \union {k} /\ W[k] = v
      /\ \A j \in DOMAIN windows \ {k} : W[j] = windows[j]
  BY DEF Put
<1>3. DOMAIN windows \subseteq Keys /\ IsFiniteSet(DOMAIN windows)
  BY DEF IInv, TypeOK, QuotaTypeOK, WindowsAreFinite
<1>4. ASSUME NEW j \in DOMAIN W
      PROVE  /\ W[j] \in [start : Nat, count : 0..Limit[j]] /\ W[j].start <= now
             /\ \A x \in admitted'[j] :
                  (x.start = W[j].start /\ x.nth <= W[j].count) \/ x.start + Span[j] <= W[j].start
  <2>1. CASE j = k
    <3>1. \A x \in admitted'[k] :
            (x.start = v.start /\ x.nth <= v.count) \/ x.start + Span[k] <= v.start
      BY DEF Last
    <3>2. QED
      BY <1>1, <1>2, <2>1, <3>1
  <2>2. CASE j # k
    <3>1. W[j] = windows[j] /\ admitted'[j] = admitted[j] /\ j \in DOMAIN windows
      BY <1>2, <1>3, <2>2
    <3>2. /\ windows[j] \in [start : Nat, count : 0..Limit[j]]
          /\ windows[j].start <= now /\ Last(j, windows[j])
      BY <3>1 DEF IInv, TypeOK, QuotaTypeOK, StoredIsLast
    <3>3. QED
      BY <3>1, <3>2 DEF Last
  <2>3. QED
    BY <2>1, <2>2
<1> HIDE DEF W
<1>5. DOMAIN windows' \subseteq Keys /\ WindowsAreFinite'
  <2>1. IsFiniteSet(DOMAIN W)
    BY <1>2, <1>3, FS_AddElement
  <2>2. QED
    BY <1>1, <1>2, <1>3, <2>1, FS_Subset DEF WindowsAreFinite, W
<1>6. /\ \A j \in DOMAIN windows' : windows'[j] \in [start : Nat, count : 0..Limit[j]]
      /\ StoredIsLast'
  BY <1>4 DEF StoredIsLast, Last, W
<1>7. ForgottenIsOver'
  <2> SUFFICES ASSUME NEW j \in Keys \ DOMAIN windows', NEW x \in admitted'[j]
               PROVE  x.start + Span[j] + Stall <= now
    BY DEF ForgottenIsOver
  <2>0. x.start \in Nat /\ Span[j] \in Nat /\ Stall <= Span[j]
    OBVIOUS
  <2>1. CASE j \in DOMAIN W
    <3>1. W[j].start < t - 2 * Span[j]
      BY <2>1 DEF W
    <3>2. W[j].start \in Nat /\ x.start <= W[j].start
      BY <1>4, <2>0, <2>1
    <3>3. QED
      BY <1>1, <2>0, <3>1, <3>2
  <2>2. CASE j \notin DOMAIN W
    <3>1. j # k /\ j \notin DOMAIN windows
      BY <1>2, <2>2
    <3>2. x \in admitted[j]
      BY <3>1
    <3>3. QED
      BY <3>1, <3>2 DEF IInv, ForgottenIsOver
  <2>3. QED
    BY <2>1, <2>2
<1>8. QED
  BY <1>5, <1>6, <1>7

\* A deadline dropped by acquire or by the scan has passed by its reading.
LEMMA LatestIsKept ==
  ASSUME IInv, NEW t \in Nat, t <= now, now' = now, promised' = promised,
         DOMAIN cooldowns' \subseteq DOMAIN cooldowns,
         \A j \in DOMAIN cooldowns' : cooldowns'[j] = cooldowns[j],
         \A j \in DOMAIN cooldowns \ DOMAIN cooldowns' : cooldowns[j] <= t
  PROVE  /\ CooldownsAreLatest'
         /\ DOMAIN cooldowns' \subseteq Keys
         /\ \A j \in DOMAIN cooldowns' : cooldowns'[j] \in Nat
<1> USE QuotaAssumption, GatewayAssumption
<1>1. /\ DOMAIN cooldowns \subseteq Keys /\ now \in Nat /\ Stall \in Nat
      /\ \A j \in DOMAIN cooldowns : cooldowns[j] \in Nat
      /\ \A j \in Keys : promised[j] \in Nat
  BY DEF IInv, TypeOK, QuotaTypeOK
<1>2. ASSUME NEW j \in Keys, j \in DOMAIN cooldowns, j \notin DOMAIN cooldowns'
      PROVE  promised[j] <= now + Stall
  <2>1. cooldowns[j] <= t /\ promised[j] <= cooldowns[j] + Stall
    BY <1>2 DEF IInv, CooldownsAreLatest
  <2>2. QED
    BY <1>1, <1>2, <2>1
<1>3. CooldownsAreLatest'
  BY <1>1, <1>2 DEF IInv, CooldownsAreLatest
<1>4. QED
  BY <1>1, <1>3

------------------------------------------------------------------------------
\* Callers move, and the store and its histories stay.
LEMMA CallersStep ==
  ASSUME IInv, NEW c \in Callers,
         UNCHANGED <<quotaVars, now, admitted, promised>>, calls' \in 0..MaxCalls,
         \A d \in Callers \ {c} : pc'[d] = pc[d] /\ key'[d] = key[d] /\ ts'[d] = ts[d],
         pc' \in [Callers -> {"idle", "cap", "acquire", "run", "mark"}],
         key' \in [Callers -> Keys \union {NoKey}], ts' \in [Callers -> 0..now],
         pc'[c] # "idle" => key'[c] \in Keys,
         pc'[c] \in {"acquire", "mark"} => ts'[c] = now
  PROVE  IInv'
<1> USE DEF IInv
<1>1. TypeOK'
  BY DEF TypeOK, QuotaTypeOK, quotaVars
<1>2. CallersAreCurrent'
  <2>1. now \in Nat /\ Stall \in Nat
    BY GatewayAssumption DEF TypeOK
  <2>2. QED
    BY <2>1 DEF CallersAreCurrent
<1>3. StoredIsLast' /\ ForgottenIsOver' /\ WindowsAreFinite' /\ WindowsHoldTheLimit'
  BY DEF StoredIsLast, ForgottenIsOver, WindowsAreFinite, Last, WindowsHoldTheLimit, quotaVars
<1>4. CooldownsAreLatest'
  BY DEF CooldownsAreLatest, quotaVars
<1>5. QED
  BY <1>1, <1>2, <1>3, <1>4

\* The clock advances: what is over stays over.
LEMMA TickStep == IInv /\ Tick => IInv'
<1> SUFFICES ASSUME IInv, Tick PROVE IInv'
  OBVIOUS
<1> USE QuotaAssumption, GatewayAssumption DEF IInv
<1>1. /\ now \in Nat /\ now' = now + 1 /\ now' \in 0..MaxTime
      /\ UNCHANGED <<windows, cooldowns, sincePrune, pc, key, ts, calls, admitted, promised>>
  BY DEF Tick, TypeOK, quotaVars, callerVars, history
<1>2. TypeOK'
  <2>1. 0..now \subseteq 0..now'
    BY <1>1
  <2>2. ts' \in [Callers -> 0..now']
    BY <1>1, <2>1 DEF TypeOK
  <2>3. admitted' \in [Keys -> SUBSET [start : 0..now', nth : Nat]]
    BY <1>1, <2>1 DEF TypeOK
  <2>4. QED
    BY <1>1, <2>2, <2>3 DEF TypeOK, QuotaTypeOK
<1>3. CallersAreCurrent'
  <2>1. ASSUME NEW c \in Callers, pc[c] \in {"acquire", "mark"}
        PROVE  now + 1 <= ts[c] + Stall
    <3>1. now - ts[c] < Stall /\ ts[c] \in Nat
      BY <1>1, <2>1 DEF Tick, TypeOK
    <3>2. QED
      BY <1>1, <3>1
  <2>2. QED
    BY <1>1, <2>1 DEF CallersAreCurrent
<1>4. StoredIsLast'
  <2>1. \A k \in DOMAIN windows : windows[k].start \in Nat
    BY DEF TypeOK, QuotaTypeOK
  <2>2. QED
    BY <1>1, <2>1 DEF StoredIsLast, Last
<1>5. ForgottenIsOver'
  <2>1. \A k \in Keys : Span[k] \in Nat /\ \A x \in admitted[k] : x.start \in Nat
    BY <1>1 DEF TypeOK
  <2>2. QED
    BY <1>1, <2>1 DEF ForgottenIsOver
<1>6. WindowsAreFinite' /\ WindowsHoldTheLimit'
  BY <1>1 DEF WindowsAreFinite, WindowsHoldTheLimit
<1>7. CooldownsAreLatest'
  <2>1. \A k \in Keys : promised[k] \in Nat
    BY DEF TypeOK
  <2>2. QED
    BY <1>1, <2>1 DEF CooldownsAreLatest
<1>8. QED
  BY <1>2, <1>3, <1>4, <1>5, <1>6, <1>7

\* A call is admitted in the last window of its key, as one more than it counts.
LEMMA AllowStep == ASSUME IInv, NEW c \in Callers, AcquireAllows(c) PROVE IInv'
<1> DEFINE k == key[c]
           w == WindowAt(k, ts[c])
           v == [w EXCEPT !.count = @ + 1]
           x == [start |-> w.start, nth |-> w.count + 1]
           W == Put(windows, k, v)
           D == Without(cooldowns, {k})
<1> USE QuotaAssumption, GatewayAssumption
<1>1. /\ pc[c] = "acquire" /\ now' = now /\ key' = key /\ calls' = calls
      /\ promised' = promised
      /\ pc' = [pc EXCEPT ![c] = "run"] /\ ts' = [ts EXCEPT ![c] = 0]
      /\ admitted' = [admitted EXCEPT ![k] = @ \union {x}]
      /\ ~ CoolingDown(k, ts[c]) /\ w.count < Limit[k] /\ StoreAndPrune(W, D, ts[c])
  BY DEF AcquireAllows, Admit
<1>2. /\ k \in Keys /\ ts[c] \in 0..now /\ now \in Nat
      /\ w \in [start : 0..now, count : 0..Limit[k]] /\ Last(k, w)
  BY <1>1, WindowFollows
<1> HIDE DEF w
<1>3. /\ v \in [start : 0..now, count : 0..Limit[k]] /\ v.start = w.start
      /\ v.count = w.count + 1 /\ v.count <= Limit[k]
      /\ x \in [start : 0..now, nth : Nat]
  BY <1>1, <1>2
<1>4. /\ admitted' \in [Keys -> SUBSET [start : 0..now, nth : Nat]]
      /\ admitted'[k] = admitted[k] \union {x}
      /\ \A j \in Keys \ {k} : admitted'[j] = admitted[j]
  BY <1>1, <1>2, <1>3 DEF IInv, TypeOK
<1>5. \A y \in admitted'[k] :
        (y.start = v.start /\ y.nth <= v.count) \/ y.start + Span[k] <= v.start
  BY <1>2, <1>3, <1>4 DEF Last, IInv, TypeOK
<1>6. QuotaTypeOK
  BY DEF IInv, TypeOK
<1>7. /\ DOMAIN windows' \subseteq DOMAIN W
      /\ \A j \in DOMAIN windows' : windows'[j] = W[j]
      /\ \A j \in DOMAIN W \ DOMAIN windows' : W[j].start < ts[c] - 2 * Span[j]
      /\ DOMAIN cooldowns' \subseteq DOMAIN D
      /\ \A j \in DOMAIN cooldowns' : cooldowns'[j] = D[j]
      /\ \A j \in DOMAIN D \ DOMAIN cooldowns' : D[j] < ts[c]
      /\ sincePrune' \in Nat /\ sincePrune' < PruneEvery
  BY <1>1, <1>6, PruneFacts
<1> PICK t \in Nat : t = ts[c] /\ t <= now
  BY <1>2
<1> PICK kk \in Keys : kk = k
  BY <1>2
<1> PICK vv \in [start : 0..now, count : 0..Limit[kk]] : vv = v
  BY <1>3
<1>8. /\ DOMAIN windows' \subseteq Keys
      /\ \A j \in DOMAIN windows' : windows'[j] \in [start : Nat, count : 0..Limit[j]]
      /\ StoredIsLast' /\ ForgottenIsOver' /\ WindowsAreFinite'
  <2>1. Last(kk, vv)'
    BY <1>5 DEF Last
  <2>2. QED
    BY <1>1, <1>4, <1>7, <2>1, LastIsStored
<1>9. /\ DOMAIN D = DOMAIN cooldowns \ {k}
      /\ \A j \in DOMAIN D : D[j] = cooldowns[j]
  BY DEF Without, Restrict
<1>10. /\ CooldownsAreLatest' /\ DOMAIN cooldowns' \subseteq Keys
       /\ \A j \in DOMAIN cooldowns' : cooldowns'[j] \in Nat
  <2>1. \A j \in DOMAIN cooldowns : cooldowns[j] \in Nat
    BY <1>6 DEF QuotaTypeOK
  <2>2. k \in DOMAIN cooldowns => cooldowns[k] <= t
    BY <1>1, <1>2, <2>1 DEF CoolingDown
  <2> HIDE DEF D
  <2>3. \A j \in DOMAIN cooldowns \ DOMAIN cooldowns' : cooldowns[j] <= t
    BY <1>7, <1>9, <2>1, <2>2
  <2>4. /\ DOMAIN cooldowns' \subseteq DOMAIN cooldowns
        /\ \A j \in DOMAIN cooldowns' : cooldowns'[j] = cooldowns[j]
    BY <1>7, <1>9
  <2>5. QED
    BY <1>1, <2>3, <2>4, LatestIsKept
<1>11. TypeOK'
  <2>1. QuotaTypeOK'
    BY <1>7, <1>8, <1>10 DEF QuotaTypeOK
  <2>2. QED
    BY <1>1, <1>2, <1>4, <2>1 DEF IInv, TypeOK
<1>12. CallersAreCurrent'
  BY <1>1, <1>2 DEF IInv, TypeOK, CallersAreCurrent
<1>13. WindowsHoldTheLimit'
  <2>1. \A y \in admitted'[k] : y.nth <= Limit[k]
    BY <1>2, <1>3, <1>4 DEF IInv, WindowsHoldTheLimit
  <2>2. \A y \in admitted'[k] : y.start = x.start \/ x.start >= y.start + Span[k]
    BY <1>2, <1>3, <1>4, <1>5 DEF IInv, TypeOK
  <2>3. QED
    BY <1>2, <1>4, <2>1, <2>2 DEF IInv, WindowsHoldTheLimit
<1>14. QED
  BY <1>8, <1>10, <1>11, <1>12, <1>13 DEF IInv

\* A denial admits nobody: at most it stores the last window of the key.
LEMMA DenyStep == ASSUME IInv, NEW c \in Callers, AcquireDenies(c) PROVE IInv'
<1> DEFINE k == key[c]
           w == WindowAt(k, ts[c])
<1> USE QuotaAssumption, GatewayAssumption
<1>1. /\ pc[c] = "acquire" /\ now' = now /\ calls' = calls
      /\ admitted' = admitted /\ promised' = promised
      /\ pc' = [pc EXCEPT ![c] = "idle"] /\ key' = [key EXCEPT ![c] = NoKey]
      /\ ts' = [ts EXCEPT ![c] = 0]
      /\ DenyCooling(k, ts[c]) \/ DenyFull(k, ts[c])
  BY DEF AcquireDenies, Leave
<1>2. /\ k \in Keys /\ ts[c] \in 0..now /\ now \in Nat
      /\ w \in [start : 0..now, count : 0..Limit[k]] /\ Last(k, w)
  BY <1>1, WindowFollows
<1>3. /\ \A d \in Callers \ {c} : pc'[d] = pc[d] /\ key'[d] = key[d] /\ ts'[d] = ts[d]
      /\ pc'[c] = "idle"
      /\ pc' \in [Callers -> {"idle", "cap", "acquire", "run", "mark"}]
      /\ key' \in [Callers -> Keys \union {NoKey}] /\ ts' \in [Callers -> 0..now]
      /\ calls' \in 0..MaxCalls
  BY <1>1, <1>2 DEF IInv, TypeOK
<1>4. CASE DenyCooling(k, ts[c])
  <2>1. UNCHANGED <<quotaVars, now, admitted, promised>>
    BY <1>1, <1>4 DEF DenyCooling
  <2>2. QED
    BY <1>3, <2>1, CallersStep
<1>5. CASE DenyFull(k, ts[c])
  <2> HIDE DEF w
  <2>1. /\ ~ CoolingDown(k, ts[c]) /\ windows' = Put(windows, k, w)
        /\ cooldowns' = Without(cooldowns, {k}) /\ sincePrune' = sincePrune
    BY <1>5 DEF DenyFull, w
  <2> PICK t \in Nat : t = ts[c] /\ t <= now
    BY <1>2
  <2> PICK kk \in Keys : kk = k
    BY <1>2
  <2> PICK vv \in [start : 0..now, count : 0..Limit[kk]] : vv = w
    BY <1>2
  <2>2. /\ DOMAIN windows' \subseteq Keys
        /\ \A j \in DOMAIN windows' : windows'[j] \in [start : Nat, count : 0..Limit[j]]
        /\ StoredIsLast' /\ ForgottenIsOver' /\ WindowsAreFinite'
    <3>1. Last(kk, vv)'
      BY <1>1, <1>2 DEF Last
    <3>2. admitted' \in [Keys -> SUBSET [start : 0..now, nth : Nat]]
      BY <1>1 DEF IInv, TypeOK
    <3>3. QED
      BY <1>1, <2>1, <3>1, <3>2, LastIsStored
  <2>3. /\ CooldownsAreLatest' /\ DOMAIN cooldowns' \subseteq Keys
        /\ \A j \in DOMAIN cooldowns' : cooldowns'[j] \in Nat
    <3>1. \A j \in DOMAIN cooldowns : cooldowns[j] \in Nat
      BY DEF IInv, TypeOK, QuotaTypeOK
    <3>2. k \in DOMAIN cooldowns => cooldowns[k] <= t
      BY <1>2, <2>1, <3>1 DEF CoolingDown
    <3>3. /\ DOMAIN cooldowns' = DOMAIN cooldowns \ {k}
          /\ \A j \in DOMAIN cooldowns' : cooldowns'[j] = cooldowns[j]
      BY <2>1 DEF Without, Restrict
    <3>4. QED
      BY <1>1, <3>2, <3>3, LatestIsKept
  <2>4. TypeOK'
    <3>1. QuotaTypeOK'
      BY <2>1, <2>2, <2>3 DEF IInv, TypeOK, QuotaTypeOK
    <3>2. QED
      BY <1>1, <1>3, <3>1 DEF IInv, TypeOK
  <2>5. CallersAreCurrent'
    BY <1>1, <1>3 DEF IInv, CallersAreCurrent
  <2>6. WindowsHoldTheLimit'
    BY <1>1 DEF IInv, WindowsHoldTheLimit
  <2>7. QED
    BY <2>2, <2>3, <2>4, <2>5, <2>6 DEF IInv
<1>6. QED
  BY <1>1, <1>4, <1>5

\* A cooldown is marked with a reading no older than a thread may hold, so the
\* one it replaces ended later by no more than that.
LEMMA MarkStep == ASSUME IInv, NEW c \in Callers, MarkCooldown(c) PROVE IInv'
<1> DEFINE k == key[c]
           expiry == ts[c] + CooldownSeconds
<1> USE QuotaAssumption, GatewayAssumption
<1>1. /\ pc[c] = "mark" /\ now' = now /\ calls' = calls
      /\ admitted' = admitted /\ windows' = windows /\ sincePrune' = sincePrune
      /\ promised' = [promised EXCEPT ![k] = IF @ < expiry THEN expiry ELSE @]
      /\ cooldowns' = Put(cooldowns, k, expiry)
      /\ pc' = [pc EXCEPT ![c] = "idle"] /\ key' = [key EXCEPT ![c] = NoKey]
      /\ ts' = [ts EXCEPT ![c] = 0]
  BY DEF MarkCooldown, Cool, Leave
<1>2. /\ k \in Keys /\ ts[c] \in 0..now /\ now \in Nat /\ now <= ts[c] + Stall
      /\ CooldownSeconds \in Nat /\ Stall \in Nat /\ expiry \in Nat
  BY <1>1 DEF IInv, TypeOK, CallersAreCurrent
<1>3. /\ \A d \in Callers \ {c} : pc'[d] = pc[d] /\ key'[d] = key[d] /\ ts'[d] = ts[d]
      /\ pc'[c] = "idle"
      /\ pc' \in [Callers -> {"idle", "cap", "acquire", "run", "mark"}]
      /\ key' \in [Callers -> Keys \union {NoKey}] /\ ts' \in [Callers -> 0..now]
      /\ calls' \in 0..MaxCalls
  BY <1>1, <1>2 DEF IInv, TypeOK
<1>4. /\ \A j \in Keys : promised[j] \in Nat
      /\ promised' \in [Keys -> Nat]
      /\ promised'[k] = IF promised[k] < expiry THEN expiry ELSE promised[k]
      /\ \A j \in Keys \ {k} : promised'[j] = promised[j]
  BY <1>1, <1>2 DEF IInv, TypeOK
<1>5. /\ DOMAIN cooldowns' = DOMAIN cooldowns \union {k} /\ cooldowns'[k] = expiry
      /\ \A j \in DOMAIN cooldowns \ {k} : cooldowns'[j] = cooldowns[j]
  BY <1>1 DEF Put
<1>6. TypeOK'
  <2>1. QuotaTypeOK'
    BY <1>1, <1>2, <1>5 DEF IInv, TypeOK, QuotaTypeOK
  <2>2. QED
    BY <1>1, <1>3, <1>4, <2>1 DEF IInv, TypeOK
<1>7. CooldownsAreLatest'
  <2>1. promised[k] <= now + CooldownSeconds
    BY <1>2 DEF IInv, CooldownsAreLatest
  <2>2. expiry <= now + CooldownSeconds /\ now + CooldownSeconds <= expiry + Stall
    BY <1>2
  <2>3. /\ promised'[k] <= now + CooldownSeconds
        /\ promised'[k] <= cooldowns'[k] + Stall
    BY <1>2, <1>4, <1>5, <2>1, <2>2
  <2>4. ASSUME NEW j \in Keys \ {k}
        PROVE  /\ promised'[j] = promised[j] /\ (j \in DOMAIN cooldowns' <=> j \in DOMAIN cooldowns)
               /\ j \in DOMAIN cooldowns => cooldowns'[j] = cooldowns[j]
    BY <1>4, <1>5
  <2> HIDE DEF k, expiry
  <2>5. QED
    BY <1>1, <1>5, <2>3, <2>4 DEF IInv, CooldownsAreLatest
<1>8. CallersAreCurrent'
  BY <1>1, <1>3 DEF IInv, CallersAreCurrent
<1>9. StoredIsLast' /\ ForgottenIsOver' /\ WindowsAreFinite' /\ WindowsHoldTheLimit'
  BY <1>1 DEF IInv, StoredIsLast, ForgottenIsOver, WindowsAreFinite, Last, WindowsHoldTheLimit
<1>10. QED
  BY <1>6, <1>7, <1>8, <1>9 DEF IInv

\* No window, cooldown or reading exists at the start.
LEMMA InitIInv == Init => IInv
<1> SUFFICES ASSUME Init PROVE IInv
  OBVIOUS
<1> USE QuotaAssumption, GatewayAssumption DEF Init, QuotaInit
<1>1. DOMAIN windows = {} /\ DOMAIN cooldowns = {}
  OBVIOUS
<1>2. TypeOK
  BY <1>1 DEF TypeOK, QuotaTypeOK
<1>3. CallersAreCurrent /\ StoredIsLast /\ ForgottenIsOver /\ WindowsHoldTheLimit
  BY <1>1 DEF CallersAreCurrent, StoredIsLast, ForgottenIsOver, WindowsHoldTheLimit
<1>4. CooldownsAreLatest
  BY <1>1 DEF CooldownsAreLatest
<1>5. WindowsAreFinite
  BY <1>1, FS_EmptySet DEF WindowsAreFinite
<1>6. QED
  BY <1>2, <1>3, <1>4, <1>5 DEF IInv

\* Every step keeps the invariant.
LEMMA StepIInv == IInv /\ [Next]_vars => IInv'
<1> SUFFICES ASSUME IInv, [Next]_vars PROVE IInv'
  OBVIOUS
<1>1. ASSUME NEW c \in Callers,
             \/ \E k \in Keys : Invoke(c, k)
             \/ NotCapped(c) \/ Capped(c) \/ FnEnds(c) \/ FnThrottled(c) \/ Abort(c)
      PROVE  IInv'
  <2>1. /\ UNCHANGED <<quotaVars, now, admitted, promised>>
        /\ calls' \in 0..MaxCalls
    BY <1>1, GatewayAssumption
       DEF Invoke, NotCapped, Capped, FnEnds, FnThrottled, Abort, ReadClock, Leave, history, IInv, TypeOK
  <2>2. /\ pc \in [Callers -> {"idle", "cap", "acquire", "run", "mark"}]
        /\ key \in [Callers -> Keys \union {NoKey}] /\ ts \in [Callers -> 0..now] /\ now \in Nat
        /\ pc[c] # "idle" => key[c] \in Keys
    BY DEF IInv, TypeOK, CallersAreCurrent
  <2>3. \/ \E k \in Keys : pc' = [pc EXCEPT ![c] = "cap"] /\ key' = [key EXCEPT ![c] = k] /\ ts' = ts
        \/ /\ pc[c] # "idle" /\ key' = key /\ ts' = [ts EXCEPT ![c] = now]
           /\ \E s \in {"acquire", "mark"} : pc' = [pc EXCEPT ![c] = s]
        \/ /\ pc' = [pc EXCEPT ![c] = "idle"] /\ key' = [key EXCEPT ![c] = NoKey]
           /\ ts' = [ts EXCEPT ![c] = 0]
    BY <1>1 DEF Invoke, NotCapped, Capped, FnEnds, FnThrottled, Abort, ReadClock, Leave
  <2>4. /\ \A d \in Callers \ {c} : pc'[d] = pc[d] /\ key'[d] = key[d] /\ ts'[d] = ts[d]
        /\ pc' \in [Callers -> {"idle", "cap", "acquire", "run", "mark"}]
        /\ key' \in [Callers -> Keys \union {NoKey}] /\ ts' \in [Callers -> 0..now]
        /\ pc'[c] # "idle" => key'[c] \in Keys
        /\ pc'[c] \in {"acquire", "mark"} => ts'[c] = now
    BY <2>2, <2>3
  <2>5. QED
    BY <2>1, <2>4, CallersStep
<1>2. CASE UNCHANGED vars
  <2>1. UNCHANGED <<windows, cooldowns, sincePrune, now, pc, key, ts, calls, admitted, promised>>
    BY <1>2 DEF vars, quotaVars, callerVars, history
  <2>2. TypeOK' /\ CallersAreCurrent' /\ StoredIsLast' /\ ForgottenIsOver'
    BY <2>1 DEF IInv, TypeOK, QuotaTypeOK, CallersAreCurrent, StoredIsLast, ForgottenIsOver, Last
  <2>3. CooldownsAreLatest' /\ WindowsHoldTheLimit' /\ WindowsAreFinite'
    BY <2>1 DEF IInv, CooldownsAreLatest, WindowsHoldTheLimit, WindowsAreFinite
  <2>4. QED
    BY <2>2, <2>3 DEF IInv
<1>3. QED
  BY <1>1, <1>2, TickStep, AllowStep, DenyStep, MarkStep DEF Next

\* What relates the store to the histories and the clock is kept.
THEOREM Invariance == Spec => []IInv
BY InitIInv, StepIInv, PTL DEF Spec

\* The gateway's and the store's state is well formed; no window counts more
\* calls than its limit.
THEOREM TypeCorrect == Spec => []TypeOK
<1>1. IInv => TypeOK
  BY DEF IInv
<1>2. QED
  BY <1>1, Invariance, PTL

\* The limit holds over time: the calls of a key fall into windows at least a
\* span apart with at most limit calls each, whatever prune forgets.
THEOREM LimitHolds == Spec => []WindowsHoldTheLimit
<1>1. IInv => WindowsHoldTheLimit
  BY DEF IInv
<1>2. QED
  BY <1>1, Invariance, PTL

\* Nobody is admitted to a key before its latest cooldown is over, give or take
\* the time a thread holds a clock reading.
THEOREM CooldownsAreRespected == Spec => CooldownsHold
<1>1. ASSUME IInv, [Next]_vars, NEW k \in Keys, admitted'[k] # admitted[k]
      PROVE  now + Stall >= promised[k]
  <2>1. PICK c \in Callers : AcquireAllows(c)
    BY <1>1 DEF Next, Tick, Invoke, NotCapped, Capped, AcquireDenies, FnEnds, FnThrottled,
       MarkCooldown, Abort, vars, history
  <2>2. k = key[c] /\ pc[c] = "acquire" /\ ~ CoolingDown(key[c], ts[c])
    BY <1>1, <2>1 DEF AcquireAllows, Admit, IInv, TypeOK
  <2>3. ts[c] \in 0..now /\ now \in Nat /\ Stall \in Nat
    BY <1>1, GatewayAssumption DEF IInv, TypeOK
  <2>4. promised[k] \in Nat
    BY <1>1 DEF IInv, TypeOK
  <2>5. CASE k \in DOMAIN cooldowns
    <3>1. cooldowns[k] \in Nat /\ ~ (ts[c] < cooldowns[k])
      BY <1>1, <2>2, <2>5 DEF CoolingDown, IInv, TypeOK, QuotaTypeOK
    <3>2. promised[k] <= cooldowns[k] + Stall
      BY <1>1, <2>5 DEF IInv, CooldownsAreLatest
    <3>3. QED
      BY <2>3, <2>4, <3>1, <3>2
  <2>6. CASE k \notin DOMAIN cooldowns
    BY <1>1, <2>3, <2>4, <2>6 DEF IInv, CooldownsAreLatest
  <2>7. QED
    BY <2>5, <2>6
<1>2. IInv /\ [Next]_vars =>
        [\A k \in Keys : admitted'[k] # admitted[k] => now + Stall >= promised[k]]_vars
  BY <1>1
<1>3. QED
  BY <1>2, Invariance, PTL DEF Spec, CooldownsHold

\* Past the hard bound no stale window survives a call that is allowed.
THEOREM StaleGo == Spec => StaleWindowsGo
<1>1. ASSUME IInv, [Next]_vars, NEW c \in Callers, pc[c] = "acquire", pc'[c] = "run",
             Cardinality(DOMAIN windows') > PruneHardBound
      PROVE  StaleWindows(windows', ts[c]) = {}
  <2> DEFINE W == Put(windows, key[c], [WindowAt(key[c], ts[c]) EXCEPT !.count = @ + 1])
  <2>1. AcquireAllows(c)
    <3>1. pc \in [Callers -> {"idle", "cap", "acquire", "run", "mark"}]
      BY <1>1 DEF IInv, TypeOK
    <3>2. QED
      BY <1>1, <3>1 DEF Next, Tick, Invoke, NotCapped, Capped, AcquireAllows, AcquireDenies,
         FnEnds, FnThrottled, MarkCooldown, Abort, Leave, ReadClock, vars, callerVars
  <2>2. StoreAndPrune(W, Without(cooldowns, {key[c]}), ts[c])
    BY <2>1 DEF AcquireAllows, Admit
  <2> HIDE DEF W
  <2>3. CASE ScanDue(Cardinality(DOMAIN W))
    <3>1. windows' = Without(W, StaleWindows(W, ts[c]))
      BY <2>2, <2>3 DEF StoreAndPrune
    <3>2. /\ DOMAIN windows' = DOMAIN W \ StaleWindows(W, ts[c])
          /\ \A k \in DOMAIN windows' : windows'[k] = W[k]
      BY <3>1 DEF Without, Restrict
    <3>3. QED
      BY <3>2 DEF StaleWindows
  <2>4. CASE ~ ScanDue(Cardinality(DOMAIN W))
    <3>1. windows' = W
      BY <2>2, <2>4 DEF StoreAndPrune
    <3>2. IsFiniteSet(DOMAIN windows')
      BY <1>1, StepIInv DEF IInv, WindowsAreFinite
    <3>3. Cardinality(DOMAIN W) \in Nat
      BY <3>1, <3>2, FS_CardinalityType
    <3>4. Cardinality(DOMAIN W) > PruneThreshold
      BY <1>1, <3>1, <3>3, QuotaAssumption
    <3>5. QED
      BY <1>1, <2>4, <3>1, <3>4 DEF ScanDue
  <2>5. QED
    BY <2>3, <2>4
<1>2. IInv /\ [Next]_vars =>
        [\A c \in Callers :
           pc[c] = "acquire" /\ pc'[c] = "run" /\ Cardinality(DOMAIN windows') > PruneHardBound
             => StaleWindows(windows', ts[c]) = {}]_vars
  BY <1>1
<1>3. QED
  BY <1>2, Invariance, PTL DEF Spec, StaleWindowsGo
================================================================================
