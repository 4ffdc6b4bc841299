-------------------------------- MODULE Gateway --------------------------------
(***************************************************************************)
(* Gateway.invoke by concurrent callers over one FixedWindowQuotaStore.    *)
(*                                                                         *)
(* The store keeps one window per (tenant, bucket) key that counts the     *)
(* calls it admitted, a deny-until deadline per key, and the scan that     *)
(* forgets what is out of date.  Every operation reads the clock first and *)
(* takes the lock after, so it is given the time ts it read.               *)
(*                                                                         *)
(* A call is an entitlement check, acquire, the guarded call, a cooldown   *)
(* when the provider throttles, and one outcome record.                    *)
(***************************************************************************)
EXTENDS Integers, FiniteSets, Functions

CONSTANTS
  Keys,         \* pairs of tenant and bucket
  Limit, Span,  \* limit and window_s of a key's policy
  CooldownSeconds,
  PruneThreshold, PruneEvery, PruneHardBound

ASSUME QuotaAssumption ==
  /\ Limit \in [Keys -> Nat] /\ Span \in [Keys -> Nat \ {0}]
  /\ CooldownSeconds \in Nat
  /\ PruneThreshold \in Nat /\ PruneEvery \in Nat \ {0} /\ PruneHardBound \in Nat
  /\ PruneThreshold <= PruneHardBound

VARIABLES
  windows,    \* _windows: of some keys, start and count
  cooldowns,  \* _cooldowns: of some keys, the time they expire
  sincePrune  \* _acquires_since_prune

quotaVars == <<windows, cooldowns, sincePrune>>

QuotaInit ==
  /\ windows = << >> /\ cooldowns = << >>
  /\ sincePrune = 0

Put(f, k, v) == [x \in DOMAIN f \union {k} |-> IF x = k THEN v ELSE f[x]]
Without(f, S) == Restrict(f, DOMAIN f \ S)

CoolingDown(k, ts) == k \in DOMAIN cooldowns /\ ts < cooldowns[k]

\* The key's window at ts: the stored one, or a fresh one when there is none
\* or it has run out.  A window that starts after ts is still running.
WindowAt(k, ts) ==
  IF k \in DOMAIN windows /\ ts - windows[k].start < Span[k]
  THEN windows[k] ELSE [start |-> ts, count |-> 0]

\* Faulty variant of StaleWindows: judged by one key's span, not their own.
StaleWindowsOfShortest(w, ts) ==
  {k \in DOMAIN w : \E j \in DOMAIN w : w[k].start < ts - 2 * Span[j]}

StaleWindows(w, ts) == {k \in DOMAIN w : w[k].start < ts - 2 * Span[k]}

\* Faulty variant of ScanDue: the hard bound is not looked at.
ScanDueAmortized(n) == n > PruneThreshold /\ sincePrune + 1 >= PruneEvery

\* _prune scans n windows: above the threshold now and then, past the hard
\* bound always.
ScanDue(n) ==
  n > PruneThreshold /\ (n > PruneHardBound \/ sincePrune + 1 >= PruneEvery)

\* Faulty variant of StoreAndPrune: a cooldown without a window is dropped.
StoreAndPruneOrphans(w, c, ts) ==
  LET n == Cardinality(DOMAIN w)
      stale == StaleWindows(w, ts)
  IN  IF ScanDue(n)
      THEN /\ windows' = Without(w, stale)
           /\ cooldowns' = Without(c, {k \in DOMAIN c : c[k] < ts \/ k \in stale})
           /\ sincePrune' = 0
      ELSE /\ windows' = w /\ cooldowns' = c
           /\ sincePrune' = IF n > PruneThreshold THEN sincePrune + 1 ELSE sincePrune

\* acquire stores windows w and cooldowns c, then prunes.
StoreAndPrune(w, c, ts) ==
  LET n == Cardinality(DOMAIN w)
  IN  IF ScanDue(n)
      THEN /\ windows' = Without(w, StaleWindows(w, ts))
           /\ cooldowns' = Without(c, {k \in DOMAIN c : c[k] < ts})
           /\ sincePrune' = 0
      ELSE /\ windows' = w /\ cooldowns' = c
           /\ sincePrune' = IF n > PruneThreshold THEN sincePrune + 1 ELSE sincePrune

\* acquire denies during a cooldown and touches nothing.
DenyCooling(k, ts) == CoolingDown(k, ts) /\ UNCHANGED quotaVars

\* acquire denies because the window is full; an expired cooldown is dropped.
DenyFull(k, ts) ==
  LET w == WindowAt(k, ts)
  IN  /\ ~ CoolingDown(k, ts) /\ w.count >= Limit[k]
      /\ windows' = Put(windows, k, w)
      /\ cooldowns' = Without(cooldowns, {k})
      /\ UNCHANGED sincePrune

\* Faulty variant of Admit: one call more than the limit.
AdmitOneMore(k, ts) ==
  LET w == WindowAt(k, ts)
  IN  /\ ~ CoolingDown(k, ts) /\ w.count <= Limit[k]
      /\ StoreAndPrune(Put(windows, k, [w EXCEPT !.count = @ + 1]),
                       Without(cooldowns, {k}), ts)

\* acquire allows and counts the call.
Admit(k, ts) ==
  LET w == WindowAt(k, ts)
  IN  /\ ~ CoolingDown(k, ts) /\ w.count < Limit[k]
      /\ StoreAndPrune(Put(windows, k, [w EXCEPT !.count = @ + 1]),
                       Without(cooldowns, {k}), ts)

\* mark_cooldown
Cool(k, ts) ==
  /\ cooldowns' = Put(cooldowns, k, ts + CooldownSeconds)
  /\ UNCHANGED <<windows, sincePrune>>

QuotaTypeOK ==
  /\ DOMAIN windows \subseteq Keys /\ DOMAIN cooldowns \subseteq Keys
  /\ \A k \in DOMAIN windows :
       windows[k] \in [start : Nat, count : 0..Limit[k]]
  /\ \A k \in DOMAIN cooldowns : cooldowns[k] \in Nat
  /\ sincePrune \in Nat /\ sincePrune < PruneEvery

--------------------------------------------------------------------------------
\* The callers.

CONSTANTS
  Callers, NoKey,
  Stall,             \* a thread holds a clock reading for at most this long
  MaxCalls, MaxTime  \* bounds of the model

ASSUME GatewayAssumption ==
  /\ NoKey \notin Keys
  /\ Stall \in Nat /\ \A k \in Keys : Stall <= Span[k]
  /\ MaxCalls \in Nat /\ MaxTime \in Nat

VARIABLES
  now,       \* the wall clock
  pc, key, ts,  \* where each caller is in invoke, its key, the clock it read
  calls,
  admitted,  \* history: of each key, what acquire allowed, by window
  promised   \* history: of each key, the latest expiry a cooldown had

callerVars == <<pc, key, ts>>
history == <<calls, admitted, promised>>
vars == <<quotaVars, now, callerVars, history>>

Init ==
  /\ QuotaInit
  /\ now = 0
  /\ pc = [c \in Callers |-> "idle"]
  /\ key = [c \in Callers |-> NoKey]
  /\ ts = [c \in Callers |-> 0]
  /\ calls = 0
  /\ admitted = [k \in Keys |-> {}]
  /\ promised = [k \in Keys |-> 0]

\* Time passes, but not while a thread has been between its clock reading and
\* the store's lock for as long as it may.
Tick ==
  /\ now < MaxTime
  /\ \A c \in Callers : pc[c] \in {"acquire", "mark"} => now - ts[c] < Stall
  /\ now' = now + 1
  /\ UNCHANGED <<quotaVars, callerVars, history>>

------------------------------------------------------------------------------
\* The caller goes on at a step that starts with reading the clock.
ReadClock(c, step) ==
  /\ pc' = [pc EXCEPT ![c] = step]
  /\ ts' = [ts EXCEPT ![c] = now]
  /\ UNCHANGED key

\* invoke is over: _finish has emitted an event and handed a record to the
\* exporter, or a BaseException went straight through.
Leave(c) ==
  /\ pc' = [pc EXCEPT ![c] = "idle"]
  /\ key' = [key EXCEPT ![c] = NoKey]
  /\ ts' = [ts EXCEPT ![c] = 0]
  /\ UNCHANGED <<now, calls>>

Invoke(c, k) ==
  /\ pc[c] = "idle" /\ calls < MaxCalls
  /\ calls' = calls + 1
  /\ pc' = [pc EXCEPT ![c] = "cap"]
  /\ key' = [key EXCEPT ![c] = k]
  /\ UNCHANGED <<quotaVars, now, ts, admitted, promised>>

\* _hard_capped: there is no entitlements hook, it answers no, or it raises
\* and port_error_policy is to allow.
NotCapped(c) ==
  /\ pc[c] = "cap"
  /\ ReadClock(c, "acquire")
  /\ UNCHANGED <<quotaVars, now, history>>

\* It answers yes, or it raises and the policy is to deny, or to propagate the
\* error once it is recorded.
Capped(c) ==
  /\ pc[c] = "cap"
  /\ Leave(c)
  /\ UNCHANGED <<quotaVars, admitted, promised>>

------------------------------------------------------------------------------
AcquireAllows(c) ==
  LET k == key[c]
  IN  /\ pc[c] = "acquire"
      /\ Admit(k, ts[c])
      /\ admitted' = [admitted EXCEPT ![k] =
                        @ \union {[start |-> WindowAt(k, ts[c]).start,
                                   nth |-> WindowAt(k, ts[c]).count + 1]}]
      /\ pc' = [pc EXCEPT ![c] = "run"]
      /\ ts' = [ts EXCEPT ![c] = 0]
      /\ UNCHANGED <<now, key, calls, promised>>

AcquireDenies(c) ==
  /\ pc[c] = "acquire"
  /\ DenyCooling(key[c], ts[c]) \/ DenyFull(key[c], ts[c])
  /\ Leave(c)
  /\ UNCHANGED <<admitted, promised>>

------------------------------------------------------------------------------
\* fn returns, or raises an Exception that is no throttling.
FnEnds(c) ==
  /\ pc[c] = "run"
  /\ Leave(c)
  /\ UNCHANGED <<quotaVars, admitted, promised>>

FnThrottled(c) ==
  /\ pc[c] = "run"
  /\ ReadClock(c, "mark")
  /\ UNCHANGED <<quotaVars, now, history>>

\* The provider throttled: the cooldown is marked and the outcome says so.
MarkCooldown(c) ==
  LET k == key[c]
      expiry == ts[c] + CooldownSeconds
  IN  /\ pc[c] = "mark"
      /\ Cool(k, ts[c])
      /\ promised' = [promised EXCEPT ![k] = IF @ < expiry THEN expiry ELSE @]
      /\ Leave(c)
      /\ UNCHANGED admitted

\* A CancelledError arrives at an await, or a BaseException comes out of fn.
Abort(c) ==
  /\ pc[c] \in {"cap", "run"}
  /\ Leave(c)
  /\ UNCHANGED <<quotaVars, admitted, promised>>

Next ==
  \/ Tick
  \/ \E c \in Callers :
       \/ \E k \in Keys : Invoke(c, k)
       \/ NotCapped(c) \/ Capped(c)
       \/ AcquireAllows(c) \/ AcquireDenies(c)
       \/ FnEnds(c) \/ FnThrottled(c) \/ MarkCooldown(c) \/ Abort(c)

Spec == Init /\ [][Next]_vars

------------------------------------------------------------------------------
TypeOK ==
  /\ QuotaTypeOK
  /\ now \in 0..MaxTime
  /\ pc \in [Callers -> {"idle", "cap", "acquire", "run", "mark"}]
  /\ key \in [Callers -> Keys \union {NoKey}] /\ ts \in [Callers -> 0..now]
  /\ calls \in 0..MaxCalls
  /\ admitted \in [Keys -> SUBSET [start : 0..now, nth : Nat]]
  /\ promised \in [Keys -> Nat]

\* The limit holds over time, not only in the store's own counters: the calls
\* of a key fall into windows that begin at least window_s apart, with at most
\* limit calls each, whatever prune forgets, in whatever order threads that read
\* the clock get the lock.
WindowsHoldTheLimit ==
  \A k \in Keys : \A x, y \in admitted[k] :
    /\ x.nth <= Limit[k]
    /\ \/ x.start = y.start
       \/ x.start >= y.start + Span[k]
       \/ y.start >= x.start + Span[k]

\* Nobody is admitted to a key before its latest cooldown is over, give or take
\* the time a thread holds a clock reading: two throttled calls that mark out
\* of order shorten it by no more.
CooldownsHold ==
  [][\A k \in Keys : admitted'[k] # admitted[k] => now + Stall >= promised[k]]_vars

\* Past the hard bound no stale window survives a call that is allowed, so keys
\* that stopped calling do not add up.
StaleWindowsGo ==
  [][\A c \in Callers :
       pc[c] = "acquire" /\ pc'[c] = "run" /\ Cardinality(DOMAIN windows') > PruneHardBound
         => StaleWindows(windows', ts[c]) = {}]_vars
================================================================================
