----------------------------- MODULE ExportWorker -----------------------------
(***************************************************************************)
(* The background export path of _export_mixin: application threads hand   *)
(* records to one daemon worker over a queue, the worker is replaced with  *)
(* its queue when it has died, and a thread may wait for the queue to      *)
(* drain.  Workers and their queues are numbered by generation.            *)
(***************************************************************************)
EXTENDS Naturals, Sequences, Functions

CONSTANTS
  Callers,    \* application threads
  NoItem,
  MaxCalls, MaxDeaths  \* bounds of the model

ASSUME BoundsAssumption == MaxCalls \in Nat /\ MaxDeaths \in Nat

VARIABLES
  gen,      \* generation of _export_worker and _export_queue, 0 for None
  queue,    \* of each generation, its SimpleQueue
  alive,    \* generations whose worker runs
  hand,     \* of each generation, what its worker took and still holds
  pc,       \* where each caller is
  mine,     \* the generation each caller captured
  item,     \* what each caller is about to put
  landed,   \* sentinels whose event the worker has set
  calls, deaths,
  put,      \* history: records in some queue or beyond
  handed,   \* history: records given to their exporter, in order
  before,   \* history: what was put when each wait began
  missed    \* history: records a wait that returned True did not wait for

worker == <<gen, queue, alive, hand>>
caller == <<pc, mine, item>>
history == <<put, handed, before, missed>>
vars == <<worker, caller, landed, calls, deaths, history>>

Generations == 1..(MaxDeaths + 1)

Record(c) == [by |-> c, n |-> calls + 1, kind |-> "record"]
Sentinel(c) == [by |-> c, n |-> calls + 1, kind |-> "sentinel"]
IsSentinel(x) == x.kind = "sentinel"

Init ==
  /\ gen = 0 /\ alive = {}
  /\ queue = [g \in Generations |-> << >>]
  /\ hand = [g \in Generations |-> NoItem]
  /\ pc = [c \in Callers |-> "idle"]
  /\ mine = [c \in Callers |-> 0]
  /\ item = [c \in Callers |-> NoItem]
  /\ landed = {} /\ calls = 0 /\ deaths = 0
  /\ put = {} /\ handed = << >> /\ missed = {}
  /\ before = [c \in Callers |-> {}]

Begin(c, step) ==
  /\ pc[c] = "idle" /\ calls < MaxCalls
  /\ calls' = calls + 1
  /\ pc' = [pc EXCEPT ![c] = step]

Return(c) ==
  /\ pc' = [pc EXCEPT ![c] = "idle"]
  /\ mine' = [mine EXCEPT ![c] = 0]
  /\ item' = [item EXCEPT ![c] = NoItem]

------------------------------------------------------------------------------
\* Faulty variant of Enqueue: nobody looks whether the worker is alive.
EnqueueRestarting(c) ==
  /\ Begin(c, "put")
  /\ IF gen + 1 \notin Generations
     THEN UNCHANGED <<gen, alive>>
     ELSE gen' = gen + 1 /\ alive' = alive \union {gen + 1}
  /\ mine' = [mine EXCEPT ![c] = gen']
  /\ item' = [item EXCEPT ![c] = Record(c)]
  /\ UNCHANGED <<queue, hand, landed, deaths, history>>

\* _enqueue_export, under the lock: the queue of the worker, or a new worker
\* with an empty queue when there is none or it has died.
Enqueue(c) ==
  /\ Begin(c, "put")
  /\ IF gen \in alive
     THEN UNCHANGED <<gen, alive>>
     ELSE gen' = gen + 1 /\ alive' = alive \union {gen + 1}
  /\ mine' = [mine EXCEPT ![c] = gen']
  /\ item' = [item EXCEPT ![c] = Record(c)]
  /\ UNCHANGED <<queue, hand, landed, deaths, history>>

\* After the lock is released: q.put.
Put(c) ==
  /\ pc[c] = "put"
  /\ queue' = [queue EXCEPT ![mine[c]] = Append(@, item[c])]
  /\ put' = put \union {item[c]}
  /\ Return(c)
  /\ UNCHANGED <<gen, alive, hand, landed, calls, deaths, handed, before, missed>>

\* Faulty variant of Get: the worker drains the queue and keeps one item.
GetDraining(g) ==
  /\ g \in alive /\ hand[g] = NoItem /\ queue[g] # << >>
  /\ hand' = [hand EXCEPT ![g] = Head(queue[g])]
  /\ queue' = [queue EXCEPT ![g] = << >>]
  /\ UNCHANGED <<gen, alive, caller, landed, calls, deaths, history>>

\* The worker blocks on an empty queue.
Get(g) ==
  /\ g \in alive /\ hand[g] = NoItem /\ queue[g] # << >>
  /\ hand' = [hand EXCEPT ![g] = Head(queue[g])]
  /\ queue' = [queue EXCEPT ![g] = Tail(@)]
  /\ UNCHANGED <<gen, alive, caller, landed, calls, deaths, history>>

HandOver(g) == handed' = Append(handed, hand[g])

\* The exporter returns or raises an Exception, which is swallowed; a
\* sentinel sets its event.
Process(g) ==
  /\ g \in alive /\ hand[g] # NoItem
  /\ IF IsSentinel(hand[g])
     THEN landed' = landed \union {hand[g]} /\ UNCHANGED handed
     ELSE HandOver(g) /\ UNCHANGED landed
  /\ hand' = [hand EXCEPT ![g] = NoItem]
  /\ UNCHANGED <<gen, queue, alive, caller, calls, deaths, put, before, missed>>

\* Faulty variant of Die: a worker that is gone still counts as alive.
DieUnnoticed(g) ==
  /\ g \in alive /\ hand[g] # NoItem /\ ~ IsSentinel(hand[g])
  /\ deaths < MaxDeaths /\ deaths' = deaths + 1
  /\ HandOver(g)
  /\ UNCHANGED <<gen, queue, alive, hand, caller, landed, calls, put, before, missed>>

\* It raises a BaseException (a cancelled coroutine, an exit): the worker is
\* gone and nobody reads its queue again.
Die(g) ==
  /\ g \in alive /\ hand[g] # NoItem /\ ~ IsSentinel(hand[g])
  /\ deaths < MaxDeaths /\ deaths' = deaths + 1
  /\ HandOver(g)
  /\ alive' = alive \ {g}
  /\ hand' = [hand EXCEPT ![g] = NoItem]
  /\ UNCHANGED <<gen, queue, caller, landed, calls, put, before, missed>>

------------------------------------------------------------------------------
\* wait_for_pending_exports reads the worker and its queue under the lock.
Wait(c) ==
  /\ Begin(c, "check")
  /\ mine' = [mine EXCEPT ![c] = gen]
  /\ item' = [item EXCEPT ![c] = Sentinel(c)]
  /\ before' = [before EXCEPT ![c] = put]
  /\ UNCHANGED <<worker, landed, deaths, put, handed, missed>>

\* A wait returns True.
Drained(c) ==
  /\ Return(c)
  /\ missed' = missed \union
       {[record |-> r, heard |-> pc[c] = "wait"] : r \in before[c] \ Range(handed)}
  /\ before' = [before EXCEPT ![c] = {}]

\* Without the lock: no live worker, nothing to wait for.
CheckDead(c) ==
  /\ pc[c] = "check" /\ mine[c] \notin alive
  /\ Drained(c)
  /\ UNCHANGED <<worker, landed, calls, deaths, put, handed>>

CheckAlive(c) ==
  /\ pc[c] = "check" /\ mine[c] \in alive
  /\ pc' = [pc EXCEPT ![c] = "sentinel"]
  /\ UNCHANGED <<worker, mine, item, landed, calls, deaths, history>>

\* Faulty variant of PutSentinel: it overtakes the records in the queue.
PutSentinelFirst(c) ==
  /\ pc[c] = "sentinel"
  /\ queue' = [queue EXCEPT ![mine[c]] = <<item[c]>> \o @]
  /\ pc' = [pc EXCEPT ![c] = "wait"]
  /\ UNCHANGED <<gen, alive, hand, mine, item, landed, calls, deaths, history>>

\* A sentinel with its event is queued behind them, and its caller waits.
PutSentinel(c) ==
  /\ pc[c] = "sentinel"
  /\ queue' = [queue EXCEPT ![mine[c]] = Append(@, item[c])]
  /\ pc' = [pc EXCEPT ![c] = "wait"]
  /\ UNCHANGED <<gen, alive, hand, mine, item, landed, calls, deaths, history>>

WaitReturns(c) ==
  /\ pc[c] = "wait" /\ item[c] \in landed
  /\ Drained(c)
  /\ UNCHANGED <<worker, landed, calls, deaths, put, handed>>

\* The wait gives up and returns False.
WaitTimesOut(c) ==
  /\ pc[c] = "wait" /\ item[c] \notin landed
  /\ Return(c)
  /\ before' = [before EXCEPT ![c] = {}]
  /\ UNCHANGED <<worker, landed, calls, deaths, put, handed, missed>>

CallerStep(c) ==
  \/ Put(c) \/ CheckDead(c) \/ CheckAlive(c) \/ PutSentinel(c)
  \/ WaitReturns(c) \/ WaitTimesOut(c)

WorkerStep(g) == Get(g) \/ Process(g)

Next ==
  \/ \E c \in Callers : Enqueue(c) \/ Wait(c) \/ CallerStep(c)
  \/ \E g \in Generations : WorkerStep(g) \/ Die(g)

\* Threads run, an exporter returns sooner or later, and Event.wait has a
\* timeout.
Fairness ==
  /\ \A c \in Callers : WF_vars(CallerStep(c))
  /\ \A g \in Generations : WF_vars(WorkerStep(g))

Spec == Init /\ [][Next]_vars /\ Fairness

------------------------------------------------------------------------------
Records == [by : Callers, n : 1..MaxCalls, kind : {"record"}]
Items == Records \union [by : Callers, n : 1..MaxCalls, kind : {"sentinel"}]

ASSUME ItemAssumption == NoItem \notin Items

TypeOK ==
  /\ gen \in 0..MaxDeaths + 1
  /\ queue \in [Generations -> Seq(Items)]
  /\ hand \in [Generations -> Items \union {NoItem}]
  /\ pc \in [Callers -> {"idle", "put", "check", "sentinel", "wait"}]
  /\ mine \in [Callers -> 0..gen]
  /\ item \in [Callers -> Items \union {NoItem}]
  /\ landed \subseteq Items /\ calls \in 0..MaxCalls /\ deaths \in 0..MaxDeaths
  /\ put \subseteq Records /\ handed \in Seq(Records)
  /\ before \in [Callers -> SUBSET Records]
  /\ missed \subseteq [record : Records, heard : BOOLEAN]
  \* At most one worker runs, and it reads the current queue; a generation
  \* is replaced only because its worker died.
  /\ alive \subseteq {gen} /\ gen <= deaths + 1

\* Records of one thread reach their exporters in the order it enqueued them
\* and once each, also across a worker's death and replacement.
InOrder ==
  \A i, j \in 1..Len(handed) :
    i < j /\ handed[i].by = handed[j].by => handed[i].n < handed[j].n

\* Records nobody will ever read.
Stranded == UNION {Range(queue[g]) : g \in (1..gen) \ alive}

\* A wait that returns True leaves behind only what a dead worker's queue
\* holds: while the worker lives, everything enqueued before has been given to
\* its exporter, whatever other threads enqueue or wait for meanwhile.
MissedAreStranded == {m.record : m \in missed} \subseteq Stranded

\* A record in the queue of a live worker is given to its exporter, unless
\* that worker dies first; so is one enqueued after a restart.
RecordsAreHandedOver ==
  \A r \in Records, g \in Generations :
    (g \in alive /\ r \in Range(queue[g])) ~> (r \in Range(handed) \/ g \notin alive)

\* The documented guarantee: everything enqueued earlier has been handed to
\* its exporter once the sentinel lands.  False after a restart: the sentinel
\* is in the new queue and the earlier records in the old one.
SentinelMeansDrained == \A m \in missed : ~ m.heard
==============================================================================
