---------------------------- MODULE BufferedBackend ----------------------------
(***************************************************************************)
(* storage::BufferedBackend over an inner store that commits a batch       *)
(* atomically (SqliteBackend), called by concurrent tasks.  Everything a   *)
(* task does between two awaits or lock acquisitions is one step.          *)
(***************************************************************************)
EXTENDS Naturals, Sequences, FiniteSetsExt, Functions, Subsequences, TLC

CONSTANTS
  Tasks, Ids, NoId,
  BatchSize,             \* batch_size, after the clamp of new
  MaxCalls, MaxFailures  \* bounds of the model

ASSUME BatchAssumption ==
  /\ BatchSize \in Nat \ {0}
  /\ NoId \notin Ids
  /\ MaxCalls \in Nat /\ MaxFailures \in Nat

VARIABLES
  pending,   \* the buffer
  inner,     \* of each id, the version on the wrapped backend, or 0
  pc, arg,   \* where each task is in its call, and the id it was given
  batch,     \* the decisions the task's call has taken or was given
  calls, failures,
  serial,    \* history: versions saved so far
  known,     \* history: ids a save returned Ok for and no delete touched since
  began,     \* history: what each call found when it looked at the buffer
  dead,      \* history: of each id, the versions up to this one are deleted
  missed     \* history: reads of a known id that found nothing

data == <<pending, inner>>
history == <<serial, known, began, dead, missed>>
vars == <<data, pc, arg, batch, calls, failures, history>>

\* Decisions that calls hold between taking them and hearing of the write.
InFlight(S) == UNION {Range(batch[t]) : t \in S}

\* Of two versions of an id in a batch the later row replaces the earlier.
Written(b) ==
  [id \in Ids |->
     LET at == {i \in DOMAIN b : b[i].id = id}
     IN  IF at = {} THEN inner[id] ELSE b[Max(at)].n]

Nothing == [serial |-> 0, flying |-> {}, sure |-> FALSE]

Init ==
  /\ pending = << >>
  /\ inner = [id \in Ids |-> 0]
  /\ pc = [t \in Tasks |-> "idle"]
  /\ arg = [t \in Tasks |-> NoId]
  /\ batch = [t \in Tasks |-> << >>]
  /\ calls = 0 /\ failures = 0
  /\ serial = 0 /\ known = {} /\ missed = {}
  /\ began = [t \in Tasks |-> Nothing]
  /\ dead = [id \in Ids |-> 0]

------------------------------------------------------------------------------
\* A task begins a call on an id, or on none, and its call goes on at step s.
Begin(t, id, s) ==
  /\ pc[t] = "idle" /\ calls < MaxCalls
  /\ calls' = calls + 1
  /\ pc' = [pc EXCEPT ![t] = s]
  /\ arg' = [arg EXCEPT ![t] = IF s = "idle" THEN NoId ELSE id]

Found(t, id) ==
  [serial |-> serial, flying |-> InFlight(Tasks \ {t}), sure |-> id \in known]

Look(t, id) == began' = [began EXCEPT ![t] = Found(t, id)]

Finish(t) ==
  /\ pc' = [pc EXCEPT ![t] = "idle"]
  /\ arg' = [arg EXCEPT ![t] = NoId]

\* The call is over and nothing is remembered of it.
End(t) == Finish(t) /\ began' = [began EXCEPT ![t] = Nothing]

Erasing(id) == \E t \in Tasks : pc[t] = "erase" /\ arg[t] = id

\* A save begins; it returns Ok.  Its id is known unless a delete of it
\* overlapped the save.
BeginSave(t, id) ==
  began' = [began EXCEPT ![t] = [serial |-> serial, flying |-> {}, sure |-> ~ Erasing(id)]]

Acknowledge(id, sure) == known' = IF sure THEN known \union {id} ELSE known

Version(id) == [id |-> id, n |-> serial + 1]

\* Faulty variant of SaveDecision: the buffer must exceed the batch size.
SaveDecisionOverfull(t, id) ==
  LET full == Len(pending) + 1 > BatchSize
  IN  /\ Begin(t, id, IF full THEN "take" ELSE "idle")
      /\ serial' = serial + 1
      /\ pending' = Append(pending, Version(id))
      /\ IF full THEN BeginSave(t, id) /\ UNCHANGED known
         ELSE Acknowledge(id, ~ Erasing(id)) /\ UNCHANGED began
      /\ UNCHANGED <<inner, batch, failures, dead, missed>>

\* save_decision, in one critical section: push and see whether the batch is
\* full; if it is not, the call returns the id.
SaveDecision(t, id) ==
  LET full == Len(pending) + 1 >= BatchSize
  IN  /\ Begin(t, id, IF full THEN "take" ELSE "idle")
      /\ serial' = serial + 1
      /\ pending' = Append(pending, Version(id))
      /\ IF full THEN BeginSave(t, id) /\ UNCHANGED known
         ELSE Acknowledge(id, ~ Erasing(id)) /\ UNCHANGED began
      /\ UNCHANGED <<inner, batch, failures, dead, missed>>

\* Faulty variant of TakeFull: an empty batch is not noticed.
TakeFullUnchecked(t) ==
  /\ pc[t] = "take"
  /\ batch' = [batch EXCEPT ![t] = pending]
  /\ pending' = << >>
  /\ pc' = [pc EXCEPT ![t] = "write"]
  /\ UNCHANGED <<inner, arg, calls, failures, history>>

\* The second critical section of a save that found the batch full.  Another
\* call may have emptied the buffer in between: then nothing is left to write.
TakeFull(t) ==
  /\ pc[t] = "take"
  /\ batch' = [batch EXCEPT ![t] = pending]
  /\ pending' = << >>
  /\ IF pending = << >>
     THEN End(t) /\ Acknowledge(arg[t], began[t].sure)
     ELSE pc' = [pc EXCEPT ![t] = "write"] /\ UNCHANGED <<arg, known, began>>
  /\ UNCHANGED <<inner, calls, failures, serial, dead, missed>>

\* save_decisions goes straight to the inner store, with its own decisions.
SaveDecisions(t, id) ==
  /\ Begin(t, id, "direct")
  /\ serial' = serial + 1
  /\ batch' = [batch EXCEPT ![t] = <<Version(id)>>]
  /\ BeginSave(t, id)
  /\ UNCHANGED <<data, failures, known, dead, missed>>

\* Faulty variant of Flush: at most one batch of the buffer is taken.
FlushOneBatch(t) ==
  LET n == IF Len(pending) < BatchSize THEN Len(pending) ELSE BatchSize
  IN  /\ Begin(t, NoId, IF n = 0 THEN "flush" ELSE "write")
      /\ batch' = [batch EXCEPT ![t] = SubSeq(pending, 1, n)]
      /\ pending' = SubSeq(pending, n + 1, Len(pending))
      /\ Look(t, NoId)
      /\ UNCHANGED <<inner, failures, serial, known, dead, missed>>

\* flush takes the buffer, writes it, then flushes the inner store.
Flush(t) ==
  /\ Begin(t, NoId, IF pending = << >> THEN "flush" ELSE "write")
  /\ batch' = [batch EXCEPT ![t] = pending]
  /\ pending' = << >>
  /\ Look(t, NoId)
  /\ UNCHANGED <<inner, failures, serial, known, dead, missed>>

\* inner.save_decisions commits the batch and the call goes on.
WriteLands(t) ==
  /\ pc[t] \in {"write", "direct"}
  /\ inner' = Written(batch[t])
  /\ batch' = [batch EXCEPT ![t] = << >>]
  /\ IF arg[t] = NoId
     THEN pc' = [pc EXCEPT ![t] = "flush"] /\ UNCHANGED <<arg, known, began>>
     ELSE End(t) /\ Acknowledge(arg[t], began[t].sure)
  /\ UNCHANGED <<pending, calls, failures, serial, dead, missed>>

Failure == failures < MaxFailures /\ failures' = failures + 1

\* Faulty variant of WriteFails: the batch is not put back.
WriteFailsDropped(t) ==
  /\ pc[t] \in {"write", "direct"} /\ Failure
  /\ batch' = [batch EXCEPT ![t] = << >>]
  /\ End(t)
  /\ UNCHANGED <<data, calls, serial, known, dead, missed>>

\* It fails and writes nothing: a batch taken from the buffer goes back in
\* front of what was pushed meanwhile, and the caller gets the error.
WriteFails(t) ==
  /\ pc[t] \in {"write", "direct"} /\ Failure
  /\ pending' = IF pc[t] = "write" THEN batch[t] \o pending ELSE pending
  /\ batch' = [batch EXCEPT ![t] = << >>]
  /\ End(t)
  /\ UNCHANGED <<inner, calls, serial, known, dead, missed>>

\* inner.flush, whatever it answers, ends the call.
FlushInner(t) ==
  /\ pc[t] = "flush"
  /\ End(t)
  /\ UNCHANGED <<data, batch, calls, failures, serial, known, dead, missed>>

------------------------------------------------------------------------------
\* load_decision finds a version in the buffer, or will ask the inner store.
LoadDecision(t, id) ==
  LET buffered == \E d \in Range(pending) : d.id = id
  IN  /\ Begin(t, id, IF buffered THEN "idle" ELSE "fetch")
      /\ IF buffered THEN UNCHANGED began ELSE Look(t, id)
      /\ UNCHANGED <<data, batch, failures, serial, known, dead, missed>>

LoadInner(t) ==
  /\ pc[t] = "fetch"
  /\ missed' = IF inner[arg[t]] = 0 /\ began[t].sure
               THEN missed \union {[id |-> arg[t],
                      flying |-> \E d \in began[t].flying : d.id = arg[t]]}
               ELSE missed
  /\ End(t)
  /\ UNCHANGED <<data, batch, calls, failures, serial, known, dead>>

\* What a delete of id leaves of the histories: no read of it is sure now.
Unsure(id) ==
  [u \in Tasks |-> IF arg[u] = id THEN [began[u] EXCEPT !.sure = FALSE] ELSE began[u]]

\* Faulty variant of Delete: only the inner store is asked.
DeleteInnerOnly(t, id) ==
  /\ Begin(t, id, "erase")
  /\ known' = known \ {id}
  /\ began' = [Unsure(id) EXCEPT ![t] = Found(t, id)]
  /\ UNCHANGED <<data, batch, failures, serial, dead, missed>>

\* delete removes the id from the buffer, then from the inner store.
Delete(t, id) ==
  /\ Begin(t, id, "erase")
  /\ pending' = Picked(pending, {i \in DOMAIN pending : pending[i].id # id})
  /\ known' = known \ {id}
  /\ began' = [Unsure(id) EXCEPT ![t] = Found(t, id)]
  /\ UNCHANGED <<inner, batch, failures, serial, dead, missed>>

Erase(t) ==
  /\ pc[t] = "erase"
  /\ inner' = [inner EXCEPT ![arg[t]] = 0]
  /\ dead' = IF \E d \in began[t].flying : d.id = arg[t] THEN dead
             ELSE [dead EXCEPT ![arg[t]] = IF @ < began[t].serial THEN began[t].serial ELSE @]
  /\ known' = known \ {arg[t]}
  /\ began' = [Unsure(arg[t]) EXCEPT ![t] = Nothing]
  /\ Finish(t)
  /\ UNCHANGED <<pending, batch, calls, failures, serial, missed>>

EraseFails(t) ==
  /\ pc[t] = "erase" /\ Failure
  /\ End(t)
  /\ UNCHANGED <<data, batch, calls, serial, known, dead, missed>>

Next ==
  \E t \in Tasks :
    \/ \E id \in Ids :
         \/ SaveDecision(t, id) \/ SaveDecisions(t, id)
         \/ LoadDecision(t, id) \/ Delete(t, id)
    \/ TakeFull(t) \/ Flush(t) \/ WriteLands(t) \/ WriteFails(t)
    \/ FlushInner(t) \/ LoadInner(t) \/ Erase(t) \/ EraseFails(t)

Spec == Init /\ [][Next]_vars

------------------------------------------------------------------------------
Decision == [id : Ids, n : 1..serial]

Holding == {"write", "direct"}

TypeOK ==
  /\ pending \in Seq(Decision)
  /\ inner \in [Ids -> 0..serial] /\ dead \in [Ids -> 0..serial]
  /\ pc \in [Tasks -> {"idle", "take", "write", "direct", "flush", "fetch", "erase"}]
  /\ arg \in [Tasks -> Ids \union {NoId}]
  /\ batch \in [Tasks -> Seq(Decision)]
  /\ calls \in 0..MaxCalls /\ failures \in 0..MaxFailures /\ serial \in 0..calls
  /\ known \subseteq Ids
  /\ began \in [Tasks -> [serial : 0..serial, flying : SUBSET Decision, sure : BOOLEAN]]
  /\ missed \subseteq [id : Ids, flying : BOOLEAN]
  \* A call holds decisions exactly while it is writing them.
  /\ \A t \in Tasks : (batch[t] # << >>) <=> (pc[t] \in Holding)

HeldAt(s) == InFlight({t \in Tasks : pc[t] = s})

Owed == Range(pending) \union HeldAt("write")

Deletes == {<<t, arg[t]>> : t \in {u \in Tasks : pc[u] = "erase"}}

Contract == INSTANCE WriteBehind WITH
  Callers <- Tasks, issued <- serial, owed <- Owed, loose <- HeldAt("direct"),
  stored <- inner, deletes <- Deletes

\* Conservation: whatever calls overlap and whichever writes fail, a decision
\* save_decision accepted is in the buffer or in exactly the batch a call is
\* writing until it is written or deleted, and it is not written twice.
ImplementsWriteBehind == Contract!Spec

\* The batch size bounds the buffer: unless a write failed, no schedule of
\* overlapping saves leaves a full batch behind for nobody to write.
FullBatchesLeave ==
  (failures = 0 /\ \A t \in Tasks : pc[t] = "idle") => Len(pending) < BatchSize

\* A flush whose batch has been written leaves nothing accepted before it in
\* memory but what other calls were writing when it began.
FlushCovers ==
  \A t \in Tasks : pc[t] = "flush" =>
    \A d \in Owed :
      d.n > began[t].serial \/ d \in began[t].flying

\* A delete that succeeds while no call is writing its id is final: no failed
\* batch and no later flush brings back a version saved before it.
DeleteSticks ==
  /\ \A d \in Owed : d.n > dead[d.id]
  /\ \A id \in Ids : inner[id] = 0 \/ inner[id] > dead[id]

\* An acknowledged id is missed by a read only if a call was writing it when
\* the read looked at the buffer.
MissesAreInFlight == \A m \in missed : m.flying

\* The documented promise: an id returned by save_decision resolves at once.
\* False while another call has taken its batch and not yet written it.
AcknowledgedResolves == missed = {}

\* For TLC: tasks and ids are interchangeable.
Symmetry == Permutations(Tasks) \union Permutations(Ids)
==============================================================================
