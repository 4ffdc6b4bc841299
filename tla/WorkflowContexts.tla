---------------------------- MODULE WorkflowContexts ----------------------------
(***************************************************************************)
(* correlation/: workflows are blocks that a task enters and leaves, the   *)
(* current workflow is kept per thread and the trace context per task, and *)
(* the headers a task sends are made of both.  Several tasks may take      *)
(* turns on one thread, as the coroutines of an event loop do.             *)
(***************************************************************************)
EXTENDS Naturals, Sequences

CONSTANTS
  Threads, Tasks,
  ThreadOf,               \* the thread a task runs on
  MaxDepth, MaxWorkflows  \* bounds of the model

WorkflowAssumption ==
  ThreadOf \in [Tasks -> Threads] /\ MaxDepth \in Nat /\ MaxWorkflows \in Nat

None == 0
Remote == MaxWorkflows + 1     \* the caller's workflow, in extracted headers

VARIABLES
  current,   \* the thread-local workflow_context
  context,   \* each task's trace context: the workflow whose span is the active one
  blocks,    \* each task's blocks, innermost first: [workflow, saved, span, prev, agents, stuck]
  stuck,     \* history: a workflow's span could not be finalized since the task entered
             \* the innermost of its traced blocks (a block keeps what held before it)
  owner      \* history: the tasks of the workflows made so far

vars == <<current, context, blocks, stuck, owner>>

Init ==
  /\ current = [th \in Threads |-> None]
  /\ context = [t \in Tasks |-> None]
  /\ blocks = [t \in Tasks |-> << >>]
  /\ stuck = [t \in Tasks |-> FALSE]
  /\ owner = << >>

Push(t, block) == blocks' = [blocks EXCEPT ![t] = <<block>> \o @]
Pop(t) == blocks' = [blocks EXCEPT ![t] = Tail(@)]

\* __enter__: when no span can be started the trace context stays the old one.
Enter(t, traced) ==
  /\ Len(owner) < MaxWorkflows /\ Len(blocks[t]) < MaxDepth
  /\ owner' = Append(owner, t)
  /\ context' = IF traced THEN [context EXCEPT ![t] = Len(owner) + 1] ELSE context
  /\ stuck' = IF traced THEN [stuck EXCEPT ![t] = FALSE] ELSE stuck
  /\ Push(t, [workflow |-> Len(owner) + 1, saved |-> context[t], span |-> traced,
              prev |-> current[ThreadOf[t]], agents |-> 0, stuck |-> stuck[t]])
  /\ current' = [current EXCEPT ![ThreadOf[t]] = Len(owner) + 1]

\* Faulty variant of Restored: what encloses the block is forgotten.
RestoredNone(block) == None

Restored(block) == block.prev

\* __exit__, of a block left normally or by an exception.  The trace context is
\* detached last: when an attribute, the status (the text of the exception) or the
\* end of the span raises, it is not detached at all, and only that is skipped.
Exit(t, finalized) ==
  /\ blocks[t] # << >> /\ Head(blocks[t]).workflow # Remote
  /\ LET block == Head(blocks[t])
     IN  /\ context' = IF block.span /\ finalized THEN [context EXCEPT ![t] = block.saved] ELSE context
         /\ stuck' = IF block.span THEN [stuck EXCEPT ![t] = finalized => block.stuck] ELSE stuck
         /\ current' = [current EXCEPT ![ThreadOf[t]] = Restored(block)]
  /\ Pop(t)
  /\ UNCHANGED owner

\* register_agent of the innermost workflow of the task.
RegisterAgent(t) ==
  /\ blocks[t] # << >> /\ Head(blocks[t]).workflow # Remote /\ Head(blocks[t]).agents = 0
  /\ blocks' = [blocks EXCEPT ![t][1].agents = 1]
  /\ UNCHANGED <<current, context, stuck, owner>>

\* get_current_workflow.
CurrentWorkflow(t) == current[ThreadOf[t]]

\* inject: traceparent from the trace context, tracestate from the workflow.
InjectedHeaders(t) == [workflow |-> CurrentWorkflow(t), span |-> context[t]]

\* extract attaches the caller's context, which the task later detaches.
Extract(t) ==
  /\ Len(blocks[t]) < MaxDepth
  /\ context' = [context EXCEPT ![t] = Remote]
  /\ stuck' = [stuck EXCEPT ![t] = FALSE]
  /\ Push(t, [workflow |-> Remote, saved |-> context[t], span |-> TRUE, prev |-> None, agents |-> 0,
              stuck |-> stuck[t]])
  /\ UNCHANGED <<current, owner>>

Detach(t) ==
  /\ blocks[t] # << >> /\ Head(blocks[t]).workflow = Remote
  /\ context' = [context EXCEPT ![t] = Head(blocks[t]).saved]
  /\ stuck' = [stuck EXCEPT ![t] = Head(blocks[t]).stuck]
  /\ Pop(t)
  /\ UNCHANGED <<current, owner>>

Next ==
  \E t \in Tasks :
    \/ \E traced \in BOOLEAN : Enter(t, traced)
    \/ \E finalized \in BOOLEAN : Exit(t, finalized)
    \/ RegisterAgent(t) \/ Extract(t) \/ Detach(t)

Spec == Init /\ [][Next]_vars

------------------------------------------------------------------------------
\* Properties

TypeOK ==
  /\ current \in [Threads -> 0..MaxWorkflows] /\ context \in [Tasks -> 0..Remote]
  /\ owner \in Seq(Tasks) /\ Len(owner) <= MaxWorkflows /\ stuck \in [Tasks -> BOOLEAN]
  /\ \A t \in Tasks : Len(blocks[t]) <= MaxDepth /\ context[t] \notin Len(owner) + 1..MaxWorkflows

Workflows(t) == {i \in DOMAIN blocks[t] : blocks[t][i].workflow # Remote}
Traced(t) == {i \in DOMAIN blocks[t] : blocks[t][i].span}

\* w is the workflow of the innermost of some blocks of a task, if there is one.
IsInnermost(w, t, places) ==
  \/ places = {} /\ w = None
  \/ \E i \in places : w = blocks[t][i].workflow /\ \A j \in places : i <= j

Alone(t) == \A u \in Tasks \ {t} : ThreadOf[u] # ThreadOf[t]

\* w is no workflow, or one that a task of some tasks entered.
EnteredBy(w, tasks) == w = None \/ (w \in DOMAIN owner /\ owner[w] \in tasks)

\* A task that has its thread to itself is always in the workflow it entered
\* last, through nested workflows, spans that could not be started or finalized and
\* contexts it extracted; its headers name that one, and none once it has left them
\* all.  Where tasks take turns on a thread the code gives them one another's
\* workflow, but never that of a task of another thread (__enter__, __exit__, inject).
WorkflowsNest ==
  \A t \in Tasks :
    /\ Alone(t) => IsInnermost(InjectedHeaders(t).workflow, t, Workflows(t))
    /\ EnteredBy(InjectedHeaders(t).workflow, {u \in Tasks : ThreadOf[u] = ThreadOf[t]})

\* The trace context follows the task, not the thread: what tasks that take turns
\* enter and leave on its thread never moves a task's spans to another's trace.  A
\* task that leaves a workflow whose span cannot be finalized stays in that finished
\* one's trace, but no longer than the enclosing traced block: within the next one it
\* enters, and after the enclosing one, its spans are where they belong again
\* (inject, extract, __enter__, __exit__).
TracesFollowTasks ==
  \A t \in Tasks :
    LET span == InjectedHeaders(t).span
    IN  /\ span = Remote \/ EnteredBy(span, {t})
        /\ ~ stuck[t] => IsInnermost(span, t, Traced(t))
==============================================================================
