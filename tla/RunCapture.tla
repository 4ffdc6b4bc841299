------------------------------- MODULE RunCapture -------------------------------
(***************************************************************************)
(* The handlers that listen to the runs of an agent framework and pair     *)
(* their starts and ends by identifier: BriefcaseLangChainHandler,         *)
(* BriefcaseLlamaIndexHandler and OpenAIAgentsTracer.  The framework is    *)
(* external: runs nest and overlap, and a run outlives its children and    *)
(* the callbacks of their ends, except that a span may outlive its trace.  *)
(* It calls the handler in the thread of the run.  A callback that raises  *)
(* does not disturb the run: what it was to note or to record is lost.     *)
(***************************************************************************)
EXTENDS Integers, Sequences, FiniteSets, SequencesExt

CONSTANTS
  Handlers,   \* those that are considered
  Captured,   \* the kinds of runs that are captured
  MaxRuns,    \* bounds of the model: on the runs of each handler's framework,
  MaxKinds    \* and on the kinds among them

RunAssumption ==
  /\ Handlers \subseteq {"langchain", "llamaindex", "agents"}
  /\ MaxRuns \in [Handlers -> Nat] /\ MaxKinds \in Nat

VARIABLES
  handler,
  runs,       \* the framework's, in the order of their starts
  inflight,   \* the handler's unfinished runs, oldest first
  decisions,  \* what it recorded: runs with their outcomes; of the agents, of traces
  spans,      \* of the agents, the spans of each trace that is in flight
  exports,    \* the exported records with the children that they carry
  taken,      \* what end callbacks took out of flight and have not recorded yet
  kept,       \* history: the captured runs that no clear has dropped
  lost,       \* history: runs at whose start or end the callback raised
  misled      \* history: runs that failed without a name while another was the newest in
              \* flight, and the ones that were taken for them

vars == <<handler, runs, inflight, decisions, spans, exports, taken, kept, lost, misled>>

Ids == DOMAIN runs
None == 0
Open(r) == runs[r].state = "open"
Parents == {None} \union Ids
Children(r) == {c \in Ids : runs[c].parent = r}

Init ==
  /\ handler \in Handlers
  /\ runs = << >> /\ inflight = << >> /\ decisions = << >> /\ exports = << >>
  /\ spans = {} /\ taken = {} /\ kept = {} /\ lost = {} /\ misled = {}

------------------------------------------------------------------------------
\* The framework starts a run.
Starts(kind, parent) ==
  /\ Len(runs) < MaxRuns[handler] /\ Cardinality({runs[i].kind : i \in Ids} \union {kind}) <= MaxKinds
  /\ parent # None => Open(parent)
  /\ runs' = Append(runs, [kind |-> kind, parent |-> parent, state |-> "open"])

\* It ends one, whose children have ended.
Ends(r, state) ==
  /\ Open(r) /\ \A c \in Children(r) : ~ Open(c) /\ \A x \in taken : x.by # c
  /\ runs' = [runs EXCEPT ![r].state = state]

\* A handler notes a start, or does not care for the kind.  What it looks up in the
\* arguments may raise before it has noted anything.
Begin(kind, parent) ==
  /\ Starts(kind, parent)
  /\ LET r == Len(runs) + 1
     IN  /\ kept' = IF kind \in Captured THEN kept \union {r} ELSE kept
         /\ \/ /\ inflight' = IF kind \in Captured THEN Append(inflight, r) ELSE inflight
               /\ UNCHANGED lost
            \/ kind \in Captured /\ lost' = lost \union {r} /\ UNCHANGED inflight
  /\ UNCHANGED <<handler, decisions, spans, exports, taken, misled>>

InFlight(r) == r \in ToSet(inflight)

\* An end callback of run by takes run r out of flight, if it knows it.
Take(r, outcome, by) ==
  IF InFlight(r)
  THEN /\ inflight' = Remove(inflight, r)
       /\ taken' = taken \union {[run |-> r, outcome |-> outcome, by |-> by]}
  ELSE UNCHANGED <<inflight, taken>>

Finish(r, outcome) ==
  /\ Ends(r, outcome) /\ Take(r, outcome, r)
  /\ UNCHANGED <<handler, decisions, spans, exports, kept, lost, misled>>

------------------------------------------------------------------------------
\* BriefcaseLangChainHandler

LangChain(r, kinds) == handler = "langchain" /\ r \in Ids /\ runs[r].kind \in kinds

OnLlmStart(parent) == handler = "langchain" /\ Begin("llm", parent)
OnChatModelStart(parent) == handler = "langchain" /\ Begin("chat", parent)
OnChainStart(parent) == handler = "langchain" /\ Begin("chain", parent)
OnToolStart(parent) == handler = "langchain" /\ Begin("tool", parent)
OnRetrieverStart(parent) == handler = "langchain" /\ Begin("retriever", parent)

OnLlmEnd(r) == LangChain(r, {"llm", "chat"}) /\ Finish(r, "ended")
OnToolEnd(r) == LangChain(r, {"tool"}) /\ Finish(r, "ended")
OnRetrieverEnd(r) == LangChain(r, {"retriever"}) /\ Finish(r, "ended")

OnLlmError(r) == LangChain(r, {"llm", "chat"}) /\ Finish(r, "failed")
OnToolError(r) == LangChain(r, {"tool"}) /\ Finish(r, "failed")
OnRetrieverError(r) == LangChain(r, {"retriever"}) /\ Finish(r, "failed")

OnChainEnd(r) == LangChain(r, {"chain"}) /\ Finish(r, "ended")
OnChainError(r) == LangChain(r, {"chain"}) /\ Finish(r, "failed")

\* Faulty variant of the children: those that are still known as in flight.
ChildrenInFlight(r) == {c \in ToSet(inflight) : runs[c].parent = r}

\* _assemble_decision_record: the recorded runs that name this one as their parent.
RecordedChildren(r) ==
  {decisions[i].run : i \in {i \in DOMAIN decisions : runs[decisions[i].run].parent = r}}

------------------------------------------------------------------------------
\* BriefcaseLlamaIndexHandler

LlamaKinds == {"llm", "embedding", "retrieve", "query", "synthesize"}

\* on_event_start calls the handler of its kind.
OnEventStart(kind, parent) ==
  handler = "llamaindex" /\ kind \in LlamaKinds /\ Begin(kind, parent)

OnEventEnd(r, kind) ==
  handler = "llamaindex" /\ r \in Ids /\ runs[r].kind = kind /\ Finish(r, "ended")

\* The start and the end handler of each kind.
Events(kind) ==
  \/ \E p \in Parents : OnEventStart(kind, p)
  \/ \E r \in Ids : OnEventEnd(r, kind)

LlmEvents == Events("llm")
EmbeddingEvents == Events("embedding")
RetrieveEvents == Events("retrieve")
SynthesizeEvents == Events("synthesize")
QueryEvents == Events("query")

\* Faulty variant of the fallback: the oldest.
OldestInFlight == Head(inflight)

\* The fallback of an exception that names no run in flight.
NewestInFlight == Last(inflight)

\* _on_exception: the event names the run that failed, or itself.
OnException(r, named) ==
  /\ handler = "llamaindex" /\ r \in Ids /\ Ends(r, "failed")
  /\ IF named /\ InFlight(r) THEN Take(r, "failed", r) /\ UNCHANGED misled
     ELSE IF inflight # << >>
     THEN /\ Take(NewestInFlight, "failed", r)
          /\ misled' = IF Last(inflight) = r THEN misled ELSE misled \union {r, NewestInFlight}
     ELSE UNCHANGED <<inflight, taken, misled>>
  /\ UNCHANGED <<handler, decisions, spans, exports, kept, lost>>

------------------------------------------------------------------------------
\* The rest of an end callback.

\* What is exported: a chain that ended at the top, with its children, and a query that
\* ended, at any depth, by itself.
IsExported(r, outcome) ==
  /\ outcome = "ended"
  /\ \/ handler = "langchain" /\ runs[r].kind = "chain" /\ runs[r].parent = None
     \/ handler = "llamaindex" /\ runs[r].kind = "query"

\* The outputs or the text of the error are made, and the run is recorded and exported.
RecordRun(x) ==
  /\ taken' = taken \ {x}
  /\ decisions' = Append(decisions, [run |-> x.run, outcome |-> x.outcome])
  /\ exports' = IF IsExported(x.run, x.outcome)
                THEN Append(exports, [run |-> x.run, children |->
                       IF handler = "langchain" THEN RecordedChildren(x.run) ELSE {}])
                ELSE exports
  /\ UNCHANGED <<handler, runs, inflight, spans, kept, lost, misled>>

\* Or they raise, and the record is lost.
LoseRun(x) ==
  /\ taken' = taken \ {x} /\ lost' = lost \union {x.run}
  /\ UNCHANGED <<handler, runs, inflight, decisions, spans, exports, kept, misled>>

------------------------------------------------------------------------------
\* OpenAIAgentsTracer

OnTraceStart ==
  handler = "agents" /\ Begin("trace", None)

\* The start of a span is only a time.
OnSpanStart(trace) ==
  /\ handler = "agents" /\ trace \in Ids /\ runs[trace].kind = "trace" /\ Starts("span", trace)
  /\ kept' = IF InFlight(trace) THEN kept \union {Len(runs) + 1} ELSE kept
  /\ UNCHANGED <<handler, inflight, decisions, spans, exports, taken, lost, misled>>

\* A span joins its trace if that is in flight, and is lost otherwise or when its record
\* cannot be built.
OnSpanEnd(s) ==
  /\ handler = "agents" /\ s \in Ids /\ runs[s].kind = "span" /\ Ends(s, "ended")
  /\ \/ /\ spans' = IF InFlight(runs[s].parent) THEN spans \union {s} ELSE spans
        /\ UNCHANGED lost
     \/ lost' = lost \union {s} /\ UNCHANGED spans
  /\ UNCHANGED <<handler, inflight, decisions, exports, taken, kept, misled>>

\* Nothing between the taking out of a trace and its record can raise.
OnTraceEnd(t) ==
  /\ handler = "agents" /\ t \in Ids /\ runs[t].kind = "trace" /\ Open(t)
  /\ runs' = [runs EXCEPT ![t].state = "ended"]
  /\ IF InFlight(t)
     THEN /\ inflight' = Remove(inflight, t)
          /\ decisions' = Append(decisions, [run |-> t, outcome |-> "ended"])
          /\ exports' = Append(exports, [run |-> t, children |-> {s \in spans : runs[s].parent = t}])
     ELSE UNCHANGED <<inflight, decisions, exports>>
  /\ spans' = {s \in spans : runs[s].parent # t}
  /\ UNCHANGED <<handler, taken, kept, lost, misled>>

\* shutdown drops what is in flight and keeps the records.
Shutdown ==
  /\ handler = "agents" /\ inflight # << >>
  /\ inflight' = << >> /\ spans' = {}
  /\ kept' = kept \ {r \in kept : InFlight(r) \/ InFlight(runs[r].parent)}
  /\ UNCHANGED <<handler, runs, decisions, exports, taken, lost, misled>>

------------------------------------------------------------------------------
\* Faulty variant of Clear: what is in flight stays.
ClearRecords ==
  /\ kept # {}
  /\ decisions' = << >> /\ kept' = {}
  /\ UNCHANGED <<handler, runs, inflight, spans, exports, taken, lost, misled>>

\* clear of any of the three.  What an end callback holds is recorded after it.
Clear ==
  /\ kept # {}
  /\ decisions' = << >> /\ inflight' = << >> /\ spans' = {}
  /\ kept' = {x.run : x \in taken}
  /\ lost' = lost \intersect kept' /\ misled' = misled \intersect kept'
  /\ UNCHANGED <<handler, runs, exports, taken>>

Next ==
  \/ \E p \in Parents : \/ OnLlmStart(p) \/ OnChatModelStart(p) \/ OnChainStart(p)
                        \/ OnToolStart(p) \/ OnRetrieverStart(p)
  \/ \E r \in Ids : \/ OnLlmEnd(r) \/ OnChainEnd(r) \/ OnToolEnd(r) \/ OnRetrieverEnd(r)
                    \/ OnLlmError(r) \/ OnChainError(r) \/ OnToolError(r) \/ OnRetrieverError(r)
                    \/ \E named \in BOOLEAN : OnException(r, named)
                    \/ OnSpanStart(r) \/ OnSpanEnd(r) \/ OnTraceEnd(r)
  \/ LlmEvents \/ EmbeddingEvents \/ RetrieveEvents \/ SynthesizeEvents \/ QueryEvents
  \/ \E x \in taken : RecordRun(x) \/ LoseRun(x)
  \/ OnTraceStart \/ Shutdown \/ Clear

Spec == Init /\ [][Next]_vars

------------------------------------------------------------------------------
\* Properties

TypeOK ==
  /\ handler \in Handlers
  /\ runs \in Seq([kind : LlamaKinds \union {"chat", "chain", "tool", "retriever", "trace", "span"},
                   parent : Parents, state : {"open", "ended", "failed"}])
  /\ inflight \in Seq(Ids) /\ spans \subseteq Ids /\ kept \subseteq Ids
  /\ lost \subseteq Ids /\ misled \subseteq Ids
  /\ taken \subseteq [run : Ids, outcome : {"ended", "failed"}, by : Ids]
  /\ decisions \in Seq([run : Ids, outcome : {"ended", "failed"}])
  /\ exports \in Seq([run : Ids, children : SUBSET Ids])

\* However runs overlap, fail and are cleared away, no run is recorded twice or
\* before it ended, and a run that ended and was not cleared has a record, which says
\* how it ended.  Three things the code does to the contrary are left out: what a
\* callback was to note or record when it raised (the starts that swallow, the ends
\* that take the run out first), what an end callback holds, and LlamaIndex runs that
\* failed without a name while another was the newest in flight: that other one is
\* recorded as failed, though it may go on, and the one that failed is not recorded
\* (_inflight and _decisions of the handlers, _on_exception).
RunsAreRecordedOnce ==
  /\ \A r \in kept \ (lost \union misled) :
       runs[r].kind # "span" /\ ~ Open(r) /\ (\A x \in taken : x.run # r) =>
         [run |-> r, outcome |-> runs[r].state] \in ToSet(decisions)
  /\ \A i \in DOMAIN decisions :
       LET r == decisions[i].run
       IN  /\ r \in kept /\ (Open(r) => r \in misled)
           /\ \A j \in DOMAIN decisions \ {i} : decisions[j].run # r

\* A chain or a trace is exported with all of its captured children that have
\* ended by then and were not lost to a callback that raised, and with nothing else
\* (_assemble_decision_record, on_span_end).  Of every step.
ExportsCarryTheirChildren ==
  exports' # exports /\ handler # "llamaindex" =>
    LET e == Last(exports')
    IN  e.children = {c \in Children(e.run) : c \in kept \ lost /\ ~ Open(c)}
==============================================================================
