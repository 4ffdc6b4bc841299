---------------------------- MODULE Instrumentation ----------------------------
(***************************************************************************)
(* briefcase.auto and the handlers it installs in AI frameworks: auto()    *)
(* and undo() from several threads, agents made and events fired while     *)
(* handlers come and go, and the chats of a PageIndex client.  Frameworks  *)
(* are external and importable.  langchain, ag2 and pageindex are          *)
(* instrumented by replacing an attribute with a wrapper of what it was,   *)
(* the others by a handler on a bus, a manager or a logger.  A handler is  *)
(* the number of its construction.                                         *)
(***************************************************************************)
EXTENDS Naturals, Sequences, FiniteSets, Functions

CONSTANTS
  Threads, Agents,
  Frameworks,             \* those in use, of _SUPPORTED
  MaxHandlers, MaxDepth   \* bounds: handlers made, and Python's recursion limit

InstrumentationAssumption ==
  /\ Frameworks \subseteq {"langchain", "llamaindex", "ag2", "crewai", "openai-agents", "autogen",
                           "pageindex"}
  /\ MaxHandlers \in Nat /\ MaxDepth \in Nat

Wrapped == {"langchain", "ag2", "pageindex"} \intersect Frameworks
Installers == {"openai-agents", "autogen"}

VARIABLES
  patches,    \* _PATCHES: framework -> its handler; 0 when there is none
  wrappers,   \* the handlers wrapped around the attribute, innermost first
  originals,  \* what undo will set the attribute to
  bus,        \* the handlers the framework calls
  installed,  \* _INSTALLED_HANDLER, _INSTALLED_PROCESSOR
  pending,    \* of each thread, the auto() it is in: at most one
  made,
  hooks,      \* the tracers hooked on each agent, once for each registration
  raced,      \* history: frameworks two threads were instrumenting at a time
  manual,     \* history: agents instrumented by hand
  last,       \* the records the last event left: the handlers that made them
  depth,      \* of the PageIndex chat: how many calls are on the stack
  answer      \* of the last chat

patching == <<patches, wrappers, originals, bus, installed, pending, made, raced>>
events == <<hooks, manual, last>>
chat == <<depth, answer>>
vars == <<patching, events, chat>>

NoHandler == 0

Init ==
  /\ patches = [f \in Frameworks |-> NoHandler] /\ installed = patches
  /\ wrappers = [f \in Frameworks |-> << >>] /\ originals = wrappers
  /\ bus = [f \in Frameworks |-> {}]
  /\ pending = [t \in Threads |-> << >>] /\ made = 0
  /\ hooks = [a \in Agents |-> << >>] /\ raced = {} /\ manual = {}
  /\ last = [of |-> "none", by |-> << >>]
  /\ depth = 0 /\ answer = "none"

------------------------------------------------------------------------------
\* auto() and undo().

InProgress(f) == \E t \in Threads : pending[t] # << >> /\ pending[t][1].framework = f

\* auto, first half: the framework is not patched, and a handler is constructed;
\* install returns the one it has.
StartAuto(t, f) ==
  /\ pending[t] = << >> /\ patches[f] = NoHandler
  /\ IF installed[f] # NoHandler
       THEN /\ pending' = [pending EXCEPT ![t] = <<[framework |-> f, handler |-> installed[f]]>>]
            /\ UNCHANGED made
       ELSE /\ made < MaxHandlers /\ made' = made + 1
            /\ pending' = [pending EXCEPT ![t] = <<[framework |-> f, handler |-> made']>>]
  /\ raced' = IF InProgress(f) THEN raced \union {f} ELSE raced
  /\ UNCHANGED <<patches, wrappers, originals, bus, installed>>
  /\ UNCHANGED events /\ UNCHANGED chat

\* auto, second half: the handler is put in place and registered.
FinishAuto(t) ==
  /\ pending[t] # << >>
  /\ LET f == pending[t][1].framework
         h == pending[t][1].handler
     IN  /\ patches' = [patches EXCEPT ![f] = h]
         /\ IF f \in Wrapped
              THEN /\ originals' = [originals EXCEPT ![f] = wrappers[f]]
                   /\ wrappers' = [wrappers EXCEPT ![f] = Append(@, h)]
                   /\ UNCHANGED bus
              ELSE bus' = [bus EXCEPT ![f] = @ \union {h}] /\ UNCHANGED <<originals, wrappers>>
         /\ installed' = IF f \in Installers THEN [installed EXCEPT ![f] = h] ELSE installed
  /\ pending' = [pending EXCEPT ![t] = << >>]
  /\ UNCHANGED <<made, raced>> /\ UNCHANGED events /\ UNCHANGED chat

\* Faulty variant of UndoOne: attributes are not set back.
UndoForgetting(f) ==
  /\ patches[f] # NoHandler
  /\ patches' = [patches EXCEPT ![f] = NoHandler]
  /\ UNCHANGED <<wrappers, originals, bus, installed, pending, made, raced>>
  /\ UNCHANGED events /\ UNCHANGED chat

\* _undo_one: attributes are set back, and the cleanup of llamaindex and autogen
\* takes the handler off; crewai and openai-agents have none.
UndoOne(f) ==
  /\ patches[f] # NoHandler
  /\ patches' = [patches EXCEPT ![f] = NoHandler]
  /\ wrappers' = IF f \in Wrapped THEN [wrappers EXCEPT ![f] = originals[f]] ELSE wrappers
  /\ bus' = CASE f = "llamaindex" -> [bus EXCEPT ![f] = @ \ {patches[f]}]
              [] f = "autogen" -> [bus EXCEPT ![f] = @ \ {installed[f]}]
              [] OTHER -> bus
  /\ installed' = IF f = "autogen" THEN [installed EXCEPT ![f] = NoHandler] ELSE installed
  /\ UNCHANGED <<originals, pending, made, raced>> /\ UNCHANGED events /\ UNCHANGED chat

\* install of autogen_handler, called without auto.
Install ==
  /\ "autogen" \in Frameworks /\ installed["autogen"] = NoHandler /\ made < MaxHandlers
  /\ made' = made + 1
  /\ installed' = [installed EXCEPT !["autogen"] = made']
  /\ bus' = [bus EXCEPT !["autogen"] = @ \union {made'}]
  /\ raced' = IF InProgress("autogen") THEN raced \union {"autogen"} ELSE raced
  /\ UNCHANGED <<patches, wrappers, originals, pending>> /\ UNCHANGED events /\ UNCHANGED chat

\* uninstall of autogen_handler: auto's entry remains.
Uninstall ==
  /\ "autogen" \in Frameworks /\ installed["autogen"] # NoHandler
  /\ bus' = [bus EXCEPT !["autogen"] = @ \ {installed["autogen"]}]
  /\ installed' = [installed EXCEPT !["autogen"] = NoHandler]
  /\ UNCHANGED <<patches, wrappers, originals, pending, made, raced>>
  /\ UNCHANGED events /\ UNCHANGED chat

------------------------------------------------------------------------------
\* Events.

Listening(f) == IF f \in Wrapped THEN Range(wrappers[f]) ELSE bus[f]

\* A run of langchain, or an event on a bus or in a log: every handler that
\* listens appends a record and exports it.
Emit(f) ==
  /\ f \notin {"ag2", "pageindex"} /\ Listening(f) # {}
  /\ \E by \in [1..Cardinality(Listening(f)) -> Listening(f)] :
       IsInjective(by) /\ last' = [of |-> f, by |-> by]
  /\ UNCHANGED <<hooks, manual>> /\ UNCHANGED patching /\ UNCHANGED chat

\* An agent is constructed: every wrapper of __init__ has its tracer hook it.
MakeAgent(a) ==
  /\ "ag2" \in Frameworks /\ hooks[a] = << >> /\ a \notin manual
  /\ hooks' = [hooks EXCEPT ![a] = wrappers["ag2"]]
  /\ UNCHANGED <<manual, last>> /\ UNCHANGED patching /\ UNCHANGED chat

\* instrument: the hooks of this tracer too, which may be there already.
Instrument(a, h) ==
  /\ "ag2" \in Frameworks /\ h = patches["ag2"] /\ h # NoHandler /\ a \notin manual
  /\ hooks' = [hooks EXCEPT ![a] = Append(@, h)] /\ manual' = manual \union {a}
  /\ UNCHANGED last /\ UNCHANGED patching /\ UNCHANGED chat

\* One of the seven hooks fires: every registration appends a record, and hands
\* on what it was given.
FireHooks(a) ==
  /\ hooks[a] # << >> /\ last' = [of |-> a, by |-> hooks[a]]
  /\ UNCHANGED <<hooks, manual>> /\ UNCHANGED patching /\ UNCHANGED chat

------------------------------------------------------------------------------
\* PageIndexClient.chat_completions.

Chat ==
  /\ "pageindex" \in Frameworks /\ depth = 0
  /\ depth' = 1 /\ answer' = "none" /\ UNCHANGED patching /\ UNCHANGED events

\* The wrapper points the tracer at the client, and the tracer calls the
\* client's chat_completions, which is the wrapper.
PatchedChat ==
  /\ depth \in 1..MaxDepth - 1 /\ wrappers["pageindex"] # << >>
  /\ depth' = depth + 1 /\ UNCHANGED answer /\ UNCHANGED patching /\ UNCHANGED events

\* The stack is full: every call on it records an error and raises it again.
TooDeep ==
  /\ depth > 0 /\ depth = MaxDepth /\ wrappers["pageindex"] # << >>
  /\ depth' = 0 /\ answer' = "RecursionError" /\ UNCHANGED patching /\ UNCHANGED events

\* The client itself, when nothing is wrapped around it any more; the API may
\* fail, which the tracer records and raises again.
Answer(a) ==
  /\ depth > 0 /\ wrappers["pageindex"] = << >>
  /\ depth' = 0 /\ answer' = a /\ UNCHANGED patching /\ UNCHANGED events

Next ==
  \/ \E t \in Threads : FinishAuto(t) \/ \E f \in Frameworks : StartAuto(t, f)
  \/ \E f \in Frameworks : UndoOne(f) \/ Emit(f)
  \/ Install \/ Uninstall
  \/ \E a \in Agents : MakeAgent(a) \/ FireHooks(a) \/ \E h \in 1..made : Instrument(a, h)
  \/ Chat \/ PatchedChat \/ TooDeep \/ \E a \in {"response", "api_error"} : Answer(a)

Spec == Init /\ [][Next]_vars

------------------------------------------------------------------------------
\* Properties

Handler == 0..MaxHandlers

TypeOK ==
  /\ patches \in [Frameworks -> Handler] /\ installed \in [Frameworks -> Handler]
  /\ wrappers \in [Frameworks -> Seq(1..made)] /\ originals \in [Frameworks -> Seq(1..made)]
  /\ bus \in [Frameworks -> SUBSET (1..made)] /\ made \in Handler
  /\ pending \in [Threads -> Seq([framework : Frameworks, handler : 1..made])]
  /\ hooks \in [Agents -> Seq(1..made)] /\ raced \subseteq Frameworks /\ manual \subseteq Agents
  /\ depth \in 0..MaxDepth
  /\ answer \in {"none", "response", "api_error", "RecursionError"}

\* What undo took away listens no more: a handler in a framework is the one auto
\* or install knows of, unless two threads instrumented the framework at once.
\* Not so for crewai, whose listener cannot be taken off (_undo_one, install).
UndoneIsSilent ==
  \A f \in Frameworks \ (raced \union {"crewai"}) : Listening(f) \subseteq {patches[f], installed[f]}

\* An event leaves one record, however often auto, undo and install were called:
\* no handler is put in place twice, none is left below another, and an agent
\* is hooked once, unless somebody also did so by hand (auto, _patched_init).
EventsAreRecordedOnce ==
  /\ \A f \in Frameworks \ (raced \union {"crewai"}) : Cardinality(Listening(f)) <= 1
  /\ \A a \in Agents \ manual : "ag2" \notin raced => Len(hooks[a]) <= 1
  /\ (last.of \notin raced \union {"crewai"} \union manual /\ "ag2" \notin raced) => Len(last.by) <= 1

\* What chat_completions of an instrumented client does when the API answers:
\* it returns the response (PageIndexTracer.chat_completions).
ChatsAreAnswered == answer # "RecursionError"
==============================================================================
