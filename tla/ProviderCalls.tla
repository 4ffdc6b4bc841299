------------------------------ MODULE ProviderCalls ------------------------------
(***************************************************************************)
(* controls/providers.py, retry.py and throttle.py: completions go down a  *)
(* ladder of providers, a tenant's own credential is in force inside a     *)
(* block and in what is started there, and a caller retries the whole      *)
(* ladder with backoff until a deadline.  A context is a thread or an      *)
(* asyncio task.  A provider follows its contract: it is available when    *)
(* resolve_credential finds it a credential, and asks again for that       *)
(* credential when it completes.                                           *)
(***************************************************************************)
EXTENDS Integers, Sequences, FiniteSets

CONSTANTS
  Contexts, Callers,          \* threads and tasks, and those of them that ask providers
  FallbackOrder,              \* the providers, as fallback_order lists them
  MaxAttempts, Deadline,      \* of retry_call
  Base, Cap, Jitter,          \* of the backoff
  MaxTime, MaxScopes          \* bounds of the model

CallAssumption ==
  /\ Callers \subseteq Contexts
  /\ \A i, j \in DOMAIN FallbackOrder : FallbackOrder[i] = FallbackOrder[j] => i = j
  /\ MaxAttempts \in Nat \ {0}
  /\ {Deadline, Base, Cap, Jitter, MaxTime, MaxScopes} \subseteq Nat

Providers == {FallbackOrder[i] : i \in DOMAIN FallbackOrder}
Platform == "platform"
None == "none"

VARIABLES
  scopes,      \* each context's credentials in force, innermost first
  registered,  \* the providers registered
  env,         \* the providers whose platform credential is in the environment
  calls,       \* each context's completion
  now,
  sent         \* ghost: what was sent last: [scope, provider, credential]

vars == <<scopes, registered, env, calls, now, sent>>

Idle == [pc |-> "idle"]

Init ==
  /\ scopes = [c \in Contexts |-> << >>]
  /\ registered \in SUBSET Providers /\ env \in SUBSET Providers
  /\ calls = [c \in Contexts |-> Idle]
  /\ now = 0 /\ sent = << >>

Goto(c, call) == calls' = [calls EXCEPT ![c] = call]

------------------------------------------------------------------------------
\* Credentials.

\* scoped_credential: entering sets the variable, leaving puts back what it was.
\* The credential for provider p is named p: it is the tenant's.
EnterScope(c, p) ==
  /\ calls[c] = Idle /\ Len(scopes[c]) < MaxScopes
  /\ scopes' = [scopes EXCEPT ![c] = <<p>> \o @]
  /\ UNCHANGED <<registered, env, calls, now, sent>>

LeaveScope(c) ==
  /\ calls[c] = Idle /\ scopes[c] # << >>
  /\ scopes' = [scopes EXCEPT ![c] = Tail(@)]
  /\ UNCHANGED <<registered, env, calls, now, sent>>

\* A task started by another inherits the value in force there, a plain thread
\* starts without any.
Start(c, d) ==
  /\ c # d /\ calls[d] = Idle
  /\ scopes' = [scopes EXCEPT ![d] = IF scopes[c] = << >> THEN << >> ELSE <<Head(scopes[c])>>]
  /\ UNCHANGED <<registered, env, calls, now, sent>>

StartThread(d) ==
  /\ calls[d] = Idle /\ scopes' = [scopes EXCEPT ![d] = << >>]
  /\ UNCHANGED <<registered, env, calls, now, sent>>

ChangeEnv(p) ==
  /\ env' = IF p \in env THEN env \ {p} ELSE env \union {p}
  /\ UNCHANGED <<scopes, registered, calls, now, sent>>

\* Faulty variant of ResolveCredential: other providers fall back to the platform's.
ResolveAny(c, p) ==
  IF scopes[c] # << >> /\ Head(scopes[c]) = p THEN p
  ELSE IF p \in env THEN Platform ELSE None

\* resolve_credential: a scoped credential counts for its own provider only, and
\* shuts out the platform's for every other.
ResolveCredential(c, p) ==
  IF scopes[c] # << >> THEN (IF Head(scopes[c]) = p THEN p ELSE None)
  ELSE IF p \in env THEN Platform ELSE None

------------------------------------------------------------------------------
\* The ladder.

Register(p) ==
  /\ registered' = registered \union {p}
  /\ UNCHANGED <<scopes, env, calls, now, sent>>

\* The preferred provider first, the others in order; each once.
SelectProviders(preferred) ==
  preferred \o SelectSeq(FallbackOrder, LAMBDA p : \A i \in DOMAIN preferred : preferred[i] # p)

CompleteText(c, preferred) ==
  /\ c \in Callers /\ calls[c] = Idle
  /\ Goto(c, [pc |-> "ladder", preferred |-> preferred, ladder |-> SelectProviders(preferred),
              last |-> None, attempt |-> 0, start |-> now, wake |-> now])
  /\ UNCHANGED <<scopes, registered, env, now, sent>>

Usable(c, p) == p \in registered /\ ResolveCredential(c, p) # None

\* The next available provider is looked for when the one before has failed.
Select(c) ==
  /\ calls[c].pc = "ladder"
  /\ \E i \in DOMAIN calls[c].ladder :
       /\ Usable(c, calls[c].ladder[i])
       /\ \A j \in 1..i - 1 : ~Usable(c, calls[c].ladder[j])
       /\ Goto(c, [calls[c] EXCEPT !.pc = "asking", !.ladder = SubSeq(@, i, Len(@))])
  /\ UNCHANGED <<scopes, registered, env, now, sent>>

\* The provider answers or fails.  Without a credential any more nothing is sent.
Complete(c, outcome) ==
  /\ calls[c].pc = "asking"
  /\ LET p == Head(calls[c].ladder)
         credential == ResolveCredential(c, p)
     IN  /\ sent' = IF credential = None THEN sent
                    ELSE <<[scope |-> scopes[c], provider |-> p, credential |-> credential]>>
         /\ IF outcome = "ok" /\ credential # None THEN Goto(c, Idle)
            ELSE Goto(c, [calls[c] EXCEPT !.pc = "ladder", !.ladder = Tail(@),
                                          !.last = IF credential = None THEN "permanent" ELSE outcome])
  /\ outcome \in {"ok", "throttled", "transient", "permanent"}
  /\ (ResolveCredential(c, Head(calls[c].ladder)) = None => outcome = "permanent")
  /\ UNCHANGED <<scopes, registered, env, now>>

------------------------------------------------------------------------------
\* Retries.  NoProviderAvailable carries the last provider's error as its cause.

Classify(error) == [throttled |-> error = "throttled",
                    transient |-> error \in {"throttled", "transient"}]
ShouldRetry(error) == Classify(error).throttled \/ Classify(error).transient

Exponential(attempt) == IF Base * 2 ^ attempt < Cap THEN Base * 2 ^ attempt ELSE Cap
ComputeBackoff(attempt) == Exponential(attempt)..Exponential(attempt) + Jitter

\* Faulty variant of MayWait: the time already gone is forgotten.
MayWaitAlone(call, delay) == delay <= Deadline

MayWait(call, delay) == now - call.start + delay <= Deadline

Exhausted(c) ==
  calls[c].pc = "ladder" /\ \A i \in DOMAIN calls[c].ladder : ~Usable(c, calls[c].ladder[i])

\* retry_call: no provider is left.  The error is raised, or the caller sleeps.
RetryCall(c) ==
  /\ Exhausted(c)
  /\ LET call == calls[c] IN
     \E delay \in ComputeBackoff(call.attempt) :
       IF ShouldRetry(call.last) /\ call.attempt + 1 < MaxAttempts /\ MayWait(call, delay)
       THEN Goto(c, [call EXCEPT !.pc = "sleeping", !.wake = now + delay])
       ELSE Goto(c, Idle)
  /\ UNCHANGED <<scopes, registered, env, now, sent>>

\* retry_call and retry_call_async start the next attempt from the top.
NextAttempt(c) ==
  /\ calls[c].pc = "sleeping" /\ now >= calls[c].wake
  /\ Goto(c, [calls[c] EXCEPT !.pc = "ladder", !.attempt = @ + 1, !.last = None,
                              !.ladder = SelectProviders(calls[c].preferred)])
  /\ UNCHANGED <<scopes, registered, env, now, sent>>

Tick ==
  /\ now < MaxTime /\ now' = now + 1
  /\ UNCHANGED <<scopes, registered, env, calls, sent>>

Next ==
  \/ \E c \in Contexts :
       \/ \E p \in Providers : EnterScope(c, p)
       \/ \E preferred \in {<< >>} \union {<<p>> : p \in Providers} : CompleteText(c, preferred)
       \/ \E outcome \in {"ok", "throttled", "transient", "permanent"} : Complete(c, outcome)
       \/ \E d \in Contexts : Start(c, d)
       \/ LeaveScope(c) \/ StartThread(c) \/ Select(c) \/ RetryCall(c) \/ NextAttempt(c)
  \/ \E p \in Providers : ChangeEnv(p) \/ Register(p)
  \/ Tick

Spec == Init /\ [][Next]_vars

------------------------------------------------------------------------------
\* Properties

TypeOK ==
  /\ \A c \in Contexts : scopes[c] \in Seq(Providers) /\ Len(scopes[c]) <= MaxScopes
  /\ registered \subseteq Providers /\ env \subseteq Providers /\ now \in 0..MaxTime
  /\ \A c \in Contexts : calls[c].pc \in {"idle", "ladder", "asking", "sleeping"}

\* What runs while a tenant's credential is in force, or was started then, goes
\* to that tenant's provider under that credential: no rung of the ladder, no
\* retry and no change of the environment moves it to a platform account
\* (resolve_credential, select_providers, complete_text).
TenantsStayOnTheirKeys ==
  \A i \in DOMAIN sent :
    IF sent[i].scope = << >> THEN sent[i].credential = Platform
    ELSE sent[i].provider = Head(sent[i].scope) /\ sent[i].credential = sent[i].provider

\* Nobody sleeps past the deadline, counted from the first attempt, however long
\* the attempts took (retry_call).
SleepsEndInTime == \A c \in Contexts : calls[c].pc = "sleeping" => calls[c].wake <= calls[c].start + Deadline
==============================================================================
