-------------------------- MODULE ReflectionTransport --------------------------
(***************************************************************************)
(* The command line's gRPC engine: the schema is read from the server, one *)
(* reflection request at a time, and kept for the process with the calls   *)
(* made from it, under the endpoint and the kind of channel.  The server   *)
(* may stop, and be replaced by another version, between any two requests. *)
(* One endpoint; transports of several threads use the cache without lock. *)
(***************************************************************************)
EXTENDS Naturals, Sequences, FiniteSets, FiniteSetsExt, Functions, TLC

CONSTANTS
  Transports,   \* the transports
  Versions,     \* for each version of the server, its files: name -> the files it imports
  Home,         \* service -> the file that declares it
  Service,      \* SERVICE, the service that is called
  Floor,        \* the services of which the engine needs one
  MaxSwaps      \* bound of the model: stops and starts of the server

TransportAssumption ==
  /\ MaxSwaps \in Nat /\ Floor \subseteq DOMAIN Home /\ Service \in Floor
  /\ \A v \in DOMAIN Versions : UNION Range(Versions[v]) \subseteq DOMAIN Versions[v]

VARIABLES
  server,      \* the version that runs, 0 when none does
  swaps,       \* stops and starts so far
  cache,       \* _CACHE: key -> a schema
  schemas,     \* the _Resolved made: [services, pool, calls]; a call is the transport whose channel it is bound to
  transports,  \* each transport: what it is doing and what it keeps
  refused      \* ghost: transports whose pool was refused though one version served all of it

vars == <<server, swaps, cache, schemas, transports, refused>>

Kinds == {"plain", "tls", "own"}
New == [pc |-> "new", kind |-> "plain", channel |-> "none", schema |-> 0, ready |-> FALSE,
        services |-> {}, todo |-> {}, files |-> << >>, pending |-> {}, versions |-> {}]

Init ==
  /\ server \in 0..Len(Versions) /\ swaps = 0
  /\ cache = << >> /\ schemas = << >> /\ refused = {}
  /\ transports = [t \in Transports |-> New]

\* The server is stopped, or a version of it started.
Swap(v) ==
  /\ swaps < MaxSwaps /\ v # server
  /\ server' = v /\ swaps' = swaps + 1
  /\ UNCHANGED <<cache, schemas, transports, refused>>

At(t, pc) == transports[t].pc = pc
Become(t, state) == transports' = [transports EXCEPT ![t] = state]

\* A transport with a channel factory of its own goes without the cache.
Construct(t, kind) ==
  /\ At(t, "new")
  /\ Become(t, [New EXCEPT !.pc = "idle", !.kind = kind])
  /\ UNCHANGED <<server, swaps, cache, schemas, refused>>

\* The keys it is kept under.
Keys(t) == {transports[t].kind} \ {"own"}

------------------------------------------------------------------------------
\* _get_resolved.

\* A channel is made once and outlives a failure; what the cache has is taken.
Resolve(t) ==
  /\ At(t, "idle") /\ transports[t].schema = 0
  /\ LET had == {cache[k] : k \in Keys(t) \intersect DOMAIN cache}
         dialled == [transports[t] EXCEPT !.channel = IF @ = "none" THEN "open" ELSE @]
     IN IF had # {} THEN \E i \in had : Become(t, [dialled EXCEPT !.schema = i])
        ELSE Become(t, [dialled EXCEPT !.pc = "list"])
  /\ UNCHANGED <<server, swaps, cache, schemas, refused>>

\* Whatever fails, the transport is as before but for its channel: the next use
\* starts again.
Failed(t) == [New EXCEPT !.pc = "idle", !.kind = transports[t].kind, !.channel = transports[t].channel]

\* A request fails when no server is there, the channel is closed or the answer is late.
Fail(t) ==
  /\ transports[t].pc \in {"list", "collect"}
  /\ Become(t, Failed(t))
  /\ UNCHANGED <<server, swaps, cache, schemas, refused>>

Answers(t) == server # 0 /\ transports[t].channel = "open"
Asked(t) == [transports[t] EXCEPT !.versions = @ \union {server}]

ListServices(t) ==
  /\ At(t, "list") /\ Answers(t)
  /\ LET found == {s \in DOMAIN Home : Home[s] \in DOMAIN Versions[server]}
     IN Become(t, [Asked(t) EXCEPT !.pc = "collect", !.services = found, !.todo = found])
  /\ UNCHANGED <<server, swaps, cache, schemas, refused>>

\* New files are kept and what they import is asked for, unless it is there.
Ingest(state, names) ==
  LET new == names \ DOMAIN state.files
      files == state.files @@ [n \in new |-> Versions[server][n]]
  IN [state EXCEPT !.files = files,
                   !.pending = (@ \union UNION {files[n] : n \in new}) \ DOMAIN files]

\* The answer for a file: that file, with as many others as the server likes, or
\* nothing if the server does not know it any more.
Collect(t, state, name) ==
  IF name \notin DOMAIN Versions[server] THEN Become(t, state)
  ELSE \E names \in SUBSET DOMAIN Versions[server] : name \in names /\ Become(t, Ingest(state, names))

\* The file of each service that was listed ...
CollectService(t, s) ==
  /\ At(t, "collect") /\ s \in transports[t].todo /\ Answers(t)
  /\ Collect(t, [Asked(t) EXCEPT !.todo = @ \ {s}], Home[s])
  /\ UNCHANGED <<server, swaps, cache, schemas, refused>>

\* ... and then every import that is still missing.
CollectFile(t, name) ==
  /\ At(t, "collect") /\ transports[t].todo = {} /\ name \in transports[t].pending /\ Answers(t)
  /\ Collect(t, [Asked(t) EXCEPT !.pending = @ \ {name}], name)
  /\ UNCHANGED <<server, swaps, cache, schemas, refused>>

\* Files so that each comes after what it imports; what was not collected is left out.
RECURSIVE Visit(_, _, _, _)
Visit(files, name, stack, ordered) ==
  IF name \in stack \union Range(ordered) \/ name \notin DOMAIN files THEN ordered
  ELSE Append(FoldSet(LAMBDA dep, acc : Visit(files, dep, stack \union {name}, acc), ordered, files[name]),
              name)

ToposortFiles(files) == FoldSet(LAMBDA name, acc : Visit(files, name, {}, acc), << >>, DOMAIN files)

\* A pool takes a file only when it has all that the file imports.
Accepted(files, order) ==
  \A i \in DOMAIN order : files[order[i]] \subseteq {order[j] : j \in 1..(i - 1)}

BuildPool(t) ==
  /\ At(t, "collect") /\ transports[t].todo = {} /\ transports[t].pending = {}
  /\ LET me == transports[t]
         order == ToposortFiles(me.files)
     IN IF Accepted(me.files, order)
        THEN /\ schemas' = Append(schemas, [services |-> me.services, pool |-> Range(order), calls |-> {}])
             /\ cache' = [k \in Keys(t) |-> Len(schemas')] @@ cache
             /\ Become(t, [Failed(t) EXCEPT !.schema = Len(schemas')])
             /\ UNCHANGED refused
        ELSE /\ Become(t, Failed(t))
             /\ refused' = IF Cardinality(me.versions) = 1 THEN refused \union {t} ELSE refused
             /\ UNCHANGED <<schemas, cache>>
  /\ UNCHANGED <<server, swaps>>

------------------------------------------------------------------------------
\* Use.

\* The floor is looked for in the services that were listed, until it was found once.
EnsureReady(t) ==
  /\ At(t, "idle") /\ transports[t].schema # 0 /\ ~transports[t].ready
  /\ schemas[transports[t].schema].services \intersect Floor # {}
  /\ Become(t, [transports[t] EXCEPT !.ready = TRUE])
  /\ UNCHANGED <<server, swaps, cache, schemas, refused>>

\* A unary call is made on the channel of the transport that first wants it, and
\* is used by all that share the schema; there is one method here.  A service the
\* pool lacks is an exception, a server's error an answer: neither changes anything.
Unary(t) ==
  /\ At(t, "idle") /\ transports[t].ready
  /\ LET i == transports[t].schema
     IN /\ Home[Service] \in schemas[i].pool /\ schemas[i].calls = {}
        /\ schemas' = [schemas EXCEPT ![i].calls = {t}]
  /\ UNCHANGED <<server, swaps, cache, transports, refused>>

Close(t) ==
  /\ At(t, "idle") /\ transports[t].channel = "open"
  /\ Become(t, [transports[t] EXCEPT !.channel = "closed"])
  /\ UNCHANGED <<server, swaps, cache, schemas, refused>>

Next ==
  \/ \E v \in 0..Len(Versions) : Swap(v)
  \/ \E t \in Transports :
       \/ \E kind \in Kinds : Construct(t, kind)
       \/ Resolve(t) \/ Fail(t) \/ ListServices(t) \/ BuildPool(t)
       \/ \E s \in DOMAIN Home : CollectService(t, s)
       \/ \E name \in UNION {DOMAIN Versions[v] : v \in DOMAIN Versions} : CollectFile(t, name)
       \/ EnsureReady(t) \/ Unary(t) \/ Close(t)

Spec == Init /\ [][Next]_vars

------------------------------------------------------------------------------
\* Properties

TypeOK ==
  /\ server \in 0..Len(Versions) /\ swaps \in 0..MaxSwaps
  /\ Range(cache) \subseteq DOMAIN schemas
  /\ \A t \in Transports : transports[t].schema \in 0..Len(schemas) /\ transports[t].kind \in Kinds

\* However the files arrive, what one version of the server served is accepted as
\* a pool: no import is left unasked and none comes too late.  A schema whose files
\* are of two versions may be refused (_collect_files, _toposort_files).
ReflectionSucceeds == refused = {}

\* A call is used over the kind of channel its transport was made for, and one
\* made by a transport with a factory of its own by no other, although schemas and
\* calls are shared in the process (_CACHE, ReflectionTransport.unary).
CallsKeepTheirChannel ==
  \A t \in Transports : transports[t].schema # 0 =>
    \A maker \in schemas[transports[t].schema].calls :
      /\ transports[maker].kind = transports[t].kind
      /\ transports[t].kind = "own" => maker = t
==============================================================================
