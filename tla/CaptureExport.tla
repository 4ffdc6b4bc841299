----------------------------- MODULE CaptureExport -----------------------------
(***************************************************************************)
(* The capture decorator and the exporters its records go to: calls of     *)
(* captured functions from several threads, the global configuration, the  *)
(* background worker of _export_mixin (in detail in ExportWorker) and the  *)
(* memory, file, OpenTelemetry and Google Cloud Logging exporters.  The    *)
(* last has a buffer, which exporting threads and a flush or close share   *)
(* without a lock.  A record is the call it is of.                         *)
(***************************************************************************)
EXTENDS Naturals, Sequences, Functions

CONSTANTS
  Calls,
  Exporters,   \* of "memory", "jsonl", "otel", "gcp"
  BatchSize    \* of the GCPCloudLoggingExporter

CaptureAssumption ==
  /\ Exporters \subseteq {"memory", "jsonl", "otel", "gcp"} /\ BatchSize \in Nat \ {0}
  /\ Calls \intersect {"worker", "main"} = {}

Worker == "worker"
Main == "main"
Who == Calls \union {Worker, Main}
NoExporter == "none"

VARIABLES
  configured,  \* BriefcaseConfig.exporter
  calls,       \* idle, running, cancelled, exporting, waited (past the timeout), ended
  to,          \* the exporter the call resolved when it began
  outcome,     \* what its record says it ended with
  queue,       \* the records the worker has not taken
  holds,       \* the one it exports: at most one
  buffer,      \* the buffer of the gcp exporter
  flushes,     \* of each thread: records copied and not sent yet, and is the buffer cleared?
  arrived,     \* what each exporter's destination has, in order
  dropped,     \* history: records lost to an error of their exporter
  shared       \* history: two threads were in the gcp exporter at a time

vars == <<configured, calls, to, outcome, queue, holds, buffer, flushes, arrived, dropped, shared>>
call == <<configured, calls, to, outcome>>

NotFlushing == [records |-> << >>, step |-> "none"]

Init ==
  /\ configured \in Exporters \union {NoExporter}
  /\ calls = [c \in Calls |-> "idle"] /\ to = [c \in Calls |-> NoExporter]
  /\ outcome = [c \in Calls |-> "none"]
  /\ queue = << >> /\ holds = << >> /\ buffer = << >>
  /\ flushes = [w \in Who |-> NotFlushing]
  /\ arrived = [e \in Exporters |-> << >>]
  /\ dropped = {} /\ shared = FALSE

------------------------------------------------------------------------------
\* The decorator.

\* setup, observe, and reset.
Setup(e) ==
  /\ configured # e /\ configured' = e
  /\ UNCHANGED <<calls, to, outcome, queue, holds, buffer, flushes, arrived, dropped, shared>>

\* The wrapper resolves the exporter; without one it captures nothing.
CallBegins(c) ==
  /\ calls[c] = "idle"
  /\ to' = [to EXCEPT ![c] = configured]
  /\ calls' = [calls EXCEPT ![c] = IF configured = NoExporter THEN "ended" ELSE "running"]
  /\ UNCHANGED <<configured, outcome, queue, holds, buffer, flushes, arrived, dropped, shared>>

\* The function returned or raised an Exception: the record is finished, and
\* enqueued or exported on this thread.
CallEnds(c, how, async) ==
  /\ calls[c] = "running"
  /\ outcome' = [outcome EXCEPT ![c] = how]
  /\ IF async THEN queue' = Append(queue, c) /\ calls' = [calls EXCEPT ![c] = "ended"]
              ELSE calls' = [calls EXCEPT ![c] = "exporting"] /\ UNCHANGED queue
  /\ UNCHANGED <<configured, to, holds, buffer, flushes, arrived, dropped, shared>>

\* A cancelled task raises a BaseException, which the wrapper does not catch.
CallCancelled(c) ==
  /\ calls[c] = "running" /\ calls' = [calls EXCEPT ![c] = "cancelled"]
  /\ UNCHANGED <<configured, to, outcome, queue, holds, buffer, flushes, arrived, dropped, shared>>

\* A synchronous export under a running loop is waited for 5 seconds; it goes on.
TimeOut(c) ==
  /\ calls[c] = "exporting" /\ calls' = [calls EXCEPT ![c] = "waited"]
  /\ UNCHANGED <<configured, to, outcome, queue, holds, buffer, flushes, arrived, dropped, shared>>

Take ==
  /\ queue # << >> /\ holds = << >> /\ flushes[Worker] = NotFlushing
  /\ holds' = <<Head(queue)>> /\ queue' = Tail(queue)
  /\ UNCHANGED <<buffer, flushes, arrived, dropped, shared>> /\ UNCHANGED call

------------------------------------------------------------------------------
\* The exporters.

\* w has the record of c to export, and is done with it.
Has(w, c) == IF w = Worker THEN holds = <<c>> ELSE w = c /\ calls[c] \in {"exporting", "waited"}

Done(w) ==
  IF w = Worker THEN holds' = << >> /\ UNCHANGED calls
                ELSE calls' = [calls EXCEPT ![w] = "ended"] /\ UNCHANGED holds

\* memory, jsonl and otel: the destination has it.
Export(w, c) ==
  /\ Has(w, c) /\ to[c] # "gcp"
  /\ arrived' = [arrived EXCEPT ![to[c]] = Append(@, c)]
  /\ Done(w)
  /\ UNCHANGED <<configured, to, outcome, queue, buffer, flushes, dropped, shared>>

\* The file cannot be written, or the span cannot be made: the record is dropped,
\* and the error goes no further than the log.
ExportFails(w, c) ==
  /\ Has(w, c) /\ to[c] \in {"jsonl", "otel"}
  /\ dropped' = dropped \union {c} /\ Done(w)
  /\ UNCHANGED <<configured, to, outcome, queue, buffer, flushes, arrived, shared>>

Others(w) ==
  \E v \in Who \ {w} : flushes[v] # NotFlushing

\* GCPCloudLoggingExporter.export appends, and flushes a full buffer.
Buffer(w, c) ==
  /\ Has(w, c) /\ to[c] = "gcp" /\ flushes[w] = NotFlushing
  /\ buffer' = Append(buffer, c)
  /\ flushes' = IF Len(buffer') >= BatchSize
                  THEN [flushes EXCEPT ![w] = [records |-> buffer', step |-> "copied"]] ELSE flushes
  /\ shared' = (shared \/ Others(w))
  /\ Done(w)
  /\ UNCHANGED <<configured, to, outcome, queue, arrived, dropped>>

\* flush, and close: the buffer is copied.
Flush ==
  /\ flushes[Main] = NotFlushing /\ buffer # << >>
  /\ flushes' = [flushes EXCEPT ![Main] = [records |-> buffer, step |-> "copied"]]
  /\ shared' = (shared \/ Others(Main))
  /\ UNCHANGED <<queue, holds, buffer, arrived, dropped>> /\ UNCHANGED call

\* Faulty variant of Clear: the buffer keeps what is being sent.
ClearNothing(w) ==
  /\ flushes[w].step = "copied"
  /\ flushes' = [flushes EXCEPT ![w].step = "cleared"]
  /\ UNCHANGED <<queue, holds, buffer, arrived, dropped, shared>> /\ UNCHANGED call

\* Then it is cleared, of whatever it has by now.
Clear(w) ==
  /\ flushes[w].step = "copied"
  /\ buffer' = << >> /\ flushes' = [flushes EXCEPT ![w].step = "cleared"]
  /\ UNCHANGED <<queue, holds, arrived, dropped, shared>> /\ UNCHANGED call

\* And the copy is sent, one record at a time.
Send(w) ==
  /\ flushes[w].step = "cleared"
  /\ arrived' = [arrived EXCEPT !["gcp"] = Append(@, Head(flushes[w].records))]
  /\ LET rest == Tail(flushes[w].records) IN
       flushes' = [flushes EXCEPT ![w] = IF rest = << >> THEN NotFlushing
                                         ELSE [records |-> rest, step |-> "cleared"]]
  /\ UNCHANGED <<queue, holds, buffer, dropped, shared>> /\ UNCHANGED call

\* An error while one is sent drops it and those after it.
SendFails(w) ==
  /\ flushes[w].step = "cleared"
  /\ dropped' = dropped \union Range(flushes[w].records)
  /\ flushes' = [flushes EXCEPT ![w] = NotFlushing]
  /\ UNCHANGED <<queue, holds, buffer, arrived, shared>> /\ UNCHANGED call

Next ==
  \/ \E e \in Exporters \union {NoExporter} : Setup(e)
  \/ \E c \in Calls :
       \/ CallBegins(c) \/ CallCancelled(c) \/ TimeOut(c)
       \/ \E how \in {"result", "error"}, async \in BOOLEAN : CallEnds(c, how, async)
       \/ \E w \in {c, Worker} : Export(w, c) \/ ExportFails(w, c) \/ Buffer(w, c)
  \/ Take \/ Flush
  \/ \E w \in Who : Clear(w) \/ Send(w) \/ SendFails(w)

Spec == Init /\ [][Next]_vars

------------------------------------------------------------------------------
\* Properties

TypeOK ==
  /\ configured \in Exporters \union {NoExporter}
  /\ calls \in [Calls -> {"idle", "running", "cancelled", "exporting", "waited", "ended"}]
  /\ to \in [Calls -> Exporters \union {NoExporter}]
  /\ outcome \in [Calls -> {"none", "result", "error"}]
  /\ queue \in Seq(Calls) /\ holds \in Seq(Calls) /\ buffer \in Seq(Calls) /\ dropped \subseteq Calls
  /\ flushes \in [Who -> [records : Seq(Calls), step : {"none", "copied", "cleared"}]]
  /\ arrived \in [Exporters -> Seq(Calls)] /\ shared \in BOOLEAN

\* The records in each of the places where one can be.
Places ==
  [queue |-> Range(queue), worker |-> Range(holds),
   call |-> {c \in Calls : calls[c] \in {"exporting", "waited"}},
   buffer |-> Range(buffer) \ UNION {Range(flushes[w].records) : w \in {v \in Who : flushes[v].step = "copied"}},
   flush |-> UNION {Range(flushes[w].records) : w \in Who},
   destination |-> UNION {Range(arrived[e]) : e \in Exporters},
   dropped |-> dropped]

\* The record of a call that ended is in one place: queued, being exported,
\* buffered, being sent, dropped with an error, or where the exporter that
\* was configured when the call began sends it, once.  It is lost or sent
\* twice only when two threads were in the gcp exporter at once (wrapper,
\* _trigger_export, export, flush).
RecordsAreInOnePlace ==
  \A c \in Calls :
    /\ (outcome[c] # "none" /\ ~ shared) =>
         \E p \in DOMAIN Places : \A q \in DOMAIN Places : c \in Places[q] <=> q = p
    /\ \A e \in Exporters : c \in Range(arrived[e]) => e = to[c]
    /\ outcome[c] = "none" => \A e \in Exporters : c \notin Range(arrived[e])
    /\ ~ shared => \A e \in Exporters : IsInjective(arrived[e])
==============================================================================
