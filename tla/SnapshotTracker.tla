----------------------------- MODULE SnapshotTracker -----------------------------
(***************************************************************************)
(* ExternalDataTracker of external_data/tracker.py: fetches of external    *)
(* data, the policies that decide which become snapshots, corrections,     *)
(* retention and drift against the newest snapshot, by threads that share  *)
(* a tracker without a lock: a step ends where a call has read the clock,  *)
(* has decided (the upload follows), has appended, or has chosen what to   *)
(* keep.  A snapshot's valid time and parent, which nothing reads, are     *)
(* left out.                                                               *)
(***************************************************************************)
EXTENDS Integers, Sequences, SequencesExt

CONSTANTS
  Threads,
  ApiSources, DbSources, FileSources,
  Data,
  Policies,   \* [frequency, threshold, retention, max]: frequency is "every_call",
              \* "on_change" or "timed", threshold tells whether there is one
  Detectors,  \* sources with a custom change detector
  Interval,   \* of the timed policies
  MaxTime, MaxStored  \* bounds of the model

Sources == ApiSources \union DbSources \union FileSources

TrackerAssumption ==
  /\ Policies \subseteq [frequency : {"every_call", "on_change", "timed"},
                         threshold : BOOLEAN, retention : Nat, max : Nat]
  /\ Detectors \subseteq Sources
  /\ Interval \in Nat \ {0} /\ MaxTime \in Nat /\ MaxStored \in Nat

VARIABLES
  policy,    \* of each source
  snaps,     \* of each source, its snapshots, newest last
  lastTime,  \* of each source, when its last snapshot was made; -1 for never
  clock,
  calls,     \* of each thread, the call it makes
  disordered \* history: sources where a call has put an older time after a newer one

vars == <<policy, snaps, lastTime, clock, calls, disordered>>

Idle == [place |-> "idle"]

Init ==
  /\ policy \in [Sources -> Policies]
  /\ snaps = [s \in Sources |-> << >>]
  /\ lastTime = [s \in Sources |-> -1]
  /\ clock = 0
  /\ calls = [t \in Threads |-> Idle] /\ disordered = {}

\* A call's next place, or its end, which leaves the tracker as it is.
Goes(t, call) == calls' = [calls EXCEPT ![t] = call]
Leaves(t, call) == Goes(t, call) /\ UNCHANGED <<policy, snaps, lastTime, clock, disordered>>

------------------------------------------------------------------------------
\* detect_drift: whether the data differs from the newest snapshot's.
DetectDrift(source, data) == snaps[source] # << >> /\ Last(snaps[source]).data # data

\* _evaluate_snapshot_policy: whether to store, by the time the call read.
\* With a threshold the detector may find the change too small.
EvaluatePolicy(source, data, at, tooSmall) ==
  LET p == policy[source]
      drift == DetectDrift(source, data)
  IN  CASE snaps[source] = << >> -> TRUE
        [] snaps[source] # << >> /\ p.frequency = "every_call" -> TRUE
        [] snaps[source] # << >> /\ p.frequency = "on_change" ->
             drift /\ ~ (p.threshold /\ source \in Detectors /\ tooSmall)
        [] OTHER -> lastTime[source] = -1 \/ at - lastTime[source] >= Interval

\* A fetch that asks for a snapshot reads the clock.
Track(t, source, data) ==
  /\ calls[t] = Idle
  /\ Leaves(t, [place |-> "check", source |-> source, data |-> data, at |-> clock])

TrackApiCall(t, source, data) == source \in ApiSources /\ Track(t, source, data)

TrackDbQuery(t, source, data) == source \in DbSources /\ Track(t, source, data)

TrackFileFetch(t, source, data) == source \in FileSources /\ Track(t, source, data)

\* Threads whose snapshots of a source are on their way.
Storing(source) == {t \in Threads : calls[t].place \in {"append", "note"} /\ calls[t].source = source}

\* The first half of _create_snapshot, up to the upload to lakeFS, whose failure
\* is only logged.  spaced is history: the interval of a timed policy let it
\* pass, with no other snapshot of the source on its way.
Pass(t, source, data, at, spaced) ==
  Leaves(t, [place |-> "append", source |-> source, data |-> data, at |-> at, spaced |-> spaced])

\* What the policy decides of a fetch.
Evaluate(t) ==
  /\ calls[t].place = "check"
  /\ LET c == calls[t]
         timed == policy[c.source].frequency = "timed" /\ snaps[c.source] # << >>
     IN  \E tooSmall \in BOOLEAN :
           IF EvaluatePolicy(c.source, c.data, c.at, tooSmall)
           THEN Pass(t, c.source, c.data, c.at, timed /\ Storing(c.source) = {})
           ELSE Leaves(t, Idle)

\* History: a source's list is no longer what the other calls have read.
Overtaken(t, source, next) ==
  [u \in Threads |->
    CASE u = t -> next
      [] u # t /\ calls[u].place = "append" /\ calls[u].source = source -> [calls[u] EXCEPT !.spaced = FALSE]
      [] u # t /\ calls[u].place = "assign" /\ calls[u].source = source -> [calls[u] EXCEPT !.stale = TRUE]
      [] OTHER -> calls[u]]

Store(t) ==
  /\ calls[t].place = "append"
  /\ LET c == calls[t]
         sooner == snaps[c.source] # << >> /\ c.at < Last(snaps[c.source]).at
     IN  /\ Len(snaps[c.source]) < MaxStored
         /\ snaps' = [snaps EXCEPT ![c.source] = Append(@, [data |-> c.data, at |-> c.at, spaced |-> c.spaced])]
         /\ disordered' = IF sooner THEN disordered \union {c.source} ELSE disordered
         /\ calls' = Overtaken(t, c.source, [place |-> "note", source |-> c.source, at |-> c.at])
  /\ UNCHANGED <<policy, lastTime, clock>>

\* When its source had its last snapshot: the one whose time is noted last.
NoteTime(t) ==
  /\ calls[t].place = "note"
  /\ LET s == calls[t].source
     IN  /\ lastTime' = [lastTime EXCEPT ![s] = calls[t].at]
         /\ disordered' = IF calls[t].at < lastTime[s] THEN disordered \union {s} ELSE disordered
  /\ Goes(t, Idle) /\ UNCHANGED <<policy, snaps, clock>>

\* correct_snapshot, of one there is: appended like any other, under no policy.
CorrectSnapshot(t, source, data) ==
  calls[t] = Idle /\ snaps[source] # << >> /\ Pass(t, source, data, clock, FALSE)

\* enforce_retention, of one source or of all.
Retaining(left) == IF left = {} THEN Idle ELSE [place |-> "filter", left |-> left]

EnforceRetention(t, which) == calls[t] = Idle /\ Leaves(t, Retaining(which))

\* Faulty variant of Retained: the limit on their number keeps the oldest.
RetainedOldest(source) ==
  LET p == policy[source]
      young == SelectSeq(snaps[source], LAMBDA s : p.retention = 0 \/ s.at >= clock - p.retention)
  IN  IF p.max > 0 /\ Len(young) > p.max THEN SubSeq(young, 1, p.max) ELSE young

\* What a source keeps under its policy, now.
Retained(source) ==
  LET p == policy[source]
      young == SelectSeq(snaps[source], LAMBDA s : p.retention = 0 \/ s.at >= clock - p.retention)
  IN  IF p.max > 0 /\ Len(young) > p.max
      THEN SubSeq(young, Len(young) - p.max + 1, Len(young)) ELSE young

\* What is to be kept of the next source, in a list of its own: a list that
\* neither limit applies to stays the one it is, appended to or not.
Filter(t) ==
  /\ calls[t].place = "filter"
  /\ \E s \in calls[t].left :
       LET copied == snaps[s] # << >> /\ (policy[s].retention > 0 \/ Retained(s) # snaps[s])
           left == calls[t].left \ {s}
       IN  Leaves(t, IF copied
                     THEN [place |-> "assign", source |-> s, kept |-> Retained(s), left |-> left, stale |-> FALSE]
                     ELSE Retaining(left))

\* The list takes the place of the one there is by now.
Assign(t) ==
  /\ calls[t].place = "assign"
  /\ snaps' = [snaps EXCEPT ![calls[t].source] = calls[t].kept]
  /\ calls' = Overtaken(t, calls[t].source, Retaining(calls[t].left))
  /\ UNCHANGED <<policy, lastTime, clock, disordered>>

SetPolicy(source, p) ==
  /\ policy' = [policy EXCEPT ![source] = p]
  /\ UNCHANGED <<snaps, lastTime, clock, calls, disordered>>

\* get_snapshots of a source up to a time.
GetSnapshots(source, until) == SelectSeq(snaps[source], LAMBDA s : s.at <= until)

Tick ==
  /\ clock < MaxTime /\ clock' = clock + 1
  /\ UNCHANGED <<policy, snaps, lastTime, calls, disordered>>

Next ==
  \/ \E t \in Threads :
       \/ \E s \in Sources, d \in Data :
            \/ TrackApiCall(t, s, d) \/ TrackDbQuery(t, s, d) \/ TrackFileFetch(t, s, d)
            \/ CorrectSnapshot(t, s, d)
       \/ Evaluate(t) \/ Store(t) \/ NoteTime(t)
       \/ EnforceRetention(t, Sources) \/ \E s \in Sources : EnforceRetention(t, {s})
       \/ Filter(t) \/ Assign(t)
  \/ \E s \in Sources, p \in Policies : SetPolicy(s, p)
  \/ Tick

Spec == Init /\ [][Next]_vars

------------------------------------------------------------------------------
\* Properties

Snapshot == [data : Data, at : 0..clock, spaced : BOOLEAN]

Call ==
  {Idle} \union [place : {"check"}, source : Sources, data : Data, at : 0..clock]
  \union [place : {"append"}, source : Sources, data : Data, at : 0..clock, spaced : BOOLEAN]
  \union [place : {"note"}, source : Sources, at : 0..clock]
  \union [place : {"filter"}, left : SUBSET Sources]
  \union [place : {"assign"}, source : Sources, kept : Seq(Snapshot), left : SUBSET Sources, stale : BOOLEAN]

TypeOK ==
  /\ policy \in [Sources -> Policies] /\ clock \in 0..MaxTime
  /\ \A s \in Sources : snaps[s] \in Seq(Snapshot)
  /\ lastTime \in [Sources -> -1..clock]
  /\ calls \in [Threads -> Call] /\ disordered \subseteq Sources

\* However the threads' fetches, corrections, retention and changes of policy
\* alternate, a snapshot that a timed policy let pass keeps its interval from the
\* one before it, unless another of the source was on its way to the list between
\* the check and the append, or one came there with an older time than the last
\* had (_evaluate_snapshot_policy, _last_snapshot_times).
SpacingHolds ==
  \A s \in Sources \ disordered : \A i \in 2..Len(snaps[s]) :
    snaps[s][i].spaced => snaps[s][i].at - snaps[s][i - 1].at >= Interval

\* A snapshot with a time up to this one is still to come.
Late(source, until) ==
  \E t \in Threads : /\ calls[t].place \in {"check", "append"}
                    /\ calls[t].source = source /\ calls[t].at <= until

\* What a retention is about to keep was chosen from another list than there is.
Stale(source) ==
  \E t \in Threads : calls[t].place = "assign" /\ calls[t].source = source /\ calls[t].stale

\* What a query up to an earlier time answers changes only by retention, which
\* takes from the old end.  A call that has read the clock and not appended may
\* still add to it, a retention that filtered before another call changed the list
\* undoes that call, and of a list with an older time behind a newer one retention may
\* take the middle (get_snapshots, enforce_retention).  Of every step.
PastAnswersStay ==
  snaps' # snaps =>
    \A s \in Sources \ disordered, until \in 0..clock - 1 :
      Late(s, until) \/ Stale(s) \/ IsSuffix(GetSnapshots(s, until)', GetSnapshots(s, until))
==============================================================================
