------------------------------ MODULE EventPairing ------------------------------
(***************************************************************************)
(* CrewAIEventListener: the events of CrewAI's bus, paired into records.   *)
(* Crews, agents, tasks, tools and model calls are paired by the key that  *)
(* both of their events carry.  In the other families the end event does   *)
(* not carry the key that the start was filed under, and the oldest start  *)
(* of the family is taken.  Some of these have no event for a failure that *)
(* the listener hears.                                                     *)
(***************************************************************************)
EXTENDS Integers, Sequences, SequencesExt

CONSTANTS
  Families,       \* those that are captured and emitted
  Keys,           \* names of crews, roles of agents, queries, ...
  MaxActivities   \* bound of the model

Keyed == {"crew", "agent", "task", "tool", "llm"}
Failing == {"knowledge_query", "memory_query", "memory_save", "method"}
Unfailing == {"knowledge", "memory_retrieval", "guardrail", "flow"}

PairingAssumption ==
  /\ Families \subseteq Keyed \union Failing \union Unfailing
  /\ MaxActivities \in Nat

VARIABLES
  activities,  \* CrewAI's, in the order of their starts
  inflight,    \* the listener's starts that wait for an end, oldest first
  records,     \* of each record, the activities that began and that ended it
  heard        \* history: how many activities have begun and how many ended
               \* since the records were cleared

vars == <<activities, inflight, records, heard>>

Nothing == 0
Acts == DOMAIN activities
Doing(a) == activities[a].until = Nothing /\ ~ activities[a].lost

Init ==
  /\ activities = << >> /\ inflight = << >> /\ records = << >>
  /\ heard = {}

------------------------------------------------------------------------------
\* _inflight, a dictionary: a start under a known key takes the place of the old one.
Slots(family, key) == {i \in DOMAIN inflight : inflight[i].family = family /\ inflight[i].key = key}
Slot(family, key) == CHOOSE i \in Slots(family, key) : TRUE

File(family, key, a) ==
  LET entry == [family |-> family, key |-> key, activity |-> a]
  IN  inflight' = IF Slots(family, key) = {} THEN Append(inflight, entry)
                  ELSE [inflight EXCEPT ![Slot(family, key)] = entry]

\* A start event, heard by the handler of its family.
Started(family, key) ==
  /\ family \in Families /\ Len(activities) < MaxActivities
  /\ activities' = Append(activities, [family |-> family, key |-> key,
                                       until |-> Nothing, lost |-> FALSE])
  /\ File(family, key, Len(activities) + 1)
  /\ UNCHANGED <<records, heard>>

\* An activity ends; until is how many had started by then.
EndOf(a) ==
  /\ Doing(a)
  /\ activities' = [activities EXCEPT ![a].until = Len(activities)]
  /\ heard' = heard \union {a}

\* Faulty variant of Complete: the start stays in its slot.
CompleteKept(a, slots, outcome) ==
  /\ records' = Append(records,
       [began |-> IF slots = {} THEN Nothing
                  ELSE inflight[CHOOSE i \in slots : \A j \in slots : i <= j].activity,
        ended |-> a, outcome |-> outcome])
  /\ UNCHANGED inflight

\* _complete and _fail: the start is taken out of its slot, or the record
\* stands alone.
Complete(a, slots, outcome) ==
  /\ records' = Append(records,
       [began |-> IF slots = {} THEN Nothing
                  ELSE inflight[CHOOSE i \in slots : \A j \in slots : i <= j].activity,
        ended |-> a, outcome |-> outcome])
  /\ inflight' = IF slots = {} THEN inflight
                 ELSE RemoveAt(inflight, CHOOSE i \in slots : \A j \in slots : i <= j)

\* The end of a keyed activity.
KeyedEnd(a, outcome) == EndOf(a) /\ Complete(a, Slots(activities[a].family, activities[a].key), outcome)

\* Faulty variant of Candidates: the families are not told apart.
AnyCandidates(family) == DOMAIN inflight

\* The starts that _generic_complete and _generic_fail choose the first of.
Candidates(family) == {i \in DOMAIN inflight : inflight[i].family = family}

GenericComplete(a) == EndOf(a) /\ Complete(a, Candidates(activities[a].family), "completed")

GenericFail(a) ==
  EndOf(a) /\ activities[a].family \in Failing /\ Complete(a, Candidates(activities[a].family), "failed")

\* A failure of a family that has no handler for it is not heard.
UnheardFailure(a) ==
  /\ Doing(a) /\ activities[a].family \in Unfailing
  /\ activities' = [activities EXCEPT ![a].lost = TRUE]
  /\ UNCHANGED <<inflight, records, heard>>

------------------------------------------------------------------------------
\* The handlers of the families whose events carry the key.
KeyedEvents(family) ==
  \/ \E k \in Keys : Started(family, k)
  \/ \E a \in Acts, outcome \in {"completed", "failed"} :
       activities[a].family = family /\ KeyedEnd(a, outcome)

\* Those of the others.
GenericEvents(family) ==
  \/ \E k \in Keys : Started(family, k)
  \/ \E a \in Acts : /\ activities[a].family = family
                    /\ (GenericComplete(a) \/ GenericFail(a) \/ UnheardFailure(a))

Clear ==
  /\ inflight # << >> \/ records # << >>
  /\ inflight' = << >> /\ records' = << >> /\ heard' = {}
  /\ UNCHANGED activities

Next ==
  \/ \E f \in Families \intersect Keyed : KeyedEvents(f)
  \/ \E f \in Families \ Keyed : GenericEvents(f)
  \/ Clear

Spec == Init /\ [][Next]_vars

------------------------------------------------------------------------------
\* Properties

TypeOK ==
  /\ activities \in Seq([family : Families, key : Keys, until : Nat, lost : BOOLEAN])
  /\ inflight \in Seq([family : Families, key : Keys, activity : Acts])
  /\ records \in Seq([began : Acts \union {Nothing}, ended : Acts, outcome : {"completed", "failed"}])
  /\ heard \subseteq Acts

\* When activity c began, an earlier one of these was in progress as far as the
\* listener can tell: no moment of quiet lies before c.
Joined(c, those) == \E x \in those : x < c /\ (activities[x].until = Nothing \/ activities[x].until >= c)

Alike(a) ==
  {x \in Acts : /\ activities[x].family = activities[a].family
                /\ activities[a].family \in Keyed => activities[x].key = activities[a].key}

\* Each end that was heard has one record, and a record that joins the start of
\* one activity to the end of another stays within a burst of overlapping
\* activities of one family and, where events carry a key, of one key: a mistake
\* in pairing never outlives the next moment of quiet (_complete, _generic_complete).
MispairsEndWithTheBurst ==
  /\ \A a \in heard : \E i \in DOMAIN records :
       records[i].ended = a /\ \A j \in DOMAIN records \ {i} : records[j].ended # a
  /\ \A i \in DOMAIN records : LET b == records[i].began
                                  e == records[i].ended
                              IN  b \notin {Nothing, e} =>
                                    /\ b \in Alike(e)
                                    /\ \A c \in Alike(e) : c > Min({b, e}) /\ c <= Max({b, e})
                                                         => Joined(c, Alike(e))
==============================================================================
