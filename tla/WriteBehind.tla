------------------------------ MODULE WriteBehind ------------------------------
(***************************************************************************)
(* What a batching store promises: a decision it has accepted stays owed   *)
(* until it is written or deleted, and is written once.                    *)
(***************************************************************************)
EXTENDS Naturals

CONSTANTS Callers, Ids

VARIABLES
  issued,  \* versions numbered so far, over all ids
  owed,    \* versions accepted and not yet written
  loose,   \* versions whose caller still has to hear whether they are written
  stored,  \* of each id, the version on the wrapped store, or 0
  deletes  \* the deletes in progress: caller and id

wbVars == <<issued, owed, loose, stored, deletes>>

Init ==
  /\ issued = 0 /\ owed = {} /\ loose = {} /\ deletes = {}
  /\ stored = [id \in Ids |-> 0]

\* A new version of id is accepted, or is offered to be written through.
Accept(id) ==
  /\ issued' = issued + 1
  /\ owed' = owed \union {[id |-> id, n |-> issued']}
  /\ UNCHANGED <<loose, stored, deletes>>

Offer(id) ==
  /\ issued' = issued + 1
  /\ loose' = loose \union {[id |-> id, n |-> issued']}
  /\ UNCHANGED <<owed, stored, deletes>>

\* Some versions are written at once; of several of one id one stays.
Write ==
  \E B \in SUBSET (owed \union loose) :
    /\ owed' = owed \ B /\ loose' = loose \ B
    /\ stored' \in [Ids -> Nat]
    /\ \A id \in Ids :
         LET versions == {d.n : d \in {x \in B : x.id = id}}
         IN  IF versions = {} THEN stored'[id] = stored[id] ELSE stored'[id] \in versions
    /\ UNCHANGED <<issued, deletes>>

\* Only what was never accepted may be given up.
Refuse ==
  /\ loose' \in SUBSET loose
  /\ UNCHANGED <<issued, owed, stored, deletes>>

\* A delete begins: it forgets versions of its id.  It ends: the written one is
\* gone, or the delete has failed.
Forget(c, id) ==
  /\ <<c, id>> \notin deletes
  /\ deletes' = deletes \union {<<c, id>>}
  /\ owed' \in SUBSET owed
  /\ \A d \in owed \ owed' : d.id = id
  /\ UNCHANGED <<issued, loose, stored>>

Erase(c, id) ==
  /\ <<c, id>> \in deletes
  /\ deletes' = deletes \ {<<c, id>>}
  /\ stored' \in {stored, [stored EXCEPT ![id] = 0]}
  /\ UNCHANGED <<issued, owed, loose>>

Next ==
  \/ \E id \in Ids : Accept(id) \/ Offer(id)
  \/ \E c \in Callers, id \in Ids : Forget(c, id) \/ Erase(c, id)
  \/ Write \/ Refuse

Spec == Init /\ [][Next]_wbVars
==============================================================================
