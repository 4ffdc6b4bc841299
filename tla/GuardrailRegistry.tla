---------------------------- MODULE GuardrailRegistry ----------------------------
(***************************************************************************)
(* GuardrailRegistry: guardrails are registered under ids as plugins are   *)
(* imported, in whatever order, and are made by full or by short id.  An   *)
(* id is a namespace, or none, a name, and a version, or none: NoVersion   *)
(* stands for an id that does not end in -v and a number.                  *)
(***************************************************************************)
EXTENDS Naturals, Sequences

CONSTANTS
  Namespaces, Names,
  Vendors,     \* the names that begin like another name followed by -v
  StartOf,     \* each of them: that other name
  MaxVersion, MaxSpecs  \* bounds of the model

NoVersion == 0
NoNamespace == "none"

NamesAssumption ==
  /\ Vendors \subseteq Names /\ StartOf \in [Vendors -> Names]
  /\ NoNamespace \notin Namespaces /\ MaxVersion \in Nat /\ MaxSpecs \in Nat

Ids == [namespace : Namespaces \union {NoNamespace}, name : Names, version : 0..MaxVersion]

VARIABLES
  specs,   \* the specs by their effective id, in the order they were registered
  made     \* ghost: the last guardrail made: [asked, got]

vars == <<specs, made>>

Init == specs = << >> /\ made = << >>

------------------------------------------------------------------------------
\* Faulty variant of Register: an id can be taken twice.
RegisterAgain(id) ==
  /\ Len(specs) < MaxSpecs
  /\ specs' = Append(specs, id)
  /\ UNCHANGED made

Known(id) == \E i \in DOMAIN specs : specs[i] = id

\* register: an id that is taken is refused.
Register(id) ==
  /\ Len(specs) < MaxSpecs /\ ~ Known(id)
  /\ specs' = Append(specs, id)
  /\ UNCHANGED made

\* Ids with -v in them are not looked up by version: names of Vendors are such.
Versionless(id) == id.version = NoVersion /\ id.name \notin Vendors

\* bare.startswith(id + "-v"): versions of the name, and whatever begins so.
BeginsLike(s, id) ==
  /\ s.version # NoVersion
  /\ s.name = id.name \/ (s.name \in Vendors /\ StartOf[s.name] = id.name)

\* Where the specs of a name in a namespace are, and those of its versions.
Named(id) ==
  {i \in DOMAIN specs :
     specs[i].namespace # NoNamespace /\ specs[i].name = id.name /\ specs[i].version = id.version}
Versions(id) == {i \in DOMAIN specs : BeginsLike(specs[i], id)}

\* Faulty variant of Newest: the one registered last.
LastOf(places) == CHOOSE i \in places : \A j \in places : j <= i

\* The highest version; of equals the one registered first.
Newest(places) ==
  CHOOSE i \in places :
    /\ \A j \in places : specs[j].version <= specs[i].version
    /\ \A j \in places : j < i => specs[j].version < specs[i].version

\* _resolve_id: the id itself, the only one of its name in a namespace, or the
\* newest version; a set of none or one.
ResolveId(id) ==
  IF Known(id) THEN {id}
  ELSE IF id.namespace # NoNamespace THEN {}
  ELSE IF \E i \in DOMAIN specs : Named(id) = {i} THEN {specs[i] : i \in Named(id)}
  ELSE IF Versionless(id) /\ Versions(id) # {} THEN {specs[Newest(Versions(id))]}
  ELSE {}

\* make, spec: an id that resolves to nothing is a KeyError.
Make(id) ==
  /\ \E got \in ResolveId(id) : made' = <<[asked |-> id, got |-> got]>>
  /\ UNCHANGED specs

Next == \E id \in Ids : Register(id) \/ Make(id)

Spec == Init /\ [][Next]_vars

------------------------------------------------------------------------------
\* Properties

TypeOK ==
  /\ specs \in Seq(Ids) /\ Len(specs) <= MaxSpecs
  /\ \A i, j \in DOMAIN specs : specs[i] = specs[j] => i = j

\* What was made under an id is not made obsolete behind the caller's back: asked
\* for again, after any registrations, a full id makes the same guardrail, and a
\* versionless one that went by version makes no older version, unless by now a
\* guardrail has the very id or name that was asked for (_resolve_id).
MadeStays ==
  \A i \in DOMAIN made : LET m == made[i] IN \A again \in ResolveId(m.asked) :
    \/ again = m.got
    \/ Versionless(m.asked) /\ again.version > m.got.version
    \/ again = m.asked
    \/ again.name = m.asked.name /\ again.version = m.asked.version
    \/ m.got.name = m.asked.name /\ m.got.version = m.asked.version
==============================================================================
