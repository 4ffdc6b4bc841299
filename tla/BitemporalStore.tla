---------------------------- MODULE BitemporalStore ----------------------------
(***************************************************************************)
(* Records with two clocks: when the fact was true (vt) and when the store *)
(* learned of it (tx).  The as-of query of the SQLite and in-memory        *)
(* backends, and AsOfView, which clamps a store's reads.  A history is     *)
(* the sequence of appended records, whatever their keys.                  *)
(***************************************************************************)
EXTENDS Naturals, Sequences

CONSTANTS
  Keys,
  NoTime  \* a clamp that is not given

\* A time is within a clamp.
Within(t, clamp) == clamp = NoTime \/ t <= clamp

\* Positions of the records an as-of query considers.
Candidates(rows, key, tx, vt) ==
  {i \in DOMAIN rows :
     rows[i].key = key /\ Within(rows[i].tx, tx) /\ Within(rows[i].vt, vt)}

IsCorrection(r) == r.parent # 0

\* The order of as_of: transaction time, then valid time, then a correction
\* over a record that corrects nothing.
Supersedes(r, s) ==
  \/ r.tx > s.tx
  \/ r.tx = s.tx /\ r.vt > s.vt
  \/ r.tx = s.tx /\ r.vt = s.vt /\ IsCorrection(r) /\ ~ IsCorrection(s)

\* The answers as_of may give: one, or none of an empty history, or any of
\* several records that agree in all of this.  SQL leaves it open which.
AsOf(rows, key, tx, vt) ==
  LET S == Candidates(rows, key, tx, vt)
  IN  {i \in S : \A j \in S : ~ Supersedes(rows[j], rows[i])}

------------------------------------------------------------------------------
\* Faulty variant of Narrowed: the caller's clamp replaces the view's.
NarrowedByCaller(view, clamp) == IF clamp = NoTime THEN view ELSE clamp

\* AsOfView.as_of: a caller's clamp narrows the view's and never widens it.
Narrowed(view, clamp) ==
  IF clamp = NoTime \/ (view # NoTime /\ clamp > view) THEN view ELSE clamp

\* AsOfView.as_of on a view clamped to viewTx and viewVt.
ViewAsOf(rows, viewTx, viewVt, key, tx, vt) ==
  AsOf(rows, key, Narrowed(viewTx, tx), Narrowed(viewVt, vt))
==============================================================================
