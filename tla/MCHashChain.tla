----------------------------- MODULE MCHashChain -----------------------------
(* Two entities and an unpartitioned row share one table; a second table is *)
(* never partitioned.                                                       *)
EXTENDS HashChain, SequencesExt

CONSTANTS a, b, all, other, audit, ledger, A, B, w1, w2, w3

MCTableOf ==
  [r \in {a, b, all, other} |-> IF r = other THEN ledger ELSE audit]

MCEntityOf ==
  [r \in {a, b, all, other} |->
     CASE r = a -> A [] r = b -> B [] OTHER -> NoEntity]

\* verify_chain_segment on the entries of a segment says of a log what the
\* links between its positions say.
ShortLogs ==
  BoundedSeq([row : {a, b, all}, prior : {Genesis, <<a>>, <<b>>},
              hash : {<<a>>, <<b>>, <<a, b>>}], 3)

ASSUME VerifierFollowsTheLinks ==
  \A log \in ShortLogs : \A e \in {A, B, NoEntity} :
    VerifyChainSegment(EntriesFor(log, audit, e), Genesis)
      <=> \A i \in Indices(log, Len(log), audit, e) : LinkedAt(log, i, audit, e)
==============================================================================
