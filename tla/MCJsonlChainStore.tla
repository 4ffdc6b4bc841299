-------------------------- MODULE MCJsonlChainStore --------------------------
(* Two processes with a store each; two writers (threads) share the first.  *)
EXTENDS JsonlChainStore

CONSTANTS a, b, t, A, B, s1, s2, w1, w2, w3

MCTableOf == [r \in Rows |-> t]
MCEntityOf == [r \in Rows |-> IF r = a THEN A ELSE B]
MCStoreOf == [w \in Writers |-> IF w = w3 THEN s2 ELSE s1]
==============================================================================
