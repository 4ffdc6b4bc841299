------------------------------- MODULE MCGateway -------------------------------
(* Two keys with a short window and one with a window more than twice as    *)
(* long; a cooldown outlasts two short windows.                             *)
EXTENDS Gateway, TLC

CONSTANTS s1, s2, l1

MCLimit == [k \in Keys |-> IF k = l1 THEN 2 ELSE 1]
MCSpan == [k \in Keys |-> IF k = l1 THEN 4 ELSE 1]

Symmetry == Permutations(Callers) \union Permutations({s1, s2})
================================================================================
