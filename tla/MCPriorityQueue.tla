--------------------------- MODULE MCPriorityQueue ---------------------------
(* Jobs 1..MaxJob for the model checker, with two ways of ranking them:    *)
(* all keys different, or pairs of jobs with the same key (replies that    *)
(* fall due in the same second).                                           *)
EXTENDS PriorityQueue

CONSTANT MaxJob

MCJob == 1 .. MaxJob
DistinctKey(j) == j
PairedKey(j) == j \div 2
=============================================================================
