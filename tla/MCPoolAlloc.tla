----------------------------- MODULE MCPoolAlloc -----------------------------
(* Pages of 7 bytes behind 2 bytes of header, aligned at 2: room for two     *)
(* small allocations, an exact fit, one that fits only an empty page and one *)
(* that needs two pages; three blocks make reuse happen at once.             *)
EXTENDS PoolAlloc, TLC

CONSTANT MaxMarks     \* bound: marks on the stack

Symmetry == Permutations(Blocks)

MCPoolNext == PoolNext /\ Len(stack') <= MaxMarks
=============================================================================
