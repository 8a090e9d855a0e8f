---------------------------- MODULE MCGlobalTable ----------------------------
(* Two threads and four names: a and b collide in tables of every size, c  *)
(* collides with them in tables of four only, and d wraps around.  The     *)
(* table grows from two slots to eight.                                    *)
EXTENDS GlobalTable, TLC

CONSTANTS a, b, c, d, t1, t2

Symmetry == Permutations(Threads)

MCHash == [n \in Names |-> CASE n = a -> 1 [] n = b -> 9 [] n = c -> 5 [] OTHER -> 7]

=============================================================================
