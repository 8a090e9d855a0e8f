--------------------------- MODULE MCAccelRuntime ---------------------------
(* The main thread and two others share two sessions of one program with   *)
(* one kernel; one of the two program ids may be wasted.                   *)
EXTENDS AccelRuntime, TLC

CONSTANTS m, w1, w2, s1, s2, p1

Symmetry == Permutations({w1, w2}) \cup Permutations({s1, s2})

=============================================================================
