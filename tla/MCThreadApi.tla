---------------------------- MODULE MCThreadApi ----------------------------
(* A thread that starts a first child, or a second one that starts it; the *)
(* second child may be given the first one's handle.                       *)
EXTENDS ThreadApi

CONSTANTS m, c1, c2

MCJoins == {<<m, c1>>, <<m, c2>>, <<c2, c1>>}

=============================================================================
