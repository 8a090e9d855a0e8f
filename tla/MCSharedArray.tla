---------------------------- MODULE MCSharedArray ----------------------------
(* The creator of an array and a second thread write to it, a third one    *)
(* reads it.                                                               *)
EXTENDS SharedArray

CONSTANTS c, t1, t2

=============================================================================
