---------------------------- MODULE MCSafepoint ----------------------------
(* Model-checking instance of Safepoint.tla. *)
EXTENDS Safepoint
=============================================================================
