---------------------------- MODULE MCSyncHandle ----------------------------
(* Three threads, each of which calls two of the functions.                *)
EXTENDS SyncHandle

CONSTANTS t1, t2, t3

=============================================================================
