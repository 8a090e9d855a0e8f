---------------------------- MODULE MCSharedDict ----------------------------
(* Three keys, two of which collide, in a table of four slots.             *)
EXTENDS SharedDict

CONSTANTS c, t1, t2

MCKeys      == {"a", "b", "x"}
MCHash      == [k \in MCKeys |-> IF k = "x" THEN 1 ELSE 0]
MCPreloaded == <<"a", "b">>

=============================================================================
