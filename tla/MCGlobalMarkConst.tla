------------------------- MODULE MCGlobalMarkConst -------------------------
(* a moves when the table grows from four slots to eight. *)
EXTENDS GlobalMarkConst

MCHash == [n \in Names |-> CASE n = "a" -> 5 [] n = "b" -> 2 [] OTHER -> 7]

=============================================================================
