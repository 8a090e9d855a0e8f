----------------------------- MODULE MCJitCode -----------------------------
(* Slabs of two pages of two cells: "small" shares a page with what comes  *)
(* after it, "large" fills a slab but for one cell, "huge" never fits.     *)
EXTENDS JitCode

MCLength == [f \in Funcs |-> CASE f \in {"small", "other"} -> 1
                               [] f = "medium" -> 2
                               [] f = "large" -> 3
                               [] OTHER -> 5]

=============================================================================
