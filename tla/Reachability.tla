---------------------------- MODULE Reachability ----------------------------
(***************************************************************************)
(* Paths in a graph that is given as a set of edges, pairs of nodes.       *)
(***************************************************************************)

EXTENDS Integers, FiniteSets

Successors(nodes, edges) == {e[2] : e \in {e \in edges : e[1] \in nodes}}

(* The nodes to which edges lead from a node of the set from.              *)
ReachableFrom(from, edges) ==
  LET nodes == from \cup {e[2] : e \in edges}
      closure[reached \in SUBSET nodes] ==
        LET further == Successors(reached, edges) \ reached
        IN IF further = {} THEN reached ELSE closure[reached \cup further]
  IN closure[from]

=============================================================================
