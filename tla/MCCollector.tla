---------------------------- MODULE MCCollector ----------------------------
(***************************************************************************)
(* The instance of Collector.tla that TLC checks.                          *)
(***************************************************************************)

EXTENDS Collector

MCSizes(nursery, graduate, tenure) ==
  [nursery |-> nursery, graduate0 |-> graduate, graduate1 |-> graduate, tenure |-> tenure]

(* A nursery that does not fit into a graduate half, and a tenured region  *)
(* that can absorb two young collections without being collected.          *)
MCConfigs == {MCSizes(2, 1, 2), MCSizes(1, 1, 3)}

=============================================================================
