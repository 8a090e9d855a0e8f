---------------------------- MODULE StopTheWorld ----------------------------
(***************************************************************************)
(* What the safepoint protocol of core/objectmodel-mt.c promises to the    *)
(* rest of the virtual machine, with none of its counters.                 *)
(*                                                                         *)
(* A thread is "running" while it may touch the managed heap, "exclusive"  *)
(* while it executes a stop-the-world section (a collection, or the        *)
(* publication of a thread-local object), and "out" the rest of the time:  *)
(* parked at a safepoint, inside a blocking native call, waiting for its   *)
(* own section, or not attached to the virtual machine.                    *)
(*                                                                         *)
(* Safepoint.tla is shown to implement this module; the object model and   *)
(* the thread library are built on it.                                     *)
(***************************************************************************)

CONSTANT Threads    \* The environments (struct rt_env) of one virtual machine.

VARIABLE mode       \* mode[t]: what thread t may do with the heap.

Modes == {"out", "running", "exclusive"}

NobodyExclusive == \A t \in Threads : mode[t] # "exclusive"

(* Nobody but t may be touching the heap, inside a section or outside one. *)
WorldStoppedFor(t) == \A u \in Threads \ {t} : mode[u] = "out"

-----------------------------------------------------------------------------

Init == mode = [t \in Threads |-> "out"]

(* Thread t gets past a safepoint: no section may be under way.            *)
Resume(t) ==
  /\ mode[t] = "out"
  /\ NobodyExclusive
  /\ mode' = [mode EXCEPT ![t] = "running"]

(* Thread t reaches a safepoint, or hands its heap access over.            *)
Yield(t) ==
  /\ mode[t] = "running"
  /\ mode' = [mode EXCEPT ![t] = "out"]

(* Thread t begins a stop-the-world section: every other thread is out.    *)
BeginSection(t) ==
  /\ mode[t] = "out"
  /\ WorldStoppedFor(t)
  /\ mode' = [mode EXCEPT ![t] = "exclusive"]

EndSection(t) ==
  /\ mode[t] = "exclusive"
  /\ mode' = [mode EXCEPT ![t] = "out"]

Next == \E t \in Threads : Resume(t) \/ Yield(t) \/ BeginSection(t) \/ EndSection(t)

Spec == Init /\ [][Next]_mode

=============================================================================
