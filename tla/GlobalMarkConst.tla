--------------------------- MODULE GlobalMarkConst ---------------------------
(* Global.markConst of core/intrinsics.c, which the compiler emits for a   *)
(* top-level "let", scans the table without ACQUIRE_GLOBAL while other     *)
(* threads assign globals.                                                 *)
EXTENDS GlobalTable

VARIABLES
  index,     \* index[t]: where the scan of thread t is,
  found_in,  \* the size of the table it found the name in,
  marked     \* and the names that a call which succeeded has marked.

scanVars == <<index, found_in, marked>>

ScanInit ==
  /\ Init
  /\ index = [t \in Threads |-> 0]
  /\ found_in = [t \in Threads |-> 0]
  /\ marked = {}

BeginScan(t) ==
  /\ Goto(t, "idle", "scan")
  /\ \E n \in Lets : call' = [call EXCEPT ![t] = [op |-> "mark", name |-> n]]
  /\ index' = [index EXCEPT ![t] = 0]
  /\ UNCHANGED <<global_var_counter, global, global_size, reply, found_in, marked>>

(* The slot is compared; env->vm->global is read anew for each one.        *)
ScanSlot(t) ==
  /\ pc[t] = "scan"
  /\ index[t] < global_alloc_size
  /\ IF global[index[t]].name = call[t].name
     THEN /\ Goto(t, "scan", "mark_slot")
          /\ found_in' = [found_in EXCEPT ![t] = global_alloc_size]
          /\ UNCHANGED index
     ELSE /\ index' = [index EXCEPT ![t] = @ + 1]
          /\ UNCHANGED <<pc, found_in>>
  /\ UNCHANGED <<global_var_counter, global, global_size, call, reply, marked>>

(* The flag is written to the slot of that number, in the table there is   *)
(* now or, if the compiler kept the pointer, in the one that was freed.    *)
MarkSlot(t) ==
  /\ Goto(t, "mark_slot", "idle")
  /\ \/ global' = [global EXCEPT ![index[t]].const = TRUE]
     \/ found_in[t] # global_alloc_size /\ UNCHANGED global
  /\ marked' = marked \cup {call[t].name}
  /\ call' = [call EXCEPT ![t] = NoCall]
  /\ UNCHANGED <<global_var_counter, global_size, reply, index, found_in>>

ScanFails(t) ==
  /\ Goto(t, "scan", "idle")
  /\ index[t] >= global_alloc_size
  /\ call' = [call EXCEPT ![t] = NoCall]
  /\ UNCHANGED <<global_var_counter, global, global_size, reply, scanVars>>

ScanNext == \E t \in Threads :
  \/ Step(t) /\ UNCHANGED scanVars
  \/ BeginScan(t) \/ ScanSlot(t) \/ MarkSlot(t) \/ ScanFails(t)

ScanSpec == ScanInit /\ [][ScanNext]_<<vars, scanVars>>

(* A name that markConst has marked can no longer be assigned.             *)
MarkedIsConstant == \A n \in marked : globals[n].const

=============================================================================
