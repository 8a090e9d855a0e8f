---------------------------- MODULE AccelContext ----------------------------
(***************************************************************************)
(* The accelerator context of accel/accel_context.c: the object through    *)
(* which the threads of one virtual machine reach a GPU backend.           *)
(*                                                                         *)
(* Its owner creates it, attaches it to the virtual machine, detaches it   *)
(* and destroys it.  A thread that wants the backend claims the context    *)
(* for one operation; destruction closes the gate for claims, waits until  *)
(* the accepted ones have ended, takes the executions away from the        *)
(* sessions in the live list, and only then destroys the programs and the  *)
(* backend.  References keep the shell (the mutex) alive for finalizers    *)
(* that come later.                                                        *)
(*                                                                         *)
(* This module has the context's state and its operations; each operator   *)
(* is what one function does while it holds state_mutex, so it is atomic.  *)
(* AccelRuntime.tla has the threads that call them.                        *)
(***************************************************************************)

EXTENDS Integers, Sequences, FiniteSets

CONSTANTS
  Sessions,      \* The recording sessions that can be allocated.
  Programs,      \* The programs the optimizer can extract.
  NoProgram,     \* NULL.
  MaxProgramId   \* Bound: the largest id the registry hands out (INT_MAX).

ASSUME AccelContextAssumption ==
  /\ IsFiniteSet(Sessions) /\ IsFiniteSet(Programs)
  /\ NoProgram \notin Programs
  /\ MaxProgramId \in Nat

VARIABLES
  shell,                    \* The context's memory and its mutex.
  reference_count,
  active_operation_count,
  attached,                 \* Also: vm->accel_optimize_userdata is the context.
  shutting_down,
  destroying,
  resources_destroyed,
  live,                     \* The list from live_session_head to _tail.
  registry,                 \* registry[id]: the program published under id.
  next_program_id,
  program,                  \* program[p]: what became of p's backend payload.
  backend                   \* The backend's private state.

gateVars     == <<attached, shutting_down, destroying, resources_destroyed>>
registryVars == <<registry, next_program_id, program>>
contextVars  == <<shell, reference_count, active_operation_count, gateVars, live,
                  registryVars, backend>>

ProgramIds == 1 .. MaxProgramId

ContextTypeOK ==
  /\ shell \in {"none", "live", "freed"}
  /\ reference_count \in 0 .. Cardinality(Sessions) + 2
  /\ active_operation_count \in Nat
  /\ {attached, shutting_down, destroying, resources_destroyed} \subseteq BOOLEAN
  /\ live \in Seq(Sessions)
  /\ registry \in [ProgramIds -> Programs \cup {NoProgram}]
  /\ next_program_id \in 1 .. MaxProgramId + 1
  /\ program \in [Programs -> {"none", "prepared", "published", "destroyed"}]
  /\ backend \in {"live", "destroyed"}

ContextInit ==
  /\ shell = "none"
  /\ reference_count = 0
  /\ active_operation_count = 0
  /\ attached = FALSE /\ shutting_down = FALSE
  /\ destroying = FALSE /\ resources_destroyed = FALSE
  /\ live = <<>>
  /\ registry = [i \in ProgramIds |-> NoProgram]
  /\ next_program_id = 1
  /\ program = [p \in Programs |-> "none"]
  /\ backend = "live"

-----------------------------------------------------------------------------
(* The shell and its references.                                           *)

ContextCreate ==
  /\ shell' = "live"
  /\ reference_count' = 1
  /\ UNCHANGED <<active_operation_count, gateVars, live, registryVars, backend>>

(* accel_context_retain refuses a context that is being destroyed.         *)
MayRetain == ~destroying /\ ~resources_destroyed /\ reference_count # 0

ContextRetain == reference_count' = reference_count + 1

ContextRelease ==
  /\ reference_count' = reference_count - 1
  /\ shell' = IF reference_count = 1 THEN "freed" ELSE shell

-----------------------------------------------------------------------------
(* The gate for operations.                                                *)

ContextAttach ==
  /\ attached' = TRUE
  /\ UNCHANGED <<shutting_down, destroying, resources_destroyed>>

ContextDetach ==
  /\ attached' = FALSE
  /\ shutting_down' = TRUE
  /\ UNCHANGED <<destroying, resources_destroyed>>

MayClaim == attached /\ ~shutting_down

BeginOperation == active_operation_count' = active_operation_count + 1

EndOperation == active_operation_count' = active_operation_count - 1

-----------------------------------------------------------------------------
(* The live list.                                                          *)

Linked(s) == \E i \in 1 .. Len(live) : live[i] = s

(* link_session_locked and unlink_session_locked abort on a misuse; that   *)
(* it never happens follows from ClaimIsKept of AccelRuntime.tla.          *)
Link(s)   == live' = Append(live, s)
Unlink(s) ==
  \E i \in 1 .. Len(live) :
    /\ live[i] = s
    /\ live' = SubSeq(live, 1, i - 1) \o SubSeq(live, i + 1, Len(live))

-----------------------------------------------------------------------------
(* The program registry.                                                   *)

Lookup(id) == IF id \in ProgramIds THEN registry[id] ELSE NoProgram

(* Variant: ids are handed out past the last one.                          *)
MayReserveAny == MayClaim

(* accel_context_reserve_programs for one program: an id is used up even   *)
(* when the reservation is cancelled later.                                *)
MayReserve == MayClaim /\ next_program_id <= MaxProgramId

Reserve ==
  /\ next_program_id' = next_program_id + 1
  /\ UNCHANGED <<registry, program>>

(* accel_context_lock_commit revalidates the reservation.                  *)
MayCommit(id) == attached /\ registry[id] = NoProgram

Publish(p, id) ==
  /\ registry' = [registry EXCEPT ![id] = p]
  /\ program' = [program EXCEPT ![p] = "published"]
  /\ UNCHANGED next_program_id

-----------------------------------------------------------------------------
(* accel_context_destroy, after every session was orphaned.                *)

DestroyPrograms ==
  /\ program' = [p \in Programs |->
                   IF \E i \in ProgramIds : registry[i] = p THEN "destroyed"
                   ELSE program[p]]
  /\ UNCHANGED <<registry, next_program_id>>

PublishTeardown ==
  /\ registry' = [i \in ProgramIds |-> NoProgram]
  /\ resources_destroyed' = TRUE
  /\ UNCHANGED <<next_program_id, program, attached, shutting_down, destroying>>

=============================================================================
