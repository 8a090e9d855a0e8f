---------------------------- MODULE AccelRuntime ----------------------------
(***************************************************************************)
(* The threads that use the accelerator context: the private package of    *)
(* accel/accel_runtime.c (begin, dispatch, finish), the optimizer callback *)
(* of accel/accel_callback.c, the finalizers that a collection runs, and   *)
(* the command line tool's main thread, which initializes the accelerator  *)
(* (accel/accel.c), runs the program and, when it returns, detaches and    *)
(* destroys the context while other script threads may still be using it.  *)
(*                                                                         *)
(* A step is what happens between two releases of state_mutex, or one call *)
(* of the backend.  Threads are stopped for collections as StopTheWorld    *)
(* says.  Sessions are native pointers of dictionaries: a collection       *)
(* finalizes any one that no thread is using, and the program never uses   *)
(* that one again.                                                         *)
(***************************************************************************)

EXTENDS AccelContext

CONSTANTS
  Threads,       \* The environments of the virtual machine.
  Main,          \* The one whose program is "main".
  Kernels,       \* The kernels of every program, dispatched in order.
  NoSession, NoThread

ASSUME AccelRuntimeAssumption ==
  /\ IsFiniteSet(Threads)
  /\ Main \in Threads
  /\ Kernels \in Nat
  /\ NoSession \notin Sessions /\ NoThread \notin Threads

VARIABLES
  binding,       \* The native metadata of the package __Accel.
  session,       \* session[s]: struct accel_runtime_session.
  exec,          \* exec[s]: the backend's execution made for s exists.
  pc,            \* Control point of each thread,
  sess,          \* the session it works on (pinned),
  prog,          \* the program it looked up or prepares,
  arg,           \* and the program id it reserved.
  wants_gc,      \* Threads that wait to begin a collection.
  collection     \* The collection under way and the finalizer it runs.

threadVars == <<pc, sess, prog, arg>>
gcVars     == <<wants_gc, collection>>
vars       == <<contextVars, binding, session, exec, threadVars, gcVars>>

Terminal == {"finished", "failed", "orphaned"}
States   == {"free", "creating", "recording", "dispatching", "submitting", "copy_ready"}
              \cup Terminal
Unused   == [state |-> "free", context |-> FALSE, execution |-> FALSE,
             next_kernel |-> 0, program |-> NoProgram, installed |-> FALSE]
Quiet    == [by |-> NoThread, step |-> "none", session |-> NoSession]

(* The main thread never leaves flight in accel_initialize, accel_finalize *)
(* and noct_destroy_vm; the others leave it to take the state mutex for    *)
(* long and to call the backend.                                           *)
MainPcs    == {"create", "register", "attach", "destroy", "drain", "orphan_next",
               "orphan_exec", "destroy_programs", "destroy_backend", "publish_teardown",
               "release", "vm_destroy", "teardown", "end"}
ClaimPcs   == {"claim_begin", "claim_dispatch", "claim_finish", "claim_optimize"}
InFlight   == MainPcs \cup ClaimPcs \cup
              {"retain", "metadata", "install", "copy", "end_operation", "discard_free",
               "prepare", "reserve", "commit", "undo_prepare"}
Blocking   == {"lookup", "link", "create_execution", "publish", "undo_exec", "discard",
               "discard_exec", "dispatch", "dispatching", "finish", "finishing",
               "copy_failed", "close", "fail_exec", "close_exec"}
Pcs        == InFlight \cup Blocking \cup {"idle"}

(* Where the thread has an execution of its own to publish or to destroy.  *)
OwningPcs  == {"publish", "undo_exec", "discard_exec", "fail_exec", "close_exec",
               "orphan_exec"}
(* Where it allocates managed objects, so that it may have to collect.     *)
GCPoints   == {"idle", "metadata", "install"}
Claimed    == (Pcs \ MainPcs) \ (ClaimPcs \cup {"idle"})

mode == [t \in Threads |-> IF collection.by = t THEN "exclusive"
                           ELSE IF pc[t] \in InFlight /\ t \notin wants_gc THEN "running"
                           ELSE "out"]
STW == INSTANCE StopTheWorld

(* Threads in native code go on during a collection; to return to the heap *)
(* they wait for its end.                                                  *)
Goto(t, to) ==
  /\ collection.by # t /\ t \notin wants_gc
  /\ (mode[t] = "out" /\ to \in InFlight) => STW!NobodyExclusive
  /\ pc' = [pc EXCEPT ![t] = to]

Keep(t) == UNCHANGED <<sess, prog, arg>>

(* The session's claim on the context is intact in the given state.        *)
Holds(s, st) == session[s].context /\ Linked(s) /\ session[s].state = st
HoldsExecution(s, st) == Holds(s, st) /\ session[s].execution

SetState(s, st) == session' = [session EXCEPT ![s].state = st]

(* Unlink s and take the execution away from it.                           *)
CloseSession(s, st) ==
  /\ IF Linked(s) THEN Unlink(s) ELSE UNCHANGED live
  /\ session' = [session EXCEPT ![s].state = st, ![s].context = FALSE,
                                ![s].execution = FALSE, ![s].program = NoProgram]

(* The wrapper of s is freed and its reference released.                   *)
FreeSession(s) ==
  /\ session' = [session EXCEPT ![s] = Unused]
  /\ ContextRelease

-----------------------------------------------------------------------------

Init ==
  /\ ContextInit
  /\ binding = "none"
  /\ session = [s \in Sessions |-> Unused]
  /\ exec = [s \in Sessions |-> FALSE]
  /\ pc = [t \in Threads |-> IF t = Main THEN "create" ELSE "idle"]
  /\ sess = [t \in Threads |-> NoSession]
  /\ prog = [t \in Threads |-> NoProgram]
  /\ arg = [t \in Threads |-> 0]
  /\ wants_gc = {}
  /\ collection = Quiet

-----------------------------------------------------------------------------
(* The main thread: accel_initialize, accel_finalize and noct_destroy_vm.  *)

Create ==
  /\ pc[Main] = "create"
  /\ ContextCreate
  /\ Goto(Main, "register")
  /\ Keep(Main)
  /\ UNCHANGED <<binding, session, exec, gcVars>>

(* Variant: the binding takes no reference of its own.                     *)
RegisterUnretained ==
  /\ pc[Main] = "register"
  /\ binding' = "live"
  /\ Goto(Main, "attach")
  /\ Keep(Main)
  /\ UNCHANGED <<contextVars, session, exec, gcVars>>

(* accel_runtime_register retains the context for the binding; when it     *)
(* fails the binding goes again, unless the package was published already. *)
Register ==
  /\ pc[Main] = "register"
  /\ \/ /\ MayRetain /\ ContextRetain
        /\ binding' = "live"
        /\ Goto(Main, "attach") \/ Goto(Main, "destroy")
     \/ /\ Goto(Main, "destroy")
        /\ UNCHANGED <<reference_count, binding>>
  /\ Keep(Main)
  /\ UNCHANGED <<shell, active_operation_count, gateVars, live, registryVars, backend,
                 session, exec, gcVars>>

Attach ==
  /\ pc[Main] = "attach"
  /\ ContextAttach
  /\ Goto(Main, "idle")
  /\ Keep(Main)
  /\ UNCHANGED <<shell, reference_count, active_operation_count, live, registryVars,
                 backend, binding, session, exec, gcVars>>

(* main has returned, or failed: accel_finalize.                           *)
EndProgram ==
  /\ pc[Main] = "idle"
  /\ ContextDetach
  /\ Goto(Main, "destroy")
  /\ Keep(Main)
  /\ UNCHANGED <<shell, reference_count, active_operation_count, live, registryVars,
                 backend, binding, session, exec, gcVars>>

BeginDestroy ==
  /\ pc[Main] = "destroy"
  /\ destroying' = TRUE /\ shutting_down' = TRUE
  /\ Goto(Main, "drain")
  /\ Keep(Main)
  /\ UNCHANGED <<shell, reference_count, active_operation_count, attached,
                 resources_destroyed, live, registryVars, backend, binding, session, exec,
                 gcVars>>

(* Variant: the destructor does not wait for the accepted operations.      *)
Undrained ==
  /\ pc[Main] = "drain"
  /\ Goto(Main, "orphan_next")
  /\ Keep(Main)
  /\ UNCHANGED <<contextVars, binding, session, exec, gcVars>>

Drained ==
  /\ pc[Main] = "drain"
  /\ active_operation_count = 0
  /\ Goto(Main, "orphan_next")
  /\ Keep(Main)
  /\ UNCHANGED <<contextVars, binding, session, exec, gcVars>>

(* Takes the head of the live list: accel_runtime_session_orphan_locked.   *)
OrphanNext ==
  /\ pc[Main] = "orphan_next"
  /\ live # <<>>
  /\ CloseSession(Head(live), "orphaned")
  /\ Goto(Main, IF session[Head(live)].execution THEN "orphan_exec" ELSE "orphan_next")
  /\ sess' = [sess EXCEPT ![Main] = Head(live)]
  /\ UNCHANGED <<shell, reference_count, active_operation_count, gateVars, registryVars,
                 backend, binding, exec, prog, arg, gcVars>>

OrphanExec ==
  /\ pc[Main] = "orphan_exec"
  /\ exec' = [exec EXCEPT ![sess[Main]] = FALSE]
  /\ Goto(Main, "orphan_next")
  /\ sess' = [sess EXCEPT ![Main] = NoSession]
  /\ UNCHANGED <<contextVars, binding, session, prog, arg, gcVars>>

OrphansDone ==
  /\ pc[Main] = "orphan_next"
  /\ live = <<>>
  /\ Goto(Main, "destroy_programs")
  /\ sess' = [sess EXCEPT ![Main] = NoSession]
  /\ UNCHANGED <<contextVars, binding, session, exec, prog, arg, gcVars>>

(* Programs, then the backend, then the owner's reference.                 *)
DestroyStep(from, to) ==
  /\ pc[Main] = from
  /\ Goto(Main, to)
  /\ Keep(Main)
  /\ UNCHANGED <<active_operation_count, live, binding, session, exec, gcVars>>

DestroyAllPrograms ==
  /\ DestroyStep("destroy_programs", "destroy_backend")
  /\ DestroyPrograms
  /\ UNCHANGED <<shell, reference_count, gateVars, backend>>

DestroyBackend ==
  /\ DestroyStep("destroy_backend", "publish_teardown")
  /\ backend' = "destroyed"
  /\ UNCHANGED <<shell, reference_count, gateVars, registryVars>>

PublishResourcesDestroyed ==
  /\ DestroyStep("publish_teardown", "release")
  /\ PublishTeardown
  /\ UNCHANGED <<shell, reference_count, backend>>

ReleaseOwner ==
  /\ DestroyStep("release", "vm_destroy")
  /\ ContextRelease
  /\ UNCHANGED <<gateVars, registryVars, backend>>

(* noct_destroy_vm finalizes every native pointer.  The virtual machine    *)
(* must not be destroyed while another environment is in use.              *)
BeginTeardown ==
  /\ \A t \in Threads \ {Main} : pc[t] = "idle"
  /\ wants_gc = {} /\ collection = Quiet
  /\ DestroyStep("vm_destroy", "teardown")
  /\ UNCHANGED <<shell, reference_count, gateVars, registryVars, backend>>

FinalizeBinding ==
  /\ pc[Main] = "teardown" /\ collection = Quiet
  /\ binding = "live"
  /\ binding' = "finalized"
  /\ ContextRelease
  /\ UNCHANGED <<active_operation_count, gateVars, live, registryVars, backend, session,
                 exec, threadVars, gcVars>>

EndTeardown ==
  /\ collection = Quiet
  /\ binding # "live" /\ \A s \in Sessions : ~session[s].installed
  /\ DestroyStep("teardown", "end")
  /\ UNCHANGED <<shell, reference_count, gateVars, registryVars, backend>>

-----------------------------------------------------------------------------
(* Entering and leaving an operation.                                      *)

(* accel_runtime_current_binding and the arguments: the program's threads  *)
(* call begin with any id, the others with any installed session.          *)
Call(t) ==
  /\ pc[t] = "idle"
  /\ attached /\ binding = "live"
  /\ \/ /\ Goto(t, "claim_begin") \/ Goto(t, "claim_optimize")
        /\ UNCHANGED sess
     \/ \E s \in Sessions :
          /\ session[s].installed /\ collection.session # s
          /\ sess' = [sess EXCEPT ![t] = s]
          /\ Goto(t, "claim_dispatch") \/ Goto(t, "claim_finish")
  /\ UNCHANGED <<contextVars, binding, session, exec, prog, arg, gcVars>>

(* accel_context_begin_operation; a refused claim ends the call.           *)
Claim(t, from, to) ==
  /\ pc[t] = from
  /\ IF MayClaim
     THEN BeginOperation /\ Goto(t, to) /\ UNCHANGED sess
     ELSE /\ Goto(t, "idle")
          /\ sess' = [sess EXCEPT ![t] = NoSession]
          /\ UNCHANGED active_operation_count
  /\ UNCHANGED <<shell, reference_count, gateVars, live, registryVars, backend, binding,
                 session, exec, prog, arg, gcVars>>

EndCall(t) ==
  /\ pc[t] = "end_operation"
  /\ EndOperation
  /\ Goto(t, "idle")
  /\ sess' = [sess EXCEPT ![t] = NoSession]
  /\ prog' = [prog EXCEPT ![t] = NoProgram]
  /\ arg' = [arg EXCEPT ![t] = 0]
  /\ UNCHANGED <<shell, reference_count, gateVars, live, registryVars, backend, binding,
                 session, exec, gcVars>>

(* A step that changes no more than pc, or no more than the session.       *)
Move(t, to) == Goto(t, to) /\ Keep(t)
ContextKept == UNCHANGED <<contextVars, binding, gcVars>>
ListOnly    == UNCHANGED <<shell, reference_count, active_operation_count, gateVars,
                           registryVars, backend, binding, gcVars>>

(* ops.destroy_execution.                                                  *)
DestroyExecution(t, from, to) ==
  /\ pc[t] = from
  /\ Move(t, to)
  /\ exec' = [exec EXCEPT ![sess[t]] = FALSE]
  /\ ContextKept /\ UNCHANGED session

-----------------------------------------------------------------------------
(* begin                                                                   *)

LookupProgram(t) ==
  /\ pc[t] = "lookup"
  /\ \E id \in ProgramIds :
       IF attached /\ Lookup(id) # NoProgram
       THEN prog' = [prog EXCEPT ![t] = Lookup(id)] /\ Goto(t, "retain")
       ELSE Goto(t, "end_operation") /\ UNCHANGED prog
  /\ ContextKept
  /\ UNCHANGED <<session, exec, sess, arg>>

(* A wrapper is allocated and holds a reference; either may fail.          *)
AllocateSession(t) ==
  /\ pc[t] = "retain"
  /\ \/ \E s \in Sessions :
          /\ session[s] = Unused
          /\ MayRetain /\ ContextRetain
          /\ session' = [session EXCEPT ![s].state = "creating", ![s].context = TRUE,
                                        ![s].program = prog[t]]
          /\ sess' = [sess EXCEPT ![t] = s]
          /\ Goto(t, "metadata")
     \/ /\ Goto(t, "end_operation")
        /\ UNCHANGED <<reference_count, session, sess>>
  /\ UNCHANGED <<shell, active_operation_count, gateVars, live, registryVars, backend,
                 binding, exec, prog, arg, gcVars>>

ReadMetadata(t) ==
  /\ pc[t] = "metadata"
  /\ Move(t, "link") \/ Move(t, "discard")
  /\ ContextKept /\ UNCHANGED <<session, exec>>

ProgramUnchanged(s) == \E id \in ProgramIds : Lookup(id) = session[s].program

LinkSession(t) ==
  /\ pc[t] = "link"
  /\ IF attached /\ ProgramUnchanged(sess[t])
     THEN Move(t, "create_execution") /\ Link(sess[t])
     ELSE Move(t, "discard") /\ UNCHANGED live
  /\ ListOnly /\ UNCHANGED <<session, exec>>

(* The device limit or the backend may refuse: the session fails and is    *)
(* unlinked, if the claim on it is still intact.                           *)
CreateExecution(t) ==
  LET s == sess[t] IN
  /\ pc[t] = "create_execution"
  /\ \/ /\ Move(t, "publish")
        /\ exec' = [exec EXCEPT ![s] = TRUE]
        /\ ContextKept /\ UNCHANGED session
     \/ /\ IF Holds(s, "creating")
           THEN CloseSession(s, "failed") /\ Move(t, "discard_free")
           ELSE Move(t, "discard") /\ UNCHANGED <<live, session>>
        /\ ListOnly /\ UNCHANGED exec

(* Variant: a changed program drops the execution without destroying it.   *)
PublishExecutionLeaking(t) ==
  LET s == sess[t] IN
  /\ pc[t] = "publish"
  /\ IF attached /\ Holds(s, "creating") /\ ProgramUnchanged(s)
     THEN /\ Move(t, "install")
          /\ session' = [session EXCEPT ![s].execution = TRUE, ![s].state = "recording"]
          /\ UNCHANGED live
     ELSE CloseSession(s, "failed") /\ Move(t, "discard_free")
  /\ ListOnly /\ UNCHANGED exec

PublishExecution(t) ==
  LET s == sess[t] IN
  /\ pc[t] = "publish"
  /\ IF attached /\ Holds(s, "creating") /\ ProgramUnchanged(s)
     THEN /\ Move(t, "install")
          /\ session' = [session EXCEPT ![s].execution = TRUE, ![s].state = "recording"]
          /\ UNCHANGED live
     ELSE /\ Move(t, "undo_exec")
          /\ IF Holds(s, "creating") THEN CloseSession(s, "failed")
             ELSE UNCHANGED <<live, session>>
  /\ ListOnly /\ UNCHANGED exec

(* The dictionary that owns the session is made; it may not fit.           *)
InstallSession(t) ==
  /\ pc[t] = "install"
  /\ \/ /\ Move(t, "end_operation")
        /\ session' = [session EXCEPT ![sess[t]].installed = TRUE]
     \/ /\ Move(t, "discard")
        /\ UNCHANGED session
  /\ ContextKept /\ UNCHANGED exec

-----------------------------------------------------------------------------
(* accel_runtime_discard_session                                           *)

DiscardSession(t) ==
  /\ pc[t] = "discard"
  /\ CloseSession(sess[t], "failed")
  /\ Move(t, IF session[sess[t]].execution THEN "discard_exec" ELSE "discard_free")
  /\ ListOnly /\ UNCHANGED exec

DiscardFree(t) ==
  /\ pc[t] = "discard_free"
  /\ FreeSession(sess[t])
  /\ Goto(t, "end_operation")
  /\ sess' = [sess EXCEPT ![t] = NoSession]
  /\ UNCHANGED <<active_operation_count, gateVars, live, registryVars, backend, binding,
                 exec, prog, arg, gcVars>>

-----------------------------------------------------------------------------
(* dispatch and finish                                                     *)

(* Variant: the state of the session is not looked at.                     *)
DispatchSessionUnchecked(t) ==
  /\ pc[t] = "dispatch"
  /\ IF session[sess[t]].execution /\ session[sess[t]].next_kernel < Kernels
     THEN Move(t, "dispatching") /\ SetState(sess[t], "dispatching")
     ELSE Move(t, "end_operation") /\ UNCHANGED session
  /\ ContextKept /\ UNCHANGED exec

(* The kernel asked for is the next one, or the call is refused.           *)
DispatchSession(t) ==
  /\ pc[t] = "dispatch"
  /\ \/ /\ HoldsExecution(sess[t], "recording") /\ session[sess[t]].next_kernel < Kernels
        /\ Move(t, "dispatching") /\ SetState(sess[t], "dispatching")
     \/ Move(t, "end_operation") /\ UNCHANGED session
  /\ ContextKept /\ UNCHANGED exec

FailSession(t) ==
  /\ CloseSession(sess[t], "failed")
  /\ Move(t, IF session[sess[t]].execution THEN "fail_exec" ELSE "end_operation")
  /\ ListOnly /\ UNCHANGED exec

(* The backend's call has returned; the session is verified again.         *)
DispatchReturns(t) ==
  LET s == sess[t] IN
  /\ pc[t] = "dispatching"
  /\ IF ~HoldsExecution(s, "dispatching")
     THEN Move(t, "end_operation") /\ ContextKept /\ UNCHANGED <<session, exec>>
     ELSE \/ /\ Move(t, "end_operation")
             /\ session' = [session EXCEPT ![s].state = "recording", ![s].next_kernel = @ + 1]
             /\ ContextKept /\ UNCHANGED exec
          \/ FailSession(t)

FinishSession(t) ==
  /\ pc[t] = "finish"
  /\ IF HoldsExecution(sess[t], "recording") /\ session[sess[t]].next_kernel = Kernels
     THEN Move(t, "finishing") /\ SetState(sess[t], "submitting")
     ELSE Move(t, "end_operation") /\ UNCHANGED session
  /\ ContextKept /\ UNCHANGED exec

FinishReturns(t) ==
  LET s == sess[t] IN
  /\ pc[t] = "finishing"
  /\ IF ~HoldsExecution(s, "submitting")
     THEN Move(t, "end_operation") /\ ContextKept /\ UNCHANGED <<session, exec>>
     ELSE \/ /\ Move(t, "copy") /\ SetState(s, "copy_ready")
             /\ ContextKept /\ UNCHANGED exec
          \/ FailSession(t)

(* The results are copied out in flight; arguments may not fit any more.   *)
CopyResults(t) ==
  /\ pc[t] = "copy"
  /\ Move(t, "close") \/ Move(t, "copy_failed")
  /\ ContextKept /\ UNCHANGED <<session, exec>>

CopyFailed(t) ==
  /\ pc[t] = "copy_failed"
  /\ IF HoldsExecution(sess[t], "copy_ready") THEN FailSession(t)
     ELSE /\ Move(t, "end_operation")
          /\ ContextKept /\ UNCHANGED <<session, exec>>

FinishClose(t) ==
  /\ pc[t] = "close"
  /\ IF HoldsExecution(sess[t], "copy_ready")
     THEN CloseSession(sess[t], "finished") /\ Move(t, "close_exec")
     ELSE Move(t, "end_operation") /\ UNCHANGED <<live, session>>
  /\ ListOnly /\ UNCHANGED exec

-----------------------------------------------------------------------------
(* The optimizer callback, for a function with one region.                 *)

Unprepared == {p \in Programs : program[p] = "none"}

OptimizerStep(t, from, to) ==
  /\ pc[t] = from
  /\ Goto(t, to)
  /\ UNCHANGED <<shell, reference_count, active_operation_count, gateVars, live, backend,
                 binding, session, exec, sess, gcVars>>

PrepareProgram(t) ==
  \/ \E p \in Unprepared :
       /\ OptimizerStep(t, "prepare", "reserve")
       /\ program' = [program EXCEPT ![p] = "prepared"]
       /\ prog' = [prog EXCEPT ![t] = p]
       /\ UNCHANGED <<registry, next_program_id, arg>>
  \/ /\ OptimizerStep(t, "prepare", "end_operation")   \* declined or failed
     /\ UNCHANGED <<registryVars, prog, arg>>

ReserveProgram(t) ==
  /\ \/ /\ MayReserve
        /\ OptimizerStep(t, "reserve", "commit")
        /\ Reserve
        /\ arg' = [arg EXCEPT ![t] = next_program_id]
     \/ /\ OptimizerStep(t, "reserve", "undo_prepare")
        /\ UNCHANGED <<registryVars, arg>>
  /\ UNCHANGED prog

(* The budget, the staging or the locals may fail; otherwise the programs  *)
(* are published, in one critical section with the rewriting.              *)
CommitPrograms(t) ==
  /\ pc[t] = "commit"
  /\ \/ /\ MayCommit(arg[t])
        /\ OptimizerStep(t, "commit", "end_operation")
        /\ Publish(prog[t], arg[t])
     \/ /\ OptimizerStep(t, "commit", "undo_prepare")
        /\ UNCHANGED registryVars
  /\ UNCHANGED <<prog, arg>>

UndoPrepare(t) ==
  /\ OptimizerStep(t, "undo_prepare", "end_operation")
  /\ program' = [program EXCEPT ![prog[t]] = "none"]
  /\ UNCHANGED <<registry, next_program_id, prog, arg>>

-----------------------------------------------------------------------------
(* Collections and the session finalizer.                                  *)

RequestGC(t) ==
  /\ pc[t] \in GCPoints
  /\ attached \/ shutting_down         \* Threads exist.
  /\ collection.by # t /\ STW!NobodyExclusive
  /\ wants_gc' = wants_gc \cup {t}
  /\ UNCHANGED <<contextVars, binding, session, exec, threadVars, collection>>

BeginGC(t) ==
  /\ t \in wants_gc
  /\ wants_gc' = wants_gc \ {t}
  /\ collection' = [by |-> t, step |-> "mark", session |-> NoSession]
  /\ UNCHANGED <<contextVars, binding, session, exec, threadVars>>
  /\ STW!BeginSection(t)

EndGC(t) ==
  /\ collection.by = t /\ collection.step = "mark"
  /\ collection' = Quiet
  /\ UNCHANGED <<contextVars, binding, session, exec, threadVars, wants_gc>>

InUse(s) == \E t \in Threads : sess[t] = s

(* A dead dictionary is found, by a collection or by om_destroy.           *)
BeginFinalizer ==
  \E s \in Sessions, t \in Threads :
    /\ session[s].installed /\ ~InUse(s)
    /\ \/ collection.by = t /\ collection.step = "mark"
       \/ t = Main /\ pc[Main] = "teardown" /\ collection = Quiet
    /\ collection' = [by |-> t, step |-> "claim", session |-> s]
    /\ UNCHANGED <<contextVars, binding, session, exec, threadVars, wants_gc>>

FinalizerStep(from, to) ==
  /\ collection.step = from
  /\ collection' = [collection EXCEPT !.step = to]
  /\ UNCHANGED <<gateVars, registryVars, backend, binding, threadVars, wants_gc>>

(* accel_context_begin_session_cleanup                                     *)
FinalizerClaim ==
  /\ ~(destroying /\ Linked(collection.session))
  /\ IF Linked(collection.session)
     THEN BeginOperation /\ FinalizerStep("claim", "detach")
     ELSE FinalizerStep("claim", "free") /\ UNCHANGED active_operation_count
  /\ UNCHANGED <<shell, reference_count, live, session, exec>>

FinalizerDetach ==
  LET s == collection.session IN
  /\ collection.step = "detach"
  /\ IF session[s].context /\ Linked(s)
     THEN /\ CloseSession(s, "orphaned")
          /\ FinalizerStep("detach", IF session[s].execution THEN "exec" ELSE "end")
     ELSE FinalizerStep("detach", "end") /\ UNCHANGED <<live, session>>
  /\ UNCHANGED <<shell, reference_count, active_operation_count, exec>>

FinalizerExec ==
  /\ FinalizerStep("exec", "end")
  /\ exec' = [exec EXCEPT ![collection.session] = FALSE]
  /\ UNCHANGED <<shell, reference_count, active_operation_count, live, session>>

FinalizerEnd ==
  /\ FinalizerStep("end", "free")
  /\ EndOperation
  /\ UNCHANGED <<shell, reference_count, live, session, exec>>

FinalizerFree ==
  /\ collection.step = "free"
  /\ FreeSession(collection.session)
  /\ collection' = IF pc[Main] = "teardown" THEN Quiet
                   ELSE [collection EXCEPT !.step = "mark", !.session = NoSession]
  /\ UNCHANGED <<active_operation_count, gateVars, live, registryVars, backend, binding,
                 exec, threadVars, wants_gc>>

-----------------------------------------------------------------------------

MainStep ==
  \/ Create \/ Register \/ Attach \/ BeginDestroy \/ Drained
  \/ OrphanNext \/ OrphanExec \/ OrphansDone
  \/ DestroyAllPrograms \/ DestroyBackend \/ PublishResourcesDestroyed \/ ReleaseOwner
  \/ BeginTeardown \/ FinalizeBinding \/ EndTeardown

Claims(t) ==
  \/ Claim(t, "claim_begin", "lookup")    \/ Claim(t, "claim_dispatch", "dispatch")
  \/ Claim(t, "claim_finish", "finish")   \/ Claim(t, "claim_optimize", "prepare")

DestroysExecution(t) ==
  \/ DestroyExecution(t, "undo_exec", "discard_free")
  \/ DestroyExecution(t, "discard_exec", "discard_free")
  \/ DestroyExecution(t, "fail_exec", "end_operation")
  \/ DestroyExecution(t, "close_exec", "end_operation")

OperationStep(t) ==
  \/ Claims(t) \/ EndCall(t) \/ DestroysExecution(t)
  \/ LookupProgram(t) \/ AllocateSession(t) \/ ReadMetadata(t) \/ LinkSession(t)
  \/ CreateExecution(t) \/ PublishExecution(t) \/ InstallSession(t)
  \/ DiscardSession(t) \/ DiscardFree(t)
  \/ DispatchSession(t) \/ DispatchReturns(t)
  \/ FinishSession(t) \/ FinishReturns(t) \/ CopyResults(t) \/ CopyFailed(t) \/ FinishClose(t)
  \/ PrepareProgram(t) \/ ReserveProgram(t) \/ CommitPrograms(t) \/ UndoPrepare(t)

FinalizerSteps ==
  \/ BeginFinalizer \/ FinalizerClaim \/ FinalizerDetach \/ FinalizerExec
  \/ FinalizerEnd \/ FinalizerFree

CollectionStep ==
  \/ \E t \in Threads : BeginGC(t) \/ EndGC(t)
  \/ FinalizerSteps

Next ==
  \/ MainStep
  \/ EndProgram
  \/ \E t \in Threads : Call(t) \/ OperationStep(t) \/ RequestGC(t)
  \/ CollectionStep

Spec == Init /\ [][Next]_vars

(* A thread in an operation goes on, the backend answers, collections end  *)
(* and main does what it was called for.  Nothing makes a program call, or *)
(* end.                                                                    *)
FairSpec ==
  /\ Spec
  /\ WF_vars(MainStep)
  /\ WF_vars(CollectionStep)
  /\ \A t \in Threads : WF_vars(OperationStep(t))

-----------------------------------------------------------------------------
(* Properties.                                                             *)

(* Every variable has its type.                                            *)
TypeOK ==
  /\ ContextTypeOK
  /\ binding \in {"none", "live", "finalized"}
  /\ session \in [Sessions -> [state : States, context : BOOLEAN, execution : BOOLEAN,
                               next_kernel : 0 .. Kernels,
                               program : Programs \cup {NoProgram}, installed : BOOLEAN]]
  /\ exec \in [Sessions -> BOOLEAN]
  /\ pc \in [Threads -> Pcs]
  /\ sess \in [Threads -> Sessions \cup {NoSession}]
  /\ prog \in [Threads -> Programs \cup {NoProgram}]
  /\ arg \in [Threads -> 0 .. MaxProgramId]
  /\ wants_gc \subseteq Threads
  /\ collection.by \in Threads \cup {NoThread}
  /\ collection.session \in Sessions \cup {NoSession}

(* Who is responsible for destroying the execution of s: the session, a    *)
(* thread that is about to do it, or the finalizer.                        *)
ExecutionOwners(s) ==
  {t \in Threads : pc[t] \in OwningPcs /\ sess[t] = s}
    \cup (IF session[s].execution THEN {"session"} ELSE {})
    \cup (IF collection.step = "exec" /\ collection.session = s THEN {"finalizer"} ELSE {})

(* An execution of the backend has exactly one owner as long as it exists: *)
(* it is never destroyed twice and never forgotten, whichever of finish,   *)
(* failure, discard, finalizer and destruction gets there first.           *)
ExecutionHasOneOwner ==
  \A s \in Sessions :
    Cardinality(ExecutionOwners(s)) = IF exec[s] THEN 1 ELSE 0

(* The backend's state is destroyed last: by then no execution and no      *)
(* program of it is left and no thread is inside an operation; and a       *)
(* session that has not ended uses a program that still exists.            *)
BackendDiesLast ==
  /\ backend = "destroyed" =>
       /\ \A s \in Sessions : ~exec[s]
       /\ \A p \in Programs : program[p] \in {"none", "destroyed"}
       /\ \A t \in Threads : pc[t] \notin Claimed
  /\ \A s \in Sessions : session[s].program # NoProgram =>
       program[session[s].program] = "published"

Count(b) == IF b THEN 1 ELSE 0

(* The reference count is the number of those that will use the mutex of   *)
(* the context again: its owner, the binding and every session wrapper.    *)
(* The shell is freed with the last of them, and nobody is left inside.    *)
ReferencesAreCounted ==
  /\ reference_count = Count(pc[Main] \notin {"create", "vm_destroy", "teardown", "end"})
                         + Count(binding = "live")
                         + Cardinality({s \in Sessions : session[s].state # "free"})
  /\ shell = "live" <=> reference_count > 0
  /\ pc[Main] = "end" => shell = "freed"

(* What a thread claimed under the mutex still holds when it comes back    *)
(* from the backend: "session changed" cannot happen, and the live list    *)
(* contains exactly the sessions whose execution is or may be alive.       *)
ClaimIsKept ==
  /\ \A t \in Threads :
       /\ pc[t] \in {"create_execution", "publish"} => Holds(sess[t], "creating")
       /\ pc[t] = "dispatching" => HoldsExecution(sess[t], "dispatching")
       /\ pc[t] = "finishing" => HoldsExecution(sess[t], "submitting")
       /\ pc[t] \in {"copy", "copy_failed", "close"} => HoldsExecution(sess[t], "copy_ready")
  /\ \A s \in Sessions :
       /\ session[s].execution => Linked(s)
       /\ Linked(s) => session[s].context
  /\ \A i, j \in 1 .. Len(live) : live[i] = live[j] => i = j

(* accel_context_destroy gets past the drain: a thread that waits for      *)
(* others stalls neither them nor their collections.                       *)
DestructionEnds == pc[Main] = "drain" ~> pc[Main] = "vm_destroy"

=============================================================================
