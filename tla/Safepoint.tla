------------------------------ MODULE Safepoint ------------------------------
(***************************************************************************)
(* The stop-the-world handshake of core/objectmodel-mt.c.                  *)
(*                                                                         *)
(* Every thread that executes managed code is counted in                   *)
(* in_flight_counter.  A thread that needs the world stopped leaves that   *)
(* count, raises a request in stw_request_counter, competes for            *)
(* stw_executor_lock and, once it holds it, spins until nobody is in       *)
(* flight.  Every other thread polls the requests at its safepoints and    *)
(* parks, out of flight, until all of them were served.                    *)
(*                                                                         *)
(* One action is one atomic operation on a shared counter together with    *)
(* the thread-local bookkeeping around it; a spin loop is an action that   *)
(* is enabled when the loop's condition lets the thread out.  A definition *)
(* marked "Variant" is no part of the specification: it is the faulty form *)
(* of the definition after it, with which TLC shows that a property can    *)
(* fail.                                                                   *)
(***************************************************************************)

EXTENDS Integers, FiniteSets

CONSTANT Threads    \* The environments (struct rt_env) of one virtual machine.

ASSUME ThreadsAssumption == IsFiniteSet(Threads)

VARIABLES
  in_flight_counter,        \* vm: threads outside safepoints.
  stw_request_counter,      \* vm: requests raised and not yet lowered.
  stw_executor_lock,        \* vm: 0 when free; contenders add 1 and back off.
  gc_in_progress_counter,   \* vm: nesting depth of om_enter_gc.
  gc_level,                 \* vm: level of the innermost collection.
  is_in_flight,             \* env: this thread is counted in in_flight_counter.
  is_stw_raised,            \* env: this thread is counted in stw_request_counter.
  is_stw_executor,          \* env: set from winning the lock to lowering the request.
  caller,                   \* env: the function that is promoting to executor.
  pc                        \* env: the control point, named below.

vmVars  == <<in_flight_counter, stw_request_counter, stw_executor_lock>>
gcVars  == <<gc_in_progress_counter, gc_level>>
envVars == <<is_in_flight, is_stw_raised, is_stw_executor, caller>>
vars    == <<vmVars, gcVars, envVars, pc>>

GCLevels == 0 .. 2
Callers  == {"none", "om_enter_gc", "promote_to_shared"}

-----------------------------------------------------------------------------
(* Control points.                                                         *)

(* detached     the environment is parked in no thread (or a free list)    *)
(* run          between two safepoints: the heap may be touched            *)
(* blocked      inside om_enter_blocking / om_leave_blocking               *)
(* sync         at "retry:" of synchronize_safepoints                      *)
(* yielding     saw a request, about to enter the safepoint                *)
(* parked       spinning in ensure_all_stw_requests_completed              *)
(* resuming     saw no request, about to leave the safepoint               *)
MutatorPcs == {"detached", "run", "blocked", "sync", "yielding", "parked", "resuming"}

(* raise        out of flight, about to raise its request                  *)
(* try          about to add to stw_executor_lock                          *)
(* back_off     lost the race, its increment not yet taken back            *)
(* wait_demote  spinning until stw_executor_lock reads 0                   *)
(* wait_all     executor, spinning until nobody is in flight               *)
(* wait_again   om_enter_gc repeats that wait                              *)
(* section      the stop-the-world section                                 *)
(* settle       a promotion published its flag and waits once more         *)
(* demote       section over, about to release stw_executor_lock           *)
(* lower        about to lower its request                                 *)
(* leave        about to leave the safepoint                               *)
ExecutorPcs == {"raise", "try", "back_off", "wait_demote", "wait_all", "wait_again",
                "section", "settle", "demote", "lower", "leave"}

InFlightPcs == {"run", "sync", "yielding"}
RaisedPcs   == ExecutorPcs \ {"raise", "leave"}
HolderPcs   == {"wait_all", "wait_again", "section", "settle", "demote"}
LockPcs     == HolderPcs \cup {"back_off"}
SectionPcs  == {"section", "settle"}

Goto(t, from, to) == pc[t] = from /\ pc' = [pc EXCEPT ![t] = to]

-----------------------------------------------------------------------------

Init ==
  /\ in_flight_counter = 0
  /\ stw_request_counter = 0
  /\ stw_executor_lock = 0
  /\ gc_in_progress_counter = 0
  /\ gc_level = 0
  /\ is_in_flight = [t \in Threads |-> FALSE]
  /\ is_stw_raised = [t \in Threads |-> FALSE]
  /\ is_stw_executor = [t \in Threads |-> FALSE]
  /\ caller = [t \in Threads |-> "none"]
  /\ pc = [t \in Threads |-> "detached"]

EnterSafepoint(t) ==
  /\ in_flight_counter' = in_flight_counter - 1
  /\ is_in_flight' = [is_in_flight EXCEPT ![t] = FALSE]

LeaveSafepoint(t) ==
  /\ in_flight_counter' = in_flight_counter + 1
  /\ is_in_flight' = [is_in_flight EXCEPT ![t] = TRUE]

OnlyInFlightChanges ==
  UNCHANGED <<stw_request_counter, stw_executor_lock, gcVars, is_stw_raised,
              is_stw_executor>>

-----------------------------------------------------------------------------
(* Threads come, block, and go.                                            *)

(* om_init_env: a new thread adopts its environment.                       *)
InitEnv(t) ==
  /\ Goto(t, "detached", "sync")
  /\ LeaveSafepoint(t)
  /\ OnlyInFlightChanges
  /\ UNCHANGED caller

(* rt_detach_thread_env: the thread ends, its environment is recycled.     *)
DetachEnv(t) ==
  /\ Goto(t, "run", "detached")
  /\ EnterSafepoint(t)
  /\ OnlyInFlightChanges
  /\ UNCHANGED caller

EnterBlocking(t) ==
  /\ Goto(t, "run", "blocked")
  /\ EnterSafepoint(t)
  /\ OnlyInFlightChanges
  /\ UNCHANGED caller

LeaveBlocking(t) ==
  /\ Goto(t, "blocked", "sync")
  /\ LeaveSafepoint(t)
  /\ OnlyInFlightChanges
  /\ UNCHANGED caller

-----------------------------------------------------------------------------
(* synchronize_safepoints: poll, park, recheck.                            *)

(* om_safepoint, and the first step of every heap access.                  *)
Poll(t) ==
  /\ Goto(t, "run", "sync")
  /\ UNCHANGED <<vmVars, gcVars, envVars>>

(* Variant: waiting for the current executor instead of every request.     *)
CheckExecutorOnly(t) ==
  /\ Goto(t, "sync", IF stw_executor_lock = 0 THEN "run" ELSE "yielding")
  /\ UNCHANGED <<vmVars, gcVars, envVars>>

CheckRequests(t) ==
  /\ Goto(t, "sync", IF stw_request_counter = 0 THEN "run" ELSE "yielding")
  /\ UNCHANGED <<vmVars, gcVars, envVars>>

Park(t) ==
  /\ Goto(t, "yielding", "parked")
  /\ EnterSafepoint(t)
  /\ OnlyInFlightChanges
  /\ UNCHANGED caller

RequestsCompleted(t) ==
  /\ stw_request_counter = 0
  /\ Goto(t, "parked", "resuming")
  /\ UNCHANGED <<vmVars, gcVars, envVars>>

(* Variant: back to the heap without rechecking the requests.              *)
UnparkWithoutRecheck(t) ==
  /\ Goto(t, "resuming", "run")
  /\ LeaveSafepoint(t)
  /\ OnlyInFlightChanges
  /\ UNCHANGED caller

Unpark(t) ==
  /\ Goto(t, "resuming", "sync")
  /\ LeaveSafepoint(t)
  /\ OnlyInFlightChanges
  /\ UNCHANGED caller

-----------------------------------------------------------------------------
(* promote_to_stw_executor: become the one thread that may stop the world. *)

(* The two callers first leave flight: om_enter_gc outside a collection,   *)
(* and promote_array_to_shared / promote_dict_to_shared.                   *)
StartGC(t) ==
  /\ gc_in_progress_counter = 0
  /\ Goto(t, "run", "raise")
  /\ EnterSafepoint(t)
  /\ caller' = [caller EXCEPT ![t] = "om_enter_gc"]
  /\ OnlyInFlightChanges

StartPromotion(t) ==
  /\ Goto(t, "run", "raise")
  /\ EnterSafepoint(t)
  /\ caller' = [caller EXCEPT ![t] = "promote_to_shared"]
  /\ OnlyInFlightChanges

RaiseRequest(t) ==
  /\ Goto(t, "raise", "try")
  /\ stw_request_counter' = stw_request_counter + 1
  /\ is_stw_raised' = [is_stw_raised EXCEPT ![t] = TRUE]
  /\ UNCHANGED <<in_flight_counter, stw_executor_lock, gcVars, is_in_flight,
                 is_stw_executor, caller>>

(* Variant: the old value of the lock is ignored.                          *)
TryPromoteAlwaysWins(t) ==
  /\ Goto(t, "try", "wait_all")
  /\ stw_executor_lock' = stw_executor_lock + 1
  /\ is_stw_executor' = [is_stw_executor EXCEPT ![t] = TRUE]
  /\ UNCHANGED <<in_flight_counter, stw_request_counter, gcVars, is_in_flight,
                 is_stw_raised, caller>>

TryPromote(t) ==
  /\ Goto(t, "try", IF stw_executor_lock = 0 THEN "wait_all" ELSE "back_off")
  /\ stw_executor_lock' = stw_executor_lock + 1
  /\ is_stw_executor' = [is_stw_executor EXCEPT ![t] = (stw_executor_lock = 0)]
  /\ UNCHANGED <<in_flight_counter, stw_request_counter, gcVars, is_in_flight,
                 is_stw_raised, caller>>

(* Variant: the loser keeps its increment.                                 *)
BackOffForgotten(t) ==
  /\ Goto(t, "back_off", "wait_demote")
  /\ UNCHANGED <<vmVars, gcVars, envVars>>

BackOff(t) ==
  /\ Goto(t, "back_off", "wait_demote")
  /\ stw_executor_lock' = stw_executor_lock - 1
  /\ UNCHANGED <<in_flight_counter, stw_request_counter, gcVars, envVars>>

ExecutorDemoted(t) ==
  /\ stw_executor_lock = 0
  /\ Goto(t, "wait_demote", "try")
  /\ UNCHANGED <<vmVars, gcVars, envVars>>

AllAtSafepoints(t) ==
  /\ in_flight_counter = 0
  /\ Goto(t, "wait_all",
          IF caller[t] = "om_enter_gc" THEN "wait_again" ELSE "section")
  /\ UNCHANGED <<vmVars, gcVars, envVars>>

-----------------------------------------------------------------------------
(* The sections.                                                           *)

(* om_enter_gc, outermost: wait once more, then open the collection.       *)
EnterGC(t) ==
  /\ in_flight_counter = 0
  /\ Goto(t, "wait_again", "section")
  /\ gc_level' \in GCLevels
  /\ gc_in_progress_counter' = gc_in_progress_counter + 1
  /\ UNCHANGED <<vmVars, envVars>>

(* om_enter_gc from inside a collection: only a higher level is run, so    *)
(* the nesting depth is bounded by the number of levels.                   *)
EnterNestedGC(t) ==
  /\ pc[t] = "section"
  /\ caller[t] = "om_enter_gc"
  /\ gc_in_progress_counter > 0
  /\ gc_level' \in {l \in GCLevels : l > gc_level}
  /\ gc_in_progress_counter' = gc_in_progress_counter + 1
  /\ UNCHANGED <<vmVars, envVars, pc>>

(* Variant: the level of the last collection is kept.                      *)
LeaveGCKeepsLevel(t) ==
  LET depth == gc_in_progress_counter - 1 IN
  /\ caller[t] = "om_enter_gc"
  /\ Goto(t, "section", IF depth > 0 THEN "section" ELSE "demote")
  /\ gc_in_progress_counter' = depth
  /\ UNCHANGED <<gc_level, vmVars, envVars>>

(* om_leave_gc: the outermost one clears the level and ends the section.   *)
LeaveGC(t) ==
  LET depth == gc_in_progress_counter - 1 IN
  /\ caller[t] = "om_enter_gc"
  /\ Goto(t, "section", IF depth > 0 THEN "section" ELSE "demote")
  /\ gc_in_progress_counter' = depth
  /\ gc_level' = IF depth > 0 THEN gc_level ELSE 0
  /\ UNCHANGED <<vmVars, envVars>>

(* promote_*_to_shared: publish the shared flag, then wait once more.      *)
PublishShared(t) ==
  /\ caller[t] = "promote_to_shared"
  /\ Goto(t, "section", "settle")
  /\ UNCHANGED <<vmVars, gcVars, envVars>>

Settled(t) ==
  /\ in_flight_counter = 0
  /\ Goto(t, "settle", "demote")
  /\ UNCHANGED <<vmVars, gcVars, envVars>>

-----------------------------------------------------------------------------
(* demote_from_stw_executor: the lock first, then the request.             *)

(* Variant: the executor lock is not released.                             *)
ReleaseExecutorForgotten(t) ==
  /\ Goto(t, "demote", "lower")
  /\ UNCHANGED <<vmVars, gcVars, envVars>>

ReleaseExecutor(t) ==
  /\ Goto(t, "demote", "lower")
  /\ stw_executor_lock' = stw_executor_lock - 1
  /\ UNCHANGED <<in_flight_counter, stw_request_counter, gcVars, envVars>>

(* Variant: the request stays in the counter.                              *)
LowerRequestUncounted(t) ==
  /\ Goto(t, "lower", "leave")
  /\ is_stw_raised' = [is_stw_raised EXCEPT ![t] = FALSE]
  /\ is_stw_executor' = [is_stw_executor EXCEPT ![t] = FALSE]
  /\ UNCHANGED <<vmVars, gcVars, is_in_flight, caller>>

LowerRequest(t) ==
  /\ Goto(t, "lower", "leave")
  /\ stw_request_counter' = stw_request_counter - 1
  /\ is_stw_raised' = [is_stw_raised EXCEPT ![t] = FALSE]
  /\ is_stw_executor' = [is_stw_executor EXCEPT ![t] = FALSE]
  /\ UNCHANGED <<in_flight_counter, stw_executor_lock, gcVars, is_in_flight, caller>>

(* om_leave_gc synchronizes here; a promotion returns to its caller, which *)
(* restarts its access with synchronize_safepoints.                        *)
LeaveSection(t) ==
  /\ Goto(t, "leave", "sync")
  /\ LeaveSafepoint(t)
  /\ caller' = [caller EXCEPT ![t] = "none"]
  /\ OnlyInFlightChanges

-----------------------------------------------------------------------------

(* Steps a scheduled thread takes by itself.                               *)
Advance(t) ==
  \/ Poll(t) \/ CheckRequests(t) \/ Park(t) \/ RequestsCompleted(t) \/ Unpark(t)
  \/ RaiseRequest(t) \/ TryPromote(t) \/ BackOff(t) \/ ExecutorDemoted(t)
  \/ AllAtSafepoints(t) \/ EnterGC(t) \/ LeaveGC(t) \/ PublishShared(t) \/ Settled(t)
  \/ ReleaseExecutor(t) \/ LowerRequest(t) \/ LeaveSection(t)

(* Steps the program may or may not ask for.                               *)
Request(t) ==
  \/ InitEnv(t) \/ DetachEnv(t) \/ EnterBlocking(t) \/ LeaveBlocking(t)
  \/ StartGC(t) \/ StartPromotion(t) \/ EnterNestedGC(t)

Next == \E t \in Threads : Advance(t) \/ Request(t)

(* The operating system schedules every thread, and compiled code polls at *)
(* every loop back edge and call; nothing makes a blocking call return.    *)
Fairness == \A t \in Threads : WF_vars(Advance(t))

Spec     == Init /\ [][Next]_vars
FairSpec == Spec /\ Fairness

-----------------------------------------------------------------------------

TypeOK ==
  /\ in_flight_counter \in Nat
  /\ stw_request_counter \in Nat
  /\ stw_executor_lock \in Nat
  /\ gc_in_progress_counter \in Nat
  /\ gc_level \in GCLevels
  /\ is_in_flight \in [Threads -> BOOLEAN]
  /\ is_stw_raised \in [Threads -> BOOLEAN]
  /\ is_stw_executor \in [Threads -> BOOLEAN]
  /\ caller \in [Threads -> Callers]
  /\ pc \in [Threads -> MutatorPcs \cup ExecutorPcs]

(* The three counters count what their comments say they count.  A         *)
(* contender that lost the race for the executor lock is counted too until *)
(* it backs off.                                                           *)
InFlight   == {t \in Threads : is_in_flight[t]}
Raised     == {t \in Threads : is_stw_raised[t]}
Contenders == {t \in Threads : pc[t] \in LockPcs}

CountersMatchThreads ==
  /\ in_flight_counter = Cardinality(InFlight)
  /\ stw_request_counter = Cardinality(Raised)
  /\ stw_executor_lock = Cardinality(Contenders)

(* While a thread executes its stop-the-world section, no other thread     *)
(* executes one and none is between two safepoints, although threads that  *)
(* leave a blocking call may still bump in_flight_counter during it.       *)
SectionExcludesMutators ==
  \A t, u \in Threads :
    pc[t] \in SectionPcs /\ u # t => pc[u] \notin SectionPcs \cup {"run"}

(* A running thread never sees a collection in progress: the allocators    *)
(* read gc_in_progress_counter without synchronization to decide whether a *)
(* failed allocation may collect (gc.c:443, 707, 986, 1252, 1367).         *)
MutatorSeesNoGC ==
  (\E t \in Threads : pc[t] = "run") => gc_in_progress_counter = 0 /\ gc_level = 0

(* The inductive invariant behind the two properties above.  The flags     *)
(* follow the control point; the executor lock has one holder; the counter *)
(* of collections is positive exactly while their executor is in one.      *)
FlagsFollowPc ==
  \A t \in Threads :
    /\ is_in_flight[t] <=> pc[t] \in InFlightPcs
    /\ is_stw_raised[t] <=> pc[t] \in RaisedPcs
    /\ pc[t] = "wait_again" => caller[t] = "om_enter_gc"

OneHolder ==
  \A t, u \in Threads : pc[t] \in HolderPcs /\ pc[u] \in HolderPcs => t = u

Collecting(t) == pc[t] = "section" /\ caller[t] = "om_enter_gc"

CollectionHasExecutor ==
  /\ gc_in_progress_counter > 0 <=> \E t \in Threads : Collecting(t)
  /\ gc_in_progress_counter = 0 => gc_level = 0

IInv ==
  /\ TypeOK
  /\ CountersMatchThreads
  /\ FlagsFollowPc
  /\ OneHolder
  /\ SectionExcludesMutators
  /\ CollectionHasExecutor

(* A thread touches the heap again only when every request raised so far   *)
(* was served: "all STW requests raised before or during this wait have    *)
(* completed" (objectmodel-mt.c:928-931).                                  *)
ResumesAfterEveryRequest ==
  [][\A t \in Threads : pc[t] # "run" /\ pc'[t] = "run" =>
       \A u \in Threads : ~is_stw_raised[u]]_vars

(* Every request is served, however the other threads interleave: nobody   *)
(* can raise a second request while another one is pending, so the losers  *)
(* of the race for the executor lock each get their turn.                  *)
EveryRequestServed ==
  \A t \in Threads : pc[t] = "raise" ~> pc[t] = "section"

(* A thread stays parked for good only if sections keep being executed for *)
(* ever: no lost wake-up, no two threads waiting for each other.           *)
ParkedOnlyWhileSectionsRun ==
  \A t \in Threads :
    <>[](pc[t] = "parked") => []<>(\E u \in Threads : pc[u] = "section")

-----------------------------------------------------------------------------
(* The counters implement the stop-the-world promise: a thread is running  *)
(* between its safepoints and exclusive in its section.                    *)

modeBar == [t \in Threads |-> CASE pc[t] = "run"          -> "running"
                                [] pc[t] \in SectionPcs   -> "exclusive"
                                [] OTHER                  -> "out"]

Abstract == INSTANCE StopTheWorld WITH mode <- modeBar

ImplementsStopTheWorld == Abstract!Spec

=============================================================================
