------------------------------ MODULE ThreadApi ------------------------------
(***************************************************************************)
(* Threads in the thread library, api/api-thread.c, on top of              *)
(* stop-the-world collections: creation of threads and of their            *)
(* environments, the handle dictionary that carries a thread's control     *)
(* block and its outcome, join, and finalization of handles.               *)
(*                                                                         *)
(* mode is the variable of StopTheWorld.tla.  A thread takes steps of its  *)
(* own only while it is "running"; a blocking call is entered with Yield   *)
(* and left with Resume.  A collection is one step, from the moment the    *)
(* world has stopped for it.  "Variant" is used as in Safepoint.tla.       *)
(***************************************************************************)

EXTENDS Integers, FiniteSets

CONSTANTS
  Main,          \* The first thread,
  Children,      \* and those that one call of createThread each may start.
  Envs,          \* The environments (struct rt_env) of the secondary threads.
  Joins          \* <<t, c>> when t's program may join c.

Threads == {Main} \cup Children

ASSUME ThreadApiAssumption ==
  /\ Main \notin Children
  /\ Joins \subseteq Threads \X Children
  /\ IsFiniteSet(Envs) /\ IsFiniteSet(Children)
  /\ Cardinality(Children) <= Cardinality(Envs)

VARIABLES
  mode,       \* What each thread may do with the heap.
  wants_gc,   \* Threads that have raised a request and wait for their section.
  pc,         \* Control point of each thread.
  on,         \* The handle that each thread's joinThread is about.
  env,        \* The environment of each child.
  free_list,  \* Environments that were used and may be used again.
  platform,   \* The platform thread of each child,
  released,   \* and how often it was joined or detached.
  obj,        \* The control block of each handle (struct thread_obj).
  handle,     \* The key "result" or "error" of each handle dictionary.
  refs,       \* Threads whose frame, or environment, has a reference to it.
  ended,      \* Ghost: how the function of each child ended,
  unstored,   \* and the children whose outcome was not stored.
  raced,      \* Ghost: the handles that two threads joined at the same time.
  joined_as   \* Ghost: what a join that has just returned delivers.

childVars  == <<env, free_list, platform, ended, unstored>>
handleVars == <<obj, released, handle, refs>>
lifeVars   == <<childVars, handleVars, raced, joined_as>>
vars       == <<mode, wants_gc, pc, on, lifeVars>>

STW == INSTANCE StopTheWorld

NULL == "null"

(* unborn, start, run, publish, detach, push_env, done                     *)
(*              the life of a child; Main is in run                        *)
(* join...      blocked, awake, looking for the outcome, about to return   *)
JoinPcs == {"join_wait", "join_record", "join_read", "join_return"}
Pcs     == {"unborn", "start", "run", "publish", "detach", "push_env", "done"} \cup JoinPcs

(* Where a thread executes script code, which polls, or allocates.         *)
ScriptPcs == {"run", "publish", "join_read"}

Running(t) == mode[t] = "running"

Goto(t, from, to) ==
  /\ pc[t] = from
  /\ pc' = [pc EXCEPT ![t] = to]

Init ==
  /\ mode = [t \in Threads |-> IF t = Main THEN "running" ELSE "out"]
  /\ wants_gc = {}
  /\ pc = [t \in Threads |-> IF t = Main THEN "run" ELSE "unborn"]
  /\ on = [t \in Threads |-> NULL]
  /\ env = [c \in Children |-> NULL]
  /\ free_list = {}
  /\ platform = [c \in Children |-> "none"]
  /\ released = [c \in Children |-> 0]
  /\ obj = [c \in Children |-> [state |-> "none", joined |-> FALSE]]
  /\ handle = [c \in Children |-> "none"]
  /\ refs = [c \in Children |-> {}]
  /\ ended = [c \in Children |-> "none"]
  /\ unstored = {}
  /\ raced = {}
  /\ joined_as = [t \in Threads |-> "none"]

-----------------------------------------------------------------------------
(* Safepoints.                                                             *)

(* A thread in script code, or in an allocation, gives way to a request.   *)
Park(t) ==
  /\ wants_gc # {}
  /\ pc[t] \in ScriptPcs
  /\ STW!Yield(t)
  /\ UNCHANGED <<wants_gc, pc, on, lifeVars>>

(* It, or a thread that returns from a blocking call, goes on.             *)
AwakePcs == ScriptPcs \cup {"join_record"}

Resume(t) ==
  /\ wants_gc = {}
  /\ pc[t] \in AwakePcs
  /\ STW!Resume(t)
  /\ UNCHANGED <<wants_gc, pc, on, lifeVars>>

(* An allocation that finds no room.                                       *)
RequestGC(t) ==
  /\ pc[t] \in ScriptPcs
  /\ STW!Yield(t)
  /\ wants_gc' = wants_gc \cup {t}
  /\ UNCHANGED <<pc, on, lifeVars>>

(* Handles nobody refers to.  A collection may leave an old one alone.     *)
Garbage == {c \in Children : obj[c].state = "live" /\ refs[c] = {}}

(* thread_finalizer, for every handle the collection reclaims.             *)
Collect(t) ==
  /\ t \in wants_gc
  /\ STW!WorldStoppedFor(t)
  /\ wants_gc' = wants_gc \ {t}
  /\ \E dead \in SUBSET Garbage :
       /\ obj' = [c \in Children |-> IF c \in dead THEN [obj[c] EXCEPT !.state = "freed"]
                                                   ELSE obj[c]]
       /\ released' = [c \in Children |->
                         IF c \in dead /\ ~obj[c].joined THEN released[c] + 1 ELSE released[c]]
  /\ UNCHANGED <<mode, pc, on, childVars, handle, refs, raced, joined_as>>

-----------------------------------------------------------------------------
(* createThread.                                                           *)

(* rt_create_thread_env: a used environment, or else a new one.            *)
EnvsToUse ==
  IF free_list # {} THEN free_list ELSE Envs \ {env[c] : c \in Children}

(* Variant: the child pins its arguments only when it runs.                *)
CreateThreadUnpinned(t, c) ==
  /\ Running(t) /\ pc[t] = "run"
  /\ obj[c].state = "none"
  /\ obj' = [obj EXCEPT ![c].state = "live"]
  /\ \E e \in EnvsToUse :
       /\ env' = [env EXCEPT ![c] = e]
       /\ free_list' = free_list \ {e}
  /\ refs' = [refs EXCEPT ![c] = {t}]
  /\ platform' = [platform EXCEPT ![c] = "running"]
  /\ Goto(c, "unborn", "start")
  /\ UNCHANGED <<mode, wants_gc, on, ended, unstored, released, handle, raced, joined_as>>

(* The control block, the handle, the environment, which pins the handle   *)
(* and the other arguments for the child, and the platform thread.         *)
(* Nothing on the way can collect once the handle is made.                 *)
CreateThread(t, c) ==
  /\ Running(t) /\ pc[t] = "run"
  /\ obj[c].state = "none"
  /\ obj' = [obj EXCEPT ![c].state = "live"]
  /\ \E e \in EnvsToUse :
       /\ env' = [env EXCEPT ![c] = e]
       /\ free_list' = free_list \ {e}
  /\ refs' = [refs EXCEPT ![c] = {t, c}]
  /\ platform' = [platform EXCEPT ![c] = "running"]
  /\ Goto(c, "unborn", "start")
  /\ UNCHANGED <<mode, wants_gc, on, ended, unstored, released, handle, raced, joined_as>>

(* The handle is made, but then there is no memory, or no platform thread: *)
(* an error, which drops the caller's reference; an environment that was   *)
(* made goes to the free list.  Here as in joinThread, an error returns to *)
(* the program, which may go on or end.                                    *)
CreateThreadFails(t, c) ==
  /\ Running(t) /\ pc[t] = "run"
  /\ obj[c].state = "none"
  /\ obj' = [obj EXCEPT ![c].state = "live"]
  /\ \E e \in EnvsToUse : free_list' \in {free_list, free_list \cup {e}}
  /\ UNCHANGED <<mode, wants_gc, pc, on, env, platform, ended, unstored, released, handle, refs,
                 raced, joined_as>>

(* What the program does with handles: it passes them on and drops them.   *)
PassHandle(t, u, c) ==
  /\ Running(t) /\ pc[t] = "run"
  /\ t \in refs[c] \ {c}
  /\ <<u, c>> \in Joins /\ pc[u] = "run" /\ u \notin refs[c]
  /\ refs' = [refs EXCEPT ![c] = @ \cup {u}]
  /\ UNCHANGED <<mode, wants_gc, pc, on, childVars, obj, released, handle, raced, joined_as>>

DropHandle(t, c) ==
  /\ Running(t) /\ pc[t] = "run"
  /\ t \in refs[c] \ {c}
  /\ refs' = [refs EXCEPT ![c] = @ \ {t}]
  /\ UNCHANGED <<mode, wants_gc, pc, on, childVars, obj, released, handle, raced, joined_as>>

-----------------------------------------------------------------------------
(* thread_entry, in the child.                                             *)

(* rt_attach_thread_env; the arguments move to the child's own frame.      *)
Attach(c) ==
  /\ wants_gc = {}
  /\ Goto(c, "start", "run")
  /\ STW!Resume(c)
  /\ UNCHANGED <<wants_gc, on, lifeVars>>

(* Variant: the outcome of a function that fails is not published.         *)
EndFunctionSilently(c) ==
  /\ Running(c)
  /\ \E how \in {"result", "error"} :
       /\ Goto(c, "run", IF how = "result" THEN "publish" ELSE "detach")
       /\ ended' = [ended EXCEPT ![c] = how]
  /\ UNCHANGED <<mode, wants_gc, on, env, free_list, platform, unstored, handleVars, raced,
                 joined_as>>

(* The function returns or fails.                                          *)
EndFunction(c) ==
  /\ Running(c)
  /\ Goto(c, "run", "publish")
  /\ \E how \in {"result", "error"} : ended' = [ended EXCEPT ![c] = how]
  /\ UNCHANGED <<mode, wants_gc, on, env, free_list, platform, unstored, handleVars, raced,
                 joined_as>>

(* The outcome is stored in the handle,                                    *)
PublishOutcome(c) ==
  /\ Running(c)
  /\ Goto(c, "publish", "detach")
  /\ handle' = [handle EXCEPT ![c] = ended[c]]
  /\ UNCHANGED <<mode, wants_gc, on, childVars, obj, released, refs, raced, joined_as>>

(* or there is no memory for it, which the thread does not notice.         *)
PublishFails(c) ==
  /\ Running(c)
  /\ Goto(c, "publish", "detach")
  /\ unstored' = unstored \cup {c}
  /\ UNCHANGED <<mode, wants_gc, on, env, free_list, platform, ended, handleVars, raced, joined_as>>

(* rt_detach_thread_env: clears the frame, leaves the heap,                *)
ClearFrame(c) == refs' = [d \in Children |-> refs[d] \ {c}]

(* Variant: the environment is given away before it has left the heap.     *)
DetachFreed(c) ==
  /\ Goto(c, "detach", "push_env")
  /\ STW!Yield(c)
  /\ ClearFrame(c)
  /\ free_list' = free_list \cup {env[c]}
  /\ UNCHANGED <<wants_gc, on, env, platform, ended, unstored, obj, released, handle, raced,
                 joined_as>>

Detach(c) ==
  /\ Goto(c, "detach", "push_env")
  /\ STW!Yield(c)
  /\ ClearFrame(c)
  /\ UNCHANGED <<wants_gc, on, childVars, obj, released, handle, raced, joined_as>>

(* and only then gives the environment away.  The platform thread ends.    *)
PushEnv(c) ==
  /\ Goto(c, "push_env", "done")
  /\ free_list' = free_list \cup {env[c]}
  /\ env' = [env EXCEPT ![c] = NULL]
  /\ platform' = [platform EXCEPT ![c] = "exited"]
  /\ UNCHANGED <<mode, wants_gc, on, ended, unstored, handleVars, raced, joined_as>>

-----------------------------------------------------------------------------
(* joinThread.  The caller's frame pins the handle until it returns; a     *)
(* handle that was joined is an error.                                     *)

(* Threads that are between the test of the flag and its change.           *)
Joining(c) == {u \in Threads : pc[u] \in {"join_wait", "join_record"} /\ on[u] = c}

BeginJoin(t, c) ==
  /\ <<t, c>> \in Joins /\ t \in refs[c]
  /\ ~obj[c].joined
  /\ Goto(t, "run", "join_wait")
  /\ STW!Yield(t)
  /\ on' = [on EXCEPT ![t] = c]
  /\ raced' = IF Joining(c) = {} THEN raced ELSE raced \cup {c}
  /\ UNCHANGED <<wants_gc, childVars, handleVars, joined_as>>

(* External: pthread_join returns when the thread has exited.              *)
PlatformJoin(t) ==
  LET c == on[t] IN
  /\ Goto(t, "join_wait", "join_record")
  /\ platform[c] = "exited"
  /\ released' = [released EXCEPT ![c] = @ + 1]
  /\ UNCHANGED <<mode, wants_gc, on, childVars, obj, handle, refs, raced, joined_as>>

(* External: two calls of it for one thread are undefined.  It may also    *)
(* refuse, at any time, which joinThread does not look at.                 *)
JoinRejected(t) ==
  /\ on[t] \in raced
  /\ Goto(t, "join_wait", "join_record")
  /\ UNCHANGED <<mode, wants_gc, on, lifeVars>>

(* Variant: the flag is forgotten.                                         *)
RecordJoinForgotten(t) ==
  /\ Running(t)
  /\ Goto(t, "join_record", "join_read")
  /\ UNCHANGED <<mode, wants_gc, on, lifeVars>>

(* Back in the heap, the flag is set.                                      *)
RecordJoin(t) ==
  /\ Running(t)
  /\ Goto(t, "join_record", "join_read")
  /\ obj' = [obj EXCEPT ![on[t]].joined = TRUE]
  /\ UNCHANGED <<mode, wants_gc, on, childVars, released, handle, refs, raced, joined_as>>

(* The outcome in the handle, or else the zeroed value.                    *)
ReadOutcome(t) ==
  /\ Running(t)
  /\ Goto(t, "join_read", "join_return")
  /\ joined_as' = [joined_as EXCEPT ![t] = IF handle[on[t]] = "none" THEN "zero"
                                           ELSE handle[on[t]]]
  /\ UNCHANGED <<mode, wants_gc, on, childVars, handleVars, raced>>

(* The look-up of a key allocates and may run out of memory: an error of   *)
(* the caller's own.                                                       *)
ReadFails(t) ==
  /\ Running(t)
  /\ Goto(t, "join_read", "run")
  /\ on' = [on EXCEPT ![t] = NULL]
  /\ UNCHANGED <<mode, wants_gc, lifeVars>>

EndJoin(t) ==
  /\ Running(t)
  /\ Goto(t, "join_return", "run")
  /\ on' = [on EXCEPT ![t] = NULL]
  /\ joined_as' = [joined_as EXCEPT ![t] = "none"]
  /\ UNCHANGED <<mode, wants_gc, childVars, handleVars, raced>>

-----------------------------------------------------------------------------

(* What the program decides to do, or the allocator.                       *)
Choose(t) ==
  \/ RequestGC(t)
  \/ \E c \in Children : CreateThread(t, c) \/ CreateThreadFails(t, c)
  \/ \E c \in Children : DropHandle(t, c) \/ BeginJoin(t, c)
  \/ \E u \in Threads, c \in Children : PassHandle(t, u, c)
  \/ t \in Children /\ EndFunction(t)

(* What happens of itself once it can.                                     *)
Advance(t) ==
  \/ Park(t) \/ Resume(t) \/ Collect(t)
  \/ PlatformJoin(t) \/ JoinRejected(t) \/ RecordJoin(t)
  \/ ReadOutcome(t) \/ ReadFails(t) \/ EndJoin(t)
  \/ t \in Children /\ \/ Attach(t) \/ PublishOutcome(t) \/ PublishFails(t)
                       \/ Detach(t) \/ PushEnv(t)

Next == \E t \in Threads : Choose(t) \/ Advance(t)

Spec == Init /\ [][Next]_vars

-----------------------------------------------------------------------------

Outcomes == {"none", "result", "error"}

TypeOK ==
  /\ mode \in [Threads -> {"out", "running"}]
  /\ wants_gc \subseteq Threads
  /\ pc \in [Threads -> Pcs]
  /\ on \in [Threads -> Children \cup {NULL}]
  /\ env \in [Children -> Envs \cup {NULL}]
  /\ free_list \subseteq Envs
  /\ platform \in [Children -> {"none", "running", "exited"}]
  /\ released \in [Children -> Nat]
  /\ obj \in [Children -> [state : {"none", "live", "freed"}, joined : BOOLEAN]]
  /\ handle \in [Children -> Outcomes]
  /\ refs \in [Children -> SUBSET Threads]
  /\ ended \in [Children -> Outcomes]
  /\ unstored \subseteq Children
  /\ raced \subseteq Children
  /\ joined_as \in [Threads -> Outcomes \cup {"zero"}]

(* The platform resources of a thread that was started are released once:  *)
(* by a join, or by the finalizer of a handle that was not joined,         *)
(* whatever the order of joins, exit, collection and loss of the handle    *)
(* (thread_finalizer, api-thread.c:781).  The exception is a handle that   *)
(* two threads joined at the same time, between the test of "joined" and   *)
(* its change (838, 858), where the platform does as it likes.             *)
ThreadIsReleasedOnce ==
  \A c \in Children : platform[c] # "none" /\ c \notin raced =>
    released[c] <= 1 /\ (obj[c].state = "freed" => released[c] = 1)

(* A handle and its control block are not reclaimed between the call of    *)
(* createThread and the child's last use of them, nor under a join: the    *)
(* child's environment pins the handle before the child exists             *)
(* (api-thread.c:724).                                                     *)
HandleOutlivesItsUsers ==
  /\ \A c \in Children : pc[c] \in {"start", "publish"} => obj[c].state = "live"
  /\ \A t \in Threads : pc[t] \in JoinPcs => obj[on[t]].state = "live"

(* joinThread "waits for a thread to finish and returns the value its      *)
(* function returned", or raises its error (docs/library.md:211).  When    *)
(* there was no memory to store either it returns zero (api-thread.c:633,  *)
(* 640), and only then; and it may return too early only if another thread *)
(* was joining the same one.                                               *)
JoinDeliversOutcome ==
  \A t \in Threads : pc[t] = "join_return" /\ on[t] \notin raced =>
    /\ ended[on[t]] # "none"
    /\ joined_as[t] = IF on[t] \in unstored THEN "zero" ELSE ended[on[t]]

(* An environment belongs to one thread, from the call that made it until  *)
(* the thread has left the heap for good, and is not on the free list.     *)
EnvHasOneUser ==
  \A c \in Children : env[c] # NULL =>
    env[c] \notin free_list /\ \A d \in Children \ {c} : env[d] # env[c]

=============================================================================
