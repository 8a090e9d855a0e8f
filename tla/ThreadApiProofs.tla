-------------------------- MODULE ThreadApiProofs --------------------------
(***************************************************************************)
(* Environments, handles and platform threads of the thread library, for   *)
(* every finite set of threads, every number of environments and every     *)
(* program.                                                                *)
(*                                                                         *)
(* The last part is about the mutex of a synchronized handle, which keeps  *)
(* snapshots whole and updates apart whatever collections interrupt its    *)
(* owner.                                                                  *)
(***************************************************************************)

EXTENDS ThreadApi, FiniteSetTheorems, TLAPS

(* A join is about a handle of which the caller's frame has a reference.   *)
JoinsHoldTheirHandle ==
  \A t \in Threads : pc[t] \in JoinPcs =>
    /\ on[t] \in Children
    /\ <<t, on[t]>> \in Joins
    /\ t \in refs[on[t]]

(* A child's environment, and later its frame, refer to its handle.        *)
ChildHoldsItsHandle ==
  \A c \in Children : pc[c] \notin {"unborn", "push_env", "done"} => c \in refs[c]

(* Whatever is referred to exists.                                         *)
ReferredIsLive ==
  \A c \in Children : obj[c].state # "live" => refs[c] = {}

(* A thread has an environment to give away when it ends.                  *)
ThreadHasEnv ==
  \A c \in Children : pc[c] \notin {"unborn", "done"} => env[c] \in Envs

(* The outcome is in the handle, if it could be stored, before the         *)
(* platform thread exits, and no joiner that is alone goes on before that. *)
OutcomeIsPublished ==
  /\ \A c \in Children :
       /\ pc[c] = "publish" => ended[c] # "none"
       /\ pc[c] \in {"detach", "push_env", "done"} =>
            ended[c] # "none" /\ handle[c] = IF c \in unstored THEN "none" ELSE ended[c]
       /\ pc[c] \notin {"detach", "push_env", "done"} => handle[c] = "none" /\ c \notin unstored
       /\ platform[c] = "exited" => pc[c] = "done"
  /\ \A t \in Threads :
       /\ pc[t] \in {"join_record", "join_read", "join_return"} /\ on[t] \notin raced =>
            platform[on[t]] = "exited"
       /\ pc[t] = "join_return" /\ on[t] \notin raced =>
            joined_as[t] = IF on[t] \in unstored THEN "zero" ELSE ended[on[t]]

IInv ==
  /\ TypeOK
  /\ JoinsHoldTheirHandle
  /\ ChildHoldsItsHandle
  /\ ReferredIsLive
  /\ ThreadHasEnv
  /\ OutcomeIsPublished
  /\ EnvHasOneUser

-----------------------------------------------------------------------------
(* The invariant holds before the first thread is created.                 *)
LEMMA InitIInv == Init => IInv
<1> SUFFICES ASSUME Init PROVE IInv
  OBVIOUS
<1> USE DEF Init
<1>1. TypeOK
  BY DEF TypeOK, Threads, Pcs, JoinPcs, Outcomes
<1>2. \A c \in Children : pc[c] = "unborn"
  BY ThreadApiAssumption DEF Threads
<1>3. JoinsHoldTheirHandle /\ ChildHoldsItsHandle
  BY <1>2 DEF JoinsHoldTheirHandle, ChildHoldsItsHandle, Threads, JoinPcs
<1>4. ReferredIsLive /\ ThreadHasEnv
  BY <1>2 DEF ReferredIsLive, ThreadHasEnv
<1>5. OutcomeIsPublished
  BY <1>2 DEF OutcomeIsPublished, Threads
<1>6. EnvHasOneUser
  BY DEF EnvHasOneUser
<1> QED
  BY <1>1, <1>3, <1>4, <1>5, <1>6 DEF IInv

(* Safepoints and collections: only a collection touches handles, and only *)
(* those nobody refers to.                                                 *)
LEMMA SafepointsKeep ==
  ASSUME IInv, NEW t \in Threads, Park(t) \/ Resume(t) \/ RequestGC(t)
  PROVE  IInv'
<1>1. UNCHANGED <<pc, on, lifeVars>>
  BY DEF Park, Resume, RequestGC
<1>2. TypeOK'
  BY <1>1 DEF IInv, TypeOK, Park, Resume, RequestGC, STW!Yield, STW!Resume, lifeVars,
              childVars, handleVars
<1> QED
  BY <1>1, <1>2
  DEF IInv, lifeVars, childVars, handleVars, JoinsHoldTheirHandle, ChildHoldsItsHandle,
      ReferredIsLive, ThreadHasEnv, OutcomeIsPublished, EnvHasOneUser

LEMMA CollectKeeps ==
  ASSUME IInv, NEW t \in Threads, Collect(t)
  PROVE  IInv'
<1>1. UNCHANGED <<mode, pc, on, childVars, handle, refs, raced, joined_as>> /\ wants_gc' \subseteq wants_gc
  BY DEF Collect
<1>2. PICK dead \in SUBSET Garbage :
        /\ obj' = [c \in Children |-> IF c \in dead THEN [obj[c] EXCEPT !.state = "freed"]
                                                    ELSE obj[c]]
        /\ released' = [c \in Children |->
                          IF c \in dead /\ ~obj[c].joined THEN released[c] + 1 ELSE released[c]]
  BY DEF Collect
<1>3. TypeOK'
  BY <1>1, <1>2 DEF IInv, TypeOK, childVars
<1>4. ReferredIsLive'
  BY <1>1, <1>2 DEF IInv, TypeOK, ReferredIsLive, Garbage
<1> QED
  BY <1>1, <1>3, <1>4
  DEF IInv, childVars, JoinsHoldTheirHandle, ChildHoldsItsHandle,
      ThreadHasEnv, OutcomeIsPublished, EnvHasOneUser

(* rt_create_thread_env finds an environment that no thread has.           *)
LEMMA EnvsToUseAreFree ==
  ASSUME IInv, NEW e \in EnvsToUse
  PROVE  e \in Envs /\ \A c \in Children : env[c] # NULL => env[c] # e
BY DEF EnvsToUse, IInv, TypeOK, EnvHasOneUser

(* createThread: the handle is referred to, and the environment taken,     *)
(* before the child exists.                                                *)
LEMMA CreateKeeps ==
  ASSUME IInv, NEW t \in Threads, NEW c \in Children, CreateThread(t, c)
  PROVE  IInv'
<1>1. PICK e \in EnvsToUse : env' = [env EXCEPT ![c] = e] /\ free_list' = free_list \ {e}
  BY DEF CreateThread
<1>2. e \in Envs /\ \A d \in Children : env[d] # NULL => env[d] # e
  BY EnvsToUseAreFree
<1>3. /\ obj[c].state = "none" /\ pc[c] = "unborn" /\ pc[t] = "run" /\ refs[c] = {}
      /\ pc' = [pc EXCEPT ![c] = "start"]
      /\ obj' = [obj EXCEPT ![c] = [obj[c] EXCEPT !.state = "live"]]
      /\ refs' = [refs EXCEPT ![c] = {t, c}]
      /\ platform' = [platform EXCEPT ![c] = "running"]
      /\ UNCHANGED <<mode, wants_gc, on, ended, unstored, released, handle, raced, joined_as>>
  BY DEF CreateThread, Goto, IInv, TypeOK, ReferredIsLive
<1>4. c \in Threads
  BY DEF Threads
<1>5. TypeOK'
  BY <1>1, <1>2, <1>3, <1>4 DEF IInv, TypeOK, Pcs
<1>6. JoinsHoldTheirHandle' /\ ChildHoldsItsHandle'
  BY <1>3, <1>4
  DEF IInv, TypeOK, JoinsHoldTheirHandle, ChildHoldsItsHandle, Threads, JoinPcs
<1>7. ReferredIsLive' /\ ThreadHasEnv'
  BY <1>1, <1>2, <1>3 DEF IInv, TypeOK, ReferredIsLive, ThreadHasEnv, Threads
<1>8. OutcomeIsPublished'
  BY <1>3, <1>4
  DEF IInv, TypeOK, OutcomeIsPublished, JoinsHoldTheirHandle, Threads, JoinPcs
<1>9. EnvHasOneUser'
  BY <1>1, <1>2 DEF IInv, TypeOK, EnvHasOneUser
<1> QED
  BY <1>5, <1>6, <1>7, <1>8, <1>9 DEF IInv

(* A failed creation leaves a handle nobody refers to.                     *)
LEMMA CreateFailsKeeps ==
  ASSUME IInv, NEW t \in Threads, NEW c \in Children, CreateThreadFails(t, c)
  PROVE  IInv'
<1>1. PICK e \in EnvsToUse : free_list' \in {free_list, free_list \cup {e}}
  BY DEF CreateThreadFails
<1>2. e \in Envs /\ \A d \in Children : env[d] # NULL => env[d] # e
  BY EnvsToUseAreFree
<1>3. /\ obj' = [obj EXCEPT ![c] = [obj[c] EXCEPT !.state = "live"]]
      /\ UNCHANGED <<mode, wants_gc, pc, on, env, platform, ended, unstored, released, handle, refs,
                     raced, joined_as>>
  BY DEF CreateThreadFails
<1>4. TypeOK'
  BY <1>1, <1>2, <1>3 DEF IInv, TypeOK
<1>5. ReferredIsLive' /\ EnvHasOneUser'
  BY <1>1, <1>2, <1>3 DEF IInv, TypeOK, ReferredIsLive, EnvHasOneUser
<1> QED
  BY <1>3, <1>4, <1>5
  DEF IInv, JoinsHoldTheirHandle, ChildHoldsItsHandle, ThreadHasEnv, OutcomeIsPublished

(* Handles are passed on by who has them, and dropped by who neither is    *)
(* their thread nor joins them.                                            *)
LEMMA ReferencesKeep ==
  ASSUME IInv, NEW t \in Threads, NEW u \in Threads, NEW c \in Children,
         PassHandle(t, u, c) \/ DropHandle(t, c)
  PROVE  IInv'
<1>1. /\ refs' \in {[refs EXCEPT ![c] = @ \cup {u}], [refs EXCEPT ![c] = @ \ {t}]}
      /\ t \in refs[c] \ {c} /\ pc[t] = "run"
      /\ UNCHANGED <<mode, wants_gc, pc, on, childVars, obj, released, handle, raced, joined_as>>
  BY DEF PassHandle, DropHandle
<1>2. TypeOK'
  BY <1>1 DEF IInv, TypeOK, childVars
<1>3. JoinsHoldTheirHandle'
  BY <1>1 DEF IInv, TypeOK, JoinsHoldTheirHandle, JoinPcs
<1>4. ChildHoldsItsHandle'
  BY <1>1 DEF IInv, TypeOK, ChildHoldsItsHandle
<1>5. ReferredIsLive'
  BY <1>1 DEF IInv, TypeOK, ReferredIsLive
<1> QED
  BY <1>1, <1>2, <1>3, <1>4, <1>5
  DEF IInv, childVars, ThreadHasEnv, OutcomeIsPublished, EnvHasOneUser

-----------------------------------------------------------------------------
(* The life of a child.                                                    *)

(* Attaching gives the child its place in the heap.                        *)
LEMMA AttachKeeps ==
  ASSUME IInv, NEW c \in Children, Attach(c)
  PROVE  IInv'
<1>1. c \in Threads
  BY DEF Threads
<1>2. pc[c] = "start" /\ pc' = [pc EXCEPT ![c] = "run"] /\ UNCHANGED <<wants_gc, on, lifeVars>>
  BY DEF Attach, Goto
<1>3. TypeOK'
  BY <1>1, <1>2
  DEF Attach, IInv, TypeOK, Pcs, STW!Resume, lifeVars, childVars, handleVars
<1>4. JoinsHoldTheirHandle' /\ ChildHoldsItsHandle'
  BY <1>1, <1>2
  DEF IInv, TypeOK, JoinsHoldTheirHandle, ChildHoldsItsHandle, Threads, JoinPcs, lifeVars,
      handleVars
<1>5. ReferredIsLive' /\ ThreadHasEnv' /\ EnvHasOneUser'
  BY <1>1, <1>2
  DEF IInv, TypeOK, ReferredIsLive, ThreadHasEnv, EnvHasOneUser, Threads, lifeVars,
      childVars, handleVars
<1>6. OutcomeIsPublished'
  BY <1>1, <1>2
  DEF IInv, TypeOK, OutcomeIsPublished, Threads, lifeVars, childVars, handleVars
<1> QED
  BY <1>3, <1>4, <1>5, <1>6 DEF IInv

(* The function ends.                                                      *)
LEMMA EndFunctionKeeps ==
  ASSUME IInv, NEW c \in Children, EndFunction(c)
  PROVE  IInv'
<1>1. c \in Threads
  BY DEF Threads
<1>2. PICK how \in {"result", "error"} : ended' = [ended EXCEPT ![c] = how]
  BY DEF EndFunction
<1>3. /\ pc[c] = "run" /\ pc' = [pc EXCEPT ![c] = "publish"]
      /\ UNCHANGED <<mode, wants_gc, on, env, free_list, platform, unstored, handleVars, raced, joined_as>>
  BY DEF EndFunction, Goto
<1>4. TypeOK'
  BY <1>1, <1>2, <1>3 DEF IInv, TypeOK, Pcs, Outcomes, handleVars
<1>5. JoinsHoldTheirHandle' /\ ChildHoldsItsHandle'
  BY <1>1, <1>3
  DEF IInv, TypeOK, JoinsHoldTheirHandle, ChildHoldsItsHandle, Threads, JoinPcs, handleVars
<1>6. ReferredIsLive' /\ ThreadHasEnv' /\ EnvHasOneUser'
  BY <1>1, <1>3
  DEF IInv, TypeOK, ReferredIsLive, ThreadHasEnv, EnvHasOneUser, Threads, handleVars
<1>7. \A t \in Threads : pc[t] \in JoinPcs => on[t] \in Children
  BY DEF IInv, JoinsHoldTheirHandle
<1>8. OutcomeIsPublished'
  BY <1>1, <1>2, <1>3, <1>7
  DEF IInv, TypeOK, OutcomeIsPublished, Threads, JoinPcs, handleVars
<1> QED
  BY <1>4, <1>5, <1>6, <1>8 DEF IInv

(* The outcome goes into the handle, or is lost.                           *)
LEMMA PublishKeeps ==
  ASSUME IInv, NEW c \in Children, PublishOutcome(c) \/ PublishFails(c)
  PROVE  IInv'
<1>1. c \in Threads
  BY DEF Threads
<1>2. /\ pc[c] = "publish" /\ pc' = [pc EXCEPT ![c] = "detach"]
      /\ \/ handle' = [handle EXCEPT ![c] = ended[c]] /\ UNCHANGED unstored
         \/ unstored' = unstored \cup {c} /\ UNCHANGED handle
      /\ UNCHANGED <<mode, wants_gc, on, env, free_list, platform, ended, obj, released, refs,
                     raced, joined_as>>
  BY DEF PublishOutcome, PublishFails, Goto, childVars, handleVars
<1>3. TypeOK'
  BY <1>1, <1>2 DEF IInv, TypeOK, Pcs
<1>4. JoinsHoldTheirHandle' /\ ChildHoldsItsHandle'
  BY <1>1, <1>2
  DEF IInv, TypeOK, JoinsHoldTheirHandle, ChildHoldsItsHandle, Threads, JoinPcs
<1>5. ReferredIsLive' /\ ThreadHasEnv' /\ EnvHasOneUser'
  BY <1>1, <1>2
  DEF IInv, TypeOK, ReferredIsLive, ThreadHasEnv, EnvHasOneUser, Threads
<1>6. ended[c] # "none" /\ c \notin unstored /\ handle[c] = "none" /\ platform[c] # "exited"
  BY <1>2 DEF IInv, OutcomeIsPublished
<1>7. /\ handle' \in [Children -> Outcomes]
      /\ handle'[c] = IF c \in unstored' THEN "none" ELSE ended[c]
      /\ \A d \in Children \ {c} : handle'[d] = handle[d] /\ (d \in unstored' <=> d \in unstored)
  BY <1>2, <1>3, <1>6 DEF IInv, TypeOK
<1>8. \A t \in Threads : pc[t] \in JoinPcs => on[t] \in Children
  BY DEF IInv, JoinsHoldTheirHandle
<1>9. OutcomeIsPublished'
  BY <1>1, <1>2, <1>6, <1>7, <1>8 DEF IInv, TypeOK, OutcomeIsPublished, Threads, JoinPcs
<1> QED
  BY <1>3, <1>4, <1>5, <1>9 DEF IInv

(* The child drops its references; nobody needs its own any more.          *)
LEMMA DetachKeeps ==
  ASSUME IInv, NEW c \in Children, Detach(c)
  PROVE  IInv'
<1>1. c \in Threads
  BY DEF Threads
<1>2. /\ pc[c] = "detach" /\ pc' = [pc EXCEPT ![c] = "push_env"]
      /\ refs' = [d \in Children |-> refs[d] \ {c}]
      /\ UNCHANGED <<wants_gc, on, childVars, obj, released, handle, raced, joined_as>>
  BY DEF Detach, Goto, ClearFrame
<1>3. TypeOK'
  BY <1>1, <1>2 DEF Detach, IInv, TypeOK, Pcs, childVars, STW!Yield
<1>4. JoinsHoldTheirHandle' /\ ChildHoldsItsHandle'
  BY <1>1, <1>2
  DEF IInv, TypeOK, JoinsHoldTheirHandle, ChildHoldsItsHandle, Threads, JoinPcs
<1>5. ReferredIsLive' /\ ThreadHasEnv' /\ EnvHasOneUser'
  BY <1>1, <1>2
  DEF IInv, TypeOK, ReferredIsLive, ThreadHasEnv, EnvHasOneUser, Threads, childVars
<1>6. OutcomeIsPublished'
  BY <1>1, <1>2 DEF IInv, TypeOK, OutcomeIsPublished, Threads, childVars
<1> QED
  BY <1>3, <1>4, <1>5, <1>6 DEF IInv

(* The environment is given away by the one that had it.                   *)
LEMMA PushEnvKeeps ==
  ASSUME IInv, NEW c \in Children, PushEnv(c)
  PROVE  IInv'
<1>1. c \in Threads
  BY DEF Threads
<1>2. /\ pc[c] = "push_env" /\ pc' = [pc EXCEPT ![c] = "done"]
      /\ free_list' = free_list \cup {env[c]}
      /\ env' = [env EXCEPT ![c] = NULL]
      /\ platform' = [platform EXCEPT ![c] = "exited"]
      /\ UNCHANGED <<mode, wants_gc, on, ended, unstored, handleVars, raced, joined_as>>
  BY DEF PushEnv, Goto
<1>3. TypeOK'
  BY <1>1, <1>2 DEF IInv, TypeOK, Pcs, ThreadHasEnv, handleVars
<1>4. JoinsHoldTheirHandle' /\ ChildHoldsItsHandle'
  BY <1>1, <1>2
  DEF IInv, TypeOK, JoinsHoldTheirHandle, ChildHoldsItsHandle, Threads, JoinPcs, handleVars
<1>5. ReferredIsLive' /\ ThreadHasEnv'
  BY <1>1, <1>2 DEF IInv, TypeOK, ReferredIsLive, ThreadHasEnv, Threads, handleVars
<1>6. EnvHasOneUser'
  BY <1>2 DEF IInv, TypeOK, EnvHasOneUser
<1>7. OutcomeIsPublished'
  BY <1>1, <1>2
  DEF IInv, TypeOK, OutcomeIsPublished, JoinsHoldTheirHandle, Threads, JoinPcs, handleVars
<1> QED
  BY <1>3, <1>4, <1>5, <1>6, <1>7 DEF IInv

-----------------------------------------------------------------------------
(* joinThread: its control points, and what it leaves alone.               *)
LEMMA JoinKeeps ==
  ASSUME IInv, NEW t \in Threads,
         \/ \E c \in Children : BeginJoin(t, c)
         \/ PlatformJoin(t) \/ JoinRejected(t) \/ RecordJoin(t)
         \/ ReadOutcome(t) \/ ReadFails(t) \/ EndJoin(t)
  PROVE  IInv'
<1>1. CASE \E c \in Children : BeginJoin(t, c)
  <2>1. PICK c \in Children : BeginJoin(t, c)
    BY <1>1
  <2>2. /\ <<t, c>> \in Joins /\ t \in refs[c] /\ pc[t] = "run"
        /\ pc' = [pc EXCEPT ![t] = "join_wait"] /\ on' = [on EXCEPT ![t] = c]
        /\ raced' \in {raced, raced \cup {c}}
        /\ UNCHANGED <<wants_gc, childVars, handleVars, joined_as>>
    BY <2>1 DEF BeginJoin, Goto
  <2>3. TypeOK'
    BY <2>1, <2>2
    DEF BeginJoin, IInv, TypeOK, Pcs, JoinPcs, STW!Yield, childVars, handleVars
  <2>4. JoinsHoldTheirHandle' /\ ChildHoldsItsHandle'
    BY <2>2
    DEF IInv, TypeOK, JoinsHoldTheirHandle, ChildHoldsItsHandle, Threads, handleVars
  <2>5. ReferredIsLive' /\ ThreadHasEnv' /\ EnvHasOneUser'
    BY <2>2
    DEF IInv, TypeOK, ReferredIsLive, ThreadHasEnv, EnvHasOneUser, Threads,
        childVars, handleVars
  <2>6. OutcomeIsPublished'
    BY <2>2
    DEF IInv, TypeOK, OutcomeIsPublished, Threads, childVars, handleVars
  <2> QED
    BY <2>3, <2>4, <2>5, <2>6 DEF IInv
<1>2. CASE PlatformJoin(t) \/ JoinRejected(t)
  <2>1. /\ pc[t] = "join_wait" /\ (platform[on[t]] = "exited" \/ on[t] \in raced)
        /\ pc' = [pc EXCEPT ![t] = "join_record"]
        /\ released' \in {released, [released EXCEPT ![on[t]] = @ + 1]}
        /\ UNCHANGED <<mode, wants_gc, on, childVars, obj, handle, refs, raced, joined_as>>
    BY <1>2 DEF PlatformJoin, JoinRejected, Goto, lifeVars, handleVars
  <2>2. on[t] \in Children
    BY <2>1 DEF IInv, JoinsHoldTheirHandle, JoinPcs
  <2>3. TypeOK'
    BY <2>1, <2>2 DEF IInv, TypeOK, Pcs, JoinPcs, childVars
  <2>4. JoinsHoldTheirHandle' /\ ChildHoldsItsHandle'
    BY <2>1
    DEF IInv, TypeOK, JoinsHoldTheirHandle, ChildHoldsItsHandle, Threads, JoinPcs
  <2>5. ReferredIsLive' /\ ThreadHasEnv' /\ EnvHasOneUser'
    BY <2>1
    DEF IInv, TypeOK, ReferredIsLive, ThreadHasEnv, EnvHasOneUser, Threads, childVars
  <2>6. OutcomeIsPublished'
    BY <2>1 DEF IInv, TypeOK, OutcomeIsPublished, Threads, childVars
  <2> QED
    BY <2>3, <2>4, <2>5, <2>6 DEF IInv
<1>3. CASE RecordJoin(t)
  <2>1. /\ pc[t] = "join_record" /\ pc' = [pc EXCEPT ![t] = "join_read"]
        /\ obj' = [obj EXCEPT ![on[t]] = [obj[on[t]] EXCEPT !.joined = TRUE]]
        /\ UNCHANGED <<mode, wants_gc, on, childVars, released, handle, refs, raced, joined_as>>
    BY <1>3 DEF RecordJoin, Goto
  <2>2. on[t] \in Children /\ obj[on[t]].state = "live"
    BY <2>1 DEF IInv, JoinsHoldTheirHandle, ReferredIsLive, JoinPcs
  <2>3. TypeOK'
    BY <2>1, <2>2 DEF IInv, TypeOK, Pcs, JoinPcs, childVars
  <2>4. JoinsHoldTheirHandle' /\ ChildHoldsItsHandle'
    BY <2>1
    DEF IInv, TypeOK, JoinsHoldTheirHandle, ChildHoldsItsHandle, Threads, JoinPcs
  <2>5. ReferredIsLive' /\ ThreadHasEnv' /\ EnvHasOneUser'
    BY <2>1, <2>2
    DEF IInv, TypeOK, ReferredIsLive, ThreadHasEnv, EnvHasOneUser, Threads, childVars
  <2>6. OutcomeIsPublished'
    BY <2>1 DEF IInv, TypeOK, OutcomeIsPublished, Threads, childVars
  <2> QED
    BY <2>3, <2>4, <2>5, <2>6 DEF IInv
<1>4. CASE ReadOutcome(t)
  <2>1. /\ pc[t] = "join_read" /\ pc' = [pc EXCEPT ![t] = "join_return"]
        /\ joined_as' = [joined_as EXCEPT ![t] = IF handle[on[t]] = "none" THEN "zero"
                                                 ELSE handle[on[t]]]
        /\ UNCHANGED <<mode, wants_gc, on, childVars, handleVars, raced>>
    BY <1>4 DEF ReadOutcome, Goto
  <2>2. on[t] \in Children
    BY <2>1 DEF IInv, JoinsHoldTheirHandle, JoinPcs
  <2>3. TypeOK'
    BY <2>1, <2>2 DEF IInv, TypeOK, Pcs, JoinPcs, childVars, handleVars
  <2>4. JoinsHoldTheirHandle' /\ ChildHoldsItsHandle'
    BY <2>1
    DEF IInv, TypeOK, JoinsHoldTheirHandle, ChildHoldsItsHandle, Threads, JoinPcs, handleVars
  <2>5. ReferredIsLive' /\ ThreadHasEnv' /\ EnvHasOneUser'
    BY <2>1
    DEF IInv, TypeOK, ReferredIsLive, ThreadHasEnv, EnvHasOneUser, Threads, childVars,
        handleVars
  <2>6. on[t] \notin raced =>
          joined_as'[t] = IF on[t] \in unstored THEN "zero" ELSE ended[on[t]]
    <3>1. on[t] \notin raced => pc[on[t]] = "done"
      BY <2>1, <2>2 DEF IInv, OutcomeIsPublished
    <3>2. joined_as'[t] = IF handle[on[t]] = "none" THEN "zero" ELSE handle[on[t]]
      BY <2>1 DEF IInv, TypeOK
    <3> QED
      BY <2>2, <3>1, <3>2 DEF IInv, OutcomeIsPublished
  <2>7. OutcomeIsPublished'
    BY <2>1, <2>6 DEF IInv, TypeOK, OutcomeIsPublished, Threads, childVars, handleVars
  <2> QED
    BY <2>3, <2>4, <2>5, <2>7 DEF IInv
<1>5. CASE ReadFails(t) \/ EndJoin(t)
  <2>1. /\ pc[t] \in {"join_read", "join_return"} /\ pc' = [pc EXCEPT ![t] = "run"]
        /\ on' = [on EXCEPT ![t] = NULL]
        /\ joined_as' \in {joined_as, [joined_as EXCEPT ![t] = "none"]}
        /\ UNCHANGED <<mode, wants_gc, childVars, handleVars, raced>>
    BY <1>5 DEF ReadFails, EndJoin, Goto, lifeVars
  <2>2. TypeOK'
    BY <2>1 DEF IInv, TypeOK, Pcs, Outcomes, childVars, handleVars
  <2>3. JoinsHoldTheirHandle' /\ ChildHoldsItsHandle'
    BY <2>1
    DEF IInv, TypeOK, JoinsHoldTheirHandle, ChildHoldsItsHandle, Threads, JoinPcs, handleVars
  <2>4. ReferredIsLive' /\ ThreadHasEnv' /\ EnvHasOneUser'
    BY <2>1
    DEF IInv, TypeOK, ReferredIsLive, ThreadHasEnv, EnvHasOneUser, Threads, childVars,
        handleVars
  <2>5. OutcomeIsPublished'
    BY <2>1 DEF IInv, TypeOK, OutcomeIsPublished, Threads, childVars, handleVars
  <2> QED
    BY <2>2, <2>3, <2>4, <2>5 DEF IInv
<1> QED
  BY <1>1, <1>2, <1>3, <1>4, <1>5

-----------------------------------------------------------------------------
(* The invariant is inductive.                                             *)
LEMMA NextIInv == IInv /\ [Next]_vars => IInv'
<1> SUFFICES ASSUME IInv, [Next]_vars PROVE IInv'
  OBVIOUS
<1>1. ASSUME NEW t \in Threads, Choose(t) PROVE IInv'
  BY <1>1, SafepointsKeep, CreateKeeps, CreateFailsKeeps, ReferencesKeep, JoinKeeps,
     EndFunctionKeeps DEF Choose
<1>2. ASSUME NEW t \in Threads, Advance(t) PROVE IInv'
  BY <1>2, SafepointsKeep, CollectKeeps, JoinKeeps, AttachKeeps, PublishKeeps, DetachKeeps,
     PushEnvKeeps DEF Advance
<1>3. CASE UNCHANGED vars
  BY <1>3
  DEF vars, lifeVars, childVars, handleVars, IInv, TypeOK, JoinsHoldTheirHandle,
      ChildHoldsItsHandle, ReferredIsLive, ThreadHasEnv, OutcomeIsPublished, EnvHasOneUser
<1> QED
  BY <1>1, <1>2, <1>3 DEF Next

(* The inductive invariant of the thread library.                          *)
THEOREM Invariance == Spec => []IInv
BY InitIInv, NextIInv, PTL DEF Spec

(* A handle and its control block outlive the child's and every joiner's   *)
(* use of them: the environment pins the handle before the child exists    *)
(* (api-thread.c:724).                                                     *)
THEOREM HandlesOutliveTheirUsers == Spec => []HandleOutlivesItsUsers
<1>1. IInv => HandleOutlivesItsUsers
  BY DEF IInv, TypeOK, ChildHoldsItsHandle, JoinsHoldTheirHandle, ReferredIsLive,
         HandleOutlivesItsUsers
<1> QED
  BY Invariance, <1>1, PTL

(* joinThread returns the outcome of a child that has ended, or zero if it *)
(* could not be stored, unless another thread was joining the same child.  *)
THEOREM JoinsDeliverOutcomes == Spec => []JoinDeliversOutcome
<1>1. IInv => JoinDeliversOutcome
  BY DEF IInv, OutcomeIsPublished, JoinsHoldTheirHandle, JoinPcs, JoinDeliversOutcome
<1> QED
  BY Invariance, <1>1, PTL

(* An environment is recycled to one thread at a time.                     *)
THEOREM EnvsHaveOneUser == Spec => []EnvHasOneUser
<1>1. IInv => EnvHasOneUser
  BY DEF IInv
<1> QED
  BY Invariance, <1>1, PTL

-----------------------------------------------------------------------------
(* Releases of platform threads.                                           *)

IsReleased(c) ==
  \/ obj[c].joined
  \/ obj[c].state = "freed"
  \/ \E t \in Threads : pc[t] = "join_record" /\ on[t] = c

(* The count of a handle that no two threads joined at the same time.      *)
ReleasesAreCounted ==
  \A c \in Children :
    /\ obj[c].state = "none" => platform[c] = "none" /\ released[c] = 0 /\ ~obj[c].joined
    /\ platform[c] # "none" /\ c \notin raced => released[c] = IF IsReleased(c) THEN 1 ELSE 0

JoinPending(t, c) == pc[t] \in {"join_wait", "join_record"} /\ on[t] = c

(* joinThread tests the flag "joined" before it blocks and sets it         *)
(* afterwards (api-thread.c:838, 858): between the two it is clear, unless *)
(* two threads are there at the same time.                                 *)
JoinComesFirst ==
  \A t \in Threads, c \in Children : JoinPending(t, c) /\ c \notin raced =>
    ~obj[c].joined /\ \A u \in Threads : JoinPending(u, c) => u = t

RInv == IInv /\ ReleasesAreCounted /\ JoinComesFirst

(* A child that was started has a platform thread.                         *)
StartedHavePlatform == \A c \in Children : pc[c] # "unborn" => platform[c] # "none"

LEMMA StartedStep ==
  ASSUME TypeOK, StartedHavePlatform, [Next]_vars
  PROVE  StartedHavePlatform'
<1>1. ASSUME NEW t \in Threads, Choose(t) PROVE StartedHavePlatform'
  <2>1. CASE \E c \in Children : CreateThread(t, c)
    BY <2>1 DEF CreateThread, Goto, TypeOK, StartedHavePlatform
  <2>2. CASE ~\E c \in Children : CreateThread(t, c)
    <3>1. UNCHANGED platform
      BY <1>1, <2>2
      DEF Choose, RequestGC, CreateThreadFails, DropHandle, BeginJoin, PassHandle,
                        EndFunction, lifeVars, childVars
    <3>2. \A u \in Threads : pc'[u] # pc[u] => pc[u] # "unborn"
      BY <1>1, <2>2
      DEF Choose, RequestGC, CreateThreadFails, DropHandle, BeginJoin, PassHandle,
                        EndFunction, Goto, TypeOK
    <3> QED
      BY <3>1, <3>2 DEF StartedHavePlatform, Threads
  <2> QED
    BY <2>1, <2>2
<1>2. ASSUME NEW t \in Threads, Advance(t) PROVE StartedHavePlatform'
  <2>1. platform' = platform \/ (t \in Children /\ platform' = [platform EXCEPT ![t] = "exited"])
    BY <1>2
    DEF Advance, Park, Resume, Collect, PlatformJoin, JoinRejected, RecordJoin, ReadOutcome,
        ReadFails, EndJoin, Attach, PublishOutcome, PublishFails, Detach, PushEnv, lifeVars,
        childVars
  <2>2. \A u \in Threads : pc'[u] # pc[u] => pc[u] # "unborn"
    BY <1>2
    DEF Advance, Park, Resume, Collect, PlatformJoin, JoinRejected, RecordJoin, ReadOutcome,
        ReadFails, EndJoin, Attach, PublishOutcome, PublishFails, Detach, PushEnv, Goto, TypeOK
  <2> QED
    BY <2>1, <2>2 DEF StartedHavePlatform, Threads, TypeOK
<1>3. CASE UNCHANGED vars
  BY <1>3 DEF vars, lifeVars, childVars, StartedHavePlatform
<1> QED
  BY <1>1, <1>2, <1>3 DEF Next

(* A step that no release depends on.                                      *)
LEMMA UnreleasedStep ==
  ASSUME RInv, IInv', UNCHANGED <<released, obj, raced>>,
         \A c \in Children : platform'[c] = "none" <=> platform[c] = "none",
         \A t \in Threads : pc'[t] # pc[t] =>
           pc[t] \notin {"join_wait", "join_record"} /\ pc'[t] \notin {"join_wait", "join_record"},
         \A t \in Threads : pc[t] \in {"join_wait", "join_record"} => on'[t] = on[t]
  PROVE  RInv'
<1>1. \A t \in Threads : pc'[t] \in {"join_wait", "join_record"} => pc'[t] = pc[t] /\ on'[t] = on[t]
  OBVIOUS
<1>2. \A c \in Children : IsReleased(c)' <=> IsReleased(c)
  BY <1>1 DEF IsReleased
<1>3. ReleasesAreCounted'
  BY <1>2 DEF RInv, ReleasesAreCounted
<1>4. \A t \in Threads, c \in Children : JoinPending(t, c)' <=> JoinPending(t, c)
  BY <1>1 DEF JoinPending
<1>5. JoinComesFirst'
  BY <1>4 DEF RInv, JoinComesFirst
<1> QED
  BY <1>3, <1>5 DEF RInv

(* The finalizer detaches what was not joined.                             *)
LEMMA CollectReleases ==
  ASSUME RInv, IInv', NEW t \in Threads, Collect(t)
  PROVE  RInv'
<1>1. UNCHANGED <<mode, pc, on, childVars, handle, refs, raced, joined_as>>
  BY DEF Collect
<1>2. PICK dead \in SUBSET Garbage :
        /\ obj' = [c \in Children |-> IF c \in dead THEN [obj[c] EXCEPT !.state = "freed"]
                                                    ELSE obj[c]]
        /\ released' = [c \in Children |->
                          IF c \in dead /\ ~obj[c].joined THEN released[c] + 1 ELSE released[c]]
  BY DEF Collect
<1>3. \A c \in dead : obj[c].state = "live" /\ \A u \in Threads : pc[u] \in JoinPcs => on[u] # c
  BY DEF Garbage, RInv, IInv, JoinsHoldTheirHandle
<1>4. \A c \in Children :
        /\ obj'[c].joined = obj[c].joined
        /\ obj'[c].state = IF c \in dead THEN "freed" ELSE obj[c].state
  BY <1>2 DEF RInv, IInv, TypeOK
<1>5. ASSUME NEW c \in Children, platform'[c] # "none", c \notin raced'
      PROVE  released'[c] = IF IsReleased(c)' THEN 1 ELSE 0
  <2>1. platform[c] # "none" /\ released[c] = IF IsReleased(c) THEN 1 ELSE 0
    BY <1>1, <1>5 DEF RInv, ReleasesAreCounted, childVars
  <2>2. CASE c \in dead
    <3>1. IsReleased(c) <=> obj[c].joined
      BY <1>3, <2>2 DEF IsReleased, JoinPcs
    <3>2. IsReleased(c)'
      BY <1>4, <2>2 DEF IsReleased
    <3> QED
      BY <1>2, <2>1, <2>2, <3>1, <3>2
  <2>3. CASE c \notin dead
    <3>1. IsReleased(c)' <=> IsReleased(c)
      BY <1>1, <1>4, <2>3 DEF IsReleased
    <3> QED
      BY <1>2, <2>1, <2>3, <3>1
  <2> QED
    BY <2>2, <2>3
<1>6. ReleasesAreCounted'
  BY <1>1, <1>2, <1>4, <1>5 DEF RInv, ReleasesAreCounted, childVars
<1>7. JoinComesFirst'
  BY <1>1, <1>4 DEF RInv, JoinComesFirst, JoinPending
<1> QED
  BY <1>6, <1>7 DEF RInv

(* A new thread was not released.                                          *)
LEMMA CreateReleases ==
  ASSUME RInv, IInv', NEW t \in Threads, NEW c \in Children,
         CreateThread(t, c) \/ CreateThreadFails(t, c)
  PROVE  RInv'
<1>1. /\ obj[c].state = "none"
      /\ obj' = [obj EXCEPT ![c] = [obj[c] EXCEPT !.state = "live"]]
      /\ UNCHANGED <<released, on, raced>>
      /\ \A d \in Children \ {c} : platform'[d] = platform[d]
  BY DEF CreateThread, CreateThreadFails, RInv, IInv, TypeOK
<1>2. \A u \in Threads : pc'[u] # pc[u] => pc[u] = "unborn" /\ pc'[u] = "start"
  BY DEF CreateThread, CreateThreadFails, Goto, RInv, IInv, TypeOK
<1>3. \A u \in Threads : pc[u] \in JoinPcs => on[u] # c
  BY <1>1 DEF RInv, IInv, JoinsHoldTheirHandle, ReferredIsLive
<1>4. /\ obj'[c].state = "live" /\ obj'[c].joined = obj[c].joined
      /\ \A d \in Children \ {c} : obj'[d] = obj[d]
  BY <1>1 DEF RInv, IInv, TypeOK
<1>5. /\ ~IsReleased(c)'
      /\ \A d \in Children \ {c} : IsReleased(d)' <=> IsReleased(d)
  BY <1>1, <1>2, <1>3, <1>4 DEF IsReleased, RInv, ReleasesAreCounted, JoinPcs
<1>6. ReleasesAreCounted'
  BY <1>1, <1>4, <1>5 DEF RInv, ReleasesAreCounted
<1>7. \A u \in Threads, d \in Children :
        JoinPending(u, d)' => JoinPending(u, d) /\ d # c
  BY <1>1, <1>2, <1>3 DEF JoinPending, JoinPcs
<1>8. JoinComesFirst'
  BY <1>1, <1>4, <1>7 DEF RInv, JoinComesFirst
<1> QED
  BY <1>6, <1>8 DEF RInv

(* A join releases once, and its flag keeps the finalizer and other joins  *)
(* away.                                                                   *)
LEMMA JoinReleases ==
  ASSUME RInv, IInv', NEW t \in Threads,
         \/ \E c \in Children : BeginJoin(t, c)
         \/ PlatformJoin(t) \/ JoinRejected(t) \/ RecordJoin(t)
  PROVE  RInv'
<1>1. CASE \E c \in Children : BeginJoin(t, c)
  <2>1. PICK c \in Children : BeginJoin(t, c)
    BY <1>1
  <2>2. /\ pc[t] = "run" /\ ~obj[c].joined
        /\ pc' = [pc EXCEPT ![t] = "join_wait"] /\ on' = [on EXCEPT ![t] = c]
        /\ raced' = IF Joining(c) = {} THEN raced ELSE raced \cup {c}
        /\ UNCHANGED <<platform, released, obj>>
    BY <2>1 DEF BeginJoin, Goto, childVars, handleVars
  <2>3. \A d \in Children : IsReleased(d)' <=> IsReleased(d)
    BY <2>2 DEF IsReleased, RInv, IInv, TypeOK
  <2>4. ReleasesAreCounted'
    BY <2>2, <2>3 DEF RInv, ReleasesAreCounted
  <2>5. /\ \A u \in Threads, d \in Children :
             JoinPending(u, d)' <=> IF u = t THEN d = c ELSE JoinPending(u, d)
        /\ \A u \in Threads : JoinPending(u, c) => c \in raced'
        /\ \A d \in Children : d \notin raced' => d \notin raced
        /\ \A d \in Children : ~JoinPending(t, d)
    BY <2>2 DEF RInv, IInv, TypeOK, JoinPending, Joining
  <2>6. JoinComesFirst'
    BY <2>2, <2>5 DEF RInv, JoinComesFirst
  <2> QED
    BY <2>4, <2>6 DEF RInv
<1>2. CASE PlatformJoin(t) \/ JoinRejected(t)
  <2>1. /\ pc[t] = "join_wait"
        /\ pc' = [pc EXCEPT ![t] = "join_record"]
        /\ \/ platform[on[t]] = "exited" /\ released' = [released EXCEPT ![on[t]] = @ + 1]
           \/ on[t] \in raced /\ UNCHANGED released
        /\ UNCHANGED <<platform, on, obj, raced>>
    BY <1>2 DEF PlatformJoin, JoinRejected, Goto, lifeVars, childVars, handleVars
  <2>2. on[t] \in Children /\ obj[on[t]].state = "live" /\ JoinPending(t, on[t])
    BY <2>1 DEF RInv, IInv, JoinsHoldTheirHandle, ReferredIsLive, JoinPcs, JoinPending
  <2>3. on[t] \notin raced => ~IsReleased(on[t])
    BY <2>1, <2>2 DEF IsReleased, RInv, JoinComesFirst, JoinPending
  <2>4. IsReleased(on[t])' /\ \A d \in Children \ {on[t]} : IsReleased(d)' <=> IsReleased(d)
    BY <2>1 DEF IsReleased, RInv, IInv, TypeOK
  <2>5. ReleasesAreCounted'
    BY <2>1, <2>2, <2>3, <2>4 DEF RInv, IInv, TypeOK, ReleasesAreCounted
  <2>6. \A u \in Threads, d \in Children : JoinPending(u, d)' <=> JoinPending(u, d)
    BY <2>1 DEF JoinPending, RInv, IInv, TypeOK
  <2>7. JoinComesFirst'
    BY <2>1, <2>6 DEF RInv, JoinComesFirst
  <2> QED
    BY <2>5, <2>7 DEF RInv
<1>3. CASE RecordJoin(t)
  <2>1. /\ pc[t] = "join_record" /\ pc' = [pc EXCEPT ![t] = "join_read"]
        /\ obj' = [obj EXCEPT ![on[t]] = [obj[on[t]] EXCEPT !.joined = TRUE]]
        /\ UNCHANGED <<platform, on, released, raced>>
    BY <1>3 DEF RecordJoin, Goto, childVars
  <2>2. on[t] \in Children /\ obj[on[t]].state = "live" /\ JoinPending(t, on[t])
    BY <2>1 DEF RInv, IInv, JoinsHoldTheirHandle, ReferredIsLive, JoinPcs, JoinPending
  <2>3. /\ obj'[on[t]].joined /\ obj'[on[t]].state = "live"
        /\ \A d \in Children \ {on[t]} : obj'[d] = obj[d]
    BY <2>1, <2>2 DEF RInv, IInv, TypeOK
  <2>4. \A d \in Children : IsReleased(d)' <=> IsReleased(d)
    BY <2>1, <2>3 DEF IsReleased, RInv, IInv, TypeOK
  <2>5. ReleasesAreCounted'
    BY <2>1, <2>2, <2>3, <2>4 DEF RInv, ReleasesAreCounted
  <2>6. \A u \in Threads, d \in Children : JoinPending(u, d)' <=> JoinPending(u, d) /\ u # t
    BY <2>1 DEF JoinPending, RInv, IInv, TypeOK
  <2>7. \A c \in Children : c = on[t] /\ c \notin raced => \A u \in Threads : ~JoinPending(u, c)'
    BY <2>2, <2>6 DEF RInv, JoinComesFirst
  <2>8. JoinComesFirst'
    BY <2>1, <2>3, <2>6, <2>7 DEF RInv, JoinComesFirst
  <2> QED
    BY <2>5, <2>8 DEF RInv
<1> QED
  BY <1>1, <1>2, <1>3

(* All other steps.                                                        *)
LEMMA OthersRelease ==
  ASSUME RInv, StartedHavePlatform, IInv', NEW t \in Threads,
         \/ Park(t) \/ Resume(t) \/ RequestGC(t) \/ ReadOutcome(t) \/ ReadFails(t) \/ EndJoin(t)
         \/ \E u \in Threads, c \in Children : PassHandle(t, u, c) \/ DropHandle(t, c)
         \/ t \in Children /\ \/ Attach(t) \/ EndFunction(t) \/ PublishOutcome(t)
                              \/ PublishFails(t) \/ Detach(t) \/ PushEnv(t)
  PROVE  RInv'
<1>1. UNCHANGED <<released, obj, raced>>
  BY DEF Park, Resume, RequestGC, ReadOutcome, ReadFails, EndJoin, PassHandle, DropHandle,
      Attach, EndFunction, PublishOutcome, PublishFails, Detach, PushEnv, lifeVars, handleVars
<1>2. \A c \in Children : platform'[c] = "none" <=> platform[c] = "none"
  <2>1. CASE UNCHANGED platform
    BY <2>1
  <2>2. CASE t \in Children /\ PushEnv(t)
    BY <2>2 DEF PushEnv, Goto, RInv, IInv, TypeOK, StartedHavePlatform
  <2> QED
    BY <2>1, <2>2
    DEF Park, Resume, RequestGC, ReadOutcome, ReadFails, EndJoin, PassHandle, DropHandle,
      Attach, EndFunction, PublishOutcome, PublishFails, Detach, lifeVars, childVars
<1>3. \A u \in Threads : pc'[u] # pc[u] =>
        pc[u] \notin {"join_wait", "join_record"} /\ pc'[u] \notin {"join_wait", "join_record"}
  <2>1. CASE UNCHANGED pc
    BY <2>1
  <2>2. CASE \E from \in {"start", "run", "publish", "detach", "push_env", "join_read", "join_return"},
                to \in {"run", "publish", "detach", "push_env", "done", "join_return"} :
               Goto(t, from, to)
    BY <2>2 DEF Goto, RInv, IInv, TypeOK
  <2> QED
    BY <2>1, <2>2
    DEF Park, Resume, RequestGC, ReadOutcome, ReadFails, EndJoin, PassHandle, DropHandle,
      Attach, EndFunction, PublishOutcome, PublishFails, Detach, PushEnv
<1>4. \A u \in Threads : pc[u] \in {"join_wait", "join_record"} => on'[u] = on[u]
  BY DEF Park, Resume, RequestGC, ReadOutcome, ReadFails, EndJoin, PassHandle, DropHandle,
      Attach, EndFunction, PublishOutcome, PublishFails, Detach, PushEnv, Goto, RInv, IInv, TypeOK
<1> QED
  BY <1>1, <1>2, <1>3, <1>4, UnreleasedStep

(* The resources of a platform thread are released once, by one joiner or  *)
(* by the finalizer, in whatever order they come, unless two threads were  *)
(* in joinThread for it at the same time.                                  *)
THEOREM ThreadsAreReleasedOnce == Spec => []ThreadIsReleasedOnce
<1>1. Init => RInv /\ StartedHavePlatform
  <2> SUFFICES ASSUME Init PROVE RInv /\ StartedHavePlatform
    OBVIOUS
  <2>1. \A t \in Threads : pc[t] \notin {"join_wait", "join_record"}
    BY DEF Init
  <2>2. RInv
    BY <2>1, InitIInv DEF Init, RInv, ReleasesAreCounted, JoinComesFirst, JoinPending
  <2>3. StartedHavePlatform
    BY ThreadApiAssumption DEF Init, StartedHavePlatform, Threads
  <2> QED
    BY <2>2, <2>3
<1>2. RInv /\ StartedHavePlatform /\ [Next]_vars => RInv' /\ StartedHavePlatform'
  <2> SUFFICES ASSUME RInv, StartedHavePlatform, [Next]_vars
               PROVE  RInv' /\ StartedHavePlatform'
    OBVIOUS
  <2>1. IInv' /\ StartedHavePlatform'
    BY NextIInv, StartedStep DEF RInv, IInv
  <2>2. ASSUME NEW t \in Threads, Choose(t) PROVE RInv'
    BY <2>1, <2>2, CreateReleases, JoinReleases, OthersRelease DEF Choose
  <2>3. ASSUME NEW t \in Threads, Advance(t) PROVE RInv'
    BY <2>1, <2>3, CollectReleases, JoinReleases, OthersRelease DEF Advance
  <2>4. CASE UNCHANGED vars
    BY <2>1, <2>4, UnreleasedStep DEF vars, lifeVars, childVars, handleVars
  <2> QED
    BY <2>1, <2>2, <2>3, <2>4 DEF Next
<1>3. RInv => ThreadIsReleasedOnce
  BY DEF RInv, ReleasesAreCounted, IsReleased, ThreadIsReleasedOnce
<1> QED
  BY <1>1, <1>2, <1>3, PTL DEF Spec

-----------------------------------------------------------------------------
(* Synchronized handles, the other half of the thread library.  SyncHandle *)
(* is instantiated with constants and variables of its own, of which       *)
(* nothing is assumed: what follows holds for every set of threads and of  *)
(* programs, and for every number of calls.                                *)

CONSTANTS Users, Lockers, Updaters, Snapshotters, MaxCalls

VARIABLES user_mode, user_wants_gc, at, call, mutex, value, copy, ncalls, expected

Sync == INSTANCE SyncHandle WITH
          Threads <- Users, mode <- user_mode, wants_gc <- user_wants_gc, pc <- at

(* The types that the invariant needs.                                     *)
SyncTyped ==
  /\ user_mode \in [Users -> {"out", "running"}]
  /\ user_wants_gc \subseteq Users
  /\ at \in [Users -> Sync!Pcs]
  /\ call \in [Users -> Sync!Calls]
  /\ value \in [a : Nat, b : Nat]
  /\ copy \in [Users -> [a : Int, b : Int]]
  /\ ncalls \in Nat
  /\ MaxCalls \in Nat => ncalls \in 0 .. MaxCalls
  /\ expected \in [a : Nat, b : Nat]

(* The mutex belongs to the thread that is between lock and unlock, and to *)
(* nobody else.                                                            *)
MutexIsExclusive ==
  /\ \A t \in Users : t \in mutex <=> at[t] \in Sync!OwnerPcs
  /\ mutex \subseteq Users
  /\ \A t, u \in mutex : t = u

CallFollowsPc ==
  \A t \in Users :
    /\ at[t] = "copying" => call[t] = "snapshotShared"
    /\ at[t] \in {"callback", "callback_b"} => call[t] = "withLock"

(* What a thread copied is still the value while it owns the mutex.        *)
CopyIsCurrent ==
  \A t \in Users :
    /\ at[t] = "copying" => copy[t].a = value.a
    /\ at[t] \in {"callback", "callback_b"} => copy[t].a = expected.a
    /\ at[t] # "unlock" => copy[t].b = -1
    /\ call[t] = "snapshotShared" /\ copy[t].b # -1 =>
         copy[t].a = expected.a /\ copy[t].b = expected.b

(* The value is ahead of what the ended calls left only between the two    *)
(* writes of a callback.                                                   *)
ValueIsExpected ==
  /\ value.b = expected.b
  /\ \/ value.a = expected.a /\ \A t \in Users : at[t] # "callback_b"
     \/ value.a = expected.a + 1 /\ \E t \in Users : at[t] = "callback_b"

SyncIInv ==
  /\ SyncTyped
  /\ MutexIsExclusive
  /\ CallFollowsPc
  /\ CopyIsCurrent
  /\ ValueIsExpected

(* Nobody owns the mutex to begin with.                                    *)
LEMMA SyncInitIInv == Sync!Init => SyncIInv
BY DEF Sync!Init, SyncIInv, SyncTyped, MutexIsExclusive, CallFollowsPc,
       CopyIsCurrent, ValueIsExpected,
    Sync!Pcs, Sync!OwnerPcs, Sync!Calls, Sync!Both, Sync!NoCopy

(* Safepoints move no thread between control points.                       *)
LEMMA SyncSafepointsKeep ==
  ASSUME SyncIInv, NEW t \in Users,
         Sync!Park(t) \/ Sync!Resume(t) \/ Sync!RequestGC(t) \/ Sync!Collect(t)
  PROVE  SyncIInv'
<1>1. UNCHANGED <<at, call, mutex, value, copy, ncalls, expected>>
  BY DEF Sync!Park, Sync!Resume, Sync!RequestGC, Sync!Collect
<1>2. SyncTyped'
  BY <1>1
  DEF SyncIInv, SyncTyped, Sync!Park, Sync!Resume, Sync!RequestGC, Sync!Collect,
      Sync!STW!Yield, Sync!STW!Resume
<1> QED
  BY <1>1, <1>2
  DEF SyncIInv, MutexIsExclusive, CallFollowsPc, CopyIsCurrent, ValueIsExpected

(* A call begins outside the mutex.                                        *)
LEMMA BeginKeeps ==
  ASSUME SyncIInv, NEW t \in Users, Sync!BeginSnapshot(t) \/ Sync!BeginWrite(t)
  PROVE  SyncIInv'
<1>1. PICK function \in Sync!Calls \ {"none"} : Sync!Block(t, function)
  BY DEF Sync!BeginSnapshot, Sync!BeginWrite, Sync!Calls
<1>2. SyncTyped'
  BY <1>1
  DEF SyncIInv, SyncTyped, Sync!BeginSnapshot, Sync!BeginWrite, Sync!Block, Sync!Goto,
      Sync!Pcs, Sync!STW!Yield
<1>3. \A u \in Users : at'[u] # at[u] => u = t /\ at[t] = "run" /\ at'[t] = "lock_wait"
  BY <1>1 DEF SyncIInv, SyncTyped, Sync!Block, Sync!Goto
<1>4. MutexIsExclusive' /\ ValueIsExpected'
  BY <1>1, <1>3
  DEF SyncIInv, MutexIsExclusive, ValueIsExpected, Sync!OwnerPcs, Sync!Block
<1>5. CallFollowsPc'
  BY <1>1, <1>3 DEF SyncIInv, SyncTyped, CallFollowsPc, Sync!Block, Sync!Goto
<1>6. CopyIsCurrent'
  BY <1>1, <1>3 DEF SyncIInv, SyncTyped, CopyIsCurrent, Sync!Block, Sync!Goto
<1> QED
  BY <1>2, <1>4, <1>5, <1>6 DEF SyncIInv

(* The mutex passes from nobody to one thread.                             *)
LEMMA LockKeeps ==
  ASSUME SyncIInv, NEW t \in Users, Sync!Lock(t)
  PROVE  SyncIInv'
<1>1. SyncTyped'
  BY DEF SyncIInv, SyncTyped, Sync!Lock, Sync!Goto, Sync!Pcs, Sync!OwnerPcs
<1>2. MutexIsExclusive' /\ CallFollowsPc'
  BY DEF SyncIInv, SyncTyped, MutexIsExclusive, CallFollowsPc, Sync!Lock, Sync!Goto,
         Sync!OwnerPcs
<1>3. CopyIsCurrent' /\ ValueIsExpected'
  BY DEF SyncIInv, SyncTyped, CopyIsCurrent, ValueIsExpected, Sync!Lock, Sync!Goto
<1> QED
  BY <1>1, <1>2, <1>3 DEF SyncIInv

(* Its owner gives it up when it is not between two writes.                *)
LEMMA UnlockKeeps ==
  ASSUME SyncIInv, NEW t \in Users, Sync!Unlock(t)
  PROVE  SyncIInv'
<1>1. SyncTyped'
  BY DEF SyncIInv, SyncTyped, Sync!Unlock, Sync!Goto, Sync!Pcs, Sync!Calls,
         Sync!NoCopy, Sync!Both
<1>2. MutexIsExclusive' /\ CallFollowsPc'
  BY DEF SyncIInv, SyncTyped, MutexIsExclusive, CallFollowsPc, Sync!Unlock,
         Sync!Goto, Sync!OwnerPcs
<1>3. CopyIsCurrent' /\ ValueIsExpected'
  BY DEF SyncIInv, SyncTyped, CopyIsCurrent, ValueIsExpected, Sync!Unlock,
         Sync!Goto, Sync!NoCopy, Sync!Both
<1> QED
  BY <1>1, <1>2, <1>3 DEF SyncIInv

(* What a step inside the mutex finds: nobody else is inside.              *)
LEMMA OwnerIsAlone ==
  ASSUME SyncIInv, NEW t \in Users, at[t] \in Sync!OwnerPcs
  PROVE  \A u \in Users \ {t} : at[u] \in {"run", "lock_wait"}
BY DEF SyncIInv, SyncTyped, MutexIsExclusive, Sync!Pcs

(* A callback that fails between its writes leaves the first of them, any  *)
(* other call the value as it was.                                         *)
LEMMA FailKeeps ==
  ASSUME SyncIInv, NEW t \in Users, Sync!Fail(t)
  PROVE  SyncIInv'
<1>1. /\ at[t] \in {"locked", "copying", "callback", "callback_b"}
      /\ at' = [at EXCEPT ![t] = "unlock"]
      /\ expected' = IF at[t] = "callback_b" THEN [expected EXCEPT !.a = expected.a + 1]
                      ELSE expected
      /\ UNCHANGED <<user_mode, user_wants_gc, call, mutex, value, copy, ncalls>>
  BY DEF Sync!Fail, Sync!Goto, Sync!OwnerPcs
<1>2. at[t] \in Sync!OwnerPcs /\ \A u \in Users \ {t} : at[u] \in {"run", "lock_wait"}
  BY <1>1, OwnerIsAlone DEF Sync!OwnerPcs
<1>3. /\ expected.a \in Nat /\ expected' \in [a : Nat, b : Nat] /\ expected'.b = expected.b
      /\ expected'.a = IF at[t] = "callback_b" THEN expected.a + 1 ELSE expected.a
  BY <1>1 DEF SyncIInv, SyncTyped
<1>4. SyncTyped'
  BY <1>1, <1>3 DEF SyncIInv, SyncTyped, Sync!Pcs, Sync!OwnerPcs
<1>5. MutexIsExclusive' /\ CallFollowsPc'
  BY <1>1 DEF SyncIInv, SyncTyped, MutexIsExclusive, CallFollowsPc, Sync!OwnerPcs
<1>6. CopyIsCurrent'
  BY <1>1, <1>2 DEF SyncIInv, SyncTyped, CopyIsCurrent
<1>7. ValueIsExpected'
  <2>1. \A u \in Users : at'[u] # "callback_b"
    BY <1>1, <1>2 DEF SyncIInv, SyncTyped
  <2>2. (\E u \in Users : at[u] = "callback_b") <=> at[t] = "callback_b"
    BY <1>2
  <2> QED
    BY <1>1, <1>3, <2>1, <2>2 DEF SyncIInv, ValueIsExpected
<1> QED
  BY <1>4, <1>5, <1>6, <1>7 DEF SyncIInv

(* updateShared writes both fields in one step.                            *)
LEMMA UpdateKeeps ==
  ASSUME SyncIInv, NEW t \in Users, Sync!Update(t)
  PROVE  SyncIInv'
<1>1. \A u \in Users \ {t} : at[u] \in {"run", "lock_wait"}
  BY OwnerIsAlone DEF Sync!Update, Sync!Goto, Sync!OwnerPcs
<1>2. 10 * ncalls \in Nat
  BY DEF SyncIInv, SyncTyped
<1>3. SyncTyped'
  BY <1>2
  DEF SyncIInv, SyncTyped, Sync!Update, Sync!Goto, Sync!Pcs, Sync!OwnerPcs,
      Sync!Both
<1>4. MutexIsExclusive' /\ CallFollowsPc'
  BY DEF SyncIInv, SyncTyped, MutexIsExclusive, CallFollowsPc, Sync!Update,
         Sync!Goto, Sync!OwnerPcs
<1>5. CopyIsCurrent' /\ ValueIsExpected'
  BY <1>1
  DEF SyncIInv, SyncTyped, CopyIsCurrent, ValueIsExpected, Sync!Update, Sync!Goto,
      Sync!Both
<1> QED
  BY <1>3, <1>4, <1>5 DEF SyncIInv

(* snapshotShared reads the fields one after the other.                    *)
LEMMA CopyKeeps ==
  ASSUME SyncIInv, NEW t \in Users, Sync!CopyFirst(t) \/ Sync!CopySecond(t)
  PROVE  SyncIInv'
<1>1. at[t] \in Sync!OwnerPcs /\ \A u \in Users \ {t} : at[u] \in {"run", "lock_wait"}
  BY OwnerIsAlone DEF Sync!CopyFirst, Sync!CopySecond, Sync!Goto, Sync!OwnerPcs
<1>2. SyncTyped'
  <2>1. CASE Sync!CopyFirst(t)
    BY <2>1 DEF SyncIInv, SyncTyped, Sync!CopyFirst, Sync!Goto, Sync!Pcs, Sync!OwnerPcs
  <2>2. CASE Sync!CopySecond(t)
    BY <2>2 DEF SyncIInv, SyncTyped, Sync!CopySecond, Sync!Goto, Sync!Pcs, Sync!OwnerPcs
  <2> QED
    BY <2>1, <2>2
<1>3. MutexIsExclusive' /\ CallFollowsPc'
  BY DEF SyncIInv, SyncTyped, MutexIsExclusive, CallFollowsPc, Sync!CopyFirst,
         Sync!CopySecond, Sync!Goto, Sync!OwnerPcs
<1>4. value.a = expected.a /\ value.b = expected.b
  BY <1>1
  DEF SyncIInv, SyncTyped, ValueIsExpected, Sync!CopyFirst, Sync!CopySecond,
      Sync!Goto
<1>5. CopyIsCurrent' /\ ValueIsExpected'
  BY <1>1, <1>4
  DEF SyncIInv, SyncTyped, CopyIsCurrent, ValueIsExpected, Sync!CopyFirst,
      Sync!CopySecond, Sync!Goto
<1> QED
  BY <1>2, <1>3, <1>5 DEF SyncIInv

(* A callback of withLock reads one field and writes both.                 *)
LEMMA CallbackKeeps ==
  ASSUME SyncIInv, NEW t \in Users,
         Sync!CallbackReads(t) \/ Sync!CallbackWritesFirst(t) \/ Sync!CallbackWritesSecond(t)
  PROVE  SyncIInv'
<1> USE DEF Sync!CallbackReads, Sync!CallbackWritesFirst, Sync!CallbackWritesSecond, Sync!Goto
<1>1. at[t] \in Sync!OwnerPcs /\ \A u \in Users \ {t} : at[u] \in {"run", "lock_wait"}
  BY OwnerIsAlone DEF Sync!OwnerPcs
<1>2. at[t] \in {"callback", "callback_b"} => copy[t].a = expected.a
  BY DEF SyncIInv, CopyIsCurrent
<1>3. SyncTyped'
  BY <1>2 DEF SyncIInv, SyncTyped, Sync!Pcs, Sync!OwnerPcs, Sync!Both
<1>4. MutexIsExclusive' /\ CallFollowsPc'
  BY DEF SyncIInv, SyncTyped, MutexIsExclusive, CallFollowsPc, Sync!OwnerPcs
<1>5. ValueIsExpected'
  <2>1. CASE Sync!CallbackReads(t)
    BY <1>1, <2>1 DEF SyncIInv, SyncTyped, ValueIsExpected
  <2>2. CASE Sync!CallbackWritesFirst(t)
    BY <1>1, <1>2, <2>2 DEF SyncIInv, SyncTyped, ValueIsExpected
  <2>3. CASE Sync!CallbackWritesSecond(t)
    BY <1>1, <1>2, <2>3 DEF SyncIInv, SyncTyped, ValueIsExpected, Sync!Both
  <2> QED
    BY <2>1, <2>2, <2>3
<1>6. CopyIsCurrent'
  BY SMTT(30), <1>1
  DEF SyncIInv, SyncTyped, CallFollowsPc, CopyIsCurrent, ValueIsExpected
<1> QED
  BY <1>3, <1>4, <1>5, <1>6 DEF SyncIInv

(* The invariant is inductive.                                             *)
LEMMA SyncInvariance == Sync!Spec => []SyncIInv
<1>1. SyncIInv /\ [Sync!Next]_Sync!vars => SyncIInv'
  <2> SUFFICES ASSUME SyncIInv, [Sync!Next]_Sync!vars PROVE SyncIInv'
    OBVIOUS
  <2>1. CASE Sync!Next
    BY <2>1, SyncSafepointsKeep, BeginKeeps, LockKeeps, UnlockKeeps, FailKeeps, UpdateKeeps,
       CopyKeeps, CallbackKeeps DEF Sync!Next, Sync!Choose, Sync!Advance
  <2>2. CASE UNCHANGED Sync!vars
    BY <2>2
    DEF Sync!vars, SyncIInv, SyncTyped, MutexIsExclusive, CallFollowsPc,
        CopyIsCurrent,
                ValueIsExpected
  <2> QED
    BY <2>1, <2>2
<1> QED
  BY SyncInitIInv, <1>1, PTL DEF Sync!Spec

(* The types of SyncHandle, and at most one owner of the mutex.            *)
THEOREM SyncTypeCorrect ==
  ASSUME MaxCalls \in Nat
  PROVE  Sync!Spec => []Sync!TypeOK
<1>1. SyncIInv => Sync!TypeOK
  <2> SUFFICES ASSUME SyncIInv PROVE Sync!TypeOK
    OBVIOUS
  <2>1. mutex = {} \/ \E t \in Users : mutex = {t}
    BY DEF SyncIInv, MutexIsExclusive
  <2>2. Cardinality(mutex) <= 1
    <3>1. CASE mutex = {}
      BY <3>1, FS_EmptySet
    <3>2. ASSUME NEW t, mutex = {t} PROVE Cardinality(mutex) <= 1
      BY <3>2, FS_Singleton
    <3> QED
      BY <2>1, <3>1, <3>2
  <2>3. mutex \subseteq Users /\ ncalls \in 0 .. MaxCalls
    BY DEF SyncIInv, SyncTyped, MutexIsExclusive
  <2>4. Sync!Cardinality(mutex) = Cardinality(mutex)
    BY DEF Sync!Cardinality, Cardinality
  <2> QED
    BY <2>2, <2>3, <2>4 DEF SyncIInv, SyncTyped, Sync!TypeOK
<1> QED
  BY SyncInvariance, <1>1, PTL

(* A snapshot (api-thread.c:1080) is the value between two critical        *)
(* sections, whatever callbacks write in place, fail half-way, or are      *)
(* stopped by a collection.                                                *)
THEOREM SnapshotsAreWhole == Sync!Spec => []Sync!SnapshotIsWhole
<1>1. ASSUME SyncIInv PROVE Sync!SnapshotIsWhole
  <2> SUFFICES ASSUME NEW t \in Users, call[t] = "snapshotShared", copy[t].b # Sync!NoCopy.b
               PROVE  copy[t] = expected
    BY DEF Sync!SnapshotIsWhole
  <2>1. copy[t].a = expected.a /\ copy[t].b = expected.b
    BY <1>1 DEF SyncIInv, CopyIsCurrent, Sync!NoCopy, Sync!Both
  <2>2. copy[t] \in [a : Int, b : Int] /\ expected \in [a : Nat, b : Nat]
    BY <1>1 DEF SyncIInv, SyncTyped
  <2> QED
    BY <2>1, <2>2
<1> QED
  BY SyncInvariance, <1>1, PTL

(* Updates and callbacks are serial, those that fail half-way too: when    *)
(* nobody owns the mutex the value is what they left one after another.    *)
THEOREM NoUpdateIsLost == Sync!Spec => []Sync!NoLockedUpdateLost
<1>1. ASSUME SyncIInv, mutex = {} PROVE value = expected
  <2>1. \A t \in Users : at[t] # "callback_b"
    BY <1>1 DEF SyncIInv, MutexIsExclusive, Sync!OwnerPcs
  <2>2. value.a = expected.a /\ value.b = expected.b
    BY <1>1, <2>1 DEF SyncIInv, ValueIsExpected
  <2>3. value \in [a : Nat, b : Nat] /\ expected \in [a : Nat, b : Nat]
    BY <1>1 DEF SyncIInv, SyncTyped
  <2> QED
    BY <2>2, <2>3
<1> QED
  BY SyncInvariance, <1>1, PTL DEF Sync!NoLockedUpdateLost

=============================================================================
