--------------------------- MODULE SafepointProofs ---------------------------
(***************************************************************************)
(* Proofs about the stop-the-world handshake of Safepoint.tla, for every   *)
(* finite set of threads.                                                  *)
(***************************************************************************)

EXTENDS Safepoint, FiniteSetTheorems, TLAPS

(* The sets the counters count are finite.                                 *)
LEMMA CountedSetsFinite ==
  /\ IsFiniteSet(InFlight)
  /\ IsFiniteSet(Raised)
  /\ IsFiniteSet(Contenders)
BY ThreadsAssumption, FS_Subset DEF InFlight, Raised, Contenders

(* The invariant holds before any thread has attached.                     *)
LEMMA InitIInv == Init => IInv
<1> SUFFICES ASSUME Init PROVE IInv
  OBVIOUS
<1>1. TypeOK
  BY DEF Init, TypeOK, Callers, GCLevels, MutatorPcs, ExecutorPcs
<1>2. InFlight = {} /\ Raised = {} /\ Contenders = {}
  BY DEF Init, InFlight, Raised, Contenders, LockPcs, HolderPcs
<1>3. CountersMatchThreads
  BY <1>2, FS_EmptySet DEF Init, CountersMatchThreads
<1>4. FlagsFollowPc /\ OneHolder /\ SectionExcludesMutators /\ CollectionHasExecutor
  BY DEF Init, FlagsFollowPc, OneHolder, SectionExcludesMutators, CollectionHasExecutor,
         Collecting, InFlightPcs, RaisedPcs, ExecutorPcs, HolderPcs, SectionPcs, GCLevels
<1> QED
  BY <1>1, <1>3, <1>4 DEF IInv

(* Entering a safepoint takes one thread out of the in-flight count.       *)
LEMMA EnterSafepointCounts ==
  ASSUME NEW t \in Threads, TypeOK, in_flight_counter = Cardinality(InFlight),
         is_in_flight[t], EnterSafepoint(t)
  PROVE  in_flight_counter' = Cardinality(InFlight') /\ in_flight_counter' \in Nat
<1>1. InFlight' = InFlight \ {t} /\ t \in InFlight
  BY DEF EnterSafepoint, InFlight, TypeOK
<1>2. Cardinality(InFlight') = Cardinality(InFlight) - 1
  BY <1>1, CountedSetsFinite, FS_RemoveElement
<1>3. Cardinality(InFlight') \in Nat
  BY <1>1, CountedSetsFinite, FS_RemoveElement, FS_CardinalityType
<1> QED
  BY <1>2, <1>3 DEF EnterSafepoint

(* Leaving a safepoint adds one thread to the in-flight count.             *)
LEMMA LeaveSafepointCounts ==
  ASSUME NEW t \in Threads, TypeOK, in_flight_counter = Cardinality(InFlight),
         ~is_in_flight[t], LeaveSafepoint(t)
  PROVE  in_flight_counter' = Cardinality(InFlight') /\ in_flight_counter' \in Nat
<1>1. InFlight' = InFlight \cup {t} /\ t \notin InFlight
  BY DEF LeaveSafepoint, InFlight, TypeOK
<1>2. Cardinality(InFlight') = Cardinality(InFlight) + 1
  BY <1>1, CountedSetsFinite, FS_AddElement
<1> QED
  BY <1>2 DEF LeaveSafepoint, TypeOK

(* A move of the control point into the set of the lock's contenders, or   *)
(* out of it, changes their number by one.                                 *)
LEMMA ContendersGrow ==
  ASSUME NEW t \in Threads, NEW from, NEW to, TypeOK, Goto(t, from, to),
         from \notin LockPcs, to \in LockPcs
  PROVE  Cardinality(Contenders') = Cardinality(Contenders) + 1
<1>1. Contenders' = Contenders \cup {t} /\ t \notin Contenders
  BY DEF Goto, TypeOK, Contenders
<1> QED
  BY <1>1, CountedSetsFinite, FS_AddElement

(* A contender that backs off or releases is counted no more.              *)
LEMMA ContendersShrink ==
  ASSUME NEW t \in Threads, NEW from, NEW to, TypeOK, Goto(t, from, to),
         from \in LockPcs, to \notin LockPcs
  PROVE  Cardinality(Contenders') = Cardinality(Contenders) - 1
<1>1. Contenders' = Contenders \ {t} /\ t \in Contenders
  BY DEF Goto, TypeOK, Contenders
<1> QED
  BY <1>1, CountedSetsFinite, FS_RemoveElement

(* A counter that reads 0 means that nobody is counted: this is what the   *)
(* three spin loops conclude from the value they see.                      *)
LEMMA ZeroMeansNobody ==
  ASSUME CountersMatchThreads
  PROVE  /\ in_flight_counter = 0 => \A t \in Threads : ~is_in_flight[t]
         /\ stw_request_counter = 0 => \A t \in Threads : ~is_stw_raised[t]
         /\ stw_executor_lock = 0 => \A t \in Threads : pc[t] \notin LockPcs
<1>1. in_flight_counter = 0 => InFlight = {}
  BY CountedSetsFinite, FS_EmptySet DEF CountersMatchThreads
<1>2. stw_request_counter = 0 => Raised = {}
  BY CountedSetsFinite, FS_EmptySet DEF CountersMatchThreads
<1>3. stw_executor_lock = 0 => Contenders = {}
  BY CountedSetsFinite, FS_EmptySet DEF CountersMatchThreads
<1> QED
  BY <1>1, <1>2, <1>3 DEF InFlight, Raised, Contenders

(* The counters are natural numbers because they are cardinalities.        *)
LEMMA CountsAreNatural ==
  ASSUME CountersMatchThreads'
  PROVE  /\ in_flight_counter' \in Nat
         /\ stw_request_counter' \in Nat
         /\ stw_executor_lock' \in Nat
<1>1. IsFiniteSet(InFlight') /\ IsFiniteSet(Raised') /\ IsFiniteSet(Contenders')
  BY ThreadsAssumption, FS_Subset DEF InFlight, Raised, Contenders
<1> QED
  BY <1>1, FS_CardinalityType DEF CountersMatchThreads

(* Every step preserves the invariant: one step of the proof per action,   *)
(* first the counters, then the facts about control points.                *)
LEMMA NextIInv == IInv /\ [Next]_vars => IInv'
<1> SUFFICES ASSUME IInv, [Next]_vars PROVE IInv'
  OBVIOUS
<1> USE DEF InFlightPcs, RaisedPcs, ExecutorPcs, MutatorPcs, LockPcs, HolderPcs, SectionPcs, Goto
<1> USE DEF IInv
<1>1. ASSUME NEW t \in Threads, InitEnv(t) PROVE IInv'
  <2>1. CountersMatchThreads' /\ in_flight_counter' \in Nat
    <3>1. ~is_in_flight[t] /\ LeaveSafepoint(t)
      BY <1>1 DEF InitEnv, FlagsFollowPc
    <3>2. in_flight_counter' = Cardinality(InFlight') /\ in_flight_counter' \in Nat
      BY <3>1, LeaveSafepointCounts DEF CountersMatchThreads
    <3>3. Raised' = Raised /\ Contenders' = Contenders
      BY <1>1 DEF InitEnv, OnlyInFlightChanges, Raised, Contenders, TypeOK
    <3> QED
      BY <1>1, <3>2, <3>3 DEF InitEnv, OnlyInFlightChanges, CountersMatchThreads
  <2>2. TypeOK'
    BY <1>1, <2>1, CountsAreNatural DEF InitEnv, LeaveSafepoint, OnlyInFlightChanges, gcVars, TypeOK, Callers, GCLevels
  <2>3. FlagsFollowPc'
    BY <1>1 DEF InitEnv, LeaveSafepoint, OnlyInFlightChanges, gcVars, TypeOK, FlagsFollowPc
  <2>4. OneHolder' /\ SectionExcludesMutators'
    BY <1>1, ZeroMeansNobody DEF InitEnv, LeaveSafepoint, OnlyInFlightChanges, gcVars, TypeOK, FlagsFollowPc, OneHolder, SectionExcludesMutators
  <2>5. CollectionHasExecutor'
    BY <1>1 DEF InitEnv, LeaveSafepoint, OnlyInFlightChanges, gcVars, TypeOK, FlagsFollowPc, OneHolder, CollectionHasExecutor, Collecting, GCLevels
  <2> QED
    BY <2>1, <2>2, <2>3, <2>4, <2>5
<1>2. ASSUME NEW t \in Threads, DetachEnv(t) PROVE IInv'
  <2>1. CountersMatchThreads' /\ in_flight_counter' \in Nat
    <3>1. is_in_flight[t] /\ EnterSafepoint(t)
      BY <1>2 DEF DetachEnv, FlagsFollowPc
    <3>2. in_flight_counter' = Cardinality(InFlight') /\ in_flight_counter' \in Nat
      BY <3>1, EnterSafepointCounts DEF CountersMatchThreads
    <3>3. Raised' = Raised /\ Contenders' = Contenders
      BY <1>2 DEF DetachEnv, OnlyInFlightChanges, Raised, Contenders, TypeOK
    <3> QED
      BY <1>2, <3>2, <3>3 DEF DetachEnv, OnlyInFlightChanges, CountersMatchThreads
  <2>2. TypeOK'
    BY <1>2, <2>1, CountsAreNatural DEF DetachEnv, EnterSafepoint, OnlyInFlightChanges, gcVars, TypeOK, Callers, GCLevels
  <2>3. FlagsFollowPc'
    BY <1>2 DEF DetachEnv, EnterSafepoint, OnlyInFlightChanges, gcVars, TypeOK, FlagsFollowPc
  <2>4. OneHolder' /\ SectionExcludesMutators'
    BY <1>2, ZeroMeansNobody DEF DetachEnv, EnterSafepoint, OnlyInFlightChanges, gcVars, TypeOK, FlagsFollowPc, OneHolder, SectionExcludesMutators
  <2>5. CollectionHasExecutor'
    BY <1>2 DEF DetachEnv, EnterSafepoint, OnlyInFlightChanges, gcVars, TypeOK, FlagsFollowPc, OneHolder, CollectionHasExecutor, Collecting, GCLevels
  <2> QED
    BY <2>1, <2>2, <2>3, <2>4, <2>5
<1>3. ASSUME NEW t \in Threads, EnterBlocking(t) PROVE IInv'
  <2>1. CountersMatchThreads' /\ in_flight_counter' \in Nat
    <3>1. is_in_flight[t] /\ EnterSafepoint(t)
      BY <1>3 DEF EnterBlocking, FlagsFollowPc
    <3>2. in_flight_counter' = Cardinality(InFlight') /\ in_flight_counter' \in Nat
      BY <3>1, EnterSafepointCounts DEF CountersMatchThreads
    <3>3. Raised' = Raised /\ Contenders' = Contenders
      BY <1>3 DEF EnterBlocking, OnlyInFlightChanges, Raised, Contenders, TypeOK
    <3> QED
      BY <1>3, <3>2, <3>3 DEF EnterBlocking, OnlyInFlightChanges, CountersMatchThreads
  <2>2. TypeOK'
    BY <1>3, <2>1, CountsAreNatural DEF EnterBlocking, EnterSafepoint, OnlyInFlightChanges, gcVars, TypeOK, Callers, GCLevels
  <2>3. FlagsFollowPc'
    BY <1>3 DEF EnterBlocking, EnterSafepoint, OnlyInFlightChanges, gcVars, TypeOK, FlagsFollowPc
  <2>4. OneHolder' /\ SectionExcludesMutators'
    BY <1>3, ZeroMeansNobody DEF EnterBlocking, EnterSafepoint, OnlyInFlightChanges, gcVars, TypeOK, FlagsFollowPc, OneHolder, SectionExcludesMutators
  <2>5. CollectionHasExecutor'
    BY <1>3 DEF EnterBlocking, EnterSafepoint, OnlyInFlightChanges, gcVars, TypeOK, FlagsFollowPc, OneHolder, CollectionHasExecutor, Collecting, GCLevels
  <2> QED
    BY <2>1, <2>2, <2>3, <2>4, <2>5
<1>4. ASSUME NEW t \in Threads, LeaveBlocking(t) PROVE IInv'
  <2>1. CountersMatchThreads' /\ in_flight_counter' \in Nat
    <3>1. ~is_in_flight[t] /\ LeaveSafepoint(t)
      BY <1>4 DEF LeaveBlocking, FlagsFollowPc
    <3>2. in_flight_counter' = Cardinality(InFlight') /\ in_flight_counter' \in Nat
      BY <3>1, LeaveSafepointCounts DEF CountersMatchThreads
    <3>3. Raised' = Raised /\ Contenders' = Contenders
      BY <1>4 DEF LeaveBlocking, OnlyInFlightChanges, Raised, Contenders, TypeOK
    <3> QED
      BY <1>4, <3>2, <3>3 DEF LeaveBlocking, OnlyInFlightChanges, CountersMatchThreads
  <2>2. TypeOK'
    BY <1>4, <2>1, CountsAreNatural DEF LeaveBlocking, LeaveSafepoint, OnlyInFlightChanges, gcVars, TypeOK, Callers, GCLevels
  <2>3. FlagsFollowPc'
    BY <1>4 DEF LeaveBlocking, LeaveSafepoint, OnlyInFlightChanges, gcVars, TypeOK, FlagsFollowPc
  <2>4. OneHolder' /\ SectionExcludesMutators'
    BY <1>4, ZeroMeansNobody DEF LeaveBlocking, LeaveSafepoint, OnlyInFlightChanges, gcVars, TypeOK, FlagsFollowPc, OneHolder, SectionExcludesMutators
  <2>5. CollectionHasExecutor'
    BY <1>4 DEF LeaveBlocking, LeaveSafepoint, OnlyInFlightChanges, gcVars, TypeOK, FlagsFollowPc, OneHolder, CollectionHasExecutor, Collecting, GCLevels
  <2> QED
    BY <2>1, <2>2, <2>3, <2>4, <2>5
<1>5. ASSUME NEW t \in Threads, Poll(t) PROVE IInv'
  <2>1. CountersMatchThreads'
    <3>1. InFlight' = InFlight /\ Raised' = Raised /\ Contenders' = Contenders
      BY <1>5 DEF Poll, vmVars, envVars, InFlight, Raised, Contenders, TypeOK
    <3> QED
      BY <1>5, <3>1 DEF Poll, vmVars, CountersMatchThreads
  <2>2. TypeOK'
    BY <1>5, <2>1, CountsAreNatural DEF Poll, vmVars, gcVars, envVars, TypeOK, Callers, GCLevels
  <2>3. FlagsFollowPc'
    BY <1>5 DEF Poll, vmVars, gcVars, envVars, TypeOK, FlagsFollowPc
  <2>4. OneHolder' /\ SectionExcludesMutators'
    BY <1>5, ZeroMeansNobody DEF Poll, vmVars, gcVars, envVars, TypeOK, FlagsFollowPc, OneHolder, SectionExcludesMutators
  <2>5. CollectionHasExecutor'
    BY <1>5 DEF Poll, vmVars, gcVars, envVars, TypeOK, FlagsFollowPc, OneHolder, CollectionHasExecutor, Collecting, GCLevels
  <2> QED
    BY <2>1, <2>2, <2>3, <2>4, <2>5
<1>6. ASSUME NEW t \in Threads, CheckRequests(t) PROVE IInv'
  <2>1. CountersMatchThreads'
    <3>1. InFlight' = InFlight /\ Raised' = Raised /\ Contenders' = Contenders
      BY <1>6 DEF CheckRequests, vmVars, envVars, InFlight, Raised, Contenders, TypeOK
    <3> QED
      BY <1>6, <3>1 DEF CheckRequests, vmVars, CountersMatchThreads
  <2>2. TypeOK'
    BY <1>6, <2>1, CountsAreNatural DEF CheckRequests, vmVars, gcVars, envVars, TypeOK, Callers, GCLevels
  <2>3. FlagsFollowPc'
    BY <1>6 DEF CheckRequests, vmVars, gcVars, envVars, TypeOK, FlagsFollowPc
  <2>4. OneHolder' /\ SectionExcludesMutators'
    BY <1>6, ZeroMeansNobody DEF CheckRequests, vmVars, gcVars, envVars, TypeOK, FlagsFollowPc, OneHolder, SectionExcludesMutators
  <2>5. CollectionHasExecutor'
    BY <1>6 DEF CheckRequests, vmVars, gcVars, envVars, TypeOK, FlagsFollowPc, OneHolder, CollectionHasExecutor, Collecting, GCLevels
  <2> QED
    BY <2>1, <2>2, <2>3, <2>4, <2>5
<1>7. ASSUME NEW t \in Threads, Park(t) PROVE IInv'
  <2>1. CountersMatchThreads' /\ in_flight_counter' \in Nat
    <3>1. is_in_flight[t] /\ EnterSafepoint(t)
      BY <1>7 DEF Park, FlagsFollowPc
    <3>2. in_flight_counter' = Cardinality(InFlight') /\ in_flight_counter' \in Nat
      BY <3>1, EnterSafepointCounts DEF CountersMatchThreads
    <3>3. Raised' = Raised /\ Contenders' = Contenders
      BY <1>7 DEF Park, OnlyInFlightChanges, Raised, Contenders, TypeOK
    <3> QED
      BY <1>7, <3>2, <3>3 DEF Park, OnlyInFlightChanges, CountersMatchThreads
  <2>2. TypeOK'
    BY <1>7, <2>1, CountsAreNatural DEF Park, EnterSafepoint, OnlyInFlightChanges, gcVars, TypeOK, Callers, GCLevels
  <2>3. FlagsFollowPc'
    BY <1>7 DEF Park, EnterSafepoint, OnlyInFlightChanges, gcVars, TypeOK, FlagsFollowPc
  <2>4. OneHolder' /\ SectionExcludesMutators'
    BY <1>7, ZeroMeansNobody DEF Park, EnterSafepoint, OnlyInFlightChanges, gcVars, TypeOK, FlagsFollowPc, OneHolder, SectionExcludesMutators
  <2>5. CollectionHasExecutor'
    BY <1>7 DEF Park, EnterSafepoint, OnlyInFlightChanges, gcVars, TypeOK, FlagsFollowPc, OneHolder, CollectionHasExecutor, Collecting, GCLevels
  <2> QED
    BY <2>1, <2>2, <2>3, <2>4, <2>5
<1>8. ASSUME NEW t \in Threads, RequestsCompleted(t) PROVE IInv'
  <2>1. CountersMatchThreads'
    <3>1. InFlight' = InFlight /\ Raised' = Raised /\ Contenders' = Contenders
      BY <1>8 DEF RequestsCompleted, vmVars, envVars, InFlight, Raised, Contenders, TypeOK
    <3> QED
      BY <1>8, <3>1 DEF RequestsCompleted, vmVars, CountersMatchThreads
  <2>2. TypeOK'
    BY <1>8, <2>1, CountsAreNatural DEF RequestsCompleted, vmVars, gcVars, envVars, TypeOK, Callers, GCLevels
  <2>3. FlagsFollowPc'
    BY <1>8 DEF RequestsCompleted, vmVars, gcVars, envVars, TypeOK, FlagsFollowPc
  <2>4. OneHolder' /\ SectionExcludesMutators'
    BY <1>8, ZeroMeansNobody DEF RequestsCompleted, vmVars, gcVars, envVars, TypeOK, FlagsFollowPc, OneHolder, SectionExcludesMutators
  <2>5. CollectionHasExecutor'
    BY <1>8 DEF RequestsCompleted, vmVars, gcVars, envVars, TypeOK, FlagsFollowPc, OneHolder, CollectionHasExecutor, Collecting, GCLevels
  <2> QED
    BY <2>1, <2>2, <2>3, <2>4, <2>5
<1>9. ASSUME NEW t \in Threads, Unpark(t) PROVE IInv'
  <2>1. CountersMatchThreads' /\ in_flight_counter' \in Nat
    <3>1. ~is_in_flight[t] /\ LeaveSafepoint(t)
      BY <1>9 DEF Unpark, FlagsFollowPc
    <3>2. in_flight_counter' = Cardinality(InFlight') /\ in_flight_counter' \in Nat
      BY <3>1, LeaveSafepointCounts DEF CountersMatchThreads
    <3>3. Raised' = Raised /\ Contenders' = Contenders
      BY <1>9 DEF Unpark, OnlyInFlightChanges, Raised, Contenders, TypeOK
    <3> QED
      BY <1>9, <3>2, <3>3 DEF Unpark, OnlyInFlightChanges, CountersMatchThreads
  <2>2. TypeOK'
    BY <1>9, <2>1, CountsAreNatural DEF Unpark, LeaveSafepoint, OnlyInFlightChanges, gcVars, TypeOK, Callers, GCLevels
  <2>3. FlagsFollowPc'
    BY <1>9 DEF Unpark, LeaveSafepoint, OnlyInFlightChanges, gcVars, TypeOK, FlagsFollowPc
  <2>4. OneHolder' /\ SectionExcludesMutators'
    BY <1>9, ZeroMeansNobody DEF Unpark, LeaveSafepoint, OnlyInFlightChanges, gcVars, TypeOK, FlagsFollowPc, OneHolder, SectionExcludesMutators
  <2>5. CollectionHasExecutor'
    BY <1>9 DEF Unpark, LeaveSafepoint, OnlyInFlightChanges, gcVars, TypeOK, FlagsFollowPc, OneHolder, CollectionHasExecutor, Collecting, GCLevels
  <2> QED
    BY <2>1, <2>2, <2>3, <2>4, <2>5
<1>10. ASSUME NEW t \in Threads, StartGC(t) PROVE IInv'
  <2>1. CountersMatchThreads' /\ in_flight_counter' \in Nat
    <3>1. is_in_flight[t] /\ EnterSafepoint(t)
      BY <1>10 DEF StartGC, FlagsFollowPc
    <3>2. in_flight_counter' = Cardinality(InFlight') /\ in_flight_counter' \in Nat
      BY <3>1, EnterSafepointCounts DEF CountersMatchThreads
    <3>3. Raised' = Raised /\ Contenders' = Contenders
      BY <1>10 DEF StartGC, OnlyInFlightChanges, Raised, Contenders, TypeOK
    <3> QED
      BY <1>10, <3>2, <3>3 DEF StartGC, OnlyInFlightChanges, CountersMatchThreads
  <2>2. TypeOK'
    BY <1>10, <2>1, CountsAreNatural DEF StartGC, EnterSafepoint, OnlyInFlightChanges, gcVars, TypeOK, Callers, GCLevels
  <2>3. FlagsFollowPc'
    BY <1>10 DEF StartGC, EnterSafepoint, OnlyInFlightChanges, gcVars, TypeOK, FlagsFollowPc
  <2>4. OneHolder' /\ SectionExcludesMutators'
    BY <1>10, ZeroMeansNobody DEF StartGC, EnterSafepoint, OnlyInFlightChanges, gcVars, TypeOK, FlagsFollowPc, OneHolder, SectionExcludesMutators
  <2>5. CollectionHasExecutor'
    BY <1>10 DEF StartGC, EnterSafepoint, OnlyInFlightChanges, gcVars, TypeOK, FlagsFollowPc, OneHolder, CollectionHasExecutor, Collecting, GCLevels
  <2> QED
    BY <2>1, <2>2, <2>3, <2>4, <2>5
<1>11. ASSUME NEW t \in Threads, StartPromotion(t) PROVE IInv'
  <2>1. CountersMatchThreads' /\ in_flight_counter' \in Nat
    <3>1. is_in_flight[t] /\ EnterSafepoint(t)
      BY <1>11 DEF StartPromotion, FlagsFollowPc
    <3>2. in_flight_counter' = Cardinality(InFlight') /\ in_flight_counter' \in Nat
      BY <3>1, EnterSafepointCounts DEF CountersMatchThreads
    <3>3. Raised' = Raised /\ Contenders' = Contenders
      BY <1>11 DEF StartPromotion, OnlyInFlightChanges, Raised, Contenders, TypeOK
    <3> QED
      BY <1>11, <3>2, <3>3 DEF StartPromotion, OnlyInFlightChanges, CountersMatchThreads
  <2>2. TypeOK'
    BY <1>11, <2>1, CountsAreNatural DEF StartPromotion, EnterSafepoint, OnlyInFlightChanges, gcVars, TypeOK, Callers, GCLevels
  <2>3. FlagsFollowPc'
    BY <1>11 DEF StartPromotion, EnterSafepoint, OnlyInFlightChanges, gcVars, TypeOK, FlagsFollowPc
  <2>4. OneHolder' /\ SectionExcludesMutators'
    BY <1>11, ZeroMeansNobody DEF StartPromotion, EnterSafepoint, OnlyInFlightChanges, gcVars, TypeOK, FlagsFollowPc, OneHolder, SectionExcludesMutators
  <2>5. CollectionHasExecutor'
    BY <1>11 DEF StartPromotion, EnterSafepoint, OnlyInFlightChanges, gcVars, TypeOK, FlagsFollowPc, OneHolder, CollectionHasExecutor, Collecting, GCLevels
  <2> QED
    BY <2>1, <2>2, <2>3, <2>4, <2>5
<1>12. ASSUME NEW t \in Threads, RaiseRequest(t) PROVE IInv'
  <2>1. CountersMatchThreads'
    <3>1. Raised' = Raised \cup {t} /\ t \notin Raised
      BY <1>12 DEF RaiseRequest, Raised, TypeOK, FlagsFollowPc
    <3>2. Cardinality(Raised') = Cardinality(Raised) + 1
      BY <3>1, CountedSetsFinite, FS_AddElement
    <3>3. InFlight' = InFlight /\ Contenders' = Contenders
      BY <1>12 DEF RaiseRequest, InFlight, Contenders, TypeOK
    <3> QED
      BY <1>12, <3>1, <3>2, <3>3 DEF RaiseRequest, CountersMatchThreads, TypeOK
  <2>2. TypeOK'
    BY <1>12, <2>1, CountsAreNatural DEF RaiseRequest, vmVars, gcVars, envVars, TypeOK, Callers, GCLevels
  <2>3. FlagsFollowPc'
    BY <1>12 DEF RaiseRequest, vmVars, gcVars, envVars, TypeOK, FlagsFollowPc
  <2>4. OneHolder' /\ SectionExcludesMutators'
    BY <1>12, ZeroMeansNobody DEF RaiseRequest, vmVars, gcVars, envVars, TypeOK, FlagsFollowPc, OneHolder, SectionExcludesMutators
  <2>5. CollectionHasExecutor'
    BY <1>12 DEF RaiseRequest, vmVars, gcVars, envVars, TypeOK, FlagsFollowPc, OneHolder, CollectionHasExecutor, Collecting, GCLevels
  <2> QED
    BY <2>1, <2>2, <2>3, <2>4, <2>5
<1>13. ASSUME NEW t \in Threads, TryPromote(t) PROVE IInv'
  <2>1. CountersMatchThreads'
    <3>1. Cardinality(Contenders') = Cardinality(Contenders) + 1
      BY <1>13, ContendersGrow DEF TryPromote
    <3>2. InFlight' = InFlight /\ Raised' = Raised
      BY <1>13 DEF TryPromote, envVars, InFlight, Raised
    <3> QED
      BY <1>13, <3>1, <3>2 DEF TryPromote, CountersMatchThreads, TypeOK
  <2>2. TypeOK'
    BY <1>13, <2>1, CountsAreNatural DEF TryPromote, vmVars, gcVars, envVars, TypeOK, Callers, GCLevels
  <2>3. FlagsFollowPc'
    BY <1>13 DEF TryPromote, vmVars, gcVars, envVars, TypeOK, FlagsFollowPc
  <2>4. OneHolder' /\ SectionExcludesMutators'
    BY <1>13, ZeroMeansNobody DEF TryPromote, vmVars, gcVars, envVars, TypeOK, FlagsFollowPc, OneHolder, SectionExcludesMutators
  <2>5. CollectionHasExecutor'
    BY <1>13 DEF TryPromote, vmVars, gcVars, envVars, TypeOK, FlagsFollowPc, OneHolder, CollectionHasExecutor, Collecting, GCLevels
  <2> QED
    BY <2>1, <2>2, <2>3, <2>4, <2>5
<1>14. ASSUME NEW t \in Threads, BackOff(t) PROVE IInv'
  <2>1. CountersMatchThreads'
    <3>1. Cardinality(Contenders') = Cardinality(Contenders) - 1
      BY <1>14, ContendersShrink DEF BackOff
    <3>2. InFlight' = InFlight /\ Raised' = Raised
      BY <1>14 DEF BackOff, envVars, InFlight, Raised
    <3> QED
      BY <1>14, <3>1, <3>2 DEF BackOff, CountersMatchThreads, TypeOK
  <2>2. TypeOK'
    BY <1>14, <2>1, CountsAreNatural DEF BackOff, vmVars, gcVars, envVars, TypeOK, Callers, GCLevels
  <2>3. FlagsFollowPc'
    BY <1>14 DEF BackOff, vmVars, gcVars, envVars, TypeOK, FlagsFollowPc
  <2>4. OneHolder' /\ SectionExcludesMutators'
    BY <1>14, ZeroMeansNobody DEF BackOff, vmVars, gcVars, envVars, TypeOK, FlagsFollowPc, OneHolder, SectionExcludesMutators
  <2>5. CollectionHasExecutor'
    BY <1>14 DEF BackOff, vmVars, gcVars, envVars, TypeOK, FlagsFollowPc, OneHolder, CollectionHasExecutor, Collecting, GCLevels
  <2> QED
    BY <2>1, <2>2, <2>3, <2>4, <2>5
<1>15. ASSUME NEW t \in Threads, ExecutorDemoted(t) PROVE IInv'
  <2>1. CountersMatchThreads'
    <3>1. InFlight' = InFlight /\ Raised' = Raised /\ Contenders' = Contenders
      BY <1>15 DEF ExecutorDemoted, vmVars, envVars, InFlight, Raised, Contenders, TypeOK
    <3> QED
      BY <1>15, <3>1 DEF ExecutorDemoted, vmVars, CountersMatchThreads
  <2>2. TypeOK'
    BY <1>15, <2>1, CountsAreNatural DEF ExecutorDemoted, vmVars, gcVars, envVars, TypeOK, Callers, GCLevels
  <2>3. FlagsFollowPc'
    BY <1>15 DEF ExecutorDemoted, vmVars, gcVars, envVars, TypeOK, FlagsFollowPc
  <2>4. OneHolder' /\ SectionExcludesMutators'
    BY <1>15, ZeroMeansNobody DEF ExecutorDemoted, vmVars, gcVars, envVars, TypeOK, FlagsFollowPc, OneHolder, SectionExcludesMutators
  <2>5. CollectionHasExecutor'
    BY <1>15 DEF ExecutorDemoted, vmVars, gcVars, envVars, TypeOK, FlagsFollowPc, OneHolder, CollectionHasExecutor, Collecting, GCLevels
  <2> QED
    BY <2>1, <2>2, <2>3, <2>4, <2>5
<1>16. ASSUME NEW t \in Threads, AllAtSafepoints(t) PROVE IInv'
  <2>1. CountersMatchThreads'
    <3>1. InFlight' = InFlight /\ Raised' = Raised /\ Contenders' = Contenders
      BY <1>16 DEF AllAtSafepoints, vmVars, envVars, InFlight, Raised, Contenders, TypeOK
    <3> QED
      BY <1>16, <3>1 DEF AllAtSafepoints, vmVars, CountersMatchThreads
  <2>2. TypeOK'
    BY <1>16, <2>1, CountsAreNatural DEF AllAtSafepoints, vmVars, gcVars, envVars, TypeOK, Callers, GCLevels
  <2>3. FlagsFollowPc'
    BY <1>16 DEF AllAtSafepoints, vmVars, gcVars, envVars, TypeOK, FlagsFollowPc
  <2>4. OneHolder' /\ SectionExcludesMutators'
    BY <1>16, ZeroMeansNobody DEF AllAtSafepoints, vmVars, gcVars, envVars, TypeOK, FlagsFollowPc, OneHolder, SectionExcludesMutators
  <2>5. CollectionHasExecutor'
    BY <1>16 DEF AllAtSafepoints, vmVars, gcVars, envVars, TypeOK, FlagsFollowPc, OneHolder, CollectionHasExecutor, Collecting, GCLevels
  <2> QED
    BY <2>1, <2>2, <2>3, <2>4, <2>5
<1>17. ASSUME NEW t \in Threads, EnterGC(t) PROVE IInv'
  <2>1. CountersMatchThreads'
    <3>1. InFlight' = InFlight /\ Raised' = Raised /\ Contenders' = Contenders
      BY <1>17 DEF EnterGC, vmVars, envVars, InFlight, Raised, Contenders, TypeOK
    <3> QED
      BY <1>17, <3>1 DEF EnterGC, vmVars, CountersMatchThreads
  <2>2. TypeOK'
    BY <1>17, <2>1, CountsAreNatural DEF EnterGC, vmVars, gcVars, envVars, TypeOK, Callers, GCLevels
  <2>3. FlagsFollowPc'
    BY <1>17 DEF EnterGC, vmVars, gcVars, envVars, TypeOK, FlagsFollowPc
  <2>4. OneHolder' /\ SectionExcludesMutators'
    BY <1>17, ZeroMeansNobody DEF EnterGC, vmVars, gcVars, envVars, TypeOK, FlagsFollowPc, OneHolder, SectionExcludesMutators
  <2>5. CollectionHasExecutor'
    BY <1>17 DEF EnterGC, vmVars, gcVars, envVars, TypeOK, FlagsFollowPc, OneHolder, CollectionHasExecutor, Collecting, GCLevels
  <2> QED
    BY <2>1, <2>2, <2>3, <2>4, <2>5
<1>18. ASSUME NEW t \in Threads, EnterNestedGC(t) PROVE IInv'
  <2>1. CountersMatchThreads'
    <3>1. InFlight' = InFlight /\ Raised' = Raised /\ Contenders' = Contenders
      BY <1>18 DEF EnterNestedGC, vmVars, envVars, InFlight, Raised, Contenders, TypeOK
    <3> QED
      BY <1>18, <3>1 DEF EnterNestedGC, vmVars, CountersMatchThreads
  <2>2. TypeOK'
    BY <1>18, <2>1, CountsAreNatural DEF EnterNestedGC, vmVars, gcVars, envVars, TypeOK, Callers, GCLevels
  <2>3. FlagsFollowPc'
    BY <1>18 DEF EnterNestedGC, vmVars, gcVars, envVars, TypeOK, FlagsFollowPc
  <2>4. OneHolder' /\ SectionExcludesMutators'
    BY <1>18, ZeroMeansNobody DEF EnterNestedGC, vmVars, gcVars, envVars, TypeOK, FlagsFollowPc, OneHolder, SectionExcludesMutators
  <2>5. CollectionHasExecutor'
    BY <1>18 DEF EnterNestedGC, vmVars, gcVars, envVars, TypeOK, FlagsFollowPc, OneHolder, CollectionHasExecutor, Collecting, GCLevels
  <2> QED
    BY <2>1, <2>2, <2>3, <2>4, <2>5
<1>19. ASSUME NEW t \in Threads, LeaveGC(t) PROVE IInv'
  <2>1. CountersMatchThreads'
    <3>1. InFlight' = InFlight /\ Raised' = Raised /\ Contenders' = Contenders
      BY <1>19 DEF LeaveGC, vmVars, envVars, InFlight, Raised, Contenders, TypeOK
    <3> QED
      BY <1>19, <3>1 DEF LeaveGC, vmVars, CountersMatchThreads
  <2>2. TypeOK'
    BY <1>19, <2>1, CountsAreNatural DEF LeaveGC, vmVars, gcVars, envVars, TypeOK, Callers, GCLevels, CollectionHasExecutor, Collecting
  <2>3. FlagsFollowPc'
    BY <1>19 DEF LeaveGC, vmVars, gcVars, envVars, TypeOK, FlagsFollowPc
  <2>4. OneHolder' /\ SectionExcludesMutators'
    BY <1>19, ZeroMeansNobody DEF LeaveGC, vmVars, gcVars, envVars, TypeOK, FlagsFollowPc, OneHolder, SectionExcludesMutators
  <2>5. CollectionHasExecutor'
    BY <1>19 DEF LeaveGC, vmVars, gcVars, envVars, TypeOK, FlagsFollowPc, OneHolder, CollectionHasExecutor, Collecting, GCLevels
  <2> QED
    BY <2>1, <2>2, <2>3, <2>4, <2>5
<1>20. ASSUME NEW t \in Threads, PublishShared(t) PROVE IInv'
  <2>1. CountersMatchThreads'
    <3>1. InFlight' = InFlight /\ Raised' = Raised /\ Contenders' = Contenders
      BY <1>20 DEF PublishShared, vmVars, envVars, InFlight, Raised, Contenders, TypeOK
    <3> QED
      BY <1>20, <3>1 DEF PublishShared, vmVars, CountersMatchThreads
  <2>2. TypeOK'
    BY <1>20, <2>1, CountsAreNatural DEF PublishShared, vmVars, gcVars, envVars, TypeOK, Callers, GCLevels
  <2>3. FlagsFollowPc'
    BY <1>20 DEF PublishShared, vmVars, gcVars, envVars, TypeOK, FlagsFollowPc
  <2>4. OneHolder' /\ SectionExcludesMutators'
    BY <1>20, ZeroMeansNobody DEF PublishShared, vmVars, gcVars, envVars, TypeOK, FlagsFollowPc, OneHolder, SectionExcludesMutators
  <2>5. CollectionHasExecutor'
    BY <1>20 DEF PublishShared, vmVars, gcVars, envVars, TypeOK, FlagsFollowPc, OneHolder, CollectionHasExecutor, Collecting, GCLevels
  <2> QED
    BY <2>1, <2>2, <2>3, <2>4, <2>5
<1>21. ASSUME NEW t \in Threads, Settled(t) PROVE IInv'
  <2>1. CountersMatchThreads'
    <3>1. InFlight' = InFlight /\ Raised' = Raised /\ Contenders' = Contenders
      BY <1>21 DEF Settled, vmVars, envVars, InFlight, Raised, Contenders, TypeOK
    <3> QED
      BY <1>21, <3>1 DEF Settled, vmVars, CountersMatchThreads
  <2>2. TypeOK'
    BY <1>21, <2>1, CountsAreNatural DEF Settled, vmVars, gcVars, envVars, TypeOK, Callers, GCLevels
  <2>3. FlagsFollowPc'
    BY <1>21 DEF Settled, vmVars, gcVars, envVars, TypeOK, FlagsFollowPc
  <2>4. OneHolder' /\ SectionExcludesMutators'
    BY <1>21, ZeroMeansNobody DEF Settled, vmVars, gcVars, envVars, TypeOK, FlagsFollowPc, OneHolder, SectionExcludesMutators
  <2>5. CollectionHasExecutor'
    BY <1>21 DEF Settled, vmVars, gcVars, envVars, TypeOK, FlagsFollowPc, OneHolder, CollectionHasExecutor, Collecting, GCLevels
  <2> QED
    BY <2>1, <2>2, <2>3, <2>4, <2>5
<1>22. ASSUME NEW t \in Threads, ReleaseExecutor(t) PROVE IInv'
  <2>1. CountersMatchThreads'
    <3>1. Cardinality(Contenders') = Cardinality(Contenders) - 1
      BY <1>22, ContendersShrink DEF ReleaseExecutor
    <3>2. InFlight' = InFlight /\ Raised' = Raised
      BY <1>22 DEF ReleaseExecutor, envVars, InFlight, Raised
    <3> QED
      BY <1>22, <3>1, <3>2 DEF ReleaseExecutor, CountersMatchThreads, TypeOK
  <2>2. TypeOK'
    BY <1>22, <2>1, CountsAreNatural DEF ReleaseExecutor, vmVars, gcVars, envVars, TypeOK, Callers, GCLevels
  <2>3. FlagsFollowPc'
    BY <1>22 DEF ReleaseExecutor, vmVars, gcVars, envVars, TypeOK, FlagsFollowPc
  <2>4. OneHolder' /\ SectionExcludesMutators'
    BY <1>22, ZeroMeansNobody DEF ReleaseExecutor, vmVars, gcVars, envVars, TypeOK, FlagsFollowPc, OneHolder, SectionExcludesMutators
  <2>5. CollectionHasExecutor'
    BY <1>22 DEF ReleaseExecutor, vmVars, gcVars, envVars, TypeOK, FlagsFollowPc, OneHolder, CollectionHasExecutor, Collecting, GCLevels
  <2> QED
    BY <2>1, <2>2, <2>3, <2>4, <2>5
<1>23. ASSUME NEW t \in Threads, LowerRequest(t) PROVE IInv'
  <2>1. CountersMatchThreads'
    <3>1. Raised' = Raised \ {t} /\ t \in Raised
      BY <1>23 DEF LowerRequest, Raised, TypeOK, FlagsFollowPc
    <3>2. Cardinality(Raised') = Cardinality(Raised) - 1
      BY <3>1, CountedSetsFinite, FS_RemoveElement
    <3>3. InFlight' = InFlight /\ Contenders' = Contenders
      BY <1>23 DEF LowerRequest, InFlight, Contenders, TypeOK
    <3> QED
      BY <1>23, <3>1, <3>2, <3>3 DEF LowerRequest, CountersMatchThreads, TypeOK
  <2>2. TypeOK'
    BY <1>23, <2>1, CountsAreNatural DEF LowerRequest, vmVars, gcVars, envVars, TypeOK, Callers, GCLevels
  <2>3. FlagsFollowPc'
    BY <1>23 DEF LowerRequest, vmVars, gcVars, envVars, TypeOK, FlagsFollowPc
  <2>4. OneHolder' /\ SectionExcludesMutators'
    BY <1>23, ZeroMeansNobody DEF LowerRequest, vmVars, gcVars, envVars, TypeOK, FlagsFollowPc, OneHolder, SectionExcludesMutators
  <2>5. CollectionHasExecutor'
    BY <1>23 DEF LowerRequest, vmVars, gcVars, envVars, TypeOK, FlagsFollowPc, OneHolder, CollectionHasExecutor, Collecting, GCLevels
  <2> QED
    BY <2>1, <2>2, <2>3, <2>4, <2>5
<1>24. ASSUME NEW t \in Threads, LeaveSection(t) PROVE IInv'
  <2>1. CountersMatchThreads' /\ in_flight_counter' \in Nat
    <3>1. ~is_in_flight[t] /\ LeaveSafepoint(t)
      BY <1>24 DEF LeaveSection, FlagsFollowPc
    <3>2. in_flight_counter' = Cardinality(InFlight') /\ in_flight_counter' \in Nat
      BY <3>1, LeaveSafepointCounts DEF CountersMatchThreads
    <3>3. Raised' = Raised /\ Contenders' = Contenders
      BY <1>24 DEF LeaveSection, OnlyInFlightChanges, Raised, Contenders, TypeOK
    <3> QED
      BY <1>24, <3>2, <3>3 DEF LeaveSection, OnlyInFlightChanges, CountersMatchThreads
  <2>2. TypeOK'
    BY <1>24, <2>1, CountsAreNatural DEF LeaveSection, LeaveSafepoint, OnlyInFlightChanges, gcVars, TypeOK, Callers, GCLevels
  <2>3. FlagsFollowPc'
    BY <1>24 DEF LeaveSection, LeaveSafepoint, OnlyInFlightChanges, gcVars, TypeOK, FlagsFollowPc
  <2>4. OneHolder' /\ SectionExcludesMutators'
    BY <1>24, ZeroMeansNobody DEF LeaveSection, LeaveSafepoint, OnlyInFlightChanges, gcVars, TypeOK, FlagsFollowPc, OneHolder, SectionExcludesMutators
  <2>5. CollectionHasExecutor'
    BY <1>24 DEF LeaveSection, LeaveSafepoint, OnlyInFlightChanges, gcVars, TypeOK, FlagsFollowPc, OneHolder, CollectionHasExecutor, Collecting, GCLevels
  <2> QED
    BY <2>1, <2>2, <2>3, <2>4, <2>5
<1>25. CASE UNCHANGED vars
  BY <1>25 DEF vars, vmVars, gcVars, envVars, TypeOK, CountersMatchThreads, FlagsFollowPc,
     OneHolder, SectionExcludesMutators, CollectionHasExecutor, Collecting, InFlight, Raised,
     Contenders
<1> QED
  BY <1>1, <1>2, <1>3, <1>4, <1>5, <1>6, <1>7, <1>8, <1>9, <1>10, <1>11, <1>12, <1>13, <1>14, <1>15, <1>16, <1>17, <1>18, <1>19, <1>20, <1>21, <1>22, <1>23, <1>24, <1>25 DEF Next, Advance, Request

-----------------------------------------------------------------------------

(* The inductive invariant holds in every reachable state.                 *)
THEOREM Invariance == Spec => []IInv
BY InitIInv, NextIInv, PTL DEF Spec

(* Type correctness; in particular none of the unsigned-by-intent counters *)
(* of struct rt_vm is ever decremented below zero.                         *)
THEOREM TypeCorrect == Spec => []TypeOK
<1>1. IInv => TypeOK
  BY DEF IInv
<1> QED
  BY <1>1, Invariance, PTL

(* The three counters of the handshake count exactly the threads their     *)
(* comments name (objectmodel-mt.c:835-845, 958-967).                      *)
THEOREM CountersCorrect == Spec => []CountersMatchThreads
<1>1. IInv => CountersMatchThreads
  BY DEF IInv
<1> QED
  BY <1>1, Invariance, PTL

(* A stop-the-world section excludes every running thread and every other  *)
(* section, for any number of threads.                                     *)
THEOREM WorldIsStopped == Spec => []SectionExcludesMutators
<1>1. IInv => SectionExcludesMutators
  BY DEF IInv
<1> QED
  BY <1>1, Invariance, PTL

(* An allocator of a running thread reads 0 from gc_in_progress_counter.   *)
THEOREM NoGCSeenByMutators == Spec => []MutatorSeesNoGC
<1>1. IInv => MutatorSeesNoGC
  <2> SUFFICES ASSUME IInv, NEW t \in Threads, pc[t] = "run"
               PROVE  gc_in_progress_counter = 0 /\ gc_level = 0
    BY DEF MutatorSeesNoGC
  <2>1. ~(\E u \in Threads : Collecting(u))
    BY DEF IInv, SectionExcludesMutators, SectionPcs, Collecting
  <2> QED
    BY <2>1 DEF IInv, CollectionHasExecutor, TypeOK
<1> QED
  BY <1>1, Invariance, PTL

(* A thread gets back to the heap only when no raised request is pending.  *)
THEOREM ResumeAfterRequests == Spec => ResumesAfterEveryRequest
<1>1. IInv /\ [Next]_vars =>
        [\A t \in Threads : pc[t] # "run" /\ pc'[t] = "run" =>
           \A u \in Threads : ~is_stw_raised[u]]_vars
  <2> SUFFICES ASSUME IInv, Next, NEW t \in Threads, pc[t] # "run", pc'[t] = "run",
                      NEW u \in Threads
               PROVE  ~is_stw_raised[u]
    OBVIOUS
  <2>1. stw_request_counter = 0
    BY DEF IInv, TypeOK, Next, Advance, Request, Goto, InitEnv, DetachEnv, EnterBlocking,
           LeaveBlocking, Poll, CheckRequests, Park, RequestsCompleted, Unpark, StartGC,
           StartPromotion, RaiseRequest, TryPromote, BackOff, ExecutorDemoted,
           AllAtSafepoints, EnterGC, EnterNestedGC, LeaveGC, PublishShared, Settled,
           ReleaseExecutor, LowerRequest, LeaveSection
  <2> QED
    BY <2>1, ZeroMeansNobody DEF IInv
<1> QED
  BY <1>1, Invariance, PTL DEF Spec, ResumesAfterEveryRequest

-----------------------------------------------------------------------------

(* The counters implement the abstract stop-the-world promise.             *)
THEOREM Refinement == Spec => ImplementsStopTheWorld
<1> USE DEF modeBar, SectionPcs
<1>1. Init => Abstract!Init
  BY DEF Init, Abstract!Init
<1>2. IInv /\ [Next]_vars => [Abstract!Next]_modeBar
  <2> SUFFICES ASSUME IInv, [Next]_vars PROVE [Abstract!Next]_modeBar
    OBVIOUS
  <2> USE DEF IInv, TypeOK, Goto, Abstract!Next
  (* Control points outside "run" and the section map to "out": moving     *)
  (* among them is a stutter.                                              *)
  <2> DEFINE Outside == (MutatorPcs \cup ExecutorPcs) \ (SectionPcs \cup {"run"})
  <2>1. ASSUME NEW t \in Threads, NEW from \in Outside, NEW to \in Outside, Goto(t, from, to)
        PROVE  UNCHANGED modeBar
    BY <2>1 DEF MutatorPcs, ExecutorPcs
  <2>2. ASSUME NEW t \in Threads, NEW to \in Outside, Goto(t, "run", to)
        PROVE  Abstract!Yield(t)
    BY <2>2 DEF Abstract!Yield, MutatorPcs, ExecutorPcs
  <2>3. ASSUME NEW t \in Threads, CheckRequests(t), stw_request_counter = 0
        PROVE  Abstract!Resume(t)
    <3>1. \A u \in Threads : pc[u] \notin SectionPcs
      BY <2>3, ZeroMeansNobody DEF FlagsFollowPc, RaisedPcs, ExecutorPcs
    <3> QED
      BY <2>3, <3>1 DEF CheckRequests, Abstract!Resume, Abstract!NobodyExclusive
  <2>4. ASSUME NEW t \in Threads, NEW from \in {"wait_all", "wait_again"},
               in_flight_counter = 0, Goto(t, from, "section")
        PROVE  Abstract!BeginSection(t)
    <3>1. \A u \in Threads : pc[u] # "run"
      BY <2>4, ZeroMeansNobody DEF FlagsFollowPc, InFlightPcs
    <3>2. \A u \in Threads \ {t} : pc[u] \notin SectionPcs
      BY <2>4 DEF OneHolder, HolderPcs
    <3> QED
      BY <2>4, <3>1, <3>2 DEF Abstract!BeginSection, Abstract!WorldStoppedFor
  <2>5. ASSUME NEW t \in Threads, NEW from \in SectionPcs, Goto(t, from, "demote")
        PROVE  Abstract!EndSection(t)
    BY <2>5 DEF Abstract!EndSection
  <2>6. ASSUME NEW t \in Threads, Advance(t) PROVE [Abstract!Next]_modeBar
    <3>1. CASE Poll(t)
      BY <3>1, <2>2 DEF Poll, MutatorPcs
    <3>2. CASE CheckRequests(t)
      BY <3>2, <2>1, <2>3 DEF CheckRequests, MutatorPcs
    <3>3. CASE AllAtSafepoints(t)
      BY <3>3, <2>1, <2>4 DEF AllAtSafepoints, ExecutorPcs
    <3>4. CASE EnterGC(t)
      BY <3>4, <2>4 DEF EnterGC
    <3>5. CASE LeaveGC(t)
      BY <3>5, <2>5 DEF LeaveGC
    <3>6. CASE PublishShared(t)
      BY <3>6 DEF PublishShared
    <3>7. CASE Settled(t)
      BY <3>7, <2>5 DEF Settled
    <3>8. CASE \/ Park(t) \/ RequestsCompleted(t) \/ Unpark(t) \/ RaiseRequest(t)
               \/ TryPromote(t) \/ BackOff(t) \/ ExecutorDemoted(t)
               \/ ReleaseExecutor(t) \/ LowerRequest(t) \/ LeaveSection(t)
      BY <3>8, <2>1 DEF Park, RequestsCompleted, Unpark, RaiseRequest, TryPromote, BackOff,
         ExecutorDemoted, ReleaseExecutor, LowerRequest, LeaveSection, MutatorPcs, ExecutorPcs
    <3> QED
      BY <2>6, <3>1, <3>2, <3>3, <3>4, <3>5, <3>6, <3>7, <3>8 DEF Advance
  <2>7. ASSUME NEW t \in Threads, Request(t) PROVE [Abstract!Next]_modeBar
    <3>1. CASE InitEnv(t) \/ LeaveBlocking(t)
      BY <3>1, <2>1 DEF InitEnv, LeaveBlocking, MutatorPcs
    <3>2. CASE DetachEnv(t) \/ EnterBlocking(t) \/ StartGC(t) \/ StartPromotion(t)
      BY <3>2, <2>2 DEF DetachEnv, EnterBlocking, StartGC, StartPromotion, MutatorPcs,
         ExecutorPcs
    <3>3. CASE EnterNestedGC(t)
      BY <3>3 DEF EnterNestedGC
    <3> QED
      BY <2>7, <3>1, <3>2, <3>3 DEF Request
  <2>8. CASE UNCHANGED vars
    BY <2>8 DEF vars
  <2> QED
    BY <2>6, <2>7, <2>8 DEF Next
<1> QED
  BY <1>1, <1>2, Invariance, PTL DEF Spec, ImplementsStopTheWorld, Abstract!Spec

=============================================================================
