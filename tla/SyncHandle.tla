----------------------------- MODULE SyncHandle -----------------------------
(***************************************************************************)
(* A synchronized handle of the thread library, api/api-thread.c: a value  *)
(* and a mutex, used by snapshotShared, updateShared and withLock.         *)
(*                                                                         *)
(* The value has two fields that programs keep equal.  updateShared        *)
(* replaces it as a whole, the callback of withLock writes it in place,    *)
(* and snapshotShared copies it field by field.  Any of them may run into  *)
(* a collection while it owns the mutex and others wait for it, and each   *)
(* may fail: a callback between its two writes too, and what it wrote      *)
(* stays.  The mutex is recursive, but a callback that uses its own handle *)
(* is not modelled.                                                        *)
(* mode and wants_gc are used as in ThreadApi.tla.                         *)
(***************************************************************************)

EXTENDS Integers, FiniteSets

CONSTANTS
  Threads,
  Lockers,       \* Threads whose program calls withLock,
  Updaters,      \* updateShared
  Snapshotters,  \* and snapshotShared.
  MaxCalls       \* Bound: calls of withLock and updateShared.

ASSUME SyncHandleAssumption ==
  /\ Lockers \cup Updaters \cup Snapshotters \subseteq Threads
  /\ MaxCalls \in Nat

VARIABLES
  mode,       \* What each thread may do with the heap.
  wants_gc,   \* Threads that have raised a request and wait for their section.
  pc,         \* Control point of each thread,
  call,       \* and the function it is in.
  mutex,      \* The threads that own the mutex: one or none, if it works.
  value,      \* The value,
  copy,       \* and each thread's own copy of it.
  ncalls,     \* Calls that write, so far.
  expected    \* Ghost: the value after the calls that have ended, one after another.

vars == <<mode, wants_gc, pc, call, mutex, value, copy, ncalls, expected>>

STW == INSTANCE StopTheWorld

Both(n) == [a |-> n, b |-> n]
NoCopy  == Both(-1)
Calls   == {"none", "withLock", "updateShared", "snapshotShared"}

(* run          script code that does not use the handle                   *)
(* lock_wait    blocked in the mutex                                       *)
(* locked ...   owner, until unlock is over                                *)
OwnerPcs == {"locked", "copying", "callback", "callback_b", "unlock"}
Pcs      == {"run", "lock_wait"} \cup OwnerPcs

(* Where a thread polls or allocates.                                      *)
SafePcs == {"run", "locked", "copying", "callback", "callback_b"}

Running(t) == mode[t] = "running"

Goto(t, from, to) ==
  /\ pc[t] = from
  /\ pc' = [pc EXCEPT ![t] = to]

(* createShared or createLocked has returned and the handle is shared.     *)
Init ==
  /\ mode = [t \in Threads |-> "running"]
  /\ wants_gc = {}
  /\ pc = [t \in Threads |-> "run"]
  /\ call = [t \in Threads |-> "none"]
  /\ mutex = {}
  /\ value = Both(0)
  /\ copy = [t \in Threads |-> NoCopy]
  /\ ncalls = 0
  /\ expected = Both(0)

-----------------------------------------------------------------------------
(* Safepoints.                                                             *)

Park(t) ==
  /\ wants_gc # {}
  /\ pc[t] \in SafePcs
  /\ STW!Yield(t)
  /\ UNCHANGED <<wants_gc, pc, call, mutex, value, copy, ncalls, expected>>

(* Variant: a thread that wakes up does not look for requests.             *)
ResumeEagerly(t) ==
  /\ pc[t] \in SafePcs
  /\ STW!Resume(t)
  /\ UNCHANGED <<wants_gc, pc, call, mutex, value, copy, ncalls, expected>>

Resume(t) ==
  /\ wants_gc = {}
  /\ pc[t] \in SafePcs
  /\ STW!Resume(t)
  /\ UNCHANGED <<wants_gc, pc, call, mutex, value, copy, ncalls, expected>>

RequestGC(t) ==
  /\ pc[t] \in SafePcs
  /\ STW!Yield(t)
  /\ wants_gc' = wants_gc \cup {t}
  /\ UNCHANGED <<pc, call, mutex, value, copy, ncalls, expected>>

Collect(t) ==
  /\ t \in wants_gc
  /\ STW!WorldStoppedFor(t)
  /\ wants_gc' = wants_gc \ {t}
  /\ UNCHANGED <<mode, pc, call, mutex, value, copy, ncalls, expected>>

-----------------------------------------------------------------------------
(* thr_mutex_lock_blocking and thr_mutex_unlock.                           *)

Block(t, function) ==
  /\ Goto(t, "run", "lock_wait")
  /\ STW!Yield(t)
  /\ call' = [call EXCEPT ![t] = function]
  /\ UNCHANGED <<wants_gc, mutex, value, copy, expected>>

BeginSnapshot(t) ==
  /\ t \in Snapshotters
  /\ Block(t, "snapshotShared")
  /\ UNCHANGED ncalls

BeginWrite(t) ==
  /\ ncalls < MaxCalls
  /\ \/ t \in Lockers /\ Block(t, "withLock")
     \/ t \in Updaters /\ Block(t, "updateShared")
  /\ ncalls' = ncalls + 1

(* External: pthread_mutex_lock.  The thread owns the mutex before it is   *)
(* back in the heap.                                                       *)
Lock(t) ==
  /\ mutex = {}
  /\ Goto(t, "lock_wait", "locked")
  /\ mutex' = {t}
  /\ UNCHANGED <<mode, wants_gc, call, value, copy, ncalls, expected>>

Unlock(t) ==
  /\ Goto(t, "unlock", "run")
  /\ mutex' = mutex \ {t}
  /\ copy' = [copy EXCEPT ![t] = NoCopy]
  /\ call' = [call EXCEPT ![t] = "none"]
  /\ UNCHANGED <<mode, wants_gc, value, ncalls, expected>>

-----------------------------------------------------------------------------
(* The functions, from "locked" to "unlock".                               *)

(* Any call that fails on the way goes on to give up the mutex: the value  *)
(* is not found or cannot be copied, or the callback fails, before its     *)
(* first write or between the two.                                         *)
Fail(t) ==
  /\ Running(t)
  /\ \E from \in OwnerPcs \ {"unlock"} : Goto(t, from, "unlock")
  /\ expected' = IF pc[t] = "callback_b" THEN [expected EXCEPT !.a = @ + 1] ELSE expected
  /\ UNCHANGED <<mode, wants_gc, call, mutex, value, copy, ncalls>>

(* A copy of the caller's own value, any other one, replaces the old one.  *)
Update(t) ==
  /\ Running(t) /\ call[t] = "updateShared"
  /\ Goto(t, "locked", "unlock")
  /\ value' = Both(10 * ncalls)
  /\ expected' = Both(10 * ncalls)
  /\ UNCHANGED <<mode, wants_gc, call, mutex, copy, ncalls>>

(* Variant: only the look-up of the value is under the mutex.              *)
CopyFirstUnlocked(t) ==
  /\ Running(t) /\ call[t] = "snapshotShared"
  /\ Goto(t, "locked", "copying")
  /\ copy' = [copy EXCEPT ![t].a = value.a]
  /\ mutex' = mutex \ {t}
  /\ UNCHANGED <<mode, wants_gc, call, value, ncalls, expected>>

CopyFirst(t) ==
  /\ Running(t) /\ call[t] = "snapshotShared"
  /\ Goto(t, "locked", "copying")
  /\ copy' = [copy EXCEPT ![t].a = value.a]
  /\ UNCHANGED <<mode, wants_gc, call, mutex, value, ncalls, expected>>

CopySecond(t) ==
  /\ Running(t)
  /\ Goto(t, "copying", "unlock")
  /\ copy' = [copy EXCEPT ![t].b = value.b]
  /\ UNCHANGED <<mode, wants_gc, call, mutex, value, ncalls, expected>>

(* Variant: the callback runs after the mutex was given up.                *)
CallbackReadsUnlocked(t) ==
  /\ Running(t) /\ call[t] = "withLock"
  /\ Goto(t, "locked", "callback")
  /\ copy' = [copy EXCEPT ![t].a = value.a]
  /\ mutex' = mutex \ {t}
  /\ UNCHANGED <<mode, wants_gc, call, value, ncalls, expected>>

(* A callback that increments the value: reads one field, writes both.     *)
CallbackReads(t) ==
  /\ Running(t) /\ call[t] = "withLock"
  /\ Goto(t, "locked", "callback")
  /\ copy' = [copy EXCEPT ![t].a = value.a]
  /\ UNCHANGED <<mode, wants_gc, call, mutex, value, ncalls, expected>>

CallbackWritesFirst(t) ==
  /\ Running(t)
  /\ Goto(t, "callback", "callback_b")
  /\ value' = [value EXCEPT !.a = copy[t].a + 1]
  /\ UNCHANGED <<mode, wants_gc, call, mutex, copy, ncalls, expected>>

CallbackWritesSecond(t) ==
  /\ Running(t)
  /\ Goto(t, "callback_b", "unlock")
  /\ value' = [value EXCEPT !.b = copy[t].a + 1]
  /\ expected' = Both(expected.a + 1)
  /\ UNCHANGED <<mode, wants_gc, call, mutex, copy, ncalls>>

-----------------------------------------------------------------------------

(* What the program or the allocator decides,                              *)
Choose(t) == RequestGC(t) \/ BeginSnapshot(t) \/ BeginWrite(t)

(* and what then goes on of itself.                                        *)
Advance(t) ==
  \/ Park(t) \/ Resume(t) \/ Collect(t) \/ Lock(t) \/ Unlock(t)
  \/ Fail(t) \/ Update(t) \/ CopyFirst(t) \/ CopySecond(t)
  \/ CallbackReads(t) \/ CallbackWritesFirst(t) \/ CallbackWritesSecond(t)

Next == \E t \in Threads : Choose(t) \/ Advance(t)

Spec == Init /\ [][Next]_vars

(* The platform schedules every thread that can run.                       *)
FairSpec == Spec /\ \A t \in Threads : WF_vars(Advance(t))

-----------------------------------------------------------------------------

TypeOK ==
  /\ mode \in [Threads -> {"out", "running"}]
  /\ wants_gc \subseteq Threads
  /\ pc \in [Threads -> Pcs]
  /\ call \in [Threads -> Calls]
  /\ mutex \subseteq Threads /\ Cardinality(mutex) <= 1
  /\ value \in [a : Nat, b : Nat]
  /\ copy \in [Threads -> [a : Int, b : Int]]
  /\ ncalls \in 0 .. MaxCalls
  /\ expected \in [a : Nat, b : Nat]

(* A snapshot is the value as one critical section left it and the next    *)
(* one found it: "A reader therefore never observes a half-written update" *)
(* (docs/library.md:234) of updateShared, nor one of a callback of         *)
(* withLock that is still running.  What a callback leaves half-written    *)
(* when it fails is such a value.                                          *)
SnapshotIsWhole ==
  \A t \in Threads :
    call[t] = "snapshotShared" /\ copy[t].b # NoCopy.b => copy[t] = expected

(* When nobody owns the mutex the value is what the calls left in it one   *)
(* after another: an update its copy, a callback its increment of what it  *)
(* found, a callback that failed its first write, the other failed calls   *)
(* nothing, whatever collections interrupted them.                         *)
NoLockedUpdateLost == mutex = {} => value = expected

(* "A thread waiting on a lock, a join or a sleep never stalls a           *)
(* collection running in another thread" (docs/library.md:193), not even   *)
(* when the thread that collects owns the mutex.                           *)
CollectionNeverStalls ==
  \A t \in Threads : t \in wants_gc ~> t \notin wants_gc

=============================================================================
