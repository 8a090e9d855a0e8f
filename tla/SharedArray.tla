----------------------------- MODULE SharedArray -----------------------------
(***************************************************************************)
(* One array of the object model in core/objectmodel-mt.c, accessed by     *)
(* several threads: thread-local fast path, promotion to shared, locked    *)
(* in-place writes, reads under the SeqLock, expansion by copy-publish     *)
(* through the "newer" link, and collections that move the array.          *)
(*                                                                         *)
(* Threads synchronize through StopTheWorld, which Safepoint implements: a *)
(* thread touches the array only while it is "running" and is "out" where  *)
(* the code polls or allocates (that it need not give way there adds no    *)
(* behaviour: it may resume at once).  A whole stop-the-world section is   *)
(* one step here: it begins when every other thread is out, and no thread  *)
(* resumes before it ends.                                                 *)
(*                                                                         *)
(* A value is two machine words, so that the store and the load of an      *)
(* element are two steps each; every other step is one atomic access or    *)
(* touches data that no other thread can reach.  Memory is sequentially    *)
(* consistent.  A "Variant" is the faulty form of the definition after it  *)
(* and no part of the specification.                                       *)
(***************************************************************************)

EXTENDS Integers, Sequences, FiniteSets

CONSTANTS
  Threads,       \* The environments that hold a reference to the array.
  Creator,       \* The one that made it.
  Readers,       \* Those whose program reads it,
  Writers,       \* and those whose program writes to it.
  Gens,          \* The places of the heap where a generation can be stored.
  StartSize,     \* The capacity om_make_array starts with (16 in the code).
  Indices,       \* The indices the threads access.
  MaxWrites      \* Bound: this many writes are started.

ASSUME ArrayAssumption ==
  /\ Creator \in Threads
  /\ Readers \subseteq Threads /\ Writers \subseteq Threads
  /\ IsFiniteSet(Threads)
  /\ IsFiniteSet(Gens) /\ Gens \subseteq Nat \ {0} /\ Gens # {}
  /\ StartSize \in Nat \ {0, 1}
  /\ Indices \subseteq Nat
  /\ MaxWrites \in Nat

VARIABLES
  gen,       \* The generations of the array.
  ref,       \* The generation that managed references (arr_val) point to.
  pc,        \* Control point of each thread.
  op,        \* The operation of each thread.
  arr,       \* Its local pointer to a generation.
  new,       \* Its new generation, not yet published,
  new_size,  \* and the capacity it asks for.
  seq1,      \* The SeqLock value its read began with.
  val,       \* The two words it has loaded.
  nwrites,   \* Writes begun: the n-th one stores the value n.
  history,   \* Ghost: the writes, in the order their second word was stored.
  seen       \* Ghost: Len(history) when the thread's read began.

threadVars == <<pc, op, arr, new, new_size, seq1, val>>
vars       == <<gen, ref, threadVars, nwrites, history, seen>>

NULL   == 0
Values == 0 .. MaxWrites                         \* 0 is the cleared slot.
Words  == [type : Values, val : Values]
Zero   == [type |-> 0, val |-> 0]
Ops    == [kind : {"none", "read", "write"}, index : Indices \cup {0}, value : Values]
NoOp   == [kind |-> "none", index |-> 0, value |-> 0]
Local  == -1                                     \* seq1 of a read without SeqLock.

(* out          idle; at a "retry:" label; waiting for the section that     *)
(*              promotes the array; inside the allocator                   *)
(* read         reading: SeqLock, two words, SeqLock                       *)
(* store        writing: two words, element count                          *)
(* locked       holding the write lock of arr                              *)
OutPcs      == {"idle", "retry", "promote", "alloc"}
ReadPcs     == {"seq_begin", "load_type", "load_val", "seq_end"}
StorePcs    == {"store_type", "store_val", "set_size"}
LockedPcs   == {"check_newer", "publish", "unlock_old", "unlock_retry", "unlock_done",
                "seq_odd", "seq_even"}
AccessPcs   == ReadPcs \cup StorePcs \cup LockedPcs \cup {"lock", "back_off"}
Pcs         == OutPcs \cup AccessPcs \cup {"done"}

mode == [t \in Threads |-> IF pc[t] \in OutPcs THEN "out" ELSE "running"]
STW  == INSTANCE StopTheWorld

(* A free place, and an array as rt_gc_alloc_array returns it to thread t. *)
Unused == [alloc_size |-> 0, size |-> 0, table |-> [i \in Indices |-> Zero],
           shared |-> FALSE, creator |-> Creator, write_lock |-> 0, seqlock |-> 0,
           newer |-> NULL]

NewArray(t, size) ==
  [Unused EXCEPT !.alloc_size = IF size < 2 THEN 2 ELSE size, !.creator = t]

Live == {g \in Gens : gen[g].alloc_size > 0}

(* The places an allocation or a move may take; which of the free ones it  *)
(* is makes no difference.                                                 *)
Free == LET free == Gens \ Live
        IN IF free = {} THEN {} ELSE {CHOOSE g \in free : TRUE}

(* The generations the links lead to from ref, and the one without a link, *)
(* where follow_array_pointer stops.                                       *)
Chain ==
  {g \in Gens : \A S \in SUBSET Gens :
     ref \in S /\ (\A h \in S : gen[h].newer # NULL => gen[h].newer \in S) => g \in S}

Newest == CHOOSE g \in Chain : gen[g].newer = NULL

Goto(t, from, to) ==
  /\ pc[t] = from
  /\ pc' = [pc EXCEPT ![t] = to]

-----------------------------------------------------------------------------

(* om_make_array, before any other thread can find the array.              *)
Init ==
  /\ ref = CHOOSE g \in Gens : TRUE
  /\ gen = [g \in Gens |-> IF g = ref THEN NewArray(Creator, StartSize) ELSE Unused]
  /\ pc = [t \in Threads |-> "idle"]
  /\ op = [t \in Threads |-> NoOp]
  /\ arr = [t \in Threads |-> NULL]
  /\ new = [t \in Threads |-> NULL]
  /\ new_size = [t \in Threads |-> 0]
  /\ seq1 = [t \in Threads |-> 0]
  /\ val = [t \in Threads |-> Zero]
  /\ nwrites = 0
  /\ history = << >>
  /\ seen = [t \in Threads |-> 0]

-----------------------------------------------------------------------------
(* Safepoints and stop-the-world sections.                                 *)

(* promote_array_to_shared, from the moment the world has stopped: another *)
(* thread may have promoted, expanded or moved the array in the meantime.  *)
Promote(t) ==
  /\ Goto(t, "promote", "retry")
  /\ STW!WorldStoppedFor(t)
  /\ gen' = [gen EXCEPT ![Newest].shared = TRUE]
  /\ arr' = [arr EXCEPT ![t] = NULL]
  /\ UNCHANGED <<ref, op, new, new_size, seq1, val, nwrites, history, seen>>

(* The first n elements; what lies behind them is cleared.                 *)
FirstElements(old, n) == [i \in Indices |-> IF i < n THEN old.table[i] ELSE Zero]

(* Variant: the copy is not locked for a thread that was expanding the     *)
(* array when the collection stopped it.                                   *)
MovedUnlocked(old) ==
  [NewArray(old.creator, IF old.size = 0 THEN old.alloc_size ELSE old.size)
     EXCEPT !.size = old.size, !.table = FirstElements(old, old.size), !.shared = old.shared,
            !.seqlock = old.seqlock]

(* The copy that a collection makes of an array: only "size" elements fit  *)
(* and are copied; the owner and the state of the locks are kept.          *)
Moved(old) ==
  [NewArray(old.creator, IF old.size = 0 THEN old.alloc_size ELSE old.size)
     EXCEPT !.size = old.size, !.table = FirstElements(old, old.size), !.shared = old.shared,
            !.write_lock = old.write_lock, !.seqlock = old.seqlock]

(* A collection: references are redirected to the newest generation and    *)
(* the superseded ones are reclaimed.  The newest one stays or slides as   *)
(* it is, or it is copied to another region.                               *)
Collect(t) ==
  /\ pc[t] \in {"idle", "retry", "alloc"}
  /\ STW!WorldStoppedFor(t)
  /\ \E g \in Free \cup {Newest}, array \in {gen[Newest], Moved(gen[Newest])} :
       /\ gen' = [h \in Gens |-> IF h = g THEN array ELSE Unused]
       /\ ref' = g
  /\ UNCHANGED <<threadVars, nwrites, history, seen>>

(* The operation is over: the thread forgets its pointers.                 *)
Return(t) ==
  /\ op' = [op EXCEPT ![t] = NoOp]
  /\ arr' = [arr EXCEPT ![t] = NULL]
  /\ new' = [new EXCEPT ![t] = NULL]
  /\ new_size' = [new_size EXCEPT ![t] = 0]
  /\ seq1' = [seq1 EXCEPT ![t] = 0]
  /\ val' = [val EXCEPT ![t] = Zero]
  /\ seen' = [seen EXCEPT ![t] = 0]

-----------------------------------------------------------------------------
(* start_array_read.                                                       *)

(* What a thread may be about to do: its pending operation, or a new one.  *)
Requests(t) ==
  CASE pc[t] = "retry" -> {op[t]}
    [] pc[t] = "idle"  ->
         {[kind |-> "read", index |-> i, value |-> 0] :
            i \in IF t \in Readers THEN Indices ELSE {}} \cup
         {[kind |-> "write", index |-> i, value |-> nwrites + 1] :
            i \in IF t \in Writers /\ nwrites < MaxWrites THEN Indices ELSE {}}
    [] OTHER           -> {}

Begin(t, o) ==
  /\ op' = [op EXCEPT ![t] = o]
  /\ seen' = IF pc[t] = "idle" THEN [seen EXCEPT ![t] = Len(history)] ELSE seen
  /\ nwrites' = IF pc[t] = "idle" /\ o.kind = "write" THEN nwrites + 1 ELSE nwrites
  /\ arr' = [arr EXCEPT ![t] = Newest]

(* Variant: every thread takes itself for the creator.                     *)
MayAccessAlways(t) == TRUE

MayAccess(t) == gen[Newest].shared \/ gen[Newest].creator = t
InRange(o)   == o.index < gen[Newest].alloc_size

(* A thread-local array of another thread: this one waits for its          *)
(* stop-the-world section.                                                 *)
StartPromotion(t) ==
  /\ ~MayAccess(t)
  /\ \E o \in Requests(t) : Begin(t, o)
  /\ pc' = [pc EXCEPT ![t] = "promote"]
  /\ UNCHANGED <<gen, ref, new, new_size, seq1, val, history>>

(* The range check and the choice of the fast path are part of the start:  *)
(* a generation's capacity and whether it is shared do not change while    *)
(* the thread is running.                                                  *)
StartRead(t) ==
  /\ MayAccess(t)
  /\ \E o \in Requests(t) : o.kind = "read" /\ InRange(o) /\ Begin(t, o)
  /\ pc' = [pc EXCEPT ![t] = IF gen[Newest].shared THEN "seq_begin" ELSE "load_type"]
  /\ seq1' = [seq1 EXCEPT ![t] = IF gen[Newest].shared THEN 0 ELSE Local]
  /\ UNCHANGED <<gen, ref, new, new_size, val, history>>

ReadOutOfRange(t) ==
  /\ MayAccess(t)
  /\ \E o \in Requests(t) : o.kind = "read" /\ ~InRange(o)
  /\ pc' = [pc EXCEPT ![t] = "idle"]
  /\ Return(t)
  /\ UNCHANGED <<gen, ref, nwrites, history>>

(* The lock is not needed only to write in place to a thread-local array;  *)
(* expand_array takes it even there.                                       *)
StartWrite(t) ==
  /\ MayAccess(t)
  /\ \E o \in Requests(t) :
       /\ o.kind = "write"
       /\ Begin(t, o)
       /\ pc' = [pc EXCEPT ![t] = IF InRange(o) /\ ~gen[Newest].shared
                                  THEN "store_type" ELSE "lock"]
  /\ UNCHANGED <<gen, ref, new, new_size, seq1, val, history>>

-----------------------------------------------------------------------------
(* om_read_array.                                                          *)

(* An odd SeqLock sends the reader around its loop.                        *)
SeqBegin(t) ==
  LET seq == gen[arr[t]].seqlock IN
  /\ Goto(t, "seq_begin", "load_type")
  /\ seq % 2 = 0
  /\ seq1' = [seq1 EXCEPT ![t] = seq]
  /\ UNCHANGED <<gen, ref, op, arr, new, new_size, val, nwrites, history, seen>>

LoadType(t) ==
  /\ Goto(t, "load_type", "load_val")
  /\ val' = [val EXCEPT ![t].type = gen[arr[t]].table[op[t].index].type]
  /\ UNCHANGED <<gen, ref, op, arr, new, new_size, seq1, nwrites, history, seen>>

LoadVal(t) ==
  /\ Goto(t, "load_val", IF seq1[t] = Local THEN "done" ELSE "seq_end")
  /\ val' = [val EXCEPT ![t].val = gen[arr[t]].table[op[t].index].val]
  /\ UNCHANGED <<gen, ref, op, arr, new, new_size, seq1, nwrites, history, seen>>

(* Variant: only an odd SeqLock makes the reader retry.                    *)
SeqEndEven(t) ==
  /\ Goto(t, "seq_end", IF gen[arr[t]].seqlock % 2 = 0 THEN "done" ELSE "seq_begin")
  /\ UNCHANGED <<gen, ref, op, arr, new, new_size, seq1, val, nwrites, history, seen>>

SeqEnd(t) ==
  /\ Goto(t, "seq_end", IF gen[arr[t]].seqlock = seq1[t] THEN "done" ELSE "seq_begin")
  /\ UNCHANGED <<gen, ref, op, arr, new, new_size, seq1, val, nwrites, history, seen>>

FinishRead(t) ==
  /\ Goto(t, "done", "idle")
  /\ Return(t)
  /\ UNCHANGED <<gen, ref, nwrites, history>>

-----------------------------------------------------------------------------
(* om_write_array.                                                         *)

(* add_try_array_write_lock: a loser adds too, then takes it back.         *)
TryLock(t) ==
  /\ Goto(t, "lock", IF gen[arr[t]].write_lock = 0 THEN "check_newer" ELSE "back_off")
  /\ gen' = [gen EXCEPT ![arr[t]].write_lock = @ + 1]
  /\ UNCHANGED <<ref, op, arr, new, new_size, seq1, val, nwrites, history, seen>>

Unlock(t, from, to) ==
  /\ Goto(t, from, to)
  /\ gen' = [gen EXCEPT ![arr[t]].write_lock = @ - 1]

BackOff(t) ==
  /\ Unlock(t, "back_off", "retry")
  /\ arr' = [arr EXCEPT ![t] = NULL]
  /\ UNCHANGED <<ref, op, new, new_size, seq1, val, nwrites, history, seen>>

(* The capacity doubles until it is at least half the index; a write that  *)
(* still does not fit comes back.  om_write_array computes it before it    *)
(* takes the lock; the capacity does not change in between.                *)
NewSize(alloc_size, index) ==
  LET double[n \in Nat] == IF index > n * 2 THEN double[n * 2] ELSE n
  IN double[alloc_size * 2]

(* The stale generation check of om_write_array and of expand_array.       *)
CheckNewer(t) ==
  LET a == gen[arr[t]]
      expand == a.newer = NULL /\ op[t].index >= a.alloc_size
  IN
  /\ Goto(t, "check_newer", IF a.newer # NULL THEN "unlock_retry"
                            ELSE IF expand THEN "alloc" ELSE "seq_odd")
  /\ new_size' = IF expand THEN [new_size EXCEPT ![t] = NewSize(a.alloc_size, op[t].index)]
                 ELSE new_size
  /\ UNCHANGED <<gen, ref, op, arr, new, seq1, val, nwrites, history, seen>>

SeqOdd(t) ==
  /\ Goto(t, "seq_odd", "store_type")
  /\ gen' = [gen EXCEPT ![arr[t]].seqlock = @ + 1]
  /\ UNCHANGED <<ref, op, arr, new, new_size, seq1, val, nwrites, history, seen>>

StoreType(t) ==
  /\ Goto(t, "store_type", "store_val")
  /\ gen' = [gen EXCEPT ![arr[t]].table[op[t].index].type = op[t].value]
  /\ UNCHANGED <<ref, op, arr, new, new_size, seq1, val, nwrites, history, seen>>

StoreVal(t) ==
  /\ Goto(t, "store_val", IF gen[arr[t]].shared THEN "seq_even" ELSE "set_size")
  /\ gen' = [gen EXCEPT ![arr[t]].table[op[t].index].val = op[t].value]
  /\ history' = Append(history, [index |-> op[t].index, value |-> op[t].value])
  /\ UNCHANGED <<ref, op, arr, new, new_size, seq1, val, nwrites, seen>>

SeqEven(t) ==
  /\ Goto(t, "seq_even", "set_size")
  /\ gen' = [gen EXCEPT ![arr[t]].seqlock = @ + 1]
  /\ UNCHANGED <<ref, op, arr, new, new_size, seq1, val, nwrites, history, seen>>

(* Variant: the element count is not raised to cover the element.          *)
SetSizeOff(t) ==
  /\ pc[t] = "set_size"
  /\ gen' = [gen EXCEPT ![arr[t]].size = IF op[t].index > @ THEN op[t].index + 1 ELSE @]
  /\ pc' = [pc EXCEPT ![t] = IF gen[arr[t]].shared THEN "unlock_done" ELSE "idle"]
  /\ IF gen[arr[t]].shared THEN UNCHANGED <<op, arr, new, new_size, seq1, val, seen>> ELSE Return(t)
  /\ UNCHANGED <<ref, nwrites, history>>

SetSize(t) ==
  /\ pc[t] = "set_size"
  /\ gen' = [gen EXCEPT ![arr[t]].size = IF op[t].index >= @ THEN op[t].index + 1 ELSE @]
  /\ pc' = [pc EXCEPT ![t] = IF gen[arr[t]].shared THEN "unlock_done" ELSE "idle"]
  /\ IF gen[arr[t]].shared THEN UNCHANGED <<op, arr, new, new_size, seq1, val, seen>> ELSE Return(t)
  /\ UNCHANGED <<ref, nwrites, history>>

UnlockRetry(t) ==
  /\ Unlock(t, "unlock_retry", "retry")
  /\ arr' = [arr EXCEPT ![t] = NULL]
  /\ new' = [new EXCEPT ![t] = NULL]
  /\ new_size' = [new_size EXCEPT ![t] = 0]
  /\ UNCHANGED <<ref, op, seq1, val, nwrites, history, seen>>

UnlockDone(t) ==
  /\ Unlock(t, "unlock_done", "idle")
  /\ Return(t)
  /\ UNCHANGED <<ref, nwrites, history>>

-----------------------------------------------------------------------------
(* expand_array, once the lock is held.                                    *)

(* The elements that a copy of that capacity keeps.                        *)
Kept(old, size) == IF old.size >= size THEN size ELSE old.size

(* The elements are copied, the ownership carried over, and the new        *)
(* generation locked, before anyone can find it.                           *)
Expanded(t, old, size) ==
  [NewArray(t, size) EXCEPT !.size = Kept(old, size), !.table = FirstElements(old, Kept(old, size)),
                            !.shared = old.shared, !.creator = old.creator,
                            !.write_lock = 1]

(* The array may have been moved while the thread was allocating, to a     *)
(* place with less room than it had when the new capacity was computed.    *)
Refollowed(t) == Newest

(* The allocation succeeded.  No other thread can write to the old         *)
(* generation, whose lock is held, so the copy is one step.                *)
AllocAndCopy(t) ==
  LET old == gen[Refollowed(t)] IN
  /\ Goto(t, "alloc", "publish")
  /\ arr' = [arr EXCEPT ![t] = Refollowed(t)]
  /\ \E g \in Free :
       /\ gen' = [gen EXCEPT ![g] = Expanded(t, old, new_size[t])]
       /\ new' = [new EXCEPT ![t] = g]
  /\ UNCHANGED <<ref, op, new_size, seq1, val, nwrites, history, seen>>

(* Variant: the pointer from before the allocation is used to unlock.      *)
AllocFailsStale(t) ==
  /\ Goto(t, "alloc", "unlock_done")
  /\ UNCHANGED <<gen, ref, op, arr, new, new_size, seq1, val, nwrites, history, seen>>

AllocFails(t) ==
  /\ Goto(t, "alloc", "unlock_done")
  /\ arr' = [arr EXCEPT ![t] = Refollowed(t)]
  /\ UNCHANGED <<gen, ref, op, new, new_size, seq1, val, nwrites, history, seen>>

Publish(t) ==
  /\ Goto(t, "publish", "unlock_old")
  /\ gen' = [gen EXCEPT ![arr[t]].newer = new[t]]
  /\ UNCHANGED <<ref, op, arr, new, new_size, seq1, val, nwrites, history, seen>>

(* The old generation first, then the new one.                             *)
UnlockOld(t) ==
  /\ Unlock(t, "unlock_old", "unlock_retry")
  /\ arr' = [arr EXCEPT ![t] = new[t]]
  /\ UNCHANGED <<ref, op, new, new_size, seq1, val, nwrites, history, seen>>

-----------------------------------------------------------------------------

Step(t) ==
  \/ Promote(t) \/ Collect(t)
  \/ StartPromotion(t) \/ StartRead(t) \/ ReadOutOfRange(t) \/ SeqBegin(t)
  \/ LoadType(t) \/ LoadVal(t) \/ SeqEnd(t) \/ FinishRead(t)
  \/ StartWrite(t) \/ TryLock(t) \/ BackOff(t) \/ CheckNewer(t)
  \/ SeqOdd(t) \/ StoreType(t) \/ StoreVal(t) \/ SeqEven(t) \/ SetSize(t)
  \/ UnlockRetry(t) \/ UnlockDone(t)
  \/ AllocAndCopy(t) \/ AllocFails(t) \/ Publish(t) \/ UnlockOld(t)

Next == \E t \in Threads : Step(t)

Spec == Init /\ [][Next]_vars

-----------------------------------------------------------------------------

Generation ==
  [alloc_size : Nat, size : Nat, table : [Indices -> Words], shared : BOOLEAN,
   creator : Threads, write_lock : Nat, seqlock : Nat, newer : Gens \cup {NULL}]

TypeOK ==
  /\ gen \in [Gens -> Generation]
  /\ ref \in Live
  /\ pc \in [Threads -> Pcs]
  /\ op \in [Threads -> Ops]
  /\ arr \in [Threads -> Gens \cup {NULL}]
  /\ new \in [Threads -> Gens \cup {NULL}]
  /\ new_size \in [Threads -> Nat]
  /\ seq1 \in [Threads -> Nat \cup {Local}]
  /\ val \in [Threads -> Words]
  /\ nwrites \in Values
  /\ history \in Seq([index : Indices, value : Values])
  /\ seen \in [Threads -> Nat]

(* The values the writes in w, a sequence, left at index i: the last one,  *)
(* or the cleared slot's.                                                  *)
LastWrite(w, i) ==
  LET at == {k \in DOMAIN w : w[k].index = i}
  IN IF at = {} THEN 0 ELSE w[CHOOSE k \in at : \A l \in at : l <= k].value

(* Expansion, promotion, races between writers and collections, which copy *)
(* only "size" elements to an array with no more room than that, lose no   *)
(* write: the newest generation holds at each index the last value stored  *)
(* there (between the two words of a writer, in the second word) and has   *)
(* room for every index ever written, so that a read does not find it out  *)
(* of range.                                                               *)
NoLostUpdate ==
  /\ \A i \in Indices : gen[Newest].table[i].val = LastWrite(history, i)
  /\ \A k \in DOMAIN history : history[k].index < gen[Newest].alloc_size

(* A read returns both words of one write, and none that a write completed *)
(* before the read began had replaced.                                     *)
ReadReturnsCurrent ==
  \A t \in Threads : pc[t] = "done" /\ op[t].kind = "read" =>
    /\ val[t].type = val[t].val
    /\ \E k \in seen[t] .. Len(history) :
         val[t].val = LastWrite(SubSeq(history, 1, k), op[t].index)

(* A thread on the path without lock and SeqLock is alone: nobody else is  *)
(* accessing any generation ("After the shared flag is published, no       *)
(* thread may use the thread-local fast path", objectmodel-mt.c:1524).     *)
OnFastPath(t) ==
  \/ pc[t] \in {"load_type", "load_val"} /\ seq1[t] = Local
  \/ pc[t] \in StorePcs /\ ~gen[arr[t]].shared

FastPathIsExclusive ==
  \A t, u \in Threads : OnFastPath(t) /\ u # t => pc[u] \notin AccessPcs

(* A pointer a running thread uses points to the current generation or to  *)
(* one it supersedes, never to storage a collection reclaimed.             *)
NoFreedAccess ==
  \A t \in Threads :
    /\ pc[t] \in AccessPcs => arr[t] \in Live
    /\ pc[t] \in {"publish", "unlock_old"} => new[t] \in Live

(* The collector scans the first "size" elements (gc.c): every element     *)
(* written is among them whenever a collection can happen.                 *)
SizeCoversWrites ==
  (\A t \in Threads : mode[t] = "out") =>
    \A k \in DOMAIN history : history[k].index < gen[Newest].size

=============================================================================
