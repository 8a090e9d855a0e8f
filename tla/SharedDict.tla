----------------------------- MODULE SharedDict -----------------------------
(***************************************************************************)
(* One dictionary of the object model in core/objectmodel-mt.c: an open    *)
(* addressing hash table that several threads read, write, erase from,     *)
(* freeze and expand.                                                      *)
(*                                                                         *)
(* Ownership, write lock, copy-publish and stop-the-world sections are     *)
(* those of SharedArray.tla.  What is new is the table.  A slot has a key  *)
(* of two words: its type says EMPTY, TOMBSTONE or STRING and publishes    *)
(* the entry; its second word is the string.  Readers probe without a      *)
(* lock, one load at a time, while a writer inserts, updates or erases.    *)
(* The value of a slot is read and stored under the SeqLock, which         *)
(* SharedArray.tla shows to be atomic: it is one step here.                *)
(*                                                                         *)
(* The dictionary is a handle: it carries a native control block, which a  *)
(* collection that reclaims it finalizes.  "Variant" is used as in         *)
(* Safepoint.tla.                                                          *)
(***************************************************************************)

EXTENDS Integers, Sequences, FiniteSets

CONSTANTS
  Threads,       \* The environments that hold a reference to the dictionary.
  Creator,       \* The one that made it.
  Readers,       \* Those whose program reads it,
  Writers,       \* writes to it,
  Erasers,       \* erases from it,
  Freezers,      \* freezes it,
  HandleUsers,   \* and passes it to a native function as a handle.
  Keys,          \* The keys, and the hash of each:
  Hash,          \* keys with equal hash modulo the capacity collide.
  Gens,          \* The places of the heap where a generation can be stored.
  StartSize,     \* The capacity om_make_dict starts with (16 in the code).
  MaxSize,       \* Bound: no dictionary gets a capacity above this one.
  Preloaded,     \* Keys the creator has inserted so far, in that order.
  MaxOps         \* Bound: writes and erasures, the preloaded ones included.

NoKey == "no key"              \* In a slot that has never had a key.

ASSUME DictAssumption ==
  /\ Creator \in Threads
  /\ Readers \cup Writers \cup Erasers \cup Freezers \cup HandleUsers
       \subseteq Threads
  /\ Hash \in [Keys -> Nat]
  /\ IsFiniteSet(Gens) /\ Gens \subseteq Nat \ {0} /\ Gens # {}
  /\ IsFiniteSet(Threads)
  /\ NoKey \notin Keys
  /\ StartSize \in Nat \ {0} /\ MaxSize \in Nat /\ StartSize <= MaxSize
  /\ Preloaded \in Seq(Keys) /\ \A m, n \in DOMAIN Preloaded : Preloaded[m] = Preloaded[n] => m = n
  /\ Len(Preloaded) <= (StartSize \div 4) * 3
  /\ MaxOps \in Nat /\ Len(Preloaded) <= MaxOps

VARIABLES
  gen,       \* The generations of the dictionary.
  ref,       \* The generation that managed references (dict_val) point to.
  pc,        \* Control point of each thread.
  op,        \* The operation of each thread.
  dict,      \* Its local pointer to a generation.
  new,       \* Its new generation, not yet published.
  at,        \* The slot it writes, or the number of slots it has probed.
  result,    \* What its read has found.
  nops,      \* Writes and erasures begun: the n-th one stores the value n.
  entries,   \* Ghost: what each key is bound to.
  seen,      \* Ghost: what a read may return, see ReadReturnsCurrent,
  raced      \* and whether its key was erased meanwhile.

threadVars == <<pc, op, dict, new, at, result>>
ghosts     == <<entries, seen, raced>>
vars       == <<gen, ref, threadVars, nops, ghosts>>

NULL    == 0
Cleared == 0                       \* The value an erasure stores.
Absent  == -1                      \* Of a key that is not in the dictionary.
Values  == 0 .. MaxOps
ControlBlock == 1                  \* The result of finding the native pointer.
Slots   == 0 .. MaxSize - 1
NoOp    == [kind |-> "none", key |-> NoKey, value |-> Cleared]

(* out          idle; at a "retry:" label; waiting for the section that    *)
(*              promotes the dictionary; inside the allocator              *)
(* probe...     reading: key type, key string, value; the native pointer   *)
(* search       an owner or lock holder looks for its slot, then stores    *)
(* check_newer  holding the write lock of dict                             *)
OutPcs    == {"idle", "retry", "promote", "alloc"}
ReadPcs   == {"probe", "probe_str", "read_value", "read_native"}
StorePcs  == {"store_value", "store_key", "publish_key", "erase_key"}
LockedPcs == {"check_newer", "expand_check", "publish", "unlock_old", "unlock_retry",
              "unlock_expand", "unlock_done", "back_off",
              "freeze_check", "freeze_unlock", "freeze_back_off"}
AccessPcs == ReadPcs \cup StorePcs \cup LockedPcs \cup
             {"search", "lock", "expand_lock", "freeze_lock", "freeze_store"}
Pcs       == OutPcs \cup AccessPcs \cup {"done"}

mode == [t \in Threads |-> IF pc[t] \in OutPcs THEN "out" ELSE "running"]
STW  == INSTANCE StopTheWorld

Goto(t, from, to) ==
  /\ pc[t] = from
  /\ pc' = [pc EXCEPT ![t] = to]

-----------------------------------------------------------------------------
(* The hash table.                                                         *)

EmptySlot == [type |-> "EMPTY", str |-> NoKey]

(* A free place, and a dictionary as rt_gc_alloc_dict returns it to t.     *)
Unused == [alloc_size |-> 0, size |-> 0, key |-> [i \in Slots |-> EmptySlot],
           value |-> [i \in Slots |-> Cleared], shared |-> FALSE, creator |-> Creator,
           write_lock |-> 0, newer |-> NULL, is_frozen |-> FALSE, native |-> FALSE]

NewDict(t, size) == [Unused EXCEPT !.alloc_size = size, !.creator = t]

(* The slot probed n-th for key k.                                         *)
Slot(d, k, n) == (Hash[k] + n) % d.alloc_size

Probes(d) == 0 .. d.alloc_size - 1

First(S) == CHOOSE n \in S : \A m \in S : n <= m

Occupied(d, i, k) == d.key[i].type = "STRING" /\ d.key[i].str = k

(* A probe ends at the key or at an empty slot; tombstones do not end it.  *)
Stops(d, k) ==
  {n \in Probes(d) : LET i == Slot(d, k, n) IN d.key[i].type = "EMPTY" \/ Occupied(d, i, k)}

Tombstones(d, k) ==
  {n \in Probes(d) : /\ d.key[Slot(d, k, n)].type = "TOMBSTONE"
                     /\ \A m \in Stops(d, k) : n < m}

Found(d, k) == Stops(d, k) # {} /\ Occupied(d, Slot(d, k, First(Stops(d, k))), k)

(* Where k is to be written: at its own slot, else at the first tombstone  *)
(* of its probe, else at the empty slot that ended it; nowhere when the    *)
(* table is full.                                                          *)
Targets(d, k) ==
  LET free == IF ~Found(d, k) /\ Tombstones(d, k) # {} THEN Tombstones(d, k) ELSE Stops(d, k)
  IN IF free = {} THEN {} ELSE {Slot(d, k, First(free))}

(* A rehash tries one slot less than a lookup.                             *)
Vacancies(d, k) == {n \in 0 .. d.alloc_size - 2 : d.key[Slot(d, k, n)].type = "EMPTY"}

(* Binding k to v in a fresh table, by its only user; an entry that finds  *)
(* no vacancy is dropped.                                                  *)
Bind(d, k, v) ==
  LET i == Slot(d, k, First(Vacancies(d, k)))
  IN IF Vacancies(d, k) = {} THEN d
     ELSE [d EXCEPT !.key[i] = [type |-> "STRING", str |-> k], !.value[i] = v]

(* The entries of old, slot by slot, in the fresh table d.                 *)
Rehash(d, old) ==
  LET rehash[n \in 0 .. old.alloc_size] ==
        IF n = 0 THEN d
        ELSE IF old.key[n - 1].type = "STRING"
             THEN Bind(rehash[n - 1], old.key[n - 1].str, old.value[n - 1])
             ELSE rehash[n - 1]
  IN [rehash[old.alloc_size] EXCEPT !.size = old.size]

(* Three quarters of the capacity, in the code's integer arithmetic.       *)
IsFull(d) == d.size >= (d.alloc_size \div 4) * 3

-----------------------------------------------------------------------------
(* Generations.                                                            *)

Live == {g \in Gens : gen[g].alloc_size > 0}

(* The place an allocation or a move takes: which one makes no difference. *)
Free == LET free == Gens \ Live
        IN IF free = {} THEN {} ELSE {CHOOSE g \in free : TRUE}

(* The generations the links lead to from ref, and the one without a link, *)
(* where follow_dict_pointer stops.                                        *)
Chain ==
  {g \in Gens : \A S \in SUBSET Gens :
     ref \in S /\ (\A h \in S : gen[h].newer # NULL => gen[h].newer \in S) => g \in S}

Newest == CHOOSE g \in Chain : gen[g].newer = NULL

(* om_make_dict, the control block and the creator's insertions so far: no *)
(* other thread has found the dictionary yet.                              *)
Init ==
  /\ ref = CHOOSE g \in Gens : TRUE
  /\ LET fill[n \in 0 .. Len(Preloaded)] ==
           IF n = 0 THEN NewDict(Creator, StartSize)
           ELSE [Bind(fill[n - 1], Preloaded[n], n) EXCEPT !.size = n]
         handle == [fill[Len(Preloaded)] EXCEPT !.native = TRUE]
     IN gen = [g \in Gens |-> IF g = ref THEN handle ELSE Unused]
  /\ pc = [t \in Threads |-> "idle"]
  /\ op = [t \in Threads |-> NoOp]
  /\ dict = [t \in Threads |-> NULL]
  /\ new = [t \in Threads |-> NULL]
  /\ at = [t \in Threads |-> 0]
  /\ result = [t \in Threads |-> Absent]
  /\ nops = Len(Preloaded)
  /\ entries = [k \in Keys |-> IF \E n \in DOMAIN Preloaded : Preloaded[n] = k
                               THEN CHOOSE n \in DOMAIN Preloaded : Preloaded[n] = k
                               ELSE Absent]
  /\ seen = [t \in Threads |-> {}]
  /\ raced = [t \in Threads |-> FALSE]

(* The operation is over: the thread forgets its pointers.                 *)
Return(t) ==
  /\ op' = [op EXCEPT ![t] = NoOp]
  /\ dict' = [dict EXCEPT ![t] = NULL]
  /\ new' = [new EXCEPT ![t] = NULL]
  /\ at' = [at EXCEPT ![t] = 0]

(* The end of a write, an erasure or a freeze, unlocking if it was locked. *)
Finish(t) ==
  IF gen[dict[t]].shared
  THEN pc' = [pc EXCEPT ![t] = "unlock_done"] /\ UNCHANGED <<op, dict, new, at>>
  ELSE pc' = [pc EXCEPT ![t] = "idle"] /\ Return(t)

-----------------------------------------------------------------------------
(* Stop-the-world sections, one step each.                                 *)

(* promote_dict_to_shared, from the moment the world has stopped.          *)
Promote(t) ==
  /\ Goto(t, "promote", "retry")
  /\ STW!WorldStoppedFor(t)
  /\ gen' = [gen EXCEPT ![Newest].shared = TRUE]
  /\ UNCHANGED <<ref, op, dict, new, at, result, nops, ghosts>>

(* A dictionary that is promoted to the tenured region is rehashed, which  *)
(* drops the tombstones; any other move keeps the layout.                  *)
Moved(d) ==
  {d, [d EXCEPT !.key = Rehash(NewDict(d.creator, d.alloc_size), d).key,
                !.value = Rehash(NewDict(d.creator, d.alloc_size), d).value]}

(* A collection redirects references to the newest generation, reclaims    *)
(* the superseded ones, and may move the newest one.                       *)
Collect(t) ==
  /\ pc[t] \in {"idle", "retry", "alloc"}
  /\ STW!WorldStoppedFor(t)
  /\ \E g \in Free \cup {Newest} :
       \E d \in IF g = Newest THEN {gen[g]} ELSE Moved(gen[Newest]) :
         /\ gen' = [h \in Gens |-> IF h = g THEN d ELSE Unused]
         /\ ref' = g
  /\ UNCHANGED <<threadVars, nops, ghosts>>

-----------------------------------------------------------------------------
(* The start of an operation.                                              *)

(* Values that writes of k under way may already have made visible.        *)
InProgress(k) ==
  {op[u].value : u \in {u \in Threads : op[u].key = k /\ pc[u] \in {"store_key", "publish_key"}}}

BeingErased(k) == \E u \in Threads : pc[u] = "erase_key" /\ op[u].key = k

StartRead(t) ==
  /\ t \in Readers
  /\ Goto(t, "idle", "retry")
  /\ \E k \in Keys :
       /\ op' = [op EXCEPT ![t] = [kind |-> "read", key |-> k, value |-> Cleared]]
       /\ seen' = [seen EXCEPT ![t] = {entries[k]} \cup InProgress(k)]
       /\ raced' = [raced EXCEPT ![t] = BeingErased(k)]
  /\ UNCHANGED <<gen, ref, dict, new, at, result, nops, entries>>

(* The check for a frozen dictionary, without a lock and before the        *)
(* safepoint: a dictionary found frozen is an error and changes nothing.   *)
StartUpdate(t, kind) ==
  /\ nops < MaxOps
  /\ ~gen[Newest].is_frozen
  /\ Goto(t, "idle", "retry")
  /\ \E k \in Keys :
       op' = [op EXCEPT ![t] = [kind |-> kind, key |-> k,
                                value |-> IF kind = "write" THEN nops + 1 ELSE Cleared]]
  /\ nops' = nops + 1
  /\ UNCHANGED <<gen, ref, dict, new, at, result, ghosts>>

StartWrite(t) == t \in Writers /\ StartUpdate(t, "write")
StartErase(t) == t \in Erasers /\ StartUpdate(t, "erase")

(* start_dict_read: a thread-local dictionary of another thread waits for  *)
(* a section, else the newest generation is accessed, without the lock by  *)
(* readers and by the owner.                                               *)
MayAccess(t) == gen[Newest].shared \/ gen[Newest].creator = t

StartPromotion(t) ==
  /\ ~MayAccess(t)
  /\ Goto(t, "retry", "promote")
  /\ UNCHANGED <<gen, ref, op, dict, new, at, result, nops, ghosts>>

BeginAccess(t) ==
  /\ MayAccess(t)
  /\ Goto(t, "retry", IF op[t].kind = "read" THEN "probe"
                      ELSE IF gen[Newest].shared THEN "lock" ELSE "search")
  /\ dict' = [dict EXCEPT ![t] = Newest]
  /\ UNCHANGED <<gen, ref, op, new, at, result, nops, ghosts>>

-----------------------------------------------------------------------------
(* om_read_dict_with_hash.                                                 *)

(* The next slot, or the end of the probe.                                 *)
NextProbe(t) ==
  /\ at' = [at EXCEPT ![t] = @ + 1]
  /\ pc' = [pc EXCEPT ![t] = IF at[t] + 1 < gen[dict[t]].alloc_size THEN "probe" ELSE "done"]

ProbedKey(t) == gen[dict[t]].key[Slot(gen[dict[t]], op[t].key, at[t])]

(* Variant: a tombstone ends the probe.                                    *)
LoadKeyTypeStopsAtTombstone(t) ==
  LET type == ProbedKey(t).type IN
  /\ Goto(t, "probe", IF type = "STRING" THEN "probe_str" ELSE "done")
  /\ UNCHANGED <<gen, ref, op, dict, new, at, result, nops, ghosts>>

LoadKeyType(t) ==
  LET type == ProbedKey(t).type IN
  /\ pc[t] = "probe"
  /\ IF type = "TOMBSTONE" THEN NextProbe(t)
     ELSE /\ Goto(t, "probe", IF type = "STRING" THEN "probe_str" ELSE "done")
          /\ UNCHANGED at
  /\ UNCHANGED <<gen, ref, op, dict, new, result, nops, ghosts>>

LoadKeyStr(t) ==
  /\ pc[t] = "probe_str"
  /\ IF ProbedKey(t).str = op[t].key
     THEN Goto(t, "probe_str", "read_value") /\ UNCHANGED at
     ELSE NextProbe(t)
  /\ UNCHANGED <<gen, ref, op, dict, new, result, nops, ghosts>>

ReadValue(t) ==
  LET d == gen[dict[t]] IN
  /\ Goto(t, "read_value", "done")
  /\ result' = [result EXCEPT ![t] = d.value[Slot(d, op[t].key, at[t])]]
  /\ UNCHANGED <<gen, ref, op, dict, new, at, nops, ghosts>>

(* rt_get_dict_native_pointer: follows the links, promotes nothing, and    *)
(* loads the pointer without a lock.                                       *)
StartHandleUse(t) ==
  /\ t \in HandleUsers
  /\ Goto(t, "idle", "read_native")
  /\ op' = [op EXCEPT ![t].kind = "native"]
  /\ dict' = [dict EXCEPT ![t] = Newest]
  /\ UNCHANGED <<gen, ref, new, at, result, nops, ghosts>>

ReadNative(t) ==
  /\ Goto(t, "read_native", "done")
  /\ result' = [result EXCEPT ![t] = IF gen[dict[t]].native THEN ControlBlock ELSE Absent]
  /\ UNCHANGED <<gen, ref, op, dict, new, at, nops, ghosts>>

FinishRead(t) ==
  /\ Goto(t, "done", "idle")
  /\ Return(t)
  /\ result' = [result EXCEPT ![t] = Absent]
  /\ seen' = [seen EXCEPT ![t] = {}]
  /\ raced' = [raced EXCEPT ![t] = FALSE]
  /\ UNCHANGED <<gen, ref, nops, entries>>

-----------------------------------------------------------------------------
(* om_write_dict and om_erase_dict_entry.                                  *)

(* add_try_dict_write_lock: a loser adds too, then takes it back.          *)
TryLockFor(t, from, got, lost) ==
  /\ Goto(t, from, IF gen[dict[t]].write_lock = 0 THEN got ELSE lost)
  /\ gen' = [gen EXCEPT ![dict[t]].write_lock = @ + 1]
  /\ UNCHANGED <<ref, op, dict, new, at, result, nops, ghosts>>

Unlock(t, from, to) ==
  /\ Goto(t, from, to)
  /\ gen' = [gen EXCEPT ![dict[t]].write_lock = @ - 1]

TryLock(t) == TryLockFor(t, "lock", "check_newer", "back_off")

BackOff(t) ==
  /\ Unlock(t, "back_off", "retry")
  /\ dict' = [dict EXCEPT ![t] = NULL]
  /\ UNCHANGED <<ref, op, new, at, result, nops, ghosts>>

UnlockRetry(t) ==
  /\ Unlock(t, "unlock_retry", "retry")
  /\ dict' = [dict EXCEPT ![t] = NULL]
  /\ new' = [new EXCEPT ![t] = NULL]
  /\ UNCHANGED <<ref, op, at, result, nops, ghosts>>

UnlockDone(t) ==
  /\ Unlock(t, "unlock_done", "idle")
  /\ Return(t)
  /\ UNCHANGED <<ref, result, nops, ghosts>>

CheckNewer(t) ==
  /\ Goto(t, "check_newer", IF gen[dict[t]].newer = NULL THEN "search" ELSE "unlock_retry")
  /\ UNCHANGED <<gen, ref, op, dict, new, at, result, nops, ghosts>>

(* A write finds its slot, unless the table must be expanded first; the    *)
(* lock is given up for that, expand_dict takes it again.                  *)
SearchToWrite(t) ==
  LET d       == gen[dict[t]]
      targets == IF IsFull(d) THEN {} ELSE Targets(d, op[t].key) IN
  /\ pc[t] = "search" /\ op[t].kind = "write"
  /\ IF targets = {}
     THEN /\ Goto(t, "search", IF d.shared THEN "unlock_expand" ELSE "expand_lock")
          /\ UNCHANGED at
     ELSE /\ Goto(t, "search", "store_value")
          /\ \E i \in targets : at' = [at EXCEPT ![t] = i]
  /\ UNCHANGED <<gen, ref, op, dict, new, result, nops, ghosts>>

SearchToErase(t) ==
  LET d == gen[dict[t]]
      k == op[t].key IN
  /\ pc[t] = "search" /\ op[t].kind = "erase"
  /\ IF Found(d, k)
     THEN /\ Goto(t, "search", "store_value")
          /\ at' = [at EXCEPT ![t] = Slot(d, k, First(Stops(d, k)))]
          /\ UNCHANGED <<op, dict, new>>
     ELSE Finish(t)
  /\ UNCHANGED <<gen, ref, result, nops, ghosts>>

ReadersOf(k) == {u \in Threads : op[u].kind = "read" /\ op[u].key = k}

(* Under the SeqLock; the value an erasure stores is the zero integer.     *)
StoreValue(t) ==
  LET d == gen[dict[t]]
      k == op[t].key
      isInsertion == d.key[at[t]].type # "STRING" IN
  /\ pc[t] = "store_value"
  /\ gen' = [gen EXCEPT ![dict[t]].value[at[t]] = op[t].value]
  /\ IF op[t].kind = "erase" \/ isInsertion
     THEN /\ Goto(t, "store_value", IF isInsertion THEN "store_key" ELSE "erase_key")
          /\ UNCHANGED <<op, dict, new, at, entries>>
     ELSE Finish(t) /\ entries' = [entries EXCEPT ![k] = op[t].value]
  /\ seen' = [u \in Threads |->
                IF u \in ReadersOf(k) THEN seen[u] \cup {op[t].value} ELSE seen[u]]
  /\ raced' = [u \in Threads |-> raced[u] \/ (u \in ReadersOf(k) /\ op[t].kind = "erase")]
  /\ UNCHANGED <<ref, result, nops>>

(* The string first, then the type, which publishes the entry.             *)
StoreKey(t) ==
  /\ Goto(t, "store_key", "publish_key")
  /\ gen' = [gen EXCEPT ![dict[t]].key[at[t]].str = op[t].key, ![dict[t]].size = @ + 1]
  /\ UNCHANGED <<ref, op, dict, new, at, result, nops, ghosts>>

PublishKey(t) ==
  /\ pc[t] = "publish_key"
  /\ gen' = [gen EXCEPT ![dict[t]].key[at[t]].type = "STRING"]
  /\ entries' = [entries EXCEPT ![op[t].key] = op[t].value]
  /\ Finish(t)
  /\ UNCHANGED <<ref, result, nops, seen, raced>>

(* Variant: the slot is empty again.                                       *)
EraseKeyLeavesGap(t) ==
  /\ pc[t] = "erase_key"
  /\ gen' = [gen EXCEPT ![dict[t]].key[at[t]].type = "EMPTY", ![dict[t]].size = @ - 1]
  /\ entries' = [entries EXCEPT ![op[t].key] = Absent]
  /\ seen' = [u \in Threads |->
                IF u \in ReadersOf(op[t].key) THEN seen[u] \cup {Absent} ELSE seen[u]]
  /\ Finish(t)
  /\ UNCHANGED <<ref, result, nops, raced>>

EraseKey(t) ==
  /\ pc[t] = "erase_key"
  /\ gen' = [gen EXCEPT ![dict[t]].key[at[t]].type = "TOMBSTONE", ![dict[t]].size = @ - 1]
  /\ entries' = [entries EXCEPT ![op[t].key] = Absent]
  /\ seen' = [u \in Threads |->
                IF u \in ReadersOf(op[t].key) THEN seen[u] \cup {Absent} ELSE seen[u]]
  /\ Finish(t)
  /\ UNCHANGED <<ref, result, nops, raced>>

-----------------------------------------------------------------------------
(* expand_dict: the lock is taken even for a thread-local dictionary.      *)

UnlockExpand(t) ==
  /\ Unlock(t, "unlock_expand", "expand_lock")
  /\ UNCHANGED <<ref, op, dict, new, at, result, nops, ghosts>>

ExpandTryLock(t) == TryLockFor(t, "expand_lock", "expand_check", "back_off")

ExpandCheckNewer(t) ==
  /\ Goto(t, "expand_check", IF gen[dict[t]].newer = NULL THEN "alloc" ELSE "unlock_retry")
  /\ UNCHANGED <<gen, ref, op, dict, new, at, result, nops, ghosts>>

(* Twice the capacity, the same entries, owner, flag and block, locked.    *)
Expanded(t, old) ==
  [Rehash(NewDict(t, 2 * old.alloc_size), old)
     EXCEPT !.shared = old.shared, !.creator = old.creator, !.is_frozen = old.is_frozen,
            !.native = old.native, !.write_lock = 1]

(* The dictionary may have been moved while the thread was allocating, so  *)
(* its pointer is followed again.  At MaxSize memory is taken to be out.   *)
AllocAndCopy(t) ==
  /\ 2 * gen[Newest].alloc_size <= MaxSize
  /\ Goto(t, "alloc", "publish")
  /\ dict' = [dict EXCEPT ![t] = Newest]
  /\ \E g \in Free :
       /\ gen' = [gen EXCEPT ![g] = Expanded(t, gen[Newest])]
       /\ new' = [new EXCEPT ![t] = g]
  /\ UNCHANGED <<ref, op, at, result, nops, ghosts>>

AllocFails(t) ==
  /\ Goto(t, "alloc", "unlock_done")
  /\ dict' = [dict EXCEPT ![t] = Newest]
  /\ UNCHANGED <<gen, ref, op, new, at, result, nops, ghosts>>

Publish(t) ==
  /\ Goto(t, "publish", "unlock_old")
  /\ gen' = [gen EXCEPT ![dict[t]].newer = new[t]]
  /\ UNCHANGED <<ref, op, dict, new, at, result, nops, ghosts>>

(* Variant: the old generation keeps its pointer to the control block.     *)
UnlockOldKeepsNative(t) ==
  /\ Unlock(t, "unlock_old", "unlock_retry")
  /\ dict' = [dict EXCEPT ![t] = new[t]]
  /\ UNCHANGED <<ref, op, new, at, result, nops, ghosts>>

(* The control block belongs to the new generation alone.                  *)
UnlockOld(t) ==
  /\ Goto(t, "unlock_old", "unlock_retry")
  /\ gen' = [gen EXCEPT ![dict[t]].native = FALSE, ![dict[t]].write_lock = @ - 1]
  /\ dict' = [dict EXCEPT ![t] = new[t]]
  /\ UNCHANGED <<ref, op, new, at, result, nops, ghosts>>

-----------------------------------------------------------------------------
(* om_freeze_dict: never gives way at a safepoint, and spins on the lock.  *)
(* Freezing a frozen dictionary changes nothing and is left out.           *)

StartFreeze(t) ==
  /\ t \in Freezers
  /\ Goto(t, "idle", IF gen[Newest].shared THEN "freeze_lock" ELSE "freeze_store")
  /\ ~gen[Newest].is_frozen
  /\ op' = [op EXCEPT ![t].kind = "freeze"]
  /\ dict' = [dict EXCEPT ![t] = Newest]
  /\ UNCHANGED <<gen, ref, new, at, result, nops, ghosts>>

FreezeTryLock(t) == TryLockFor(t, "freeze_lock", "freeze_check", "freeze_back_off")

(* Variant: the loser keeps its increment.                                 *)
FreezeBackOffForgotten(t) ==
  /\ Goto(t, "freeze_back_off", "freeze_lock")
  /\ UNCHANGED <<gen, ref, op, dict, new, at, result, nops, ghosts>>

FreezeBackOff(t) ==
  /\ Unlock(t, "freeze_back_off", "freeze_lock")
  /\ UNCHANGED <<ref, op, dict, new, at, result, nops, ghosts>>

(* Variant: a generation that was superseded before it was locked is       *)
(* frozen.                                                                 *)
FreezeCheckNewerSkipped(t) ==
  /\ Goto(t, "freeze_check", "freeze_store")
  /\ UNCHANGED <<gen, ref, op, dict, new, at, result, nops, ghosts>>

FreezeCheckNewer(t) ==
  /\ Goto(t, "freeze_check", IF gen[dict[t]].newer = NULL THEN "freeze_store" ELSE "freeze_unlock")
  /\ UNCHANGED <<gen, ref, op, dict, new, at, result, nops, ghosts>>

FreezeUnlock(t) ==
  /\ Unlock(t, "freeze_unlock", "freeze_lock")
  /\ dict' = [dict EXCEPT ![t] = Newest]
  /\ UNCHANGED <<ref, op, new, at, result, nops, ghosts>>

FreezeStore(t) ==
  /\ pc[t] = "freeze_store"
  /\ gen' = [gen EXCEPT ![dict[t]].is_frozen = TRUE]
  /\ Finish(t)
  /\ UNCHANGED <<ref, result, nops, ghosts>>

-----------------------------------------------------------------------------

Step(t) ==
  \/ Promote(t) \/ Collect(t)
  \/ StartRead(t) \/ StartWrite(t) \/ StartErase(t) \/ StartPromotion(t) \/ BeginAccess(t)
  \/ LoadKeyType(t) \/ LoadKeyStr(t) \/ ReadValue(t) \/ FinishRead(t)
  \/ StartHandleUse(t) \/ ReadNative(t)
  \/ TryLock(t) \/ BackOff(t) \/ UnlockRetry(t) \/ UnlockDone(t) \/ CheckNewer(t)
  \/ SearchToWrite(t) \/ SearchToErase(t)
  \/ StoreValue(t) \/ StoreKey(t) \/ PublishKey(t) \/ EraseKey(t)
  \/ UnlockExpand(t) \/ ExpandTryLock(t) \/ ExpandCheckNewer(t)
  \/ AllocAndCopy(t) \/ AllocFails(t) \/ Publish(t) \/ UnlockOld(t)
  \/ StartFreeze(t) \/ FreezeTryLock(t) \/ FreezeBackOff(t) \/ FreezeCheckNewer(t)
  \/ FreezeUnlock(t) \/ FreezeStore(t)

Next == \E t \in Threads : Step(t)

Spec == Init /\ [][Next]_vars

-----------------------------------------------------------------------------

Generation ==
  [alloc_size : Nat, size : Nat,
   key : [Slots -> [type : {"EMPTY", "TOMBSTONE", "STRING"}, str : Keys \cup {NoKey}]],
   value : [Slots -> Values], shared : BOOLEAN, creator : Threads, write_lock : Nat,
   newer : Gens \cup {NULL}, is_frozen : BOOLEAN, native : BOOLEAN]

Operation ==
  [kind : {"none", "read", "write", "erase", "freeze", "native"}, key : Keys \cup {NoKey}, value : Values]

TypeOK ==
  /\ gen \in [Gens -> Generation]
  /\ ref \in Live
  /\ pc \in [Threads -> Pcs]
  /\ op \in [Threads -> Operation]
  /\ dict \in [Threads -> Gens \cup {NULL}]
  /\ new \in [Threads -> Gens \cup {NULL}]
  /\ at \in [Threads -> 0 .. MaxSize]
  /\ result \in [Threads -> Values \cup {Absent, ControlBlock}]
  /\ nops \in Values
  /\ entries \in [Keys -> Values \cup {Absent}]
  /\ seen \in [Threads -> SUBSET (Values \cup {Absent})]
  /\ raced \in [Threads -> BOOLEAN]

(* What a lookup that nobody disturbs finds.                               *)
Binding(d, k) ==
  IF Found(d, k) THEN d.value[Slot(d, k, First(Stops(d, k)))] ELSE Absent

(* Insertion, update, erasure, reuse of tombstones, expansion, promotion   *)
(* and moves keep the table a dictionary: a lookup in the newest           *)
(* generation finds each key's last value, or nothing if it was erased or  *)
(* never inserted, except while the erasure of that key is half done.      *)
NoEntryLost ==
  \A k \in Keys : ~BeingErased(k) => Binding(gen[Newest], k) = entries[k]

(* A lookup without a lock, racing with writes, insertions, expansions and *)
(* erasures of other keys, returns what its key was bound to at some point *)
(* of the lookup, or what a write under way was about to bind it to.       *)
(* Lookups during which their own key is erased are exempt.                *)
ReadReturnsCurrent ==
  \A t \in Threads : pc[t] = "done" /\ op[t].kind = "read" /\ ~raced[t] => result[t] \in seen[t]

(* "Readers must not observe a visible key with an uninitialized value"    *)
(* (objectmodel-mt.c:2580): a lookup that finds its key returns a value    *)
(* that was written for it.                                                *)
VisibleKeyHasValue ==
  \A t \in Threads : pc[t] = "done" /\ op[t].kind = "read" /\ result[t] # Absent => result[t] \in seen[t]

(* write_lock counts the threads that hold the lock or are backing off, on *)
(* every path of write, erasure, expansion and freeze.                     *)
Holds(t, g) ==
  \/ pc[t] \in LockedPcs /\ dict[t] = g
  \/ pc[t] \in StorePcs \cup {"search", "freeze_store"} /\ dict[t] = g /\ gen[g].shared
  \/ pc[t] \in {"publish", "unlock_old"} /\ new[t] = g
  \/ pc[t] = "alloc" /\ g = Newest

LocksMatchHolders ==
  \A g \in Live : gen[g].write_lock = Cardinality({t \in Threads : Holds(t, g)})

(* When a freeze returns the dictionary is frozen, whichever generation it *)
(* met, and it stays frozen: "Freezing a stale generation would be         *)
(* invisible to readers, so re-follow and retry" (objectmodel-mt.c:4007).  *)
FreezeReturns(t) == op[t].kind = "freeze" /\ op'[t].kind # "freeze"

FreezeIsKept ==
  [][gen[Newest].is_frozen \/ (\E t \in Threads : FreezeReturns(t)) =>
       gen'[Newest'].is_frozen]_vars

(* Whenever a collection can start, the newest generation holds the        *)
(* control block and no other does: the block is neither finalized with a  *)
(* superseded generation while the handle is in use, nor finalized twice.  *)
ControlBlockHasOneHolder ==
  \A t \in Threads :
    pc[t] \in OutPcs /\ STW!WorldStoppedFor(t) =>
      \A g \in Live : gen[g].native <=> g = Newest

=============================================================================
