----------------------------- MODULE GlobalTable -----------------------------
(***************************************************************************)
(* The table of globals of core/runtime.c: an open-addressing hash table   *)
(* that every thread of a virtual machine shares, guarded by a counter     *)
(* used as a spin lock.                                                    *)
(*                                                                         *)
(* ACQUIRE_GLOBAL adds one to the counter and owns the table if it was 0;  *)
(* otherwise it takes its one away and tries again.  The table doubles     *)
(* when it is three quarters full; probing starts at the name's hash and   *)
(* stops before the slot in front of it.  No name is ever removed.         *)
(***************************************************************************)

EXTENDS Integers, FiniteSets

CONSTANTS
  Threads,
  Names,
  Lets,        \* The names that programs declare constant.
  Values,
  Undefined,
  Hash,        \* Hash[n]: rt_string_hash.
  StartSize    \* START_SIZE, a power of two.

ASSUME GlobalTableAssumption ==
  /\ IsFiniteSet(Threads) /\ IsFiniteSet(Names)
  /\ Lets \subseteq Names
  /\ Undefined \notin Names \cup Values /\ "pending" \notin Values
  /\ Hash \in [Names -> Nat]
  /\ StartSize \in Nat /\ StartSize >= 2

VARIABLES
  global_var_counter,
  global,        \* The table: its slots from 0 to global_alloc_size - 1.
  global_size,   \* Slots in use.
  pc,            \* Control point of each thread,
  call,          \* the call it is in,
  reply          \* and the answer it has found.

vars == <<global_var_counter, global, global_size, pc, call, reply>>

Empty  == [name |-> Undefined, val |-> Undefined, const |-> FALSE]
Calls  == [op : {"set"}, name : Names, val : Values]
            \cup [op : {"get", "check"}, name : Names] \cup [op : {"mark"}, name : Lets]
NoCall == [op |-> "none"]

(* back_off   found the counter taken                                      *)
(* inside     owns the table                                               *)
(* insert     in rt_set_global, after the table was large enough           *)
Pcs == {"idle", "acquire", "back_off", "inside", "insert", "release"}
Holders    == {t \in Threads : pc[t] \in {"inside", "insert", "release"}}
BackingOff == {t \in Threads : pc[t] = "back_off"}

global_alloc_size == Cardinality(DOMAIN global)

-----------------------------------------------------------------------------
(* Probing.                                                                *)

NewTable(size) == [i \in 0 .. size - 1 |-> Empty]

Slot(tbl, n, k) == (Hash[n] + k) % Cardinality(DOMAIN tbl)

(* The distances at which a search for n in tbl ends: at n or at a gap.    *)
Stops(tbl, n) == {k \in 0 .. Cardinality(DOMAIN tbl) - 2 :
                    tbl[Slot(tbl, n, k)].name \in {n, Undefined}}

Nearest(tbl, n) == CHOOSE k \in Stops(tbl, n) : \A j \in Stops(tbl, n) : k <= j

SlotOf(tbl, n) == Slot(tbl, n, Nearest(tbl, n))

IsFound(tbl, n) == Stops(tbl, n) # {} /\ tbl[SlotOf(tbl, n)].name = n

(* Variant: the copies are not constant.                                   *)
RehashForgettingConst(tbl, size) ==
  LET moved[i \in 0 .. Cardinality(DOMAIN tbl)] ==
        IF i = 0 THEN NewTable(size)
        ELSE LET e == tbl[i - 1] IN
             IF e.name = Undefined \/ Stops(moved[i - 1], e.name) = {} THEN moved[i - 1]
             ELSE [moved[i - 1] EXCEPT
                     ![SlotOf(moved[i - 1], e.name)] = [e EXCEPT !.const = FALSE]]
  IN moved[Cardinality(DOMAIN tbl)]

(* The entries of tbl placed one by one into a table of the given size.    *)
Rehash(tbl, size) ==
  LET moved[i \in 0 .. Cardinality(DOMAIN tbl)] ==
        IF i = 0 THEN NewTable(size)
        ELSE LET e == tbl[i - 1] IN
             IF e.name = Undefined \/ Stops(moved[i - 1], e.name) = {} THEN moved[i - 1]
             ELSE [moved[i - 1] EXCEPT ![SlotOf(moved[i - 1], e.name)] = e]
  IN moved[Cardinality(DOMAIN tbl)]

(* Variant: the table grows when it is more than three quarters full.      *)
NeedsExpansionLate == global_size > (global_alloc_size \div 4) * 3

NeedsExpansion == global_size >= (global_alloc_size \div 4) * 3

-----------------------------------------------------------------------------

(* rt_init_global                                                          *)
Init ==
  /\ global_var_counter = 0
  /\ global = NewTable(StartSize)
  /\ global_size = 0
  /\ pc = [t \in Threads |-> "idle"]
  /\ call = [t \in Threads |-> NoCall]
  /\ reply = [t \in Threads |-> "none"]

Goto(t, from, to) ==
  /\ pc[t] = from
  /\ pc' = [pc EXCEPT ![t] = to]

Call(t) ==
  /\ Goto(t, "idle", "acquire")
  /\ \E c \in Calls : call' = [call EXCEPT ![t] = c]
  /\ reply' = [reply EXCEPT ![t] = "pending"]
  /\ UNCHANGED <<global_var_counter, global, global_size>>

(* Variant: a counter of one is still taken to be free.                    *)
AcquireShared(t) ==
  /\ Goto(t, "acquire", IF global_var_counter <= 1 THEN "inside" ELSE "back_off")
  /\ global_var_counter' = global_var_counter + 1
  /\ UNCHANGED <<global, global_size, call, reply>>

(* ACQUIRE_GLOBAL                                                          *)
Acquire(t) ==
  /\ Goto(t, "acquire", IF global_var_counter = 0 THEN "inside" ELSE "back_off")
  /\ global_var_counter' = global_var_counter + 1
  /\ UNCHANGED <<global, global_size, call, reply>>

BackOff(t) ==
  /\ Goto(t, "back_off", "acquire")
  /\ global_var_counter' = global_var_counter - 1
  /\ UNCHANGED <<global, global_size, call, reply>>

(* The thread is in one of the functions, at the given point, and leaves.  *)
Leave(t, op, from, r) ==
  /\ call[t].op = op
  /\ Goto(t, from, "release")
  /\ reply' = [reply EXCEPT ![t] = r]
  /\ UNCHANGED <<global_var_counter, call>>

Check(t) ==
  /\ Leave(t, "check", "inside", IF IsFound(global, call[t].name) THEN "yes" ELSE "no")
  /\ UNCHANGED <<global, global_size>>

Get(t) ==
  LET n == call[t].name IN
  /\ Leave(t, "get", "inside",
           IF IsFound(global, n) THEN global[SlotOf(global, n)].val ELSE "not found")
  /\ UNCHANGED <<global, global_size>>

(* rt_mark_global_const scans the whole table.                             *)
Mark(t) ==
  LET here == {i \in DOMAIN global : global[i].name = call[t].name} IN
  /\ Leave(t, "mark", "inside", IF here = {} THEN "not found" ELSE "ok")
  /\ IF here = {} THEN UNCHANGED global
     ELSE global' = [global EXCEPT ![CHOOSE i \in here : \A j \in here : i <= j].const = TRUE]
  /\ UNCHANGED global_size

SetFails(t) ==
  /\ Leave(t, "set", "inside", "out of memory")
  /\ NeedsExpansion
  /\ UNCHANGED <<global, global_size>>

(* rt_expand_global, when rt_set_global needs it.                          *)
SetExpand(t) ==
  /\ call[t].op = "set"
  /\ Goto(t, "inside", "insert")
  /\ global' = IF NeedsExpansion THEN Rehash(global, global_alloc_size * 2) ELSE global
  /\ UNCHANGED <<global_var_counter, global_size, call, reply>>

SetInsert(t) ==
  LET n == call[t].name
      i == SlotOf(global, n)
  IN
  /\ pc[t] = "insert"
  /\ Stops(global, n) # {}
  /\ ~IsFound(global, n)
  /\ \/ /\ Leave(t, "set", "insert", "ok")
        /\ global' = [global EXCEPT ![i].name = n, ![i].val = call[t].val]
        /\ global_size' = global_size + 1
     \/ /\ Leave(t, "set", "insert", "out of memory")
        /\ UNCHANGED <<global, global_size>>

SetOverwrite(t) ==
  LET n == call[t].name
      i == SlotOf(global, n)
  IN
  /\ pc[t] = "insert"
  /\ IsFound(global, n)
  /\ IF global[i].const
     THEN Leave(t, "set", "insert", "constant") /\ UNCHANGED global
     ELSE /\ Leave(t, "set", "insert", "ok")
          /\ global' = [global EXCEPT ![i].val = call[t].val]
  /\ UNCHANGED global_size

(* RELEASE_GLOBAL, and the call returns.                                   *)
Release(t) ==
  /\ Goto(t, "release", "idle")
  /\ global_var_counter' = global_var_counter - 1
  /\ call' = [call EXCEPT ![t] = NoCall]
  /\ reply' = [reply EXCEPT ![t] = "none"]
  /\ UNCHANGED <<global, global_size>>

Step(t) ==
  \/ Call(t) \/ Acquire(t) \/ BackOff(t)
  \/ Check(t) \/ Get(t) \/ Mark(t)
  \/ SetFails(t) \/ SetExpand(t) \/ SetInsert(t) \/ SetOverwrite(t)
  \/ Release(t)

Next == \E t \in Threads : Step(t)

Spec == Init /\ [][Next]_vars

-----------------------------------------------------------------------------
(* Properties.                                                             *)

(* Every variable has its type.                                            *)
TypeOK ==
  /\ global_var_counter \in 0 .. Cardinality(Threads)
  /\ global \in [0 .. global_alloc_size - 1 ->
                   [name : Names \cup {Undefined}, val : Values \cup {Undefined},
                    const : BOOLEAN]]
  /\ global_size \in 0 .. global_alloc_size
  /\ pc \in [Threads -> Pcs]
  /\ call \in [Threads -> Calls \cup {NoCall}]

(* Every search ends where the code says it does: a name is in one slot,   *)
(* the search for it gets there, and for a name that is not in the table   *)
(* it reaches a gap, so that rt_set_global always finds a place            *)
(* (NEVER_COME_HERE).  The count is that of the names.                     *)
ProbesAreUnbroken ==
  /\ global_size = Cardinality({i \in DOMAIN global : global[i].name # Undefined})
  /\ \A i, j \in DOMAIN global :
       global[i].name = global[j].name => i = j \/ global[i].name = Undefined
  /\ \A n \in Names :
       (\E i \in DOMAIN global : global[i].name = n) => IsFound(global, n)
  /\ \A t \in Threads : pc[t] = "insert" => Stops(global, call[t].name) # {}

(* One thread at a time is inside, although the counter counts those that  *)
(* try as well.                                                            *)
OneHolder ==
  /\ Cardinality(Holders) <= 1
  /\ global_var_counter = Cardinality(Holders) + Cardinality(BackingOff)

(* The globals as a map.                                                   *)
globals == [n \in Names |->
  LET here == {i \in DOMAIN global : global[i].name = n} IN
  IF here = {} THEN [val |-> Undefined, const |-> FALSE]
  ELSE LET i == CHOOSE i \in here : TRUE
       IN [val |-> global[i].val, const |-> global[i].const]]

Map == INSTANCE GlobalMap

(* Calls take effect at once on one map, whatever the table does           *)
(* underneath: growth loses no name, no value and no constant.             *)
ImplementsGlobals == Map!Spec

=============================================================================
