--------------------------- MODULE SharedDictProofs ---------------------------
(***************************************************************************)
(* Proofs about SharedDict.tla: its invariants hold for any threads, keys, *)
(* hash function, generations, capacities and number of operations.        *)
(***************************************************************************)

EXTENDS SharedDict, FiniteSetTheorems, WellFoundedInduction, TLAPS

-----------------------------------------------------------------------------
(* The invariant of the protocol: generations, links, locks, and what each *)
(* thread is doing.                                                        *)

(* The types; size is a natural number only because of what the table      *)
(* holds.                                                                  *)
KeySlots == [Slots -> [type : {"EMPTY", "TOMBSTONE", "STRING"}, str : Keys \cup {NoKey}]]

Dicts ==
  [alloc_size : 0 .. MaxSize, size : Int, key : KeySlots, value : [Slots -> Values],
   shared : BOOLEAN, creator : Threads, write_lock : Nat, newer : Gens \cup {NULL},
   is_frozen : BOOLEAN, native : BOOLEAN]

Typed ==
  /\ gen \in [Gens -> Dicts]
  /\ ref \in Gens
  /\ pc \in [Threads -> Pcs]
  /\ op \in [Threads -> Operation]
  /\ dict \in [Threads -> Gens \cup {NULL}]
  /\ new \in [Threads -> Gens \cup {NULL}]
  /\ at \in [Threads -> 0 .. MaxSize]
  /\ result \in [Threads -> Values \cup {Absent, ControlBlock}]
  /\ nops \in Values
  /\ entries \in [Keys -> Values \cup {Absent}]
  /\ seen \in [Threads -> SUBSET (Values \cup {Absent})]
  /\ raced \in [Threads -> BOOLEAN]

Link(g) == gen[g].newer

(* A new generation that its thread has not published, and the others,     *)
(* which threads can find.                                                 *)
Private(g) == \E t \in Threads : pc[t] = "publish" /\ new[t] = g
Findable   == {g \in Live : ~Private(g)}

(* Every generation a thread can find is on the chain of links from ref,   *)
(* and exactly one of them ends it.                                        *)
ChainIsWhole ==
  /\ ref \in Findable
  /\ \A g \in Gens : Link(g) # NULL => g \in Findable /\ Link(g) \in Findable
  /\ Findable \subseteq Chain
  /\ \E g \in Findable : Link(g) = NULL
  /\ \A g, h \in Findable : Link(g) = NULL /\ Link(h) = NULL => g = h

(* Where a thread works on the newest generation.                          *)
TipPcs == StorePcs \cup {"search", "publish", "unlock_expand"}

PointersAreGood(t) ==
  /\ pc[t] \in AccessPcs => dict[t] \in Findable
  /\ pc[t] \in TipPcs => Link(dict[t]) = NULL
  /\ pc[t] = "freeze_store" /\ (gen[dict[t]].shared \/ t = Creator) => Link(dict[t]) = NULL
  /\ pc[t] = "publish" => /\ new[t] \in Live /\ Link(new[t]) = NULL /\ gen[new[t]].native
                          /\ gen[new[t]].shared = gen[dict[t]].shared
  /\ pc[t] = "unlock_old" => /\ new[t] \in Findable /\ new[t] # dict[t]
                             /\ Link(dict[t]) = new[t]

(* What each control point has to do with the operation, and the slot.     *)
ProbePcs  == {"probe", "probe_str", "read_value"}
FreezePcs == {"freeze_lock", "freeze_check", "freeze_unlock", "freeze_back_off", "freeze_store"}
GrowPcs   == {"unlock_expand", "expand_lock", "expand_check", "alloc", "publish", "unlock_old"}
SearchPcs == {"lock", "check_newer", "back_off", "unlock_retry", "search"}

KindsAt(p) ==
  CASE p = "idle" -> {"none"}
    [] p \in ProbePcs -> {"read"}
    [] p = "read_native" -> {"native"}
    [] p = "done" -> {"read", "native"}
    [] p \in FreezePcs -> {"freeze"}
    [] p \in GrowPcs -> {"write"}
    [] p = "erase_key" -> {"erase"}
    [] p \in SearchPcs \cup {"store_value", "store_key", "publish_key"} -> {"write", "erase"}
    [] p \in {"retry", "promote"} -> {"read", "write", "erase"}
    [] p = "unlock_done" -> {"write", "erase", "freeze"}

OperationIsKept(t) ==
  /\ op[t].kind \in KindsAt(pc[t])
  /\ op[t].kind \in {"read", "write", "erase"} => op[t].key \in Keys
  /\ pc[t] \in {"idle", "retry", "promote"} \cup SearchPcs \cup GrowPcs => at[t] = 0
  /\ pc[t] \in ProbePcs \cup StorePcs => at[t] < gen[dict[t]].alloc_size

(* Only the creator uses a dictionary that is not shared, but for freezing *)
(* and for handles, and everyone else the lock.                            *)
SharingIsKept(t) ==
  /\ t # Creator /\ pc[t] \in (AccessPcs \ {"read_native", "freeze_store"}) \cup {"alloc"} =>
       \A g \in Findable : Link(g) = NULL => gen[g].shared
  /\ pc[t] \in {"lock", "check_newer", "unlock_expand", "freeze_lock", "freeze_check",
                "freeze_unlock", "freeze_back_off"} => gen[dict[t]].shared

ThreadIsGood(t) == PointersAreGood(t) /\ OperationIsKept(t) /\ SharingIsKept(t)

ThreadsAreInOrder == \A t \in Threads : ThreadIsGood(t)

(* Who has the write lock of g, and who has added to it.                   *)
Owns(t, g) ==
  \/ pc[t] \in LockedPcs \ {"back_off", "freeze_back_off"} /\ dict[t] = g
  \/ pc[t] \in StorePcs \cup {"search", "freeze_store"} /\ dict[t] = g /\ gen[g].shared
  \/ pc[t] \in {"publish", "unlock_old"} /\ new[t] = g
  \/ pc[t] = "alloc" /\ g \in Findable /\ Link(g) = NULL
Counted(t, g) == Owns(t, g) \/ (pc[t] \in {"back_off", "freeze_back_off"} /\ dict[t] = g)
Holders(g)    == {t \in Threads : Counted(t, g)}

LocksAreHeld ==
  /\ \A g \in Live : gen[g].write_lock = Cardinality(Holders(g))
  /\ \A g \in Live : \A t, u \in Threads : Owns(t, g) /\ Owns(u, g) => t = u

(* The newest generation has the control block, and the one before it only *)
(* until its lock is released.                                             *)
BlockIsKept ==
  \A g \in Findable :
    /\ Link(g) = NULL => gen[g].native
    /\ Link(g) # NULL /\ gen[g].native => \E t \in Threads : pc[t] = "unlock_old" /\ dict[t] = g

Creators == \A g \in Live : gen[g].creator = Creator

(* What was shared once is shared for good.                                *)
SharingIsFinal ==
  \A g, h \in Findable : gen[g].shared /\ Link(h) = NULL => gen[h].shared

Protocol ==
  /\ Typed /\ Creators /\ SharingIsFinal
  /\ ChainIsWhole /\ ThreadsAreInOrder
  /\ LocksAreHeld /\ BlockIsKept

-----------------------------------------------------------------------------
(* Counting up, and the tables that are filled by it.                      *)

LEMMA LeastExists ==
  ASSUME NEW T \in SUBSET Nat, T # {}
  PROVE  \E x \in T : \A y \in T : x <= y
<1>1. PICK x \in T : \A y \in T : ~ (<<y, x>> \in OpToRel(<, Nat))
  BY NatLessThanWellFounded, WFMin
<1>2. \A y \in T : ~ (y < x)
  BY <1>1 DEF OpToRel
<1> QED
  BY <1>2

LEMMA CountingUp ==
  ASSUME NEW N \in Nat, NEW T, 0 \in T, \A n \in 1 .. N : n - 1 \in T => n \in T
  PROVE  \A n \in 0 .. N : n \in T
<1> DEFINE Bad == {n \in 0 .. N : n \notin T}
<1> SUFFICES ASSUME Bad # {} PROVE FALSE
  OBVIOUS
<1>1. PICK x \in Bad : \A y \in Bad : x <= y
  <2>1. Bad \in SUBSET Nat
    OBVIOUS
  <2> HIDE DEF Bad
  <2> QED
    BY <2>1, LeastExists
<1>2. x \in 1 .. N /\ x \notin T
  OBVIOUS
<1>3. x - 1 \in 0 .. N /\ ~(x <= x - 1)
  BY <1>2
<1>4. x - 1 \in T
  BY <1>1, <1>3
<1> QED
  BY <1>2, <1>4

IterationOf(N, X, start, F) ==
  \E f \in [0 .. N -> X] : f[0] = start /\ \A n \in 1 .. N : f[n] = F[n][f[n - 1]]

LEMMA IterationExists ==
  ASSUME NEW N \in Nat, NEW X, NEW start \in X, NEW F \in [1 .. N -> [X -> X]]
  PROVE  IterationOf(N, X, start, F)
<1> DEFINE Good(m, f) == f[0] = start /\ \A n \in 1 .. m : f[n] = F[n][f[n - 1]]
           T == {m \in Nat : \E f \in [0 .. m -> X] : Good(m, f)}
<1>1. 0 \in T
  <2>1. PICK f : f = [n \in 0 .. 0 |-> start]
    OBVIOUS
  <2> QED
    BY <2>1
<1>2. ASSUME NEW m \in 1 .. N, m - 1 \in T PROVE m \in T
  <2>1. PICK f \in [0 .. m - 1 -> X] : Good(m - 1, f)
    BY <1>2
  <2>2. PICK g : g = [n \in 0 .. m |-> IF n = m THEN F[m][f[m - 1]] ELSE f[n]]
    OBVIOUS
  <2>3. f[m - 1] \in X /\ F[m] \in [X -> X]
    BY <1>2, <2>1
  <2>4. g \in [0 .. m -> X]
    BY <2>1, <2>2, <2>3
  <2>5. g[0] = start /\ g[m] = F[m][g[m - 1]]
    BY <1>2, <2>1, <2>2
  <2>6. ASSUME NEW n \in 1 .. m - 1 PROVE g[n] = F[n][g[n - 1]]
    BY <1>2, <2>1, <2>2
  <2>7. Good(m, g)
    BY <2>5, <2>6
  <2>8. m \in Nat
    OBVIOUS
  <2> HIDE DEF Good
  <2> QED
    BY <2>4, <2>7, <2>8
<1>3. N \in T
  <2>1. \A m \in 1 .. N : m - 1 \in T => m \in T
    BY <1>2
  <2> HIDE DEF T
  <2>2. \A n \in 0 .. N : n \in T
    BY <1>1, <2>1, CountingUp
  <2> QED
    BY <2>2
<1> QED
  BY <1>3 DEF IterationOf

(* The fields that are not the table's.                                    *)
SameHeader(r, d) ==
  /\ r.alloc_size = d.alloc_size /\ r.shared = d.shared /\ r.creator = d.creator
  /\ r.write_lock = d.write_lock /\ r.newer = d.newer
  /\ r.is_frozen = d.is_frozen /\ r.native = d.native

LEMMA SlotIsTyped ==
  ASSUME NEW type \in {"EMPTY", "TOMBSTONE", "STRING"}, NEW k \in Keys \cup {NoKey}
  PROVE  [type |-> type, str |-> k] \in [type : {"EMPTY", "TOMBSTONE", "STRING"}, str : Keys \cup {NoKey}]
OBVIOUS

LEMMA BindIsTyped ==
  ASSUME NEW d \in Dicts, NEW k \in Keys \cup {NoKey}, NEW v \in Values
  PROVE  /\ Bind(d, k, v) \in Dicts /\ SameHeader(Bind(d, k, v), d)
         /\ Bind(d, k, v).size = d.size
<1>1. CASE Vacancies(d, k) = {}
  BY <1>1 DEF Bind, SameHeader
<1>2. CASE Vacancies(d, k) # {}
  <2>1. PICK i : Bind(d, k, v) = [d EXCEPT !.key[i] = [type |-> "STRING", str |-> k], !.value[i] = v]
    BY <1>2 DEF Bind
  <2>2. d.key \in KeySlots /\ d.value \in [Slots -> Values]
    BY DEF Dicts
  <2>3. [d.key EXCEPT ![i] = [type |-> "STRING", str |-> k]] \in KeySlots
    BY <2>2, SlotIsTyped DEF KeySlots
  <2>4. [d.value EXCEPT ![i] = v] \in [Slots -> Values]
    BY <2>2
  <2>5. PICK key \in KeySlots, value \in [Slots -> Values] :
          Bind(d, k, v) = [d EXCEPT !.key = key, !.value = value]
    BY <2>1, <2>3, <2>4 DEF Dicts
  <2> QED
    BY <2>5 DEF Dicts, SameHeader
<1> QED
  BY <1>1, <1>2

(* The n-th step of a rehash, and its results so far.                      *)
RehashStep(x, old, n) ==
  IF old.key[n - 1].type = "STRING" THEN Bind(x, old.key[n - 1].str, old.value[n - 1]) ELSE x

IsRehash(f, d, old) ==
  /\ f[0] = d
  /\ \A n \in 1 .. old.alloc_size : f[n] = RehashStep(f[n - 1], old, n)

LEMMA RehashIterates ==
  ASSUME NEW d \in Dicts, NEW old \in Dicts
  PROVE  \E f \in [0 .. old.alloc_size -> Dicts] :
           /\ IsRehash(f, d, old)
           /\ \A n \in 0 .. old.alloc_size : SameHeader(f[n], d)
           /\ Rehash(d, old) = [f[old.alloc_size] EXCEPT !.size = old.size]
<1> DEFINE N == old.alloc_size
           X == {r \in Dicts : SameHeader(r, d)}
           Rec(f) == [n \in 0 .. N |->
                        IF n = 0 THEN d
                        ELSE IF old.key[n - 1].type = "STRING"
                             THEN Bind(f[n - 1], old.key[n - 1].str, old.value[n - 1])
                             ELSE f[n - 1]]
           rehash == CHOOSE rehash : rehash = [n \in 0 .. N |->
                        IF n = 0 THEN d
                        ELSE IF old.key[n - 1].type = "STRING"
                             THEN Bind(rehash[n - 1], old.key[n - 1].str, old.value[n - 1])
                             ELSE rehash[n - 1]]
<1>1. N \in Nat /\ \A n \in 1 .. N : n - 1 \in Slots
  <2>1. N \in 0 .. MaxSize /\ MaxSize \in Nat
    BY DictAssumption DEF Dicts
  <2> QED
    BY <2>1 DEF Slots
<1>2. ASSUME NEW n \in 1 .. N, NEW x \in X PROVE RehashStep(x, old, n) \in X
  <2>1. /\ old.key[n - 1].str \in Keys \cup {NoKey} /\ old.value[n - 1] \in Values
    BY <1>1 DEF Dicts, KeySlots
  <2>2. CASE old.key[n - 1].type = "STRING"
    <3>1. PICK y : y = Bind(x, old.key[n - 1].str, old.value[n - 1])
      OBVIOUS
    <3>2. y \in Dicts /\ SameHeader(y, x)
      BY <2>1, <3>1, BindIsTyped
    <3>3. SameHeader(y, d)
      BY <3>2 DEF SameHeader
    <3> QED
      BY <2>2, <3>1, <3>2, <3>3 DEF RehashStep
  <2> QED
    BY <2>2 DEF RehashStep
<1>3. d \in X
  BY DEF SameHeader
<1>4. PICK g : g = Rec(g)
  <2>1. PICK F : F = [n \in 1 .. N |-> [x \in X |-> RehashStep(x, old, n)]]
    OBVIOUS
  <2>2. F \in [1 .. N -> [X -> X]]
    <3> HIDE DEF X
    <3> QED
      BY <1>2, <2>1
  <2>3. PICK f \in [0 .. N -> X] : f[0] = d /\ \A n \in 1 .. N : f[n] = F[n][f[n - 1]]
    <3>1. N \in Nat /\ d \in X
      BY <1>1, <1>3
    <3> HIDE DEF X, N, rehash, Rec
    <3>2. IterationOf(N, X, d, F)
      BY <2>2, <3>1, IterationExists
    <3> QED
      BY <3>2 DEF IterationOf
  <2>4. \A n \in 1 .. N : f[n] = RehashStep(f[n - 1], old, n)
    <3>1. \A n \in 1 .. N : n - 1 \in 0 .. N
      BY <1>1
    <3> HIDE DEF X
    <3> QED
      BY <2>1, <2>3, <3>1
  <2>5. ASSUME NEW n \in 0 .. N PROVE f[n] = Rec(f)[n]
    <3>1. CASE n = 0
      BY <2>3, <3>1
    <3>2. CASE n \in 1 .. N
      BY <2>4, <3>2 DEF RehashStep
    <3> QED
      BY <1>1, <3>1, <3>2
  <2>6. f = [n \in 0 .. N |-> f[n]] /\ Rec(f) = [n \in 0 .. N |-> Rec(f)[n]]
    BY <2>3
  <2>7. f = Rec(f)
    <3> HIDE DEF Rec
    <3> QED
      BY <2>5, <2>6
  <2> QED
    BY <2>7
<1>5. rehash = Rec(rehash)
  BY <1>4
<1>6. Rehash(d, old) = [rehash[N] EXCEPT !.size = old.size]
  BY DEF Rehash
<1>7. PICK f : f = rehash
  OBVIOUS
<1>8. f = Rec(f) /\ Rehash(d, old) = [f[N] EXCEPT !.size = old.size]
  <2> HIDE DEF rehash, Rec
  <2> QED
    BY <1>5, <1>6, <1>7
<1>9. f[0] = d /\ \A n \in 1 .. N : f[n] = RehashStep(f[n - 1], old, n)
  <2>1. \A n \in 0 .. N : f[n] = Rec(f)[n]
    BY <1>8
  <2>2. 0 \in 0 .. N /\ \A n \in 1 .. N : n \in 0 .. N /\ n # 0
    BY <1>1
  <2> HIDE DEF N, X, rehash
  <2>3. f[0] = d
    BY <2>1, <2>2
  <2>4. ASSUME NEW n \in 1 .. N PROVE f[n] = RehashStep(f[n - 1], old, n)
    BY <2>1, <2>2 DEF RehashStep
  <2> QED
    BY <2>3, <2>4
<1>10. \A n \in 0 .. N : f[n] \in X
  <2> DEFINE T == {n \in 0 .. N : f[n] \in X}
  <2>1. 0 \in T
    BY <1>1, <1>3, <1>9
  <2>2. \A n \in 1 .. N : n - 1 \in T => n \in T
    <3> HIDE DEF X
    <3> QED
      BY <1>1, <1>2, <1>9
  <2>3. \A n \in 0 .. N : n \in T
    <3> HIDE DEF T
    <3> QED
      BY <1>1, <2>1, <2>2, CountingUp
  <2> QED
    BY <2>3
<1>11. f \in [0 .. N -> Dicts]
  BY <1>8, <1>10
<1> QED
  BY <1>8, <1>9, <1>10, <1>11 DEF IsRehash

LEMMA RehashIsTyped ==
  ASSUME NEW d \in Dicts, NEW old \in Dicts
  PROVE  Rehash(d, old) \in Dicts /\ SameHeader(Rehash(d, old), d)
<1>1. PICK f \in [0 .. old.alloc_size -> Dicts] :
        /\ \A n \in 0 .. old.alloc_size : SameHeader(f[n], d)
        /\ Rehash(d, old) = [f[old.alloc_size] EXCEPT !.size = old.size]
  BY RehashIterates
<1>2. old.alloc_size \in 0 .. old.alloc_size /\ old.size \in Int
  BY DictAssumption DEF Dicts
<1>3. PICK r \in Dicts : SameHeader(r, d) /\ Rehash(d, old) = [r EXCEPT !.size = old.size]
  BY <1>1, <1>2
<1> QED
  BY <1>2, <1>3 DEF Dicts, SameHeader

LEMMA FreshIsTyped ==
  /\ Unused \in Dicts
  /\ \A t \in Threads, n \in 0 .. MaxSize : NewDict(t, n) \in Dicts
<1>1. EmptySlot \in [type : {"EMPTY", "TOMBSTONE", "STRING"}, str : Keys \cup {NoKey}]
  BY SlotIsTyped DEF EmptySlot
<1>2. [i \in Slots |-> EmptySlot] \in KeySlots
  BY <1>1 DEF KeySlots
<1>3. 0 \in Values /\ 0 \in 0 .. MaxSize /\ NULL \in Gens \cup {NULL} /\ 0 \in Nat
  BY DictAssumption DEF Values
<1>4. [i \in Slots |-> Cleared] \in [Slots -> Values]
  BY <1>3 DEF Cleared
<1>5. Unused \in Dicts
  BY <1>2, <1>3, <1>4, DictAssumption DEF Unused, Dicts
<1>6. ASSUME NEW t \in Threads, NEW n \in 0 .. MaxSize PROVE NewDict(t, n) \in Dicts
  BY <1>5 DEF NewDict, Dicts
<1> QED
  BY <1>5, <1>6

-----------------------------------------------------------------------------
(* The chain of generations.                                               *)

LEMMA NullIsNone ==
  NULL \notin Gens
BY DictAssumption DEF NULL

LEMMA ChainIsFindable ==
  ASSUME ChainIsWhole
  PROVE  Chain \subseteq Findable /\ Findable \subseteq Live /\ Live \subseteq Gens
<1>1. Findable \subseteq Live /\ Live \subseteq Gens
  BY DEF Findable, Live
<1>2. \A h \in Findable : gen[h].newer # NULL => gen[h].newer \in Findable
  BY <1>1 DEF ChainIsWhole, Link
<1>3. ref \in Findable /\ Findable \in SUBSET Gens
  BY <1>1 DEF ChainIsWhole
<1>4. \A g \in Chain : g \in Findable
  BY <1>2, <1>3 DEF Chain
<1> QED
  BY <1>1, <1>4

(* follow_dict_pointer returns the end of the chain.                       *)
LEMMA NewestIsTip ==
  ASSUME ChainIsWhole
  PROVE  /\ Newest \in Findable /\ Link(Newest) = NULL
         /\ \A g \in Findable : Link(g) = NULL => g = Newest
         /\ Findable \subseteq Live /\ Live \subseteq Gens
<1>1. \E g \in Chain : gen[g].newer = NULL
  BY DEF ChainIsWhole, Link
<1>2. Newest \in Chain /\ gen[Newest].newer = NULL
  BY <1>1 DEF Newest
<1> QED
  BY <1>2, ChainIsFindable DEF ChainIsWhole, Link

(* Steps that leave the shape of the chain alone.                          *)
SameShape ==
  /\ UNCHANGED ref
  /\ \A g \in Gens : /\ gen'[g].alloc_size = gen[g].alloc_size /\ gen'[g].newer = gen[g].newer
                     /\ gen'[g].shared = gen[g].shared /\ gen'[g].creator = gen[g].creator
                     /\ gen[g].newer = NULL => gen'[g].native = gen[g].native
  /\ \A t \in Threads : (pc'[t] = "publish" <=> pc[t] = "publish")
                          /\ (pc[t] = "publish" => new'[t] = new[t])

LEMMA ShapeKept ==
  ASSUME ChainIsWhole, SameShape
  PROVE  /\ ChainIsWhole' /\ Findable' = Findable /\ Live' = Live /\ Chain' = Chain
         /\ Newest' = Newest /\ \A g \in Gens : Link(g)' = Link(g)
<1>1. \A g \in Gens : gen'[g].newer = gen[g].newer
  BY DEF SameShape
<1>2. Live' = Live
  BY DEF Live, SameShape
<1>3. Findable' = Findable
  <2>1. \A g : Private(g)' <=> Private(g)
    BY DEF Private, SameShape
  <2> QED
    BY <1>2, <2>1 DEF Findable
<1>4. Chain' = Chain
  <2>1. ASSUME NEW S \in SUBSET Gens
        PROVE  (\A h \in S : gen'[h].newer # NULL => gen'[h].newer \in S)
                 <=> (\A h \in S : gen[h].newer # NULL => gen[h].newer \in S)
    BY <1>1
  <2> QED
    BY <2>1 DEF Chain, SameShape
<1>5. Chain \subseteq Gens /\ Findable \subseteq Gens
  BY DEF Chain, Findable, Live
<1>6. ChainIsWhole'
  BY <1>1, <1>3, <1>4, <1>5 DEF ChainIsWhole, Link, SameShape
<1>7. Newest' = Newest
  <2>1. Newest \in Findable /\ Link(Newest) = NULL /\ \A g \in Findable : Link(g) = NULL => g = Newest
    BY NewestIsTip
  <2>2. \E g \in Chain' : gen'[g].newer = NULL
    BY <1>1, <1>4, <1>5, <2>1 DEF ChainIsWhole, Link
  <2>3. Newest' \in Chain' /\ gen'[Newest'].newer = NULL
    BY <2>2 DEF Newest
  <2>4. Chain \subseteq Findable
    BY NewestIsTip, ChainIsFindable
  <2> QED
    BY <1>1, <1>4, <1>5, <2>1, <2>3, <2>4 DEF Link
<1> QED
  BY <1>1, <1>2, <1>3, <1>4, <1>6, <1>7 DEF Link

-----------------------------------------------------------------------------
(* Steps of one thread that leave the chain alone.                         *)

OthersStay(t) ==
  \A u \in Threads \ {t} :
    pc'[u] = pc[u] /\ op'[u] = op[u] /\ dict'[u] = dict[u] /\ new'[u] = new[u] /\ at'[u] = at[u]

LEMMA ThreadsKept ==
  ASSUME Protocol, NEW t \in Threads, SameShape, OthersStay(t), ThreadIsGood(t)'
  PROVE  ThreadsAreInOrder'
<1>1. /\ Findable' = Findable /\ Live' = Live /\ \A g \in Gens : Link(g)' = Link(g)
      /\ Findable \subseteq Live /\ Live \subseteq Gens
  BY ShapeKept, NewestIsTip DEF Protocol
<1>2. SUFFICES ASSUME NEW u \in Threads \ {t} PROVE ThreadIsGood(u)'
  BY DEF ThreadsAreInOrder
<1>3. /\ pc'[u] = pc[u] /\ op'[u] = op[u] /\ dict'[u] = dict[u] /\ new'[u] = new[u]
      /\ at'[u] = at[u]
  BY DEF OthersStay
<1>4. /\ \A g \in Gens : gen'[g].shared = gen[g].shared /\ gen'[g].alloc_size = gen[g].alloc_size
      /\ \A g \in Gens : Link(g) = NULL => gen'[g].native = gen[g].native
  BY DEF SameShape, Link
<1>5. /\ PointersAreGood(u) /\ OperationIsKept(u) /\ SharingIsKept(u)
      /\ pc[u] \in AccessPcs => dict[u] \in Gens
  BY <1>1 DEF Protocol, ThreadsAreInOrder, ThreadIsGood, PointersAreGood
<1>6. PointersAreGood(u)'
  <2>1. /\ pc[u] \in {"publish", "freeze_store", "unlock_old"} => pc[u] \in AccessPcs
        /\ pc[u] \in TipPcs => pc[u] \in AccessPcs
    BY DEF AccessPcs, LockedPcs, TipPcs, StorePcs
  <2>2. pc[u] = "publish" => new[u] \in Gens
    BY <1>1, <1>5 DEF PointersAreGood
  <2>3. pc[u] \in TipPcs => Link(dict[u])' = NULL
    BY <1>1, <1>3, <1>5, <2>1 DEF PointersAreGood, Link
  <2>4. pc[u] = "freeze_store" /\ (gen'[dict[u]].shared \/ u = Creator) => Link(dict[u])' = NULL
    BY <1>1, <1>3, <1>4, <1>5, <2>1 DEF PointersAreGood, Link
  <2>5. pc[u] = "unlock_old" => Link(dict[u])' = new[u]
    BY <1>1, <1>3, <1>5, <2>1 DEF PointersAreGood, Link
  <2>6. pc[u] = "publish" => Link(new[u])' = NULL
    BY <1>1, <1>3, <1>5, <2>2 DEF PointersAreGood, Link
  <2> QED
    BY <1>1, <1>3, <1>4, <1>5, <2>1, <2>2, <2>3, <2>4, <2>5, <2>6 DEF PointersAreGood, Link
<1>7. OperationIsKept(u)'
  <2>1. /\ pc[u] \in ProbePcs \cup StorePcs => pc[u] \in AccessPcs
    BY DEF AccessPcs, ProbePcs, ReadPcs
  <2> QED
    BY <1>3, <1>4, <1>5, <2>1 DEF OperationIsKept
<1>8. SharingIsKept(u)'
  <2>1. pc[u] \in {"lock", "check_newer", "unlock_expand", "freeze_lock", "freeze_check",
                   "freeze_unlock", "freeze_back_off"} => pc[u] \in AccessPcs
    BY DEF AccessPcs, LockedPcs
  <2> QED
    BY <1>1, <1>3, <1>4, <1>5, <2>1 DEF SharingIsKept
<1> QED
  BY <1>6, <1>7, <1>8 DEF ThreadIsGood

(* The lock.                                                               *)
LEMMA HoldersAreFinite ==
  \A g : IsFiniteSet(Holders(g)) /\ Cardinality(Holders(g)) \in Nat
<1> SUFFICES ASSUME NEW g PROVE IsFiniteSet(Holders(g)) /\ Cardinality(Holders(g)) \in Nat
  OBVIOUS
<1>1. Holders(g) \subseteq Threads /\ IsFiniteSet(Threads)
  BY DictAssumption DEF Holders
<1> QED
  BY <1>1, FS_Subset, FS_CardinalityType

LEMMA OthersHold ==
  ASSUME Protocol, NEW t \in Threads, SameShape, OthersStay(t)
  PROVE  \A u \in Threads \ {t}, g \in Live :
           (Owns(u, g)' <=> Owns(u, g)) /\ (Counted(u, g)' <=> Counted(u, g))
<1>1. /\ Findable' = Findable /\ Live' = Live /\ \A g \in Gens : Link(g)' = Link(g)
      /\ Findable \subseteq Live /\ Live \subseteq Gens
  BY ShapeKept, NewestIsTip DEF Protocol
<1>2. \A g \in Gens : gen'[g].shared = gen[g].shared
  BY DEF SameShape
<1> QED
  BY <1>1, <1>2 DEF OthersStay, Owns, Counted

LEMMA LocksKept ==
  ASSUME Protocol, Live' = Live, \A g \in Gens : gen'[g].write_lock = gen[g].write_lock,
         \A u \in Threads, g \in Live : (Owns(u, g)' => Owns(u, g))
                                          /\ (Counted(u, g)' <=> Counted(u, g))
  PROVE  LocksAreHeld'
<1>1. \A g \in Live : Holders(g)' = Holders(g)
  BY DEF Holders
<1>2. Live \subseteq Gens
  BY DEF Live
<1> QED
  BY <1>1, <1>2 DEF Protocol, LocksAreHeld

LEMMA LockTaken ==
  ASSUME Protocol, Live' = Live, NEW t \in Threads, NEW h \in Live,
         \A g \in Gens : gen'[g].write_lock = IF g = h THEN gen[g].write_lock + 1
                                              ELSE gen[g].write_lock,
         \A u \in Threads, g \in Live : <<u, g>> # <<t, h>> =>
           (Owns(u, g)' => Owns(u, g)) /\ (Counted(u, g)' <=> Counted(u, g)),
         ~Counted(t, h), Counted(t, h)', Owns(t, h)' => gen[h].write_lock = 0
  PROVE  LocksAreHeld'
<1>1. Live \subseteq Gens
  BY DEF Live
<1>2. \A g \in Live \ {h} : Holders(g)' = Holders(g)
  BY DEF Holders
<1>3. Holders(h)' = Holders(h) \cup {t} /\ t \notin Holders(h)
  BY DEF Holders
<1>4. Cardinality(Holders(h)') = Cardinality(Holders(h)) + 1
  BY <1>3, HoldersAreFinite, FS_AddElement
<1>5. \A g \in Live : gen'[g].write_lock = Cardinality(Holders(g)')
  BY <1>1, <1>2, <1>4 DEF Protocol, LocksAreHeld
<1>6. ASSUME NEW g \in Live, NEW u \in Threads, NEW v \in Threads, Owns(u, g)', Owns(v, g)'
      PROVE  u = v
  <2>1. CASE g # h \/ (u # t /\ v # t)
    BY <1>6, <2>1 DEF Protocol, LocksAreHeld
  <2>2. CASE g = h /\ Owns(t, h)'
    <3>1. Cardinality(Holders(h)) = 0
      BY <2>2 DEF Protocol, LocksAreHeld
    <3>2. Holders(h) = {}
      BY <3>1, HoldersAreFinite, FS_EmptySet
    <3>3. \A w \in Threads : ~Owns(w, h)
      BY <3>2 DEF Holders, Counted
    <3>4. \A w \in Threads \ {t} : ~Owns(w, h)'
      BY <3>3
    <3> QED
      BY <1>6, <2>2, <3>4
  <2> QED
    BY <1>6, <2>1, <2>2
<1> QED
  BY <1>5, <1>6 DEF LocksAreHeld

LEMMA LockLeft ==
  ASSUME Protocol, Live' = Live, NEW t \in Threads, NEW h \in Live,
         \A g \in Gens : gen'[g].write_lock = IF g = h THEN gen[g].write_lock - 1
                                              ELSE gen[g].write_lock,
         \A u \in Threads, g \in Live : <<u, g>> # <<t, h>> =>
           (Owns(u, g)' => Owns(u, g)) /\ (Counted(u, g)' <=> Counted(u, g)),
         Counted(t, h), ~Counted(t, h)'
  PROVE  LocksAreHeld' /\ gen[h].write_lock > 0
<1>1. Live \subseteq Gens
  BY DEF Live
<1>2. \A g \in Live \ {h} : Holders(g)' = Holders(g)
  BY DEF Holders
<1>3. Holders(h)' = Holders(h) \ {t} /\ t \in Holders(h)
  BY DEF Holders
<1>4. Cardinality(Holders(h)') = Cardinality(Holders(h)) - 1 /\ Cardinality(Holders(h)) > 0
  BY <1>3, HoldersAreFinite, FS_RemoveElement, FS_EmptySet
<1>5. \A g \in Live : gen'[g].write_lock = Cardinality(Holders(g)')
  BY <1>1, <1>2, <1>4 DEF Protocol, LocksAreHeld
<1>6. \A g \in Live, u \in Threads : Owns(u, g)' => Owns(u, g)
  BY DEF Counted
<1> QED
  BY <1>4, <1>5, <1>6 DEF Protocol, LocksAreHeld

LEMMA ShapedStep ==
  ASSUME Protocol, NEW t \in Threads, SameShape, OthersStay(t), Typed', ThreadIsGood(t)',
         LocksAreHeld', \A g \in Gens : gen'[g].native => gen[g].native,
         pc[t] = "unlock_old" => ~gen'[dict[t]].native
  PROVE  Protocol'
<1>1. /\ Findable' = Findable /\ Live' = Live /\ \A g \in Gens : Link(g)' = Link(g)
      /\ Findable \subseteq Live /\ Live \subseteq Gens /\ ChainIsWhole'
  BY ShapeKept, NewestIsTip DEF Protocol
<1>2. ThreadsAreInOrder'
  BY ThreadsKept
<1>3. Creators'
  BY <1>1 DEF Protocol, Creators, SameShape
<1>5. SharingIsFinal'
  <2>1. \A g \in Findable : gen'[g].shared = gen[g].shared /\ Link(g)' = Link(g)
    BY <1>1 DEF SameShape
  <2> QED
    BY <1>1, <2>1 DEF Protocol, SharingIsFinal
<1>4. BlockIsKept'
  <2> SUFFICES ASSUME NEW g \in Findable
               PROVE  /\ Link(g) = NULL => gen'[g].native
                      /\ Link(g) # NULL /\ gen'[g].native =>
                           \E u \in Threads : pc'[u] = "unlock_old" /\ dict'[u] = g
    BY <1>1 DEF BlockIsKept
  <2>1. g \in Gens
    BY <1>1
  <2>2. Link(g) = NULL => gen'[g].native
    BY <2>1 DEF Protocol, BlockIsKept, SameShape, Link
  <2>3. ASSUME Link(g) # NULL, gen'[g].native
        PROVE  \E u \in Threads : pc'[u] = "unlock_old" /\ dict'[u] = g
    <3>1. PICK u \in Threads : pc[u] = "unlock_old" /\ dict[u] = g
      BY <2>1, <2>3 DEF Protocol, BlockIsKept
    <3>2. u # t
      BY <2>3, <3>1
    <3> QED
      BY <3>1, <3>2 DEF OthersStay
  <2> QED
    BY <2>2, <2>3
<1> QED
  BY <1>1, <1>2, <1>3, <1>4, <1>5 DEF Protocol

(* Where its control point leaves a thread.                                *)
LEMMA ThreadFacts ==
  ASSUME Protocol, NEW t \in Threads
  PROVE  /\ PointersAreGood(t) /\ OperationIsKept(t) /\ SharingIsKept(t)
         /\ pc[t] \in AccessPcs => dict[t] \in Findable /\ dict[t] \in Live /\ dict[t] \in Gens
         /\ Newest \in Findable /\ Newest \in Live /\ Newest \in Gens /\ Link(Newest) = NULL
         /\ \A g \in Findable : Link(g) = NULL => g = Newest
         /\ gen[Newest] \in Dicts /\ gen[Newest].creator = Creator
         /\ gen[Newest].alloc_size \in 1 .. MaxSize
         /\ dict[t] \in Gens => gen[dict[t]] \in Dicts
<1>1. Newest \in Findable /\ Link(Newest) = NULL
      /\ \A g \in Findable : Link(g) = NULL => g = Newest
      /\ Findable \subseteq Live /\ Live \subseteq Gens
  BY NewestIsTip DEF Protocol
<1>2. PointersAreGood(t) /\ OperationIsKept(t) /\ SharingIsKept(t)
  BY DEF Protocol, ThreadsAreInOrder, ThreadIsGood
<1>3. \A g \in Gens : gen[g] \in Dicts
  BY DEF Protocol, Typed
<1>4. gen[Newest] \in Dicts /\ gen[Newest].alloc_size > 0 /\ gen[Newest].creator = Creator
  BY <1>1, <1>3 DEF Live, Protocol, Creators
<1>5. gen[Newest].alloc_size \in 1 .. MaxSize
  <2>1. gen[Newest].alloc_size \in 0 .. MaxSize
    BY <1>4 DEF Dicts
  <2> QED
    BY <1>4, <2>1
<1>6. pc[t] \in AccessPcs => dict[t] \in Findable /\ dict[t] \in Live /\ dict[t] \in Gens
  BY <1>1, <1>2 DEF PointersAreGood
<1> QED
  BY <1>1, <1>2, <1>3, <1>4, <1>5, <1>6

(* A step that changes no generation, and not who has a lock.              *)
LEMMA LocalStep ==
  ASSUME Protocol, NEW t \in Threads, UNCHANGED <<gen, ref>>, OthersStay(t), Typed',
         pc[t] \notin {"publish", "unlock_old"}, pc'[t] # "publish", ThreadIsGood(t)',
         \A g \in Live : (Owns(t, g)' => Owns(t, g)) /\ (Counted(t, g)' <=> Counted(t, g))
  PROVE  Protocol'
<1>1. SameShape
  BY DEF SameShape, OthersStay
<1>2. Live' = Live
  BY DEF Live
<1>3. \A u \in Threads, g \in Live :
        (Owns(u, g)' => Owns(u, g)) /\ (Counted(u, g)' <=> Counted(u, g))
  BY <1>1, OthersHold
<1>4. LocksAreHeld'
  BY <1>2, <1>3, LocksKept
<1> QED
  BY <1>1, <1>4, ShapedStep

(* A thread at such a point has no lock.                                   *)
FreePcs == {"idle", "retry", "promote", "lock", "done", "expand_lock", "freeze_lock"} \cup ReadPcs

LEMMA FreeOwnsNothing ==
  ASSUME NEW t \in Threads
  PROVE  /\ pc[t] \in FreePcs => \A g : ~Owns(t, g) /\ ~Counted(t, g)
         /\ pc'[t] \in FreePcs => \A g : ~Owns(t, g)' /\ ~Counted(t, g)'
         /\ pc'[t] \in {"search", "freeze_store"} /\ ~gen'[dict'[t]].shared =>
              \A g : ~Owns(t, g)' /\ ~Counted(t, g)'
         /\ FreePcs \cap {"publish", "unlock_old"} = {}
BY DEF FreePcs, ReadPcs, Owns, Counted, LockedPcs, StorePcs

LEMMA FreeStep ==
  ASSUME Protocol, NEW t \in Threads, UNCHANGED <<gen, ref>>, OthersStay(t), Typed',
         pc[t] \in FreePcs, ThreadIsGood(t)',
         pc'[t] \in FreePcs
           \/ (pc'[t] \in {"search", "freeze_store"} /\ ~gen'[dict'[t]].shared)
  PROVE  Protocol'
BY FreeOwnsNothing, LocalStep

-----------------------------------------------------------------------------
(* The start of an operation, and its end.                                 *)

(* A thread between operations has nothing to keep.                        *)
LEMMA ReturnedIsGood ==
  ASSUME Protocol, NEW t \in Threads, Return(t), pc' = [pc EXCEPT ![t] = "idle"]
  PROVE  /\ ThreadIsGood(t)' /\ OthersStay(t) /\ pc'[t] = "idle"
         /\ op'[t] = NoOp
         /\ pc' \in [Threads -> Pcs] /\ op' \in [Threads -> Operation]
         /\ dict' \in [Threads -> Gens \cup {NULL}] /\ new' \in [Threads -> Gens \cup {NULL}]
         /\ at' \in [Threads -> 0 .. MaxSize]
<1>1. NoOp \in Operation /\ 0 \in 0 .. MaxSize
  BY DictAssumption DEF NoOp, Operation, Values, Cleared
<1>2. /\ pc' \in [Threads -> Pcs] /\ op' \in [Threads -> Operation]
      /\ dict' \in [Threads -> Gens \cup {NULL}] /\ new' \in [Threads -> Gens \cup {NULL}]
      /\ at' \in [Threads -> 0 .. MaxSize]
  BY <1>1 DEF Return, Protocol, Typed, Pcs, OutPcs
<1>3. pc'[t] = "idle" /\ op'[t] = NoOp /\ at'[t] = 0
  BY <1>2 DEF Return, Protocol, Typed
<1>4. OthersStay(t)
  BY DEF Return, OthersStay, Protocol, Typed
<1>5. PointersAreGood(t)'
  BY <1>3 DEF PointersAreGood, AccessPcs, TipPcs, ReadPcs, StorePcs, LockedPcs
<1>6. OperationIsKept(t)'
  BY <1>3 DEF OperationIsKept, KindsAt, ProbePcs, FreezePcs, GrowPcs, SearchPcs, StorePcs, NoOp
<1>7. SharingIsKept(t)'
  BY <1>3 DEF SharingIsKept, AccessPcs, ReadPcs, StorePcs, LockedPcs
<1> QED
  BY <1>2, <1>3, <1>4, <1>5, <1>6, <1>7 DEF ThreadIsGood

LEMMA StartKeeps ==
  ASSUME Protocol, NEW t \in Threads, StartRead(t) \/ StartWrite(t) \/ StartErase(t)
  PROVE  Protocol'
<1>1. /\ pc[t] = "idle" /\ pc' = [pc EXCEPT ![t] = "retry"]
      /\ UNCHANGED <<gen, ref, dict, new, at, result, entries>>
      /\ nops' \in Values /\ seen' \in [Threads -> SUBSET (Values \cup {Absent})]
      /\ raced' \in [Threads -> BOOLEAN]
      /\ \E o \in Operation : o.kind \in {"read", "write", "erase"} /\ o.key \in Keys
                              /\ op' = [op EXCEPT ![t] = o]
  <2>1. CASE StartRead(t)
    <3>1. PICK k \in Keys :
            /\ op' = [op EXCEPT ![t] = [kind |-> "read", key |-> k, value |-> Cleared]]
            /\ seen' = [seen EXCEPT ![t] = {entries[k]} \cup InProgress(k)]
            /\ raced' = [raced EXCEPT ![t] = BeingErased(k)]
      BY <2>1 DEF StartRead
    <3>2. [kind |-> "read", key |-> k, value |-> Cleared] \in Operation
      BY DictAssumption DEF Operation, Values, Cleared
    <3>3. InProgress(k) \in SUBSET Values /\ entries[k] \in Values \cup {Absent}
      BY DEF InProgress, Protocol, Typed, Operation
    <3>4. BeingErased(k) \in BOOLEAN
      BY DEF BeingErased
    <3>5. /\ seen' \in [Threads -> SUBSET (Values \cup {Absent})]
          /\ raced' \in [Threads -> BOOLEAN]
      BY <3>1, <3>3, <3>4 DEF Protocol, Typed
    <3> QED
      BY ZenonT(30), <2>1, <3>1, <3>2, <3>5 DEF StartRead, Goto, Protocol, Typed
  <2>2. ASSUME NEW kind \in {"write", "erase"}, StartUpdate(t, kind)
        PROVE  /\ nops' \in Values
               /\ \E o \in Operation : o.kind \in {"read", "write", "erase"} /\ o.key \in Keys
                                       /\ op' = [op EXCEPT ![t] = o]
               /\ pc[t] = "idle" /\ pc' = [pc EXCEPT ![t] = "retry"]
               /\ UNCHANGED <<gen, ref, dict, new, at, result, entries, seen, raced>>
    <3>1. PICK k \in Keys :
            op' = [op EXCEPT ![t] = [kind |-> kind, key |-> k,
                                     value |-> IF kind = "write" THEN nops + 1 ELSE Cleared]]
      BY <2>2 DEF StartUpdate
    <3>2. nops < MaxOps /\ nops' = nops + 1 /\ nops \in 0 .. MaxOps /\ MaxOps \in Nat
      BY <2>2, DictAssumption DEF StartUpdate, Protocol, Typed, Values
    <3>3. nops + 1 \in Values /\ Cleared \in Values
      BY <3>2 DEF Values, Cleared
    <3>4. PICK o : o = [kind |-> kind, key |-> k,
                        value |-> IF kind = "write" THEN nops + 1 ELSE Cleared]
      OBVIOUS
    <3>5. o \in Operation /\ o.kind \in {"read", "write", "erase"} /\ o.key \in Keys
      BY <3>3, <3>4 DEF Operation
    <3> QED
      BY <2>2, <3>1, <3>2, <3>3, <3>4, <3>5 DEF StartUpdate, Goto, ghosts
  <2> QED
    BY <2>1, <2>2 DEF StartWrite, StartErase, Protocol, Typed
<1>2. PICK o \in Operation : o.kind \in {"read", "write", "erase"} /\ o.key \in Keys
                             /\ op' = [op EXCEPT ![t] = o]
  BY <1>1
<1>3. /\ pc' \in [Threads -> Pcs] /\ pc'[t] = "retry" /\ op' \in [Threads -> Operation]
      /\ op'[t] = o
  BY <1>1, <1>2 DEF Protocol, Typed, Pcs, OutPcs
<1>4. Typed'
  BY <1>1, <1>3 DEF Protocol, Typed
<1>5. OthersStay(t)
  BY <1>1, <1>2 DEF OthersStay, Protocol, Typed
<1>6. ThreadIsGood(t)'
  <2>1. at'[t] = 0
    BY <1>1, ThreadFacts DEF OperationIsKept
  <2>2. PointersAreGood(t)'
    BY <1>3 DEF PointersAreGood, AccessPcs, TipPcs, ReadPcs, StorePcs, LockedPcs
  <2>3. OperationIsKept(t)'
    BY <1>2, <1>3, <2>1
       DEF OperationIsKept, KindsAt, ProbePcs, FreezePcs, GrowPcs, SearchPcs, StorePcs
  <2>4. SharingIsKept(t)'
    BY <1>3 DEF SharingIsKept, AccessPcs, ReadPcs, StorePcs, LockedPcs
  <2> QED
    BY <2>2, <2>3, <2>4 DEF ThreadIsGood
<1> QED
  BY <1>1, <1>3, <1>4, <1>5, <1>6, FreeStep DEF FreePcs

LEMMA StartPromotionKeeps ==
  ASSUME Protocol, NEW t \in Threads, StartPromotion(t)
  PROVE  Protocol'
<1>1. /\ pc[t] = "retry" /\ pc' = [pc EXCEPT ![t] = "promote"]
      /\ UNCHANGED <<gen, ref, op, dict, new, at, result, nops, entries, seen, raced>>
  BY DEF StartPromotion, Goto, ghosts
<1>2. pc' \in [Threads -> Pcs] /\ pc'[t] = "promote"
  BY <1>1 DEF Protocol, Typed, Pcs, OutPcs
<1>3. Typed' /\ OthersStay(t)
  BY <1>1, <1>2 DEF Protocol, Typed, OthersStay
<1>4. ThreadIsGood(t)'
  <2>1. PointersAreGood(t)'
    BY <1>2 DEF PointersAreGood, AccessPcs, TipPcs, ReadPcs, StorePcs, LockedPcs
  <2>2. OperationIsKept(t)'
    BY <1>1, <1>2, ThreadFacts
       DEF OperationIsKept, KindsAt, ProbePcs, FreezePcs, GrowPcs, SearchPcs, StorePcs
  <2>3. SharingIsKept(t)'
    BY <1>2 DEF SharingIsKept, AccessPcs, ReadPcs, StorePcs, LockedPcs
  <2> QED
    BY <2>1, <2>2, <2>3 DEF ThreadIsGood
<1> QED
  BY <1>1, <1>2, <1>3, <1>4, FreeStep DEF FreePcs

(* What a step leaves that changes no generation and no other thread.      *)
LEMMA Unmoved ==
  ASSUME Protocol, NEW t \in Threads, UNCHANGED <<gen, ref>>, OthersStay(t),
         pc[t] \notin {"publish", "unlock_old"}, pc'[t] # "publish"
  PROVE  Findable' = Findable /\ Live' = Live /\ \A g \in Gens : Link(g)' = Link(g)
<1>1. SameShape
  BY DEF SameShape, OthersStay
<1> QED
  BY <1>1, ShapeKept DEF Protocol

LEMMA BeginAccessKeeps ==
  ASSUME Protocol, NEW t \in Threads, BeginAccess(t)
  PROVE  Protocol'
<1> DEFINE to == IF op[t].kind = "read" THEN "probe"
                 ELSE IF gen[Newest].shared THEN "lock" ELSE "search"
<1>1. /\ pc[t] = "retry" /\ pc' = [pc EXCEPT ![t] = to] /\ MayAccess(t)
      /\ dict' = [dict EXCEPT ![t] = Newest]
      /\ UNCHANGED <<gen, ref, op, new, at, result, nops, entries, seen, raced>>
  BY DEF BeginAccess, Goto, ghosts
<1>2. /\ Newest \in Findable /\ Newest \in Gens /\ Link(Newest) = NULL
      /\ \A g \in Findable : Link(g) = NULL => g = Newest
      /\ gen[Newest].creator = Creator /\ gen[Newest].alloc_size \in 1 .. MaxSize
      /\ op[t].kind \in {"read", "write", "erase"} /\ op[t].key \in Keys /\ at[t] = 0
  BY <1>1, ThreadFacts DEF OperationIsKept, KindsAt, ProbePcs, FreezePcs, GrowPcs, SearchPcs
<1>3. to \in {"probe", "lock", "search"} /\ (to = "probe" <=> op[t].kind = "read")
      /\ (to = "lock" => gen[Newest].shared) /\ (to = "search" => ~gen[Newest].shared)
  OBVIOUS
<1>4. /\ pc' \in [Threads -> Pcs] /\ pc'[t] = to
      /\ dict' \in [Threads -> Gens \cup {NULL}] /\ dict'[t] = Newest
  BY <1>1, <1>2, <1>3 DEF Protocol, Typed, Pcs, AccessPcs, ReadPcs
<1> HIDE DEF to
<1>5. Typed' /\ OthersStay(t)
  BY <1>1, <1>4 DEF Protocol, Typed, OthersStay
<1>6. Findable' = Findable /\ \A g \in Gens : Link(g)' = Link(g)
  BY <1>1, <1>3, <1>4, <1>5, Unmoved
<1>7. ThreadIsGood(t)'
  <2>1. PointersAreGood(t)'
    BY <1>2, <1>3, <1>4, <1>6 DEF PointersAreGood
  <2>2. OperationIsKept(t)'
    BY <1>1, <1>2, <1>3, <1>4
       DEF OperationIsKept, KindsAt, ProbePcs, FreezePcs, GrowPcs, SearchPcs, StorePcs
  <2>3. SharingIsKept(t)'
    <3>1. t # Creator => gen[Newest].shared
      BY <1>1, <1>2 DEF MayAccess
    <3>2. t # Creator => \A g \in Findable' : Link(g)' = NULL => gen'[g].shared
      BY <1>1, <1>2, <1>6, <3>1 DEF Link
    <3> QED
      BY <1>1, <1>3, <1>4, <3>2 DEF SharingIsKept
  <2> QED
    BY <2>1, <2>2, <2>3 DEF ThreadIsGood
<1>8. /\ pc[t] \in FreePcs
      /\ pc'[t] \in FreePcs \/ (pc'[t] \in {"search", "freeze_store"} /\ ~gen'[dict'[t]].shared)
  BY <1>1, <1>3, <1>4 DEF FreePcs, ReadPcs
<1> QED
  BY <1>1, <1>5, <1>7, <1>8, FreeStep

LEMMA StartHandleUseKeeps ==
  ASSUME Protocol, NEW t \in Threads, StartHandleUse(t)
  PROVE  Protocol'
<1>1. /\ pc[t] = "idle" /\ pc' = [pc EXCEPT ![t] = "read_native"]
      /\ op' = [op EXCEPT ![t].kind = "native"] /\ dict' = [dict EXCEPT ![t] = Newest]
      /\ UNCHANGED <<gen, ref, new, at, result, nops, entries, seen, raced>>
  BY DEF StartHandleUse, Goto, ghosts
<1>2. Newest \in Findable /\ Newest \in Gens
  BY ThreadFacts
<1>3. /\ pc' \in [Threads -> Pcs] /\ pc'[t] = "read_native"
      /\ dict' \in [Threads -> Gens \cup {NULL}] /\ dict'[t] = Newest
  BY <1>1, <1>2 DEF Protocol, Typed, Pcs, AccessPcs, ReadPcs
<1>4. op' \in [Threads -> Operation] /\ op'[t].kind = "native"
  <2>1. op \in [Threads -> Operation] /\ op[t] \in Operation
    BY DEF Protocol, Typed
  <2>2. [op[t] EXCEPT !.kind = "native"] \in Operation
    BY <2>1 DEF Operation
  <2> QED
    BY <1>1, <2>1, <2>2 DEF Operation
<1>5. Typed' /\ OthersStay(t)
  BY <1>1, <1>3, <1>4 DEF Protocol, Typed, OthersStay
<1>6. Findable' = Findable
  BY <1>1, <1>3, <1>5, Unmoved
<1>7. ThreadIsGood(t)'
  <2>1. PointersAreGood(t)'
    BY <1>2, <1>3, <1>6 DEF PointersAreGood, TipPcs, StorePcs
  <2>2. OperationIsKept(t)'
    BY <1>3, <1>4 DEF OperationIsKept, KindsAt, ProbePcs, FreezePcs, GrowPcs, SearchPcs, StorePcs
  <2>3. SharingIsKept(t)'
    BY <1>3 DEF SharingIsKept
  <2> QED
    BY <2>1, <2>2, <2>3 DEF ThreadIsGood
<1> QED
  BY <1>1, <1>3, <1>5, <1>7, FreeStep DEF FreePcs, ReadPcs

LEMMA StartFreezeKeeps ==
  ASSUME Protocol, NEW t \in Threads, StartFreeze(t)
  PROVE  Protocol'
<1> DEFINE to == IF gen[Newest].shared THEN "freeze_lock" ELSE "freeze_store"
<1>1. /\ pc[t] = "idle" /\ pc' = [pc EXCEPT ![t] = to]
      /\ op' = [op EXCEPT ![t].kind = "freeze"] /\ dict' = [dict EXCEPT ![t] = Newest]
      /\ UNCHANGED <<gen, ref, new, at, result, nops, entries, seen, raced>>
  BY DEF StartFreeze, Goto, ghosts
<1>2. /\ Newest \in Findable /\ Newest \in Gens /\ Link(Newest) = NULL
      /\ \A g \in Findable : Link(g) = NULL => g = Newest
  BY ThreadFacts
<1>3. to \in {"freeze_lock", "freeze_store"} /\ (to = "freeze_lock" <=> gen[Newest].shared)
  OBVIOUS
<1>4. /\ pc' \in [Threads -> Pcs] /\ pc'[t] = to
      /\ dict' \in [Threads -> Gens \cup {NULL}] /\ dict'[t] = Newest
  BY <1>1, <1>2, <1>3 DEF Protocol, Typed, Pcs, AccessPcs
<1>5. op' \in [Threads -> Operation] /\ op'[t].kind = "freeze"
  <2>1. op \in [Threads -> Operation] /\ op[t] \in Operation
    BY DEF Protocol, Typed
  <2>2. [op[t] EXCEPT !.kind = "freeze"] \in Operation
    BY <2>1 DEF Operation
  <2> QED
    BY <1>1, <2>1, <2>2 DEF Operation
<1> HIDE DEF to
<1>6. Typed' /\ OthersStay(t)
  BY <1>1, <1>4, <1>5 DEF Protocol, Typed, OthersStay
<1>7. Findable' = Findable /\ \A g \in Gens : Link(g)' = Link(g)
  BY <1>1, <1>3, <1>4, <1>6, Unmoved
<1>8. ThreadIsGood(t)'
  <2>1. PointersAreGood(t)'
    BY <1>2, <1>3, <1>4, <1>7 DEF PointersAreGood, TipPcs, StorePcs
  <2>2. OperationIsKept(t)'
    BY <1>3, <1>4, <1>5
       DEF OperationIsKept, KindsAt, ProbePcs, FreezePcs, GrowPcs, SearchPcs, StorePcs
  <2>3. SharingIsKept(t)'
    <3>1. to = "freeze_lock" => \A g \in Findable' : Link(g)' = NULL => gen'[g].shared
      BY <1>1, <1>2, <1>3, <1>7, NewestIsTip DEF Protocol, Link
    <3> QED
      BY <1>1, <1>3, <1>4, <3>1 DEF SharingIsKept
  <2> QED
    BY <2>1, <2>2, <2>3 DEF ThreadIsGood
<1>9. /\ pc[t] \in FreePcs
      /\ pc'[t] \in FreePcs \/ (pc'[t] \in {"search", "freeze_store"} /\ ~gen'[dict'[t]].shared)
  BY <1>1, <1>3, <1>4 DEF FreePcs
<1> QED
  BY <1>1, <1>6, <1>8, <1>9, FreeStep

LEMMA SlotIsInTable ==
  ASSUME NEW size \in Nat \ {0}, NEW h \in Nat, NEW n \in Nat
  PROVE  (h + n) % size \in 0 .. size - 1
OBVIOUS

LEMMA SlotsAreInTable ==
  ASSUME NEW d \in Dicts, d.alloc_size > 0, NEW k \in Keys, NEW n \in Nat
  PROVE  Slot(d, k, n) \in 0 .. d.alloc_size - 1 /\ Slot(d, k, n) \in Slots
<1>1. d.alloc_size \in Nat \ {0} /\ d.alloc_size <= MaxSize /\ MaxSize \in Nat
  BY DictAssumption DEF Dicts
<1>2. Hash[k] \in Nat
  BY DictAssumption
<1>3. Slot(d, k, n) \in 0 .. d.alloc_size - 1
  BY <1>1, <1>2, SlotIsInTable DEF Slot
<1> QED
  BY <1>1, <1>3 DEF Slots

LEMMA ReadKeeps ==
  ASSUME Protocol, NEW t \in Threads,
         LoadKeyType(t) \/ LoadKeyStr(t) \/ ReadValue(t) \/ ReadNative(t)
  PROVE  Protocol'
<1>1. /\ pc[t] \in ProbePcs \cup {"read_native"} /\ dict[t] \in Findable /\ dict[t] \in Gens
      /\ dict[t] \in Live
  BY ThreadFacts DEF LoadKeyType, LoadKeyStr, ReadValue, ReadNative, NextProbe, Goto, ProbePcs,
                     AccessPcs, ReadPcs
<1>2. /\ gen[dict[t]] \in Dicts /\ gen[dict[t]].alloc_size \in 1 .. MaxSize /\ MaxSize \in Nat
      /\ at[t] \in 0 .. MaxSize
  <2>1. gen[dict[t]] \in Dicts /\ at[t] \in 0 .. MaxSize
    BY <1>1 DEF Protocol, Typed
  <2>2. gen[dict[t]].alloc_size \in 0 .. MaxSize /\ gen[dict[t]].alloc_size > 0
    BY <1>1, <2>1 DEF Dicts, Live
  <2>3. gen[dict[t]].alloc_size \in 1 .. MaxSize /\ MaxSize \in Nat
    BY <2>2, DictAssumption
  <2> QED
    BY <2>1, <2>3
<1>3. /\ op[t].kind \in {"read", "native"}
      /\ pc[t] \in ProbePcs => op[t].kind = "read" /\ at[t] < gen[dict[t]].alloc_size
      /\ pc[t] = "read_native" => op[t].kind = "native"
      /\ op[t].kind = "read" => op[t].key \in Keys
  BY <1>1, ThreadFacts
     DEF OperationIsKept, KindsAt, ProbePcs, FreezePcs, GrowPcs, SearchPcs, StorePcs
<1>4. UNCHANGED <<gen, ref, op, dict, new, nops, entries, seen, raced>>
  BY DEF LoadKeyType, LoadKeyStr, ReadValue, ReadNative, ghosts
<1>5. PICK to : pc' = [pc EXCEPT ![t] = to]
  <2>1. CASE LoadKeyType(t)
    BY <2>1 DEF LoadKeyType, NextProbe, Goto
  <2>2. CASE LoadKeyStr(t)
    BY <2>2 DEF LoadKeyStr, NextProbe, Goto
  <2>3. CASE ReadValue(t) \/ ReadNative(t)
    BY <2>3 DEF ReadValue, ReadNative, Goto
  <2> QED
    BY <2>1, <2>2, <2>3
<1>6. PICK n : at' = [at EXCEPT ![t] = n]
  <2>1. at = [at EXCEPT ![t] = at[t]]
    BY DEF Protocol, Typed
  <2>2. CASE LoadKeyType(t)
    BY <2>1, <2>2 DEF LoadKeyType, NextProbe
  <2>3. CASE LoadKeyStr(t)
    BY <2>1, <2>3 DEF LoadKeyStr, NextProbe
  <2>4. CASE ReadValue(t) \/ ReadNative(t)
    BY <2>1, <2>4 DEF ReadValue, ReadNative
  <2> QED
    BY <2>2, <2>3, <2>4
<1>7. pc'[t] = to /\ at'[t] = n /\ \A u \in Threads \ {t} : pc'[u] = pc[u] /\ at'[u] = at[u]
  BY <1>5, <1>6 DEF Protocol, Typed
<1>8. /\ to \in ProbePcs \cup {"done"} /\ n \in 0 .. MaxSize
      /\ to \in ProbePcs => n < gen[dict[t]].alloc_size /\ op[t].kind = "read"
  <2>1. ASSUME NextProbe(t), pc[t] \in ProbePcs
        PROVE  /\ to \in {"probe", "done"} /\ n = at[t] + 1
               /\ to = "probe" => n < gen[dict[t]].alloc_size
    BY <1>5, <1>6, <1>7, <2>1 DEF NextProbe, Protocol, Typed
  <2>2. CASE LoadKeyType(t)
    <3>1. CASE ProbedKey(t).type = "TOMBSTONE"
      BY <1>2, <1>3, <2>1, <2>2, <3>1 DEF LoadKeyType, ProbePcs
    <3>2. CASE ProbedKey(t).type # "TOMBSTONE"
      BY <1>2, <1>3, <1>7, <2>2, <3>2 DEF LoadKeyType, Goto, ProbePcs, Protocol, Typed
    <3> QED
      BY <3>1, <3>2
  <2>3. CASE LoadKeyStr(t)
    <3>1. CASE ProbedKey(t).str = op[t].key
      BY <1>2, <1>3, <1>7, <2>3, <3>1 DEF LoadKeyStr, Goto, ProbePcs, Protocol, Typed
    <3>2. CASE ProbedKey(t).str # op[t].key
      BY <1>2, <1>3, <2>1, <2>3, <3>2 DEF LoadKeyStr, ProbePcs
    <3> QED
      BY <3>1, <3>2
  <2>4. CASE ReadValue(t) \/ ReadNative(t)
    BY <1>2, <1>7, <2>4 DEF ReadValue, ReadNative, Goto, ProbePcs, Protocol, Typed
  <2> QED
    BY <2>2, <2>3, <2>4
<1>9. result' \in [Threads -> Values \cup {Absent, ControlBlock}]
  <2>1. CASE ReadValue(t)
    <3>1. op[t].key \in Keys /\ at[t] \in Nat
      BY <1>2, <1>3, <2>1 DEF ReadValue, Goto, ProbePcs
    <3>2. Slot(gen[dict[t]], op[t].key, at[t]) \in Slots
      BY <1>2, <3>1, SlotsAreInTable
    <3>3. gen[dict[t]].value[Slot(gen[dict[t]], op[t].key, at[t])] \in Values
      BY <1>2, <3>2 DEF Dicts
    <3> QED
      BY <2>1, <3>3 DEF ReadValue, Protocol, Typed
  <2> QED
    BY <2>1 DEF LoadKeyType, LoadKeyStr, ReadNative, Protocol, Typed
<1>10. Typed' /\ OthersStay(t)
  <2>1. pc' \in [Threads -> Pcs] /\ at' \in [Threads -> 0 .. MaxSize]
    BY <1>5, <1>6, <1>8 DEF Protocol, Typed, Pcs, AccessPcs, ReadPcs, ProbePcs
  <2> QED
    BY <1>4, <1>7, <1>9, <2>1 DEF Protocol, Typed, OthersStay
<1>11. Findable' = Findable /\ \A g \in Gens : Link(g)' = Link(g)
  BY <1>1, <1>4, <1>7, <1>8, <1>10, Unmoved DEF ProbePcs
<1>12. ThreadIsGood(t)'
  <2>1. PointersAreGood(t)'
    BY <1>1, <1>4, <1>7, <1>8, <1>11 DEF PointersAreGood, ProbePcs, TipPcs, StorePcs
  <2>2. OperationIsKept(t)'
    BY <1>3, <1>4, <1>7, <1>8
       DEF OperationIsKept, KindsAt, ProbePcs, FreezePcs, GrowPcs, SearchPcs, StorePcs
  <2>3. SharingIsKept(t)'
    <3>1. pc[t] \in ProbePcs /\ t # Creator => \A g \in Findable : Link(g) = NULL => gen[g].shared
      BY ThreadFacts DEF SharingIsKept, AccessPcs, ReadPcs, ProbePcs
    <3>2. to \in ProbePcs => pc[t] \in ProbePcs
      BY <1>1, <1>3, <1>8
    <3>3. Findable \subseteq Gens
      BY DEF Findable, Live
    <3> QED
      BY <1>4, <1>7, <1>8, <1>11, <3>1, <3>2, <3>3
         DEF SharingIsKept, ProbePcs, AccessPcs, ReadPcs, StorePcs, LockedPcs, Link
  <2> QED
    BY <2>1, <2>2, <2>3 DEF ThreadIsGood
<1>13. pc[t] \in FreePcs /\ pc'[t] \in FreePcs
  BY <1>1, <1>7, <1>8 DEF FreePcs, ReadPcs, ProbePcs
<1> QED
  BY <1>4, <1>10, <1>12, <1>13, FreeStep

LEMMA FinishReadKeeps ==
  ASSUME Protocol, NEW t \in Threads, FinishRead(t)
  PROVE  Protocol'
<1>1. /\ pc[t] = "done" /\ pc' = [pc EXCEPT ![t] = "idle"] /\ Return(t)
      /\ UNCHANGED <<gen, ref, nops, entries>>
  BY DEF FinishRead, Goto
<1>2. /\ ThreadIsGood(t)' /\ OthersStay(t) /\ pc'[t] = "idle"
      /\ pc' \in [Threads -> Pcs] /\ op' \in [Threads -> Operation]
      /\ dict' \in [Threads -> Gens \cup {NULL}] /\ new' \in [Threads -> Gens \cup {NULL}]
      /\ at' \in [Threads -> 0 .. MaxSize]
  BY <1>1, ReturnedIsGood
<1>3. Typed'
  BY <1>1, <1>2 DEF FinishRead, Protocol, Typed
<1> QED
  BY <1>1, <1>2, <1>3, FreeStep DEF FreePcs

-----------------------------------------------------------------------------
(* Taking and leaving the lock.                                            *)

LEMMA CountedIsPositive ==
  ASSUME Protocol, NEW t \in Threads, NEW g \in Live, Counted(t, g)
  PROVE  gen[g].write_lock \in Nat /\ gen[g].write_lock > 0
<1>1. t \in Holders(g)
  BY DEF Holders
<1>2. Cardinality(Holders(g)) \in Nat /\ Cardinality(Holders(g)) # 0
  BY <1>1, HoldersAreFinite, FS_EmptySet
<1> QED
  BY <1>2 DEF Protocol, LocksAreHeld

(* Only the lock of one generation changes.                                *)
LockStep(h, n) ==
  /\ gen' \in [Gens -> Dicts]
  /\ \A g \in Gens : /\ SameHeader(gen'[g], [gen[g] EXCEPT !.write_lock = IF g = h THEN n ELSE @])
                     /\ gen'[g].key = gen[g].key /\ gen'[g].value = gen[g].value
                     /\ gen'[g].size = gen[g].size

LEMMA LockStepEffect ==
  ASSUME Protocol, NEW h \in Gens, NEW n \in Nat, gen' = [gen EXCEPT ![h].write_lock = n]
  PROVE  LockStep(h, n)
<1>1. gen \in [Gens -> Dicts] /\ gen[h] \in Dicts
  BY DEF Protocol, Typed
<1>2. gen'[h] = [gen[h] EXCEPT !.write_lock = n] /\ \A g \in Gens \ {h} : gen'[g] = gen[g]
  BY <1>1
<1>3. [gen[h] EXCEPT !.write_lock = n] \in Dicts
  BY <1>1 DEF Dicts
<1>4. gen' \in [Gens -> Dicts]
  BY <1>1, <1>2, <1>3
<1>5. \A g \in Gens \ {h} : [gen[g] EXCEPT !.write_lock = IF g = h THEN n ELSE @] = gen[g]
  BY <1>1 DEF Dicts
<1>6. \A g \in Gens \ {h} : SameHeader(gen'[g], [gen[g] EXCEPT !.write_lock = IF g = h THEN n ELSE @])
  BY <1>2, <1>5 DEF SameHeader
<1>7. /\ SameHeader(gen'[h], [gen[h] EXCEPT !.write_lock = IF h = h THEN n ELSE @])
      /\ gen'[h].key = gen[h].key /\ gen'[h].value = gen[h].value /\ gen'[h].size = gen[h].size
  BY <1>1, <1>2 DEF SameHeader, Dicts
<1> QED
  BY <1>2, <1>4, <1>6, <1>7 DEF LockStep

LEMMA LockStepShape ==
  ASSUME Protocol, NEW t \in Threads, NEW h \in Gens, NEW n \in Nat, LockStep(h, n),
         UNCHANGED ref, OthersStay(t), pc[t] # "publish", pc'[t] # "publish"
  PROVE  /\ SameShape /\ Findable' = Findable /\ Live' = Live
         /\ \A g \in Gens : Link(g)' = Link(g)
         /\ \A g \in Gens : /\ gen'[g].write_lock = IF g = h THEN n ELSE gen[g].write_lock
                            /\ gen'[g].native = gen[g].native /\ gen'[g].shared = gen[g].shared
                            /\ gen'[g].is_frozen = gen[g].is_frozen
                            /\ gen'[g].alloc_size = gen[g].alloc_size
<1>1. \A g \in Gens : /\ gen'[g].write_lock = IF g = h THEN n ELSE gen[g].write_lock
                      /\ gen'[g].native = gen[g].native /\ gen'[g].shared = gen[g].shared
                      /\ gen'[g].is_frozen = gen[g].is_frozen
                      /\ gen'[g].alloc_size = gen[g].alloc_size
                      /\ gen'[g].newer = gen[g].newer /\ gen'[g].creator = gen[g].creator
  BY DEF LockStep, SameHeader, Protocol, Typed, Dicts
<1>2. SameShape
  BY <1>1 DEF SameShape, OthersStay
<1> QED
  BY <1>1, <1>2, ShapeKept DEF Protocol

LEMMA TryLockKeeps ==
  ASSUME Protocol, NEW t \in Threads, TryLock(t) \/ ExpandTryLock(t) \/ FreezeTryLock(t)
  PROVE  Protocol'
<1> DEFINE h == dict[t]
           Cases == {<<"lock", "check_newer", "back_off">>,
                     <<"expand_lock", "expand_check", "back_off">>,
                     <<"freeze_lock", "freeze_check", "freeze_back_off">>}
<1>1. PICK from, got, lost : <<from, got, lost>> \in Cases /\ TryLockFor(t, from, got, lost)
  BY DEF TryLock, ExpandTryLock, FreezeTryLock
<1>2. PICK to : to = IF gen[h].write_lock = 0 THEN got ELSE lost
  OBVIOUS
<1>3. /\ pc[t] = from /\ pc' = [pc EXCEPT ![t] = to]
      /\ gen' = [gen EXCEPT ![h].write_lock = gen[h].write_lock + 1]
      /\ UNCHANGED <<ref, op, dict, new, at, result, nops, entries, seen, raced>>
  BY <1>1, <1>2 DEF TryLockFor, Goto, ghosts
<1>4. /\ from \in {"lock", "expand_lock", "freeze_lock"}
      /\ from = "lock" => to \in {"check_newer", "back_off"}
      /\ from = "expand_lock" => to \in {"expand_check", "back_off"}
      /\ from = "freeze_lock" => to \in {"freeze_check", "freeze_back_off"}
      /\ to \notin {"back_off", "freeze_back_off"} => gen[h].write_lock = 0
      /\ to \in {"check_newer", "expand_check", "freeze_check", "back_off", "freeze_back_off"}
  BY <1>1, <1>2
<1> HIDE DEF Cases
<1>5. h \in Findable /\ h \in Live /\ h \in Gens
  BY <1>3, <1>4, ThreadFacts DEF AccessPcs
<1>6. PICK n \in Nat : n = gen[h].write_lock + 1
  BY <1>5 DEF Protocol, Typed, Dicts
<1>7. LockStep(h, n)
  <2> HIDE DEF h
  <2> QED
    BY <1>3, <1>5, <1>6, LockStepEffect
<1>8. pc' \in [Threads -> Pcs] /\ pc'[t] = to
  BY <1>3, <1>4 DEF Protocol, Typed, Pcs, AccessPcs, LockedPcs
<1>9. Typed' /\ OthersStay(t)
  BY <1>3, <1>7, <1>8 DEF Protocol, Typed, OthersStay, LockStep
<1>10. /\ SameShape /\ Findable' = Findable /\ Live' = Live
       /\ \A g \in Gens : Link(g)' = Link(g)
       /\ \A g \in Gens : /\ gen'[g].write_lock = IF g = h THEN gen[g].write_lock + 1
                                                  ELSE gen[g].write_lock
                          /\ gen'[g].native = gen[g].native /\ gen'[g].shared = gen[g].shared
  <2> HIDE DEF h
  <2> QED
    BY <1>3, <1>4, <1>5, <1>6, <1>7, <1>8, <1>9, LockStepShape
<1>11. ThreadIsGood(t)'
  <2>1. PointersAreGood(t) /\ OperationIsKept(t) /\ SharingIsKept(t)
    BY ThreadFacts
  <2>2. PointersAreGood(t)'
    BY <1>3, <1>4, <1>5, <1>8, <1>10 DEF PointersAreGood, TipPcs, StorePcs
  <2>3. OperationIsKept(t)'
    BY <1>3, <1>4, <1>8, <2>1
       DEF OperationIsKept, KindsAt, ProbePcs, FreezePcs, GrowPcs, SearchPcs, StorePcs
  <2>4. SharingIsKept(t)'
    <3>1. pc[t] \in (AccessPcs \ {"read_native", "freeze_store"}) /\ (to \in {"check_newer", "freeze_check", "freeze_back_off"} =>
            pc[t] \in {"lock", "freeze_lock"})
      BY <1>3, <1>4 DEF AccessPcs
    <3>2. Findable \subseteq Gens
      BY DEF Findable, Live
    <3> QED
      BY <1>3, <1>4, <1>5, <1>8, <1>10, <2>1, <3>1, <3>2 DEF SharingIsKept, Link
  <2> QED
    BY <2>2, <2>3, <2>4 DEF ThreadIsGood
<1>12. LocksAreHeld'
  <2>1. \A g : ~Owns(t, g) /\ ~Counted(t, g)
    BY <1>3, <1>4, FreeOwnsNothing DEF FreePcs
  <2>2. \A g : Counted(t, g)' <=> g = h
    BY <1>3, <1>4, <1>8 DEF Counted, Owns, LockedPcs, StorePcs
  <2>3. \A g : Owns(t, g)' => g = h /\ gen[h].write_lock = 0
    BY <1>3, <1>4, <1>8 DEF Owns, LockedPcs, StorePcs
  <2>4. \A u \in Threads, g \in Live : <<u, g>> # <<t, h>> =>
          (Owns(u, g)' => Owns(u, g)) /\ (Counted(u, g)' <=> Counted(u, g))
    BY <1>9, <1>10, <2>1, <2>2, <2>3, OthersHold
  <2> HIDE DEF h
  <2> QED
    BY <1>5, <1>10, <2>1, <2>2, <2>3, <2>4, LockTaken
<1> QED
  <2>1. \A g \in Gens : gen'[g].native => gen[g].native
    BY <1>10
  <2>2. pc[t] # "unlock_old"
    BY <1>3, <1>4
  <2> HIDE DEF h
  <2> QED
    BY <1>9, <1>10, <1>11, <1>12, <2>1, <2>2, ShapedStep

(* A thread that unlocks, and has no lock then.                            *)
LEMMA UnlockShape ==
  ASSUME Protocol, NEW t \in Threads, NEW from, NEW to, Unlock(t, from, to), UNCHANGED ref,
         from \in LockedPcs \ {"publish", "unlock_old"}, to \in FreePcs, OthersStay(t)
  PROVE  /\ SameShape /\ Findable' = Findable /\ Live' = Live
         /\ \A g \in Gens : Link(g)' = Link(g)
         /\ \A g \in Gens : gen'[g].native = gen[g].native /\ gen'[g].shared = gen[g].shared
                              /\ gen'[g].is_frozen = gen[g].is_frozen
         /\ gen' \in [Gens -> Dicts] /\ pc' \in [Threads -> Pcs] /\ pc'[t] = to
         /\ LocksAreHeld'
<1>1. /\ pc[t] = from /\ pc' = [pc EXCEPT ![t] = to]
      /\ gen' = [gen EXCEPT ![dict[t]].write_lock = gen[dict[t]].write_lock - 1]
  BY DEF Unlock, Goto
<1>2. PICK h : h = dict[t] /\ h \in Live /\ h \in Gens
  BY <1>1, ThreadFacts DEF AccessPcs
<1>3. Counted(t, h)
  BY <1>1, <1>2 DEF Counted, Owns
<1>4. PICK n \in Nat : n = gen[h].write_lock - 1
  BY <1>2, <1>3, CountedIsPositive
<1>5. LockStep(h, n)
  BY <1>1, <1>2, <1>4, LockStepEffect
<1>6. pc' \in [Threads -> Pcs] /\ pc'[t] = to
  BY <1>1 DEF Protocol, Typed, FreePcs, Pcs, OutPcs, AccessPcs
<1>7. pc[t] # "publish" /\ pc'[t] # "publish"
  BY <1>1, <1>6 DEF FreePcs, ReadPcs
<1>8. /\ SameShape /\ Findable' = Findable /\ Live' = Live
      /\ \A g \in Gens : Link(g)' = Link(g)
      /\ \A g \in Gens : /\ gen'[g].write_lock = IF g = h THEN gen[g].write_lock - 1
                                                 ELSE gen[g].write_lock
                         /\ gen'[g].native = gen[g].native /\ gen'[g].shared = gen[g].shared
                         /\ gen'[g].is_frozen = gen[g].is_frozen
  BY <1>2, <1>4, <1>5, <1>7, LockStepShape
<1>9. \A g : ~Owns(t, g)' /\ ~Counted(t, g)'
  BY <1>6, FreeOwnsNothing
<1>10. \A g : g # h => ~Owns(t, g) /\ ~Counted(t, g)
  BY <1>1, <1>2 DEF Counted, Owns, LockedPcs, StorePcs
<1>11. \A u \in Threads, g \in Live : <<u, g>> # <<t, h>> =>
         (Owns(u, g)' => Owns(u, g)) /\ (Counted(u, g)' <=> Counted(u, g))
  BY <1>8, <1>9, <1>10, OthersHold
<1>12. LocksAreHeld'
  BY <1>2, <1>3, <1>8, <1>9, <1>11, LockLeft
<1> QED
  BY <1>5, <1>6, <1>8, <1>12 DEF LockStep

LEMMA UnlockStep ==
  ASSUME Protocol, NEW t \in Threads, NEW from, NEW to, Unlock(t, from, to), UNCHANGED ref,
         from \in LockedPcs \ {"publish", "unlock_old"}, to \in FreePcs, OthersStay(t),
         Typed', ThreadIsGood(t)'
  PROVE  Protocol'
<1>1. SameShape /\ LocksAreHeld' /\ \A g \in Gens : gen'[g].native = gen[g].native
  BY UnlockShape
<1>2. pc[t] # "unlock_old"
  BY DEF Unlock, Goto
<1> QED
  BY <1>1, <1>2, ShapedStep

(* The thread waits to start over.                                         *)
LEMMA WaitingIsGood ==
  ASSUME Protocol, NEW t \in Threads, pc'[t] = "retry", UNCHANGED <<op, at>>,
         pc[t] \in SearchPcs
  PROVE  ThreadIsGood(t)'
<1>1. PointersAreGood(t)'
  BY DEF PointersAreGood, AccessPcs, TipPcs, ReadPcs, StorePcs, LockedPcs
<1>2. OperationIsKept(t)'
  BY ThreadFacts DEF OperationIsKept, KindsAt, ProbePcs, FreezePcs, GrowPcs, SearchPcs, StorePcs
<1>3. SharingIsKept(t)'
  BY DEF SharingIsKept, AccessPcs, ReadPcs, StorePcs, LockedPcs
<1> QED
  BY <1>1, <1>2, <1>3 DEF ThreadIsGood

LEMMA UnlockToRetryKeeps ==
  ASSUME Protocol, NEW t \in Threads, BackOff(t) \/ UnlockRetry(t)
  PROVE  Protocol'
<1>1. PICK from \in {"back_off", "unlock_retry"} : Unlock(t, from, "retry")
  BY DEF BackOff, UnlockRetry
<1>2. /\ UNCHANGED <<ref, op, at, result, nops, entries, seen, raced>>
      /\ dict' = [dict EXCEPT ![t] = NULL]
      /\ new' \in [Threads -> Gens \cup {NULL}] /\ \A u \in Threads \ {t} : new'[u] = new[u]
  BY DEF BackOff, UnlockRetry, ghosts, Protocol, Typed
<1>3. pc[t] = from /\ pc' = [pc EXCEPT ![t] = "retry"]
  BY <1>1 DEF Unlock, Goto
<1>4. OthersStay(t)
  BY <1>2, <1>3 DEF OthersStay, Protocol, Typed
<1>5. from \in LockedPcs \ {"publish", "unlock_old"} /\ "retry" \in FreePcs
  BY DEF LockedPcs, FreePcs
<1>6. gen' \in [Gens -> Dicts] /\ pc' \in [Threads -> Pcs] /\ pc'[t] = "retry"
  BY <1>1, <1>2, <1>4, <1>5, UnlockShape
<1>7. Typed'
  BY <1>2, <1>6 DEF Protocol, Typed
<1>8. ThreadIsGood(t)'
  BY <1>2, <1>3, <1>6, WaitingIsGood DEF SearchPcs
<1> QED
  BY <1>1, <1>2, <1>4, <1>5, <1>7, <1>8, UnlockStep

LEMMA UnlockDoneKeeps ==
  ASSUME Protocol, NEW t \in Threads, UnlockDone(t)
  PROVE  Protocol'
<1>1. /\ Unlock(t, "unlock_done", "idle") /\ Return(t)
      /\ pc' = [pc EXCEPT ![t] = "idle"]
      /\ UNCHANGED <<ref, result, nops, entries, seen, raced>>
  BY DEF UnlockDone, Unlock, Goto, ghosts
<1>2. /\ ThreadIsGood(t)' /\ OthersStay(t) /\ op' \in [Threads -> Operation]
      /\ dict' \in [Threads -> Gens \cup {NULL}] /\ new' \in [Threads -> Gens \cup {NULL}]
      /\ at' \in [Threads -> 0 .. MaxSize]
  BY <1>1, ReturnedIsGood
<1>3. "unlock_done" \in LockedPcs \ {"publish", "unlock_old"} /\ "idle" \in FreePcs
  BY DEF LockedPcs, FreePcs
<1>4. gen' \in [Gens -> Dicts] /\ pc' \in [Threads -> Pcs]
  BY <1>1, <1>2, <1>3, UnlockShape
<1>5. Typed'
  BY <1>1, <1>2, <1>4 DEF Protocol, Typed
<1> QED
  BY <1>1, <1>2, <1>3, <1>5, UnlockStep

LEMMA UnlockToLockKeeps ==
  ASSUME Protocol, NEW t \in Threads, UnlockExpand(t) \/ FreezeBackOff(t) \/ FreezeUnlock(t)
  PROVE  Protocol'
<1> DEFINE Cases == {<<"unlock_expand", "expand_lock">>, <<"freeze_back_off", "freeze_lock">>,
                     <<"freeze_unlock", "freeze_lock">>}
<1>1. PICK from, to : <<from, to>> \in Cases /\ Unlock(t, from, to)
  BY DEF UnlockExpand, FreezeBackOff, FreezeUnlock
<1>2. PICK h \in {dict[t], Newest} :
        /\ UNCHANGED <<ref, op, new, at, result, nops, entries, seen, raced>>
        /\ dict' = [dict EXCEPT ![t] = h]
  <2>1. dict = [dict EXCEPT ![t] = dict[t]]
    BY DEF Protocol, Typed
  <2> QED
    BY <2>1 DEF UnlockExpand, FreezeBackOff, FreezeUnlock, ghosts
<1>3. /\ pc[t] = from /\ pc' = [pc EXCEPT ![t] = to] /\ to \in {"expand_lock", "freeze_lock"}
      /\ from \in {"unlock_expand", "freeze_back_off", "freeze_unlock"}
      /\ to = "expand_lock" <=> from = "unlock_expand"
  BY <1>1 DEF Unlock, Goto
<1>4. h \in Findable /\ h \in Gens
  BY <1>3, ThreadFacts DEF AccessPcs, LockedPcs
<1>5. dict' \in [Threads -> Gens \cup {NULL}] /\ dict'[t] = h /\ OthersStay(t)
  BY <1>2, <1>3, <1>4 DEF OthersStay, Protocol, Typed
<1>6. from \in LockedPcs \ {"publish", "unlock_old"} /\ to \in FreePcs
  BY <1>3 DEF LockedPcs, FreePcs
<1>7. /\ Findable' = Findable /\ Live' = Live /\ \A g \in Gens : Link(g)' = Link(g)
      /\ \A g \in Gens : gen'[g].shared = gen[g].shared
      /\ gen' \in [Gens -> Dicts] /\ pc' \in [Threads -> Pcs] /\ pc'[t] = to
  BY <1>1, <1>2, <1>5, <1>6, UnlockShape
<1>8. Typed'
  BY <1>2, <1>5, <1>7 DEF Protocol, Typed
<1>9. ThreadIsGood(t)'
  <2>1. PointersAreGood(t) /\ OperationIsKept(t) /\ SharingIsKept(t)
    BY ThreadFacts
  <2>2. PointersAreGood(t)'
    BY <1>3, <1>4, <1>5, <1>7 DEF PointersAreGood, TipPcs, StorePcs
  <2>3. OperationIsKept(t)'
    BY <1>2, <1>3, <1>7, <2>1
       DEF OperationIsKept, KindsAt, ProbePcs, FreezePcs, GrowPcs, SearchPcs, StorePcs
  <2>4. SharingIsKept(t)'
    <3>1. pc[t] \in AccessPcs \ {"read_native", "freeze_store"}
      BY <1>3 DEF AccessPcs, LockedPcs
    <3>2. Findable \subseteq Gens
      BY DEF Findable, Live
    <3>3. t # Creator => \A g \in Findable' : Link(g)' = NULL => gen'[g].shared
      BY <1>7, <2>1, <3>1, <3>2 DEF SharingIsKept, Link
    <3>4. from # "unlock_expand" => gen[dict[t]].shared
      BY <1>3, <2>1 DEF SharingIsKept
    <3>5. to = "freeze_lock" => gen'[h].shared
      <4>1. CASE h = dict[t]
        BY <1>3, <1>4, <1>7, <3>4, <4>1
      <4>2. CASE h = Newest
        <5>1. to = "freeze_lock" => gen[Newest].shared
          BY <1>3, <3>1, <3>4, ThreadFacts DEF Protocol, SharingIsFinal
        <5> QED
          BY <1>4, <1>7, <4>2, <5>1
      <4> QED
        BY <4>1, <4>2
    <3> QED
      BY <1>3, <1>5, <1>7, <3>3, <3>5 DEF SharingIsKept
  <2> QED
    BY <2>2, <2>3, <2>4 DEF ThreadIsGood
<1> QED
  BY <1>1, <1>2, <1>5, <1>6, <1>8, <1>9, UnlockStep

LEMMA UnlockOldKeeps ==
  ASSUME Protocol, NEW t \in Threads, UnlockOld(t)
  PROVE  Protocol'
<1>1. PICK h, n : h = dict[t] /\ n = new[t]
  OBVIOUS
<1>2. /\ pc[t] = "unlock_old" /\ pc' = [pc EXCEPT ![t] = "unlock_retry"]
      /\ gen' = [gen EXCEPT ![h].native = FALSE, ![h].write_lock = gen[h].write_lock - 1]
      /\ dict' = [dict EXCEPT ![t] = n]
      /\ UNCHANGED <<ref, op, new, at, result, nops, entries, seen, raced>>
  BY <1>1 DEF UnlockOld, Goto, ghosts
<1>3. h \in Findable /\ h \in Live /\ h \in Gens /\ n \in Findable /\ n # h /\ n \in Gens
      /\ Link(h) = n
  BY <1>1, <1>2, ThreadFacts, NewestIsTip DEF PointersAreGood, AccessPcs, LockedPcs, Protocol
<1>4. Counted(t, h)
  BY <1>1, <1>2 DEF Counted, Owns, LockedPcs
<1>5. PICK k \in Nat : k = gen[h].write_lock - 1
  BY <1>3, <1>4, CountedIsPositive
<1>6. /\ gen' \in [Gens -> Dicts]
      /\ \A g \in Gens \ {h} : gen'[g] = gen[g]
      /\ gen'[h] = [gen[h] EXCEPT !.native = FALSE, !.write_lock = k]
  <2>1. gen \in [Gens -> Dicts] /\ gen[h] \in Dicts
    BY <1>3 DEF Protocol, Typed
  <2>2. gen'[h] = [gen[h] EXCEPT !.native = FALSE, !.write_lock = k]
        /\ \A g \in Gens \ {h} : gen'[g] = gen[g]
    BY <1>2, <1>3, <1>5, <2>1 DEF Dicts
  <2>3. [gen[h] EXCEPT !.native = FALSE, !.write_lock = k] \in Dicts
    BY <2>1 DEF Dicts
  <2>4. gen' = [g \in Gens |-> gen'[g]]
    BY <1>2, <2>1
  <2> QED
    BY <2>1, <2>2, <2>3, <2>4
<1>7. \A g \in Gens : /\ gen'[g].write_lock = IF g = h THEN gen[g].write_lock - 1 ELSE gen[g].write_lock
                      /\ gen'[g].native = IF g = h THEN FALSE ELSE gen[g].native
                      /\ gen'[g].shared = gen[g].shared
                      /\ gen'[g].is_frozen = gen[g].is_frozen
                      /\ gen'[g].alloc_size = gen[g].alloc_size
                      /\ gen'[g].newer = gen[g].newer /\ gen'[g].creator = gen[g].creator
  <2>1. gen[h] \in Dicts /\ \A g \in Gens : gen[g].native \in BOOLEAN
    BY <1>3 DEF Protocol, Typed, Dicts
  <2> QED
    BY ZenonT(30), <1>5, <1>6, <2>1 DEF Dicts
<1>8. /\ pc' \in [Threads -> Pcs] /\ pc'[t] = "unlock_retry"
      /\ dict' \in [Threads -> Gens \cup {NULL}] /\ dict'[t] = n
  BY <1>2, <1>3 DEF Protocol, Typed, Pcs, AccessPcs, LockedPcs
<1>9. Typed' /\ OthersStay(t)
  BY <1>2, <1>6, <1>8 DEF Protocol, Typed, OthersStay
<1>10. SameShape
  <2>1. \A g \in Gens : gen[g].newer = NULL => gen'[g].native = gen[g].native
    BY <1>3, <1>7, NullIsNone DEF Link
  <2>2. \A u \in Threads : (pc'[u] = "publish" <=> pc[u] = "publish") /\ new'[u] = new[u]
    BY <1>2, <1>8, <1>9 DEF OthersStay
  <2> QED
    BY <1>2, <1>7, <2>1, <2>2 DEF SameShape
<1>11. Findable' = Findable /\ Live' = Live /\ \A g \in Gens : Link(g)' = Link(g)
  BY <1>10, ShapeKept DEF Protocol
<1>12. ThreadIsGood(t)'
  <2>1. PointersAreGood(t) /\ OperationIsKept(t) /\ SharingIsKept(t)
    BY ThreadFacts
  <2>2. PointersAreGood(t)'
    BY <1>3, <1>8, <1>11 DEF PointersAreGood, TipPcs, StorePcs
  <2>3. OperationIsKept(t)'
    BY <1>2, <1>8, <2>1
       DEF OperationIsKept, KindsAt, ProbePcs, FreezePcs, GrowPcs, SearchPcs, StorePcs
  <2>4. SharingIsKept(t)'
    <3>1. pc[t] \in AccessPcs \ {"read_native", "freeze_store"}
      BY <1>2 DEF AccessPcs, LockedPcs
    <3>2. Findable \subseteq Gens
      BY DEF Findable, Live
    <3>3. t # Creator => \A g \in Findable' : Link(g)' = NULL => gen'[g].shared
      BY <1>7, <1>11, <2>1, <3>1, <3>2 DEF SharingIsKept, Link
    <3> QED
      BY <1>8, <3>3 DEF SharingIsKept
  <2> QED
    BY <2>2, <2>3, <2>4 DEF ThreadIsGood
<1>13. LocksAreHeld'
  <2>1. \A g : Owns(t, g)' <=> g = n
    BY <1>8 DEF Owns, LockedPcs, StorePcs
  <2>2. \A g : Owns(t, g) <=> g = n \/ g = h
    BY <1>1, <1>2 DEF Owns, LockedPcs, StorePcs
  <2>3. \A g : (Counted(t, g)' <=> Owns(t, g)') /\ (Counted(t, g) <=> Owns(t, g))
    BY <1>2, <1>8 DEF Counted
  <2>4. \A u \in Threads, g \in Live : <<u, g>> # <<t, h>> =>
          (Owns(u, g)' => Owns(u, g)) /\ (Counted(u, g)' <=> Counted(u, g))
    BY <1>9, <1>10, <2>1, <2>2, <2>3, OthersHold
  <2>5. ~Counted(t, h)'
    BY <1>3, <2>1, <2>3
  <2> QED
    BY <1>3, <1>4, <1>7, <1>11, <2>4, <2>5, LockLeft
<1>14. \A g \in Gens : gen'[g].native => gen[g].native
  BY <1>7
<1>15. ~gen'[dict[t]].native
  BY <1>1, <1>3, <1>7
<1> QED
  BY <1>9, <1>10, <1>12, <1>13, <1>14, <1>15, ShapedStep

-----------------------------------------------------------------------------
(* What a thread does with the lock, or as the owner of a dictionary that  *)
(* is not shared.                                                          *)

(* A step that changes no lock, block or link, and not who has a lock.     *)
LEMMA HeldStep ==
  ASSUME Protocol, NEW t \in Threads, SameShape, OthersStay(t), Typed', ThreadIsGood(t)',
         pc[t] # "unlock_old",
         \A g \in Gens : gen'[g].write_lock = gen[g].write_lock /\ gen'[g].native = gen[g].native,
         \A g \in Live : (Owns(t, g)' => Owns(t, g)) /\ (Counted(t, g)' <=> Counted(t, g))
  PROVE  Protocol'
<1>1. Live' = Live
  BY ShapeKept DEF Protocol
<1>2. \A u \in Threads, g \in Live :
        (Owns(u, g)' => Owns(u, g)) /\ (Counted(u, g)' <=> Counted(u, g))
  BY OthersHold
<1>3. LocksAreHeld'
  BY <1>1, <1>2, LocksKept
<1> QED
  BY <1>3, ShapedStep

CheckCases ==
  {<<"check_newer", "search", "unlock_retry">>, <<"expand_check", "alloc", "unlock_retry">>,
   <<"freeze_check", "freeze_store", "freeze_unlock">>}

LEMMA CheckNewerKeeps ==
  ASSUME Protocol, NEW t \in Threads,
         CheckNewer(t) \/ ExpandCheckNewer(t) \/ FreezeCheckNewer(t)
  PROVE  Protocol'
<1>1. PICK from, latest, stale :
        /\ <<from, latest, stale>> \in CheckCases
        /\ Goto(t, from, IF gen[dict[t]].newer = NULL THEN latest ELSE stale)
  BY DEF CheckNewer, ExpandCheckNewer, FreezeCheckNewer, CheckCases
<1>2. PICK to : to = IF gen[dict[t]].newer = NULL THEN latest ELSE stale
  OBVIOUS
<1>3. /\ pc[t] = from /\ pc' = [pc EXCEPT ![t] = to]
      /\ UNCHANGED <<gen, ref, op, dict, new, at, result, nops, entries, seen, raced>>
  BY <1>1, <1>2 DEF CheckNewer, ExpandCheckNewer, FreezeCheckNewer, Goto, ghosts
<1>4. /\ from \in {"check_newer", "expand_check", "freeze_check"}
      /\ from = "check_newer" => to \in {"search", "unlock_retry"}
      /\ from = "expand_check" => to \in {"alloc", "unlock_retry"}
      /\ from = "freeze_check" => to \in {"freeze_store", "freeze_unlock"}
      /\ to \in {"search", "alloc", "freeze_store"} => Link(dict[t]) = NULL
      /\ to \in {"search", "unlock_retry", "alloc", "freeze_store", "freeze_unlock"}
  BY <1>1, <1>2 DEF CheckCases, Link
<1>5. /\ PointersAreGood(t) /\ OperationIsKept(t) /\ SharingIsKept(t)
      /\ dict[t] \in Findable /\ dict[t] \in Live /\ dict[t] \in Gens
      /\ \A g \in Findable : Link(g) = NULL => g = Newest
  BY <1>3, <1>4, ThreadFacts DEF AccessPcs, LockedPcs
<1>6. pc' \in [Threads -> Pcs] /\ pc'[t] = to
  BY <1>3, <1>4 DEF Protocol, Typed, Pcs, OutPcs, AccessPcs, LockedPcs
<1>7. Typed' /\ OthersStay(t)
  BY <1>3, <1>6 DEF Protocol, Typed, OthersStay
<1>8. Findable' = Findable /\ Live' = Live /\ \A g \in Gens : Link(g)' = Link(g)
  BY <1>3, <1>4, <1>6, <1>7, Unmoved
<1>9. pc[t] \in {"check_newer", "freeze_check"} => gen[dict[t]].shared
  BY <1>5 DEF SharingIsKept
<1>10. ThreadIsGood(t)'
  <2>1. PointersAreGood(t)'
    BY <1>3, <1>4, <1>5, <1>6, <1>8 DEF PointersAreGood, TipPcs, StorePcs
  <2>2. OperationIsKept(t)'
    BY <1>3, <1>4, <1>5, <1>6
       DEF OperationIsKept, KindsAt, ProbePcs, FreezePcs, GrowPcs, SearchPcs, StorePcs
  <2>3. SharingIsKept(t)'
    <3>1. pc[t] \in AccessPcs \ {"read_native", "freeze_store"}
      BY <1>3, <1>4 DEF AccessPcs, LockedPcs
    <3>2. Findable \subseteq Gens
      BY DEF Findable, Live
    <3>3. t # Creator => \A g \in Findable' : Link(g)' = NULL => gen'[g].shared
      BY <1>3, <1>5, <1>8, <3>1, <3>2 DEF SharingIsKept, Link
    <3> QED
      BY <1>3, <1>4, <1>6, <1>9, <3>3 DEF SharingIsKept
  <2> QED
    BY <2>1, <2>2, <2>3 DEF ThreadIsGood
<1>11. \A g : Owns(t, g) <=> g = dict[t]
  BY <1>3, <1>4 DEF Owns, LockedPcs, StorePcs
<1>12. \A g \in Live : Owns(t, g)' <=> g = dict[t]
  <2>1. CASE to = "alloc"
    BY <1>4, <1>5, <1>6, <1>8, <2>1 DEF Owns, LockedPcs, StorePcs, Live
  <2>2. CASE to # "alloc"
    BY <1>3, <1>4, <1>6, <1>9, <2>2 DEF Owns, LockedPcs, StorePcs
  <2> QED
    BY <2>1, <2>2
<1>13. \A g : (Counted(t, g) <=> Owns(t, g)) /\ (Counted(t, g)' <=> Owns(t, g)')
  BY <1>3, <1>4, <1>6 DEF Counted
<1> QED
  BY <1>3, <1>4, <1>6, <1>7, <1>10, <1>11, <1>12, <1>13, LocalStep

LEMMA AllocFailsKeeps ==
  ASSUME Protocol, NEW t \in Threads, AllocFails(t)
  PROVE  Protocol'
<1>1. /\ pc[t] = "alloc" /\ pc' = [pc EXCEPT ![t] = "unlock_done"]
      /\ dict' = [dict EXCEPT ![t] = Newest]
      /\ UNCHANGED <<gen, ref, op, new, at, result, nops, entries, seen, raced>>
  BY DEF AllocFails, Goto, ghosts
<1>2. /\ Newest \in Findable /\ Newest \in Gens /\ Link(Newest) = NULL
      /\ \A g \in Findable : Link(g) = NULL => g = Newest
      /\ OperationIsKept(t) /\ SharingIsKept(t)
  BY ThreadFacts
<1>3. /\ pc' \in [Threads -> Pcs] /\ pc'[t] = "unlock_done"
      /\ dict' \in [Threads -> Gens \cup {NULL}] /\ dict'[t] = Newest
  BY <1>1, <1>2 DEF Protocol, Typed, Pcs, AccessPcs, LockedPcs
<1>4. Typed' /\ OthersStay(t)
  BY <1>1, <1>3 DEF Protocol, Typed, OthersStay
<1>5. Findable' = Findable /\ Live' = Live /\ \A g \in Gens : Link(g)' = Link(g)
  BY <1>1, <1>3, <1>4, Unmoved
<1>6. ThreadIsGood(t)'
  <2>1. PointersAreGood(t)'
    BY <1>2, <1>3, <1>5 DEF PointersAreGood, TipPcs, StorePcs
  <2>2. OperationIsKept(t)'
    BY <1>1, <1>2, <1>3
       DEF OperationIsKept, KindsAt, ProbePcs, FreezePcs, GrowPcs, SearchPcs, StorePcs
  <2>3. SharingIsKept(t)'
    <3>1. Findable \subseteq Gens
      BY DEF Findable, Live
    <3> QED
      BY <1>1, <1>2, <1>3, <1>5, <3>1 DEF SharingIsKept, Link
  <2> QED
    BY <2>1, <2>2, <2>3 DEF ThreadIsGood
<1>7. \A g \in Live : (Owns(t, g) <=> g = Newest) /\ (Owns(t, g)' <=> g = Newest)
  BY <1>1, <1>2, <1>3 DEF Owns, LockedPcs, StorePcs
<1>8. \A g : (Counted(t, g) <=> Owns(t, g)) /\ (Counted(t, g)' <=> Owns(t, g)')
  BY <1>1, <1>3 DEF Counted
<1> QED
  BY <1>1, <1>3, <1>4, <1>6, <1>7, <1>8, LocalStep

(* The end of an operation, from a point where it has the lock or the      *)
(* dictionary is not shared.                                               *)
WorkPcs == StorePcs \cup {"search", "freeze_store"}

LEMMA FinishMoves ==
  ASSUME Protocol, NEW t \in Threads, Finish(t), pc[t] \in WorkPcs
  PROVE  /\ OthersStay(t) /\ pc' \in [Threads -> Pcs] /\ op' \in [Threads -> Operation]
         /\ dict' \in [Threads -> Gens \cup {NULL}] /\ new' \in [Threads -> Gens \cup {NULL}]
         /\ at' \in [Threads -> 0 .. MaxSize]
         /\ gen[dict[t]].shared => pc'[t] = "unlock_done" /\ UNCHANGED <<op, dict, new, at>>
         /\ ~gen[dict[t]].shared => pc'[t] = "idle" /\ ThreadIsGood(t)' /\ op'[t] = NoOp
         /\ \A u \in Threads : pc[u] = "publish" => new'[u] = new[u]
<1>0. pc[t] # "publish"
  BY DEF WorkPcs, StorePcs
<1>1. CASE gen[dict[t]].shared
  <2>1. pc' = [pc EXCEPT ![t] = "unlock_done"] /\ UNCHANGED <<op, dict, new, at>>
    BY <1>1 DEF Finish
  <2> QED
    BY <1>1, <2>1 DEF OthersStay, Protocol, Typed, Pcs, AccessPcs, LockedPcs
<1>2. CASE ~gen[dict[t]].shared
  <2>1. pc' = [pc EXCEPT ![t] = "idle"] /\ Return(t)
    BY <1>2 DEF Finish
  <2>2. /\ OthersStay(t) /\ pc' \in [Threads -> Pcs] /\ op' \in [Threads -> Operation]
        /\ dict' \in [Threads -> Gens \cup {NULL}] /\ new' \in [Threads -> Gens \cup {NULL}]
        /\ at' \in [Threads -> 0 .. MaxSize]
        /\ pc'[t] = "idle" /\ ThreadIsGood(t)' /\ op'[t] = NoOp
    BY <2>1, ReturnedIsGood
  <2>3. \A u \in Threads : pc[u] = "publish" => new'[u] = new[u]
    BY <1>0, <2>2 DEF OthersStay
  <2> QED
    BY <1>2, <2>2, <2>3
<1> QED
  BY <1>1, <1>2

LEMMA FinishIsGood ==
  ASSUME Protocol, NEW t \in Threads, Finish(t), pc[t] \in WorkPcs, SameShape
  PROVE  /\ ThreadIsGood(t)'
         /\ \A g \in Live : (Owns(t, g)' => Owns(t, g)) /\ (Counted(t, g)' <=> Counted(t, g))
<1>1. /\ dict[t] \in Findable /\ dict[t] \in Gens
      /\ PointersAreGood(t) /\ OperationIsKept(t) /\ SharingIsKept(t)
  BY ThreadFacts DEF WorkPcs, AccessPcs
<1>2. /\ Findable' = Findable /\ \A g \in Gens : Link(g)' = Link(g)
      /\ \A g \in Gens : gen'[g].shared = gen[g].shared
      /\ \A g, h \in Findable : gen[g].shared /\ Link(h) = NULL => gen[h].shared
      /\ Findable \subseteq Gens
  BY ShapeKept DEF Protocol, SameShape, SharingIsFinal, Findable, Live
<1>3. /\ op[t].kind \in {"write", "erase", "freeze"}
      /\ op[t].kind \in {"write", "erase"} => op[t].key \in Keys
  BY <1>1 DEF OperationIsKept, KindsAt, WorkPcs, StorePcs, ProbePcs, FreezePcs, GrowPcs, SearchPcs
<1>4. CASE gen[dict[t]].shared
  <2>1. pc'[t] = "unlock_done" /\ UNCHANGED <<op, dict, new, at>>
    BY <1>4, FinishMoves
  <2>2. PointersAreGood(t)'
    BY <1>1, <1>2, <2>1 DEF PointersAreGood, TipPcs, StorePcs
  <2>3. OperationIsKept(t)'
    <3>1. op'[t] = op[t] /\ KindsAt("unlock_done") = {"write", "erase", "freeze"}
      BY <2>1 DEF KindsAt, ProbePcs, FreezePcs, GrowPcs, SearchPcs
    <3>2. "unlock_done" \notin {"idle", "retry", "promote"} \cup SearchPcs \cup GrowPcs \cup ProbePcs \cup StorePcs
      BY DEF ProbePcs, GrowPcs, SearchPcs, StorePcs
    <3>3. /\ op'[t].kind \in KindsAt(pc'[t])
          /\ op'[t].kind \in {"read", "write", "erase"} => op'[t].key \in Keys
      BY <1>3, <2>1, <3>1
    <3>4. /\ pc'[t] \notin {"idle", "retry", "promote"} \cup SearchPcs \cup GrowPcs
          /\ pc'[t] \notin ProbePcs \cup StorePcs
      BY <2>1, <3>2
    <3> HIDE DEF KindsAt
    <3> QED
      BY <3>3, <3>4 DEF OperationIsKept
  <2>4. SharingIsKept(t)'
    BY <1>1, <1>2, <1>4, <2>1 DEF SharingIsKept, Link
  <2>5. \A g \in Live : (Owns(t, g)' <=> g = dict[t]) /\ (Counted(t, g)' <=> g = dict[t])
    BY <2>1 DEF Owns, Counted, LockedPcs, StorePcs
  <2>6. \A g \in Live : (Owns(t, g) <=> g = dict[t]) /\ (Counted(t, g) <=> g = dict[t])
    BY <1>4 DEF Owns, Counted, WorkPcs, LockedPcs, StorePcs
  <2> QED
    BY <2>2, <2>3, <2>4, <2>5, <2>6 DEF ThreadIsGood
<1>5. CASE ~gen[dict[t]].shared
  <2>1. pc'[t] = "idle" /\ ThreadIsGood(t)'
    BY <1>5, FinishMoves
  <2>2. \A g \in Live : ~Owns(t, g) /\ ~Counted(t, g)
    BY <1>5 DEF Owns, Counted, WorkPcs, LockedPcs, StorePcs
  <2>3. \A g \in Live : ~Owns(t, g)' /\ ~Counted(t, g)'
    BY <2>1, FreeOwnsNothing DEF FreePcs
  <2> QED
    BY <2>1, <2>2, <2>3
<1> QED
  BY <1>4, <1>5

LEMMA FirstExists ==
  ASSUME NEW S \in SUBSET Nat, S # {}
  PROVE  First(S) \in S /\ \A m \in S : First(S) <= m
<1>1. \E n \in S : \A m \in S : n <= m
  BY LeastExists
<1> QED
  BY <1>1 DEF First

(* The slot that a search finds is one of the table's.                     *)
LEMMA FoundSlotIsInTable ==
  ASSUME NEW d \in Dicts, d.alloc_size > 0, NEW k \in Keys, NEW S \in SUBSET Probes(d), S # {}
  PROVE  Slot(d, k, First(S)) \in 0 .. d.alloc_size - 1
<1>1. S \in SUBSET Nat
  BY DictAssumption DEF Probes, Dicts
<1>2. First(S) \in Nat
  BY <1>1, FirstExists
<1> QED
  BY <1>2, SlotsAreInTable

LEMMA TargetsAreInTable ==
  ASSUME NEW d \in Dicts, d.alloc_size > 0, NEW k \in Keys, NEW i \in Targets(d, k)
  PROVE  i \in 0 .. d.alloc_size - 1
<1>1. Stops(d, k) \in SUBSET Probes(d) /\ Tombstones(d, k) \in SUBSET Probes(d)
  BY DEF Stops, Tombstones
<1> DEFINE free == IF ~Found(d, k) /\ Tombstones(d, k) # {} THEN Tombstones(d, k) ELSE Stops(d, k)
<1>2. free # {} /\ i = Slot(d, k, First(free))
  BY DEF Targets
<1>3. free \in SUBSET Probes(d)
  BY <1>1
<1> HIDE DEF free
<1> QED
  BY <1>2, <1>3, FoundSlotIsInTable

LEMMA SearchToWriteKeeps ==
  ASSUME Protocol, NEW t \in Threads, SearchToWrite(t)
  PROVE  Protocol'
<1>1. PICK h : h = dict[t]
  OBVIOUS
<1>2. /\ pc[t] = "search" /\ op[t].kind = "write"
      /\ UNCHANGED <<gen, ref, op, dict, new, result, nops, entries, seen, raced>>
  BY DEF SearchToWrite, ghosts
<1>3. /\ h \in Findable /\ h \in Gens /\ h \in Live /\ Link(h) = NULL
      /\ PointersAreGood(t) /\ OperationIsKept(t) /\ SharingIsKept(t)
      /\ op[t].key \in Keys /\ gen[h] \in Dicts
  BY <1>1, <1>2, ThreadFacts DEF AccessPcs, TipPcs, PointersAreGood, OperationIsKept
<1>4. gen[h].alloc_size \in 1 .. MaxSize
  <2>1. gen[h].alloc_size \in 0 .. MaxSize /\ gen[h].alloc_size > 0 /\ MaxSize \in Nat
    BY <1>3, DictAssumption DEF Live, Dicts
  <2> QED
    BY <2>1
<1>5. PICK to, n :
        /\ pc' = [pc EXCEPT ![t] = to] /\ at' = [at EXCEPT ![t] = n]
        /\ \/ to = (IF gen[h].shared THEN "unlock_expand" ELSE "expand_lock") /\ n = at[t]
           \/ to = "store_value" /\ n \in 0 .. gen[h].alloc_size - 1
        /\ n \in 0 .. MaxSize
  <2> DEFINE targets == IF IsFull(gen[h]) THEN {} ELSE Targets(gen[h], op[t].key)
  <2>1. CASE targets = {}
    <3>1. at' = [at EXCEPT ![t] = at[t]] /\ at[t] \in 0 .. MaxSize
      BY <1>1, <2>1 DEF SearchToWrite, Protocol, Typed
    <3>2. pc' = [pc EXCEPT ![t] = IF gen[h].shared THEN "unlock_expand" ELSE "expand_lock"]
      BY <1>1, <2>1 DEF SearchToWrite, Goto
    <3> QED
      BY <3>1, <3>2
  <2>2. CASE targets # {}
    <3>1. PICK i \in targets : at' = [at EXCEPT ![t] = i]
      BY <1>1, <2>2 DEF SearchToWrite
    <3>2. pc' = [pc EXCEPT ![t] = "store_value"]
      BY <1>1, <2>2 DEF SearchToWrite, Goto
    <3>3. i \in 0 .. gen[h].alloc_size - 1
      BY <1>3, <1>4, TargetsAreInTable
    <3>4. i \in 0 .. MaxSize
      BY <1>4, <3>3, DictAssumption
    <3> QED
      BY <3>1, <3>2, <3>3, <3>4
  <2> QED
    BY <2>1, <2>2
<1>6. /\ to \in {"unlock_expand", "expand_lock", "store_value"}
      /\ to = "unlock_expand" => gen[h].shared
      /\ to = "expand_lock" => ~gen[h].shared
      /\ to = "store_value" => n < gen[h].alloc_size
      /\ to # "store_value" => n = 0
  BY <1>2, <1>3, <1>4, <1>5 DEF OperationIsKept, SearchPcs
<1>7. /\ pc' \in [Threads -> Pcs] /\ pc'[t] = to /\ at' \in [Threads -> 0 .. MaxSize] /\ at'[t] = n
  BY <1>5, <1>6 DEF Protocol, Typed, Pcs, AccessPcs, StorePcs, LockedPcs
<1>8. Typed' /\ OthersStay(t)
  BY <1>2, <1>5, <1>7 DEF Protocol, Typed, OthersStay
<1>9. Findable' = Findable /\ Live' = Live /\ \A g \in Gens : Link(g)' = Link(g)
  BY <1>2, <1>6, <1>7, <1>8, Unmoved
<1>10. ThreadIsGood(t)'
  <2>1. PointersAreGood(t)'
    BY <1>1, <1>2, <1>3, <1>6, <1>7, <1>9 DEF PointersAreGood
  <2>2. OperationIsKept(t)'
    BY <1>1, <1>2, <1>3, <1>6, <1>7
       DEF OperationIsKept, KindsAt, ProbePcs, FreezePcs, GrowPcs, SearchPcs, StorePcs
  <2>3. SharingIsKept(t)'
    <3>1. pc[t] \in AccessPcs \ {"read_native", "freeze_store"}
      BY <1>2 DEF AccessPcs
    <3>2. Findable \subseteq Gens
      BY DEF Findable, Live
    <3>3. t # Creator => \A g \in Findable' : Link(g)' = NULL => gen'[g].shared
      BY <1>2, <1>3, <1>9, <3>1, <3>2 DEF SharingIsKept, Link
    <3> QED
      BY <1>1, <1>2, <1>6, <1>7, <3>3 DEF SharingIsKept
  <2> QED
    BY <2>1, <2>2, <2>3 DEF ThreadIsGood
<1>11. \A g \in Live : (Owns(t, g) <=> g = h /\ gen[h].shared) /\ (Counted(t, g) <=> Owns(t, g))
  BY <1>1, <1>2 DEF Owns, Counted, LockedPcs, StorePcs
<1>12. \A g \in Live : (Owns(t, g)' <=> g = h /\ gen[h].shared) /\ (Counted(t, g)' <=> Owns(t, g)')
  BY <1>1, <1>2, <1>6, <1>7 DEF Owns, Counted, LockedPcs, StorePcs
<1> QED
  BY <1>2, <1>6, <1>7, <1>8, <1>10, <1>11, <1>12, LocalStep

LEMMA SearchToEraseKeeps ==
  ASSUME Protocol, NEW t \in Threads, SearchToErase(t)
  PROVE  Protocol'
<1>1. PICK h : h = dict[t]
  OBVIOUS
<1>2. /\ pc[t] = "search" /\ op[t].kind = "erase" /\ pc[t] \in WorkPcs
      /\ UNCHANGED <<gen, ref, result, nops, entries, seen, raced>>
  BY DEF SearchToErase, ghosts, WorkPcs
<1>3. /\ h \in Findable /\ h \in Gens /\ h \in Live /\ Link(h) = NULL
      /\ PointersAreGood(t) /\ OperationIsKept(t) /\ SharingIsKept(t)
      /\ op[t].key \in Keys /\ gen[h] \in Dicts
  BY <1>1, <1>2, ThreadFacts DEF AccessPcs, TipPcs, PointersAreGood, OperationIsKept
<1>4. gen[h].alloc_size \in 0 .. MaxSize /\ gen[h].alloc_size > 0 /\ MaxSize \in Nat
  BY <1>3, DictAssumption DEF Live, Dicts
<1>5. CASE Found(gen[h], op[t].key)
  <2>1. PICK n : n = Slot(gen[h], op[t].key, First(Stops(gen[h], op[t].key)))
    OBVIOUS
  <2>2. n \in 0 .. gen[h].alloc_size - 1
    <3>1. Stops(gen[h], op[t].key) \in SUBSET Probes(gen[h]) /\ Stops(gen[h], op[t].key) # {}
      BY <1>5 DEF Stops, Found
    <3> QED
      BY <1>3, <1>4, <2>1, <3>1, FoundSlotIsInTable
  <2>3. /\ pc' = [pc EXCEPT ![t] = "store_value"] /\ at' = [at EXCEPT ![t] = n]
        /\ UNCHANGED <<op, dict, new>>
    BY <1>1, <1>5, <2>1 DEF SearchToErase, Goto
  <2>4. n \in 0 .. MaxSize /\ n < gen[h].alloc_size
    BY <1>4, <2>2
  <2>5. /\ pc' \in [Threads -> Pcs] /\ pc'[t] = "store_value"
        /\ at' \in [Threads -> 0 .. MaxSize] /\ at'[t] = n
    BY <2>3, <2>4 DEF Protocol, Typed, Pcs, AccessPcs, StorePcs
  <2>6. Typed' /\ OthersStay(t)
    BY <1>2, <2>3, <2>5 DEF Protocol, Typed, OthersStay
  <2>7. Findable' = Findable /\ Live' = Live /\ \A g \in Gens : Link(g)' = Link(g)
    BY <1>2, <2>5, <2>6, Unmoved
  <2>8. ThreadIsGood(t)'
    <3>1. PointersAreGood(t)'
      BY <1>1, <1>3, <2>3, <2>5, <2>7 DEF PointersAreGood
    <3>2. OperationIsKept(t)'
      BY <1>1, <1>2, <1>3, <2>3, <2>4, <2>5
         DEF OperationIsKept, KindsAt, ProbePcs, FreezePcs, GrowPcs, SearchPcs, StorePcs
    <3>3. SharingIsKept(t)'
      <4>1. pc[t] \in AccessPcs \ {"read_native", "freeze_store"}
        BY <1>2 DEF AccessPcs
      <4>2. Findable \subseteq Gens
        BY DEF Findable, Live
      <4> QED
        BY <1>2, <1>3, <2>5, <2>7, <4>1, <4>2 DEF SharingIsKept, Link
    <3> QED
      BY <3>1, <3>2, <3>3 DEF ThreadIsGood
  <2>9. \A g \in Live : (Owns(t, g) <=> g = h /\ gen[h].shared) /\ (Counted(t, g) <=> Owns(t, g))
    BY <1>1, <1>2 DEF Owns, Counted, LockedPcs, StorePcs
  <2>10. \A g \in Live : (Owns(t, g)' <=> g = h /\ gen[h].shared) /\ (Counted(t, g)' <=> Owns(t, g)')
    BY <1>1, <1>2, <2>3, <2>5 DEF Owns, Counted, LockedPcs, StorePcs
  <2> QED
    BY <1>2, <2>5, <2>6, <2>8, <2>9, <2>10, LocalStep
<1>6. CASE ~Found(gen[h], op[t].key)
  <2>1. Finish(t)
    BY <1>1, <1>6 DEF SearchToErase
  <2>2. /\ OthersStay(t) /\ pc' \in [Threads -> Pcs] /\ op' \in [Threads -> Operation]
        /\ dict' \in [Threads -> Gens \cup {NULL}] /\ new' \in [Threads -> Gens \cup {NULL}]
        /\ at' \in [Threads -> 0 .. MaxSize] /\ pc'[t] \in {"unlock_done", "idle"}
    BY <1>2, <2>1, FinishMoves
  <2>3. SameShape /\ Typed'
    BY <1>2, <2>2 DEF SameShape, OthersStay, Protocol, Typed
  <2>4. /\ ThreadIsGood(t)'
        /\ \A g \in Live : (Owns(t, g)' => Owns(t, g)) /\ (Counted(t, g)' <=> Counted(t, g))
    BY <1>2, <2>1, <2>3, FinishIsGood
  <2> QED
    BY <1>2, <2>2, <2>3, <2>4, LocalStep
<1> QED
  BY <1>5, <1>6

-----------------------------------------------------------------------------
(* Stores to the table, under the lock or in a dictionary that is not      *)
(* shared.                                                                 *)

SameButFlag(d, c) ==
  /\ d.alloc_size = c.alloc_size /\ d.shared = c.shared /\ d.creator = c.creator
  /\ d.write_lock = c.write_lock /\ d.newer = c.newer /\ d.native = c.native

LEMMA StoreShape ==
  ASSUME Protocol, NEW t \in Threads, NEW h \in Gens, NEW d \in Dicts, gen' = [gen EXCEPT ![h] = d],
         SameButFlag(d, gen[h]), UNCHANGED ref, OthersStay(t), pc[t] # "publish", pc'[t] # "publish"
  PROVE  /\ SameShape /\ gen' \in [Gens -> Dicts]
         /\ \A g \in Gens : gen'[g].write_lock = gen[g].write_lock /\ gen'[g].native = gen[g].native
         /\ \A g \in Gens : SameButFlag(gen'[g], gen[g])
<1>1. gen \in [Gens -> Dicts]
  BY DEF Protocol, Typed
<1>2. gen'[h] = d /\ (\A g \in Gens \ {h} : gen'[g] = gen[g]) /\ gen' \in [Gens -> Dicts]
  BY <1>1
<1>3. \A g \in Gens : SameButFlag(gen'[g], gen[g])
  BY <1>2 DEF SameButFlag
<1>4. SameShape
  BY <1>3 DEF SameShape, SameButFlag, OthersStay
<1> QED
  BY <1>2, <1>3, <1>4 DEF SameButFlag

(* A store that the thread goes on from.                                   *)
LEMMA StoreGoesOn ==
  ASSUME Protocol, NEW t \in Threads, NEW d \in Dicts, gen' = [gen EXCEPT ![dict[t]] = d],
         SameButFlag(d, gen[dict[t]]), NEW to \in StorePcs, pc[t] \in StorePcs,
         pc' = [pc EXCEPT ![t] = to], UNCHANGED <<ref, op, dict, new, at>>, Typed',
         op[t].kind \in KindsAt(to)
  PROVE  Protocol'
<1>1. PICK h \in Gens : h = dict[t] /\ h \in Findable /\ h \in Live /\ Link(h) = NULL
  BY ThreadFacts DEF AccessPcs, StorePcs, TipPcs, PointersAreGood
<1>2. pc'[t] = to /\ OthersStay(t)
  BY DEF OthersStay, Protocol, Typed
<1>3. pc[t] \notin {"publish", "unlock_old"} /\ to # "publish"
  BY DEF StorePcs
<1>4. /\ SameShape
      /\ \A g \in Gens : gen'[g].write_lock = gen[g].write_lock /\ gen'[g].native = gen[g].native
      /\ \A g \in Gens : SameButFlag(gen'[g], gen[g])
  BY <1>1, <1>2, <1>3, StoreShape
<1>5. Findable' = Findable /\ Live' = Live /\ \A g \in Gens : Link(g)' = Link(g)
  BY <1>4, ShapeKept DEF Protocol
<1>6. \A g \in Gens : gen'[g].shared = gen[g].shared /\ gen'[g].alloc_size = gen[g].alloc_size
  BY <1>4 DEF SameButFlag
<1>7. ThreadIsGood(t)'
  <2>1. PointersAreGood(t) /\ OperationIsKept(t) /\ SharingIsKept(t)
    BY ThreadFacts
  <2>2. PointersAreGood(t)'
    BY <1>1, <1>2, <1>5, <1>6 DEF PointersAreGood, StorePcs
  <2>3. OperationIsKept(t)'
    <3>1. to \notin {"idle", "retry", "promote"} \cup SearchPcs \cup GrowPcs
      BY DEF StorePcs, SearchPcs, GrowPcs
    <3>2. at'[t] < gen'[dict'[t]].alloc_size
      BY <1>1, <1>6, <2>1 DEF OperationIsKept
    <3> HIDE DEF KindsAt
    <3> QED
      BY <1>2, <2>1, <3>1, <3>2 DEF OperationIsKept
  <2>4. SharingIsKept(t)'
    <3>1. pc[t] \in AccessPcs \ {"read_native", "freeze_store"}
      BY DEF StorePcs, AccessPcs
    <3>2. Findable \subseteq Gens
      BY DEF Findable, Live
    <3>3. t # Creator => \A g \in Findable' : Link(g)' = NULL => gen'[g].shared
      BY <1>5, <1>6, <2>1, <3>1, <3>2 DEF SharingIsKept, Link
    <3> QED
      BY <1>2, <3>3 DEF SharingIsKept, StorePcs
  <2> QED
    BY <2>2, <2>3, <2>4 DEF ThreadIsGood
<1>8. \A g \in Live : (Owns(t, g)' <=> Owns(t, g)) /\ (Counted(t, g)' <=> Counted(t, g))
  <2>1. Live \subseteq Gens
    BY DEF Live
  <2> QED
    BY <1>2, <1>6, <2>1 DEF Owns, Counted, StorePcs, LockedPcs
<1> QED
  BY <1>2, <1>3, <1>4, <1>7, <1>8, HeldStep

(* A store that ends its operation.                                        *)
LEMMA StoreFinishes ==
  ASSUME Protocol, NEW t \in Threads, NEW d \in Dicts, gen' = [gen EXCEPT ![dict[t]] = d],
         SameButFlag(d, gen[dict[t]]), pc[t] \in StorePcs \cup {"freeze_store"}, Finish(t),
         UNCHANGED <<ref, result, nops>>, entries' \in [Keys -> Values \cup {Absent}],
         seen' \in [Threads -> SUBSET (Values \cup {Absent})], raced' \in [Threads -> BOOLEAN]
  PROVE  Protocol'
<1>1. dict[t] \in Gens /\ pc[t] \in WorkPcs /\ pc[t] \notin {"publish", "unlock_old"}
  BY ThreadFacts DEF AccessPcs, StorePcs, WorkPcs
<1>2. /\ OthersStay(t) /\ pc' \in [Threads -> Pcs] /\ op' \in [Threads -> Operation]
      /\ dict' \in [Threads -> Gens \cup {NULL}] /\ new' \in [Threads -> Gens \cup {NULL}]
      /\ at' \in [Threads -> 0 .. MaxSize] /\ pc'[t] \in {"unlock_done", "idle"}
  BY <1>1, FinishMoves
<1>3. /\ SameShape /\ gen' \in [Gens -> Dicts]
      /\ \A g \in Gens : gen'[g].write_lock = gen[g].write_lock /\ gen'[g].native = gen[g].native
  BY <1>1, <1>2, StoreShape
<1>4. Typed'
  BY <1>2, <1>3 DEF Protocol, Typed
<1>5. /\ ThreadIsGood(t)'
      /\ \A g \in Live : (Owns(t, g)' => Owns(t, g)) /\ (Counted(t, g)' <=> Counted(t, g))
  BY <1>1, <1>3, FinishIsGood
<1> QED
  BY <1>1, <1>2, <1>3, <1>4, <1>5, HeldStep

(* The slot that a thread stores to.                                       *)
LEMMA StorerFacts ==
  ASSUME Protocol, NEW t \in Threads, pc[t] \in StorePcs
  PROVE  /\ dict[t] \in Gens /\ gen[dict[t]] \in Dicts /\ at[t] \in Slots
         /\ op[t].kind \in {"write", "erase"} /\ op[t].key \in Keys /\ op[t].value \in Values
         /\ pc[t] = "erase_key" => op[t].kind = "erase"
<1>1. /\ dict[t] \in Gens /\ gen[dict[t]] \in Dicts /\ OperationIsKept(t)
      /\ op[t] \in Operation /\ at[t] \in 0 .. MaxSize
  BY ThreadFacts DEF AccessPcs, StorePcs, Protocol, Typed
<1>2. gen[dict[t]].alloc_size \in 0 .. MaxSize /\ MaxSize \in Nat
  BY <1>1, DictAssumption DEF Dicts
<1>3. at[t] < gen[dict[t]].alloc_size
  BY <1>1 DEF OperationIsKept
<1>4. at[t] \in Slots
  BY <1>1, <1>2, <1>3 DEF Slots
<1>5. op[t].kind \in {"write", "erase"} /\ (pc[t] = "erase_key" => op[t].kind = "erase")
  BY <1>1 DEF OperationIsKept, KindsAt, StorePcs, ProbePcs, FreezePcs, GrowPcs, SearchPcs
<1> QED
  BY <1>1, <1>4, <1>5 DEF OperationIsKept, Operation

LEMMA StoreValueKeeps ==
  ASSUME Protocol, NEW t \in Threads, StoreValue(t)
  PROVE  Protocol'
<1>1. PICK h \in Gens, i \in Slots : h = dict[t] /\ i = at[t] /\ gen[h] \in Dicts
  BY StorerFacts DEF StoreValue, StorePcs
<1>2. /\ pc[t] = "store_value" /\ pc[t] \in StorePcs /\ op[t].value \in Values /\ op[t].key \in Keys
      /\ op[t].kind \in {"write", "erase"}
  BY StorerFacts DEF StoreValue, StorePcs
<1>3. PICK d : d = [gen[h] EXCEPT !.value[i] = op[t].value]
  OBVIOUS
<1>4. gen' = [gen EXCEPT ![dict[t]] = d]
  BY <1>1, <1>3 DEF StoreValue
<1>5. d \in Dicts /\ SameButFlag(d, gen[h])
  <2>1. gen[h].value \in [Slots -> Values]
    BY <1>1 DEF Dicts
  <2>2. [gen[h].value EXCEPT ![i] = op[t].value] \in [Slots -> Values]
    BY <1>2, <2>1
  <2>3. PICK value \in [Slots -> Values] : d = [gen[h] EXCEPT !.value = value]
    BY <1>3, <2>2
  <2> QED
    BY <1>1, <2>3 DEF Dicts, SameButFlag
<1>6. /\ seen' \in [Threads -> SUBSET (Values \cup {Absent})] /\ raced' \in [Threads -> BOOLEAN]
      /\ UNCHANGED <<ref, result, nops>>
  <2>1. \A u \in Threads : seen[u] \in SUBSET (Values \cup {Absent}) /\ raced[u] \in BOOLEAN
    BY DEF Protocol, Typed
  <2> QED
    BY <1>2, <2>1 DEF StoreValue
<1>7. CASE op[t].kind = "erase" \/ gen[h].key[i].type # "STRING"
  <2>1. PICK to \in {"store_key", "erase_key"} : /\ pc' = [pc EXCEPT ![t] = to]
                                                 /\ to = "erase_key" => op[t].kind = "erase"
    BY <1>1, <1>7 DEF StoreValue, Goto
  <2>2. UNCHANGED <<op, dict, new, at, entries>>
    BY <1>1, <1>7 DEF StoreValue
  <2>3. to \in StorePcs /\ op[t].kind \in KindsAt(to)
    BY <1>2, <2>1 DEF StorePcs, KindsAt, ProbePcs, FreezePcs, GrowPcs, SearchPcs
  <2>4. gen' \in [Gens -> Dicts] /\ pc' \in [Threads -> Pcs]
    BY <1>1, <1>4, <1>5, <2>1, <2>3 DEF Protocol, Typed, Pcs, AccessPcs
  <2>5. Typed'
    BY <1>6, <2>2, <2>4 DEF Protocol, Typed
  <2> QED
    BY <1>1, <1>2, <1>4, <1>5, <1>6, <2>1, <2>2, <2>3, <2>5, StoreGoesOn
<1>8. CASE op[t].kind # "erase" /\ gen[h].key[i].type = "STRING"
  <2>1. Finish(t) /\ entries' = [entries EXCEPT ![op[t].key] = op[t].value]
    BY <1>1, <1>8 DEF StoreValue
  <2>2. entries' \in [Keys -> Values \cup {Absent}]
    BY <1>2, <2>1 DEF Protocol, Typed
  <2> QED
    BY <1>1, <1>2, <1>4, <1>5, <1>6, <2>1, <2>2, StoreFinishes
<1> QED
  BY <1>7, <1>8

(* A slot's key, and the number of entries.                                *)
LEMMA KeyStoreIsTyped ==
  ASSUME NEW d \in Dicts, NEW i \in Slots, NEW n \in Int,
         NEW key \in [type : {"EMPTY", "TOMBSTONE", "STRING"}, str : Keys \cup {NoKey}],
         NEW r, r = [d EXCEPT !.key[i] = key, !.size = n]
  PROVE  r \in Dicts /\ SameButFlag(r, d)
<1>1. d.key \in KeySlots
  BY DEF Dicts
<1>2. [d.key EXCEPT ![i] = key] \in KeySlots
  BY <1>1 DEF KeySlots
<1>3. PICK keys \in KeySlots : r = [d EXCEPT !.key = keys, !.size = n]
  BY <1>2
<1> QED
  BY <1>3 DEF Dicts, SameButFlag

LEMMA StoreKeyKeeps ==
  ASSUME Protocol, NEW t \in Threads, StoreKey(t)
  PROVE  Protocol'
<1>1. PICK h \in Gens, i \in Slots : h = dict[t] /\ i = at[t] /\ gen[h] \in Dicts
  BY StorerFacts DEF StoreKey, Goto, StorePcs
<1>2. /\ pc[t] = "store_key" /\ pc[t] \in StorePcs /\ op[t].key \in Keys
      /\ op[t].kind \in {"write", "erase"}
      /\ pc' = [pc EXCEPT ![t] = "publish_key"]
      /\ UNCHANGED <<ref, op, dict, new, at, result, nops, entries, seen, raced>>
  BY StorerFacts DEF StoreKey, Goto, StorePcs, ghosts
<1>3. PICK n \in Int : n = gen[h].size + 1
  BY <1>1 DEF Dicts
<1>4. PICK key : key = [gen[h].key[i] EXCEPT !.str = op[t].key]
  OBVIOUS
<1>5. key \in [type : {"EMPTY", "TOMBSTONE", "STRING"}, str : Keys \cup {NoKey}]
  <2>1. gen[h].key[i] \in [type : {"EMPTY", "TOMBSTONE", "STRING"}, str : Keys \cup {NoKey}]
    BY <1>1 DEF Dicts, KeySlots
  <2> QED
    BY <1>2, <1>4, <2>1
<1>6. PICK d : d = [gen[h] EXCEPT !.key[i] = key, !.size = n]
  OBVIOUS
<1>7. gen' = [gen EXCEPT ![dict[t]] = d]
  <2>1. gen' = [gen EXCEPT ![h].key[i].str = op[t].key, ![h].size = @ + 1]
    BY <1>1 DEF StoreKey
  <2>2. gen \in [Gens -> Dicts] /\ gen[h].key \in KeySlots
    BY <1>1 DEF Protocol, Typed, Dicts
  <2> QED
    BY <1>1, <1>3, <1>4, <1>6, <2>1, <2>2 DEF Dicts
<1>8. d \in Dicts /\ SameButFlag(d, gen[h])
  BY <1>1, <1>5, <1>6, KeyStoreIsTyped
<1>9. "publish_key" \in StorePcs /\ op[t].kind \in KindsAt("publish_key")
  BY <1>2 DEF StorePcs, KindsAt, ProbePcs, FreezePcs, GrowPcs, SearchPcs
<1>10. gen' \in [Gens -> Dicts] /\ pc' \in [Threads -> Pcs]
  BY <1>1, <1>2, <1>7, <1>8, <1>9 DEF Protocol, Typed, Pcs, AccessPcs
<1>11. Typed'
  BY <1>2, <1>10 DEF Protocol, Typed
<1> QED
  BY <1>1, <1>2, <1>7, <1>8, <1>9, <1>11, StoreGoesOn

LEMMA KeyTypeKeeps ==
  ASSUME Protocol, NEW t \in Threads, PublishKey(t) \/ EraseKey(t)
  PROVE  Protocol'
<1>1. PICK h \in Gens, i \in Slots : h = dict[t] /\ i = at[t] /\ gen[h] \in Dicts
  BY StorerFacts DEF PublishKey, EraseKey, StorePcs
<1>2. /\ pc[t] \in StorePcs /\ op[t].key \in Keys /\ op[t].value \in Values
      /\ Finish(t) /\ UNCHANGED <<ref, result, nops, raced>>
  BY StorerFacts DEF PublishKey, EraseKey, StorePcs
<1>3. PICK type \in {"STRING", "TOMBSTONE"}, n \in Int :
        /\ n = (IF type = "STRING" THEN gen[h].size ELSE gen[h].size - 1)
        /\ type = "STRING" => gen' = [gen EXCEPT ![h].key[i].type = "STRING"]
        /\ type = "TOMBSTONE" => gen' = [gen EXCEPT ![h].key[i].type = "TOMBSTONE", ![h].size = @ - 1]
  <2>1. gen[h].size \in Int
    BY <1>1 DEF Dicts
  <2>2. CASE PublishKey(t)
    <3>1. gen' = [gen EXCEPT ![h].key[i].type = "STRING"]
      BY <1>1, <2>2 DEF PublishKey
    <3> QED
      BY <2>1, <3>1
  <2>3. CASE EraseKey(t)
    <3>1. gen' = [gen EXCEPT ![h].key[i].type = "TOMBSTONE", ![h].size = @ - 1]
      BY <1>1, <2>3 DEF EraseKey
    <3>2. gen[h].size - 1 \in Int
      BY <2>1
    <3> QED
      BY <3>1, <3>2
  <2> QED
    BY <2>2, <2>3
<1>4. PICK key : key = [gen[h].key[i] EXCEPT !.type = type]
  OBVIOUS
<1>5. key \in [type : {"EMPTY", "TOMBSTONE", "STRING"}, str : Keys \cup {NoKey}]
  <2>1. gen[h].key[i] \in [type : {"EMPTY", "TOMBSTONE", "STRING"}, str : Keys \cup {NoKey}]
    BY <1>1 DEF Dicts, KeySlots
  <2> QED
    BY <1>4, <2>1
<1>6. PICK d : d = [gen[h] EXCEPT !.key[i] = key, !.size = n]
  OBVIOUS
<1>7. gen' = [gen EXCEPT ![dict[t]] = d]
  <2>1. gen \in [Gens -> Dicts] /\ gen[h].key \in KeySlots
    BY <1>1 DEF Protocol, Typed, Dicts
  <2>2. CASE type = "STRING"
    <3>1. gen' = [gen EXCEPT ![h] = [gen[h] EXCEPT !.key[i] = key]]
      BY <1>3, <1>4, <2>2
    <3>2. [gen[h] EXCEPT !.key[i] = key] = d
      BY <1>1, <1>3, <1>6, <2>2 DEF Dicts
    <3> QED
      BY <1>1, <3>1, <3>2
  <2>3. CASE type = "TOMBSTONE"
    BY <1>1, <1>3, <1>4, <1>6, <2>1, <2>3 DEF Dicts
  <2> QED
    BY <2>2, <2>3
<1>8. d \in Dicts /\ SameButFlag(d, gen[h])
  BY <1>1, <1>5, <1>6, KeyStoreIsTyped
<1>9. /\ entries' \in [Keys -> Values \cup {Absent}]
      /\ seen' \in [Threads -> SUBSET (Values \cup {Absent})] /\ raced' \in [Threads -> BOOLEAN]
  <2>1. \A u \in Threads : seen[u] \in SUBSET (Values \cup {Absent})
    BY DEF Protocol, Typed
  <2>2. CASE PublishKey(t)
    BY <1>2, <2>2 DEF PublishKey, Protocol, Typed
  <2>3. CASE EraseKey(t)
    BY <1>2, <2>1, <2>3 DEF EraseKey, Protocol, Typed
  <2> QED
    BY <2>2, <2>3
<1> QED
  BY <1>1, <1>2, <1>7, <1>8, <1>9, StoreFinishes

LEMMA FreezeStoreKeeps ==
  ASSUME Protocol, NEW t \in Threads, FreezeStore(t)
  PROVE  Protocol'
<1>1. PICK h \in Gens : h = dict[t] /\ gen[h] \in Dicts
  BY ThreadFacts DEF FreezeStore, AccessPcs
<1>2. PICK d : d = [gen[h] EXCEPT !.is_frozen = TRUE]
  OBVIOUS
<1>3. d \in Dicts /\ SameButFlag(d, gen[h])
  BY <1>1, <1>2 DEF Dicts, SameButFlag
<1>4. /\ gen' = [gen EXCEPT ![dict[t]] = d] /\ pc[t] = "freeze_store" /\ Finish(t)
      /\ UNCHANGED <<ref, result, nops, entries, seen, raced>>
  BY <1>1, <1>2 DEF FreezeStore, ghosts
<1>5. /\ entries' \in [Keys -> Values \cup {Absent}]
      /\ seen' \in [Threads -> SUBSET (Values \cup {Absent})] /\ raced' \in [Threads -> BOOLEAN]
  BY <1>4 DEF Protocol, Typed
<1> QED
  BY <1>1, <1>3, <1>4, <1>5, StoreFinishes

-----------------------------------------------------------------------------
(* Expansion.                                                              *)

LEMMA PcSets ==
  /\ TipPcs \subseteq AccessPcs \ {"read_native", "freeze_store"}
  /\ LockedPcs \subseteq AccessPcs \ {"read_native", "freeze_store"}
  /\ StorePcs \subseteq TipPcs
  /\ {"publish", "search", "unlock_expand"} \subseteq TipPcs
  /\ {"publish", "unlock_old", "unlock_expand"} \subseteq LockedPcs \ {"back_off", "freeze_back_off"}
  /\ "alloc" \notin AccessPcs
BY DEF TipPcs, AccessPcs, ReadPcs, StorePcs, LockedPcs

(* Whoever expands the dictionary has its lock, and nobody else has a      *)
(* generation to publish, writes, or freezes the generation that it copies *)
(* unless by the way of freezing what others are changing.                 *)
LEMMA ExpanderIsAlone ==
  ASSUME Protocol, NEW t \in Threads, pc[t] \in {"alloc", "publish"}
  PROVE  /\ Owns(t, Newest)
         /\ \A u \in Threads \ {t} :
              /\ pc[u] \notin TipPcs \cup {"alloc"} /\ ~Owns(u, Newest)
              /\ pc[u] = "freeze_store" => ~gen[dict[u]].shared /\ u # Creator
<1>1. /\ Newest \in Findable /\ Newest \in Live /\ Link(Newest) = NULL
      /\ \A g \in Findable : Link(g) = NULL => g = Newest
  BY NewestIsTip DEF Protocol
<1>2. /\ pc[t] = "publish" => pc[t] \in LockedPcs \ {"back_off", "freeze_back_off"}
      /\ pc[t] \in (AccessPcs \ {"read_native", "freeze_store"}) \cup {"alloc"}
  BY PcSets
<1>3. pc[t] = "publish" => dict[t] = Newest
  BY <1>1, PcSets, ThreadFacts DEF PointersAreGood
<1>4. Owns(t, Newest)
  BY <1>1, <1>2, <1>3 DEF Owns
<1>5. \A u \in Threads \ {t} : ~Owns(u, Newest)
  BY <1>1, <1>4 DEF Protocol, LocksAreHeld
<1>6. t # Creator => gen[Newest].shared
  BY <1>1, <1>2, ThreadFacts DEF SharingIsKept
<1>7. ASSUME NEW u \in Threads \ {t}
      PROVE  /\ pc[u] \notin TipPcs \cup {"alloc"}
             /\ pc[u] = "freeze_store" => ~gen[dict[u]].shared /\ u # Creator
  <2>1. pc[u] # "alloc"
    BY <1>1, <1>5 DEF Owns
  <2>2. pc[u] \in AccessPcs => dict[u] \in Findable
    BY ThreadFacts
  <2>3. pc[u] \notin TipPcs
    <3> SUFFICES ASSUME pc[u] \in TipPcs PROVE FALSE
      OBVIOUS
    <3>1. pc[u] \in AccessPcs \ {"read_native", "freeze_store"}
      BY PcSets
    <3>2. dict[u] = Newest
      BY <1>1, <2>2, <3>1, ThreadFacts DEF PointersAreGood
    <3>3. gen[Newest].shared
      <4>1. u # Creator => gen[Newest].shared
        BY <1>1, <3>1, ThreadFacts DEF SharingIsKept
      <4> QED
        BY <1>6, <4>1
    <3>4. pc[u] \in (LockedPcs \ {"back_off", "freeze_back_off"}) \cup StorePcs \cup {"search"}
      BY DEF TipPcs, LockedPcs
    <3> QED
      BY <1>5, <3>2, <3>3, <3>4 DEF Owns
  <2>4. ASSUME pc[u] = "freeze_store" PROVE ~gen[dict[u]].shared /\ u # Creator
    <3>1. pc[u] \in AccessPcs
      BY <2>4 DEF AccessPcs
    <3> SUFFICES ASSUME gen[dict[u]].shared \/ u = Creator PROVE FALSE
      OBVIOUS
    <3>2. dict[u] = Newest
      BY <1>1, <2>2, <2>4, <3>1, ThreadFacts DEF PointersAreGood
    <3>3. gen[Newest].shared
      BY <1>6, <3>2
    <3> QED
      BY <1>5, <2>4, <3>2, <3>3 DEF Owns
  <2> QED
    BY <2>1, <2>3, <2>4
<1> QED
  BY <1>4, <1>5, <1>7

LEMMA CopyIsGood ==
  ASSUME Protocol, NEW t \in Threads, 2 * gen[Newest].alloc_size <= MaxSize,
         NEW r, r = Expanded(t, gen[Newest])
  PROVE  /\ r \in Dicts /\ r.alloc_size > 0 /\ r.newer = NULL /\ r.write_lock = 1
         /\ r.shared = gen[Newest].shared /\ r.creator = Creator
         /\ r.is_frozen = gen[Newest].is_frozen /\ r.native = gen[Newest].native
<1>1. PICK d \in Dicts : /\ d = gen[Newest] /\ d.alloc_size \in 1 .. MaxSize
                         /\ d.creator = Creator
  BY ThreadFacts
<1>2. 2 * d.alloc_size \in 0 .. MaxSize /\ 2 * d.alloc_size > 0
  BY <1>1, DictAssumption
<1>3. PICK e \in Dicts : e = NewDict(t, 2 * d.alloc_size)
  BY <1>2, FreshIsTyped
<1>4. e.alloc_size = 2 * d.alloc_size /\ e.newer = NULL
  BY <1>3 DEF NewDict, Unused
<1>5. PICK f \in Dicts : f = Rehash(e, d) /\ f.alloc_size = e.alloc_size /\ f.newer = NULL
  BY <1>1, <1>3, <1>4, RehashIsTyped DEF SameHeader
<1>6. r = [f EXCEPT !.shared = d.shared, !.creator = d.creator, !.is_frozen = d.is_frozen,
                    !.native = d.native, !.write_lock = 1]
  BY <1>1, <1>3, <1>5 DEF Expanded
<1>7. /\ r.alloc_size = f.alloc_size /\ r.newer = f.newer /\ r.write_lock = 1
      /\ r.shared = d.shared /\ r.creator = d.creator /\ r.is_frozen = d.is_frozen
      /\ r.native = d.native
  BY <1>5, <1>6 DEF Dicts
<1>8. r \in Dicts
  <2>1. /\ d.shared \in BOOLEAN /\ d.is_frozen \in BOOLEAN /\ d.native \in BOOLEAN
        /\ d.creator \in Threads
    BY <1>1 DEF Dicts
  <2>2. PICK f1 \in Dicts : f1 = [f EXCEPT !.shared = d.shared, !.is_frozen = d.is_frozen]
    BY ZenonT(30), <1>5, <2>1 DEF Dicts
  <2>3. PICK f2 \in Dicts : f2 = [f1 EXCEPT !.native = d.native, !.creator = d.creator]
    BY ZenonT(30), <2>1, <2>2 DEF Dicts
  <2>4. [f2 EXCEPT !.write_lock = 1] \in Dicts
    BY <2>3 DEF Dicts
  <2>5. r = [f2 EXCEPT !.write_lock = 1]
    BY <1>5, <1>6, <2>2, <2>3 DEF Dicts
  <2> QED
    BY <2>4, <2>5
<1> QED
  BY <1>1, <1>2, <1>4, <1>5, <1>7, <1>8

LEMMA AllocAndCopyKeeps ==
  ASSUME Protocol, NEW t \in Threads, AllocAndCopy(t)
  PROVE  Protocol'
<1>1. PICK h \in Live :
        /\ h = Newest /\ h \in Findable /\ h \in Gens /\ Link(h) = NULL
        /\ \A x \in Findable : Link(x) = NULL => x = h
  BY NewestIsTip DEF Protocol
<1>2. PICK r : r = Expanded(t, gen[h])
  OBVIOUS
<1>3. PICK g \in Free : gen' = [gen EXCEPT ![g] = r] /\ new' = [new EXCEPT ![t] = g]
  BY <1>1, <1>2 DEF AllocAndCopy
<1>4. /\ pc[t] = "alloc" /\ pc' = [pc EXCEPT ![t] = "publish"]
      /\ dict' = [dict EXCEPT ![t] = h] /\ 2 * gen[Newest].alloc_size <= MaxSize
      /\ UNCHANGED <<ref, op, at, result, nops, entries, seen, raced>>
  BY <1>1 DEF AllocAndCopy, Goto, ghosts
<1>5. /\ r \in Dicts /\ r.alloc_size > 0 /\ r.newer = NULL /\ r.write_lock = 1
      /\ r.shared = gen[h].shared /\ r.creator = Creator /\ r.native = gen[h].native
  BY <1>1, <1>2, <1>4, CopyIsGood
<1>6. g \in Gens /\ g \notin Live /\ Live \subseteq Gens /\ Findable \subseteq Live /\ g # h
  <2>1. Gens \ Live # {} /\ g \in {CHOOSE x \in Gens \ Live : TRUE}
    BY <1>3 DEF Free
  <2> QED
    BY <1>1, <2>1, NewestIsTip DEF Protocol
<1>7. /\ gen \in [Gens -> Dicts] /\ gen' \in [Gens -> Dicts]
      /\ gen'[g] = r /\ \A x \in Gens \ {g} : gen'[x] = gen[x]
  BY <1>3, <1>5, <1>6 DEF Protocol, Typed
<1>8. /\ pc'[t] = "publish" /\ dict'[t] = h /\ new'[t] = g
      /\ pc' \in [Threads -> Pcs] /\ dict' \in [Threads -> Gens \cup {NULL}]
      /\ new' \in [Threads -> Gens \cup {NULL}]
      /\ \A u \in Threads \ {t} : pc'[u] = pc[u] /\ dict'[u] = dict[u] /\ new'[u] = new[u]
  BY <1>1, <1>3, <1>4, <1>6 DEF Protocol, Typed, Pcs, AccessPcs, LockedPcs
<1>9. \A u \in Threads \ {t} :
        /\ pc[u] \notin TipPcs \cup {"alloc"} /\ pc[u] # "publish"
        /\ pc[u] = "freeze_store" => ~gen[dict[u]].shared /\ u # Creator
  BY <1>4, ExpanderIsAlone, PcSets
<1>10. Live' = Live \cup {g}
  <2>1. \A x \in Gens \ {g} : x \in Live' <=> x \in Live
    BY <1>7 DEF Live
  <2>2. g \in Live'
    BY <1>5, <1>6, <1>7 DEF Live
  <2> QED
    BY <1>6, <2>1, <2>2 DEF Live
<1>11. Findable' = Live /\ Findable = Live
  <2>1. \A x : Private(x)' <=> x = g
    BY <1>8, <1>9 DEF Private
  <2>2. \A x : ~Private(x)
    BY <1>4, <1>9 DEF Private
  <2> QED
    BY <1>6, <1>10, <2>1, <2>2 DEF Findable
<1>12. \A x \in Gens : Link(x)' = Link(x)
  <2>1. Link(g) = NULL
    BY <1>6 DEF Protocol, ChainIsWhole
  <2> QED
    BY <1>5, <1>7, <2>1 DEF Link
<1>13. ChainIsWhole'
  <2>1. Chain' = Chain
    BY <1>4, <1>12 DEF Chain, Link
  <2> QED
    BY <1>4, <1>6, <1>11, <1>12, <2>1 DEF Protocol, ChainIsWhole
<1>14. Typed'
  BY <1>4, <1>7, <1>8 DEF Protocol, Typed
<1>15. \A x \in Live : gen'[x] = gen[x] /\ Link(x)' = Link(x) /\ x # g
  BY <1>6, <1>7, <1>12
<1>16. ASSUME NEW u \in Threads PROVE pc[u] \in AccessPcs => dict[u] \in Live
  BY <1>6, ThreadFacts
<1>17. ThreadsAreInOrder'
  <2>1. ASSUME NEW u \in Threads \ {t} PROVE ThreadIsGood(u)'
    <3>1. PointersAreGood(u) /\ OperationIsKept(u) /\ SharingIsKept(u)
      BY ThreadFacts
    <3>2. pc[u] \in AccessPcs => gen'[dict[u]] = gen[dict[u]]
      BY <1>15, <1>16
    <3>3. pc[u] \in {"freeze_store", "unlock_old", "lock", "check_newer", "unlock_expand",
                     "freeze_lock", "freeze_check", "freeze_unlock", "freeze_back_off"}
                      \cup ProbePcs \cup StorePcs => pc[u] \in AccessPcs
      BY DEF AccessPcs, LockedPcs, ProbePcs, ReadPcs
    <3>4. PointersAreGood(u)'
      <4>1. pc[u] = "unlock_old" => gen'[dict[u]].newer = new[u]
        BY <3>1, <3>2, <3>3 DEF PointersAreGood, Link
      <4>2. pc[u] = "freeze_store" => ~gen'[dict[u]].shared /\ u # Creator
        BY <1>9, <3>2, <3>3
      <4> QED
        BY <1>8, <1>9, <1>11, <3>1, <4>1, <4>2 DEF PointersAreGood, Link
    <3>5. OperationIsKept(u)'
      <4> HIDE DEF KindsAt
      <4> QED
        BY <1>4, <1>8, <3>1, <3>2, <3>3 DEF OperationIsKept
    <3>6. SharingIsKept(u)'
      BY <1>8, <1>11, <1>15, <3>1, <3>2, <3>3 DEF SharingIsKept, Link
    <3> QED
      BY <3>4, <3>5, <3>6 DEF ThreadIsGood
  <2>2. PointersAreGood(t)'
    <3>1. new'[t] \in Live' /\ Link(g)' = NULL /\ gen'[g].shared = gen'[h].shared /\ gen'[g].native
      <4>1. gen[h].native
        BY <1>1 DEF Protocol, BlockIsKept
      <4> QED
        BY <1>5, <1>6, <1>7, <1>8, <1>10, <4>1 DEF Link
    <3> QED
      BY <1>1, <1>8, <1>11, <1>12, <3>1 DEF PointersAreGood, Link
  <2>3. OperationIsKept(t)'
    <3>1. op[t].kind = "write" /\ op[t].key \in Keys /\ at[t] = 0
      BY <1>4, ThreadFacts DEF OperationIsKept, KindsAt, ProbePcs, FreezePcs, GrowPcs, SearchPcs
    <3> QED
      BY <1>4, <1>8, <3>1
         DEF OperationIsKept, KindsAt, ProbePcs, FreezePcs, GrowPcs, SearchPcs, StorePcs
  <2>4. SharingIsKept(t)'
    <3>1. t # Creator => \A x \in Findable : Link(x) = NULL => gen[x].shared
      BY <1>4, ThreadFacts DEF SharingIsKept
    <3> QED
      BY <1>8, <1>11, <1>15, <3>1 DEF SharingIsKept, Link
  <2>5. ThreadIsGood(t)'
    BY <2>2, <2>3, <2>4 DEF ThreadIsGood
  <2> QED
    BY <2>1, <2>5 DEF ThreadsAreInOrder
<1>18. LocksAreHeld'
  <2>1. \A u \in Threads \ {t} : ~Owns(u, g)' /\ ~Counted(u, g)'
    <3> SUFFICES ASSUME NEW u \in Threads \ {t} PROVE ~Counted(u, g)'
      BY DEF Counted
    <3>1. pc[u] \in AccessPcs => dict[u] # g
      BY <1>6, <1>16
    <3>2. pc[u] = "unlock_old" => new[u] # g
      BY <1>6, ThreadFacts DEF PointersAreGood
    <3>3. pc[u] \in LockedPcs \cup StorePcs \cup {"search", "freeze_store"} => pc[u] \in AccessPcs
      BY DEF AccessPcs
    <3>4. pc[u] \in {"back_off", "freeze_back_off"} => pc[u] \in LockedPcs
      BY DEF LockedPcs
    <3> QED
      BY <1>8, <1>9, <3>1, <3>2, <3>3, <3>4 DEF Owns, Counted
  <2>2. Owns(t, g)' /\ Counted(t, g)'
    BY <1>8 DEF Owns, Counted
  <2>3. \A u \in Threads \ {t}, x \in Live :
          (Owns(u, x)' <=> Owns(u, x)) /\ (Counted(u, x)' <=> Counted(u, x))
    BY <1>6, <1>7, <1>8, <1>9 DEF Owns, Counted
  <2>4. \A x \in Live : (Owns(t, x)' <=> Owns(t, x)) /\ (Counted(t, x)' <=> Counted(t, x))
    <3>1. "publish" \in LockedPcs \ {"back_off", "freeze_back_off"} /\ "alloc" \notin LockedPcs \cup StorePcs
          /\ "publish" \notin StorePcs
      BY DEF LockedPcs, StorePcs
    <3>2. \A x \in Live : Owns(t, x)' <=> x = h
      BY <1>6, <1>8, <3>1 DEF Owns
    <3>3. \A x \in Live : Owns(t, x) <=> x = h
      BY <1>1, <1>4, <1>11, <3>1 DEF Owns
    <3> QED
      BY <1>4, <1>8, <3>2, <3>3 DEF Counted
  <2>5. Holders(g)' = {t} /\ Cardinality(Holders(g)') = 1
    <3>1. Holders(g)' = {t}
      BY <2>1, <2>2 DEF Holders
    <3> QED
      BY <3>1, FS_Singleton
  <2>6. \A x \in Live : Holders(x)' = Holders(x)
    BY <2>3, <2>4 DEF Holders
  <2>7. \A x \in Live' : gen'[x].write_lock = Cardinality(Holders(x)')
    <3>1. \A x \in Live : gen'[x].write_lock = Cardinality(Holders(x)')
      BY <1>6, <1>7, <2>6 DEF Protocol, LocksAreHeld
    <3>2. gen'[g].write_lock = Cardinality(Holders(g)')
      BY <1>5, <1>7, <2>5
    <3> QED
      BY <1>10, <3>1, <3>2
  <2>8. \A x \in Live' : \A u, v \in Threads : Owns(u, x)' /\ Owns(v, x)' => u = v
    <3>1. \A x \in Live : \A u \in Threads : Owns(u, x)' <=> Owns(u, x)
      BY <2>3, <2>4
    <3>2. \A u \in Threads : Owns(u, g)' => u = t
      BY <2>1
    <3> QED
      BY <1>10, <3>1, <3>2 DEF Protocol, LocksAreHeld
  <2> QED
    BY <2>7, <2>8 DEF LocksAreHeld
<1>19. BlockIsKept'
  <2> SUFFICES ASSUME NEW x \in Live
               PROVE  /\ Link(x)' = NULL => gen'[x].native
                      /\ Link(x)' # NULL /\ gen'[x].native =>
                           \E u \in Threads : pc'[u] = "unlock_old" /\ dict'[u] = x
    BY <1>11 DEF BlockIsKept
  <2>1. Link(x) = NULL => gen[x].native
    BY <1>11 DEF Protocol, BlockIsKept
  <2>2. ASSUME Link(x) # NULL, gen[x].native
        PROVE  \E u \in Threads : pc'[u] = "unlock_old" /\ dict'[u] = x
    <3>1. PICK u \in Threads : pc[u] = "unlock_old" /\ dict[u] = x
      BY <1>11, <2>2 DEF Protocol, BlockIsKept
    <3>2. u # t
      BY <1>4, <3>1
    <3> QED
      BY <1>8, <3>1, <3>2
  <2> QED
    BY <1>15, <2>1, <2>2
<1>20. Creators' /\ SharingIsFinal'
  <2>1. Creators'
    BY <1>5, <1>7, <1>10, <1>15 DEF Protocol, Creators
  <2>2. SharingIsFinal'
    BY <1>11, <1>15 DEF Protocol, SharingIsFinal
  <2> QED
    BY <2>1, <2>2
<1> QED
  BY <1>13, <1>14, <1>17, <1>18, <1>19, <1>20 DEF Protocol

LEMMA PublishKeeps ==
  ASSUME Protocol, NEW t \in Threads, Publish(t)
  PROVE  Protocol'
<1>1. PICK h \in Live :
        /\ h = Newest /\ h \in Findable /\ h \in Gens /\ Link(h) = NULL
        /\ \A x \in Findable : Link(x) = NULL => x = h
  BY NewestIsTip DEF Protocol
<1>2. /\ pc[t] = "publish" /\ pc[t] \in AccessPcs \ {"read_native", "freeze_store"}
      /\ pc[t] \in TipPcs
  BY PcSets DEF Publish, Goto
<1>3. dict[t] = h
  BY <1>1, <1>2, ThreadFacts DEF PointersAreGood
<1>4. PICK g \in Live : /\ g = new[t] /\ g \in Gens /\ g \notin Findable /\ g # h
                        /\ Link(g) = NULL /\ gen[g].native /\ gen[g].shared = gen[h].shared
                        /\ Findable \subseteq Live /\ Live \subseteq Gens
  <2>1. Private(new[t])
    BY <1>2 DEF Private
  <2> QED
    BY <1>1, <1>2, <1>3, <2>1, NewestIsTip, ThreadFacts DEF Protocol, PointersAreGood, Findable
<1>5. /\ pc' = [pc EXCEPT ![t] = "unlock_old"] /\ gen' = [gen EXCEPT ![h].newer = g]
      /\ UNCHANGED <<ref, op, dict, new, at, result, nops, entries, seen, raced>>
  BY <1>3, <1>4 DEF Publish, Goto, ghosts
<1>6. /\ pc'[t] = "unlock_old" /\ pc' \in [Threads -> Pcs]
      /\ \A u \in Threads \ {t} : pc'[u] = pc[u]
  BY <1>5 DEF Protocol, Typed, Pcs, AccessPcs, LockedPcs
<1>7. /\ gen' \in [Gens -> Dicts]
      /\ \A x \in Gens : /\ gen'[x].alloc_size = gen[x].alloc_size
                         /\ gen'[x].shared = gen[x].shared
                         /\ gen'[x].creator = gen[x].creator
                         /\ gen'[x].write_lock = gen[x].write_lock
                         /\ gen'[x].native = gen[x].native
                         /\ gen'[x].is_frozen = gen[x].is_frozen
                         /\ gen'[x].newer = IF x = h THEN g ELSE gen[x].newer
  <2>1. gen \in [Gens -> Dicts] /\ gen[h] \in Dicts
    BY <1>1 DEF Protocol, Typed
  <2>2. gen'[h] = [gen[h] EXCEPT !.newer = g] /\ \A x \in Gens \ {h} : gen'[x] = gen[x]
    BY <1>1, <1>5, <2>1
  <2>3. /\ gen'[h] \in Dicts
        /\ gen'[h].alloc_size = gen[h].alloc_size
        /\ gen'[h].shared = gen[h].shared
        /\ gen'[h].creator = gen[h].creator
        /\ gen'[h].write_lock = gen[h].write_lock
        /\ gen'[h].native = gen[h].native /\ gen'[h].is_frozen = gen[h].is_frozen
        /\ gen'[h].newer = g
    BY <1>4, <2>1, <2>2 DEF Dicts
  <2>4. gen' \in [Gens -> Dicts]
    BY <1>5, <2>1, <2>2, <2>3
  <2> QED
    BY <2>2, <2>3, <2>4
<1>8. \A u \in Threads \ {t} :
        /\ pc[u] \notin TipPcs \cup {"alloc"} /\ pc[u] # "publish"
        /\ pc[u] = "freeze_store" => ~gen[dict[u]].shared /\ u # Creator
  BY <1>2, ExpanderIsAlone, PcSets
<1>9. Live' = Live
  BY <1>7 DEF Live
<1>10. Findable' = Live /\ Findable = Live \ {g}
  <2>1. \A x : ~Private(x)'
    BY <1>6, <1>8 DEF Private
  <2>2. \A x : Private(x) <=> x = g
    BY <1>2, <1>4, <1>8 DEF Private
  <2> QED
    BY <1>9, <2>1, <2>2 DEF Findable
<1>11. \A x \in Gens : Link(x)' = IF x = h THEN g ELSE Link(x)
  BY <1>7 DEF Link
<1>12. ChainIsWhole'
  <2>1. ref' \in Findable'
    BY <1>4, <1>5, <1>10 DEF Protocol, ChainIsWhole
  <2>2. \A x \in Gens : Link(x)' # NULL => x \in Findable' /\ Link(x)' \in Findable'
    BY <1>1, <1>4, <1>10, <1>11 DEF Protocol, ChainIsWhole
  <2>3. Live \subseteq Chain'
    <3> SUFFICES ASSUME NEW S \in SUBSET Gens, ref \in S,
                        \A x \in S : Link(x)' # NULL => Link(x)' \in S
                 PROVE  Live \subseteq S
      BY <1>4, <1>5 DEF Chain, Link
    <3>1. \A x \in S : Link(x) # NULL => Link(x) \in S
      BY <1>1, <1>11
    <3>2. \A x \in Chain : x \in S
      BY <3>1 DEF Chain, Link
    <3>3. Live \ {g} \subseteq S
      BY <1>10, <3>2 DEF Protocol, ChainIsWhole
    <3>4. g \in S
      BY <1>1, <1>4, <1>11, <3>3, NullIsNone
    <3> QED
      BY <3>3, <3>4
  <2>4. Link(g)' = NULL
    BY <1>4, <1>11
  <2>5. \A x \in Live : Link(x)' = NULL => x = g
    BY <1>1, <1>4, <1>10, <1>11, NullIsNone
  <2> QED
    BY <1>4, <1>10, <2>1, <2>2, <2>3, <2>4, <2>5 DEF ChainIsWhole
<1>13. Typed'
  BY <1>5, <1>6, <1>7 DEF Protocol, Typed
<1>14. \A x \in Live : Link(x)' = NULL => x = g
  BY <1>12, <1>4, <1>10, <1>11 DEF ChainIsWhole
<1>15. ASSUME NEW u \in Threads PROVE pc[u] \in AccessPcs => dict[u] \in Live /\ dict[u] \in Gens
  BY <1>4, ThreadFacts
<1>16. ThreadsAreInOrder'
  <2>1. ASSUME NEW u \in Threads,
               \A x \in Findable : Link(x) = NULL => gen[x].shared
        PROVE  \A x \in Findable' : Link(x)' = NULL => gen'[x].shared
    BY <1>1, <1>4, <1>7, <1>10, <1>14, <2>1
  <2>2. ASSUME NEW u \in Threads \ {t} PROVE ThreadIsGood(u)'
    <3>1. PointersAreGood(u) /\ OperationIsKept(u) /\ SharingIsKept(u)
      BY ThreadFacts
    <3>2. pc[u] \in AccessPcs => /\ gen'[dict[u]].shared = gen[dict[u]].shared
                                 /\ gen'[dict[u]].alloc_size = gen[dict[u]].alloc_size
      BY <1>7, <1>15
    <3>3. pc[u] \in {"freeze_store", "unlock_old", "lock", "check_newer", "unlock_expand",
                     "freeze_lock", "freeze_check", "freeze_unlock", "freeze_back_off"}
                      \cup ProbePcs \cup StorePcs => pc[u] \in AccessPcs
      BY DEF AccessPcs, LockedPcs, ProbePcs, ReadPcs
    <3>4. PointersAreGood(u)'
      <4>1. ASSUME pc[u] = "unlock_old" PROVE gen'[dict[u]].newer = new[u]
        <5>1. gen[dict[u]].newer = new[u] /\ new[u] \in Gens /\ dict[u] \in Gens
          BY <1>4, <1>15, <3>1, <3>3, <4>1 DEF PointersAreGood, Link
        <5>2. dict[u] # h
          BY <1>1, <5>1, NullIsNone DEF Link
        <5> QED
          BY <1>7, <5>1, <5>2
      <4>2. pc[u] = "freeze_store" => ~gen'[dict[u]].shared /\ u # Creator
        BY <1>8, <3>2, <3>3
      <4> QED
        BY <1>4, <1>5, <1>6, <1>8, <1>10, <3>1, <4>1, <4>2 DEF PointersAreGood, Link
    <3>5. OperationIsKept(u)'
      <4> HIDE DEF KindsAt
      <4> QED
        BY <1>5, <1>6, <3>1, <3>2, <3>3 DEF OperationIsKept
    <3>6. SharingIsKept(u)'
      BY <1>5, <1>6, <2>1, <3>1, <3>2, <3>3 DEF SharingIsKept
    <3> QED
      BY <3>4, <3>5, <3>6 DEF ThreadIsGood
  <2>3. PointersAreGood(t)'
    <3>1. gen'[h].newer = g
      BY <1>1, <1>7
    <3> QED
      BY <1>3, <1>4, <1>5, <1>6, <1>10, <3>1 DEF PointersAreGood, Link, TipPcs, StorePcs
  <2>4. OperationIsKept(t)'
    <3>1. op[t].kind = "write" /\ op[t].key \in Keys /\ at[t] = 0
      BY <1>2, ThreadFacts DEF OperationIsKept, KindsAt, ProbePcs, FreezePcs, GrowPcs, SearchPcs
    <3> QED
      BY <1>5, <1>6, <3>1
         DEF OperationIsKept, KindsAt, ProbePcs, FreezePcs, GrowPcs, SearchPcs, StorePcs
  <2>5. SharingIsKept(t)'
    <3>1. t # Creator => \A x \in Findable : Link(x) = NULL => gen[x].shared
      BY <1>2, ThreadFacts DEF SharingIsKept
    <3> QED
      BY <1>6, <2>1, <3>1 DEF SharingIsKept
  <2>6. ThreadIsGood(t)'
    BY <2>3, <2>4, <2>5 DEF ThreadIsGood
  <2> QED
    BY <2>2, <2>6 DEF ThreadsAreInOrder
<1>17. LocksAreHeld'
  <2>1. \A u \in Threads, x \in Live :
          (Owns(u, x)' <=> Owns(u, x)) /\ (Counted(u, x)' <=> Counted(u, x))
    <3>1. \A u \in Threads \ {t} : pc[u] # "alloc" /\ pc[u] # "publish" /\ pc'[u] = pc[u]
      BY <1>6, <1>8
    <3>2. /\ "unlock_old" \in LockedPcs \ {"back_off", "freeze_back_off"}
          /\ "publish" \in LockedPcs \ {"back_off", "freeze_back_off"}
      BY DEF LockedPcs
    <3>3. "unlock_old" \notin StorePcs /\ "publish" \notin StorePcs
      BY DEF StorePcs
    <3>4. ASSUME NEW u \in Threads, NEW x \in Live
          PROVE  Owns(u, x)' <=> Owns(u, x)
      <4>1. gen'[x].shared = gen[x].shared
        BY <1>4, <1>7
      <4> QED
        BY <1>2, <1>5, <1>6, <3>1, <3>2, <3>3, <4>1 DEF Owns
    <3>5. \A u \in Threads : pc'[u] \in {"back_off", "freeze_back_off"}
                               <=> pc[u] \in {"back_off", "freeze_back_off"}
      BY <1>2, <1>6
    <3> QED
      BY <1>5, <3>4, <3>5 DEF Counted
  <2> QED
    BY <1>7, <1>9, <2>1, LocksKept
<1>18. BlockIsKept'
  <2> SUFFICES ASSUME NEW x \in Live
               PROVE  /\ Link(x)' = NULL => gen'[x].native
                      /\ Link(x)' # NULL /\ gen'[x].native =>
                           \E u \in Threads : pc'[u] = "unlock_old" /\ dict'[u] = x
    BY <1>10 DEF BlockIsKept
  <2>1. Link(x)' = NULL => gen'[x].native
    BY <1>4, <1>7, <1>14
  <2>2. ASSUME Link(x)' # NULL, gen'[x].native
        PROVE  \E u \in Threads : pc'[u] = "unlock_old" /\ dict'[u] = x
    <3>1. CASE x = h
      BY <1>3, <1>5, <1>6, <3>1
    <3>2. CASE x # h
      <4>1. Link(x) # NULL /\ gen[x].native /\ x \in Findable
        BY <1>4, <1>7, <1>10, <1>11, <2>2, <3>2
      <4>2. PICK u \in Threads : pc[u] = "unlock_old" /\ dict[u] = x
        BY <4>1 DEF Protocol, BlockIsKept
      <4>3. u # t
        BY <1>2, <4>2
      <4> QED
        BY <1>5, <1>6, <4>2, <4>3
    <3> QED
      BY <3>1, <3>2
  <2> QED
    BY <2>1, <2>2
<1>19. Creators' /\ SharingIsFinal'
  <2>1. Creators'
    BY <1>4, <1>7, <1>9 DEF Protocol, Creators
  <2>2. ASSUME NEW x \in Live, gen'[x].shared PROVE gen'[g].shared
    <3>1. CASE x = g
      BY <2>2, <3>1
    <3>2. CASE x # g
      <4>1. x \in Findable /\ gen[x].shared
        BY <1>4, <1>7, <1>10, <2>2, <3>2
      <4>2. gen[h].shared
        BY <1>1, <4>1 DEF Protocol, SharingIsFinal
      <4> QED
        BY <1>4, <1>7, <4>2
    <3> QED
      BY <3>1, <3>2
  <2>3. SharingIsFinal'
    BY <1>10, <1>14, <2>2 DEF SharingIsFinal
  <2> QED
    BY <2>1, <2>3
<1> QED
  BY <1>12, <1>13, <1>16, <1>17, <1>18, <1>19 DEF Protocol

-----------------------------------------------------------------------------
(* Sections: no thread has a pointer to any generation.                    *)

InsidePcs == AccessPcs \cup {"done"}

LEMMA WorldIsStopped ==
  ASSUME NEW t \in Threads, pc[t] \in OutPcs, STW!WorldStoppedFor(t)
  PROVE  \A u \in Threads : pc[u] \in OutPcs /\ pc[u] \notin InsidePcs
<1>1. \A u \in Threads : pc[u] \in OutPcs
  BY DEF STW!WorldStoppedFor, mode
<1>2. \A x \in OutPcs : x \notin InsidePcs
  BY DEF OutPcs, InsidePcs, AccessPcs, ReadPcs, StorePcs, LockedPcs
<1> QED
  BY <1>1, <1>2

LEMMA OutsidePcs ==
  ASSUME NEW x, x \notin InsidePcs
  PROVE  /\ x \notin AccessPcs \cup TipPcs \cup StorePcs \cup LockedPcs \cup ProbePcs \cup {"done"}
         /\ x \notin {"publish", "unlock_old", "search", "freeze_store", "back_off",
                      "freeze_back_off", "lock", "check_newer", "unlock_expand", "freeze_lock",
                      "freeze_check", "freeze_unlock", "read_native"}
BY DEF InsidePcs, AccessPcs, TipPcs, ReadPcs, ProbePcs, StorePcs, LockedPcs

(* What the stopped threads keep: all of it, but one that waited for the   *)
(* section goes back to retry.                                             *)
StoppedThreads ==
  \A u \in Threads :
    /\ pc[u] \in OutPcs /\ pc'[u] \in OutPcs
    /\ pc'[u] = pc[u] \/ (pc[u] = "promote" /\ pc'[u] = "retry")
    /\ op'[u] = op[u] /\ at'[u] = at[u]

LEMMA StoppedThreadsAreGood ==
  ASSUME Protocol, StoppedThreads,
         \A u \in Threads : pc[u] = "alloc" /\ u # Creator =>
           \A g \in Findable' : Link(g)' = NULL => gen'[g].shared
  PROVE  ThreadsAreInOrder'
<1>1. ASSUME NEW u \in Threads
      PROVE  PointersAreGood(u)' /\ OperationIsKept(u)' /\ SharingIsKept(u)'
  <2>1. pc'[u] \notin InsidePcs
    BY DEF StoppedThreads, OutPcs, InsidePcs, AccessPcs, ReadPcs, StorePcs, LockedPcs
  <2>2. PointersAreGood(u)'
    BY <2>1, OutsidePcs DEF PointersAreGood
  <2>3. OperationIsKept(u)'
    <3>1. OperationIsKept(u) /\ op'[u] = op[u] /\ at'[u] = at[u]
      BY ThreadFacts DEF StoppedThreads
    <3>2. pc'[u] \notin ProbePcs \cup StorePcs
      BY <2>1, OutsidePcs
    <3>3. CASE pc'[u] = pc[u]
      BY <3>1, <3>2, <3>3 DEF OperationIsKept
    <3>4. CASE pc[u] = "promote" /\ pc'[u] = "retry"
      BY <3>1, <3>2, <3>4 DEF OperationIsKept, KindsAt, ProbePcs, FreezePcs, GrowPcs, SearchPcs
    <3> QED
      BY <3>3, <3>4 DEF StoppedThreads
  <2>4. SharingIsKept(u)'
    <3>1. pc'[u] = "alloc" => pc[u] = "alloc"
      BY DEF StoppedThreads
    <3> QED
      BY <2>1, <3>1, OutsidePcs DEF SharingIsKept
  <2> QED
    BY <2>2, <2>3, <2>4
<1> QED
  BY <1>1 DEF ThreadsAreInOrder, ThreadIsGood

LEMMA StoppedContents ==
  ASSUME Protocol, \A u \in Threads : pc[u] \notin InsidePcs
  PROVE  /\ Findable = Live /\ Newest \in Live /\ Newest \in Gens /\ Link(Newest) = NULL
         /\ Live \subseteq Gens
         /\ \A g \in Live : Link(g) = NULL => g = Newest
         /\ \A g \in Live : \A u \in Threads :
              /\ Owns(u, g) <=> pc[u] = "alloc" /\ g = Newest
              /\ Counted(u, g) <=> Owns(u, g)
         /\ \A g \in Live : gen[g].native <=> g = Newest
<1>1. Findable = Live
  BY OutsidePcs DEF Findable, Private
<1>2. /\ Newest \in Live /\ Newest \in Gens /\ Link(Newest) = NULL /\ Live \subseteq Gens
      /\ \A g \in Live : Link(g) = NULL => g = Newest
  BY <1>1, NewestIsTip DEF Protocol
<1>3. \A g \in Live : \A u \in Threads : Owns(u, g) <=> pc[u] = "alloc" /\ g = Newest
  BY <1>1, <1>2, OutsidePcs DEF Owns
<1>4. \A g : \A u \in Threads : Counted(u, g) <=> Owns(u, g)
  BY OutsidePcs DEF Counted
<1>5. \A g \in Live : gen[g].native <=> g = Newest
  <2>1. gen[Newest].native
    BY <1>1, <1>2 DEF Protocol, BlockIsKept
  <2>2. \A u \in Threads : pc[u] # "unlock_old"
    BY OutsidePcs
  <2>3. ASSUME NEW g \in Live, g # Newest PROVE ~gen[g].native
    BY <1>1, <1>2, <2>2, <2>3 DEF Protocol, BlockIsKept
  <2> QED
    BY <2>1, <2>3
<1> QED
  BY <1>1, <1>2, <1>3, <1>4, <1>5

LEMMA PromoteKeeps ==
  ASSUME Protocol, NEW t \in Threads, Promote(t)
  PROVE  Protocol'
<1>1. /\ pc[t] = "promote" /\ pc[t] \in OutPcs /\ pc' = [pc EXCEPT ![t] = "retry"]
      /\ STW!WorldStoppedFor(t)
      /\ UNCHANGED <<ref, op, dict, new, at, result, nops, entries, seen, raced>>
  BY DEF Promote, Goto, OutPcs, ghosts
<1>2. \A u \in Threads : pc[u] \in OutPcs /\ pc[u] \notin InsidePcs
  BY <1>1, WorldIsStopped
<1>3. PICK h \in Live : /\ h = Newest /\ h \in Gens /\ gen' = [gen EXCEPT ![h].shared = TRUE]
                        /\ \A x \in Live : Link(x) = NULL => x = h
  BY <1>2, StoppedContents DEF Promote
<1>4. /\ pc'[t] = "retry" /\ (\A u \in Threads \ {t} : pc'[u] = pc[u])
      /\ pc' \in [Threads -> Pcs] /\ pc'[t] \in OutPcs
  BY <1>1 DEF Protocol, Typed, Pcs, OutPcs
<1>5. /\ gen' \in [Gens -> Dicts] /\ gen'[h].shared
      /\ \A x \in Gens : /\ gen'[x].alloc_size = gen[x].alloc_size /\ gen'[x].newer = gen[x].newer
                         /\ gen'[x].creator = gen[x].creator
                         /\ gen'[x].write_lock = gen[x].write_lock
                         /\ gen'[x].native = gen[x].native
  <2>1. gen \in [Gens -> Dicts] /\ gen[h] \in Dicts
    BY <1>3 DEF Protocol, Typed
  <2>2. gen'[h] = [gen[h] EXCEPT !.shared = TRUE] /\ \A x \in Gens \ {h} : gen'[x] = gen[x]
    BY <1>3, <2>1
  <2>3. /\ gen'[h] \in Dicts
        /\ gen'[h].alloc_size = gen[h].alloc_size /\ gen'[h].newer = gen[h].newer
        /\ gen'[h].creator = gen[h].creator
        /\ gen'[h].write_lock = gen[h].write_lock
        /\ gen'[h].native = gen[h].native /\ gen'[h].shared
    BY <2>1, <2>2 DEF Dicts
  <2>4. gen' \in [Gens -> Dicts]
    BY <1>3, <2>1, <2>2, <2>3
  <2> QED
    BY <2>2, <2>3, <2>4
<1>6. Live' = Live /\ \A x \in Gens : Link(x)' = Link(x)
  BY <1>5 DEF Live, Link
<1>7. /\ Findable' = Live /\ Findable = Live /\ Live \subseteq Gens
  <2>1. \A x : ~Private(x)'
    BY <1>2, <1>4, OutsidePcs DEF Private
  <2> QED
    BY <1>2, <1>6, <2>1, StoppedContents DEF Findable
<1>8. ChainIsWhole'
  <2>1. Chain' = Chain
    BY <1>1, <1>6 DEF Chain, Link
  <2> QED
    BY <1>1, <1>6, <1>7, <2>1 DEF Protocol, ChainIsWhole
<1>9. Typed'
  BY <1>1, <1>4, <1>5 DEF Protocol, Typed
<1>10. \A x \in Live : Link(x)' = NULL => gen'[x].shared
  BY <1>3, <1>5, <1>6, <1>7
<1>11. ThreadsAreInOrder'
  <2>1. StoppedThreads
    BY <1>1, <1>2, <1>4 DEF StoppedThreads
  <2> QED
    BY <1>7, <1>10, <2>1, StoppedThreadsAreGood
<1>12. LocksAreHeld'
  <2>1. /\ \A u \in Threads : pc'[u] \notin InsidePcs
        /\ \A u \in Threads : pc'[u] = "alloc" <=> pc[u] = "alloc"
    BY <1>1, <1>2, <1>4 DEF InsidePcs, AccessPcs, ReadPcs, StorePcs, LockedPcs
  <2>2. \A u \in Threads, x \in Live :
          (Owns(u, x)' => Owns(u, x)) /\ (Counted(u, x)' <=> Counted(u, x))
    <3>1. \A u \in Threads, x \in Live : Owns(u, x)' <=> pc[u] = "alloc" /\ Link(x) = NULL
      BY <1>6, <1>7, <2>1, OutsidePcs DEF Owns
    <3>2. \A u \in Threads, x \in Live : Owns(u, x) <=> pc[u] = "alloc" /\ Link(x) = NULL
      BY <1>2, StoppedContents
    <3>3. \A u \in Threads, x \in Live : Counted(u, x)' <=> Owns(u, x)'
      BY <2>1, OutsidePcs DEF Counted
    <3>4. \A u \in Threads, x \in Live : Counted(u, x) <=> Owns(u, x)
      BY <1>2, StoppedContents
    <3> QED
      BY <3>1, <3>2, <3>3, <3>4
  <2> QED
    BY <1>5, <1>6, <2>2, LocksKept
<1>13. BlockIsKept'
  <2>1. \A x \in Live : Link(x) = NULL <=> gen[x].native
    BY <1>2, StoppedContents
  <2> QED
    BY <1>5, <1>6, <1>7, <2>1 DEF BlockIsKept
<1>14. Creators' /\ SharingIsFinal'
  BY <1>5, <1>6, <1>7, <1>10 DEF Protocol, Creators, SharingIsFinal
<1> QED
  BY <1>8, <1>9, <1>11, <1>12, <1>13, <1>14 DEF Protocol

(* A move keeps everything but the layout.                                 *)
LEMMA MovedIsTyped ==
  ASSUME NEW d \in Dicts, NEW m \in Moved(d)
  PROVE  m \in Dicts /\ SameHeader(m, d)
<1>1. CASE m = d
  BY <1>1 DEF SameHeader
<1>2. CASE m # d
  <2>1. d.creator \in Threads /\ d.alloc_size \in 0 .. MaxSize
    BY DEF Dicts
  <2>2. PICK e \in Dicts : e = NewDict(d.creator, d.alloc_size)
    BY <2>1, FreshIsTyped
  <2>3. PICK f \in Dicts : f = Rehash(e, d)
    BY <2>2, RehashIsTyped
  <2>4. m = [d EXCEPT !.key = f.key, !.value = f.value]
    BY <1>2, <2>2, <2>3 DEF Moved
  <2>5. f.key \in KeySlots /\ f.value \in [Slots -> Values]
    BY <2>3 DEF Dicts
  <2> QED
    BY <2>4, <2>5 DEF Dicts, SameHeader
<1> QED
  BY <1>1, <1>2

LEMMA CollectKeeps ==
  ASSUME Protocol, NEW t \in Threads, Collect(t)
  PROVE  Protocol'
<1>1. /\ pc[t] \in OutPcs /\ STW!WorldStoppedFor(t)
      /\ UNCHANGED <<pc, op, dict, new, at, result, nops, entries, seen, raced>>
  BY DEF Collect, OutPcs, threadVars, ghosts
<1>2. \A u \in Threads : pc[u] \in OutPcs /\ pc[u] \notin InsidePcs
  BY <1>1, WorldIsStopped
<1>3. PICK h \in Live :
        /\ h = Newest /\ h \in Gens /\ Link(h) = NULL /\ Findable = Live /\ gen[h].native
        /\ \A u \in Threads : (Owns(u, h) <=> pc[u] = "alloc") /\ (Counted(u, h) <=> Owns(u, h))
  BY <1>2, StoppedContents
<1>4. PICK g \in Free \cup {h}, d \in {gen[h]} \cup Moved(gen[h]) :
        /\ gen' = [x \in Gens |-> IF x = g THEN d ELSE Unused]
        /\ ref' = g
  <2>1. PICK g \in Free \cup {h} :
          \E d \in IF g = h THEN {gen[g]} ELSE Moved(gen[h]) :
            /\ gen' = [x \in Gens |-> IF x = g THEN d ELSE Unused]
            /\ ref' = g
    BY <1>3 DEF Collect
  <2> QED
    BY <2>1
<1>5. g \in Gens
  BY <1>3 DEF Free
<1>6. d \in Dicts /\ SameHeader(d, gen[h]) /\ gen[h].creator = Creator
  <2>1. gen[h] \in Dicts /\ gen[h].creator = Creator
    BY <1>3 DEF Protocol, Typed, Creators
  <2>2. CASE d = gen[h]
    BY <2>1, <2>2 DEF SameHeader
  <2>3. CASE d \in Moved(gen[h])
    BY <2>1, <2>3, MovedIsTyped
  <2> QED
    BY <1>4, <2>1, <2>2, <2>3
<1>7. gen'[g] = d /\ (\A x \in Gens \ {g} : gen'[x] = Unused) /\ gen' \in [Gens -> Dicts]
  <2>1. Unused \in Dicts
    BY FreshIsTyped
  <2> QED
    BY <1>4, <1>5, <1>6, <2>1
<1>8. /\ d.alloc_size > 0 /\ d.newer = NULL /\ d.shared = gen[h].shared /\ d.creator = Creator
      /\ d.write_lock = gen[h].write_lock /\ d.native
  BY <1>3, <1>6 DEF SameHeader, Live, Link
<1>9. Unused.alloc_size = 0 /\ Unused.newer = NULL
  BY DEF Unused
<1>10. Live' = {g}
  BY <1>5, <1>7, <1>8, <1>9 DEF Live
<1>11. \A x \in Gens : Link(x)' = NULL
  BY <1>5, <1>7, <1>8, <1>9 DEF Link
<1>12. Findable' = {g}
  <2>1. \A x : ~Private(x)'
    BY <1>1, <1>2, OutsidePcs DEF Private
  <2> QED
    BY <1>10, <2>1 DEF Findable
<1>13. ChainIsWhole'
  <2>1. g \in Chain'
    BY <1>4, <1>5 DEF Chain
  <2> QED
    BY <1>4, <1>5, <1>11, <1>12, <2>1 DEF ChainIsWhole
<1>14. Typed'
  BY <1>1, <1>4, <1>5, <1>7 DEF Protocol, Typed
<1>15. ThreadsAreInOrder'
  <2>1. ASSUME NEW u \in Threads, pc[u] = "alloc", u # Creator PROVE gen'[g].shared
    BY <1>3, <1>7, <1>8, <2>1, ThreadFacts DEF SharingIsKept
  <2>2. StoppedThreads
    BY <1>1, <1>2 DEF StoppedThreads
  <2> QED
    BY <1>12, <2>1, <2>2, StoppedThreadsAreGood
<1>16. LocksAreHeld'
  <2>1. \A u \in Threads : Owns(u, g)' <=> Owns(u, h)
    <3>1. Link(g)' = NULL
      BY <1>5, <1>11
    <3> QED
      BY <1>1, <1>2, <1>3, <1>12, <3>1, OutsidePcs DEF Owns
  <2>2. \A u \in Threads : Counted(u, g)' <=> Counted(u, h)
    BY <1>1, <1>2, <1>3, <2>1, OutsidePcs DEF Counted
  <2>3. Holders(g)' = Holders(h)
    BY <2>2 DEF Holders
  <2> QED
    BY <1>3, <1>7, <1>8, <1>10, <2>1, <2>3 DEF Protocol, LocksAreHeld
<1>17. BlockIsKept'
  BY <1>5, <1>7, <1>8, <1>11, <1>12 DEF BlockIsKept
<1>18. Creators' /\ SharingIsFinal'
  BY <1>7, <1>8, <1>10, <1>12 DEF Creators, SharingIsFinal
<1> QED
  BY <1>13, <1>14, <1>15, <1>16, <1>17, <1>18 DEF Protocol

-----------------------------------------------------------------------------
(* The specification.                                                      *)

(* The n-th insertion of the creator.                                      *)
PreloadStep(x, n) == [Bind(x, Preloaded[n], n) EXCEPT !.size = n]

LEMMA PreloadIterates ==
  ASSUME Init
  PROVE  \E f \in [0 .. Len(Preloaded) -> Dicts] :
           /\ f[0] = NewDict(Creator, StartSize)
           /\ \A n \in 1 .. Len(Preloaded) : f[n] = PreloadStep(f[n - 1], n)
           /\ \A n \in 0 .. Len(Preloaded) : SameHeader(f[n], NewDict(Creator, StartSize))
           /\ gen = [g \in Gens |-> IF g = ref THEN [f[Len(Preloaded)] EXCEPT !.native = TRUE]
                                              ELSE Unused]
<1> DEFINE N == Len(Preloaded)
           first == NewDict(Creator, StartSize)
           X == {x \in Dicts : SameHeader(x, first)}
           Rec(f) == [n \in 0 .. N |->
                        IF n = 0 THEN first
                        ELSE [Bind(f[n - 1], Preloaded[n], n) EXCEPT !.size = n]]
           fill == CHOOSE fill : fill = [n \in 0 .. N |->
                        IF n = 0 THEN first
                        ELSE [Bind(fill[n - 1], Preloaded[n], n) EXCEPT !.size = n]]
<1>1. N \in Nat /\ (\A n \in 1 .. N : Preloaded[n] \in Keys /\ n \in Values)
  <2>1. Preloaded \in Seq(Keys) /\ MaxOps \in Nat /\ Len(Preloaded) <= MaxOps
    BY DictAssumption
  <2> QED
    BY <2>1 DEF Values
<1>2. first \in X
  <2>1. StartSize \in 0 .. MaxSize /\ Creator \in Threads
    BY DictAssumption
  <2> QED
    BY <2>1, FreshIsTyped DEF SameHeader
<1>3. ASSUME NEW n \in 1 .. N, NEW x \in X PROVE PreloadStep(x, n) \in X
  <2>1. PICK y : y = Bind(x, Preloaded[n], n)
    OBVIOUS
  <2>2. y \in Dicts /\ SameHeader(y, x)
    BY <1>1, <2>1, BindIsTyped
  <2>3. [y EXCEPT !.size = n] \in Dicts /\ SameHeader([y EXCEPT !.size = n], y)
    BY <2>2 DEF Dicts, SameHeader
  <2> QED
    BY <2>1, <2>2, <2>3 DEF PreloadStep, SameHeader
<1>4. PICK f \in [0 .. N -> X] : f[0] = first /\ \A n \in 1 .. N : f[n] = PreloadStep(f[n - 1], n)
  <2>1. PICK F : F = [n \in 1 .. N |-> [x \in X |-> PreloadStep(x, n)]]
    OBVIOUS
  <2>2. F \in [1 .. N -> [X -> X]]
    <3> HIDE DEF X
    <3> QED
      BY <1>3, <2>1
  <2>3. PICK f \in [0 .. N -> X] : f[0] = first /\ \A n \in 1 .. N : f[n] = F[n][f[n - 1]]
    <3>1. N \in Nat /\ first \in X
      BY <1>1, <1>2
    <3> HIDE DEF X, N, fill, Rec, first
    <3>2. IterationOf(N, X, first, F)
      BY <2>2, <3>1, IterationExists
    <3> QED
      BY <3>2 DEF IterationOf
  <2>4. \A n \in 1 .. N : n - 1 \in 0 .. N
    BY <1>1
  <2> HIDE DEF X, first
  <2> QED
    BY <2>1, <2>3, <2>4
<1>5. f = Rec(f)
  <2>1. ASSUME NEW n \in 0 .. N PROVE f[n] = Rec(f)[n]
    <3>1. CASE n = 0
      BY <1>4, <3>1
    <3>2. CASE n \in 1 .. N
      BY <1>4, <3>2 DEF PreloadStep
    <3> QED
      BY <1>1, <3>1, <3>2
  <2>2. f = [n \in 0 .. N |-> f[n]] /\ Rec(f) = [n \in 0 .. N |-> Rec(f)[n]]
    BY <1>4
  <2> HIDE DEF Rec
  <2> QED
    BY <2>1, <2>2
<1>6. PICK e : e = fill
  OBVIOUS
<1>7. fill = Rec(fill)
  BY <1>5
<1>8. e = Rec(e)
  <2> HIDE DEF fill, Rec
  <2> QED
    BY <1>6, <1>7
<1>9. e[0] = first /\ \A n \in 1 .. N : e[n] = PreloadStep(e[n - 1], n)
  <2>1. \A n \in 0 .. N : e[n] = Rec(e)[n]
    BY <1>8
  <2>2. 0 \in 0 .. N /\ \A n \in 1 .. N : n \in 0 .. N /\ n # 0
    BY <1>1
  <2> HIDE DEF N, X, fill, first
  <2>3. e[0] = first
    BY <2>1, <2>2
  <2>4. ASSUME NEW n \in 1 .. N PROVE e[n] = PreloadStep(e[n - 1], n)
    BY <2>1, <2>2 DEF PreloadStep
  <2> QED
    BY <2>3, <2>4
<1>10. \A n \in 0 .. N : e[n] \in X
  <2> DEFINE T == {n \in 0 .. N : e[n] \in X}
  <2>1. 0 \in T
    <3> HIDE DEF X
    <3> QED
      BY <1>1, <1>2, <1>9
  <2>2. \A n \in 1 .. N : n - 1 \in T => n \in T
    <3> HIDE DEF X
    <3> QED
      BY <1>1, <1>3, <1>9
  <2>3. \A n \in 0 .. N : n \in T
    <3> HIDE DEF T
    <3> QED
      BY <1>1, <2>1, <2>2, CountingUp
  <2> QED
    BY <2>3
<1>11. e \in [0 .. N -> X]
  <2>1. e = [n \in 0 .. N |-> Rec(e)[n]]
    BY <1>8
  <2>2. \A n \in 0 .. N : Rec(e)[n] \in X
    <3>1. \A n \in 0 .. N : Rec(e)[n] = e[n]
      BY <1>8
    <3> HIDE DEF X, Rec, N
    <3> QED
      BY <1>10, <3>1
  <2> HIDE DEF X, Rec, N
  <2> QED
    BY <2>1, <2>2
<1>12. gen = [g \in Gens |-> IF g = ref THEN [e[N] EXCEPT !.native = TRUE] ELSE Unused]
  <2>1. gen = [g \in Gens |-> IF g = ref THEN [fill[N] EXCEPT !.native = TRUE] ELSE Unused]
    BY DEF Init
  <2> HIDE DEF fill
  <2> QED
    BY <1>6, <2>1
<1> HIDE DEF fill, Rec
<1> QED
  BY <1>9, <1>10, <1>11, <1>12

LEMMA PreloadedIsTyped ==
  ASSUME Init
  PROVE  \E r \in Dicts :
           /\ r.alloc_size = StartSize /\ r.newer = NULL /\ ~r.shared /\ r.creator = Creator
           /\ r.write_lock = 0 /\ r.native
           /\ gen = [g \in Gens |-> IF g = ref THEN r ELSE Unused]
<1> DEFINE N == Len(Preloaded)
           first == NewDict(Creator, StartSize)
<1>1. N \in 0 .. N
  BY DictAssumption
<1>2. PICK x \in Dicts :
        /\ SameHeader(x, first)
        /\ gen = [g \in Gens |-> IF g = ref THEN [x EXCEPT !.native = TRUE] ELSE Unused]
  BY <1>1, PreloadIterates
<1>3. /\ first.alloc_size = StartSize /\ first.newer = NULL /\ ~first.shared
      /\ first.creator = Creator /\ first.write_lock = 0
  BY DEF NewDict, Unused
<1>4. PICK r : r = [x EXCEPT !.native = TRUE]
  OBVIOUS
<1>5. /\ r \in Dicts /\ r.alloc_size = StartSize /\ r.newer = NULL /\ ~r.shared
      /\ r.creator = Creator /\ r.write_lock = 0 /\ r.native
  BY <1>2, <1>3, <1>4 DEF Dicts, SameHeader
<1> QED
  BY <1>2, <1>4, <1>5

LEMMA InitProtocol == Init => Protocol
<1> SUFFICES ASSUME Init PROVE Protocol
  OBVIOUS
<1>1. PICK h \in Gens : ref = h
  BY DictAssumption DEF Init
<1>2. PICK r \in Dicts :
        /\ r.alloc_size = StartSize /\ r.newer = NULL /\ ~r.shared /\ r.creator = Creator
        /\ r.write_lock = 0 /\ r.native
        /\ gen = [g \in Gens |-> IF g = h THEN r ELSE Unused]
  BY <1>1, PreloadedIsTyped
<1>3. /\ pc = [t \in Threads |-> "idle"] /\ op = [t \in Threads |-> NoOp]
      /\ dict = [t \in Threads |-> NULL] /\ new = [t \in Threads |-> NULL]
      /\ at = [t \in Threads |-> 0] /\ result = [t \in Threads |-> Absent]
      /\ nops = Len(Preloaded) /\ seen = [t \in Threads |-> {}]
      /\ raced = [t \in Threads |-> FALSE]
      /\ entries = [k \in Keys |-> IF \E n \in DOMAIN Preloaded : Preloaded[n] = k
                                   THEN CHOOSE n \in DOMAIN Preloaded : Preloaded[n] = k
                                   ELSE Absent]
  BY DEF Init
<1>4. /\ gen[h] = r /\ (\A x \in Gens \ {h} : gen[x] = Unused) /\ gen \in [Gens -> Dicts]
      /\ Unused.alloc_size = 0 /\ Unused.newer = NULL
  <2>1. Unused \in Dicts /\ Unused.alloc_size = 0 /\ Unused.newer = NULL
    BY FreshIsTyped DEF Unused
  <2> QED
    BY <1>2, <2>1
<1>5. Live = {h}
  BY <1>2, <1>4, DictAssumption DEF Live
<1>6. \A x \in Gens : Link(x) = NULL
  BY <1>2, <1>4 DEF Link
<1>7. Findable = {h}
  <2>1. \A x : ~Private(x)
    BY <1>3 DEF Private
  <2> QED
    BY <1>5, <2>1 DEF Findable
<1>8. ChainIsWhole
  <2>1. h \in Chain
    BY <1>1 DEF Chain
  <2> QED
    BY <1>1, <1>6, <1>7, <2>1 DEF ChainIsWhole
<1>9. Typed
  <2>1. Preloaded \in Seq(Keys) /\ MaxOps \in Nat /\ Len(Preloaded) <= MaxOps /\ MaxSize \in Nat
    BY DictAssumption
  <2>2. nops \in Values /\ DOMAIN Preloaded \subseteq Values /\ 0 \in Values
    BY <1>3, <2>1 DEF Values
  <2>3. entries \in [Keys -> Values \cup {Absent}]
    <3>1. ASSUME NEW k \in Keys
          PROVE  (IF \E n \in DOMAIN Preloaded : Preloaded[n] = k
                  THEN CHOOSE n \in DOMAIN Preloaded : Preloaded[n] = k
                  ELSE Absent) \in Values \cup {Absent}
      BY <2>2
    <3> QED
      BY <1>3, <3>1
  <2>4. NoOp \in Operation
    BY <2>2 DEF NoOp, Operation, Cleared
  <2> QED
    BY <1>1, <1>3, <1>4, <2>1, <2>2, <2>3, <2>4 DEF Typed, Pcs, OutPcs
<1>10. ThreadsAreInOrder
  <2> SUFFICES ASSUME NEW t \in Threads PROVE ThreadIsGood(t)
    BY DEF ThreadsAreInOrder
  <2>1. pc[t] = "idle" /\ op[t] = NoOp /\ at[t] = 0
    BY <1>3
  <2>2. PointersAreGood(t)
    BY <2>1 DEF PointersAreGood, AccessPcs, TipPcs, ReadPcs, StorePcs, LockedPcs
  <2>3. OperationIsKept(t)
    BY <2>1 DEF OperationIsKept, KindsAt, ProbePcs, FreezePcs, GrowPcs, SearchPcs, StorePcs, NoOp
  <2>4. SharingIsKept(t)
    BY <2>1 DEF SharingIsKept, AccessPcs, ReadPcs, StorePcs, LockedPcs
  <2> QED
    BY <2>2, <2>3, <2>4 DEF ThreadIsGood
<1>11. LocksAreHeld
  <2>1. \A t \in Threads : \A x : ~Owns(t, x) /\ ~Counted(t, x)
    BY <1>3 DEF Owns, Counted, LockedPcs, StorePcs
  <2>2. \A x : Holders(x) = {}
    BY <2>1 DEF Holders
  <2>3. Cardinality({}) = 0
    BY FS_EmptySet
  <2>4. \A x : Cardinality(Holders(x)) = 0
    BY <2>2, <2>3
  <2> QED
    BY <1>2, <1>4, <1>5, <2>1, <2>4 DEF LocksAreHeld
<1>12. BlockIsKept /\ Creators /\ SharingIsFinal
  BY <1>2, <1>4, <1>5, <1>6, <1>7 DEF BlockIsKept, Creators, SharingIsFinal
<1> QED
  BY <1>8, <1>9, <1>10, <1>11, <1>12 DEF Protocol

LEMMA StutterKeeps == Protocol /\ UNCHANGED vars => Protocol'
<1> SUFFICES ASSUME Protocol, UNCHANGED vars PROVE Protocol'
  OBVIOUS
<1>1. UNCHANGED <<gen, ref, pc, op, dict, new, at, result, nops, entries, seen, raced>>
  BY DEF vars, threadVars, ghosts
<1>2. Live' = Live /\ \A x : Link(x)' = Link(x)
  BY <1>1 DEF Live, Link
<1>3. Findable' = Findable /\ Chain' = Chain
  <2>1. \A x : Private(x)' <=> Private(x)
    BY <1>1 DEF Private
  <2> QED
    BY <1>1, <1>2, <2>1 DEF Findable, Chain
<1>4. ChainIsWhole'
  BY <1>1, <1>2, <1>3 DEF Protocol, ChainIsWhole
<1>5. ThreadsAreInOrder'
  <2> SUFFICES ASSUME NEW t \in Threads PROVE ThreadIsGood(t)'
    BY DEF ThreadsAreInOrder
  <2>1. PointersAreGood(t) /\ OperationIsKept(t) /\ SharingIsKept(t)
    BY ThreadFacts
  <2>2. PointersAreGood(t)'
    BY <1>1, <1>2, <1>3, <2>1 DEF PointersAreGood, Link
  <2>3. OperationIsKept(t)'
    BY <1>1, <2>1 DEF OperationIsKept
  <2>4. SharingIsKept(t)'
    BY <1>1, <1>2, <1>3, <2>1 DEF SharingIsKept
  <2> QED
    BY <2>2, <2>3, <2>4 DEF ThreadIsGood
<1>6. LocksAreHeld'
  <2>1. \A t \in Threads, g \in Live :
          (Owns(t, g)' => Owns(t, g)) /\ (Counted(t, g)' <=> Counted(t, g))
    BY <1>1, <1>2, <1>3 DEF Owns, Counted
  <2> QED
    BY <1>1, <1>2, <2>1, LocksKept
<1>7. BlockIsKept' /\ Creators' /\ SharingIsFinal' /\ Typed'
  <2>1. BlockIsKept'
    BY <1>1, <1>2, <1>3 DEF Protocol, BlockIsKept
  <2>2. Creators' /\ SharingIsFinal'
    BY <1>1, <1>2, <1>3 DEF Protocol, Creators, SharingIsFinal
  <2>3. Typed'
    BY <1>1 DEF Protocol, Typed
  <2> QED
    BY <2>1, <2>2, <2>3
<1> QED
  BY <1>4, <1>5, <1>6, <1>7 DEF Protocol

LEMMA NextProtocol == Protocol /\ [Next]_vars => Protocol'
<1> SUFFICES ASSUME Protocol, [Next]_vars PROVE Protocol'
  OBVIOUS
<1>1. CASE UNCHANGED vars
  BY <1>1, StutterKeeps
<1>2. ASSUME NEW t \in Threads, Step(t) PROVE Protocol'
  <2>1. CASE Promote(t)
    BY <2>1, PromoteKeeps
  <2>2. CASE Collect(t)
    BY <2>2, CollectKeeps
  <2>3. CASE StartRead(t) \/ StartWrite(t) \/ StartErase(t)
    BY <2>3, StartKeeps
  <2>4. CASE StartPromotion(t)
    BY <2>4, StartPromotionKeeps
  <2>5. CASE BeginAccess(t)
    BY <2>5, BeginAccessKeeps
  <2>6. CASE LoadKeyType(t) \/ LoadKeyStr(t) \/ ReadValue(t) \/ ReadNative(t)
    BY <2>6, ReadKeeps
  <2>7. CASE FinishRead(t)
    BY <2>7, FinishReadKeeps
  <2>8. CASE StartHandleUse(t)
    BY <2>8, StartHandleUseKeeps
  <2>9. CASE TryLock(t) \/ ExpandTryLock(t) \/ FreezeTryLock(t)
    BY <2>9, TryLockKeeps
  <2>10. CASE BackOff(t) \/ UnlockRetry(t)
    BY <2>10, UnlockToRetryKeeps
  <2>11. CASE UnlockDone(t)
    BY <2>11, UnlockDoneKeeps
  <2>12. CASE UnlockExpand(t) \/ FreezeBackOff(t) \/ FreezeUnlock(t)
    BY <2>12, UnlockToLockKeeps
  <2>13. CASE UnlockOld(t)
    BY <2>13, UnlockOldKeeps
  <2>14. CASE CheckNewer(t) \/ ExpandCheckNewer(t) \/ FreezeCheckNewer(t)
    BY <2>14, CheckNewerKeeps
  <2>15. CASE SearchToWrite(t)
    BY <2>15, SearchToWriteKeeps
  <2>16. CASE SearchToErase(t)
    BY <2>16, SearchToEraseKeeps
  <2>17. CASE StoreValue(t)
    BY <2>17, StoreValueKeeps
  <2>18. CASE StoreKey(t)
    BY <2>18, StoreKeyKeeps
  <2>19. CASE PublishKey(t) \/ EraseKey(t)
    BY <2>19, KeyTypeKeeps
  <2>20. CASE AllocAndCopy(t)
    BY <2>20, AllocAndCopyKeeps
  <2>21. CASE AllocFails(t)
    BY <2>21, AllocFailsKeeps
  <2>22. CASE Publish(t)
    BY <2>22, PublishKeeps
  <2>23. CASE StartFreeze(t)
    BY <2>23, StartFreezeKeeps
  <2>24. CASE FreezeStore(t)
    BY <2>24, FreezeStoreKeeps
  <2> QED
    BY <1>2, <2>1, <2>2, <2>3, <2>4, <2>5, <2>6, <2>7, <2>8, <2>9, <2>10, <2>11, <2>12,
       <2>13, <2>14, <2>15, <2>16, <2>17, <2>18, <2>19, <2>20, <2>21, <2>22, <2>23, <2>24
       DEF Step
<1> QED
  BY <1>1, <1>2 DEF Next

(* Through every interleaving of reads, writes, erasures, freezes,         *)
(* expansions, promotions and collections, the generations that threads    *)
(* can find are one chain, each lock counts those that have added to it    *)
(* and at most one of them owns it, and every thread's pointer, slot and   *)
(* operation are what its control point says.                              *)
THEOREM Invariance == Spec => []Protocol
<1>1. Init => Protocol
  BY InitProtocol
<1>2. Protocol /\ [Next]_vars => Protocol'
  BY NextProtocol
<1> QED
  BY <1>1, <1>2, PTL DEF Spec

(* write_lock counts exactly the threads that hold the lock of a           *)
(* generation or are backing off from it, on every path of write, erasure, *)
(* expansion and freeze.                                                   *)
THEOREM LocksCountHolders == Spec => []LocksMatchHolders
<1>1. Protocol => LocksMatchHolders
  <2> SUFFICES ASSUME Protocol, NEW g \in Live
               PROVE  gen[g].write_lock = Cardinality({t \in Threads : Holds(t, g)})
    BY DEF LocksMatchHolders
  <2>1. /\ Newest \in Findable /\ Link(Newest) = NULL
        /\ \A x \in Findable : Link(x) = NULL => x = Newest
    BY NewestIsTip DEF Protocol
  <2>2. \A t \in Threads : Holds(t, g) <=> Counted(t, g)
    BY <2>1 DEF Holds, Counted, Owns, LockedPcs
  <2>3. {t \in Threads : Holds(t, g)} = Holders(g)
    BY <2>2 DEF Holders
  <2> QED
    BY <2>3 DEF Protocol, LocksAreHeld
<1> QED
  BY <1>1, Invariance, PTL

(* Whenever the world is stopped, the newest generation has the native     *)
(* control block and no other generation has it: a collection neither      *)
(* finalizes it while the handle is in use nor finalizes it twice.         *)
THEOREM BlockHasOneHolder == Spec => []ControlBlockHasOneHolder
<1>1. Protocol => ControlBlockHasOneHolder
  <2> SUFFICES ASSUME Protocol, NEW t \in Threads, pc[t] \in OutPcs, STW!WorldStoppedFor(t)
               PROVE  \A g \in Live : gen[g].native <=> g = Newest
    BY DEF ControlBlockHasOneHolder
  <2>1. \A u \in Threads : pc[u] \notin InsidePcs
    BY WorldIsStopped
  <2> QED
    BY <2>1, StoppedContents
<1> QED
  BY <1>1, Invariance, PTL

-----------------------------------------------------------------------------
(* Freezing.                                                               *)

(* A copy that is not yet published is as frozen as the generation it was  *)
(* made of, and a freeze that only has to unlock has frozen the newest.    *)
FreezesAreKept ==
  \A t \in Threads :
    /\ pc[t] = "publish" => (gen[new[t]].is_frozen <=> gen[dict[t]].is_frozen)
    /\ pc[t] = "unlock_done" /\ op[t].kind = "freeze" => gen[Newest].is_frozen

(* Nobody but its creator freezes a dictionary that is not shared.         *)
OwnerFreezes ==
  \A t \in Threads : pc[t] = "freeze_store" /\ ~gen[dict[t]].shared => t = Creator

FrozenStaysFrozen ==
  gen[Newest].is_frozen \/ (\E t \in Threads : FreezeReturns(t)) => gen'[Newest'].is_frozen

(* A step that has to do neither with flags nor with the chain.            *)
CalmStep(t) ==
  /\ UNCHANGED ref
  /\ \A g \in Gens : /\ gen'[g].alloc_size = gen[g].alloc_size /\ gen'[g].newer = gen[g].newer
                     /\ gen'[g].is_frozen = gen[g].is_frozen
  /\ pc[t] # "publish" /\ pc'[t] # "publish"
  /\ OthersStay(t)
  /\ ~(pc'[t] = "unlock_done" /\ op'[t].kind = "freeze")
  /\ op[t].kind = "freeze" /\ op'[t].kind # "freeze" => pc[t] = "unlock_done"

TipIsFindable == Newest \in Findable /\ Link(Newest) = NULL

LEMMA TipExists == ChainIsWhole => TipIsFindable
BY NewestIsTip DEF TipIsFindable

(* And one that has nothing to do with tables.                             *)
SameTables ==
  \A g \in Gens : /\ gen'[g].alloc_size = gen[g].alloc_size /\ gen'[g].newer = gen[g].newer
                  /\ gen'[g].key = gen[g].key /\ gen'[g].value = gen[g].value
                  /\ gen'[g].size = gen[g].size

QuietStep(t) ==
  /\ UNCHANGED <<ref, entries>> /\ SameTables /\ OthersStay(t)
  /\ pc[t] \notin StorePcs \cup {"publish"} /\ pc'[t] \notin StorePcs \cup {"publish"}

LEMMA CalmKeepsFreezes ==
  ASSUME Protocol, Protocol', FreezesAreKept, NEW t \in Threads, CalmStep(t)
  PROVE  FreezesAreKept' /\ FrozenStaysFrozen
<1>1. /\ Newest \in Findable /\ Link(Newest) = NULL
      /\ (\A g \in Findable : Link(g) = NULL => g = Newest)
      /\ Findable \subseteq Live /\ Live \subseteq Gens
  BY NewestIsTip DEF Protocol
<1>2. Newest' \in Findable' /\ Link(Newest)' = NULL
  <2>1. (ChainIsWhole => TipIsFindable)'
    BY TipExists, PTL
  <2> QED
    BY <2>1 DEF Protocol, TipIsFindable
<1>3. Live' = Live
  BY DEF Live, CalmStep
<1>4. Findable' = Findable
  <2>1. \A x : Private(x)' <=> Private(x)
    BY DEF Private, CalmStep, OthersStay
  <2> QED
    BY <1>3, <2>1 DEF Findable
<1>5. Newest' = Newest
  BY <1>1, <1>2, <1>4 DEF CalmStep, Link
<1>6. \A g \in Gens : gen'[g].is_frozen = gen[g].is_frozen
  BY DEF CalmStep
<1>7. FrozenStaysFrozen
  <2>1. ASSUME NEW u \in Threads, FreezeReturns(u) PROVE gen[Newest].is_frozen
    BY <2>1 DEF FreezeReturns, FreezesAreKept, CalmStep, OthersStay
  <2> QED
    BY <1>1, <1>5, <1>6, <2>1 DEF FrozenStaysFrozen
<1>8. ASSUME NEW u \in Threads
      PROVE  /\ pc'[u] = "publish" => (gen'[new'[u]].is_frozen <=> gen'[dict'[u]].is_frozen)
             /\ pc'[u] = "unlock_done" /\ op'[u].kind = "freeze" => gen'[Newest'].is_frozen
  <2>1. CASE u = t
    BY <2>1 DEF CalmStep
  <2>2. CASE u # t
    <3>1. pc'[u] = pc[u] /\ op'[u] = op[u] /\ dict'[u] = dict[u] /\ new'[u] = new[u]
      BY <2>2 DEF CalmStep, OthersStay
    <3>2. pc[u] = "publish" => dict[u] \in Gens /\ new[u] \in Gens
      BY <1>1, PcSets, ThreadFacts DEF PointersAreGood
    <3> QED
      BY <1>1, <1>5, <1>6, <3>1, <3>2 DEF FreezesAreKept
  <2> QED
    BY <2>1, <2>2
<1> QED
  BY <1>7, <1>8 DEF FreezesAreKept

(* Which fields the calm steps change.                                     *)
LEMMA CalmLock ==
  ASSUME Protocol, NEW t \in Threads, NEW from, NEW to, Unlock(t, from, to)
  PROVE  /\ \A g \in Gens : /\ gen'[g].alloc_size = gen[g].alloc_size /\ gen'[g].newer = gen[g].newer
                            /\ gen'[g].is_frozen = gen[g].is_frozen
         /\ SameTables
<1>1. gen \in [Gens -> Dicts] /\ \A g \in Gens : gen[g] \in Dicts
  BY DEF Protocol, Typed
<1>2. \A g \in Gens : gen'[g] = IF g = dict[t]
                                THEN [gen[g] EXCEPT !.write_lock = gen[g].write_lock - 1]
                                ELSE gen[g]
  BY <1>1 DEF Unlock
<1> QED
  BY <1>1, <1>2 DEF Dicts, SameTables

LEMMA CalmTryLock ==
  ASSUME Protocol, NEW t \in Threads, NEW from, NEW got, NEW lost, TryLockFor(t, from, got, lost)
  PROVE  /\ \A g \in Gens : /\ gen'[g].alloc_size = gen[g].alloc_size /\ gen'[g].newer = gen[g].newer
                            /\ gen'[g].is_frozen = gen[g].is_frozen
         /\ SameTables
<1>1. gen \in [Gens -> Dicts] /\ \A g \in Gens : gen[g] \in Dicts
  BY DEF Protocol, Typed
<1>2. \A g \in Gens : gen'[g] = IF g = dict[t]
                                THEN [gen[g] EXCEPT !.write_lock = gen[g].write_lock + 1]
                                ELSE gen[g]
  BY <1>1 DEF TryLockFor
<1> QED
  BY <1>1, <1>2 DEF Dicts, SameTables

LEMMA IdleHasNoFreeze ==
  ASSUME Protocol, NEW t \in Threads
  PROVE  /\ pc[t] = "idle" => op[t].kind = "none"
         /\ pc[t] \in StorePcs \cup {"search", "alloc"} => op[t].kind \in {"write", "erase"}
         /\ pc[t] \in {"done", "retry", "promote"} => op[t].kind # "freeze"
BY ThreadFacts DEF OperationIsKept, KindsAt, ProbePcs, FreezePcs, GrowPcs, SearchPcs, StorePcs

(* The steps that change no generation.                                    *)
LEMMA LocalSteps ==
  ASSUME Protocol, NEW t \in Threads,
         \/ StartRead(t) \/ StartWrite(t) \/ StartErase(t) \/ StartPromotion(t) \/ BeginAccess(t)
         \/ LoadKeyType(t) \/ LoadKeyStr(t) \/ ReadValue(t) \/ FinishRead(t)
         \/ StartHandleUse(t) \/ ReadNative(t) \/ CheckNewer(t) \/ ExpandCheckNewer(t)
         \/ AllocFails(t) \/ StartFreeze(t) \/ FreezeCheckNewer(t)
  PROVE  CalmStep(t) /\ QuietStep(t)
<1>1. /\ pc \in [Threads -> Pcs] /\ op \in [Threads -> Operation]
      /\ dict \in [Threads -> Gens \cup {NULL}] /\ new \in [Threads -> Gens \cup {NULL}]
      /\ at \in [Threads -> 0 .. MaxSize] /\ op[t] \in Operation
  BY DEF Protocol, Typed
<1>2. UNCHANGED <<gen, ref>>
  BY DEF StartRead, StartWrite, StartErase, StartUpdate, StartPromotion, BeginAccess, LoadKeyType,
         LoadKeyStr, ReadValue, FinishRead, StartHandleUse, ReadNative, CheckNewer,
         ExpandCheckNewer, AllocFails, StartFreeze, FreezeCheckNewer
<1> SUFFICES /\ pc[t] # "publish" /\ pc'[t] # "publish"
             /\ OthersStay(t) /\ pc[t] \notin StorePcs /\ pc'[t] \notin StorePcs /\ UNCHANGED entries
             /\ ~(pc'[t] = "unlock_done" /\ op'[t].kind = "freeze")
             /\ op[t].kind = "freeze" /\ op'[t].kind # "freeze" => pc[t] = "unlock_done"
  BY <1>2 DEF QuietStep, CalmStep, SameTables
<1>3. CASE StartRead(t)
  BY <1>1, <1>3, IdleHasNoFreeze DEF StartRead, Goto, OthersStay, StorePcs, ghosts
<1>4. CASE StartWrite(t) \/ StartErase(t)
  BY <1>1, <1>4, IdleHasNoFreeze
     DEF StartWrite, StartErase, StartUpdate, Goto, OthersStay, StorePcs, ghosts
<1>5. CASE StartPromotion(t)
  BY <1>1, <1>5 DEF StartPromotion, Goto, OthersStay, StorePcs, ghosts
<1>6. CASE BeginAccess(t)
  BY <1>1, <1>6 DEF BeginAccess, Goto, OthersStay, StorePcs, ghosts
<1>7. CASE LoadKeyType(t)
  <2>1. CASE ProbedKey(t).type = "TOMBSTONE"
    BY <1>1, <1>7, <2>1 DEF LoadKeyType, NextProbe, OthersStay, StorePcs, ghosts
  <2>2. CASE ProbedKey(t).type # "TOMBSTONE"
    BY <1>1, <1>7, <2>2 DEF LoadKeyType, Goto, OthersStay, StorePcs, ghosts
  <2> QED
    BY <2>1, <2>2
<1>8. CASE LoadKeyStr(t)
  <2>1. CASE ProbedKey(t).str = op[t].key
    BY <1>1, <1>8, <2>1 DEF LoadKeyStr, Goto, OthersStay, StorePcs, ghosts
  <2>2. CASE ProbedKey(t).str # op[t].key
    BY <1>1, <1>8, <2>2 DEF LoadKeyStr, NextProbe, OthersStay, StorePcs, ghosts
  <2> QED
    BY <2>1, <2>2
<1>9. CASE ReadValue(t) \/ ReadNative(t)
  BY <1>1, <1>9 DEF ReadValue, ReadNative, Goto, OthersStay, StorePcs, ghosts
<1>10. CASE FinishRead(t)
  BY <1>1, <1>10, IdleHasNoFreeze DEF FinishRead, Return, Goto, OthersStay, StorePcs, ghosts
<1>11. CASE StartHandleUse(t)
  BY <1>1, <1>11, IdleHasNoFreeze DEF StartHandleUse, Goto, OthersStay, StorePcs, ghosts
<1>12. CASE CheckNewer(t) \/ ExpandCheckNewer(t) \/ FreezeCheckNewer(t)
  BY <1>1, <1>12
     DEF CheckNewer, ExpandCheckNewer, FreezeCheckNewer, Goto, OthersStay, StorePcs, ghosts
<1>13. CASE AllocFails(t)
  BY <1>1, <1>13, IdleHasNoFreeze DEF AllocFails, Goto, OthersStay, StorePcs, ghosts
<1>14. CASE StartFreeze(t)
  BY <1>1, <1>14, IdleHasNoFreeze DEF StartFreeze, Goto, OthersStay, StorePcs, ghosts
<1> QED
  BY <1>3, <1>4, <1>5, <1>6, <1>7, <1>8, <1>9, <1>10, <1>11, <1>12, <1>13, <1>14

(* The steps that change locks, or set shared.                             *)
LEMMA LockSteps ==
  ASSUME Protocol, NEW t \in Threads,
         \/ TryLock(t) \/ ExpandTryLock(t) \/ FreezeTryLock(t)
         \/ BackOff(t) \/ UnlockRetry(t) \/ UnlockDone(t) \/ UnlockExpand(t)
         \/ FreezeBackOff(t) \/ FreezeUnlock(t) \/ UnlockOld(t) \/ Promote(t)
  PROVE  CalmStep(t) /\ QuietStep(t)
<1>1. /\ pc \in [Threads -> Pcs] /\ op \in [Threads -> Operation]
      /\ dict \in [Threads -> Gens \cup {NULL}] /\ new \in [Threads -> Gens \cup {NULL}]
      /\ at \in [Threads -> 0 .. MaxSize] /\ op[t] \in Operation
  BY DEF Protocol, Typed
<1>2. UNCHANGED ref
  BY DEF TryLock, ExpandTryLock, FreezeTryLock, TryLockFor, BackOff, UnlockRetry, UnlockDone,
         UnlockExpand, FreezeBackOff, FreezeUnlock, UnlockOld, Promote
<1>3. /\ \A g \in Gens : /\ gen'[g].alloc_size = gen[g].alloc_size /\ gen'[g].newer = gen[g].newer
                         /\ gen'[g].is_frozen = gen[g].is_frozen
      /\ SameTables
  <2>1. CASE TryLock(t) \/ ExpandTryLock(t) \/ FreezeTryLock(t)
    BY <2>1, CalmTryLock DEF TryLock, ExpandTryLock, FreezeTryLock
  <2>2. CASE \/ BackOff(t) \/ UnlockRetry(t) \/ UnlockDone(t) \/ UnlockExpand(t)
             \/ FreezeBackOff(t) \/ FreezeUnlock(t)
    <3>1. \E from, to : Unlock(t, from, to)
      BY <2>2 DEF BackOff, UnlockRetry, UnlockDone, UnlockExpand, FreezeBackOff, FreezeUnlock
    <3> QED
      BY <3>1, CalmLock
  <2>3. \A g \in Gens : gen[g] \in Dicts
    BY DEF Protocol, Typed
  <2>4. CASE UnlockOld(t)
    <3>1. gen \in [Gens -> Dicts]
      BY DEF Protocol, Typed
    <3>2. \A g \in Gens : gen'[g] = IF g = dict[t]
                                    THEN [gen[g] EXCEPT !.native = FALSE, !.write_lock = gen[g].write_lock - 1]
                                    ELSE gen[g]
      BY <2>3, <2>4, <3>1 DEF UnlockOld, Dicts
    <3> QED
      BY <2>3, <3>2 DEF Dicts, SameTables
  <2>5. CASE Promote(t)
    <3>1. gen \in [Gens -> Dicts]
      BY DEF Protocol, Typed
    <3>2. \A g \in Gens : gen'[g] = IF g = Newest THEN [gen[g] EXCEPT !.shared = TRUE] ELSE gen[g]
      BY <2>5, <3>1 DEF Promote
    <3> QED
      BY <2>3, <3>2 DEF Dicts, SameTables
  <2> QED
    BY <2>1, <2>2, <2>4, <2>5
<1> SUFFICES /\ pc[t] # "publish" /\ pc'[t] # "publish"
             /\ OthersStay(t) /\ pc[t] \notin StorePcs /\ pc'[t] \notin StorePcs /\ UNCHANGED entries
             /\ ~(pc'[t] = "unlock_done" /\ op'[t].kind = "freeze")
             /\ op[t].kind = "freeze" /\ op'[t].kind # "freeze" => pc[t] = "unlock_done"
  BY <1>2, <1>3 DEF QuietStep, CalmStep
<1>4. CASE TryLock(t) \/ ExpandTryLock(t) \/ FreezeTryLock(t)
  BY <1>1, <1>4
     DEF TryLock, ExpandTryLock, FreezeTryLock, TryLockFor, Goto, OthersStay, StorePcs, ghosts
<1>5. CASE BackOff(t) \/ UnlockRetry(t) \/ UnlockExpand(t) \/ FreezeBackOff(t) \/ FreezeUnlock(t)
  BY <1>1, <1>5
     DEF BackOff, UnlockRetry, UnlockExpand, FreezeBackOff, FreezeUnlock, Unlock, Goto, OthersStay, StorePcs, ghosts
<1>6. CASE UnlockDone(t)
  BY <1>1, <1>6 DEF UnlockDone, Unlock, Return, Goto, OthersStay, StorePcs, ghosts
<1>7. CASE UnlockOld(t) \/ Promote(t)
  BY <1>1, <1>7 DEF UnlockOld, Promote, Goto, OthersStay, StorePcs, ghosts
<1> QED
  BY <1>4, <1>5, <1>6, <1>7

(* The stores to the table, and the searches that end the operation.       *)
LEMMA StoreSteps ==
  ASSUME Protocol, NEW t \in Threads,
         \/ SearchToWrite(t) \/ SearchToErase(t)
         \/ StoreValue(t) \/ StoreKey(t) \/ PublishKey(t) \/ EraseKey(t)
  PROVE  CalmStep(t)
<1>1. /\ pc \in [Threads -> Pcs] /\ op[t].kind \in {"write", "erase"}
      /\ at \in [Threads -> 0 .. MaxSize]
      /\ pc[t] \in StorePcs \cup {"search"} /\ pc[t] \in WorkPcs
      /\ pc[t] \notin {"publish", "unlock_done"}
  <2>1. pc[t] \in StorePcs \cup {"search"}
    BY DEF SearchToWrite, SearchToErase, StoreValue, StoreKey, PublishKey, EraseKey, Goto, StorePcs
  <2> QED
    BY <2>1, IdleHasNoFreeze DEF Protocol, Typed, WorkPcs, StorePcs
<1>2. UNCHANGED ref
  BY DEF SearchToWrite, SearchToErase, StoreValue, StoreKey, PublishKey, EraseKey
<1>3. \A g \in Gens : /\ gen'[g].alloc_size = gen[g].alloc_size /\ gen'[g].newer = gen[g].newer
                      /\ gen'[g].is_frozen = gen[g].is_frozen
  <2>1. gen \in [Gens -> Dicts] /\ \A g \in Gens : gen[g] \in Dicts
    BY DEF Protocol, Typed
  <2>2. CASE SearchToWrite(t) \/ SearchToErase(t)
    BY <2>2 DEF SearchToWrite, SearchToErase
  <2>3. CASE StoreValue(t)
    <3>1. \A g \in Gens : gen'[g] = IF g = dict[t]
                                    THEN [gen[g] EXCEPT !.value[at[t]] = op[t].value]
                                    ELSE gen[g]
      BY <2>1, <2>3 DEF StoreValue
    <3> QED
      BY <2>1, <3>1 DEF Dicts
  <2>4. CASE StoreKey(t)
    <3>1. \A g \in Gens : gen'[g] = IF g = dict[t]
                                    THEN [gen[g] EXCEPT !.key[at[t]].str = op[t].key,
                                                        !.size = gen[g].size + 1]
                                    ELSE gen[g]
      BY <2>1, <2>4 DEF StoreKey, Dicts
    <3> QED
      BY <2>1, <3>1 DEF Dicts
  <2>5. CASE PublishKey(t)
    <3>1. \A g \in Gens : gen'[g] = IF g = dict[t]
                                    THEN [gen[g] EXCEPT !.key[at[t]].type = "STRING"]
                                    ELSE gen[g]
      BY <2>1, <2>5 DEF PublishKey
    <3> QED
      BY <2>1, <3>1 DEF Dicts
  <2>6. CASE EraseKey(t)
    <3>1. \A g \in Gens : gen'[g] = IF g = dict[t]
                                    THEN [gen[g] EXCEPT !.key[at[t]].type = "TOMBSTONE",
                                                        !.size = gen[g].size - 1]
                                    ELSE gen[g]
      BY <2>1, <2>6 DEF EraseKey, Dicts
    <3> QED
      BY <2>1, <3>1 DEF Dicts
  <2> QED
    BY <2>2, <2>3, <2>4, <2>5, <2>6
<1>4. ASSUME Finish(t)
      PROVE  /\ pc'[t] # "publish" /\ ~(pc'[t] = "unlock_done" /\ op'[t].kind = "freeze")
             /\ OthersStay(t)
  <2>1. CASE gen[dict[t]].shared
    BY <1>1, <1>4, <2>1, FinishMoves
  <2>2. CASE ~gen[dict[t]].shared
    BY <1>1, <1>4, <2>2, FinishMoves
  <2> QED
    BY <2>1, <2>2
<1>5. ASSUME NEW to \in StorePcs \cup {"unlock_expand", "expand_lock"}, NEW from,
             Goto(t, from, to), UNCHANGED <<op, dict, new>>, NEW i, at' = [at EXCEPT ![t] = i]
      PROVE  /\ pc'[t] # "publish" /\ ~(pc'[t] = "unlock_done" /\ op'[t].kind = "freeze")
             /\ OthersStay(t)
  BY <1>1, <1>5 DEF Goto, StorePcs, OthersStay
<1>6. Finish(t) \/ \E from, to : /\ to \in StorePcs \cup {"unlock_expand", "expand_lock"}
                                 /\ Goto(t, from, to) /\ UNCHANGED <<op, dict, new>>
                                 /\ \E i : at' = [at EXCEPT ![t] = i]
  <2>0. at' = at => at' = [at EXCEPT ![t] = at[t]]
    BY <1>1
  <2>1. CASE SearchToWrite(t)
    BY <2>0, <2>1 DEF SearchToWrite, StorePcs
  <2>2. CASE SearchToErase(t)
    BY <2>0, <2>2 DEF SearchToErase, StorePcs
  <2>3. CASE StoreValue(t)
    BY <2>0, <2>3 DEF StoreValue, StorePcs
  <2>4. CASE StoreKey(t)
    BY <2>0, <2>4 DEF StoreKey, StorePcs
  <2>5. CASE PublishKey(t) \/ EraseKey(t)
    BY <2>5 DEF PublishKey, EraseKey
  <2> QED
    BY <2>1, <2>2, <2>3, <2>4, <2>5
<1> QED
  BY <1>1, <1>2, <1>3, <1>4, <1>5, <1>6 DEF CalmStep

(* The newest generation of a state with a whole chain.                    *)
LEMMA NextTip ==
  ASSUME Protocol', NEW x \in Findable', Link(x)' = NULL
  PROVE  Newest' = x
<1>1. (ChainIsWhole => TipIsFindable)'
  BY TipExists, PTL
<1> QED
  BY <1>1 DEF Protocol, TipIsFindable, ChainIsWhole

LEMMA FreezeStoreFreezes ==
  ASSUME Protocol, Protocol', FreezesAreKept, OwnerFreezes, NEW t \in Threads, FreezeStore(t)
  PROVE  FreezesAreKept' /\ FrozenStaysFrozen
<1>1. PICK h \in Gens : /\ h = dict[t] /\ h \in Findable /\ gen[h] \in Dicts
                        /\ Link(h) = NULL /\ h = Newest
  <2>1. dict[t] \in Findable /\ dict[t] \in Gens /\ gen[dict[t]] \in Dicts /\ Link(dict[t]) = NULL
    BY ThreadFacts DEF FreezeStore, AccessPcs, PointersAreGood, OwnerFreezes
  <2> QED
    BY <2>1, NewestIsTip DEF Protocol
<1>2. /\ pc[t] = "freeze_store" /\ pc[t] \in WorkPcs /\ Finish(t)
      /\ gen' = [gen EXCEPT ![h].is_frozen = TRUE] /\ UNCHANGED ref
  BY <1>1 DEF FreezeStore, WorkPcs
<1>3. /\ gen'[h] = [gen[h] EXCEPT !.is_frozen = TRUE]
      /\ \A g \in Gens \ {h} : gen'[g] = gen[g]
  BY <1>2 DEF Protocol, Typed
<1>4. /\ gen'[h].is_frozen /\ gen'[h].newer = NULL
      /\ \A g \in Gens : gen'[g].alloc_size = gen[g].alloc_size
  BY <1>1, <1>3 DEF Dicts, Link
<1>5. /\ OthersStay(t) /\ pc'[t] \in {"unlock_done", "idle"}
  BY <1>2, FinishMoves
<1>6. h \in Findable'
  <2>1. Live' = Live
    BY <1>4 DEF Live
  <2>2. \A x : Private(x)' <=> Private(x)
    BY <1>2, <1>5 DEF Private, OthersStay
  <2> QED
    BY <1>1, <2>1, <2>2 DEF Findable
<1>7. Newest' = h
  BY <1>4, <1>6, NextTip DEF Link
<1>8. ASSUME NEW u \in Threads, pc'[u] = "publish" PROVE FALSE
  <2>1. u # t /\ pc[u] = "publish"
    BY <1>5, <1>8 DEF OthersStay
  <2> QED
    BY <1>2, <2>1, ExpanderIsAlone DEF OwnerFreezes
<1> QED
  BY <1>4, <1>7, <1>8 DEF FreezesAreKept, FrozenStaysFrozen

LEMMA CopyKeepsFreezes ==
  ASSUME Protocol, Protocol', FreezesAreKept, NEW t \in Threads, AllocAndCopy(t)
  PROVE  FreezesAreKept' /\ FrozenStaysFrozen
<1>1. PICK h \in Gens : /\ h = Newest /\ h \in Findable /\ h \in Live /\ Link(h) = NULL
                        /\ Live \subseteq Gens /\ Findable \subseteq Live
  BY NewestIsTip DEF Protocol
<1>2. PICK r : r = Expanded(t, gen[h])
  OBVIOUS
<1>3. PICK g \in Free : gen' = [gen EXCEPT ![g] = r] /\ new' = [new EXCEPT ![t] = g]
  BY <1>1, <1>2 DEF AllocAndCopy
<1>4. /\ pc[t] = "alloc" /\ pc' = [pc EXCEPT ![t] = "publish"] /\ dict' = [dict EXCEPT ![t] = h]
      /\ UNCHANGED <<ref, op>> /\ 2 * gen[h].alloc_size <= MaxSize
  BY <1>1 DEF AllocAndCopy, Goto
<1>5. g \in Gens /\ g \notin Live
  BY <1>3 DEF Free
<1>6. /\ r.is_frozen = gen[h].is_frozen /\ r.alloc_size > 0
  BY <1>1, <1>2, <1>4, CopyIsGood
<1>7. /\ gen'[g] = r /\ (\A x \in Gens \ {g} : gen'[x] = gen[x])
      /\ pc'[t] = "publish" /\ new'[t] = g /\ dict'[t] = h /\ op' = op
      /\ \A u \in Threads \ {t} : pc'[u] = pc[u] /\ new'[u] = new[u] /\ dict'[u] = dict[u]
  BY <1>3, <1>4, <1>5 DEF Protocol, Typed
<1>8. h # g /\ gen'[h] = gen[h]
  BY <1>1, <1>5, <1>7
<1>9. Newest' = h
  <2>1. h \in Live'
    BY <1>1, <1>8 DEF Live
  <2>2. ~Private(h)'
    <3> SUFFICES ASSUME NEW u \in Threads, pc'[u] = "publish", new'[u] = h PROVE FALSE
      BY DEF Private
    <3>1. u # t
      BY <1>7, <1>8
    <3> QED
      BY <1>1, <1>7, <3>1 DEF Findable, Private
  <2> QED
    BY <1>1, <1>8, <2>1, <2>2, NextTip DEF Findable, Link
<1>10. ASSUME NEW u \in Threads \ {t} PROVE pc'[u] # "publish"
  BY <1>4, <1>7, ExpanderIsAlone, PcSets
<1>11. \A u \in Threads : pc'[u] = "unlock_done" /\ op'[u].kind = "freeze" => gen[h].is_frozen
  BY <1>1, <1>7 DEF FreezesAreKept
<1>12. FreezesAreKept'
  BY <1>6, <1>7, <1>8, <1>9, <1>10, <1>11 DEF FreezesAreKept
<1> QED
  BY <1>1, <1>7, <1>8, <1>9, <1>12 DEF FrozenStaysFrozen, FreezeReturns

LEMMA PublishKeepsFreezes ==
  ASSUME Protocol, Protocol', FreezesAreKept, NEW t \in Threads, Publish(t)
  PROVE  FreezesAreKept' /\ FrozenStaysFrozen
<1>1. /\ pc[t] = "publish" /\ pc' = [pc EXCEPT ![t] = "unlock_old"] /\ UNCHANGED <<op, dict, new>>
      /\ gen' = [gen EXCEPT ![dict[t]].newer = new[t]]
  BY DEF Publish, Goto
<1>2. PICK h \in Gens, n \in Gens :
        /\ h = dict[t] /\ n = new[t] /\ h \in Findable /\ n \in Live /\ h # n /\ h = Newest
        /\ Link(n) = NULL /\ gen[h] \in Dicts
  <2>1. /\ dict[t] \in Findable /\ dict[t] \in Gens /\ gen[dict[t]] \in Dicts /\ Link(dict[t]) = NULL
        /\ new[t] \in Live /\ Link(new[t]) = NULL /\ PointersAreGood(t)
    BY <1>1, ThreadFacts, PcSets DEF PointersAreGood
  <2>2. new[t] \notin Findable /\ new[t] \in Gens
    BY <1>1, <2>1 DEF Findable, Private, Live
  <2> QED
    BY <2>1, <2>2, NewestIsTip DEF Protocol
<1>3. /\ gen'[h] = [gen[h] EXCEPT !.newer = n]
      /\ \A x \in Gens \ {h} : gen'[x] = gen[x]
      /\ pc'[t] = "unlock_old" /\ \A u \in Threads \ {t} : pc'[u] = pc[u]
  BY <1>1, <1>2 DEF Protocol, Typed
<1>4. \A u \in Threads : pc'[u] # "publish"
  BY <1>1, <1>3, ExpanderIsAlone, PcSets
<1>5. Newest' = n
  <2>1. n \in Live' /\ ~Private(n)'
    BY <1>2, <1>3, <1>4 DEF Live, Private
  <2> QED
    BY <1>2, <1>3, <2>1, NextTip DEF Findable, Link
<1>6. gen'[n].is_frozen <=> gen[Newest].is_frozen
  <2>1. gen[new[t]].is_frozen <=> gen[dict[t]].is_frozen
    BY <1>1 DEF FreezesAreKept
  <2>2. gen'[n] = gen[n]
    BY <1>2, <1>3
  <2> QED
    BY <1>2, <2>1, <2>2
<1>7. FreezesAreKept'
  BY <1>1, <1>3, <1>4, <1>5, <1>6 DEF FreezesAreKept
<1> QED
  BY <1>1, <1>5, <1>6, <1>7 DEF FrozenStaysFrozen, FreezeReturns

LEMMA CollectKeepsFreezes ==
  ASSUME Protocol, Protocol', FreezesAreKept, NEW t \in Threads, Collect(t)
  PROVE  FreezesAreKept' /\ FrozenStaysFrozen
<1>1. /\ pc[t] \in OutPcs /\ STW!WorldStoppedFor(t)
      /\ UNCHANGED <<pc, op, dict, new>>
  BY DEF Collect, OutPcs, threadVars
<1>2. \A u \in Threads : pc[u] \notin {"publish", "unlock_done"}
  BY <1>1, WorldIsStopped, OutsidePcs DEF OutPcs
<1>3. PICK h \in Gens : h = Newest /\ gen[h] \in Dicts /\ h \in Live /\ Link(h) = NULL
  BY NewestIsTip DEF Protocol, Typed, Live
<1>4. PICK g \in Gens, d \in {gen[h]} \cup Moved(gen[h]) :
        /\ gen' = [x \in Gens |-> IF x = g THEN d ELSE Unused]
        /\ IF g = h THEN d = gen[h] ELSE d \in Moved(gen[h])
  BY <1>3 DEF Collect, Free
<1>5. /\ d.is_frozen = gen[h].is_frozen /\ d.newer = NULL /\ d.alloc_size = gen[h].alloc_size
  BY <1>3, <1>4, MovedIsTyped DEF SameHeader, Link
<1>6. Newest' = g
  <2>1. gen'[g] = d
    BY <1>4
  <2>2. g \in Live'
    BY <1>3, <1>5, <2>1 DEF Live
  <2>3. ~Private(g)'
    BY <1>1, <1>2 DEF Private
  <2> QED
    BY <1>5, <2>1, <2>2, <2>3, NextTip DEF Findable, Link
<1> QED
  BY <1>1, <1>2, <1>3, <1>4, <1>5, <1>6 DEF FreezesAreKept, FrozenStaysFrozen, FreezeReturns

LEMMA InitFreezes == Init => FreezesAreKept
BY DEF Init, FreezesAreKept

LEMMA NextFreezes ==
  ASSUME Protocol, Protocol', FreezesAreKept, OwnerFreezes, [Next]_vars
  PROVE  FreezesAreKept' /\ (~UNCHANGED vars => FrozenStaysFrozen)
<1>1. CASE UNCHANGED vars
  <2>1. Newest' = Newest
    BY <1>1 DEF Newest, Chain, vars
  <2> QED
    BY <1>1, <2>1 DEF FreezesAreKept, vars, threadVars
<1>2. ASSUME NEW t \in Threads, Step(t) PROVE FreezesAreKept' /\ FrozenStaysFrozen
  <2>1. CASE CalmStep(t)
    BY <2>1, CalmKeepsFreezes
  <2>2. CASE AllocAndCopy(t)
    BY <2>2, CopyKeepsFreezes
  <2>3. CASE Publish(t)
    BY <2>3, PublishKeepsFreezes
  <2>4. CASE Collect(t)
    BY <2>4, CollectKeepsFreezes
  <2>5. CASE FreezeStore(t)
    BY <2>5, FreezeStoreFreezes
  <2> QED
    BY <1>2, <2>1, <2>2, <2>3, <2>4, <2>5, LocalSteps, LockSteps, StoreSteps
       DEF Step
<1> QED
  BY <1>1, <1>2 DEF Next

(* While only its creator freezes a dictionary that is not shared, a       *)
(* dictionary that is frozen when the freeze returns is frozen for good,   *)
(* whatever expansions, promotions and collections replace its newest      *)
(* generation, and also if the freeze first met a superseded one.          *)
THEOREM FreezesStay == Spec /\ []OwnerFreezes => FreezeIsKept
<1>1. Protocol /\ Protocol' /\ FreezesAreKept /\ OwnerFreezes /\ [Next]_vars =>
        FreezesAreKept' /\ [FrozenStaysFrozen]_vars
  BY NextFreezes
<1>2. Spec /\ []OwnerFreezes => [][FrozenStaysFrozen]_vars
  BY <1>1, Invariance, InitFreezes, PTL DEF Spec
<1>3. FreezeIsKept <=> [][FrozenStaysFrozen]_vars
  BY DEF FreezeIsKept, FrozenStaysFrozen
<1> QED
  BY <1>2, <1>3

-----------------------------------------------------------------------------
(* The table.                                                              *)

LEMMA RemainderOf ==
  ASSUME NEW s \in Nat \ {0}, NEW q \in Int, NEW r \in 0 .. s - 1
  PROVE  (q * s + r) % s = r
OBVIOUS

LEMMA SumRemainder ==
  ASSUME NEW s \in Nat \ {0}, NEW h \in Nat, NEW n \in 0 .. s - 1
  PROVE  (h + n) % s = IF (h % s) + n < s THEN (h % s) + n ELSE (h % s) + n - s
<1>1. PICK q \in Int, r \in 0 .. s - 1 : h = q * s + r /\ r = h % s
  OBVIOUS
<1>2. CASE r + n < s
  <2>1. h + n = q * s + (r + n) /\ r + n \in 0 .. s - 1
    BY <1>1, <1>2
  <2> QED
    BY <1>1, <1>2, <2>1, RemainderOf
<1>3. CASE ~(r + n < s)
  <2>1. h + n = (q + 1) * s + (r + n - s) /\ r + n - s \in 0 .. s - 1 /\ q + 1 \in Int
    BY <1>1, <1>3
  <2> QED
    BY <1>1, <1>3, <2>1, RemainderOf
<1> QED
  BY <1>2, <1>3

(* A probe visits each slot of the table once.                             *)
LEMMA ProbesDiffer ==
  ASSUME NEW s \in Nat \ {0}, NEW h \in Nat, NEW m \in 0 .. s - 1, NEW n \in 0 .. s - 1,
         (h + m) % s = (h + n) % s
  PROVE  m = n
<1>1. h % s \in 0 .. s - 1
  OBVIOUS
<1>2. /\ (h + m) % s = IF (h % s) + m < s THEN (h % s) + m ELSE (h % s) + m - s
      /\ (h + n) % s = IF (h % s) + n < s THEN (h % s) + n ELSE (h % s) + n - s
  BY SumRemainder
<1>3. PICK r \in 0 .. s - 1 : r = h % s
  BY <1>1
<1> QED
  BY <1>2, <1>3

LEMMA SlotsDiffer ==
  ASSUME NEW d \in Dicts, d.alloc_size > 0, NEW k \in Keys, NEW m \in Probes(d), NEW n \in Probes(d),
         Slot(d, k, m) = Slot(d, k, n)
  PROVE  m = n
<1>1. d.alloc_size \in Nat \ {0} /\ Hash[k] \in Nat
  BY DictAssumption DEF Dicts
<1> QED
  BY <1>1, ProbesDiffer DEF Slot, Probes

Table(d) == 0 .. d.alloc_size - 1

(* Every key of the table is a proper one, and a lookup finds it there.    *)
TableIsGood(d) ==
  \A i \in Table(d) :
    d.key[i].type = "STRING" =>
      /\ d.key[i].str \in Keys
      /\ \E n \in Probes(d) :
           /\ i = Slot(d, d.key[i].str, n)
           /\ \A m \in 0 .. n - 1 : LET j == Slot(d, d.key[i].str, m) IN
                d.key[j].type # "EMPTY" /\ ~Occupied(d, j, d.key[i].str)

Has(d, k) == \E i \in Table(d) : Occupied(d, i, k)

LEMMA LookupFinds ==
  ASSUME NEW d \in Dicts, d.alloc_size > 0, TableIsGood(d), NEW k \in Keys,
         NEW i \in Table(d), Occupied(d, i, k)
  PROVE  Found(d, k) /\ i = Slot(d, k, First(Stops(d, k)))
<1>1. d.key[i].type = "STRING" /\ d.key[i].str = k
  BY DEF Occupied
<1>2. PICK n \in Probes(d) :
           /\ i = Slot(d, k, n)
           /\ \A m \in 0 .. n - 1 : LET j == Slot(d, k, m) IN
                d.key[j].type # "EMPTY" /\ ~Occupied(d, j, k)
  BY <1>1 DEF TableIsGood
<1>3. n \in Stops(d, k)
  BY <1>2 DEF Stops
<1>4. \A m \in Stops(d, k) : n <= m
  BY <1>2 DEF Stops, Probes
<1>5. Stops(d, k) \in SUBSET Nat
  BY DEF Stops, Probes
<1>6. First(Stops(d, k)) = n
  <2>1. First(Stops(d, k)) \in Stops(d, k) /\ First(Stops(d, k)) <= n
    BY <1>3, <1>5, FirstExists
  <2> QED
    BY <1>3, <1>4, <1>5, <2>1
<1> QED
  BY <1>2, <1>3, <1>6 DEF Found

LEMMA LookupIsRight ==
  ASSUME NEW d \in Dicts, d.alloc_size > 0, TableIsGood(d), NEW k \in Keys
  PROVE  /\ \A i \in Table(d) : Occupied(d, i, k) => Found(d, k) /\ Binding(d, k) = d.value[i]
         /\ ~Has(d, k) => ~Found(d, k) /\ Binding(d, k) = Absent
<1>1. ASSUME NEW i \in Table(d), Occupied(d, i, k)
      PROVE  Found(d, k) /\ Binding(d, k) = d.value[i]
  BY <1>1, LookupFinds DEF Binding
<1>2. ASSUME Found(d, k) PROVE Has(d, k)
  <2>1. Stops(d, k) \in SUBSET Probes(d) /\ Stops(d, k) # {}
    BY <1>2 DEF Found, Stops
  <2>2. Slot(d, k, First(Stops(d, k))) \in 0 .. d.alloc_size - 1
    BY <2>1, FoundSlotIsInTable
  <2> QED
    BY <1>2, <2>2 DEF Found, Has, Table
<1> QED
  BY <1>1, <1>2 DEF Binding

LEMMA KeysAreUnique ==
  ASSUME NEW d \in Dicts, d.alloc_size > 0, TableIsGood(d), NEW k \in Keys,
         NEW i \in Table(d), NEW j \in Table(d), Occupied(d, i, k), Occupied(d, j, k)
  PROVE  i = j
BY LookupFinds

(* A slot where k can be put: a lookup of k gets there, and k is nowhere.  *)
Vacant(d, i, k) ==
  /\ i \in Table(d) /\ d.key[i].type # "STRING" /\ ~Has(d, k)
  /\ \E n \in Probes(d) : /\ i = Slot(d, k, n)
                          /\ \A m \in 0 .. n - 1 : d.key[Slot(d, k, m)].type # "EMPTY"

(* r is d with the entry of k in slot i.                                   *)
Puts(r, d, i, k) ==
  /\ r.alloc_size = d.alloc_size
  /\ r.key[i] = [type |-> "STRING", str |-> k]
  /\ \A j \in Slots \ {i} : r.key[j] = d.key[j] /\ r.value[j] = d.value[j]

LEMMA TableIsInSlots ==
  ASSUME NEW d \in Dicts
  PROVE  Table(d) \subseteq Slots /\ d.alloc_size \in Nat
BY DictAssumption DEF Dicts, Table, Slots

LEMMA PutKeepsTable ==
  ASSUME NEW d \in Dicts, d.alloc_size > 0, TableIsGood(d), NEW k \in Keys, NEW i, Vacant(d, i, k),
         NEW r \in Dicts, Puts(r, d, i, k)
  PROVE  /\ TableIsGood(r) /\ Binding(r, k) = r.value[i]
         /\ \A l \in Keys \ {k} : Binding(r, l) = Binding(d, l)
<1>1. /\ Table(r) = Table(d) /\ Probes(r) = Probes(d) /\ i \in Table(d) /\ Table(d) \subseteq Slots
      /\ \A l, n : Slot(r, l, n) = Slot(d, l, n)
  BY TableIsInSlots DEF Table, Probes, Slot, Puts, Vacant
<1>2. /\ r.key[i].type = "STRING" /\ r.key[i].str = k /\ d.key[i].type # "STRING"
      /\ \A j \in Table(d) \ {i} : r.key[j] = d.key[j] /\ r.value[j] = d.value[j]
  BY <1>1 DEF Puts, Vacant
<1>3. \A l \in Keys : \A n \in Probes(d) : Slot(d, l, n) \in Table(d)
  BY SlotsAreInTable DEF Probes, Table
<1>4. \A l, j : j \in Table(d) =>
        (Occupied(r, j, l) <=> IF j = i THEN l = k ELSE Occupied(d, j, l))
  BY <1>2 DEF Occupied
<1>5. \A j \in Table(d) : d.key[j].type # "EMPTY" => r.key[j].type # "EMPTY"
  BY <1>2
<1>6. \A j \in Table(d) : ~Occupied(d, j, k)
  BY DEF Vacant, Has
<1>7. TableIsGood(r)
  <2> SUFFICES ASSUME NEW j \in Table(d), r.key[j].type = "STRING"
               PROVE  /\ r.key[j].str \in Keys
                      /\ \E n \in Probes(d) :
                           /\ j = Slot(d, r.key[j].str, n)
                           /\ \A m \in 0 .. n - 1 : LET x == Slot(d, r.key[j].str, m) IN
                                r.key[x].type # "EMPTY" /\ ~Occupied(r, x, r.key[j].str)
    BY <1>1 DEF TableIsGood
  <2>0. \A n \in Probes(d) : \A m \in 0 .. n - 1 : m \in Probes(d) /\ m # n
    BY <1>1, TableIsInSlots DEF Probes
  <2>1. CASE j = i
    <3>1. PICK n \in Probes(d) : /\ i = Slot(d, k, n)
                                 /\ \A m \in 0 .. n - 1 : d.key[Slot(d, k, m)].type # "EMPTY"
      BY DEF Vacant
    <3>2. ASSUME NEW m \in 0 .. n - 1
          PROVE  r.key[Slot(d, k, m)].type # "EMPTY" /\ ~Occupied(r, Slot(d, k, m), k)
      <4>1. Slot(d, k, m) \in Table(d) /\ Slot(d, k, m) # i
        BY <1>3, <2>0, <3>1, SlotsDiffer
      <4> QED
        BY <1>4, <1>5, <1>6, <3>1, <4>1
    <3> QED
      BY <1>2, <2>1, <3>1, <3>2
  <2>2. CASE j # i
    <3>1. r.key[j] = d.key[j] /\ d.key[j].type = "STRING"
      BY <1>2, <2>2
    <3>2. PICK l \in Keys : l = d.key[j].str
      BY <3>1 DEF TableIsGood
    <3>3. PICK n \in Probes(d) :
             /\ j = Slot(d, l, n)
             /\ \A m \in 0 .. n - 1 : LET x == Slot(d, l, m) IN
                  d.key[x].type # "EMPTY" /\ ~Occupied(d, x, l)
      BY <3>1, <3>2 DEF TableIsGood
    <3>4. l # k
      BY <1>6, <3>1, <3>2 DEF Occupied
    <3>5. ASSUME NEW m \in 0 .. n - 1
          PROVE  r.key[Slot(d, l, m)].type # "EMPTY" /\ ~Occupied(r, Slot(d, l, m), l)
      <4>1. Slot(d, l, m) \in Table(d)
        BY <1>3, <2>0
      <4> QED
        BY <1>4, <1>5, <3>3, <3>4, <4>1
    <3> QED
      BY <3>1, <3>2, <3>3, <3>5
  <2> QED
    BY <2>1, <2>2
<1>8. r.alloc_size > 0
  BY DEF Puts
<1>9. Binding(r, k) = r.value[i]
  BY <1>1, <1>4, <1>7, <1>8, LookupIsRight
<1>10. ASSUME NEW l \in Keys \ {k} PROVE Binding(r, l) = Binding(d, l)
  <2>1. CASE Has(d, l)
    <3>1. PICK j \in Table(d) : Occupied(d, j, l)
      BY <2>1 DEF Has
    <3>2. j # i
      BY <1>2, <3>1 DEF Occupied
    <3> QED
      BY <1>1, <1>2, <1>4, <1>7, <1>8, <3>1, <3>2, LookupIsRight
  <2>2. CASE ~Has(d, l)
    <3>1. ~Has(r, l)
      BY <1>1, <1>4, <1>10, <2>2 DEF Has
    <3> QED
      BY <1>7, <1>8, <2>2, <3>1, LookupIsRight
  <2> QED
    BY <2>1, <2>2
<1> QED
  BY <1>7, <1>9, <1>10

(* r has the keys of d: the string of a slot that is not an entry does not *)
(* matter.                                                                 *)
SameKeys(r, d) ==
  /\ r.alloc_size = d.alloc_size
  /\ \A j \in Slots : /\ r.key[j].type = d.key[j].type
                      /\ d.key[j].type = "STRING" => r.key[j].str = d.key[j].str

LEMMA KeysKept ==
  ASSUME NEW d \in Dicts, d.alloc_size > 0, TableIsGood(d), NEW r \in Dicts, SameKeys(r, d)
  PROVE  /\ TableIsGood(r) /\ Table(r) = Table(d)
         /\ \A l \in Keys : \A i \in Table(d) :
              /\ Occupied(r, i, l) <=> Occupied(d, i, l)
              /\ Vacant(r, i, l) <=> Vacant(d, i, l)
         /\ \A l \in Keys : (\A j \in Table(d) : Occupied(d, j, l) => r.value[j] = d.value[j])
                              => Binding(r, l) = Binding(d, l)
<1>1. /\ Table(r) = Table(d) /\ Probes(r) = Probes(d) /\ Table(d) \subseteq Slots
      /\ \A l, n : Slot(r, l, n) = Slot(d, l, n)
  BY TableIsInSlots DEF Table, Probes, Slot, SameKeys
<1>2. \A l : \A i \in Table(d) : Occupied(r, i, l) <=> Occupied(d, i, l)
  BY <1>1 DEF SameKeys, Occupied
<1>3. \A l \in Keys : \A n \in Probes(d) : Slot(d, l, n) \in Table(d)
  BY SlotsAreInTable DEF Probes, Table
<1>4. \A n \in Probes(d) : \A m \in 0 .. n - 1 : m \in Probes(d)
  BY TableIsInSlots DEF Probes
<1>5. TableIsGood(r)
  <2> SUFFICES ASSUME NEW i \in Table(d), r.key[i].type = "STRING"
               PROVE  /\ r.key[i].str \in Keys
                      /\ \E n \in Probes(d) :
                           /\ i = Slot(d, r.key[i].str, n)
                           /\ \A m \in 0 .. n - 1 : LET x == Slot(d, r.key[i].str, m) IN
                                r.key[x].type # "EMPTY" /\ ~Occupied(r, x, r.key[i].str)
    BY <1>1 DEF TableIsGood
  <2>1. d.key[i].type = "STRING" /\ d.key[i].str = r.key[i].str
    BY <1>1 DEF SameKeys
  <2>2. PICK l \in Keys : l = d.key[i].str
    BY <2>1 DEF TableIsGood
  <2>3. PICK n \in Probes(d) :
             /\ i = Slot(d, l, n)
             /\ \A m \in 0 .. n - 1 : LET x == Slot(d, l, m) IN
                  d.key[x].type # "EMPTY" /\ ~Occupied(d, x, l)
    BY <2>1, <2>2 DEF TableIsGood
  <2>4. ASSUME NEW m \in 0 .. n - 1
        PROVE  r.key[Slot(d, l, m)].type # "EMPTY" /\ ~Occupied(r, Slot(d, l, m), l)
    <3>1. Slot(d, l, m) \in Table(d)
      BY <1>3, <1>4
    <3> QED
      BY <1>1, <1>2, <2>3, <3>1 DEF SameKeys
  <2> QED
    BY <2>1, <2>2, <2>3, <2>4
<1>6. \A l \in Keys : Has(r, l) <=> Has(d, l)
  BY <1>1, <1>2 DEF Has
<1>7. r.alloc_size > 0
  BY DEF SameKeys
<1>8. ASSUME NEW l \in Keys, NEW i \in Table(d) PROVE Vacant(r, i, l) <=> Vacant(d, i, l)
  <2>1. \A n \in Probes(d) : \A m \in 0 .. n - 1 : Slot(d, l, m) \in Slots
    BY <1>1, <1>3, <1>4
  <2>2. \A n \in Probes(d) : \A m \in 0 .. n - 1 :
          r.key[Slot(d, l, m)].type = d.key[Slot(d, l, m)].type
    BY <2>1 DEF SameKeys
  <2>3. r.key[i].type = d.key[i].type
    BY <1>1 DEF SameKeys
  <2> QED
    BY <1>1, <1>6, <2>2, <2>3 DEF Vacant
<1>9. ASSUME NEW l \in Keys, \A j \in Table(d) : Occupied(d, j, l) => r.value[j] = d.value[j]
      PROVE  Binding(r, l) = Binding(d, l)
  <2>1. CASE Has(d, l)
    <3>1. PICK j \in Table(d) : Occupied(d, j, l)
      BY <2>1 DEF Has
    <3>2. Occupied(r, j, l) /\ r.value[j] = d.value[j]
      BY <1>2, <1>9, <3>1
    <3> QED
      BY <1>1, <1>5, <1>7, <3>1, <3>2, LookupIsRight
  <2>2. CASE ~Has(d, l)
    BY <1>5, <1>6, <1>7, <2>2, LookupIsRight
  <2> QED
    BY <2>1, <2>2
<1> QED
  BY <1>1, <1>2, <1>5, <1>8, <1>9

(* r is d with a tombstone in slot i.                                      *)
Buries(r, d, i) ==
  /\ r.alloc_size = d.alloc_size /\ r.key[i].type = "TOMBSTONE"
  /\ \A j \in Slots \ {i} : r.key[j] = d.key[j] /\ r.value[j] = d.value[j]

LEMMA EraseKeepsTable ==
  ASSUME NEW d \in Dicts, d.alloc_size > 0, TableIsGood(d), NEW k \in Keys, NEW i \in Table(d),
         Occupied(d, i, k), NEW r \in Dicts, Buries(r, d, i)
  PROVE  /\ TableIsGood(r) /\ Binding(r, k) = Absent
         /\ \A l \in Keys \ {k} : Binding(r, l) = Binding(d, l)
<1>1. /\ Table(r) = Table(d) /\ Probes(r) = Probes(d) /\ Table(d) \subseteq Slots
      /\ \A l, n : Slot(r, l, n) = Slot(d, l, n)
  BY TableIsInSlots DEF Table, Probes, Slot, Buries
<1>2. \A j \in Table(d) \ {i} : r.key[j] = d.key[j] /\ r.value[j] = d.value[j]
  BY <1>1 DEF Buries
<1>3. \A l : \A j \in Table(d) : Occupied(r, j, l) <=> j # i /\ Occupied(d, j, l)
  BY <1>2 DEF Occupied, Buries
<1>4. \A l \in Keys : \A n \in Probes(d) : Slot(d, l, n) \in Table(d)
  BY SlotsAreInTable DEF Probes, Table
<1>5. \A n \in Probes(d) : \A m \in 0 .. n - 1 : m \in Probes(d)
  BY TableIsInSlots DEF Probes
<1>6. \A j \in Table(d) : d.key[j].type # "EMPTY" => r.key[j].type # "EMPTY"
  BY <1>2 DEF Buries
<1>7. TableIsGood(r)
  <2> SUFFICES ASSUME NEW j \in Table(d), r.key[j].type = "STRING"
               PROVE  /\ r.key[j].str \in Keys
                      /\ \E n \in Probes(d) :
                           /\ j = Slot(d, r.key[j].str, n)
                           /\ \A m \in 0 .. n - 1 : LET x == Slot(d, r.key[j].str, m) IN
                                r.key[x].type # "EMPTY" /\ ~Occupied(r, x, r.key[j].str)
    BY <1>1 DEF TableIsGood
  <2>1. r.key[j] = d.key[j] /\ d.key[j].type = "STRING"
    BY <1>2 DEF Buries
  <2>2. PICK l \in Keys : l = d.key[j].str
    BY <2>1 DEF TableIsGood
  <2>3. PICK n \in Probes(d) :
             /\ j = Slot(d, l, n)
             /\ \A m \in 0 .. n - 1 : LET x == Slot(d, l, m) IN
                  d.key[x].type # "EMPTY" /\ ~Occupied(d, x, l)
    BY <2>1, <2>2 DEF TableIsGood
  <2>4. ASSUME NEW m \in 0 .. n - 1
        PROVE  r.key[Slot(d, l, m)].type # "EMPTY" /\ ~Occupied(r, Slot(d, l, m), l)
    <3>1. Slot(d, l, m) \in Table(d)
      BY <1>4, <1>5
    <3> QED
      BY <1>3, <1>6, <2>3, <3>1
  <2> QED
    BY <2>1, <2>2, <2>3, <2>4
<1>8. r.alloc_size > 0
  BY DEF Buries
<1>9. Binding(r, k) = Absent
  <2>1. \A j \in Table(d) : Occupied(d, j, k) => j = i
    BY KeysAreUnique
  <2>2. ~Has(r, k)
    BY <1>1, <1>3, <2>1 DEF Has
  <2> QED
    BY <1>7, <1>8, <2>2, LookupIsRight
<1>10. ASSUME NEW l \in Keys \ {k} PROVE Binding(r, l) = Binding(d, l)
  <2>1. ~Occupied(d, i, l)
    BY <1>10 DEF Occupied
  <2>2. CASE Has(d, l)
    <3>1. PICK j \in Table(d) : Occupied(d, j, l) /\ j # i
      BY <2>1, <2>2 DEF Has
    <3>2. Occupied(r, j, l) /\ r.value[j] = d.value[j]
      BY <1>2, <1>3, <3>1
    <3> QED
      BY <1>1, <1>7, <1>8, <3>1, <3>2, LookupIsRight
  <2>3. CASE ~Has(d, l)
    <3>1. ~Has(r, l)
      BY <1>1, <1>3, <2>3 DEF Has
    <3> QED
      BY <1>7, <1>8, <2>3, <3>1, LookupIsRight
  <2> QED
    BY <2>2, <2>3
<1> QED
  BY <1>7, <1>9, <1>10

(* Where a write and an erasure go.                                        *)
LEMMA TargetIsRight ==
  ASSUME NEW d \in Dicts, d.alloc_size > 0, TableIsGood(d), NEW k \in Keys, NEW i \in Targets(d, k)
  PROVE  i \in Table(d) /\ (Occupied(d, i, k) \/ Vacant(d, i, k))
<1>1. i \in Table(d)
  BY TargetsAreInTable DEF Table
<1>2. /\ Stops(d, k) \in SUBSET Probes(d) /\ Tombstones(d, k) \in SUBSET Probes(d)
      /\ Probes(d) \in SUBSET Nat
  BY DEF Stops, Tombstones, Probes
<1>3. \A n \in Probes(d) : n \notin Stops(d, k) => d.key[Slot(d, k, n)].type # "EMPTY"
  BY DEF Stops
<1>4. \A n \in Probes(d) : \A m \in 0 .. n - 1 : m \in Probes(d) /\ m < n
  BY TableIsInSlots DEF Probes
<1>5. CASE Found(d, k)
  <2>1. i = Slot(d, k, First(Stops(d, k)))
    BY <1>5 DEF Targets, Found
  <2> QED
    BY <1>1, <1>5, <2>1 DEF Found
<1>6. CASE ~Found(d, k)
  <2>1. ~Has(d, k)
    BY <1>6, LookupIsRight DEF Has
  <2>2. CASE Tombstones(d, k) # {}
    <3>1. PICK n \in Tombstones(d, k) : i = Slot(d, k, n)
      <4>1. First(Tombstones(d, k)) \in Tombstones(d, k)
        BY <1>2, <2>2, FirstExists
      <4> QED
        BY <1>6, <2>2, <4>1 DEF Targets
    <3>2. d.key[i].type = "TOMBSTONE" /\ n \in Probes(d) /\ \A m \in Stops(d, k) : n < m
      BY <3>1 DEF Tombstones
    <3>3. \A m \in 0 .. n - 1 : d.key[Slot(d, k, m)].type # "EMPTY"
      BY <1>2, <1>3, <1>4, <3>2
    <3> QED
      BY <1>1, <2>1, <3>1, <3>2, <3>3 DEF Vacant
  <2>3. CASE Tombstones(d, k) = {}
    <3>1. Stops(d, k) # {} /\ i = Slot(d, k, First(Stops(d, k)))
      BY <1>6, <2>3 DEF Targets
    <3>2. PICK n \in Stops(d, k) : n = First(Stops(d, k)) /\ \A m \in Stops(d, k) : n <= m
      BY <1>2, <3>1, FirstExists
    <3>3. n \in Probes(d) /\ i = Slot(d, k, n)
      BY <1>2, <3>1, <3>2
    <3>4. d.key[i].type = "EMPTY"
      BY <1>1, <2>1, <3>2, <3>3 DEF Stops, Has
    <3>5. \A m \in 0 .. n - 1 : d.key[Slot(d, k, m)].type # "EMPTY"
      BY <1>2, <1>3, <1>4, <3>2, <3>3
    <3> QED
      BY <1>1, <2>1, <3>3, <3>4, <3>5 DEF Vacant
  <2> QED
    BY <2>2, <2>3
<1> QED
  BY <1>5, <1>6

(* The entries of a table, counted.                                        *)
Strings(d) == {i \in Table(d) : d.key[i].type = "STRING"}

LEMMA StringsAreFinite ==
  ASSUME NEW d \in Dicts
  PROVE  IsFiniteSet(Strings(d)) /\ Cardinality(Strings(d)) \in Nat
<1>1. IsFiniteSet(Table(d))
  <2>1. d.alloc_size - 1 \in Int
    BY TableIsInSlots
  <2> QED
    BY <2>1, FS_Interval DEF Table
<1>2. Strings(d) \in SUBSET Table(d)
  BY DEF Strings
<1> QED
  BY <1>1, <1>2, FS_Subset, FS_CardinalityType

LEMMA VacancyExists ==
  ASSUME NEW d \in Dicts, d.alloc_size > 0, NEW k \in Keys,
         \A i \in Table(d) : d.key[i].type # "TOMBSTONE",
         Cardinality(Strings(d)) < d.alloc_size - 1
  PROVE  Vacancies(d, k) # {}
<1> SUFFICES ASSUME Vacancies(d, k) = {} PROVE FALSE
  OBVIOUS
<1> DEFINE S == 0 .. d.alloc_size - 2
<1>1. d.alloc_size \in Nat \ {0}
  BY TableIsInSlots
<1>2. IsFiniteSet(S) /\ Cardinality(S) = d.alloc_size - 1
  <2>1. d.alloc_size - 2 \in Int
    BY <1>1
  <2>2. Cardinality(S) = IF 0 > d.alloc_size - 2 THEN 0 ELSE d.alloc_size - 2 - 0 + 1
    BY <2>1, FS_Interval
  <2>3. IsFiniteSet(S)
    BY <2>1, FS_Interval
  <2> HIDE DEF S
  <2> QED
    BY <1>1, <2>2, <2>3
<1>3. S \subseteq Probes(d)
  BY <1>1 DEF Probes
<1>4. ASSUME NEW n \in S PROVE Slot(d, k, n) \in Strings(d)
  <2>1. Slot(d, k, n) \in Table(d) /\ Slot(d, k, n) \in Slots
    BY <1>3, <1>4, SlotsAreInTable DEF Probes, Table
  <2>2. d.key[Slot(d, k, n)].type \in {"EMPTY", "TOMBSTONE", "STRING"}
    BY <2>1 DEF Dicts, KeySlots
  <2>3. d.key[Slot(d, k, n)].type # "EMPTY"
    BY DEF Vacancies
  <2> QED
    BY <2>1, <2>2, <2>3 DEF Strings
<1>5. PICK f : f = [n \in S |-> Slot(d, k, n)]
  OBVIOUS
<1>6. f \in [S -> Strings(d)]
  BY <1>4, <1>5
<1>7. PICK x \in S, y \in S : x # y /\ f[x] = f[y]
  <2> HIDE DEF S
  <2> QED
    BY <1>2, <1>6, StringsAreFinite, FS_PigeonHole
<1>8. Slot(d, k, x) = Slot(d, k, y)
  BY <1>5, <1>7
<1> QED
  BY <1>3, <1>7, <1>8, SlotsDiffer

(* The place a rehash finds for k.                                         *)
LEMMA VacancyIsVacant ==
  ASSUME NEW d \in Dicts, d.alloc_size > 0, NEW k \in Keys, ~Has(d, k), Vacancies(d, k) # {}
  PROVE  Vacant(d, Slot(d, k, First(Vacancies(d, k))), k)
<1>1. Vacancies(d, k) \in SUBSET Nat /\ Vacancies(d, k) \in SUBSET Probes(d)
  BY TableIsInSlots DEF Vacancies, Probes
<1>2. PICK n \in Vacancies(d, k) : n = First(Vacancies(d, k)) /\ \A m \in Vacancies(d, k) : n <= m
  BY <1>1, FirstExists
<1>3. d.key[Slot(d, k, n)].type = "EMPTY" /\ n \in 0 .. d.alloc_size - 2
  BY <1>2 DEF Vacancies
<1>4. Slot(d, k, n) \in Table(d)
  BY <1>1, <1>2, SlotsAreInTable DEF Probes, Table
<1>5. \A m \in 0 .. n - 1 : d.key[Slot(d, k, m)].type # "EMPTY"
  BY <1>2, <1>3, TableIsInSlots DEF Vacancies
<1> QED
  BY <1>1, <1>2, <1>3, <1>4, <1>5 DEF Vacant

LEMMA PutCounts ==
  ASSUME NEW d \in Dicts, NEW r \in Dicts, NEW i \in Table(d), NEW k, Puts(r, d, i, k),
         d.key[i].type # "STRING"
  PROVE  Cardinality(Strings(r)) = Cardinality(Strings(d)) + 1
<1>1. Table(r) = Table(d) /\ Table(d) \subseteq Slots
  BY TableIsInSlots DEF Table, Puts
<1>2. Strings(r) = Strings(d) \cup {i} /\ i \notin Strings(d)
  BY <1>1 DEF Strings, Puts
<1> QED
  BY <1>2, StringsAreFinite, FS_AddElement

LEMMA BuryCounts ==
  ASSUME NEW d \in Dicts, NEW r \in Dicts, NEW i \in Table(d), Buries(r, d, i),
         d.key[i].type = "STRING"
  PROVE  Cardinality(Strings(r)) = Cardinality(Strings(d)) - 1
<1>1. Table(r) = Table(d) /\ Table(d) \subseteq Slots
  BY TableIsInSlots DEF Table, Buries
<1>2. Strings(r) = Strings(d) \ {i} /\ i \in Strings(d)
  BY <1>1 DEF Strings, Buries
<1> QED
  BY <1>2, StringsAreFinite, FS_RemoveElement

LEMMA SameKeysCount ==
  ASSUME NEW d \in Dicts, NEW r \in Dicts, SameKeys(r, d)
  PROVE  Strings(r) = Strings(d)
<1>1. Table(r) = Table(d) /\ Table(d) \subseteq Slots
  BY TableIsInSlots DEF Table, SameKeys
<1> QED
  BY <1>1 DEF Strings, SameKeys

-----------------------------------------------------------------------------
(* Rehashing.                                                              *)

NoTombstones(d) == \A i \in Table(d) : d.key[i].type # "TOMBSTONE"

LEMMA BindBinds ==
  ASSUME NEW d \in Dicts, d.alloc_size > 0, TableIsGood(d), NoTombstones(d), NEW k \in Keys,
         ~Has(d, k), NEW v \in Values, Cardinality(Strings(d)) < d.alloc_size - 1,
         NEW r, r = Bind(d, k, v)
  PROVE  /\ r \in Dicts /\ TableIsGood(r) /\ NoTombstones(r)
         /\ Binding(r, k) = v /\ \A l \in Keys \ {k} : Binding(r, l) = Binding(d, l)
         /\ \A l \in Keys : Has(r, l) => l = k \/ Has(d, l)
         /\ Cardinality(Strings(r)) = Cardinality(Strings(d)) + 1
<1>1. PICK i : i = Slot(d, k, First(Vacancies(d, k))) /\ Vacant(d, i, k) /\ Vacancies(d, k) # {}
  BY VacancyExists, VacancyIsVacant DEF NoTombstones
<1>2. i \in Table(d) /\ i \in Slots /\ d.key[i].type # "STRING" /\ Table(d) \subseteq Slots
  BY <1>1, TableIsInSlots DEF Vacant
<1>3. r = [d EXCEPT !.key[i] = [type |-> "STRING", str |-> k], !.value[i] = v]
  BY <1>1 DEF Bind
<1>4. r \in Dicts /\ r.alloc_size = d.alloc_size
  BY BindIsTyped DEF SameHeader
<1>5. /\ r.key[i] = [type |-> "STRING", str |-> k] /\ r.value[i] = v
      /\ \A j \in Slots \ {i} : r.key[j] = d.key[j] /\ r.value[j] = d.value[j]
  BY <1>2, <1>3 DEF Dicts, KeySlots
<1>6. Puts(r, d, i, k)
  BY <1>4, <1>5 DEF Puts
<1>7. /\ TableIsGood(r) /\ Binding(r, k) = v
      /\ \A l \in Keys \ {k} : Binding(r, l) = Binding(d, l)
  BY <1>1, <1>4, <1>5, <1>6, PutKeepsTable
<1>8. Table(r) = Table(d)
  BY <1>4 DEF Table
<1>9. NoTombstones(r)
  BY <1>2, <1>5, <1>8 DEF NoTombstones
<1>10. \A l \in Keys : Has(r, l) => l = k \/ Has(d, l)
  BY <1>2, <1>5, <1>8 DEF Has, Occupied
<1> QED
  BY <1>2, <1>4, <1>6, <1>7, <1>9, <1>10, PutCounts

(* The entries of the first n slots of old are those of x.                 *)
StringsTo(old, n) == {i \in 0 .. n - 1 : old.key[i].type = "STRING"}

HoldsFirst(x, old, n) ==
  /\ TableIsGood(x) /\ NoTombstones(x)
  /\ Cardinality(Strings(x)) = Cardinality(StringsTo(old, n))
  /\ \A k \in Keys : Has(x, k) => \E i \in 0 .. n - 1 : Occupied(old, i, k)
  /\ \A k \in Keys : \A i \in 0 .. n - 1 : Occupied(old, i, k) => Binding(x, k) = old.value[i]

LEMMA RehashStepKeeps ==
  ASSUME NEW old \in Dicts, old.alloc_size > 0, TableIsGood(old), NEW x \in Dicts, x.alloc_size > 0,
         Cardinality(Strings(old)) <= x.alloc_size - 1, NEW n \in 1 .. old.alloc_size,
         HoldsFirst(x, old, n - 1)
  PROVE  HoldsFirst(RehashStep(x, old, n), old, n)
<1>1. PICK i \in Table(old) : i = n - 1 /\ i \in Slots
  BY TableIsInSlots DEF Table
<1>2. 0 .. n - 1 = (0 .. i - 1) \cup {i} /\ 0 .. n - 1 \subseteq Table(old) /\ i \notin 0 .. i - 1
  BY <1>1, TableIsInSlots DEF Table
<1>3. HoldsFirst(x, old, i)
  BY <1>1
<1>4. CASE old.key[i].type # "STRING"
  <2>1. RehashStep(x, old, n) = x
    BY <1>1, <1>4 DEF RehashStep
  <2>2. StringsTo(old, n) = StringsTo(old, i)
    BY <1>2, <1>4 DEF StringsTo
  <2>3. \A k : ~Occupied(old, i, k)
    BY <1>4 DEF Occupied
  <2> QED
    BY <1>2, <1>3, <2>1, <2>2, <2>3 DEF HoldsFirst
<1>5. CASE old.key[i].type = "STRING"
  <2>1. PICK k \in Keys, v \in Values : k = old.key[i].str /\ v = old.value[i]
    BY <1>1, <1>5 DEF TableIsGood, Dicts
  <2>2. PICK r : r = RehashStep(x, old, n) /\ r = Bind(x, k, v)
    BY <1>1, <1>5, <2>1 DEF RehashStep
  <2>3. \A l : Occupied(old, i, l) <=> l = k
    BY <1>5, <2>1 DEF Occupied
  <2>4. \A j \in 0 .. i - 1 : ~Occupied(old, j, k)
    BY <1>2, <2>3, KeysAreUnique
  <2>5. ~Has(x, k)
    BY <1>3, <2>4 DEF HoldsFirst
  <2>6. /\ StringsTo(old, n) = StringsTo(old, i) \cup {i} /\ i \notin StringsTo(old, i)
        /\ StringsTo(old, n) \in SUBSET Strings(old)
        /\ StringsTo(old, i) \in SUBSET Strings(old)
    BY <1>2, <1>5 DEF StringsTo, Strings
  <2>7. /\ Cardinality(StringsTo(old, n)) = Cardinality(StringsTo(old, i)) + 1
        /\ Cardinality(StringsTo(old, n)) <= Cardinality(Strings(old))
        /\ Cardinality(StringsTo(old, i)) \in Nat
    <3>1. IsFiniteSet(Strings(old))
      BY StringsAreFinite
    <3>2. IsFiniteSet(StringsTo(old, i)) /\ Cardinality(StringsTo(old, n)) <= Cardinality(Strings(old))
      BY <2>6, <3>1, FS_Subset
    <3> QED
      BY <2>6, <3>2, FS_AddElement, FS_CardinalityType
  <2>8. Cardinality(Strings(x)) < x.alloc_size - 1
    BY <1>3, <2>7, StringsAreFinite, TableIsInSlots DEF HoldsFirst
  <2>9. /\ r \in Dicts /\ TableIsGood(r) /\ NoTombstones(r)
        /\ Binding(r, k) = v /\ \A l \in Keys \ {k} : Binding(r, l) = Binding(x, l)
        /\ \A l \in Keys : Has(r, l) => l = k \/ Has(x, l)
        /\ Cardinality(Strings(r)) = Cardinality(Strings(x)) + 1
    BY <1>3, <2>2, <2>5, <2>8, BindBinds DEF HoldsFirst
  <2>10. Cardinality(Strings(r)) = Cardinality(StringsTo(old, n))
    BY <1>3, <2>7, <2>9 DEF HoldsFirst
  <2>11. ASSUME NEW l \in Keys, Has(r, l) PROVE \E j \in 0 .. n - 1 : Occupied(old, j, l)
    <3>1. CASE l = k
      BY <1>2, <2>3, <3>1
    <3>2. CASE l # k
      BY <1>2, <1>3, <2>9, <2>11, <3>2 DEF HoldsFirst
    <3> QED
      BY <3>1, <3>2
  <2>12. ASSUME NEW l \in Keys, NEW j \in 0 .. n - 1, Occupied(old, j, l)
         PROVE  Binding(r, l) = old.value[j]
    <3>1. CASE j = i
      BY <2>1, <2>3, <2>9, <2>12, <3>1
    <3>2. CASE j # i
      <4>1. j \in 0 .. i - 1 /\ l # k
        BY <1>2, <2>4, <2>12, <3>2
      <4> QED
        BY <1>3, <2>9, <2>12, <4>1 DEF HoldsFirst
    <3> QED
      BY <3>1, <3>2
  <2> QED
    BY <2>2, <2>9, <2>10, <2>11, <2>12 DEF HoldsFirst
<1> QED
  BY <1>4, <1>5

IsFresh(d) == \A i \in Table(d) : d.key[i].type = "EMPTY"

LEMMA FreshIsGood ==
  ASSUME NEW d \in Dicts, d.alloc_size > 0, IsFresh(d)
  PROVE  /\ TableIsGood(d) /\ NoTombstones(d) /\ Strings(d) = {} /\ \A k \in Keys : ~Has(d, k)
BY DEF TableIsGood, NoTombstones, Strings, Has, Occupied, IsFresh

(* A rehash keeps the entries, whatever order they are met in, as long as  *)
(* a vacancy is left.                                                      *)
LEMMA RehashKeepsEntries ==
  ASSUME NEW d \in Dicts, d.alloc_size > 0, IsFresh(d), NEW old \in Dicts, old.alloc_size > 0,
         TableIsGood(old), Cardinality(Strings(old)) <= d.alloc_size - 1,
         NEW r, r = Rehash(d, old)
  PROVE  /\ r \in Dicts /\ r.size = old.size /\ r.alloc_size = d.alloc_size
         /\ TableIsGood(r) /\ Cardinality(Strings(r)) = Cardinality(Strings(old))
         /\ \A k \in Keys : Binding(r, k) = Binding(old, k)
<1> DEFINE N == old.alloc_size
<1>1. N \in Nat \ {0}
  BY TableIsInSlots
<1>2. PICK f \in [0 .. N -> Dicts] :
           /\ IsRehash(f, d, old)
           /\ \A n \in 0 .. N : SameHeader(f[n], d)
           /\ Rehash(d, old) = [f[N] EXCEPT !.size = old.size]
  BY RehashIterates
<1> DEFINE T == {n \in 0 .. N : HoldsFirst(f[n], old, n)}
<1>3. 0 \in T
  <2>1. f[0] = d
    BY <1>2 DEF IsRehash
  <2>2. 0 .. 0 - 1 = {}
    OBVIOUS
  <2>3. StringsTo(old, 0) = {}
    BY <2>2 DEF StringsTo
  <2>4. HoldsFirst(d, old, 0)
    BY <2>2, <2>3, FreshIsGood DEF HoldsFirst
  <2> QED
    BY <1>1, <2>1, <2>4
<1>4. ASSUME NEW n \in 1 .. N, n - 1 \in T PROVE n \in T
  <2>1. n - 1 \in 0 .. N /\ n \in 0 .. N
    BY <1>1
  <2>2. f[n] = RehashStep(f[n - 1], old, n) /\ HoldsFirst(f[n - 1], old, n - 1)
    BY <1>2, <1>4 DEF IsRehash
  <2>3. f[n - 1] \in Dicts /\ f[n - 1].alloc_size = d.alloc_size
    BY <1>2, <2>1 DEF SameHeader
  <2>4. HoldsFirst(f[n], old, n)
    BY <2>2, <2>3, RehashStepKeeps
  <2> QED
    BY <2>1, <2>4
<1>5. N \in T
  <2> HIDE DEF T
  <2>1. \A n \in 0 .. N : n \in T
    BY <1>1, <1>3, <1>4, CountingUp
  <2> QED
    BY <1>1, <2>1
<1>6. PICK x \in Dicts : /\ x = f[N] /\ HoldsFirst(x, old, N) /\ SameHeader(x, d)
                         /\ r = [x EXCEPT !.size = old.size]
  BY <1>1, <1>2, <1>5
<1>7. /\ r \in Dicts /\ r.size = old.size /\ r.alloc_size = d.alloc_size
      /\ SameKeys(r, x) /\ \A j \in Slots : r.value[j] = x.value[j]
  <2>1. old.size \in Int
    BY DEF Dicts
  <2> QED
    BY <1>6, <2>1 DEF Dicts, SameHeader, SameKeys
<1>8. x.alloc_size > 0 /\ TableIsGood(x) /\ Table(x) \subseteq Slots
  BY <1>6, TableIsInSlots DEF SameHeader, HoldsFirst
<1>9. TableIsGood(r) /\ Strings(r) = Strings(x) /\ \A k \in Keys : Binding(r, k) = Binding(x, k)
  BY <1>7, <1>8, KeysKept, SameKeysCount
<1>10. StringsTo(old, N) = Strings(old)
  BY DEF StringsTo, Strings, Table
<1>11. ASSUME NEW k \in Keys PROVE Binding(x, k) = Binding(old, k)
  <2>1. CASE Has(old, k)
    <3>1. PICK i \in Table(old) : Occupied(old, i, k)
      BY <2>1 DEF Has
    <3>2. Binding(x, k) = old.value[i]
      BY <1>6, <3>1 DEF HoldsFirst, Table
    <3> QED
      BY <3>1, <3>2, LookupIsRight
  <2>2. CASE ~Has(old, k)
    <3>1. ~Has(x, k)
      BY <1>6, <2>2 DEF HoldsFirst, Has, Table
    <3> QED
      BY <1>8, <2>2, <3>1, LookupIsRight
  <2> QED
    BY <2>1, <2>2
<1> QED
  BY <1>6, <1>7, <1>9, <1>10, <1>11 DEF HoldsFirst

-----------------------------------------------------------------------------
(* The entries of the dictionary.                                          *)

Limit(d) == (d.alloc_size \div 4) * 3

(* Every generation is a table with room left, also a copy that is not yet *)
(* published.                                                              *)
TablesAreGood ==
  \A g \in Live : /\ TableIsGood(gen[g])
                  /\ Cardinality(Strings(gen[g])) <= gen[g].size /\ gen[g].size <= Limit(gen[g])

(* A thread that stores has found the entry of its key, or a slot where it *)
(* can be put.                                                             *)
StoreIsAimed(t) ==
  LET d == gen[dict[t]]
      k == op[t].key
      i == at[t] IN
  /\ pc[t] = "store_value" => \/ Occupied(d, i, k)
                              \/ op[t].kind = "write" /\ Vacant(d, i, k) /\ d.size < Limit(d)
  /\ pc[t] \in {"store_key", "publish_key"} => Vacant(d, i, k) /\ d.value[i] = op[t].value
  /\ pc[t] = "store_key" => d.size < Limit(d)
  /\ pc[t] = "publish_key" => d.key[i].str = k /\ Cardinality(Strings(d)) < d.size
  /\ pc[t] = "erase_key" => Occupied(d, i, k)

CopiesAreWhole ==
  \A t \in Threads : pc[t] = "publish" =>
    \A k \in Keys : Binding(gen[new[t]], k) = Binding(gen[dict[t]], k)

EntriesAreKept ==
  /\ TablesAreGood /\ CopiesAreWhole /\ NoEntryLost
  /\ \A t \in Threads : StoreIsAimed(t)

LEMMA StorerIsAlone ==
  ASSUME Protocol, NEW t \in Threads, pc[t] \in StorePcs \cup {"search"}
  PROVE  /\ dict[t] = Newest /\ dict[t] \in Gens /\ dict[t] \in Findable /\ dict[t] \in Live
         /\ gen[dict[t]] \in Dicts /\ gen[dict[t]].alloc_size > 0 /\ op[t].key \in Keys
         /\ op[t].value \in Values /\ at[t] \in 0 .. MaxSize
         /\ pc[t] \in StorePcs => at[t] \in Table(gen[dict[t]]) /\ at[t] \in Slots
         /\ \A u \in Threads \ {t} : pc[u] \notin StorePcs \cup {"search", "publish", "alloc"}
<1>1. /\ dict[t] \in Findable /\ dict[t] \in Gens /\ dict[t] \in Live /\ Link(dict[t]) = NULL
      /\ gen[dict[t]] \in Dicts /\ gen[dict[t]].alloc_size > 0
      /\ op[t] \in Operation /\ at[t] \in 0 .. MaxSize
      /\ OperationIsKept(t) /\ SharingIsKept(t)
  <2>1. /\ pc[t] \in TipPcs /\ pc[t] \in AccessPcs
    BY PcSets
  <2>2. /\ dict[t] \in Findable /\ Link(dict[t]) = NULL
    BY <2>1, ThreadFacts DEF PointersAreGood
  <2> QED
    BY <2>1, <2>2, ThreadFacts DEF Findable, Live, Protocol, Typed
<1>2. dict[t] = Newest
  BY <1>1, NewestIsTip DEF Protocol
<1>3. op[t].key \in Keys /\ op[t].value \in Values
  BY <1>1, IdleHasNoFreeze DEF OperationIsKept, Operation
<1>4. ASSUME NEW u \in Threads, pc[u] \in StorePcs \cup {"search"} PROVE u = t
  <2>1. /\ dict[u] \in Findable /\ Link(dict[u]) = NULL /\ SharingIsKept(u)
    BY <1>4, PcSets, ThreadFacts DEF PointersAreGood
  <2>2. dict[u] = Newest
    BY <2>1, NewestIsTip DEF Protocol
  <2>3. CASE gen[Newest].shared
    <3>1. Owns(t, Newest) /\ Owns(u, Newest)
      BY <1>2, <1>4, <2>2, <2>3 DEF Owns
    <3> QED
      BY <1>1, <1>2, <3>1 DEF Protocol, LocksAreHeld
  <2>4. CASE ~gen[Newest].shared
    <3>1. pc[t] \in AccessPcs \ {"read_native", "freeze_store"} /\ pc[u] \in AccessPcs \ {"read_native", "freeze_store"}
      BY <1>4, PcSets
    <3>2. t = Creator /\ u = Creator
      BY <1>1, <1>2, <2>1, <2>2, <2>4, <3>1 DEF SharingIsKept
    <3> QED
      BY <3>2
  <2> QED
    BY <2>3, <2>4
<1>5. ASSUME NEW u \in Threads \ {t} PROVE pc[u] \notin {"publish", "alloc"}
  BY ExpanderIsAlone, PcSets
<1>6. pc[t] \in StorePcs => at[t] \in Table(gen[dict[t]]) /\ at[t] \in Slots
  <2>1. pc[t] \in StorePcs => at[t] < gen[dict[t]].alloc_size
    BY <1>1 DEF OperationIsKept
  <2> QED
    BY <1>1, <2>1, TableIsInSlots DEF Table
<1> QED
  BY <1>1, <1>2, <1>3, <1>4, <1>5, <1>6

LEMMA SameTableFacts ==
  ASSUME NEW d \in Dicts, d.alloc_size > 0, TableIsGood(d), NEW r \in Dicts,
         r.alloc_size = d.alloc_size, r.key = d.key, r.value = d.value
  PROVE  /\ TableIsGood(r) /\ Strings(r) = Strings(d)
         /\ \A k \in Keys : Binding(r, k) = Binding(d, k)
<1>1. SameKeys(r, d) /\ Table(d) \subseteq Slots
  BY TableIsInSlots DEF SameKeys
<1> QED
  BY <1>1, KeysKept, SameKeysCount

(* Steps that change no table.                                             *)
LEMMA QuietKeepsEntries ==
  ASSUME Protocol, Protocol', EntriesAreKept, NEW t \in Threads, QuietStep(t)
  PROVE  EntriesAreKept'
<1>1. /\ Newest \in Findable /\ Link(Newest) = NULL /\ Newest \in Live /\ Newest \in Gens
      /\ Findable \subseteq Live /\ Live \subseteq Gens
  BY NewestIsTip DEF Protocol
<1>2. /\ \A g \in Gens : /\ gen'[g].alloc_size = gen[g].alloc_size /\ gen'[g].newer = gen[g].newer
                         /\ gen'[g].key = gen[g].key /\ gen'[g].value = gen[g].value
                         /\ gen'[g].size = gen[g].size
      /\ \A g \in Gens : gen[g] \in Dicts /\ gen'[g] \in Dicts
  BY DEF QuietStep, SameTables, Protocol, Typed
<1>3. /\ \A u \in Threads \ {t} : /\ pc'[u] = pc[u] /\ op'[u] = op[u] /\ dict'[u] = dict[u]
                                  /\ new'[u] = new[u] /\ at'[u] = at[u]
      /\ pc[t] \notin StorePcs \cup {"publish"} /\ pc'[t] \notin StorePcs \cup {"publish"}
      /\ entries' = entries
  BY DEF QuietStep, OthersStay
<1>4. Live' = Live
  BY <1>2 DEF Live
<1>5. Newest' = Newest
  <2>1. \A x : Private(x)' <=> Private(x)
    BY <1>3 DEF Private
  <2>2. Newest \in Findable'
    BY <1>1, <1>4, <2>1 DEF Findable
  <2> QED
    BY <1>1, <1>2, <2>2, NextTip DEF Link
<1>6. \A g \in Live : /\ TableIsGood(gen'[g]) /\ Strings(gen'[g]) = Strings(gen[g])
                      /\ \A k \in Keys : Binding(gen'[g], k) = Binding(gen[g], k)
  BY <1>1, <1>2, SameTableFacts DEF EntriesAreKept, TablesAreGood, Live
<1>7. TablesAreGood'
  BY <1>1, <1>2, <1>4, <1>6 DEF EntriesAreKept, TablesAreGood, Limit
<1>8. CopiesAreWhole'
  <2> SUFFICES ASSUME NEW u \in Threads, pc'[u] = "publish", NEW k \in Keys
               PROVE  Binding(gen'[new'[u]], k) = Binding(gen'[dict'[u]], k)
    BY DEF CopiesAreWhole
  <2>1. u # t /\ pc[u] = "publish" /\ new'[u] = new[u] /\ dict'[u] = dict[u]
    BY <1>3
  <2>2. new[u] \in Live /\ dict[u] \in Live
    BY <1>1, <2>1, PcSets, ThreadFacts DEF PointersAreGood
  <2> QED
    BY <1>6, <2>1, <2>2 DEF EntriesAreKept, CopiesAreWhole
<1>9. NoEntryLost'
  <2>1. \A k \in Keys : BeingErased(k)' <=> BeingErased(k)
    BY <1>3 DEF BeingErased, StorePcs
  <2> QED
    BY <1>1, <1>3, <1>5, <1>6, <2>1 DEF EntriesAreKept, NoEntryLost
<1>10. ASSUME NEW u \in Threads PROVE StoreIsAimed(u)'
  <2>1. CASE pc'[u] \notin StorePcs
    BY <2>1 DEF StoreIsAimed, StorePcs
  <2>2. CASE pc'[u] \in StorePcs
    <3>1. /\ u # t /\ pc[u] \in StorePcs /\ pc'[u] = pc[u] /\ op'[u] = op[u] /\ dict'[u] = dict[u]
          /\ at'[u] = at[u]
      BY <1>3, <2>2
    <3>2. PICK h \in Live : h = dict[u] /\ op[u].key \in Keys /\ at[u] \in Table(gen[h]) /\ at[u] \in Slots
      BY <3>1, StorerIsAlone
    <3>3. /\ SameKeys(gen'[h], gen[h]) /\ gen'[h] \in Dicts /\ gen[h] \in Dicts
          /\ TableIsGood(gen[h]) /\ gen[h].alloc_size > 0 /\ StoreIsAimed(u)
          /\ gen'[h].value = gen[h].value /\ gen'[h].key = gen[h].key
          /\ gen'[h].size = gen[h].size /\ gen'[h].alloc_size = gen[h].alloc_size
      BY <1>1, <1>2, <3>2 DEF SameKeys, EntriesAreKept, TablesAreGood, Live
    <3>4. /\ Occupied(gen'[h], at[u], op[u].key) <=> Occupied(gen[h], at[u], op[u].key)
          /\ Vacant(gen'[h], at[u], op[u].key) <=> Vacant(gen[h], at[u], op[u].key)
      BY <3>2, <3>3, KeysKept
    <3>5. Limit(gen'[h]) = Limit(gen[h]) /\ Strings(gen'[h]) = Strings(gen[h])
      BY <1>6, <3>3 DEF Limit
    <3>6. StoreIsAimed(u)
      BY <3>3
    <3> QED
      BY <3>1, <3>2, <3>3, <3>4, <3>5, <3>6 DEF StoreIsAimed
  <2> QED
    BY <2>1, <2>2
<1> QED
  BY <1>7, <1>8, <1>9, <1>10 DEF EntriesAreKept

(* A store by t turns the newest table into r.                             *)
LEMMA TableStep ==
  ASSUME Protocol, Protocol', EntriesAreKept, NEW t \in Threads, pc[t] \in StorePcs,
         NEW r, gen' = [gen EXCEPT ![dict[t]] = r],
         SameButFlag(r, gen[dict[t]]), TableIsGood(r),
         Cardinality(Strings(r)) <= r.size, r.size <= Limit(r),
         OthersStay(t), pc'[t] # "publish", StoreIsAimed(t)',
         \A k \in Keys : ~(pc'[t] = "erase_key" /\ op'[t].key = k) => Binding(r, k) = entries'[k]
  PROVE  EntriesAreKept'
<1>1. PICK h \in Gens : /\ h = dict[t] /\ h = Newest /\ h \in Findable /\ h \in Live
                        /\ gen[h].alloc_size > 0
  BY StorerIsAlone
<1>2. gen'[h] = r /\ \A g \in Gens \ {h} : gen'[g] = gen[g]
  BY <1>1 DEF Protocol, Typed
<1>3. \A u \in Threads \ {t} : pc'[u] = pc[u] /\ pc'[u] \notin StorePcs \cup {"publish"}
  BY StorerIsAlone DEF OthersStay
<1>4. Live' = Live
  BY <1>1, <1>2 DEF Live, SameButFlag
<1>5. Newest' = h
  <2>1. ~Private(h)'
    BY <1>3 DEF Private
  <2>2. Link(h)' = NULL
    BY <1>1, <1>2, NewestIsTip DEF SameButFlag, Link, Protocol
  <2> QED
    BY <1>1, <1>4, <2>1, <2>2, NextTip DEF Findable
<1>6. TablesAreGood'
  BY <1>1, <1>2, <1>4 DEF EntriesAreKept, TablesAreGood, Live
<1>7. CopiesAreWhole'
  BY <1>3 DEF CopiesAreWhole
<1>8. NoEntryLost'
  BY <1>2, <1>3, <1>5 DEF NoEntryLost, BeingErased, StorePcs
<1>9. \A u \in Threads \ {t} : StoreIsAimed(u)'
  BY <1>3 DEF StoreIsAimed, StorePcs
<1> QED
  BY <1>6, <1>7, <1>8, <1>9 DEF EntriesAreKept

(* The searches.                                                           *)
LEMMA SearchStep ==
  ASSUME Protocol, EntriesAreKept, NEW t \in Threads, pc[t] = "search",
         UNCHANGED <<gen, ref, entries>>, OthersStay(t),
         pc'[t] \notin {"publish", "erase_key"}, StoreIsAimed(t)'
  PROVE  EntriesAreKept'
<1>1. \A u \in Threads \ {t} : pc'[u] = pc[u] /\ pc[u] \notin StorePcs \cup {"publish"}
  BY StorerIsAlone DEF OthersStay
<1>2. Newest' = Newest /\ Live' = Live
  BY DEF Newest, Chain, Live
<1>3. TablesAreGood'
  BY <1>2 DEF EntriesAreKept, TablesAreGood
<1>4. CopiesAreWhole'
  BY <1>1 DEF CopiesAreWhole
<1>5. NoEntryLost'
  <2>1. \A k \in Keys : ~BeingErased(k)
    BY <1>1 DEF BeingErased, StorePcs
  <2> QED
    BY <1>2, <2>1 DEF EntriesAreKept, NoEntryLost
<1>6. \A u \in Threads \ {t} : StoreIsAimed(u)'
  BY <1>1 DEF StoreIsAimed, StorePcs
<1> QED
  BY <1>3, <1>4, <1>5, <1>6 DEF EntriesAreKept

LEMMA SearchToWriteKeepsEntries ==
  ASSUME Protocol, EntriesAreKept, NEW t \in Threads, SearchToWrite(t)
  PROVE  EntriesAreKept'
<1>1. /\ pc[t] = "search" /\ op[t].kind = "write"
      /\ UNCHANGED <<gen, ref, op, dict, new, result, nops, entries, seen, raced>>
  BY DEF SearchToWrite, ghosts
<1>2. PICK h \in Live : /\ h = dict[t] /\ gen[h] \in Dicts /\ gen[h].alloc_size > 0
                        /\ op[t].key \in Keys /\ TableIsGood(gen[h])
  BY <1>1, StorerIsAlone DEF EntriesAreKept, TablesAreGood
<1>3. pc \in [Threads -> Pcs] /\ at \in [Threads -> 0 .. MaxSize]
  BY DEF Protocol, Typed
<1>4. PICK targets : targets = IF IsFull(gen[h]) THEN {} ELSE Targets(gen[h], op[t].key)
  OBVIOUS
<1>5. CASE targets = {}
  <2>1. /\ pc' = [pc EXCEPT ![t] = IF gen[h].shared THEN "unlock_expand" ELSE "expand_lock"]
        /\ UNCHANGED at
    BY <1>2, <1>4, <1>5 DEF SearchToWrite, Goto
  <2>2. OthersStay(t) /\ pc'[t] \in {"unlock_expand", "expand_lock"}
    BY <1>1, <1>3, <2>1 DEF OthersStay
  <2>3. StoreIsAimed(t)'
    BY <2>2 DEF StoreIsAimed
  <2> QED
    BY <1>1, <2>2, <2>3, SearchStep
<1>6. CASE targets # {}
  <2>1. PICK i \in targets : at' = [at EXCEPT ![t] = i] /\ pc' = [pc EXCEPT ![t] = "store_value"]
    BY <1>2, <1>4, <1>6 DEF SearchToWrite, Goto
  <2>2. OthersStay(t) /\ pc'[t] = "store_value" /\ at'[t] = i
    BY <1>1, <1>3, <2>1 DEF OthersStay
  <2>3. ~IsFull(gen[h]) /\ i \in Targets(gen[h], op[t].key)
    BY <1>4, <1>6, <2>1
  <2>4. gen[h].size < Limit(gen[h])
    BY <1>2, <2>3 DEF IsFull, Limit, Dicts
  <2>5. Occupied(gen[h], i, op[t].key) \/ Vacant(gen[h], i, op[t].key)
    BY <1>2, <2>3, TargetIsRight
  <2>6. StoreIsAimed(t)'
    BY <1>1, <1>2, <2>2, <2>4, <2>5
       DEF StoreIsAimed, Occupied, Vacant, Has, Table, Probes, Slot, Limit
  <2> QED
    BY <1>1, <2>2, <2>6, SearchStep
<1> QED
  BY <1>5, <1>6

LEMMA SearchToEraseKeepsEntries ==
  ASSUME Protocol, EntriesAreKept, NEW t \in Threads, SearchToErase(t)
  PROVE  EntriesAreKept'
<1>1. /\ pc[t] = "search" /\ op[t].kind = "erase" /\ pc[t] \in WorkPcs
      /\ UNCHANGED <<gen, ref, result, nops, entries, seen, raced>>
  BY DEF SearchToErase, ghosts, WorkPcs
<1>2. PICK h \in Live : h = dict[t]
  BY <1>1, StorerIsAlone
<1>3. CASE Found(gen[h], op[t].key)
  <2>1. PICK i : i = Slot(gen[h], op[t].key, First(Stops(gen[h], op[t].key)))
    OBVIOUS
  <2>2. /\ pc' = [pc EXCEPT ![t] = "store_value"] /\ at' = [at EXCEPT ![t] = i]
        /\ UNCHANGED <<op, dict, new>>
    BY <1>2, <1>3, <2>1 DEF SearchToErase, Goto
  <2>3. OthersStay(t) /\ pc'[t] = "store_value" /\ at'[t] = i
    BY <2>2 DEF OthersStay, Protocol, Typed
  <2>4. Occupied(gen[h], i, op[t].key)
    BY <1>3, <2>1 DEF Found
  <2>5. StoreIsAimed(t)'
    BY <1>1, <1>2, <2>2, <2>3, <2>4 DEF StoreIsAimed, Occupied
  <2> QED
    BY <1>1, <2>3, <2>5, SearchStep
<1>4. CASE ~Found(gen[h], op[t].key)
  <2>1. Finish(t)
    BY <1>2, <1>4 DEF SearchToErase
  <2>2. OthersStay(t) /\ pc'[t] \in {"unlock_done", "idle"}
    BY <1>1, <2>1, FinishMoves
  <2>3. StoreIsAimed(t)'
    BY <2>2 DEF StoreIsAimed
  <2> QED
    BY <1>1, <2>2, <2>3, SearchStep
<1> QED
  BY <1>3, <1>4

(* The stores.                                                             *)
LEMMA StoreEffect ==
  ASSUME Protocol, EntriesAreKept, NEW t \in Threads, pc[t] \in StorePcs,
         NEW d, d = gen[dict[t]], NEW i, i = at[t], NEW k, k = op[t].key
  PROVE  /\ d \in Dicts /\ d.alloc_size > 0 /\ TableIsGood(d)
         /\ Cardinality(Strings(d)) <= d.size /\ d.size <= Limit(d) /\ Cardinality(Strings(d)) \in Nat
         /\ d.key \in KeySlots /\ d.value \in [Slots -> Values] /\ d.size \in Int
         /\ i \in Table(d) /\ i \in Slots /\ Table(d) \subseteq Slots /\ k \in Keys
         /\ \A l \in Keys : Binding(d, l) = entries[l] \/ (pc[t] = "erase_key" /\ k = l)
         /\ gen \in [Gens -> Dicts]
<1>1. /\ dict[t] \in Live /\ d \in Dicts /\ d.alloc_size > 0 /\ dict[t] = Newest
      /\ i \in Table(d) /\ i \in Slots /\ k \in Keys
  BY StorerIsAlone
<1>2. \A l \in Keys : BeingErased(l) => pc[t] = "erase_key" /\ k = l
  <2>1. \A u \in Threads \ {t} : pc[u] # "erase_key"
    BY StorerIsAlone DEF StorePcs
  <2> QED
    BY <2>1 DEF BeingErased
<1>3. gen \in [Gens -> Dicts]
  BY DEF Protocol, Typed
<1>4. d.key \in KeySlots /\ d.value \in [Slots -> Values] /\ d.size \in Int
  BY <1>1 DEF Dicts
<1>5. Table(d) \subseteq Slots
  BY <1>1, TableIsInSlots
<1>6. TableIsGood(d) /\ Cardinality(Strings(d)) <= d.size /\ d.size <= Limit(d)
  BY <1>1 DEF EntriesAreKept, TablesAreGood
<1>7. Cardinality(Strings(d)) \in Nat
  BY <1>1, StringsAreFinite
<1>8. ASSUME NEW l \in Keys, ~(pc[t] = "erase_key" /\ k = l) PROVE Binding(d, l) = entries[l]
  <2>1. ~BeingErased(l)
    BY <1>2, <1>8
  <2>2. Binding(gen[Newest], l) = entries[l]
    BY <2>1 DEF EntriesAreKept, NoEntryLost
  <2>3. d = gen[Newest]
    BY <1>1
  <2> QED
    BY <2>2, <2>3
<1>9. \A l \in Keys : Binding(d, l) = entries[l] \/ (pc[t] = "erase_key" /\ k = l)
  BY <1>8
<1> QED
  BY <1>1, <1>3, <1>4, <1>5, <1>6, <1>7, <1>9

LEMMA StoreValueKeepsEntries ==
  ASSUME Protocol, Protocol', EntriesAreKept, NEW t \in Threads, StoreValue(t)
  PROVE  EntriesAreKept'
<1>1. /\ pc[t] = "store_value" /\ pc[t] \in StorePcs /\ pc[t] \in WorkPcs
      /\ gen' = [gen EXCEPT ![dict[t]].value[at[t]] = op[t].value]
  BY DEF StoreValue, StorePcs, WorkPcs
<1>2. PICK d, i, k : d = gen[dict[t]] /\ i = at[t] /\ k = op[t].key
  OBVIOUS
<1>3. /\ d \in Dicts /\ d.alloc_size > 0 /\ TableIsGood(d)
      /\ Cardinality(Strings(d)) <= d.size /\ d.size <= Limit(d)
      /\ d.value \in [Slots -> Values] /\ i \in Table(d) /\ i \in Slots /\ Table(d) \subseteq Slots
      /\ k \in Keys /\ \A l \in Keys : Binding(d, l) = entries[l]
      /\ gen \in [Gens -> Dicts] /\ dict[t] \in Gens
  BY <1>1, <1>2, StoreEffect, StorerIsAlone
<1>4. op[t].value \in Values
  BY <1>1, StorerIsAlone
<1>5. PICK r : r = [d EXCEPT !.value[i] = op[t].value]
  OBVIOUS
<1>6. gen' = [gen EXCEPT ![dict[t]] = r]
  BY <1>1, <1>2, <1>3, <1>5
<1>7. /\ r \in Dicts /\ SameButFlag(r, d) /\ SameKeys(r, d) /\ r.size = d.size /\ r.key = d.key
      /\ r.value[i] = op[t].value /\ \A j \in Table(d) \ {i} : r.value[j] = d.value[j]
  BY <1>3, <1>4, <1>5 DEF Dicts, SameButFlag, SameKeys
<1>8. /\ TableIsGood(r) /\ Strings(r) = Strings(d) /\ r.alloc_size > 0 /\ Table(r) = Table(d)
      /\ Occupied(r, i, k) <=> Occupied(d, i, k)
      /\ Vacant(r, i, k) <=> Vacant(d, i, k)
      /\ \A l \in Keys : ~Occupied(d, i, l) => Binding(r, l) = Binding(d, l)
  BY <1>3, <1>7, KeysKept, SameKeysCount DEF SameButFlag
<1>9. Cardinality(Strings(r)) <= r.size /\ r.size <= Limit(r) /\ Limit(r) = Limit(d)
  BY <1>3, <1>7, <1>8 DEF SameButFlag, Limit
<1>10. gen'[dict[t]] = r
  BY <1>3, <1>6
<1>11. StoreIsAimed(t)
  BY DEF EntriesAreKept
<1>12. CASE d.key[i].type # "STRING"
  <2>1. /\ pc' = [pc EXCEPT ![t] = "store_key"] /\ UNCHANGED <<op, dict, new, at, entries>>
    BY <1>2, <1>12 DEF StoreValue, Goto
  <2>2. OthersStay(t) /\ pc'[t] = "store_key"
    BY <2>1 DEF OthersStay, Protocol, Typed
  <2>3. ~Occupied(d, i, k) /\ \A l \in Keys : ~Occupied(d, i, l)
    BY <1>12 DEF Occupied
  <2>4. Vacant(d, i, k) /\ d.size < Limit(d)
    BY <1>1, <1>2, <1>11, <2>3 DEF StoreIsAimed
  <2>5. StoreIsAimed(t)'
    BY <1>2, <1>7, <1>8, <1>9, <1>10, <2>1, <2>2, <2>4 DEF StoreIsAimed
  <2>6. \A l \in Keys : Binding(r, l) = entries'[l]
    BY <1>3, <1>8, <2>1, <2>3
  <2> QED
    BY <1>1, <1>2, <1>6, <1>7, <1>8, <1>9, <2>2, <2>5, <2>6, TableStep
<1>13. CASE d.key[i].type = "STRING"
  <2>1. Occupied(d, i, k)
    BY <1>1, <1>2, <1>11, <1>13 DEF StoreIsAimed, Vacant
  <2>2. \A l \in Keys \ {k} : ~Occupied(d, i, l)
    BY <2>1 DEF Occupied
  <2>3. Binding(r, k) = op[t].value
    BY <1>3, <1>7, <1>8, <2>1, LookupIsRight
  <2>4. CASE op[t].kind = "erase"
    <3>1. /\ pc' = [pc EXCEPT ![t] = "erase_key"] /\ UNCHANGED <<op, dict, new, at, entries>>
      BY <1>2, <1>13, <2>4 DEF StoreValue, Goto
    <3>2. OthersStay(t) /\ pc'[t] = "erase_key"
      BY <3>1 DEF OthersStay, Protocol, Typed
    <3>3. StoreIsAimed(t)'
      BY <1>2, <1>8, <1>10, <2>1, <3>1, <3>2 DEF StoreIsAimed
    <3>4. \A l \in Keys : ~(pc'[t] = "erase_key" /\ op'[t].key = l) => Binding(r, l) = entries'[l]
      BY <1>2, <1>3, <1>8, <2>2, <3>1, <3>2
    <3> QED
      BY <1>1, <1>2, <1>6, <1>7, <1>8, <1>9, <3>2, <3>3, <3>4, TableStep
  <2>5. CASE op[t].kind # "erase"
    <3>1. Finish(t) /\ entries' = [entries EXCEPT ![k] = op[t].value]
      BY <1>2, <1>13, <2>5 DEF StoreValue
    <3>2. OthersStay(t) /\ pc'[t] \in {"unlock_done", "idle"}
      BY <1>1, <3>1, FinishMoves
    <3>3. StoreIsAimed(t)'
      BY <3>2 DEF StoreIsAimed
    <3>4. entries \in [Keys -> Values \cup {Absent}]
      BY DEF Protocol, Typed
    <3>5. \A l \in Keys : Binding(r, l) = entries'[l]
      BY <1>3, <1>8, <2>2, <2>3, <3>1, <3>4
    <3> QED
      BY <1>1, <1>2, <1>6, <1>7, <1>8, <1>9, <3>2, <3>3, <3>5, TableStep
  <2> QED
    BY <2>4, <2>5
<1> QED
  BY <1>12, <1>13

LEMMA StoreKeyKeepsEntries ==
  ASSUME Protocol, Protocol', EntriesAreKept, NEW t \in Threads, StoreKey(t)
  PROVE  EntriesAreKept'
<1>1. /\ pc[t] = "store_key" /\ pc[t] \in StorePcs /\ pc' = [pc EXCEPT ![t] = "publish_key"]
      /\ gen' = [gen EXCEPT ![dict[t]].key[at[t]].str = op[t].key,
                            ![dict[t]].size = gen[dict[t]].size + 1]
      /\ UNCHANGED <<ref, op, dict, new, at, entries>>
  <2>1. dict[t] \in Gens /\ gen \in [Gens -> Dicts] /\ gen[dict[t]] \in Dicts
    BY StorerIsAlone DEF StoreKey, Goto, StorePcs, Protocol, Typed
  <2> QED
    BY <2>1 DEF StoreKey, Goto, StorePcs, ghosts, Dicts
<1>2. PICK d, i, k : d = gen[dict[t]] /\ i = at[t] /\ k = op[t].key
  OBVIOUS
<1>3. /\ d \in Dicts /\ d.alloc_size > 0 /\ TableIsGood(d)
      /\ Cardinality(Strings(d)) <= d.size /\ d.size \in Int /\ Cardinality(Strings(d)) \in Nat
      /\ d.key \in KeySlots /\ i \in Table(d) /\ i \in Slots /\ Table(d) \subseteq Slots
      /\ k \in Keys /\ \A l \in Keys : Binding(d, l) = entries[l]
      /\ gen \in [Gens -> Dicts] /\ dict[t] \in Gens
  BY <1>1, <1>2, StoreEffect, StorerIsAlone
<1>4. Vacant(d, i, k) /\ d.value[i] = op[t].value /\ d.size < Limit(d) /\ d.key[i].type # "STRING"
  BY <1>1, <1>2 DEF EntriesAreKept, StoreIsAimed, Vacant
<1>5. PICK key : key = [d.key[i] EXCEPT !.str = k]
  OBVIOUS
<1>6. /\ key \in [type : {"EMPTY", "TOMBSTONE", "STRING"}, str : Keys \cup {NoKey}]
      /\ key.type = d.key[i].type /\ key.str = k
  BY <1>3, <1>5 DEF KeySlots
<1>7. PICK r : r = [d EXCEPT !.key[i] = key, !.size = d.size + 1]
  OBVIOUS
<1>8. gen' = [gen EXCEPT ![dict[t]] = r]
  BY <1>1, <1>2, <1>3, <1>5, <1>7 DEF Dicts
<1>9. r \in Dicts /\ SameButFlag(r, d)
  <2>1. d.size + 1 \in Int
    BY <1>3
  <2> QED
    BY <1>3, <1>6, <1>7, <2>1, KeyStoreIsTyped
<1>10. /\ r.size = d.size + 1 /\ r.value = d.value /\ r.key[i] = key
       /\ \A j \in Slots \ {i} : r.key[j] = d.key[j]
  BY <1>3, <1>7 DEF Dicts, KeySlots
<1>11. SameKeys(r, d)
  BY <1>4, <1>6, <1>9, <1>10 DEF SameKeys, SameButFlag
<1>12. /\ TableIsGood(r) /\ Strings(r) = Strings(d)
       /\ Vacant(r, i, k) /\ \A l \in Keys : Binding(r, l) = Binding(d, l)
  BY <1>3, <1>4, <1>9, <1>10, <1>11, KeysKept, SameKeysCount
<1>13. /\ Cardinality(Strings(r)) <= r.size /\ Cardinality(Strings(r)) < r.size
       /\ r.size <= Limit(r)
  <2>1. Limit(r) = Limit(d) /\ Limit(d) \in Int
    BY <1>3, <1>9 DEF SameButFlag, Limit, Dicts
  <2> QED
    BY <1>3, <1>4, <1>10, <1>12, <2>1
<1>14. gen'[dict[t]] = r
  BY <1>3, <1>8
<1>15. OthersStay(t) /\ pc'[t] = "publish_key"
  BY <1>1 DEF OthersStay, Protocol, Typed
<1>16. StoreIsAimed(t)'
  BY <1>1, <1>2, <1>4, <1>6, <1>10, <1>12, <1>13, <1>14, <1>15 DEF StoreIsAimed
<1> QED
  BY <1>1, <1>2, <1>3, <1>8, <1>9, <1>12, <1>13, <1>15, <1>16, TableStep

LEMMA PublishKeyKeepsEntries ==
  ASSUME Protocol, Protocol', EntriesAreKept, NEW t \in Threads, PublishKey(t)
  PROVE  EntriesAreKept'
<1>1. /\ pc[t] = "publish_key" /\ pc[t] \in StorePcs /\ pc[t] \in WorkPcs /\ Finish(t)
      /\ gen' = [gen EXCEPT ![dict[t]].key[at[t]].type = "STRING"]
      /\ entries' = [entries EXCEPT ![op[t].key] = op[t].value]
  BY DEF PublishKey, StorePcs, WorkPcs
<1>2. PICK d, i, k : d = gen[dict[t]] /\ i = at[t] /\ k = op[t].key
  OBVIOUS
<1>3. /\ d \in Dicts /\ d.alloc_size > 0 /\ TableIsGood(d)
      /\ d.size <= Limit(d) /\ d.size \in Int /\ Cardinality(Strings(d)) \in Nat
      /\ d.key \in KeySlots /\ i \in Table(d) /\ i \in Slots /\ Table(d) \subseteq Slots
      /\ k \in Keys /\ \A l \in Keys : Binding(d, l) = entries[l]
      /\ gen \in [Gens -> Dicts] /\ dict[t] \in Gens
  BY <1>1, <1>2, StoreEffect, StorerIsAlone
<1>4. /\ Vacant(d, i, k) /\ d.value[i] = op[t].value /\ d.key[i].str = k
      /\ d.key[i].type # "STRING" /\ Cardinality(Strings(d)) < d.size
  BY <1>1, <1>2 DEF EntriesAreKept, StoreIsAimed, Vacant
<1>5. PICK key : key = [d.key[i] EXCEPT !.type = "STRING"]
  OBVIOUS
<1>6. /\ key \in [type : {"EMPTY", "TOMBSTONE", "STRING"}, str : Keys \cup {NoKey}]
      /\ key = [type |-> "STRING", str |-> k]
  BY <1>3, <1>4, <1>5 DEF KeySlots
<1>7. PICK r : r = [d EXCEPT !.key[i] = key, !.size = d.size]
  OBVIOUS
<1>8. r = [d EXCEPT !.key[i] = key] /\ gen' = [gen EXCEPT ![dict[t]] = r]
  <2>1. r = [d EXCEPT !.key[i] = key]
    BY <1>3, <1>7 DEF Dicts
  <2> QED
    BY <1>1, <1>2, <1>3, <1>5, <2>1
<1>9. r \in Dicts /\ SameButFlag(r, d)
  BY <1>3, <1>6, <1>7, KeyStoreIsTyped
<1>10. /\ r.size = d.size /\ r.value = d.value /\ r.key[i] = key
       /\ \A j \in Slots \ {i} : r.key[j] = d.key[j]
  BY <1>3, <1>8 DEF Dicts, KeySlots
<1>11. Puts(r, d, i, k)
  BY <1>6, <1>9, <1>10 DEF Puts, SameButFlag
<1>12. /\ TableIsGood(r) /\ Binding(r, k) = op[t].value
       /\ \A l \in Keys \ {k} : Binding(r, l) = Binding(d, l)
  BY <1>3, <1>4, <1>9, <1>10, <1>11, PutKeepsTable
<1>13. Cardinality(Strings(r)) <= r.size /\ r.size <= Limit(r)
  <2>1. Cardinality(Strings(r)) = Cardinality(Strings(d)) + 1
    BY <1>3, <1>4, <1>9, <1>11, PutCounts
  <2>2. Limit(r) = Limit(d)
    BY <1>9 DEF SameButFlag, Limit
  <2> QED
    BY <1>3, <1>4, <1>10, <2>1, <2>2
<1>14. OthersStay(t) /\ pc'[t] \in {"unlock_done", "idle"}
  BY <1>1, FinishMoves
<1>15. StoreIsAimed(t)'
  BY <1>14 DEF StoreIsAimed
<1>16. \A l \in Keys : Binding(r, l) = entries'[l]
  <2>1. entries \in [Keys -> Values \cup {Absent}]
    BY DEF Protocol, Typed
  <2> QED
    BY <1>1, <1>2, <1>3, <1>12, <2>1
<1> QED
  BY <1>1, <1>2, <1>8, <1>9, <1>12, <1>13, <1>14, <1>15, <1>16, TableStep

LEMMA EraseKeyKeepsEntries ==
  ASSUME Protocol, Protocol', EntriesAreKept, NEW t \in Threads, EraseKey(t)
  PROVE  EntriesAreKept'
<1>1. /\ pc[t] = "erase_key" /\ pc[t] \in StorePcs /\ pc[t] \in WorkPcs /\ Finish(t)
      /\ gen' = [gen EXCEPT ![dict[t]].key[at[t]].type = "TOMBSTONE",
                            ![dict[t]].size = gen[dict[t]].size - 1]
      /\ entries' = [entries EXCEPT ![op[t].key] = Absent]
  <2>1. dict[t] \in Gens /\ gen \in [Gens -> Dicts] /\ gen[dict[t]] \in Dicts
    BY StorerIsAlone DEF EraseKey, StorePcs, Protocol, Typed
  <2> QED
    BY <2>1 DEF EraseKey, StorePcs, WorkPcs, Dicts
<1>2. PICK d, i, k : d = gen[dict[t]] /\ i = at[t] /\ k = op[t].key
  OBVIOUS
<1>3. /\ d \in Dicts /\ d.alloc_size > 0 /\ TableIsGood(d)
      /\ Cardinality(Strings(d)) <= d.size /\ d.size <= Limit(d) /\ d.size \in Int
      /\ Cardinality(Strings(d)) \in Nat
      /\ d.key \in KeySlots /\ i \in Table(d) /\ i \in Slots /\ Table(d) \subseteq Slots
      /\ k \in Keys /\ \A l \in Keys \ {k} : Binding(d, l) = entries[l]
      /\ gen \in [Gens -> Dicts] /\ dict[t] \in Gens
  BY <1>1, <1>2, StoreEffect, StorerIsAlone
<1>4. Occupied(d, i, k) /\ d.key[i].type = "STRING"
  BY <1>1, <1>2 DEF EntriesAreKept, StoreIsAimed, Occupied
<1>5. PICK key : key = [d.key[i] EXCEPT !.type = "TOMBSTONE"]
  OBVIOUS
<1>6. /\ key \in [type : {"EMPTY", "TOMBSTONE", "STRING"}, str : Keys \cup {NoKey}]
      /\ key.type = "TOMBSTONE"
  BY <1>3, <1>5 DEF KeySlots
<1>7. PICK r : r = [d EXCEPT !.key[i] = key, !.size = d.size - 1]
  OBVIOUS
<1>8. gen' = [gen EXCEPT ![dict[t]] = r]
  BY <1>1, <1>2, <1>3, <1>5, <1>7 DEF Dicts
<1>9. r \in Dicts /\ SameButFlag(r, d)
  <2>1. d.size - 1 \in Int
    BY <1>3
  <2> QED
    BY <1>3, <1>6, <1>7, <2>1, KeyStoreIsTyped
<1>10. /\ r.size = d.size - 1 /\ r.value = d.value /\ r.key[i] = key
       /\ \A j \in Slots \ {i} : r.key[j] = d.key[j]
  BY <1>3, <1>7 DEF Dicts, KeySlots
<1>11. Buries(r, d, i)
  BY <1>6, <1>9, <1>10 DEF Buries, SameButFlag
<1>12. /\ TableIsGood(r) /\ Binding(r, k) = Absent
       /\ \A l \in Keys \ {k} : Binding(r, l) = Binding(d, l)
  BY <1>3, <1>4, <1>9, <1>11, EraseKeepsTable
<1>13. Cardinality(Strings(r)) <= r.size /\ r.size <= Limit(r)
  <2>1. Cardinality(Strings(r)) = Cardinality(Strings(d)) - 1
    BY <1>3, <1>4, <1>9, <1>11, BuryCounts
  <2>2. Limit(r) = Limit(d) /\ Limit(d) \in Int
    BY <1>3, <1>9 DEF SameButFlag, Limit, Dicts
  <2> QED
    BY <1>3, <1>10, <2>1, <2>2
<1>14. OthersStay(t) /\ pc'[t] \in {"unlock_done", "idle"}
  BY <1>1, FinishMoves
<1>15. StoreIsAimed(t)'
  BY <1>14 DEF StoreIsAimed
<1>16. \A l \in Keys : Binding(r, l) = entries'[l]
  <2>1. entries \in [Keys -> Values \cup {Absent}]
    BY DEF Protocol, Typed
  <2> QED
    BY <1>1, <1>2, <1>3, <1>12, <2>1
<1> QED
  BY <1>1, <1>2, <1>8, <1>9, <1>12, <1>13, <1>14, <1>15, <1>16, TableStep

(* The freeze, the expansion and the collection.                           *)
LEMMA FreezeStoreIsQuiet ==
  ASSUME Protocol, NEW t \in Threads, FreezeStore(t)
  PROVE  QuietStep(t)
<1>1. /\ pc[t] = "freeze_store" /\ pc[t] \in WorkPcs /\ Finish(t)
      /\ gen' = [gen EXCEPT ![dict[t]].is_frozen = TRUE] /\ UNCHANGED <<ref, entries>>
  BY DEF FreezeStore, WorkPcs, ghosts
<1>2. SameTables
  <2>1. gen \in [Gens -> Dicts]
    BY DEF Protocol, Typed
  <2>2. \A g \in Gens : gen'[g] = IF g = dict[t] THEN [gen[g] EXCEPT !.is_frozen = TRUE] ELSE gen[g]
    BY <1>1, <2>1
  <2>3. \A g \in Gens : gen[g] \in Dicts
    BY <2>1
  <2>4. ASSUME NEW g \in Gens
        PROVE  /\ gen'[g].alloc_size = gen[g].alloc_size /\ gen'[g].newer = gen[g].newer
               /\ gen'[g].key = gen[g].key /\ gen'[g].value = gen[g].value
               /\ gen'[g].size = gen[g].size
    <3>1. gen[g] \in Dicts /\ gen'[g] = IF g = dict[t] THEN [gen[g] EXCEPT !.is_frozen = TRUE] ELSE gen[g]
      BY <2>2, <2>3
    <3> DEFINE d == gen[g]
    <3>2. CASE g = dict[t]
      <4>1. d \in Dicts /\ gen'[g] = [d EXCEPT !.is_frozen = TRUE]
        BY <3>1, <3>2
      <4> HIDE DEF d
      <4>2. /\ gen'[g].alloc_size = d.alloc_size /\ gen'[g].newer = d.newer
            /\ gen'[g].key = d.key /\ gen'[g].value = d.value /\ gen'[g].size = d.size
        BY <4>1 DEF Dicts
      <4> QED
        BY <4>2 DEF d
    <3>3. CASE g # dict[t]
      BY <3>1, <3>3
    <3> QED
      BY <3>2, <3>3
  <2> QED
    BY <2>4 DEF SameTables
<1>3. OthersStay(t) /\ pc'[t] \in {"unlock_done", "idle"}
  BY <1>1, FinishMoves
<1> QED
  BY <1>1, <1>2, <1>3 DEF QuietStep, StorePcs

LEMMA LimitLeavesRoom ==
  ASSUME NEW a \in Nat \ {0}
  PROVE  (a \div 4) * 3 <= a - 1 /\ (a \div 4) * 3 <= ((2 * a) \div 4) * 3
OBVIOUS

LEMMA CopyIsWhole ==
  ASSUME Protocol, EntriesAreKept, NEW t \in Threads, 2 * gen[Newest].alloc_size <= MaxSize,
         NEW r, r = Expanded(t, gen[Newest])
  PROVE  /\ r \in Dicts /\ TableIsGood(r) /\ Cardinality(Strings(r)) <= r.size /\ r.size <= Limit(r)
         /\ \A k \in Keys : Binding(r, k) = Binding(gen[Newest], k)
<1>1. PICK d \in Dicts : /\ d = gen[Newest] /\ d.alloc_size > 0 /\ d.alloc_size \in Nat \ {0}
                         /\ d.size \in Int
                         /\ TableIsGood(d) /\ Cardinality(Strings(d)) <= d.size /\ d.size <= Limit(d)
  <2>1. Newest \in Live /\ Newest \in Gens
    BY NewestIsTip DEF Protocol
  <2>2. gen[Newest] \in Dicts /\ gen[Newest].alloc_size > 0
    BY <2>1 DEF Protocol, Typed, Live
  <2>3. gen[Newest].alloc_size \in Nat \ {0} /\ gen[Newest].size \in Int
    BY <2>2, DictAssumption DEF Dicts
  <2> QED
    BY <2>1, <2>2, <2>3 DEF EntriesAreKept, TablesAreGood
<1>2. 2 * d.alloc_size \in 0 .. MaxSize /\ 2 * d.alloc_size > 0
  BY <1>1, DictAssumption
<1>3. PICK e \in Dicts : e = NewDict(t, 2 * d.alloc_size)
  BY <1>2, FreshIsTyped
<1>4. e.alloc_size = 2 * d.alloc_size /\ IsFresh(e)
  <2>1. e.alloc_size = 2 * d.alloc_size /\ e.key = [i \in Slots |-> EmptySlot]
    BY <1>3 DEF NewDict, Unused
  <2>2. Table(e) \subseteq Slots
    BY TableIsInSlots
  <2> QED
    BY <2>1, <2>2 DEF IsFresh, EmptySlot
<1>5. /\ Limit(d) <= d.alloc_size - 1 /\ Limit(d) <= (e.alloc_size \div 4) * 3 /\ Limit(d) \in Int
      /\ (e.alloc_size \div 4) * 3 \in Int
  BY <1>1, <1>4, LimitLeavesRoom DEF Limit
<1>6. Cardinality(Strings(d)) <= e.alloc_size - 1
  BY <1>1, <1>4, <1>5, StringsAreFinite
<1>7. PICK f : f = Rehash(e, d)
  OBVIOUS
<1>8. /\ f \in Dicts /\ f.size = d.size /\ f.alloc_size = e.alloc_size
      /\ TableIsGood(f) /\ Cardinality(Strings(f)) = Cardinality(Strings(d))
      /\ \A k \in Keys : Binding(f, k) = Binding(d, k)
  BY <1>1, <1>2, <1>4, <1>6, <1>7, RehashKeepsEntries
<1>9. r = [f EXCEPT !.shared = d.shared, !.creator = d.creator, !.is_frozen = d.is_frozen,
                    !.native = d.native, !.write_lock = 1]
  BY <1>1, <1>3, <1>7 DEF Expanded
<1>10. /\ r.alloc_size = f.alloc_size /\ r.size = f.size /\ r.key = f.key /\ r.value = f.value
  BY <1>8, <1>9 DEF Dicts
<1>11. r \in Dicts
  BY <1>1, CopyIsGood
<1>12. /\ TableIsGood(r) /\ Strings(r) = Strings(f)
       /\ \A k \in Keys : Binding(r, k) = Binding(f, k)
  BY <1>2, <1>4, <1>8, <1>10, <1>11, SameTableFacts
<1>13. r.size <= Limit(r)
  BY <1>1, <1>5, <1>8, <1>10 DEF Limit
<1> QED
  BY <1>1, <1>8, <1>10, <1>11, <1>12, <1>13

LEMMA AllocAndCopyKeepsEntries ==
  ASSUME Protocol, Protocol', EntriesAreKept, NEW t \in Threads, AllocAndCopy(t)
  PROVE  EntriesAreKept'
<1>1. PICK h \in Gens : /\ h = Newest /\ h \in Findable /\ h \in Live /\ Link(h) = NULL
                        /\ Live \subseteq Gens /\ Findable \subseteq Live
  BY NewestIsTip DEF Protocol
<1>2. PICK r : r = Expanded(t, gen[h])
  OBVIOUS
<1>3. PICK g \in Free : gen' = [gen EXCEPT ![g] = r] /\ new' = [new EXCEPT ![t] = g]
  BY <1>1, <1>2 DEF AllocAndCopy
<1>4. /\ pc[t] = "alloc" /\ pc' = [pc EXCEPT ![t] = "publish"] /\ dict' = [dict EXCEPT ![t] = h]
      /\ UNCHANGED <<ref, op, entries>> /\ 2 * gen[h].alloc_size <= MaxSize
  BY <1>1 DEF AllocAndCopy, Goto, ghosts
<1>5. g \in Gens /\ g \notin Live
  BY <1>3 DEF Free
<1>6. /\ TableIsGood(r) /\ Cardinality(Strings(r)) <= r.size /\ r.size <= Limit(r)
      /\ \A k \in Keys : Binding(r, k) = Binding(gen[h], k)
  BY <1>1, <1>2, <1>4, CopyIsWhole
<1>7. /\ gen'[g] = r /\ (\A x \in Gens \ {g} : gen'[x] = gen[x])
      /\ pc'[t] = "publish" /\ new'[t] = g /\ dict'[t] = h
      /\ \A u \in Threads \ {t} : pc'[u] = pc[u] /\ new'[u] = new[u] /\ dict'[u] = dict[u]
  BY <1>3, <1>4, <1>5 DEF Protocol, Typed
<1>8. h # g /\ gen'[h] = gen[h]
  BY <1>1, <1>5, <1>7
<1>9. \A u \in Threads \ {t} : pc'[u] \notin StorePcs \cup {"publish"}
  BY <1>4, <1>7, ExpanderIsAlone, PcSets
<1>10. Newest' = h
  <2>1. h \in Live'
    BY <1>1, <1>8 DEF Live
  <2>2. ~Private(h)'
    BY <1>7, <1>8, <1>9 DEF Private
  <2> QED
    BY <1>1, <1>8, <2>1, <2>2, NextTip DEF Findable, Link
<1>11. TablesAreGood'
  <2> SUFFICES ASSUME NEW x \in Gens, gen'[x].alloc_size > 0
               PROVE  /\ TableIsGood(gen'[x]) /\ Cardinality(Strings(gen'[x])) <= gen'[x].size
                      /\ gen'[x].size <= Limit(gen'[x])
    BY DEF TablesAreGood, Live
  <2>1. CASE x = g
    BY <1>6, <1>7, <2>1
  <2>2. CASE x # g
    <3>1. gen'[x] = gen[x] /\ x \in Live
      BY <1>7, <2>2 DEF Live
    <3> QED
      BY <3>1 DEF EntriesAreKept, TablesAreGood
  <2> QED
    BY <2>1, <2>2
<1>12. CopiesAreWhole'
  BY <1>6, <1>7, <1>8, <1>9 DEF CopiesAreWhole
<1>13. NoEntryLost'
  <2>1. \A k \in Keys : ~BeingErased(k)
    BY <1>4, ExpanderIsAlone, PcSets DEF BeingErased, StorePcs
  <2>2. \A k \in Keys : Binding(gen[h], k) = entries[k]
    BY <1>1, <2>1 DEF EntriesAreKept, NoEntryLost
  <2> QED
    BY <1>4, <1>8, <1>10, <2>2 DEF NoEntryLost
<1>14. \A u \in Threads : StoreIsAimed(u)'
  BY <1>7, <1>9 DEF StoreIsAimed, StorePcs
<1> QED
  BY <1>11, <1>12, <1>13, <1>14 DEF EntriesAreKept

LEMMA PublishKeepsEntries ==
  ASSUME Protocol, Protocol', EntriesAreKept, NEW t \in Threads, Publish(t)
  PROVE  EntriesAreKept'
<1>1. /\ pc[t] = "publish" /\ pc' = [pc EXCEPT ![t] = "unlock_old"]
      /\ UNCHANGED <<op, dict, new, entries>>
      /\ gen' = [gen EXCEPT ![dict[t]].newer = new[t]]
  BY DEF Publish, Goto, ghosts
<1>2. PICK h \in Gens, n \in Gens :
        /\ h = dict[t] /\ n = new[t] /\ h \in Findable /\ n \in Live /\ h # n /\ h = Newest
        /\ Link(n) = NULL /\ gen[h] \in Dicts /\ gen[h].alloc_size > 0
  <2>1. /\ dict[t] \in Findable /\ dict[t] \in Gens /\ gen[dict[t]] \in Dicts /\ Link(dict[t]) = NULL
        /\ new[t] \in Live /\ Link(new[t]) = NULL /\ PointersAreGood(t)
    BY <1>1, ThreadFacts, PcSets DEF PointersAreGood
  <2>2. new[t] \notin Findable /\ new[t] \in Gens /\ gen[dict[t]].alloc_size > 0
    BY <1>1, <2>1 DEF Findable, Private, Live
  <2> QED
    BY <2>1, <2>2, NewestIsTip DEF Protocol
<1>3. /\ gen'[h] = [gen[h] EXCEPT !.newer = n]
      /\ \A x \in Gens \ {h} : gen'[x] = gen[x]
      /\ pc'[t] = "unlock_old" /\ \A u \in Threads \ {t} : pc'[u] = pc[u]
  BY <1>1, <1>2 DEF Protocol, Typed
<1>4. \A u \in Threads : pc[u] \notin StorePcs /\ pc'[u] \notin StorePcs \cup {"publish"}
  <2>1. pc[t] \notin StorePcs /\ pc'[t] \notin StorePcs \cup {"publish"}
    BY <1>1, <1>3 DEF StorePcs
  <2>2. \A u \in Threads \ {t} : pc[u] \notin StorePcs \cup {"publish"}
    BY <1>1, ExpanderIsAlone, PcSets
  <2> QED
    BY <1>3, <2>1, <2>2
<1>5. Newest' = n
  <2>1. n \in Live' /\ ~Private(n)'
    BY <1>2, <1>3, <1>4 DEF Live, Private
  <2> QED
    BY <1>2, <1>3, <2>1, NextTip DEF Findable, Link
<1>6. /\ TableIsGood(gen[h]) /\ Cardinality(Strings(gen[h])) <= gen[h].size
      /\ gen[h].size <= Limit(gen[h])
  BY <1>2 DEF EntriesAreKept, TablesAreGood, Live
<1>7. /\ gen'[h] \in Dicts /\ gen'[h].alloc_size = gen[h].alloc_size /\ gen'[h].size = gen[h].size
      /\ gen'[h].key = gen[h].key /\ gen'[h].value = gen[h].value
  BY <1>2, <1>3 DEF Dicts
<1>8. /\ TableIsGood(gen'[h]) /\ Strings(gen'[h]) = Strings(gen[h])
      /\ Limit(gen'[h]) = Limit(gen[h])
  BY <1>2, <1>6, <1>7, SameTableFacts DEF Limit
<1>9. TablesAreGood'
  <2> SUFFICES ASSUME NEW x \in Gens, gen'[x].alloc_size > 0
               PROVE  /\ TableIsGood(gen'[x]) /\ Cardinality(Strings(gen'[x])) <= gen'[x].size
                      /\ gen'[x].size <= Limit(gen'[x])
    BY DEF TablesAreGood, Live
  <2>1. CASE x = h
    BY <1>6, <1>7, <1>8, <2>1
  <2>2. CASE x # h
    <3>1. gen'[x] = gen[x] /\ x \in Live
      BY <1>3, <2>2 DEF Live
    <3> QED
      BY <3>1 DEF EntriesAreKept, TablesAreGood
  <2> QED
    BY <2>1, <2>2
<1>10. CopiesAreWhole'
  BY <1>4 DEF CopiesAreWhole
<1>11. NoEntryLost'
  <2>1. \A k \in Keys : ~BeingErased(k)
    BY <1>4 DEF BeingErased, StorePcs
  <2>2. \A k \in Keys : Binding(gen[h], k) = entries[k]
    BY <1>2, <2>1 DEF EntriesAreKept, NoEntryLost
  <2>3. \A k \in Keys : Binding(gen[n], k) = Binding(gen[h], k)
    BY <1>1, <1>2 DEF EntriesAreKept, CopiesAreWhole
  <2>4. gen'[n] = gen[n]
    BY <1>2, <1>3
  <2> QED
    BY <1>1, <1>5, <2>2, <2>3, <2>4 DEF NoEntryLost
<1>12. \A u \in Threads : StoreIsAimed(u)'
  BY <1>4 DEF StoreIsAimed, StorePcs
<1> QED
  BY <1>9, <1>10, <1>11, <1>12 DEF EntriesAreKept

LEMMA MovedIsWhole ==
  ASSUME NEW d \in Dicts, d.alloc_size > 0, TableIsGood(d),
         Cardinality(Strings(d)) <= d.size, d.size <= Limit(d), NEW m \in Moved(d)
  PROVE  /\ TableIsGood(m) /\ Cardinality(Strings(m)) <= m.size /\ m.size <= Limit(m)
         /\ \A k \in Keys : Binding(m, k) = Binding(d, k)
<1>1. CASE m = d
  BY <1>1
<1>2. CASE m # d
  <2>1. d.creator \in Threads /\ d.alloc_size \in 0 .. MaxSize /\ d.alloc_size \in Nat \ {0} /\ d.size \in Int
    BY DictAssumption DEF Dicts
  <2>2. PICK e \in Dicts : e = NewDict(d.creator, d.alloc_size)
    BY <2>1, FreshIsTyped
  <2>3. e.alloc_size = d.alloc_size /\ IsFresh(e)
    <3>1. e.alloc_size = d.alloc_size /\ e.key = [i \in Slots |-> EmptySlot]
      BY <2>2 DEF NewDict, Unused
    <3>2. Table(e) \subseteq Slots
      BY TableIsInSlots
    <3> QED
      BY <3>1, <3>2 DEF IsFresh, EmptySlot
  <2>4. Limit(d) <= d.alloc_size - 1 /\ Limit(d) \in Int
    BY <2>1, LimitLeavesRoom DEF Limit
  <2>5. Cardinality(Strings(d)) <= e.alloc_size - 1
    BY <2>1, <2>3, <2>4, StringsAreFinite
  <2>6. PICK f : f = Rehash(e, d)
    OBVIOUS
  <2>7. /\ f \in Dicts /\ f.alloc_size = e.alloc_size /\ TableIsGood(f)
        /\ Cardinality(Strings(f)) = Cardinality(Strings(d))
        /\ \A k \in Keys : Binding(f, k) = Binding(d, k)
    BY <2>3, <2>5, <2>6, RehashKeepsEntries
  <2>8. m = [d EXCEPT !.key = f.key, !.value = f.value]
    BY <1>2, <2>2, <2>6 DEF Moved
  <2>9. /\ m.alloc_size = d.alloc_size /\ m.size = d.size /\ m.key = f.key /\ m.value = f.value
    BY <2>8 DEF Dicts
  <2>10. m \in Dicts
    BY MovedIsTyped
  <2>11. /\ TableIsGood(m) /\ Strings(m) = Strings(f)
         /\ \A k \in Keys : Binding(m, k) = Binding(f, k)
    BY <2>3, <2>7, <2>9, <2>10, SameTableFacts
  <2> QED
    BY <2>7, <2>9, <2>11 DEF Limit
<1> QED
  BY <1>1, <1>2

LEMMA CollectKeepsEntries ==
  ASSUME Protocol, Protocol', EntriesAreKept, NEW t \in Threads, Collect(t)
  PROVE  EntriesAreKept'
<1>1. /\ pc[t] \in OutPcs /\ STW!WorldStoppedFor(t)
      /\ UNCHANGED <<pc, op, dict, new, entries>>
  BY DEF Collect, OutPcs, threadVars, ghosts
<1>2. \A u \in Threads : pc[u] \notin StorePcs \cup {"publish"}
  BY <1>1, WorldIsStopped, OutsidePcs DEF OutPcs, StorePcs
<1>3. PICK h \in Gens : h = Newest /\ gen[h] \in Dicts /\ h \in Live /\ Link(h) = NULL
  BY NewestIsTip DEF Protocol, Typed, Live
<1>4. PICK g \in Gens, d \in {gen[h]} \cup Moved(gen[h]) :
        gen' = [x \in Gens |-> IF x = g THEN d ELSE Unused]
  BY <1>3 DEF Collect, Free
<1>5. gen[h].alloc_size > 0 /\ gen[h] \in Moved(gen[h])
  BY <1>3 DEF Live, Moved
<1>6. /\ TableIsGood(d) /\ Cardinality(Strings(d)) <= d.size /\ d.size <= Limit(d)
      /\ \A k \in Keys : Binding(d, k) = Binding(gen[h], k)
  BY <1>3, <1>4, <1>5, MovedIsWhole DEF EntriesAreKept, TablesAreGood
<1>7. d.newer = NULL /\ d.alloc_size = gen[h].alloc_size
  BY <1>3, <1>4, <1>5, MovedIsTyped DEF SameHeader, Link
<1>8. gen'[g] = d /\ \A x \in Gens \ {g} : gen'[x] = Unused
  BY <1>4
<1>9. Live' = {g}
  BY <1>5, <1>7, <1>8 DEF Live, Unused
<1>10. Newest' = g
  <2>1. ~Private(g)'
    BY <1>1, <1>2 DEF Private
  <2> QED
    BY <1>7, <1>8, <1>9, <2>1, NextTip DEF Findable, Link
<1>11. TablesAreGood'
  BY <1>6, <1>8, <1>9 DEF TablesAreGood
<1>12. CopiesAreWhole'
  BY <1>1, <1>2 DEF CopiesAreWhole
<1>13. NoEntryLost'
  <2>1. \A k \in Keys : ~BeingErased(k)
    BY <1>2 DEF BeingErased, StorePcs
  <2>2. \A k \in Keys : Binding(gen[h], k) = entries[k]
    BY <1>3, <2>1 DEF EntriesAreKept, NoEntryLost
  <2> QED
    BY <1>1, <1>6, <1>8, <1>10, <2>2 DEF NoEntryLost
<1>14. \A u \in Threads : StoreIsAimed(u)'
  BY <1>1, <1>2 DEF StoreIsAimed, StorePcs
<1> QED
  BY <1>11, <1>12, <1>13, <1>14 DEF EntriesAreKept

(* The insertions of the creator.                                          *)
HoldsPreloaded(x, n) ==
  /\ TableIsGood(x) /\ NoTombstones(x) /\ Cardinality(Strings(x)) = n /\ x.size = n
  /\ \A k \in Keys : Has(x, k) => \E m \in 1 .. n : Preloaded[m] = k
  /\ \A m \in 1 .. n : Binding(x, Preloaded[m]) = m

LEMMA PreloadFacts ==
  /\ Len(Preloaded) \in Nat /\ StartSize \in Nat \ {0} /\ StartSize <= MaxSize /\ Creator \in Threads
  /\ Len(Preloaded) <= (StartSize \div 4) * 3 /\ Len(Preloaded) <= StartSize - 1
  /\ \A n \in 1 .. Len(Preloaded) : Preloaded[n] \in Keys /\ n \in Values
  /\ \A m, n \in 1 .. Len(Preloaded) : Preloaded[m] = Preloaded[n] => m = n
  /\ DOMAIN Preloaded = 1 .. Len(Preloaded)
<1>1. /\ Preloaded \in Seq(Keys) /\ StartSize \in Nat \ {0} /\ StartSize <= MaxSize
      /\ Creator \in Threads /\ MaxOps \in Nat
      /\ Len(Preloaded) <= (StartSize \div 4) * 3 /\ Len(Preloaded) <= MaxOps
      /\ \A m, n \in DOMAIN Preloaded : Preloaded[m] = Preloaded[n] => m = n
  BY DictAssumption
<1>2. /\ Len(Preloaded) \in Nat /\ DOMAIN Preloaded = 1 .. Len(Preloaded)
      /\ \A n \in 1 .. Len(Preloaded) : Preloaded[n] \in Keys /\ n \in Values
  BY <1>1 DEF Values
<1>3. Len(Preloaded) <= StartSize - 1
  BY <1>1, <1>2, LimitLeavesRoom
<1> QED
  BY <1>1, <1>2, <1>3

LEMMA PreloadStepKeeps ==
  ASSUME NEW x \in Dicts, x.alloc_size = StartSize, NEW n \in 1 .. Len(Preloaded),
         HoldsPreloaded(x, n - 1)
  PROVE  HoldsPreloaded(PreloadStep(x, n), n)
<1>1. PICK k \in Keys : k = Preloaded[n] /\ n \in Values
  BY PreloadFacts
<1>2. x.alloc_size > 0 /\ n - 1 \in Nat /\ n \in Nat /\ n - 1 < x.alloc_size - 1
  BY PreloadFacts
<1>3. \A m \in 1 .. n - 1 : Preloaded[m] # k /\ Preloaded[m] \in Keys /\ m \in 1 .. n
  BY <1>1, <1>2, PreloadFacts
<1>4. ~Has(x, k) /\ TableIsGood(x) /\ NoTombstones(x) /\ Cardinality(Strings(x)) = n - 1
  BY <1>3 DEF HoldsPreloaded
<1>5. PICK y : y = Bind(x, k, n)
  OBVIOUS
<1>6. /\ y \in Dicts /\ TableIsGood(y) /\ NoTombstones(y)
      /\ Binding(y, k) = n /\ \A l \in Keys \ {k} : Binding(y, l) = Binding(x, l)
      /\ \A l \in Keys : Has(y, l) => l = k \/ Has(x, l)
      /\ Cardinality(Strings(y)) = n - 1 + 1
  BY <1>1, <1>2, <1>4, <1>5, BindBinds
<1>7. SameHeader(y, x)
  BY <1>1, <1>5, BindIsTyped
<1>8. PICK r : r = [y EXCEPT !.size = n]
  OBVIOUS
<1>9. /\ r \in Dicts /\ r.size = n /\ r.alloc_size = y.alloc_size /\ r.key = y.key /\ r.value = y.value
  BY <1>2, <1>6, <1>8 DEF Dicts
<1>10. /\ TableIsGood(r) /\ Strings(r) = Strings(y) /\ y.alloc_size > 0
       /\ \A l \in Keys : Binding(r, l) = Binding(y, l)
  BY <1>2, <1>6, <1>7, <1>9, SameTableFacts DEF SameHeader
<1>11. NoTombstones(r) /\ \A l \in Keys : Has(r, l) <=> Has(y, l)
  BY <1>6, <1>9 DEF NoTombstones, Has, Table, Occupied
<1>12. Cardinality(Strings(r)) = n
  BY <1>2, <1>6, <1>10
<1>13. ASSUME NEW l \in Keys, Has(r, l) PROVE \E m \in 1 .. n : Preloaded[m] = l
  <2>1. CASE l = k
    BY <1>1, <1>2, <2>1
  <2>2. CASE l # k
    <3>1. PICK m \in 1 .. n - 1 : Preloaded[m] = l
      BY <1>6, <1>11, <1>13, <2>2 DEF HoldsPreloaded
    <3> QED
      BY <1>3, <3>1
  <2> QED
    BY <2>1, <2>2
<1>14. ASSUME NEW m \in 1 .. n PROVE Binding(r, Preloaded[m]) = m
  <2>1. CASE m = n
    BY <1>1, <1>6, <1>10, <2>1
  <2>2. CASE m # n
    <3>1. m \in 1 .. n - 1
      BY <1>2, <2>2
    <3>2. Binding(x, Preloaded[m]) = m
      BY <3>1 DEF HoldsPreloaded
    <3>3. Preloaded[m] \in Keys \ {k}
      BY <1>3, <3>1
    <3> QED
      BY <1>6, <1>10, <3>2, <3>3
  <2> QED
    BY <2>1, <2>2
<1>15. r = PreloadStep(x, n)
  BY <1>1, <1>5, <1>8 DEF PreloadStep
<1> QED
  BY <1>9, <1>10, <1>11, <1>12, <1>13, <1>14, <1>15 DEF HoldsPreloaded

LEMMA PreloadHolds ==
  ASSUME Init
  PROVE  \E x \in Dicts :
           /\ HoldsPreloaded(x, Len(Preloaded)) /\ x.alloc_size = StartSize
           /\ gen = [g \in Gens |-> IF g = ref THEN [x EXCEPT !.native = TRUE] ELSE Unused]
<1> DEFINE N == Len(Preloaded)
           first == NewDict(Creator, StartSize)
<1>1. PICK f \in [0 .. N -> Dicts] :
        /\ f[0] = first
        /\ \A n \in 1 .. N : f[n] = PreloadStep(f[n - 1], n)
        /\ \A n \in 0 .. N : SameHeader(f[n], first)
        /\ gen = [g \in Gens |-> IF g = ref THEN [f[N] EXCEPT !.native = TRUE] ELSE Unused]
  BY PreloadIterates
<1>2. N \in Nat /\ StartSize \in Nat \ {0} /\ N \in 0 .. N /\ 0 \in 0 .. N
  BY PreloadFacts
<1>3. first.alloc_size = StartSize /\ first.size = 0 /\ first.key = [i \in Slots |-> EmptySlot]
  BY DEF NewDict, Unused
<1> HIDE DEF first
<1>4. \A n \in 0 .. N : f[n] \in Dicts /\ f[n].alloc_size = StartSize
  BY <1>1, <1>3 DEF SameHeader
<1> DEFINE T == {n \in 0 .. N : HoldsPreloaded(f[n], n)}
<1>5. 0 \in T
  <2>1. first \in Dicts /\ Table(first) \subseteq Slots /\ first.alloc_size > 0
    BY <1>1, <1>2, <1>3, <1>4, TableIsInSlots
  <2>2. IsFresh(first)
    BY <1>3, <2>1 DEF IsFresh, EmptySlot
  <2>3. /\ TableIsGood(first) /\ NoTombstones(first) /\ Strings(first) = {}
        /\ \A k \in Keys : ~Has(first, k)
    BY <2>1, <2>2, FreshIsGood
  <2>4. Cardinality(Strings(first)) = 0
    BY <2>3, FS_EmptySet
  <2>5. HoldsPreloaded(first, 0)
    BY <1>3, <2>3, <2>4 DEF HoldsPreloaded
  <2> QED
    BY <1>1, <1>2, <2>5
<1>6. ASSUME NEW n \in 1 .. N, n - 1 \in T PROVE n \in T
  <2>1. n - 1 \in 0 .. N /\ n \in 0 .. N
    BY <1>2
  <2>2. f[n - 1] \in Dicts /\ f[n - 1].alloc_size = StartSize /\ HoldsPreloaded(f[n - 1], n - 1)
    BY <1>4, <1>6, <2>1
  <2>3. HoldsPreloaded(PreloadStep(f[n - 1], n), n)
    BY <2>2, PreloadStepKeeps
  <2> QED
    BY <1>1, <2>1, <2>3
<1>7. N \in T
  <2> HIDE DEF T
  <2>1. \A n \in 0 .. N : n \in T
    BY <1>2, <1>5, <1>6, CountingUp
  <2> QED
    BY <1>2, <2>1
<1> QED
  BY <1>1, <1>2, <1>4, <1>7

LEMMA InitEntries ==
  ASSUME Init
  PROVE  EntriesAreKept
<1>1. Protocol
  BY InitProtocol
<1>2. PICK x \in Dicts :
        /\ HoldsPreloaded(x, Len(Preloaded)) /\ x.alloc_size = StartSize
        /\ gen = [g \in Gens |-> IF g = ref THEN [x EXCEPT !.native = TRUE] ELSE Unused]
  BY PreloadHolds
<1>3. PICK r : r = [x EXCEPT !.native = TRUE]
  OBVIOUS
<1>4. /\ r \in Dicts /\ r.alloc_size = StartSize /\ r.size = Len(Preloaded) /\ r.key = x.key
      /\ r.value = x.value /\ x.alloc_size > 0
  <2>1. x.size = Len(Preloaded) /\ x.alloc_size > 0
    BY <1>2, PreloadFacts DEF HoldsPreloaded
  <2> QED
    BY <1>2, <1>3, <2>1 DEF Dicts
<1>5. /\ TableIsGood(x) /\ Cardinality(Strings(x)) = Len(Preloaded)
      /\ \A k \in Keys : Has(x, k) => \E m \in 1 .. Len(Preloaded) : Preloaded[m] = k
      /\ \A m \in 1 .. Len(Preloaded) : Binding(x, Preloaded[m]) = m
  BY <1>2 DEF HoldsPreloaded
<1>6. /\ TableIsGood(r) /\ Strings(r) = Strings(x)
      /\ \A k \in Keys : Binding(r, k) = Binding(x, k)
  BY <1>2, <1>4, <1>5, SameTableFacts
<1>7. Live = {ref} /\ gen[ref] = r
  <2>1. ref \in Gens
    BY <1>1 DEF Protocol, Typed
  <2>2. Unused.alloc_size = 0 /\ r.alloc_size > 0
    BY <1>4, PreloadFacts DEF Unused
  <2>3. gen[ref] = r /\ \A g \in Gens \ {ref} : gen[g] = Unused
    BY <1>2, <1>3, <2>1
  <2> QED
    BY <2>1, <2>2, <2>3 DEF Live
<1>8. Newest = ref
  BY <1>1, <1>7, NewestIsTip DEF Protocol
<1>9. TablesAreGood
  BY <1>4, <1>5, <1>6, <1>7, PreloadFacts DEF TablesAreGood, Limit
<1>10. NoEntryLost
  <2> SUFFICES ASSUME NEW k \in Keys PROVE Binding(x, k) = entries[k]
    BY <1>6, <1>7, <1>8 DEF NoEntryLost
  <2>1. entries[k] = IF \E n \in DOMAIN Preloaded : Preloaded[n] = k
                     THEN CHOOSE n \in DOMAIN Preloaded : Preloaded[n] = k
                     ELSE Absent
    BY DEF Init
  <2>2. CASE \E n \in DOMAIN Preloaded : Preloaded[n] = k
    <3>1. PICK n \in DOMAIN Preloaded : n = entries[k] /\ Preloaded[n] = k
      BY <2>1, <2>2
    <3> QED
      BY <1>5, <3>1, PreloadFacts
  <2>3. CASE ~\E n \in DOMAIN Preloaded : Preloaded[n] = k
    <3>1. ~Has(x, k)
      BY <1>5, <2>3, PreloadFacts
    <3> QED
      BY <1>4, <1>5, <2>1, <2>3, <3>1, LookupIsRight
  <2> QED
    BY <2>2, <2>3
<1>11. CopiesAreWhole /\ \A t \in Threads : StoreIsAimed(t)
  BY DEF Init, CopiesAreWhole, StoreIsAimed
<1> QED
  BY <1>9, <1>10, <1>11 DEF EntriesAreKept

LEMMA NextEntries ==
  ASSUME Protocol, Protocol', EntriesAreKept, [Next]_vars
  PROVE  EntriesAreKept'
<1>1. CASE UNCHANGED vars
  <2>1. /\ Newest' = Newest /\ Live' = Live
        /\ UNCHANGED <<gen, ref, pc, op, dict, new, at, entries>>
    BY <1>1 DEF Newest, Chain, Live, vars, threadVars, ghosts
  <2>2. TablesAreGood' /\ CopiesAreWhole' /\ NoEntryLost'
    BY <2>1 DEF EntriesAreKept, TablesAreGood, CopiesAreWhole, NoEntryLost, BeingErased
  <2>3. \A t \in Threads : StoreIsAimed(t)'
    BY <2>1 DEF EntriesAreKept, StoreIsAimed
  <2> QED
    BY <2>2, <2>3 DEF EntriesAreKept
<1>2. ASSUME NEW t \in Threads, Step(t) PROVE EntriesAreKept'
  <2>1. CASE QuietStep(t)
    BY <2>1, QuietKeepsEntries
  <2>2. CASE SearchToWrite(t) \/ SearchToErase(t)
    BY <2>2, SearchToWriteKeepsEntries, SearchToEraseKeepsEntries
  <2>3. CASE StoreValue(t)
    BY <2>3, StoreValueKeepsEntries
  <2>4. CASE StoreKey(t)
    BY <2>4, StoreKeyKeepsEntries
  <2>5. CASE PublishKey(t)
    BY <2>5, PublishKeyKeepsEntries
  <2>6. CASE EraseKey(t)
    BY <2>6, EraseKeyKeepsEntries
  <2>7. CASE AllocAndCopy(t)
    BY <2>7, AllocAndCopyKeepsEntries
  <2>8. CASE Publish(t)
    BY <2>8, PublishKeepsEntries
  <2>9. CASE Collect(t)
    BY <2>9, CollectKeepsEntries
  <2> QED
    BY <1>2, <2>1, <2>2, <2>3, <2>4, <2>5, <2>6, <2>7, <2>8, <2>9, LocalSteps, LockSteps,
       FreezeStoreIsQuiet
       DEF Step
<1> QED
  BY <1>1, <1>2 DEF Next

LEMMA EntriesInvariance == Spec => []EntriesAreKept
<1>1. Protocol /\ Protocol' /\ EntriesAreKept /\ [Next]_vars => EntriesAreKept'
  BY NextEntries
<1>2. Init => EntriesAreKept
  BY InitEntries
<1> QED
  BY <1>1, <1>2, Invariance, PTL DEF Spec

(* A lookup in the newest generation finds what its key was last bound to: *)
(* an insertion puts the key where lookups of it pass, an erasure leaves a *)
(* tombstone for the lookups of others, a rehash finds a vacancy for each  *)
(* entry, and one thread at a time stores.                                 *)
THEOREM EntriesStay == Spec => []NoEntryLost
<1>1. EntriesAreKept => NoEntryLost
  BY DEF EntriesAreKept
<1> QED
  BY <1>1, EntriesInvariance, PTL

(* A place that is free is as it was cleared.                              *)
FreePlacesAreEmpty == \A g \in Gens : g \in Live \/ gen[g].size = 0

LEMMA NextFree ==
  ASSUME Protocol, FreePlacesAreEmpty, [Next]_vars
  PROVE  FreePlacesAreEmpty'
<1> SUFFICES \A g \in Gens : gen'[g].alloc_size > 0 \/ gen'[g].size = 0
  BY DEF FreePlacesAreEmpty, Live
<1>1. \A g \in Gens : gen[g] \in Dicts /\ (gen[g].alloc_size > 0 \/ gen[g].size = 0)
  BY DEF FreePlacesAreEmpty, Live, Protocol, Typed
<1>2. CASE UNCHANGED vars
  BY <1>1, <1>2 DEF vars
<1>3. ASSUME NEW t \in Threads, Step(t)
      PROVE  \A g \in Gens : gen'[g].alloc_size > 0 \/ gen'[g].size = 0
  <2>1. CASE QuietStep(t)
    BY <1>1, <2>1 DEF QuietStep, SameTables
  <2>2. CASE SearchToWrite(t) \/ SearchToErase(t)
    BY <1>1, <2>2 DEF SearchToWrite, SearchToErase
  <2>3. CASE StoreValue(t) \/ StoreKey(t) \/ PublishKey(t) \/ EraseKey(t)
    <3>1. dict[t] \in Gens /\ gen[dict[t]].alloc_size > 0
      BY <2>3, StorerIsAlone DEF StoreValue, StoreKey, PublishKey, EraseKey, Goto, StorePcs
    <3>2. \A g \in Gens : gen'[g].alloc_size = gen[g].alloc_size
      BY <2>3, StoreSteps DEF CalmStep
    <3>3. \A g \in Gens \ {dict[t]} : gen'[g] = gen[g]
      BY <2>3, <3>1 DEF StoreValue, StoreKey, PublishKey, EraseKey, Protocol, Typed
    <3> QED
      BY <1>1, <3>1, <3>2, <3>3
  <2>4. CASE AllocAndCopy(t)
    <3>1. PICK g \in Free : gen' = [gen EXCEPT ![g] = Expanded(t, gen[Newest])]
      BY <2>4 DEF AllocAndCopy
    <3>2. Expanded(t, gen[Newest]).alloc_size > 0
      BY <2>4, CopyIsGood DEF AllocAndCopy
    <3>3. gen \in [Gens -> Dicts]
      BY DEF Protocol, Typed
    <3> QED
      BY <1>1, <3>1, <3>2, <3>3
  <2>5. CASE Publish(t)
    <3>1. \A g \in Gens : gen'[g] = IF g = dict[t] THEN [gen[g] EXCEPT !.newer = new[t]] ELSE gen[g]
      BY <2>5 DEF Publish, Protocol, Typed
    <3>2. \A g \in Gens : gen'[g].alloc_size = gen[g].alloc_size /\ gen'[g].size = gen[g].size
      BY <1>1, <3>1 DEF Dicts
    <3> QED
      BY <1>1, <3>2
  <2>6. CASE Collect(t)
    <3>1. PICK h \in Gens : h = Newest /\ gen[h] \in Dicts /\ gen[h].alloc_size > 0
      BY NewestIsTip DEF Protocol, Typed, Live
    <3>2. PICK g \in Gens, d \in {gen[h]} \cup Moved(gen[h]) :
            gen' = [x \in Gens |-> IF x = g THEN d ELSE Unused]
      BY <2>6, <3>1 DEF Collect, Free
    <3>3. d.alloc_size > 0
      BY <3>1, <3>2, MovedIsTyped DEF SameHeader
    <3>4. Unused.size = 0
      BY DEF Unused
    <3> QED
      BY <3>2, <3>3, <3>4
  <2> QED
    BY <1>3, <2>1, <2>2, <2>3, <2>4, <2>5, <2>6, LocalSteps, LockSteps, FreezeStoreIsQuiet
       DEF Step
<1> QED
  BY <1>2, <1>3 DEF Next

LEMMA InitFree == Init => FreePlacesAreEmpty
<1> SUFFICES ASSUME Init PROVE \A g \in Gens : gen[g].alloc_size > 0 \/ gen[g].size = 0
  BY DEF FreePlacesAreEmpty, Live
<1>1. PICK r : r.alloc_size = StartSize /\ gen = [g \in Gens |-> IF g = ref THEN r ELSE Unused]
  BY PreloadedIsTyped
<1>2. r.alloc_size > 0 /\ Unused.size = 0
  BY <1>1, PreloadFacts DEF Unused
<1> QED
  BY <1>1, <1>2

(* Every variable has its type; in particular size never gets below zero,  *)
(* because it is at least the number of entries.                           *)
THEOREM TypeCorrect == Spec => []TypeOK
<1>1. Protocol /\ EntriesAreKept /\ FreePlacesAreEmpty => TypeOK
  <2> SUFFICES ASSUME Protocol, EntriesAreKept, FreePlacesAreEmpty PROVE TypeOK
    OBVIOUS
  <2>1. ref \in Live
    BY DEF Protocol, ChainIsWhole, Findable
  <2>2. gen \in [Gens -> Dicts]
    BY DEF Protocol, Typed
  <2>3. ASSUME NEW g \in Gens PROVE gen[g].size \in Nat
    <3>1. CASE g \in Live
      <4>1. Cardinality(Strings(gen[g])) \in Nat /\ gen[g].size \in Int
        BY <2>2, StringsAreFinite DEF Dicts
      <4> QED
        BY <3>1, <4>1 DEF EntriesAreKept, TablesAreGood
    <3> QED
      BY <3>1 DEF FreePlacesAreEmpty
  <2>4. gen \in [Gens -> Generation]
    <3>1. ASSUME NEW d \in Dicts, d.size \in Nat PROVE d \in Generation
      <4>1. d.alloc_size \in Nat
        BY TableIsInSlots
      <4> QED
        BY <3>1, <4>1 DEF Dicts, KeySlots, Generation
    <3> QED
      BY <2>2, <2>3, <3>1
  <2> QED
    BY <2>1, <2>4 DEF TypeOK, Protocol, Typed
<1>2. Spec => []FreePlacesAreEmpty
  <2>1. Protocol /\ FreePlacesAreEmpty /\ [Next]_vars => FreePlacesAreEmpty'
    BY NextFree
  <2> QED
    BY <2>1, InitFree, Invariance, PTL DEF Spec
<1> QED
  BY <1>1, <1>2, Invariance, EntriesInvariance, PTL

-----------------------------------------------------------------------------
(* Lookups without a lock.                                                 *)

(* A lookup of k has n slots of d behind it and is at control point p.     *)
(* What k has in the table may be returned, and S is what may be returned; *)
(* unless that includes Absent, k is still ahead.  The slot probed has had *)
(* its string compared after its type: the entry is there, or it is being  *)
(* published, like those in the slots P.                                   *)
Probing(d, k, n, S, p, P) ==
  LET i == Slot(d, k, n) IN
  /\ \A j \in Table(d) : Occupied(d, j, k) => d.value[j] \in S
  /\ Absent \notin S => \E m \in n .. d.alloc_size - 1 : Occupied(d, Slot(d, k, m), k)
  /\ p # "probe" /\ d.key[i].str = k => d.key[i].type = "STRING" \/ i \in P
  /\ p = "read_value" => d.key[i].str = k

BeingPublished(g) == {at[u] : u \in {u \in Threads : pc[u] = "publish_key" /\ dict[u] = g}}

(* A read that its key's erasure does not race with: nothing that happens  *)
(* to the key escapes seen.                                                *)
ReadIsCurrent(t) ==
  op[t].kind = "read" /\ ~raced[t] =>
    /\ ~BeingErased(op[t].key)
    /\ entries[op[t].key] \in seen[t] /\ InProgress(op[t].key) \subseteq seen[t]
    /\ pc[t] \in ProbePcs =>
         Probing(gen[dict[t]], op[t].key, at[t], seen[t], pc[t], BeingPublished(dict[t]))
    /\ pc[t] = "done" => result[t] \in seen[t]

ResultIsKept(t) == pc[t] # "done" => result[t] = Absent

ReadsAreCurrent == \A t \in Threads : ReadIsCurrent(t) /\ ResultIsKept(t)

LEMMA ProbesAreInTable ==
  ASSUME NEW d \in Dicts, d.alloc_size > 0, NEW k \in Keys, NEW n \in Probes(d)
  PROVE  /\ Slot(d, k, n) \in Table(d) /\ Table(d) \subseteq Slots
         /\ n \in Nat /\ d.alloc_size \in Nat /\ n < d.alloc_size
         /\ \A m \in n .. d.alloc_size - 1 : m \in Probes(d)
<1>1. d.alloc_size \in Nat \ {0} /\ Table(d) \subseteq Slots
  BY TableIsInSlots
<1>2. Hash[k] \in Nat /\ n \in Nat
  BY DictAssumption DEF Probes
<1>3. (Hash[k] + n) % d.alloc_size \in 0 .. d.alloc_size - 1
  BY <1>1, <1>2
<1> QED
  BY <1>1, <1>2, <1>3 DEF Slot, Table, Probes

(* The table, or what may be returned, changes.                            *)
LEMMA ProbingStays ==
  ASSUME NEW d \in Dicts, d.alloc_size > 0, NEW k \in Keys, NEW n \in Probes(d),
         NEW S, NEW p, NEW P, Probing(d, k, n, S, p, P),
         NEW r, NEW R, NEW Q, S \subseteq R, r.alloc_size = d.alloc_size,
         \A j \in Table(d) : Occupied(d, j, k) => Occupied(r, j, k),
         \A j \in Table(d) : Occupied(r, j, k) => r.value[j] \in R,
         NEW i, i = Slot(d, k, n),
         p # "probe" /\ r.key[i].str = k => r.key[i].type = "STRING" \/ i \in Q,
         p = "read_value" => r.key[i].str = k
  PROVE  Probing(r, k, n, R, p, Q)
<1>1. Table(r) = Table(d) /\ \A m : Slot(r, k, m) = Slot(d, k, m)
  BY DEF Table, Slot
<1>2. Absent \notin R => \E m \in n .. d.alloc_size - 1 : Occupied(r, Slot(d, k, m), k)
  <2> SUFFICES ASSUME Absent \notin R
               PROVE  \E m \in n .. d.alloc_size - 1 : Occupied(r, Slot(d, k, m), k)
    OBVIOUS
  <2>1. PICK m \in n .. d.alloc_size - 1 : Occupied(d, Slot(d, k, m), k)
    BY DEF Probing
  <2>2. Slot(d, k, m) \in Table(d)
    BY <2>1, ProbesAreInTable
  <2> QED
    BY <2>1, <2>2
<1> QED
  BY <1>1, <1>2 DEF Probing

(* An empty slot ends the lookup: its key is not further ahead.            *)
LEMMA ProbingEnds ==
  ASSUME NEW d \in Dicts, d.alloc_size > 0, TableIsGood(d), NEW k \in Keys, NEW n \in Probes(d),
         NEW S, NEW p, NEW P, Probing(d, k, n, S, p, P), d.key[Slot(d, k, n)].type = "EMPTY"
  PROVE  Absent \in S
<1> SUFFICES ASSUME Absent \notin S PROVE FALSE
  OBVIOUS
<1>1. PICK m \in n .. d.alloc_size - 1 : Occupied(d, Slot(d, k, m), k)
  BY DEF Probing
<1>2. m \in Probes(d) /\ Slot(d, k, m) \in Table(d) /\ n \in Nat /\ d.alloc_size \in Nat
  BY <1>1, ProbesAreInTable
<1>3. PICK l \in Probes(d) :
        /\ Slot(d, k, m) = Slot(d, k, l)
        /\ \A j \in 0 .. l - 1 : d.key[Slot(d, k, j)].type # "EMPTY"
  <2>1. PICK i \in Table(d) : i = Slot(d, k, m) /\ d.key[i].type = "STRING" /\ d.key[i].str = k
    BY <1>1, <1>2 DEF Occupied
  <2>2. \E l \in Probes(d) :
          /\ i = Slot(d, k, l)
          /\ \A j \in 0 .. l - 1 : d.key[Slot(d, k, j)].type # "EMPTY"
    BY <2>1 DEF TableIsGood
  <2> QED
    BY <2>1, <2>2
<1>4. l = m
  BY <1>2, <1>3, SlotsDiffer
<1>5. n # m
  BY <1>1 DEF Occupied
<1>6. n \in 0 .. m - 1
  BY <1>1, <1>2, <1>5
<1> QED
  BY <1>3, <1>4, <1>6

(* The next slot, or the end of the table.                                 *)
LEMMA ProbingAdvances ==
  ASSUME NEW d \in Dicts, d.alloc_size > 0, NEW k \in Keys, NEW n \in Probes(d),
         NEW S, NEW p, NEW P, Probing(d, k, n, S, p, P), ~Occupied(d, Slot(d, k, n), k)
  PROVE  /\ n + 1 < d.alloc_size => Probing(d, k, n + 1, S, "probe", P)
         /\ ~(n + 1 < d.alloc_size) => Absent \in S
<1>1. n \in Nat /\ d.alloc_size \in Nat /\ n < d.alloc_size
  BY ProbesAreInTable
<1>2. ASSUME Absent \notin S
      PROVE  \E m \in n + 1 .. d.alloc_size - 1 : Occupied(d, Slot(d, k, m), k)
  <2>1. PICK m \in n .. d.alloc_size - 1 : Occupied(d, Slot(d, k, m), k)
    BY <1>2 DEF Probing
  <2>2. m # n
    BY <2>1
  <2>3. m \in n + 1 .. d.alloc_size - 1
    BY <1>1, <2>1, <2>2
  <2> QED
    BY <2>1, <2>3
<1>3. Probing(d, k, n + 1, S, "probe", P)
  BY <1>2 DEF Probing
<1>4. ~(n + 1 < d.alloc_size) => n + 1 .. d.alloc_size - 1 = {}
  BY <1>1
<1> QED
  BY <1>2, <1>3, <1>4

LEMMA ProbingBegins ==
  ASSUME NEW d \in Dicts, d.alloc_size > 0, TableIsGood(d), NEW k \in Keys,
         NEW S, Binding(d, k) \in S, NEW P
  PROVE  Probing(d, k, 0, S, "probe", P)
<1>1. \A j \in Table(d) : Occupied(d, j, k) => d.value[j] \in S
  BY LookupIsRight
<1>2. ASSUME Absent \notin S
      PROVE  \E m \in 0 .. d.alloc_size - 1 : Occupied(d, Slot(d, k, m), k)
  <2>1. Found(d, k)
    BY <1>2 DEF Binding
  <2>2. Stops(d, k) \in SUBSET Nat /\ Stops(d, k) # {}
    BY <2>1 DEF Found, Stops, Probes
  <2>3. First(Stops(d, k)) \in Stops(d, k)
    BY <2>2, FirstExists
  <2> QED
    BY <2>1, <2>3 DEF Found, Stops, Probes
<1> QED
  BY <1>1, <1>2 DEF Probing

LEMMA ReaderFacts ==
  ASSUME Protocol, EntriesAreKept, NEW t \in Threads
  PROVE  /\ op[t].kind = "read" => /\ op[t].key \in Keys
                                   /\ pc[t] \in {"retry", "promote", "done"} \cup ProbePcs
         /\ pc[t] \in ProbePcs =>
              /\ op[t].kind = "read" /\ dict[t] \in Live /\ dict[t] \in Gens
              /\ gen[dict[t]] \in Dicts /\ gen[dict[t]].alloc_size > 0
              /\ TableIsGood(gen[dict[t]]) /\ at[t] \in Probes(gen[dict[t]])
<1>1. OperationIsKept(t) /\ pc[t] \in Pcs /\ at[t] \in 0 .. MaxSize
  BY ThreadFacts DEF Protocol, Typed
<1>2. op[t].kind = "read" => pc[t] \in {"retry", "promote", "done"} \cup ProbePcs
  BY <1>1 DEF OperationIsKept, KindsAt, Pcs, OutPcs, AccessPcs, ReadPcs, StorePcs, LockedPcs,
              ProbePcs, FreezePcs, GrowPcs, SearchPcs
<1>3. op[t].kind = "read" => op[t].key \in Keys
  BY <1>1 DEF OperationIsKept
<1>4. ASSUME pc[t] \in ProbePcs
      PROVE  /\ op[t].kind = "read" /\ dict[t] \in Live /\ dict[t] \in Gens
             /\ gen[dict[t]] \in Dicts /\ gen[dict[t]].alloc_size > 0
             /\ TableIsGood(gen[dict[t]]) /\ at[t] \in Probes(gen[dict[t]])
  <2>1. op[t].kind = "read"
    BY <1>1, <1>4 DEF OperationIsKept, KindsAt, ProbePcs, FreezePcs, GrowPcs, SearchPcs
  <2>2. dict[t] \in Live /\ dict[t] \in Gens /\ gen[dict[t]] \in Dicts
    BY <1>4, ThreadFacts DEF ProbePcs, AccessPcs, ReadPcs
  <2>3. gen[dict[t]].alloc_size > 0 /\ TableIsGood(gen[dict[t]])
    BY <2>2 DEF Live, EntriesAreKept, TablesAreGood
  <2>4. gen[dict[t]].alloc_size \in Nat /\ at[t] \in Nat /\ at[t] < gen[dict[t]].alloc_size
    BY <1>1, <1>4, <2>2, TableIsInSlots DEF OperationIsKept
  <2>5. at[t] \in Probes(gen[dict[t]])
    BY <2>4 DEF Probes
  <2> QED
    BY <2>1, <2>2, <2>3, <2>5
<1> QED
  BY <1>2, <1>3, <1>4

(* Where a writer has made something of its entry visible.                 *)
HalfPcs == {"store_key", "publish_key", "erase_key"}

LEMMA NothingStored ==
  ASSUME NEW t \in Threads, OthersStay(t), pc'[t] \notin HalfPcs
  PROVE  /\ \A k : (BeingErased(k)' => BeingErased(k)) /\ InProgress(k)' \subseteq InProgress(k)
         /\ pc[t] # "publish_key" => \A g : BeingPublished(g) \subseteq BeingPublished(g)'
<1>1. \A u \in Threads : pc'[u] \in HalfPcs => pc'[u] = pc[u] /\ op'[u] = op[u]
  BY DEF OthersStay
<1>2. ASSUME NEW k PROVE (BeingErased(k)' => BeingErased(k)) /\ InProgress(k)' \subseteq InProgress(k)
  BY <1>1 DEF BeingErased, InProgress, HalfPcs
<1>3. ASSUME pc[t] # "publish_key", NEW g, NEW u \in Threads, pc[u] = "publish_key", dict[u] = g
      PROVE  pc'[u] = "publish_key" /\ dict'[u] = g /\ at'[u] = at[u]
  BY <1>3 DEF OthersStay
<1>4. pc[t] # "publish_key" => \A g : BeingPublished(g) \subseteq BeingPublished(g)'
  BY <1>3 DEF BeingPublished
<1> QED
  BY <1>2, <1>4

OthersRead(t) ==
  \A v \in Threads \ {t} : result'[v] = result[v] /\ seen'[v] = seen[v] /\ raced'[v] = raced[v]

(* A lookup is not disturbed by steps that store nothing in its table.     *)
LEMMA ReadersStay ==
  ASSUME Protocol, EntriesAreKept, ReadsAreCurrent, NEW t \in Threads, OthersStay(t),
         UNCHANGED entries, OthersRead(t), pc'[t] \notin HalfPcs, pc[t] # "publish_key",
         \A v \in Threads \ {t} : pc[v] \in ProbePcs =>
           /\ gen'[dict[v]].alloc_size = gen[dict[v]].alloc_size
           /\ gen'[dict[v]].key = gen[dict[v]].key /\ gen'[dict[v]].value = gen[dict[v]].value
  PROVE  \A v \in Threads \ {t} : ReadIsCurrent(v)' /\ ResultIsKept(v)'
<1> SUFFICES ASSUME NEW v \in Threads \ {t} PROVE ReadIsCurrent(v)' /\ ResultIsKept(v)'
  OBVIOUS
<1>1. /\ pc'[v] = pc[v] /\ op'[v] = op[v] /\ dict'[v] = dict[v] /\ at'[v] = at[v]
      /\ result'[v] = result[v] /\ seen'[v] = seen[v] /\ raced'[v] = raced[v]
      /\ ReadIsCurrent(v) /\ ResultIsKept(v)
  BY DEF OthersStay, OthersRead, ReadsAreCurrent
<1>2. ResultIsKept(v)'
  BY <1>1 DEF ResultIsKept
<1>3. PICK g : g = dict[v]
  OBVIOUS
<1>4. ASSUME op[v].kind = "read", ~raced[v], pc[v] \in ProbePcs
      PROVE  Probing(gen'[g], op[v].key, at[v], seen[v], pc[v], BeingPublished(g)')
  <2>1. PICK d, k, n, i : /\ d = gen[g] /\ k = op[v].key /\ n = at[v] /\ i = Slot(d, k, n)
                          /\ d \in Dicts /\ d.alloc_size > 0 /\ k \in Keys /\ n \in Probes(d)
                          /\ Probing(d, k, n, seen[v], pc[v], BeingPublished(g))
    BY <1>1, <1>3, <1>4, ReaderFacts DEF ReadIsCurrent
  <2>2. BeingPublished(g) \subseteq BeingPublished(g)'
    BY NothingStored
  <2>3. PICK r : /\ r = gen'[g] /\ r.alloc_size = d.alloc_size /\ r.key = d.key
                 /\ r.value = d.value
    BY <1>3, <1>4, <2>1
  <2>4. /\ \A j : Occupied(r, j, k) <=> Occupied(d, j, k)
        /\ Table(r) = Table(d) /\ \A m : Slot(r, k, m) = Slot(d, k, m)
    BY <2>3 DEF Occupied, Table, Slot
  <2>5. Probing(r, k, n, seen[v], pc[v], BeingPublished(g)')
    BY <2>1, <2>2, <2>3, <2>4 DEF Probing
  <2> QED
    BY <2>1, <2>3, <2>5
<1>5. \A k : (BeingErased(k)' => BeingErased(k)) /\ InProgress(k)' \subseteq InProgress(k)
  BY NothingStored
<1>6. g = dict'[v] /\ BeingPublished(dict[v])' = BeingPublished(g)'
  BY <1>1, <1>3 DEF BeingPublished
<1>7. ReadIsCurrent(v)'
  BY <1>1, <1>4, <1>5, <1>6 DEF ReadIsCurrent
<1> QED
  BY <1>2, <1>7

(* The steps of a lookup.                                                  *)
LEMMA ReaderMoves ==
  ASSUME NEW t \in Threads, ReadIsCurrent(t), OthersStay(t),
         UNCHANGED <<entries, seen, raced>>, op'[t] = op[t],
         pc'[t] \notin HalfPcs, pc[t] # "publish_key", NEW g, g = dict'[t],
         op[t].kind = "read" /\ ~raced[t] =>
           /\ pc'[t] \in ProbePcs =>
                Probing(gen'[g], op[t].key, at'[t], seen[t], pc'[t], BeingPublished(g))
           /\ pc'[t] = "done" => result'[t] \in seen[t]
  PROVE  ReadIsCurrent(t)'
<1>1. /\ \A k : (BeingErased(k)' => BeingErased(k)) /\ InProgress(k)' \subseteq InProgress(k)
      /\ BeingPublished(g) \subseteq BeingPublished(g)'
  BY NothingStored
<1>2. ASSUME op[t].kind = "read", ~raced[t], pc'[t] \in ProbePcs
      PROVE  Probing(gen'[g], op[t].key, at'[t], seen[t], pc'[t], BeingPublished(g)')
  <2>1. Probing(gen'[g], op[t].key, at'[t], seen[t], pc'[t], BeingPublished(g))
    BY <1>2
  <2> QED
    BY <1>1, <2>1 DEF Probing
<1>3. BeingPublished(dict[t])' = BeingPublished(g)'
  BY DEF BeingPublished
<1> QED
  BY <1>1, <1>2, <1>3 DEF ReadIsCurrent

LEMMA StartReadIsCurrent ==
  ASSUME Protocol, NEW t \in Threads, StartRead(t), ResultIsKept(t)
  PROVE  ReadIsCurrent(t)' /\ ResultIsKept(t)'
<1>1. PICK k \in Keys :
        /\ op' = [op EXCEPT ![t] = [kind |-> "read", key |-> k, value |-> Cleared]]
        /\ seen' = [seen EXCEPT ![t] = {entries[k]} \cup InProgress(k)]
        /\ raced' = [raced EXCEPT ![t] = BeingErased(k)]
  BY DEF StartRead
<1>2. /\ op'[t].kind = "read" /\ op'[t].key = k
      /\ seen'[t] = {entries[k]} \cup InProgress(k) /\ (raced'[t] <=> BeingErased(k))
  BY <1>1 DEF Protocol, Typed
<1>3. /\ pc[t] = "idle" /\ pc'[t] = "retry" /\ result' = result /\ entries' = entries
  BY DEF StartRead, Goto, Protocol, Typed
<1>4. OthersStay(t)
  BY LocalSteps DEF QuietStep
<1>5. (BeingErased(k)' => BeingErased(k)) /\ InProgress(k)' \subseteq InProgress(k)
  BY <1>3, <1>4, NothingStored DEF HalfPcs
<1>6. ReadIsCurrent(t)'
  BY <1>2, <1>3, <1>5 DEF ReadIsCurrent, ProbePcs
<1> QED
  BY <1>3, <1>6 DEF ResultIsKept

LEMMA BeginReadIsCurrent ==
  ASSUME Protocol, EntriesAreKept, NEW t \in Threads, BeginAccess(t), ReadIsCurrent(t)
  PROVE  ReadIsCurrent(t)'
<1>1. /\ pc[t] = "retry" /\ dict' = [dict EXCEPT ![t] = Newest]
      /\ UNCHANGED <<gen, op, at, entries, seen, raced>>
      /\ op[t].kind = "read" => pc'[t] = "probe"
  BY DEF BeginAccess, Goto, ghosts, Protocol, Typed
<1>2. dict'[t] = Newest /\ at[t] = 0 /\ gen[Newest] \in Dicts /\ Newest \in Live
  BY <1>1, ThreadFacts DEF OperationIsKept, Protocol, Typed
<1>3. OthersStay(t) /\ pc'[t] \notin StorePcs
  BY LocalSteps DEF QuietStep
<1>4. ASSUME op[t].kind = "read", ~raced[t]
      PROVE  Probing(gen[Newest], op[t].key, 0, seen[t], "probe", BeingPublished(Newest))
  <2>1. op[t].key \in Keys /\ gen[Newest].alloc_size > 0 /\ TableIsGood(gen[Newest])
    BY <1>2, <1>4, ReaderFacts DEF Live, EntriesAreKept, TablesAreGood
  <2>2. Binding(gen[Newest], op[t].key) = entries[op[t].key]
    BY <1>4, <2>1 DEF ReadIsCurrent, EntriesAreKept, NoEntryLost
  <2>3. Binding(gen[Newest], op[t].key) \in seen[t]
    BY <1>4, <2>2 DEF ReadIsCurrent
  <2> QED
    BY <1>2, <2>1, <2>3, ProbingBegins
<1>5. pc'[t] \notin HalfPcs /\ pc[t] # "publish_key"
  BY <1>1, <1>3 DEF StorePcs, HalfPcs
<1>6. PICK g : g = Newest
  OBVIOUS
<1>7. ASSUME op[t].kind = "read", ~raced[t]
      PROVE  /\ pc'[t] \in ProbePcs =>
                  Probing(gen'[g], op[t].key, at'[t], seen[t], pc'[t], BeingPublished(g))
             /\ pc'[t] = "done" => result'[t] \in seen[t]
  BY <1>1, <1>2, <1>4, <1>6, <1>7
<1> QED
  BY <1>1, <1>2, <1>3, <1>5, <1>6, <1>7, ReaderMoves

(* Where a step of a lookup leads to.                                      *)
LEMMA LookupStep ==
  ASSUME Protocol, EntriesAreKept, NEW t \in Threads, ReadIsCurrent(t), ResultIsKept(t),
         pc[t] \in ProbePcs, LoadKeyType(t) \/ LoadKeyStr(t) \/ ReadValue(t),
         NEW d, d = gen[dict[t]], NEW n, n = at[t], NEW i, i = Slot(d, op[t].key, n)
  PROVE  /\ ~raced[t] =>
              /\ pc'[t] \in ProbePcs =>
                   Probing(d, op[t].key, at'[t], seen[t], pc'[t], BeingPublished(dict[t]))
              /\ pc'[t] = "done" => result'[t] \in seen[t]
         /\ ResultIsKept(t)'
<1>1. /\ op[t].kind = "read" /\ op[t].key \in Keys /\ dict[t] \in Live /\ d \in Dicts
      /\ d.alloc_size > 0 /\ TableIsGood(d) /\ n \in Probes(d)
  BY ReaderFacts
<1>2. i \in Table(d) /\ i \in Slots /\ d.key \in KeySlots
  BY <1>1, ProbesAreInTable DEF Dicts
<1>3. PICK k, S, P : k = op[t].key /\ S = seen[t] /\ P = BeingPublished(dict[t])
  OBVIOUS
<1>4. ~raced[t] => Probing(d, k, n, S, pc[t], P)
  BY <1>1, <1>3 DEF ReadIsCurrent
<1>5. pc \in [Threads -> Pcs] /\ at \in [Threads -> 0 .. MaxSize]
      /\ result \in [Threads -> Values \cup {Absent, ControlBlock}]
  BY DEF Protocol, Typed
<1>6. result[t] = Absent
  BY DEF ResultIsKept, ProbePcs
<1>7. ASSUME NextProbe(t), result' = result, ~Occupied(d, i, k)
      PROVE  /\ ~raced[t] => /\ pc'[t] \in ProbePcs => Probing(d, k, at'[t], S, pc'[t], P)
                             /\ pc'[t] = "done" => result'[t] \in S
             /\ ResultIsKept(t)'
  <2>1. at'[t] = n + 1 /\ pc'[t] = IF n + 1 < d.alloc_size THEN "probe" ELSE "done"
    BY <1>5, <1>7 DEF NextProbe
  <2>2. ~raced[t] => /\ n + 1 < d.alloc_size => Probing(d, k, n + 1, S, "probe", P)
                     /\ ~(n + 1 < d.alloc_size) => Absent \in S
    BY <1>1, <1>3, <1>4, <1>7, ProbingAdvances
  <2> QED
    BY <1>6, <1>7, <2>1, <2>2 DEF ResultIsKept, ProbePcs
<1>8. CASE LoadKeyType(t)
  <2>1. result' = result /\ pc[t] = "probe" /\ ProbedKey(t) = d.key[i]
    BY <1>8 DEF LoadKeyType, ProbedKey
  <2>2. CASE d.key[i].type = "TOMBSTONE"
    <3>1. NextProbe(t) /\ ~Occupied(d, i, k)
      BY <1>8, <2>1, <2>2 DEF LoadKeyType, Occupied
    <3> QED
      BY <1>3, <1>7, <2>1, <3>1
  <2>3. CASE d.key[i].type = "STRING"
    <3>1. pc'[t] = "probe_str" /\ at'[t] = n
      BY <1>5, <1>8, <2>1, <2>3 DEF LoadKeyType, Goto
    <3>2. ~raced[t] => Probing(d, k, n, S, "probe_str", P)
      BY <1>3, <1>4, <2>1, <2>3 DEF Probing
    <3> QED
      BY <1>3, <1>6, <2>1, <3>1, <3>2 DEF ResultIsKept
  <2>4. CASE d.key[i].type = "EMPTY"
    <3>1. pc'[t] = "done" /\ result'[t] = Absent
      BY <1>5, <1>6, <1>8, <2>1, <2>4 DEF LoadKeyType, Goto
    <3>2. ~raced[t] => Absent \in S
      BY <1>1, <1>3, <1>4, <2>4, ProbingEnds
    <3> QED
      BY <1>3, <3>1, <3>2 DEF ResultIsKept, ProbePcs
  <2> QED
    BY <1>2, <2>2, <2>3, <2>4 DEF KeySlots
<1>9. CASE LoadKeyStr(t)
  <2>1. result' = result /\ pc[t] = "probe_str" /\ ProbedKey(t) = d.key[i]
    BY <1>9 DEF LoadKeyStr, ProbedKey
  <2>2. CASE d.key[i].str = k
    <3>1. pc'[t] = "read_value" /\ at'[t] = n
      BY <1>3, <1>5, <1>9, <2>1, <2>2 DEF LoadKeyStr, Goto
    <3>2. ~raced[t] => Probing(d, k, n, S, "read_value", P)
      BY <1>3, <1>4, <2>1, <2>2 DEF Probing
    <3> QED
      BY <1>3, <1>6, <2>1, <3>1, <3>2 DEF ResultIsKept
  <2>3. CASE d.key[i].str # k
    <3>1. NextProbe(t) /\ ~Occupied(d, i, k)
      BY <1>3, <1>9, <2>1, <2>3 DEF LoadKeyStr, Occupied
    <3> QED
      BY <1>3, <1>7, <2>1, <3>1
  <2> QED
    BY <2>2, <2>3
<1>10. CASE ReadValue(t)
  <2>1. pc[t] = "read_value" /\ pc'[t] = "done" /\ result'[t] = d.value[i]
    BY <1>5, <1>10 DEF ReadValue, Goto
  <2>2. ASSUME ~raced[t] PROVE d.value[i] \in S
    <3>1. d.key[i].str = k /\ (d.key[i].type = "STRING" \/ i \in P)
      BY <1>3, <1>4, <2>1, <2>2 DEF Probing
    <3>2. CASE d.key[i].type = "STRING"
      BY <1>2, <1>4, <2>2, <3>1, <3>2 DEF Probing, Occupied
    <3>3. CASE i \in P
      <4>1. PICK u \in Threads : pc[u] = "publish_key" /\ dict[u] = dict[t] /\ at[u] = i
        BY <1>3, <3>3 DEF BeingPublished
      <4>2. d.value[i] = op[u].value /\ d.key[i].str = op[u].key
        BY <4>1 DEF EntriesAreKept, StoreIsAimed
      <4>3. op[u].value \in InProgress(k)
        BY <3>1, <4>1, <4>2 DEF InProgress
      <4> QED
        BY <1>1, <1>3, <2>2, <4>2, <4>3 DEF ReadIsCurrent
    <3> QED
      BY <3>1, <3>2, <3>3
  <2> QED
    BY <1>3, <2>1, <2>2 DEF ResultIsKept, ProbePcs
<1> QED
  BY <1>8, <1>9, <1>10

LEMMA LookupIsCurrent ==
  ASSUME Protocol, EntriesAreKept, NEW t \in Threads, ReadIsCurrent(t), ResultIsKept(t),
         LoadKeyType(t) \/ LoadKeyStr(t) \/ ReadValue(t)
  PROVE  ReadIsCurrent(t)' /\ ResultIsKept(t)'
<1>1. pc[t] \in ProbePcs /\ UNCHANGED <<gen, op, dict, entries, seen, raced>>
  BY DEF LoadKeyType, LoadKeyStr, ReadValue, Goto, ProbePcs, ghosts
<1>2. OthersStay(t) /\ pc'[t] \notin StorePcs
  BY LocalSteps DEF QuietStep
<1>3. pc'[t] \notin HalfPcs /\ pc[t] # "publish_key"
  BY <1>1, <1>2 DEF StorePcs, HalfPcs, ProbePcs
<1>4. PICK g : g = dict[t]
  OBVIOUS
<1>5. /\ ~raced[t] =>
           /\ pc'[t] \in ProbePcs =>
                Probing(gen[g], op[t].key, at'[t], seen[t], pc'[t], BeingPublished(g))
           /\ pc'[t] = "done" => result'[t] \in seen[t]
      /\ ResultIsKept(t)'
  BY <1>1, <1>4, LookupStep
<1> QED
  BY <1>1, <1>2, <1>3, <1>4, <1>5, ReaderMoves

LEMMA FinishReadIsCurrent ==
  ASSUME Protocol, NEW t \in Threads, FinishRead(t)
  PROVE  ReadIsCurrent(t)' /\ ResultIsKept(t)' /\ OthersRead(t)
<1>1. op' = [op EXCEPT ![t] = NoOp] /\ op'[t].kind = "none"
  BY DEF FinishRead, Return, NoOp, Protocol, Typed
<1>2. result' = [result EXCEPT ![t] = Absent] /\ result'[t] = Absent
  BY DEF FinishRead, Protocol, Typed
<1>3. OthersRead(t)
  BY DEF FinishRead, OthersRead, Protocol, Typed
<1> QED
  BY <1>1, <1>2, <1>3 DEF ReadIsCurrent, ResultIsKept

(* Whoever is not reading does not start to, except by StartRead.          *)
LEMMA OthersDoNotRead ==
  ASSUME Protocol, EntriesAreKept, NEW t \in Threads, ResultIsKept(t),
         \/ StartWrite(t) \/ StartErase(t) \/ StartHandleUse(t) \/ ReadNative(t) \/ StartFreeze(t)
         \/ TryLock(t) \/ BackOff(t) \/ UnlockRetry(t) \/ UnlockDone(t) \/ CheckNewer(t)
         \/ SearchToWrite(t) \/ SearchToErase(t)
         \/ UnlockExpand(t) \/ ExpandTryLock(t) \/ ExpandCheckNewer(t)
         \/ AllocAndCopy(t) \/ AllocFails(t) \/ Publish(t) \/ UnlockOld(t)
         \/ FreezeTryLock(t) \/ FreezeBackOff(t) \/ FreezeCheckNewer(t)
         \/ FreezeUnlock(t) \/ FreezeStore(t)
  PROVE  ReadIsCurrent(t)' /\ ResultIsKept(t)' /\ OthersRead(t) /\ UNCHANGED entries
<1>1. /\ op \in [Threads -> Operation] /\ op[t] \in Operation
      /\ result \in [Threads -> Values \cup {Absent, ControlBlock}]
  BY DEF Protocol, Typed
<1>2. pc[t] \notin {"retry", "promote", "done"} \cup ProbePcs => op[t].kind # "read"
  BY ReaderFacts
<1>3. CASE StartWrite(t) \/ StartErase(t)
  <2>1. /\ op'[t].kind \in {"write", "erase"} /\ pc[t] = "idle"
        /\ UNCHANGED <<result, entries, seen, raced>>
    BY <1>1, <1>3 DEF StartWrite, StartErase, StartUpdate, Goto, ghosts
  <2> QED
    BY <2>1 DEF ReadIsCurrent, ResultIsKept, OthersRead
<1>4. CASE StartHandleUse(t) \/ StartFreeze(t)
  <2>1. op'[t].kind \in {"native", "freeze"}
    BY <1>1, <1>4 DEF StartHandleUse, StartFreeze, Operation
  <2>2. pc[t] = "idle" /\ UNCHANGED <<result, entries, seen, raced>>
    BY <1>4 DEF StartHandleUse, StartFreeze, Goto, ghosts
  <2> QED
    BY <2>1, <2>2 DEF ReadIsCurrent, ResultIsKept, OthersRead
<1>5. CASE ReadNative(t)
  <2>1. op'[t].kind # "read" /\ pc'[t] = "done" /\ UNCHANGED <<entries, seen, raced>>
    BY <1>2, <1>5 DEF ReadNative, Goto, ghosts, ProbePcs, Protocol, Typed
  <2>2. \A v \in Threads \ {t} : result'[v] = result[v]
    BY <1>1, <1>5 DEF ReadNative
  <2> QED
    BY <2>1, <2>2 DEF ReadIsCurrent, ResultIsKept, OthersRead
<1>6. ASSUME pc[t] \in Pcs \ ({"retry", "promote", "done"} \cup ProbePcs),
             op' = op \/ op' = [op EXCEPT ![t] = NoOp], UNCHANGED <<result, entries, seen, raced>>
      PROVE  ReadIsCurrent(t)' /\ ResultIsKept(t)' /\ OthersRead(t)
  <2>1. op'[t].kind # "read"
    BY <1>1, <1>2, <1>6 DEF NoOp
  <2> QED
    BY <1>6, <2>1 DEF ReadIsCurrent, ResultIsKept, OthersRead
<1>7. pc[t] \in Pcs
  BY DEF Protocol, Typed
<1>8. CASE TryLock(t) \/ ExpandTryLock(t) \/ FreezeTryLock(t)
  <2>1. /\ pc[t] \notin {"retry", "promote", "done"} \cup ProbePcs
        /\ UNCHANGED <<op, result, entries, seen, raced>>
    BY <1>8 DEF TryLock, ExpandTryLock, FreezeTryLock, TryLockFor, Goto, ghosts, ProbePcs
  <2> QED
    BY <1>6, <1>7, <2>1
<1>9. CASE BackOff(t) \/ UnlockRetry(t) \/ UnlockExpand(t) \/ FreezeBackOff(t) \/ FreezeUnlock(t)
           \/ UnlockOld(t)
  <2>1. /\ pc[t] \notin {"retry", "promote", "done"} \cup ProbePcs
        /\ UNCHANGED <<op, result, entries, seen, raced>>
    BY <1>9 DEF BackOff, UnlockRetry, UnlockExpand, FreezeBackOff, FreezeUnlock, UnlockOld, Unlock,
                Goto, ghosts, ProbePcs
  <2> QED
    BY <1>6, <1>7, <2>1
<1>10. CASE CheckNewer(t) \/ ExpandCheckNewer(t) \/ FreezeCheckNewer(t) \/ AllocFails(t)
            \/ AllocAndCopy(t) \/ Publish(t) \/ SearchToWrite(t)
  <2>1. /\ pc[t] \notin {"retry", "promote", "done"} \cup ProbePcs
        /\ UNCHANGED <<op, result, entries, seen, raced>>
    BY <1>10 DEF CheckNewer, ExpandCheckNewer, FreezeCheckNewer, AllocFails, AllocAndCopy, Publish,
                 SearchToWrite, Goto, ghosts, ProbePcs
  <2> QED
    BY <1>6, <1>7, <2>1
<1>11. CASE UnlockDone(t)
  <2>1. /\ pc[t] \notin {"retry", "promote", "done"} \cup ProbePcs
        /\ op' = [op EXCEPT ![t] = NoOp] /\ UNCHANGED <<result, entries, seen, raced>>
    BY <1>11 DEF UnlockDone, Unlock, Return, Goto, ghosts, ProbePcs
  <2> QED
    BY <1>6, <1>7, <2>1
<1>12. CASE SearchToErase(t) \/ FreezeStore(t)
  <2>1. /\ pc[t] \notin {"retry", "promote", "done"} \cup ProbePcs
        /\ op' = op \/ op' = [op EXCEPT ![t] = NoOp]
        /\ UNCHANGED <<result, entries, seen, raced>>
    BY <1>12 DEF SearchToErase, FreezeStore, Finish, Return, Goto, ghosts, ProbePcs
  <2> QED
    BY <1>6, <1>7, <2>1
<1> QED
  BY <1>3, <1>4, <1>5, <1>8, <1>9, <1>10, <1>11, <1>12
     DEF StartWrite, StartErase, StartUpdate, StartHandleUse, ReadNative, StartFreeze, TryLock,
         ExpandTryLock, FreezeTryLock, TryLockFor, BackOff, UnlockRetry, UnlockExpand, FreezeBackOff,
         FreezeUnlock, UnlockOld, UnlockDone, CheckNewer, ExpandCheckNewer, FreezeCheckNewer,
         AllocFails, AllocAndCopy, Publish, SearchToWrite, SearchToErase, FreezeStore, ghosts

(* What a store must do for the lookups of k that go on: what it makes     *)
(* visible of k may be returned, it takes nothing of k away, and leaves no *)
(* string of k in a slot that is not published and not being published.    *)
StoreIsSeen(t, d, r, k, R) ==
  /\ ~(pc'[t] = "erase_key" /\ op'[t].key = k)
  /\ entries'[k] \in R
  /\ pc'[t] \in {"store_key", "publish_key"} /\ op'[t].key = k => op'[t].value \in R
  /\ \A j \in Table(d) :
       /\ Occupied(d, j, k) => Occupied(r, j, k)
       /\ Occupied(r, j, k) => r.value[j] \in R \/ (Occupied(d, j, k) /\ r.value[j] = d.value[j])
       /\ d.key[j].str = k /\ (d.key[j].type = "STRING" \/ (pc[t] = "publish_key" /\ j = at[t])) =>
            r.key[j].str = k
       /\ r.key[j].str = k
            /\ (d.key[j].str = k => d.key[j].type = "STRING" \/ (pc[t] = "publish_key" /\ j = at[t])) =>
            r.key[j].type = "STRING" \/ (pc'[t] = "publish_key" /\ j = at'[t] /\ dict'[t] = dict[t])

SeenGrows(v) ==
  result'[v] = result[v] /\ seen[v] \subseteq seen'[v] /\ (raced[v] => raced'[v])

LEMMA StoresAreSeen ==
  ASSUME Protocol, EntriesAreKept, NEW t \in Threads, pc[t] \in StorePcs, OthersStay(t),
         NEW h, h = dict[t], NEW d, d = gen[h], NEW r, r = gen'[h], r.alloc_size = d.alloc_size,
         \A g \in Gens \ {h} : gen'[g] = gen[g],
         NEW v \in Threads \ {t}, ReadIsCurrent(v), SeenGrows(v),
         op[v].kind = "read" /\ ~raced'[v] => StoreIsSeen(t, d, r, op[v].key, seen'[v])
  PROVE  ReadIsCurrent(v)'
<1>1. /\ pc'[v] = pc[v] /\ op'[v] = op[v] /\ dict'[v] = dict[v] /\ at'[v] = at[v]
      /\ \A u \in Threads \ {t} : pc'[u] = pc[u] /\ op'[u] = op[u] /\ pc[u] \notin StorePcs
  BY StorerIsAlone DEF OthersStay
<1>2. SUFFICES ASSUME op[v].kind = "read", ~raced'[v], ~raced[v]
               PROVE  ReadIsCurrent(v)'
  BY <1>1 DEF ReadIsCurrent, SeenGrows
<1>3. PICK k, n, S, R, g : /\ k = op[v].key /\ n = at[v] /\ S = seen[v] /\ R = seen'[v]
                           /\ g = dict[v] /\ S \subseteq R /\ k \in Keys
                           /\ StoreIsSeen(t, d, r, k, R)
  BY <1>2, ReaderFacts DEF SeenGrows
<1>4. ~BeingErased(k)'
  BY <1>1, <1>3 DEF BeingErased, StoreIsSeen, StorePcs
<1>5. InProgress(k)' \subseteq R
  <2> SUFFICES ASSUME NEW u \in Threads, op'[u].key = k, pc'[u] \in {"store_key", "publish_key"}
               PROVE  op'[u].value \in R
    BY DEF InProgress
  <2>1. u = t
    BY <1>1 DEF StorePcs
  <2> QED
    BY <1>3, <2>1 DEF StoreIsSeen
<1>6. ASSUME pc[v] \in ProbePcs
      PROVE  Probing(gen'[g], k, n, R, pc[v], BeingPublished(g)')
  <2>1. PICK c, P, Q : c = gen[g] /\ P = BeingPublished(g) /\ Q = BeingPublished(g)'
    OBVIOUS
  <2>2. /\ c \in Dicts /\ c.alloc_size > 0 /\ n \in Probes(c) /\ g \in Gens
        /\ Probing(c, k, n, S, pc[v], P)
    BY <1>2, <1>3, <1>6, <2>1, ReaderFacts DEF ReadIsCurrent
  <2>3. PICK i \in Table(c) : i = Slot(c, k, n)
    BY <1>3, <2>2, ProbesAreInTable
  <2>4. P \subseteq {j \in {at[t]} : pc[t] = "publish_key" /\ h = g}
    BY <1>1, <2>1 DEF BeingPublished, StorePcs
  <2>5. pc'[t] = "publish_key" /\ dict'[t] = g => at'[t] \in Q
    BY <2>1 DEF BeingPublished
  <2>6. CASE g # h
    <3>1. P = {} /\ gen'[g] = c
      BY <2>1, <2>2, <2>4, <2>6
    <3> QED
      BY <1>3, <2>1, <2>2, <3>1 DEF Probing
  <2>7. CASE g = h
    <3>1. c = d /\ gen'[g] = r
      BY <2>1, <2>7
    <3>2. /\ \A j \in Table(c) : Occupied(c, j, k) => Occupied(r, j, k)
          /\ \A j \in Table(c) : Occupied(r, j, k) => r.value[j] \in R
      BY <1>3, <2>2, <3>1 DEF StoreIsSeen, Probing
    <3>3. pc[v] # "probe" /\ r.key[i].str = k => r.key[i].type = "STRING" \/ i \in Q
      BY <1>3, <2>2, <2>3, <2>4, <2>5, <2>7, <3>1 DEF StoreIsSeen, Probing
    <3>4. pc[v] = "read_value" => r.key[i].str = k
      BY <1>3, <2>2, <2>3, <2>4, <2>7, <3>1 DEF StoreIsSeen, Probing
    <3> QED
      BY <1>3, <2>1, <2>2, <2>3, <3>1, <3>2, <3>3, <3>4, ProbingStays
  <2> QED
    BY <2>6, <2>7
<1>7. g = dict'[v] /\ BeingPublished(dict[v])' = BeingPublished(g)'
  BY <1>1, <1>3 DEF BeingPublished
<1>8. pc[v] = "done" => result'[v] \in R
  BY <1>2, <1>3 DEF ReadIsCurrent, SeenGrows
<1>9. entries'[k] \in R
  BY <1>3 DEF StoreIsSeen
<1> QED
  BY <1>1, <1>3, <1>4, <1>5, <1>6, <1>7, <1>8, <1>9 DEF ReadIsCurrent

(* A storer writes or erases, and ends its operation or goes on with it.   *)
LEMMA StorerDoesNotRead ==
  ASSUME Protocol, EntriesAreKept, NEW t \in Threads, ResultIsKept(t),
         StoreValue(t) \/ StoreKey(t) \/ PublishKey(t) \/ EraseKey(t)
  PROVE  /\ ReadIsCurrent(t)' /\ ResultIsKept(t)' /\ pc[t] \in StorePcs /\ pc[t] \in WorkPcs
         /\ op[t].kind \in {"write", "erase"} /\ result' = result /\ OthersStay(t)
<1>1. pc[t] \in StorePcs /\ pc[t] \in WorkPcs /\ pc[t] # "done" /\ result' = result
  BY DEF StoreValue, StoreKey, PublishKey, EraseKey, Goto, StorePcs, WorkPcs
<1>2. OthersStay(t)
  BY StoreSteps DEF CalmStep
<1>3. op[t].kind \in {"write", "erase"} /\ op \in [Threads -> Operation]
  BY <1>1, IdleHasNoFreeze DEF Protocol, Typed
<1>4. op' = op \/ op' = [op EXCEPT ![t] = NoOp]
  BY DEF StoreValue, StoreKey, PublishKey, EraseKey, Finish, Return
<1>5. op'[t].kind # "read"
  BY <1>3, <1>4 DEF NoOp
<1> QED
  BY <1>1, <1>2, <1>3, <1>5 DEF ReadIsCurrent, ResultIsKept

LEMMA StoreValueIsSeen ==
  ASSUME Protocol, EntriesAreKept, ReadsAreCurrent, NEW t \in Threads, StoreValue(t),
         NEW v \in Threads \ {t}
  PROVE  ReadIsCurrent(v)'
<1>1. /\ pc[t] = "store_value" /\ pc[t] \in StorePcs /\ pc[t] \in WorkPcs /\ OthersStay(t)
      /\ result' = result /\ op[t].kind \in {"write", "erase"} /\ ReadIsCurrent(v)
      /\ gen' = [gen EXCEPT ![dict[t]].value[at[t]] = op[t].value]
  BY StorerDoesNotRead DEF StoreValue, ReadsAreCurrent
<1>2. PICK h, d, i, l, x : h = dict[t] /\ d = gen[h] /\ i = at[t] /\ l = op[t].key /\ x = op[t].value
  OBVIOUS
<1>3. /\ d \in Dicts /\ d.value \in [Slots -> Values] /\ i \in Table(d) /\ i \in Slots
      /\ Table(d) \subseteq Slots /\ gen \in [Gens -> Dicts] /\ h \in Gens
  BY <1>1, <1>2, StoreEffect, StorerIsAlone
<1>4. PICK r : r = [d EXCEPT !.value[i] = x]
  OBVIOUS
<1>5. r = gen'[h] /\ \A g \in Gens \ {h} : gen'[g] = gen[g]
  BY <1>1, <1>2, <1>3, <1>4
<1>6. /\ r.alloc_size = d.alloc_size /\ r.key = d.key
      /\ r.value[i] = x /\ \A j \in Table(d) \ {i} : r.value[j] = d.value[j]
  BY <1>3, <1>4 DEF Dicts
<1>7. /\ seen' = [u \in Threads |-> IF u \in ReadersOf(l) THEN seen[u] \cup {x} ELSE seen[u]]
      /\ raced' = [u \in Threads |-> raced[u] \/ (u \in ReadersOf(l) /\ op[t].kind = "erase")]
  BY <1>2 DEF StoreValue
<1>8. /\ seen[v] \subseteq seen'[v] /\ (raced[v] => raced'[v])
      /\ op[v].kind = "read" /\ op[v].key = l =>
           x \in seen'[v] /\ (op[t].kind = "erase" => raced'[v])
  BY <1>7 DEF ReadersOf
<1>9. ASSUME d.key[i].type = "STRING" PROVE d.key[i].str = l
  <2>1. StoreIsAimed(t)
    BY DEF EntriesAreKept
  <2> QED
    BY <1>1, <1>2, <1>9, <2>1 DEF StoreIsAimed, Occupied, Vacant
<1>10. /\ \/ pc'[t] \in {"store_key", "erase_key"} /\ op' = op /\ entries' = entries
          \/ pc'[t] \in {"unlock_done", "idle"} /\ entries' = [entries EXCEPT ![l] = x]
       /\ pc'[t] = "erase_key" => op[t].kind = "erase"
  <2>1. CASE op[t].kind = "erase" \/ d.key[i].type # "STRING"
    BY <1>2, <2>1 DEF StoreValue, Goto, Protocol, Typed
  <2>2. CASE ~(op[t].kind = "erase" \/ d.key[i].type # "STRING")
    <3>1. Finish(t) /\ entries' = [entries EXCEPT ![l] = x]
      BY <1>2, <2>2 DEF StoreValue
    <3> QED
      BY <1>1, <3>1, FinishMoves
  <2> QED
    BY <2>1, <2>2
<1>11. PICK k : k = op[v].key
  OBVIOUS
<1>12. ASSUME op[v].kind = "read", ~raced'[v] PROVE StoreIsSeen(t, d, r, k, seen'[v])
  <2>1. ~raced[v] /\ k \in Keys /\ entries[k] \in seen'[v]
    BY <1>1, <1>8, <1>11, <1>12, ReaderFacts DEF ReadIsCurrent
  <2>2. ~(pc'[t] = "erase_key" /\ op'[t].key = k)
    BY <1>2, <1>8, <1>10, <1>11, <1>12
  <2>3. entries'[k] \in seen'[v]
    BY <1>8, <1>10, <1>11, <1>12, <2>1 DEF Protocol, Typed
  <2>4. pc'[t] \in {"store_key", "publish_key"} /\ op'[t].key = k => op'[t].value \in seen'[v]
    BY <1>2, <1>8, <1>10, <1>11, <1>12
  <2>5. ASSUME NEW j \in Table(d)
        PROVE  /\ Occupied(r, j, k) <=> Occupied(d, j, k)
               /\ Occupied(r, j, k) => r.value[j] \in seen'[v] \/ r.value[j] = d.value[j]
    BY <1>6, <1>8, <1>9, <1>11, <1>12 DEF Occupied
  <2> QED
    BY <1>1, <1>6, <2>2, <2>3, <2>4, <2>5 DEF StoreIsSeen
<1>13. SeenGrows(v)
  BY <1>1, <1>8 DEF SeenGrows
<1>14. op[v].kind = "read" /\ ~raced'[v] => StoreIsSeen(t, d, r, op[v].key, seen'[v])
  BY <1>11, <1>12
<1>15. /\ r = gen'[h] /\ r.alloc_size = d.alloc_size /\ pc[t] \in StorePcs /\ OthersStay(t)
       /\ ReadIsCurrent(v) /\ h = dict[t] /\ d = gen[h]
  BY <1>1, <1>2, <1>5, <1>6
<1>16. \A g \in Gens \ {h} : gen'[g] = gen[g]
  BY <1>5
<1> QED
  BY <1>13, <1>14, <1>15, <1>16, StoresAreSeen

LEMMA StoreKeyIsSeen ==
  ASSUME Protocol, EntriesAreKept, ReadsAreCurrent, NEW t \in Threads, StoreKey(t),
         NEW v \in Threads \ {t}
  PROVE  ReadIsCurrent(v)'
<1>1. /\ pc[t] = "store_key" /\ pc[t] \in StorePcs /\ pc'[t] = "publish_key" /\ OthersStay(t)
      /\ ReadIsCurrent(v) /\ UNCHANGED <<op, dict, at, result, entries, seen, raced>>
  BY StorerDoesNotRead DEF StoreKey, Goto, ghosts, ReadsAreCurrent, Protocol, Typed
<1>2. PICK h, d, i, l : h = dict[t] /\ d = gen[h] /\ i = at[t] /\ l = op[t].key
  OBVIOUS
<1>3. /\ d \in Dicts /\ d.key \in KeySlots /\ i \in Table(d) /\ i \in Slots
      /\ Table(d) \subseteq Slots /\ gen \in [Gens -> Dicts] /\ h \in Gens
  BY <1>1, <1>2, StoreEffect, StorerIsAlone
<1>4. PICK r : r = [d EXCEPT !.key[i].str = l, !.size = d.size + 1]
  OBVIOUS
<1>5. r = gen'[h] /\ \A g \in Gens \ {h} : gen'[g] = gen[g]
  BY <1>2, <1>3, <1>4 DEF StoreKey, Dicts
<1>6. /\ r.alloc_size = d.alloc_size /\ r.value = d.value
      /\ r.key[i].type = d.key[i].type /\ r.key[i].str = l
      /\ \A j \in Table(d) \ {i} : r.key[j] = d.key[j]
  BY <1>3, <1>4 DEF Dicts, KeySlots
<1>7. d.key[i].type # "STRING"
  BY <1>1, <1>2 DEF EntriesAreKept, StoreIsAimed, Vacant
<1>8. PICK k : k = op[v].key
  OBVIOUS
<1>9. ASSUME op[v].kind = "read", ~raced'[v] PROVE StoreIsSeen(t, d, r, k, seen'[v])
  <2>1. entries[k] \in seen[v] /\ InProgress(k) \subseteq seen[v]
    BY <1>1, <1>8, <1>9 DEF ReadIsCurrent
  <2>2. op[t].key = k => op[t].value \in seen[v]
    BY <1>1, <2>1 DEF InProgress
  <2>3. ASSUME NEW j \in Table(d) PROVE Occupied(r, j, k) <=> Occupied(d, j, k)
    BY <1>6, <1>7 DEF Occupied
  <2> QED
    BY <1>1, <1>2, <1>6, <1>7, <2>1, <2>2, <2>3 DEF StoreIsSeen
<1>10. SeenGrows(v)
  BY <1>1 DEF SeenGrows
<1> QED
  BY <1>1, <1>2, <1>3, <1>5, <1>6, <1>8, <1>9, <1>10, StoresAreSeen

LEMMA PublishKeyIsSeen ==
  ASSUME Protocol, EntriesAreKept, ReadsAreCurrent, NEW t \in Threads, PublishKey(t),
         NEW v \in Threads \ {t}
  PROVE  ReadIsCurrent(v)'
<1>1. /\ pc[t] = "publish_key" /\ pc[t] \in StorePcs /\ pc[t] \in WorkPcs /\ OthersStay(t)
      /\ Finish(t) /\ ReadIsCurrent(v) /\ UNCHANGED <<result, seen, raced>>
      /\ entries' = [entries EXCEPT ![op[t].key] = op[t].value]
  BY StorerDoesNotRead DEF PublishKey, ReadsAreCurrent
<1>2. PICK h, d, i, l : h = dict[t] /\ d = gen[h] /\ i = at[t] /\ l = op[t].key
  OBVIOUS
<1>3. /\ d \in Dicts /\ d.key \in KeySlots /\ i \in Table(d) /\ i \in Slots
      /\ Table(d) \subseteq Slots /\ gen \in [Gens -> Dicts] /\ h \in Gens
  BY <1>1, <1>2, StoreEffect, StorerIsAlone
<1>4. PICK r : r = [d EXCEPT !.key[i].type = "STRING"]
  OBVIOUS
<1>5. r = gen'[h] /\ \A g \in Gens \ {h} : gen'[g] = gen[g]
  BY <1>2, <1>3, <1>4 DEF PublishKey
<1>6. /\ r.alloc_size = d.alloc_size /\ r.value = d.value
      /\ r.key[i].type = "STRING" /\ r.key[i].str = d.key[i].str
      /\ \A j \in Table(d) \ {i} : r.key[j] = d.key[j]
  BY <1>3, <1>4 DEF Dicts, KeySlots
<1>7. d.key[i].str = l /\ d.value[i] = op[t].value
  BY <1>1, <1>2 DEF EntriesAreKept, StoreIsAimed
<1>8. pc'[t] \in {"unlock_done", "idle"}
  BY <1>1, FinishMoves
<1>9. PICK k : k = op[v].key
  OBVIOUS
<1>10. ASSUME op[v].kind = "read", ~raced'[v] PROVE StoreIsSeen(t, d, r, k, seen'[v])
  <2>1. entries[k] \in seen[v] /\ InProgress(k) \subseteq seen[v] /\ k \in Keys
    BY <1>1, <1>9, <1>10, ReaderFacts DEF ReadIsCurrent
  <2>2. l = k => op[t].value \in seen[v]
    BY <1>1, <1>2, <2>1 DEF InProgress
  <2>3. entries'[k] \in seen[v]
    BY <1>1, <1>2, <2>1, <2>2 DEF Protocol, Typed
  <2>4. ASSUME NEW j \in Table(d)
        PROVE  /\ Occupied(d, j, k) => Occupied(r, j, k)
               /\ Occupied(r, j, k) => r.value[j] \in seen[v] \/ Occupied(d, j, k)
    BY <1>6, <1>7, <2>2 DEF Occupied
  <2>5. ASSUME NEW j \in Table(d)
        PROVE  /\ d.key[j].str = k => r.key[j].str = k
               /\ r.key[j].str = k /\ (d.key[j].str = k => d.key[j].type = "STRING" \/ j = i) =>
                    r.key[j].type = "STRING"
    BY <1>6
  <2> QED
    BY <1>1, <1>2, <1>6, <1>8, <2>3, <2>4, <2>5 DEF StoreIsSeen
<1>11. SeenGrows(v)
  BY <1>1 DEF SeenGrows
<1> QED
  BY <1>1, <1>2, <1>3, <1>5, <1>6, <1>9, <1>10, <1>11, StoresAreSeen

LEMMA EraseKeyIsSeen ==
  ASSUME Protocol, EntriesAreKept, ReadsAreCurrent, NEW t \in Threads, EraseKey(t),
         NEW v \in Threads \ {t}
  PROVE  ReadIsCurrent(v)'
<1>1. /\ pc[t] = "erase_key" /\ pc[t] \in StorePcs /\ pc[t] \in WorkPcs /\ OthersStay(t)
      /\ Finish(t) /\ ReadIsCurrent(v) /\ UNCHANGED <<result, raced>>
      /\ entries' = [entries EXCEPT ![op[t].key] = Absent]
  BY StorerDoesNotRead DEF EraseKey, ReadsAreCurrent
<1>2. PICK h, d, i, l : h = dict[t] /\ d = gen[h] /\ i = at[t] /\ l = op[t].key
  OBVIOUS
<1>3. /\ d \in Dicts /\ d.key \in KeySlots /\ i \in Table(d) /\ i \in Slots
      /\ Table(d) \subseteq Slots /\ gen \in [Gens -> Dicts] /\ h \in Gens
  BY <1>1, <1>2, StoreEffect, StorerIsAlone
<1>4. PICK r : r = [d EXCEPT !.key[i].type = "TOMBSTONE", !.size = d.size - 1]
  OBVIOUS
<1>5. r = gen'[h] /\ \A g \in Gens \ {h} : gen'[g] = gen[g]
  BY <1>2, <1>3, <1>4 DEF EraseKey, Dicts
<1>6. /\ r.alloc_size = d.alloc_size /\ r.value = d.value
      /\ r.key[i].type = "TOMBSTONE" /\ r.key[i].str = d.key[i].str
      /\ \A j \in Table(d) \ {i} : r.key[j] = d.key[j]
  BY <1>3, <1>4 DEF Dicts, KeySlots
<1>7. d.key[i].str = l
  BY <1>1, <1>2 DEF EntriesAreKept, StoreIsAimed, Occupied
<1>8. pc'[t] \in {"unlock_done", "idle"} /\ seen[v] \subseteq seen'[v]
  BY <1>1, FinishMoves DEF EraseKey
<1>9. PICK k : k = op[v].key
  OBVIOUS
<1>10. ASSUME op[v].kind = "read", ~raced'[v] PROVE StoreIsSeen(t, d, r, k, seen'[v])
  <2>1. entries[k] \in seen[v] /\ ~BeingErased(k) /\ k \in Keys
    BY <1>1, <1>9, <1>10, ReaderFacts DEF ReadIsCurrent
  <2>2. l # k
    BY <1>1, <1>2, <2>1 DEF BeingErased
  <2>3. entries'[k] \in seen'[v]
    BY <1>1, <1>2, <1>8, <2>1, <2>2 DEF Protocol, Typed
  <2>4. ASSUME NEW j \in Table(d)
        PROVE  /\ Occupied(r, j, k) <=> Occupied(d, j, k)
               /\ d.key[j].str = k => j # i
    BY <1>6, <1>7, <2>2 DEF Occupied
  <2>5. ASSUME NEW j \in Table(d), d.key[j].str = k \/ r.key[j].str = k PROVE r.key[j] = d.key[j]
    BY <1>6, <1>7, <2>2, <2>5
  <2> QED
    BY <1>1, <1>6, <1>8, <2>3, <2>4, <2>5 DEF StoreIsSeen
<1>11. SeenGrows(v)
  BY <1>1, <1>8 DEF SeenGrows
<1> QED
  BY <1>1, <1>2, <1>3, <1>5, <1>6, <1>8, <1>9, <1>10, <1>11, StoresAreSeen

LEMMA StoreKeepsReads ==
  ASSUME Protocol, EntriesAreKept, ReadsAreCurrent, NEW t \in Threads,
         StoreValue(t) \/ StoreKey(t) \/ PublishKey(t) \/ EraseKey(t)
  PROVE  ReadsAreCurrent'
<1>1. ResultIsKept(t)
  BY DEF ReadsAreCurrent
<1>2. ReadIsCurrent(t)' /\ ResultIsKept(t)' /\ result' = result /\ OthersStay(t)
  BY <1>1, StorerDoesNotRead
<1>3. ASSUME NEW v \in Threads \ {t} PROVE ReadIsCurrent(v)'
  BY StoreValueIsSeen, StoreKeyIsSeen, PublishKeyIsSeen, EraseKeyIsSeen
<1>4. \A v \in Threads \ {t} : ResultIsKept(v)'
  BY <1>2 DEF ReadsAreCurrent, ResultIsKept, OthersStay
<1> QED
  BY <1>2, <1>3, <1>4 DEF ReadsAreCurrent

LEMMA QuietKeepsReads ==
  ASSUME Protocol, EntriesAreKept, ReadsAreCurrent, NEW t \in Threads, QuietStep(t),
         OthersRead(t), ReadIsCurrent(t)', ResultIsKept(t)'
  PROVE  ReadsAreCurrent'
<1>1. /\ OthersStay(t) /\ UNCHANGED entries /\ pc'[t] \notin HalfPcs /\ pc[t] # "publish_key"
  BY DEF QuietStep, StorePcs, HalfPcs
<1>2. \A v \in Threads \ {t} : pc[v] \in ProbePcs =>
           /\ gen'[dict[v]].alloc_size = gen[dict[v]].alloc_size
           /\ gen'[dict[v]].key = gen[dict[v]].key /\ gen'[dict[v]].value = gen[dict[v]].value
  BY ReaderFacts DEF QuietStep, SameTables
<1>3. \A v \in Threads \ {t} : ReadIsCurrent(v)' /\ ResultIsKept(v)'
  BY <1>1, <1>2, ReadersStay
<1> QED
  BY <1>3 DEF ReadsAreCurrent

(* A copy is made in a free place, and linked to the generation copied.    *)
LEMMA SearchKeepsReads ==
  ASSUME Protocol, EntriesAreKept, ReadsAreCurrent, NEW t \in Threads,
         SearchToWrite(t) \/ SearchToErase(t) \/ AllocAndCopy(t) \/ Publish(t)
  PROVE  ReadsAreCurrent'
<1>1. ReadIsCurrent(t)' /\ ResultIsKept(t)' /\ OthersRead(t) /\ UNCHANGED entries
  BY OthersDoNotRead DEF ReadsAreCurrent
<1>2. /\ OthersStay(t) /\ pc'[t] \notin HalfPcs /\ pc[t] # "publish_key"
  <2>1. pc \in [Threads -> Pcs] /\ new \in [Threads -> Gens \cup {NULL}]
        /\ dict \in [Threads -> Gens \cup {NULL}]
    BY DEF Protocol, Typed
  <2>2. CASE SearchToWrite(t) \/ SearchToErase(t)
    <3>1. OthersStay(t)
      BY <2>2, StoreSteps DEF CalmStep
    <3>2. pc[t] = "search" /\ pc[t] \in WorkPcs
      BY <2>2 DEF SearchToWrite, SearchToErase, WorkPcs
    <3>3. pc'[t] \in {"unlock_expand", "expand_lock", "store_value"} \/ Finish(t)
      BY <2>1, <2>2 DEF SearchToWrite, SearchToErase, Goto
    <3> QED
      BY <3>1, <3>2, <3>3, FinishMoves DEF HalfPcs
  <2>3. CASE AllocAndCopy(t) \/ Publish(t)
    BY <2>1, <2>3 DEF AllocAndCopy, Publish, Goto, OthersStay, HalfPcs
  <2> QED
    BY <2>2, <2>3
<1>3. ASSUME NEW g \in Live
      PROVE  /\ gen'[g].alloc_size = gen[g].alloc_size
             /\ gen'[g].key = gen[g].key /\ gen'[g].value = gen[g].value
  <2>1. gen \in [Gens -> Dicts] /\ g \in Gens /\ gen[g] \in Dicts
    BY DEF Protocol, Typed, Live
  <2>2. CASE SearchToWrite(t) \/ SearchToErase(t)
    BY <2>2 DEF SearchToWrite, SearchToErase
  <2>3. CASE AllocAndCopy(t)
    <3>1. PICK f \in Free : gen' = [gen EXCEPT ![f] = Expanded(t, gen[Newest])]
      BY <2>3 DEF AllocAndCopy
    <3>2. f # g
      BY <3>1 DEF Free
    <3> QED
      BY <2>1, <3>1, <3>2
  <2>4. CASE Publish(t)
    <3>1. gen'[g] = IF g = dict[t] THEN [gen[g] EXCEPT !.newer = new[t]] ELSE gen[g]
      BY <2>1, <2>4 DEF Publish
    <3> QED
      BY <2>1, <3>1 DEF Dicts
  <2> QED
    BY <2>2, <2>3, <2>4
<1>4. \A v \in Threads \ {t} : ReadIsCurrent(v)' /\ ResultIsKept(v)'
  BY <1>1, <1>2, <1>3, ReaderFacts, ReadersStay
<1> QED
  BY <1>1, <1>4 DEF ReadsAreCurrent

(* A collection finds nobody at a lookup that has begun.                   *)
LEMMA CollectKeepsReads ==
  ASSUME Protocol, ReadsAreCurrent, NEW t \in Threads, Collect(t)
  PROVE  ReadsAreCurrent'
<1>1. UNCHANGED <<pc, op, dict, at, result, entries, seen, raced>>
  BY DEF Collect, threadVars, ghosts
<1>2. \A v \in Threads : pc[v] \notin ProbePcs
  <2>1. pc[t] \in OutPcs /\ STW!WorldStoppedFor(t)
    BY DEF Collect, OutPcs
  <2> QED
    BY <2>1, WorldIsStopped, OutsidePcs
<1>3. ASSUME NEW v \in Threads PROVE ReadIsCurrent(v)' /\ ResultIsKept(v)'
  <2>1. ReadIsCurrent(v) /\ ResultIsKept(v)
    BY DEF ReadsAreCurrent
  <2>2. \A k : (BeingErased(k)' <=> BeingErased(k)) /\ InProgress(k)' = InProgress(k)
    BY <1>1 DEF BeingErased, InProgress
  <2> QED
    BY <1>1, <1>2, <2>1, <2>2 DEF ReadIsCurrent, ResultIsKept
<1> QED
  BY <1>3 DEF ReadsAreCurrent

LEMMA WaitKeepsReads ==
  ASSUME Protocol, EntriesAreKept, ReadsAreCurrent, NEW t \in Threads,
         StartPromotion(t) \/ Promote(t)
  PROVE  ReadIsCurrent(t)' /\ ResultIsKept(t)' /\ OthersRead(t)
<1>1. /\ pc[t] \in {"retry", "promote"} /\ pc'[t] \in {"retry", "promote"}
      /\ UNCHANGED <<op, result, entries, seen, raced>>
  BY DEF StartPromotion, Promote, Goto, ghosts, Protocol, Typed
<1>2. OthersStay(t) /\ ReadIsCurrent(t) /\ ResultIsKept(t)
  BY LocalSteps, LockSteps DEF QuietStep, ReadsAreCurrent
<1>3. pc'[t] \notin HalfPcs \cup ProbePcs \cup {"done"} /\ pc[t] \notin {"publish_key", "done"}
  BY <1>1 DEF HalfPcs, ProbePcs
<1>4. ReadIsCurrent(t)'
  BY <1>1, <1>2, <1>3, ReaderMoves
<1> QED
  BY <1>1, <1>2, <1>3, <1>4 DEF ResultIsKept, OthersRead

(* The steps of a thread that reads.                                       *)
LEMMA ReadingKeepsReads ==
  ASSUME Protocol, EntriesAreKept, ReadsAreCurrent, NEW t \in Threads,
         StartRead(t) \/ BeginAccess(t) \/ LoadKeyType(t) \/ LoadKeyStr(t) \/ ReadValue(t)
  PROVE  ReadIsCurrent(t)' /\ ResultIsKept(t)' /\ OthersRead(t)
<1>1. ReadIsCurrent(t) /\ ResultIsKept(t)
  BY DEF ReadsAreCurrent
<1>2. CASE StartRead(t)
  BY <1>1, <1>2, StartReadIsCurrent DEF StartRead, OthersRead, Protocol, Typed
<1>3. CASE BeginAccess(t)
  <2>1. pc[t] = "retry" /\ UNCHANGED <<result, seen, raced>>
    BY <1>3 DEF BeginAccess, Goto, ghosts
  <2> QED
    BY <1>1, <1>3, <2>1, BeginReadIsCurrent DEF ResultIsKept, OthersRead
<1>4. CASE LoadKeyType(t) \/ LoadKeyStr(t) \/ ReadValue(t)
  <2>1. OthersRead(t)
    BY <1>4 DEF LoadKeyType, LoadKeyStr, ReadValue, OthersRead, ghosts, Protocol, Typed
  <2> QED
    BY <1>1, <1>4, <2>1, LookupIsCurrent
<1> QED
  BY <1>2, <1>3, <1>4

LEMMA NextReads ==
  ASSUME Protocol, EntriesAreKept, ReadsAreCurrent, [Next]_vars
  PROVE  ReadsAreCurrent'
<1>1. CASE UNCHANGED vars
  BY <1>1 DEF vars, threadVars, ghosts, ReadsAreCurrent, ReadIsCurrent, ResultIsKept, BeingErased,
              InProgress, BeingPublished, Probing
<1>2. ASSUME NEW t \in Threads, Step(t) PROVE ReadsAreCurrent'
  <2>1. ResultIsKept(t)
    BY DEF ReadsAreCurrent
  <2>2. CASE \/ StartRead(t) \/ BeginAccess(t) \/ LoadKeyType(t) \/ LoadKeyStr(t) \/ ReadValue(t)
             \/ FinishRead(t) \/ StartPromotion(t) \/ Promote(t)
    <3>1. QuietStep(t)
      BY <2>2, LocalSteps, LockSteps
    <3>2. ReadIsCurrent(t)' /\ ResultIsKept(t)' /\ OthersRead(t)
      BY <2>2, ReadingKeepsReads, FinishReadIsCurrent, WaitKeepsReads
    <3> QED
      BY <3>1, <3>2, QuietKeepsReads
  <2>3. CASE \/ StartWrite(t) \/ StartErase(t) \/ StartHandleUse(t) \/ ReadNative(t) \/ StartFreeze(t)
             \/ TryLock(t) \/ BackOff(t) \/ UnlockRetry(t) \/ UnlockDone(t) \/ CheckNewer(t)
             \/ UnlockExpand(t) \/ ExpandTryLock(t) \/ ExpandCheckNewer(t)
             \/ AllocFails(t) \/ UnlockOld(t)
             \/ FreezeTryLock(t) \/ FreezeBackOff(t) \/ FreezeCheckNewer(t)
             \/ FreezeUnlock(t) \/ FreezeStore(t)
    <3>1. QuietStep(t)
      BY <2>3, LocalSteps, LockSteps, FreezeStoreIsQuiet
    <3>2. ReadIsCurrent(t)' /\ ResultIsKept(t)' /\ OthersRead(t)
      BY <2>1, <2>3, OthersDoNotRead
    <3> QED
      BY <3>1, <3>2, QuietKeepsReads
  <2>4. CASE SearchToWrite(t) \/ SearchToErase(t) \/ AllocAndCopy(t) \/ Publish(t)
    BY <2>4, SearchKeepsReads
  <2>5. CASE StoreValue(t) \/ StoreKey(t) \/ PublishKey(t) \/ EraseKey(t)
    BY <2>5, StoreKeepsReads
  <2>6. CASE Collect(t)
    BY <2>6, CollectKeepsReads
  <2> QED
    BY <1>2, <2>2, <2>3, <2>4, <2>5, <2>6 DEF Step
<1> QED
  BY <1>1, <1>2 DEF Next

LEMMA InitReads == Init => ReadsAreCurrent
<1> SUFFICES ASSUME Init, NEW t \in Threads PROVE ReadIsCurrent(t) /\ ResultIsKept(t)
  BY DEF ReadsAreCurrent
<1>1. op[t].kind # "read" /\ result[t] = Absent
  BY DEF Init, NoOp
<1> QED
  BY <1>1 DEF ReadIsCurrent, ResultIsKept

(* A lookup without a lock returns what its key was bound to at some point *)
(* of the lookup, or what a write under way was about to bind it to,       *)
(* unless its key was being erased meanwhile: whatever it meets was either *)
(* there when it began, or stored during it.                               *)
THEOREM ReadsStayCurrent == Spec => []ReadReturnsCurrent
<1>1. Protocol /\ EntriesAreKept /\ ReadsAreCurrent /\ [Next]_vars => ReadsAreCurrent'
  BY NextReads
<1>2. ReadsAreCurrent => ReadReturnsCurrent
  BY DEF ReadsAreCurrent, ReadIsCurrent, ReadReturnsCurrent
<1> QED
  BY <1>1, <1>2, InitReads, Invariance, EntriesInvariance, PTL DEF Spec
=============================================================================
