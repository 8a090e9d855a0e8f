-------------------------- MODULE SharedArrayProofs --------------------------
(***************************************************************************)
(* Proofs about SharedArray.tla: its invariants hold for any threads,      *)
(* generations, capacities and number of writes.                           *)
(***************************************************************************)

EXTENDS SharedArray, FiniteSetTheorems, WellFoundedInduction, TLAPS

-----------------------------------------------------------------------------
(* The inductive invariant.                                                *)

Link(g) == gen[g].newer

(* A new generation that its thread has not published, and the others,     *)
(* which threads can find.                                                 *)
Private(g) == \E t \in Threads : pc[t] = "publish" /\ new[t] = g
Findable   == {g \in Live : ~Private(g)}

(* Every generation a thread can find is on the chain of links from ref,   *)
(* and exactly one of them ends it.                                        *)
ChainIsWhole ==
  /\ ref \in Findable
  /\ \A g \in Gens : Link(g) # NULL => g \in Findable /\ Link(g) \in Findable
  /\ Findable \subseteq Chain
  /\ \E g \in Findable : Link(g) = NULL
  /\ \A g, h \in Findable : Link(g) = NULL /\ Link(h) = NULL => g = h

(* Where a thread works on the newest generation, where it reads outside   *)
(* the SeqLock, and where it writes.                                       *)
TipPcs     == {"seq_odd", "seq_even", "publish"} \cup StorePcs
WritePcs   == StorePcs \cup LockedPcs \cup {"lock", "back_off", "alloc"}
LocalReads(t) == pc[t] \in {"load_type", "load_val"} /\ seq1[t] = Local

PointersAreGood(t) ==
  /\ pc[t] \in AccessPcs => arr[t] \in Findable
  /\ pc[t] \in TipPcs => Link(arr[t]) = NULL
  /\ pc[t] = "publish" => /\ new[t] \in Live /\ Link(new[t]) = NULL
                          /\ gen[new[t]].shared = gen[arr[t]].shared
  /\ pc[t] = "unlock_old" => new[t] \in Findable /\ new[t] # arr[t]

OperationIsKept(t) ==
  /\ pc[t] # "idle" => op[t].index \in Indices
  /\ pc[t] \in ReadPcs \cup {"done"} => op[t].kind = "read"
  /\ pc[t] \in WritePcs => op[t].kind = "write"
  /\ pc[t] \notin {"idle"} \cup ReadPcs \cup WritePcs \cup {"done"} => op[t].kind # "none"
  /\ pc[t] \in StorePcs \cup {"seq_odd", "seq_even"} => op[t].index < gen[arr[t]].alloc_size
  /\ pc[t] \in {"lock", "check_newer"} /\ ~gen[arr[t]].shared =>
       op[t].index >= gen[arr[t]].alloc_size

(* Only the creator uses an array that is not shared, and everyone else    *)
(* the lock and the SeqLock.                                               *)
SharingIsKept(t) ==
  /\ \A g \in Live : pc[t] \in AccessPcs \cup {"alloc"} /\ t # Creator /\ Link(g) = NULL =>
       gen[g].shared
  /\ LocalReads(t) => t = Creator /\ Link(arr[t]) = NULL /\ ~gen[arr[t]].shared
  /\ pc[t] \in {"seq_begin", "seq_end"} => seq1[t] # Local
  /\ pc[t] \in ReadPcs /\ seq1[t] # Local => gen[arr[t]].shared
  /\ pc[t] \in {"seq_odd", "seq_even"} => gen[arr[t]].shared

ThreadsAreInOrder ==
  \A t \in Threads : PointersAreGood(t) /\ OperationIsKept(t) /\ SharingIsKept(t)

(* Who has the write lock of g, and who has added to it.                   *)
Owns(t, g) ==
  \/ pc[t] \in LockedPcs /\ arr[t] = g
  \/ pc[t] \in StorePcs /\ arr[t] = g /\ gen[g].shared
  \/ pc[t] \in {"publish", "unlock_old"} /\ new[t] = g
  \/ pc[t] = "alloc" /\ g \in Findable /\ Link(g) = NULL
Counted(t, g) == Owns(t, g) \/ (pc[t] = "back_off" /\ arr[t] = g)
Holders(g)    == {t \in Threads : Counted(t, g)}

LocksAreHeld ==
  /\ \A g \in Live : gen[g].write_lock = Cardinality(Holders(g))
  /\ \A g \in Live : \A t, u \in Threads : Owns(t, g) /\ Owns(u, g) => t = u

(* An odd SeqLock has a writer.                                            *)
Unstable(t, g) ==
  pc[t] \in {"store_type", "store_val", "seq_even"} /\ arr[t] = g /\ gen[g].shared

SeqLocksMatch ==
  \A g \in Live : gen[g].seqlock % 2 = 1 <=> \E t \in Threads : Unstable(t, g)

(* The contents of the generations.                                        *)
Halfway(t, g, i) == pc[t] = "store_val" /\ arr[t] = g /\ op[t].index = i
Uncounted(t, g, i) == pc[t] \in {"seq_even", "set_size"} /\ arr[t] = g /\ op[t].index = i

ElementsAreWhole ==
  \A g \in Live, i \in Indices :
    gen[g].table[i].type = gen[g].table[i].val \/ \E t \in Threads : Halfway(t, g, i)

ValuesAreStored ==
  \A g \in Live, i \in Indices :
    Link(g) = NULL => gen[g].table[i].val = LastWrite(history, i)

SizesCover ==
  /\ \A g \in Live : gen[g].size <= gen[g].alloc_size /\ gen[g].creator = Creator
  /\ \A g \in Live, k \in DOMAIN history : Link(g) = NULL =>
       history[k].index < gen[g].size \/ \E t \in Threads : Uncounted(t, g, history[k].index)
  /\ \A t \in Threads : pc[t] = "store_val" =>
       gen[arr[t]].table[op[t].index].type = op[t].value

(* What a reader has loaded.                                               *)
WasCurrent(t, v) ==
  \E k \in seen[t] .. Len(history) : v = LastWrite(SubSeq(history, 1, k), op[t].index)

ReaderIsGood(t) ==
  /\ seen[t] <= Len(history)
  /\ pc[t] \in ReadPcs => WasCurrent(t, gen[arr[t]].table[op[t].index].val)
  /\ pc[t] \in {"seq_end", "done"} => WasCurrent(t, val[t].val)
  /\ pc[t] \in {"load_type", "load_val", "seq_end"} /\ seq1[t] # Local =>
       seq1[t] % 2 = 0 /\ seq1[t] <= gen[arr[t]].seqlock
  /\ pc[t] = "load_val" /\ seq1[t] \in {Local, gen[arr[t]].seqlock} =>
       val[t].type = gen[arr[t]].table[op[t].index].type
  /\ pc[t] = "seq_end" /\ seq1[t] = gen[arr[t]].seqlock => val[t].type = val[t].val
  /\ pc[t] = "done" => val[t].type = val[t].val

ReadersSeeWrites == \A t \in Threads : ReaderIsGood(t)

IInv ==
  /\ TypeOK
  /\ ChainIsWhole /\ ThreadsAreInOrder
  /\ LocksAreHeld /\ SeqLocksMatch
  /\ ElementsAreWhole /\ ValuesAreStored /\ SizesCover
  /\ ReadersSeeWrites

(* The capacity a thread asks the allocator for holds the elements of the  *)
(* newest generation, also when a collection moves the array meanwhile.    *)
RequestsFit ==
  \A t \in Threads : pc[t] = "alloc" => gen[Newest].size <= new_size[t]

-----------------------------------------------------------------------------
(* Numbers.                                                                *)

LEMMA LeastExists ==
  ASSUME NEW T \in SUBSET Nat, T # {}
  PROVE  \E x \in T : \A y \in T : x <= y
<1>1. PICK x \in T : \A y \in T : ~ (<<y, x>> \in OpToRel(<, Nat))
  BY NatLessThanWellFounded, WFMin
<1>2. \A y \in T : ~ (y < x)
  BY <1>1 DEF OpToRel
<1> QED
  BY <1>2

LEMMA GreatestExists ==
  ASSUME NEW n \in Nat, NEW T \in SUBSET (1 .. n), T # {}
  PROVE  \E x \in T : \A y \in T : y <= x
<1>1. {n - y : y \in T} \in SUBSET Nat /\ {n - y : y \in T} # {}
  <2>1. \A y \in T : n - y \in Nat
    OBVIOUS
  <2> QED
    BY <2>1
<1>2. PICK m \in {n - y : y \in T} : \A k \in {n - y : y \in T} : m <= k
  BY <1>1, LeastExists
<1>3. PICK x \in T : m = n - x
  BY <1>2
<1>4. \A y \in T : n - x <= n - y
  BY <1>2, <1>3
<1> QED
  BY <1>4

(* The capacity an expansion asks for: at least twice the old one.         *)
Doublings(n) ==
  {m \in Nat : \A S \in SUBSET Nat : n \in S /\ (\A x \in S : x * 2 \in S) => m \in S}

LEMMA DoublingExists ==
  ASSUME NEW index \in Nat
  PROVE  \E f : f = [n \in Nat |-> IF index > n * 2 THEN f[n * 2] ELSE n]
<1> DEFINE Enough(n) == {m \in Doublings(n) : index <= m * 2}
           f == [n \in Nat |-> CHOOSE m \in Enough(n) : \A k \in Enough(n) : m <= k]
<1>1. ASSUME NEW n \in Nat, index > n * 2 PROVE Enough(n) = Enough(n * 2)
  <2>1. ASSUME NEW m \in Doublings(n * 2) PROVE m \in Doublings(n)
    BY DEF Doublings
  <2>2. ASSUME NEW m \in Enough(n) PROVE m \in Doublings(n * 2)
    <3>1. m # n
      BY <1>1
    <3>2. ASSUME NEW S \in SUBSET Nat, n * 2 \in S, \A x \in S : x * 2 \in S PROVE m \in S
      <4>1. S \cup {n} \in SUBSET Nat /\ n \in S \cup {n} /\ \A x \in S \cup {n} : x * 2 \in S \cup {n}
        BY <3>2
      <4>2. m \in S \cup {n}
        BY <2>2, <4>1 DEF Doublings
      <4> QED
        BY <3>1, <4>2
    <3>3. m \in Nat
      BY <2>2 DEF Doublings
    <3> QED
      BY <3>2, <3>3 DEF Doublings
  <2> QED
    BY <2>1, <2>2
<1>2. ASSUME NEW n \in Nat, ~(index > n * 2)
      PROVE  (CHOOSE m \in Enough(n) : \A k \in Enough(n) : m <= k) = n
  <2>1. n \in Enough(n)
    BY <1>2 DEF Doublings
  <2>2. ASSUME NEW m \in Doublings(n) PROVE m \in Nat /\ n <= m
    <3>1. {x \in Nat : n <= x} \in SUBSET Nat /\ n \in {x \in Nat : n <= x}
          /\ \A x \in {y \in Nat : n <= y} : x * 2 \in {y \in Nat : n <= y}
      OBVIOUS
    <3> QED
      BY <2>2, <3>1 DEF Doublings
  <2>3. \A m \in Enough(n) : m \in Nat /\ n <= m
    BY <2>2
  <2> HIDE DEF Enough
  <2>4. \A m \in Enough(n) : (\A k \in Enough(n) : m <= k) => m = n
    BY <2>1, <2>3
  <2> QED
    BY <2>1, <2>3, <2>4
<1>3. ASSUME NEW n \in Nat PROVE f[n] = IF index > n * 2 THEN f[n * 2] ELSE n
  <2>1. n * 2 \in Nat
    OBVIOUS
  <2> HIDE DEF Enough
  <2> QED
    BY <1>1, <1>2, <2>1
<1>4. PICK g : g = f
  OBVIOUS
<1>5. g = [n \in Nat |-> g[n]]
  BY <1>4
<1>6. \A n \in Nat : g[n] = IF index > n * 2 THEN g[n * 2] ELSE n
  BY SMTT(30), <1>3, <1>4
<1>7. g = [n \in Nat |-> IF index > n * 2 THEN g[n * 2] ELSE n]
  <2> HIDE DEF f
  <2> QED
    BY <1>5, <1>6
<1> QED
  BY <1>7

LEMMA NewSizeGrows ==
  ASSUME NEW size \in Nat \ {0}, NEW index \in Nat
  PROVE  NewSize(size, index) \in Nat /\ NewSize(size, index) >= size
<1> DEFINE d == CHOOSE f : f = [n \in Nat |-> IF index > n * 2 THEN f[n * 2] ELSE n]
<1>1. d = [n \in Nat |-> IF index > n * 2 THEN d[n * 2] ELSE n]
  BY DoublingExists
<1>2. NewSize(size, index) = d[size * 2]
  BY DEF NewSize
<1> HIDE DEF d
<1>3. \A n \in Nat : d[n] = IF index > n * 2 THEN d[n * 2] ELSE n
  BY <1>1
<1> DEFINE Bad == {n \in Nat \ {0} : ~(d[n] \in Nat /\ d[n] >= n)}
<1>4. \A n \in Bad : index > n * 2 /\ n * 2 \in Bad
  <2> SUFFICES ASSUME NEW n \in Bad PROVE index > n * 2 /\ n * 2 \in Bad
    OBVIOUS
  <2>1. n \in Nat \ {0} /\ ~(d[n] \in Nat /\ d[n] >= n)
    OBVIOUS
  <2>2. index > n * 2
    BY <1>3, <2>1
  <2>3. d[n] = d[n * 2] /\ n * 2 \in Nat \ {0} /\ n * 2 >= n
    BY <1>3, <2>1, <2>2
  <2> QED
    BY <2>1, <2>2, <2>3
<1>5. Bad = {}
  <2> SUFFICES ASSUME Bad # {} PROVE FALSE
    OBVIOUS
  <2>1. Bad \in SUBSET (1 .. index)
    BY <1>4
  <2>2. PICK x \in Bad : \A y \in Bad : y <= x
    BY <2>1, GreatestExists
  <2>3. x * 2 \in Bad /\ x \in Nat \ {0}
    BY <1>4, <2>2
  <2> HIDE DEF Bad
  <2> QED
    BY <2>2, <2>3
<1>6. d[size * 2] \in Nat /\ d[size * 2] >= size * 2
  BY <1>5
<1> QED
  BY <1>2, <1>6

-----------------------------------------------------------------------------
(* The writes so far.                                                      *)

Writes == [index : Indices, value : Values]

LEMMA LastOfAppend ==
  ASSUME NEW h \in Seq(Writes), NEW e \in Writes, NEW i
  PROVE  LastWrite(Append(h, e), i) = IF e.index = i THEN e.value ELSE LastWrite(h, i)
<1> DEFINE before == {k \in DOMAIN h : h[k].index = i}
           after  == {k \in DOMAIN Append(h, e) : Append(h, e)[k].index = i}
<1>1. PICK n \in Nat : n = Len(h) /\ DOMAIN h = 1 .. n /\ DOMAIN Append(h, e) = 1 .. n + 1
  OBVIOUS
<1>2. Append(h, e)[n + 1] = e /\ \A k \in 1 .. n : Append(h, e)[k] = h[k]
  BY <1>1
<1>3. CASE e.index = i
  <2>1. n + 1 \in after /\ \A k \in after : k \in 1 .. n + 1
    BY <1>1, <1>2, <1>3
  <2>2. \A k \in after : (\A l \in after : l <= k) => k = n + 1
    BY <2>1
  <2>3. \A l \in after : l <= n + 1
    BY <2>1
  <2>4. (CHOOSE k \in after : \A l \in after : l <= k) = n + 1
    <3> HIDE DEF after
    <3> QED
      BY <2>1, <2>2, <2>3
  <2>5. LastWrite(Append(h, e), i) = Append(h, e)[n + 1].value
    BY <2>1, <2>4 DEF LastWrite
  <2> QED
    BY <1>2, <1>3, <2>5
<1>4. CASE e.index # i
  <2>1. after = before
    BY <1>1, <1>2, <1>4
  <2>2. CASE before = {}
    BY <1>4, <2>1, <2>2 DEF LastWrite
  <2>3. CASE before # {}
    <3>1. PICK m : m = CHOOSE k \in before : \A l \in before : l <= k
      OBVIOUS
    <3>2. before \in SUBSET (1 .. n)
      BY <1>1
    <3>3. m \in before
      BY <2>3, <3>1, <3>2, GreatestExists
    <3>4. LastWrite(h, i) = h[m].value
      BY <2>3, <3>1 DEF LastWrite
    <3>5. LastWrite(Append(h, e), i) = Append(h, e)[m].value
      BY <2>1, <2>3, <3>1 DEF LastWrite
    <3> QED
      BY <1>2, <1>4, <3>2, <3>3, <3>4, <3>5
  <2> QED
    BY <2>2, <2>3
<1> QED
  BY <1>3, <1>4

(* An index nothing was written to has the cleared value.                  *)
LEMMA NeverWritten ==
  ASSUME NEW h \in Seq(Writes), NEW i, \A k \in DOMAIN h : h[k].index # i
  PROVE  LastWrite(h, i) = 0
<1>1. {k \in DOMAIN h : h[k].index = i} = {}
  OBVIOUS
<1> QED
  BY <1>1 DEF LastWrite

LEMMA Prefixes ==
  ASSUME NEW h \in Seq(Writes), NEW e \in Writes
  PROVE  /\ SubSeq(h, 1, Len(h)) = h
         /\ \A k \in 0 .. Len(h) : SubSeq(Append(h, e), 1, k) = SubSeq(h, 1, k)
         /\ Len(Append(h, e)) = Len(h) + 1 /\ Len(h) \in Nat
OBVIOUS

-----------------------------------------------------------------------------
(* The chain of generations.                                               *)

LEMMA PcSets ==
  /\ AccessPcs \cap OutPcs = {} /\ "done" \notin AccessPcs \cup OutPcs
  /\ ReadPcs \subseteq AccessPcs /\ StorePcs \subseteq AccessPcs /\ LockedPcs \subseteq AccessPcs
  /\ TipPcs \subseteq AccessPcs /\ WritePcs \subseteq AccessPcs \cup {"alloc"}
BY DEF AccessPcs, OutPcs, ReadPcs, StorePcs, LockedPcs, TipPcs, WritePcs

LEMMA NullIsNone ==
  NULL \notin Gens
BY ArrayAssumption DEF NULL

LEMMA ChainIsFindable ==
  ASSUME ChainIsWhole
  PROVE  Chain \subseteq Findable /\ Findable \subseteq Live /\ Live \subseteq Gens
<1>1. Findable \subseteq Live /\ Live \subseteq Gens
  BY DEF Findable, Live
<1>2. \A h \in Findable : gen[h].newer # NULL => gen[h].newer \in Findable
  BY <1>1 DEF ChainIsWhole, Link
<1>3. ref \in Findable /\ Findable \in SUBSET Gens
  BY <1>1 DEF ChainIsWhole
<1>4. \A g \in Chain : g \in Findable
  BY <1>2, <1>3 DEF Chain
<1> QED
  BY <1>1, <1>4

(* follow_array_pointer returns the end of the chain.                      *)
LEMMA NewestIsTip ==
  ASSUME ChainIsWhole
  PROVE  /\ Newest \in Findable /\ Link(Newest) = NULL
         /\ \A g \in Findable : Link(g) = NULL => g = Newest
         /\ Findable \subseteq Live /\ Live \subseteq Gens
<1>1. \E g \in Chain : gen[g].newer = NULL
  BY DEF ChainIsWhole, Link
<1>2. Newest \in Chain /\ gen[Newest].newer = NULL
  BY <1>1 DEF Newest
<1> QED
  BY <1>2, ChainIsFindable DEF ChainIsWhole, Link

(* Steps that leave the shape of the chain alone.                          *)
SameShape ==
  /\ UNCHANGED ref
  /\ \A g \in Gens : /\ gen'[g].alloc_size = gen[g].alloc_size /\ gen'[g].newer = gen[g].newer
                     /\ gen'[g].shared = gen[g].shared /\ gen'[g].creator = gen[g].creator
  /\ \A t \in Threads : (pc'[t] = "publish" <=> pc[t] = "publish")
                          /\ (pc[t] = "publish" => new'[t] = new[t])

LEMMA ShapeKept ==
  ASSUME ChainIsWhole, SameShape
  PROVE  /\ ChainIsWhole' /\ Findable' = Findable /\ Live' = Live /\ Chain' = Chain
         /\ Newest' = Newest /\ \A g \in Gens : Link(g)' = Link(g)
<1>1. \A g \in Gens : gen'[g].newer = gen[g].newer
  BY DEF SameShape
<1>2. Live' = Live
  BY DEF Live, SameShape
<1>3. Findable' = Findable
  <2>1. \A g : Private(g)' <=> Private(g)
    BY DEF Private, SameShape
  <2> QED
    BY <1>2, <2>1 DEF Findable
<1>4. Chain' = Chain
  <2>1. ASSUME NEW S \in SUBSET Gens
        PROVE  (\A h \in S : gen'[h].newer # NULL => gen'[h].newer \in S)
                 <=> (\A h \in S : gen[h].newer # NULL => gen[h].newer \in S)
    BY <1>1
  <2> QED
    BY <2>1 DEF Chain, SameShape
<1>5. Chain \subseteq Gens /\ Findable \subseteq Gens
  BY DEF Chain, Findable, Live
<1>6. ChainIsWhole'
  BY <1>1, <1>3, <1>4, <1>5 DEF ChainIsWhole, Link, SameShape
<1>7. Newest' = Newest
  <2>1. Newest \in Findable /\ Link(Newest) = NULL /\ \A g \in Findable : Link(g) = NULL => g = Newest
    BY NewestIsTip
  <2>2. \E g \in Chain' : gen'[g].newer = NULL
    BY <1>1, <1>4, <1>5, <2>1 DEF ChainIsWhole, Link
  <2>3. Newest' \in Chain' /\ gen'[Newest'].newer = NULL
    BY <2>2 DEF Newest
  <2>4. Chain \subseteq Findable
    BY NewestIsTip, ChainIsFindable
  <2> QED
    BY <1>1, <1>4, <1>5, <2>1, <2>3, <2>4 DEF Link
<1> QED
  BY <1>1, <1>2, <1>3, <1>4, <1>6, <1>7 DEF Link

-----------------------------------------------------------------------------
(* Steps of one thread that leave the chain alone.                         *)

OthersStay(t) ==
  \A u \in Threads \ {t} :
    /\ pc'[u] = pc[u] /\ op'[u] = op[u] /\ arr'[u] = arr[u] /\ new'[u] = new[u]
    /\ seq1'[u] = seq1[u] /\ val'[u] = val[u] /\ seen'[u] = seen[u]

LEMMA ThreadsKept ==
  ASSUME IInv, NEW t \in Threads, SameShape, OthersStay(t),
         PointersAreGood(t)', OperationIsKept(t)', SharingIsKept(t)'
  PROVE  ThreadsAreInOrder'
<1>1. /\ Findable' = Findable /\ Live' = Live /\ \A g \in Gens : Link(g)' = Link(g)
      /\ Findable \subseteq Live /\ Live \subseteq Gens
  BY ShapeKept, NewestIsTip DEF IInv
<1>2. SUFFICES ASSUME NEW u \in Threads \ {t}
               PROVE  (PointersAreGood(u) /\ OperationIsKept(u) /\ SharingIsKept(u))'
  BY DEF ThreadsAreInOrder
<1>3. /\ pc'[u] = pc[u] /\ op'[u] = op[u] /\ arr'[u] = arr[u] /\ new'[u] = new[u]
      /\ seq1'[u] = seq1[u]
  BY DEF OthersStay
<1>4. /\ pc[u] \in AccessPcs => arr[u] \in Findable
      /\ \A g \in Gens : gen'[g].shared = gen[g].shared /\ gen'[g].alloc_size = gen[g].alloc_size
  BY DEF IInv, ThreadsAreInOrder, PointersAreGood, SameShape
<1>5. PointersAreGood(u)'
  <2>1. pc[u] = "publish" => pc[u] \in AccessPcs
    BY DEF AccessPcs, LockedPcs
  <2>2. pc[u] = "publish" => new[u] \in Gens /\ arr[u] \in Gens
    BY <1>1, <1>4, <2>1 DEF IInv, ThreadsAreInOrder, PointersAreGood
  <2>3. pc[u] \in TipPcs => Link(arr[u])' = NULL
    BY <1>1, <1>3, <1>4, PcSets DEF IInv, ThreadsAreInOrder, PointersAreGood, Link
  <2> QED
    BY <1>1, <1>3, <1>4, <2>2, <2>3 DEF IInv, ThreadsAreInOrder, PointersAreGood, Link
<1>6. OperationIsKept(u)'
  BY <1>1, <1>3, <1>4, PcSets DEF IInv, ThreadsAreInOrder, OperationIsKept, AccessPcs, LockedPcs
<1>7. SharingIsKept(u)'
  <2>1. \A g \in Live' : pc'[u] \in AccessPcs \cup {"alloc"} /\ u # Creator /\ Link(g)' = NULL =>
          gen'[g].shared
    BY <1>1, <1>3, <1>4 DEF IInv, ThreadsAreInOrder, SharingIsKept
  <2>2. LocalReads(u)' <=> LocalReads(u)
    BY <1>3 DEF LocalReads
  <2>3. /\ LocalReads(u) => pc[u] \in AccessPcs
        /\ pc[u] \in {"seq_odd", "seq_even"} => pc[u] \in AccessPcs
    BY DEF LocalReads, AccessPcs, ReadPcs, LockedPcs
  <2>4. LocalReads(u) => u = Creator /\ Link(arr[u])' = NULL /\ ~gen'[arr[u]].shared
    <3>1. LocalReads(u) => u = Creator /\ Link(arr[u]) = NULL /\ ~gen[arr[u]].shared
      BY DEF IInv, ThreadsAreInOrder, SharingIsKept
    <3>2. LocalReads(u) => arr[u] \in Gens
      BY <1>1, <1>4, <2>3
    <3> QED
      BY <1>1, <1>3, <1>4, <3>1, <3>2 DEF Link
  <2>5. pc[u] \in ReadPcs /\ seq1[u] # Local => gen'[arr[u]].shared
    BY <1>1, <1>4, PcSets DEF IInv, ThreadsAreInOrder, SharingIsKept
  <2>6. pc[u] \in {"seq_odd", "seq_even"} => gen'[arr[u]].shared
    BY <1>1, <1>4, <2>3 DEF IInv, ThreadsAreInOrder, SharingIsKept
  <2> QED
    BY <1>3, <2>1, <2>2, <2>4, <2>5, <2>6 DEF IInv, ThreadsAreInOrder, SharingIsKept, Link
<1> QED
  BY <1>5, <1>6, <1>7

(* The lock.                                                               *)
LEMMA HoldersAreFinite ==
  \A g : IsFiniteSet(Holders(g)) /\ Cardinality(Holders(g)) \in Nat
<1> SUFFICES ASSUME NEW g PROVE IsFiniteSet(Holders(g)) /\ Cardinality(Holders(g)) \in Nat
  OBVIOUS
<1>1. Holders(g) \subseteq Threads /\ IsFiniteSet(Threads)
  BY ArrayAssumption DEF Holders
<1> QED
  BY <1>1, FS_Subset, FS_CardinalityType

LEMMA OthersHold ==
  ASSUME IInv, NEW t \in Threads, SameShape, OthersStay(t)
  PROVE  \A u \in Threads \ {t}, g \in Live :
           (Owns(u, g)' <=> Owns(u, g)) /\ (Counted(u, g)' <=> Counted(u, g))
<1>1. /\ Findable' = Findable /\ Live' = Live /\ \A g \in Gens : Link(g)' = Link(g)
      /\ Findable \subseteq Live /\ Live \subseteq Gens
  BY ShapeKept, NewestIsTip DEF IInv
<1>2. \A g \in Gens : gen'[g].shared = gen[g].shared
  BY DEF SameShape
<1> QED
  BY <1>1, <1>2 DEF OthersStay, Owns, Counted

LEMMA LocksKept ==
  ASSUME IInv, Live' = Live, \A g \in Gens : gen'[g].write_lock = gen[g].write_lock,
         \A u \in Threads, g \in Live : (Owns(u, g)' => Owns(u, g))
                                          /\ (Counted(u, g)' <=> Counted(u, g))
  PROVE  LocksAreHeld'
<1>1. \A g \in Live : Holders(g)' = Holders(g)
  BY DEF Holders
<1>2. Live \subseteq Gens
  BY DEF Live
<1> QED
  BY <1>1, <1>2 DEF IInv, LocksAreHeld

LEMMA LockTaken ==
  ASSUME IInv, Live' = Live, NEW t \in Threads, NEW h \in Live,
         \A g \in Gens : gen'[g].write_lock = IF g = h THEN gen[g].write_lock + 1
                                              ELSE gen[g].write_lock,
         \A u \in Threads, g \in Live : <<u, g>> # <<t, h>> =>
           (Owns(u, g)' => Owns(u, g)) /\ (Counted(u, g)' <=> Counted(u, g)),
         ~Counted(t, h), Counted(t, h)', Owns(t, h)' => gen[h].write_lock = 0
  PROVE  LocksAreHeld'
<1>1. Live \subseteq Gens
  BY DEF Live
<1>2. \A g \in Live \ {h} : Holders(g)' = Holders(g)
  BY DEF Holders
<1>3. Holders(h)' = Holders(h) \cup {t} /\ t \notin Holders(h)
  BY DEF Holders
<1>4. Cardinality(Holders(h)') = Cardinality(Holders(h)) + 1
  BY <1>3, HoldersAreFinite, FS_AddElement
<1>5. \A g \in Live : gen'[g].write_lock = Cardinality(Holders(g)')
  BY <1>1, <1>2, <1>4 DEF IInv, LocksAreHeld
<1>6. ASSUME NEW g \in Live, NEW u \in Threads, NEW v \in Threads, Owns(u, g)', Owns(v, g)'
      PROVE  u = v
  <2>1. CASE g # h \/ (u # t /\ v # t)
    BY <1>6, <2>1 DEF IInv, LocksAreHeld
  <2>2. CASE g = h /\ Owns(t, h)'
    <3>1. Cardinality(Holders(h)) = 0
      BY <2>2 DEF IInv, LocksAreHeld
    <3>2. Holders(h) = {}
      BY <3>1, HoldersAreFinite, FS_EmptySet
    <3>3. \A w \in Threads : ~Owns(w, h)
      BY <3>2 DEF Holders, Counted
    <3>4. \A w \in Threads \ {t} : ~Owns(w, h)'
      BY <3>3
    <3> QED
      BY <1>6, <2>2, <3>4
  <2> QED
    BY <1>6, <2>1, <2>2
<1> QED
  BY <1>5, <1>6 DEF LocksAreHeld

LEMMA LockLeft ==
  ASSUME IInv, Live' = Live, NEW t \in Threads, NEW h \in Live,
         \A g \in Gens : gen'[g].write_lock = IF g = h THEN gen[g].write_lock - 1
                                              ELSE gen[g].write_lock,
         \A u \in Threads, g \in Live : <<u, g>> # <<t, h>> =>
           (Owns(u, g)' => Owns(u, g)) /\ (Counted(u, g)' <=> Counted(u, g)),
         Counted(t, h), ~Counted(t, h)'
  PROVE  LocksAreHeld' /\ gen[h].write_lock > 0
<1>1. Live \subseteq Gens
  BY DEF Live
<1>2. \A g \in Live \ {h} : Holders(g)' = Holders(g)
  BY DEF Holders
<1>3. Holders(h)' = Holders(h) \ {t} /\ t \in Holders(h)
  BY DEF Holders
<1>4. Cardinality(Holders(h)') = Cardinality(Holders(h)) - 1 /\ Cardinality(Holders(h)) > 0
  BY <1>3, HoldersAreFinite, FS_RemoveElement, FS_EmptySet
<1>5. \A g \in Live : gen'[g].write_lock = Cardinality(Holders(g)')
  BY <1>1, <1>2, <1>4 DEF IInv, LocksAreHeld
<1>6. \A g \in Live, u \in Threads : Owns(u, g)' => Owns(u, g)
  BY DEF Counted
<1> QED
  BY <1>4, <1>5, <1>6 DEF IInv, LocksAreHeld

(* The contents stay too.                                                  *)
SameContents ==
  /\ UNCHANGED history
  /\ \A g \in Gens : /\ gen'[g].table = gen[g].table /\ gen'[g].size = gen[g].size
                     /\ gen'[g].seqlock = gen[g].seqlock

LEMMA ReaderKept ==
  ASSUME IInv, NEW u \in Threads, UNCHANGED history,
         pc[u] \in ReadPcs => /\ gen'[arr[u]].table[op[u].index] = gen[arr[u]].table[op[u].index]
                              /\ gen'[arr[u]].seqlock = gen[arr[u]].seqlock,
         pc'[u] = pc[u], op'[u] = op[u], arr'[u] = arr[u], seq1'[u] = seq1[u],
         val'[u] = val[u], seen'[u] = seen[u]
  PROVE  ReaderIsGood(u)'
<1>1. \A v : WasCurrent(u, v)' <=> WasCurrent(u, v)
  BY DEF WasCurrent
<1>2. ReaderIsGood(u)
  BY DEF IInv, ReadersSeeWrites
<1>3. pc[u] \in {"load_type", "load_val", "seq_end"} => pc[u] \in ReadPcs
  BY DEF ReadPcs
<1> QED
  BY <1>1, <1>2, <1>3 DEF ReaderIsGood

BusyPcs == {"store_type", "store_val", "seq_even", "set_size"}

LEMMA QuietStep ==
  ASSUME IInv, NEW t \in Threads, SameShape, OthersStay(t), SameContents, TypeOK',
         PointersAreGood(t)', OperationIsKept(t)', SharingIsKept(t)', LocksAreHeld',
         ReaderIsGood(t)', pc[t] \notin BusyPcs,
         pc'[t] \notin BusyPcs \/ (pc'[t] = "store_type" /\ ~gen'[arr'[t]].shared)
  PROVE  IInv'
<1>1. /\ Findable' = Findable /\ Live' = Live /\ \A g \in Gens : Link(g)' = Link(g)
      /\ Findable \subseteq Live /\ Live \subseteq Gens /\ ChainIsWhole'
  BY ShapeKept, NewestIsTip DEF IInv
<1>2. \A u \in Threads : pc[u] \in AccessPcs => arr[u] \in Gens
  BY <1>1 DEF IInv, ThreadsAreInOrder, PointersAreGood
<1>3. \A u \in Threads \ {t} :
        /\ pc'[u] = pc[u] /\ op'[u] = op[u] /\ arr'[u] = arr[u] /\ seq1'[u] = seq1[u]
        /\ val'[u] = val[u] /\ seen'[u] = seen[u]
  BY DEF OthersStay
<1>4. SeqLocksMatch'
  <2>1. \A u \in Threads, g \in Live : Unstable(u, g)' <=> Unstable(u, g)
    BY <1>1, <1>3 DEF Unstable, SameShape, BusyPcs
  <2> QED
    BY <1>1, <2>1 DEF IInv, SeqLocksMatch, SameContents
<1>5. ElementsAreWhole'
  <2>1. \A u \in Threads, g \in Live, i \in Indices : Halfway(u, g, i)' <=> Halfway(u, g, i)
    BY <1>3 DEF Halfway, BusyPcs
  <2> QED
    BY <1>1, <2>1 DEF IInv, ElementsAreWhole, SameContents
<1>6. ValuesAreStored'
  BY <1>1 DEF IInv, ValuesAreStored, SameContents
<1>7. SizesCover'
  <2>1. \A u \in Threads, g \in Live : \A i : Uncounted(u, g, i)' <=> Uncounted(u, g, i)
    BY <1>3 DEF Uncounted, BusyPcs
  <2>2. \A u \in Threads : pc'[u] = "store_val" =>
          /\ u # t /\ pc[u] = "store_val" /\ arr[u] \in Gens
    BY <1>2, <1>3 DEF BusyPcs, AccessPcs, StorePcs
  <2>3. \A u \in Threads : pc'[u] = "store_val" =>
          gen'[arr'[u]].table[op'[u].index].type = op'[u].value
    BY <1>3, <2>2 DEF IInv, SizesCover, SameContents
  <2>4. \A g \in Live' : gen'[g].size <= gen'[g].alloc_size /\ gen'[g].creator = Creator
    BY <1>1 DEF IInv, SizesCover, SameContents, SameShape
  <2>5. ASSUME NEW g \in Live, NEW k \in DOMAIN history, Link(g)' = NULL, NEW i,
               i = history[k].index
        PROVE  i < gen'[g].size \/ \E u \in Threads : Uncounted(u, g, i)'
    BY <1>1, <2>1, <2>5 DEF IInv, SizesCover, SameContents
  <2> QED
    BY <1>1, <2>3, <2>4, <2>5 DEF SizesCover, SameContents, Uncounted
<1>8. ReadersSeeWrites'
  <2>1. ASSUME NEW u \in Threads \ {t} PROVE ReaderIsGood(u)'
    <3>1. pc[u] \in ReadPcs => arr[u] \in Gens
      BY <1>2, PcSets
    <3> QED
      BY <1>3, <3>1, ReaderKept DEF SameContents
  <2> QED
    BY <2>1 DEF ReadersSeeWrites
<1>9. ThreadsAreInOrder'
  BY ThreadsKept
<1> QED
  BY <1>1, <1>4, <1>5, <1>6, <1>7, <1>8, <1>9 DEF IInv

(* Such a step that does not touch the lock of any generation either.      *)
LEMMA UnlockedStep ==
  ASSUME IInv, NEW t \in Threads, UNCHANGED <<gen, ref>>, OthersStay(t),
         pc'[t] = "publish" <=> pc[t] = "publish", pc[t] = "publish" => new'[t] = new[t]
  PROVE  /\ SameShape /\ Findable' = Findable /\ Live' = Live
         /\ \A g \in Gens : Link(g)' = Link(g)
         /\ (\A g \in Live : (Owns(t, g)' => Owns(t, g)) /\ (Counted(t, g)' <=> Counted(t, g)))
              => LocksAreHeld'
<1>1. SameShape
  BY DEF SameShape, OthersStay
<1>2. /\ Findable' = Findable /\ Live' = Live /\ \A g \in Gens : Link(g)' = Link(g)
  BY <1>1, ShapeKept DEF IInv
<1>3. ASSUME \A g \in Live : (Owns(t, g)' => Owns(t, g)) /\ (Counted(t, g)' <=> Counted(t, g))
      PROVE  LocksAreHeld'
  <2>1. \A u \in Threads, g \in Live : (Owns(u, g)' => Owns(u, g))
                                         /\ (Counted(u, g)' <=> Counted(u, g))
    BY <1>1, <1>3, OthersHold
  <2> QED
    BY <1>2, <2>1, LocksKept
<1> QED
  BY <1>1, <1>2, <1>3

(* A thread at such a point has no lock.                                   *)
FreePcs == {"idle", "retry", "promote", "lock", "done"} \cup ReadPcs

LEMMA FreeOwnsNothing ==
  ASSUME NEW t \in Threads
  PROVE  /\ pc[t] \in FreePcs => \A g : ~Owns(t, g) /\ ~Counted(t, g)
         /\ pc'[t] \in FreePcs => \A g : ~Owns(t, g)' /\ ~Counted(t, g)'
         /\ pc'[t] \in {"store_type"} /\ ~gen'[arr'[t]].shared =>
              \A g : ~Owns(t, g)' /\ ~Counted(t, g)'
         /\ FreePcs \cap (BusyPcs \cup {"publish"}) = {}
         /\ FreePcs \cap WritePcs = {"lock"}
BY DEF FreePcs, ReadPcs, Owns, Counted, LockedPcs, StorePcs, BusyPcs, WritePcs

(* A step between points without lock that changes no generation.          *)
LEMMA FreeStep ==
  ASSUME IInv, NEW t \in Threads, UNCHANGED <<gen, ref, history>>, OthersStay(t), TypeOK',
         pc[t] \in FreePcs,
         pc'[t] \in FreePcs \/ (pc'[t] = "store_type" /\ ~gen'[arr'[t]].shared),
         PointersAreGood(t)', OperationIsKept(t)', SharingIsKept(t)', ReaderIsGood(t)'
  PROVE  IInv'
<1>1. pc[t] # "publish" /\ pc'[t] # "publish" /\ pc[t] \notin BusyPcs
      /\ (pc'[t] \notin BusyPcs \/ (pc'[t] = "store_type" /\ ~gen'[arr'[t]].shared))
  BY FreeOwnsNothing
<1>2. \A g \in Live : (Owns(t, g)' => Owns(t, g)) /\ (Counted(t, g)' <=> Counted(t, g))
  BY FreeOwnsNothing
<1>3. SameShape /\ LocksAreHeld'
  BY <1>1, <1>2, UnlockedStep
<1>4. SameContents
  BY DEF SameContents
<1> QED
  BY <1>1, <1>3, <1>4, QuietStep

-----------------------------------------------------------------------------
(* The start of an operation.                                              *)

LEMMA IndexIsNat ==
  \A i \in Indices : i \in Nat
BY ArrayAssumption

LEMMA RequestsAreTyped ==
  ASSUME IInv, NEW t \in Threads, NEW o \in Requests(t)
  PROVE  /\ o \in Ops /\ o.kind \in {"read", "write"} /\ o.index \in Indices
         /\ pc[t] \in {"idle", "retry"}
         /\ pc[t] = "idle" /\ o.kind = "write" => nwrites < MaxWrites
<1>1. CASE pc[t] = "retry"
  <2>1. o = op[t]
    BY <1>1 DEF Requests
  <2>2. op[t] \in Ops
    BY DEF IInv, TypeOK
  <2>3. OperationIsKept(t)
    BY DEF IInv, ThreadsAreInOrder
  <2>4. pc[t] \notin {"idle", "done"} \cup ReadPcs \cup WritePcs
    BY <1>1 DEF ReadPcs, WritePcs, StorePcs, LockedPcs
  <2> QED
    BY <1>1, <2>1, <2>2, <2>3, <2>4 DEF OperationIsKept, Ops
<1>2. CASE pc[t] = "idle"
  <2>1. o \in {[kind |-> "read", index |-> i, value |-> 0] :
                 i \in IF t \in Readers THEN Indices ELSE {}} \cup
              {[kind |-> "write", index |-> i, value |-> nwrites + 1] :
                 i \in IF t \in Writers /\ nwrites < MaxWrites THEN Indices ELSE {}}
    BY <1>2 DEF Requests
  <2>2. nwrites \in Nat /\ MaxWrites \in Nat /\ nwrites <= MaxWrites
    BY ArrayAssumption DEF IInv, TypeOK, Values
  <2>3. CASE \E i \in Indices : o = [kind |-> "read", index |-> i, value |-> 0]
    BY <1>2, <2>2, <2>3 DEF Ops, Values
  <2>4. CASE nwrites < MaxWrites
             /\ \E i \in Indices : o = [kind |-> "write", index |-> i, value |-> nwrites + 1]
    BY <1>2, <2>2, <2>4 DEF Ops, Values
  <2> QED
    BY <2>1, <2>3, <2>4
<1>3. CASE pc[t] \notin {"idle", "retry"}
  BY <1>3 DEF Requests
<1> QED
  BY <1>1, <1>2, <1>3

(* Whoever may access the newest generation may access a new one too.      *)
LEMMA TipsAreShared ==
  ASSUME IInv, NEW g \in Live, Link(g) = NULL
  PROVE  gen[g].shared = gen[Newest].shared /\ gen[Newest].creator = Creator
<1>1. Newest \in Live /\ gen[Newest].creator = Creator
  BY NewestIsTip DEF IInv, SizesCover
<1>2. CASE g \in Findable
  BY <1>1, <1>2, NewestIsTip DEF IInv
<1>3. CASE g \notin Findable
  <2>1. PICK u \in Threads : pc[u] = "publish" /\ new[u] = g
    BY <1>3 DEF Findable, Private
  <2>2. pc[u] \in AccessPcs /\ pc[u] \in TipPcs
    BY <2>1 DEF AccessPcs, LockedPcs, TipPcs
  <2>3. arr[u] = Newest /\ gen[g].shared = gen[arr[u]].shared
    BY <2>1, <2>2, NewestIsTip DEF IInv, ThreadsAreInOrder, PointersAreGood
  <2> QED
    BY <1>1, <2>3
<1> QED
  BY <1>2, <1>3

LEMMA BeginEffect ==
  ASSUME IInv, NEW t \in Threads, NEW o \in Requests(t), Begin(t, o)
  PROVE  /\ op' \in [Threads -> Ops] /\ arr' \in [Threads -> Gens \cup {NULL}]
         /\ seen' \in [Threads -> Nat] /\ nwrites' \in Values
         /\ op'[t] = o /\ arr'[t] = Newest /\ seen'[t] <= Len(history)
         /\ Newest \in Findable /\ Link(Newest) = NULL /\ Newest \in Live /\ Newest \in Gens
         /\ Len(history) \in Nat
         /\ \A u \in Threads \ {t} : op'[u] = op[u] /\ arr'[u] = arr[u] /\ seen'[u] = seen[u]
<1>1. Newest \in Findable /\ Link(Newest) = NULL /\ Newest \in Live /\ Newest \in Gens
  BY NewestIsTip DEF IInv
<1>2. o \in Ops /\ (pc[t] = "idle" /\ o.kind = "write" => nwrites < MaxWrites)
  BY RequestsAreTyped
<1>3. history \in Seq(Writes) /\ Len(history) \in Nat
  BY DEF IInv, TypeOK, Writes
<1>4. nwrites' \in Values
  BY <1>2, ArrayAssumption DEF Begin, IInv, TypeOK, Values
<1>5. seen' \in [Threads -> Nat] /\ seen'[t] <= Len(history)
  BY <1>3 DEF Begin, IInv, TypeOK, ReadersSeeWrites, ReaderIsGood
<1> QED
  BY <1>1, <1>2, <1>3, <1>4, <1>5 DEF Begin, IInv, TypeOK

(* Where the operation may begin.                                          *)
StartPcs == {"promote", "seq_begin", "load_type", "lock", "store_type"}

LEMMA BeginKeeps ==
  ASSUME IInv, NEW t \in Threads, NEW o \in Requests(t), Begin(t, o), NEW to \in StartPcs,
         pc' = [pc EXCEPT ![t] = to], UNCHANGED <<gen, ref, new, new_size, val, history>>,
         seq1' \in [Threads -> Nat \cup {Local}],
         \A u \in Threads \ {t} : seq1'[u] = seq1[u],
         MayAccess(t) \/ to = "promote",
         to \in {"seq_begin", "load_type"} => o.kind = "read",
         to \in {"lock", "store_type"} => o.kind = "write",
         to = "seq_begin" => gen[Newest].shared /\ seq1'[t] = 0,
         to = "load_type" => ~gen[Newest].shared /\ seq1'[t] = Local,
         to = "store_type" => ~gen[Newest].shared /\ InRange(o),
         to = "lock" => gen[Newest].shared \/ ~InRange(o)
  PROVE  IInv'
<1>1. /\ op' \in [Threads -> Ops] /\ arr' \in [Threads -> Gens \cup {NULL}]
      /\ seen' \in [Threads -> Nat] /\ nwrites' \in Values
      /\ op'[t] = o /\ arr'[t] = Newest /\ seen'[t] <= Len(history)
      /\ Newest \in Findable /\ Link(Newest) = NULL /\ Newest \in Live /\ Newest \in Gens
      /\ Len(history) \in Nat
      /\ \A u \in Threads \ {t} : op'[u] = op[u] /\ arr'[u] = arr[u] /\ seen'[u] = seen[u]
  BY BeginEffect
<1>2. /\ pc[t] \in {"idle", "retry"} /\ o.index \in Indices /\ o.kind \in {"read", "write"}
      /\ o \in Ops
  BY RequestsAreTyped
<1>3. pc'[t] = to /\ pc' \in [Threads -> Pcs] /\ \A u \in Threads \ {t} : pc'[u] = pc[u]
  BY DEF IInv, TypeOK, StartPcs, Pcs, OutPcs, AccessPcs, ReadPcs, StorePcs
<1>4. OthersStay(t)
  BY <1>1, <1>3 DEF OthersStay
<1>5. TypeOK'
  <2>1. Live' = Live
    BY DEF Live
  <2> QED
    BY <1>1, <1>3, <2>1 DEF IInv, TypeOK
<1>6. /\ Findable' = Findable /\ Live' = Live /\ \A g \in Gens : Link(g)' = Link(g)
      /\ pc[t] \in FreePcs
      /\ pc'[t] \in FreePcs \/ (pc'[t] = "store_type" /\ ~gen'[arr'[t]].shared)
  <2>1. pc'[t] # "publish" /\ pc[t] # "publish"
    BY <1>2, <1>3 DEF StartPcs
  <2>2. pc[t] \in FreePcs /\ (pc'[t] \in FreePcs \/ pc'[t] = "store_type")
    BY <1>2, <1>3 DEF FreePcs, StartPcs, ReadPcs
  <2> QED
    BY <1>1, <1>3, <1>4, <2>1, <2>2, UnlockedStep
<1>7. PointersAreGood(t)'
  BY <1>1, <1>3, <1>6 DEF PointersAreGood, Link, StartPcs
<1>8. OperationIsKept(t)'
  <2>1. Newest \in Live /\ gen[Newest].alloc_size \in Nat /\ o.index \in Nat
    BY <1>1, <1>2, IndexIsNat DEF IInv, TypeOK, Generation
  <2>2. /\ to \in ReadPcs \cup {"done"} => to \in {"seq_begin", "load_type"}
        /\ to \in WritePcs => to \in {"lock", "store_type"}
        /\ to \in StorePcs \cup {"seq_odd", "seq_even"} => to = "store_type"
        /\ to \in {"lock", "check_newer"} => to = "lock"
    BY DEF StartPcs, ReadPcs, WritePcs, StorePcs, LockedPcs
  <2> QED
    BY <1>1, <1>2, <1>3, <2>1, <2>2 DEF OperationIsKept, InRange
<1>9. SharingIsKept(t)'
  <2>1. ASSUME NEW g \in Live, t # Creator, Link(g) = NULL, to # "promote"
        PROVE  gen[g].shared
    BY <2>1, TipsAreShared DEF MayAccess
  <2>2. \A g \in Live' : to \in AccessPcs \cup {"alloc"} /\ t # Creator /\ Link(g)' = NULL =>
          gen'[g].shared
    BY <1>6, <2>1 DEF AccessPcs, ReadPcs, StorePcs, LockedPcs, Link
  <2>3. LocalReads(t)' => to = "load_type"
    BY <1>3 DEF LocalReads, StartPcs
  <2>4. to = "load_type" => t = Creator /\ Link(arr[t])' = NULL /\ ~gen'[arr'[t]].shared
    <3>1. gen[Newest].creator = Creator
      BY <1>1, TipsAreShared
    <3> QED
      BY <1>1, <3>1 DEF MayAccess, Link
  <2>5. /\ to \in {"seq_begin", "seq_end"} => to = "seq_begin"
        /\ to \in ReadPcs => to \in {"seq_begin", "load_type"}
        /\ to \notin {"seq_odd", "seq_even"} /\ 0 # Local
    BY DEF StartPcs, ReadPcs, Local
  <2> QED
    BY <1>1, <1>3, <2>2, <2>3, <2>4, <2>5 DEF SharingIsKept, Link
<1>10. ReaderIsGood(t)'
  <2>1. WasCurrent(t, gen[arr[t]].table[op[t].index].val)'
    <3>1. gen'[arr'[t]].table[op'[t].index].val = LastWrite(history, o.index)
      BY <1>1, <1>2 DEF IInv, ValuesAreStored
    <3>2. SubSeq(history, 1, Len(history)) = history /\ Len(history) = Len(history')
      BY Prefixes DEF IInv, TypeOK, Writes
    <3>3. Len(history) \in seen'[t] .. Len(history')
      <4>1. seen'[t] \in Nat
        BY <1>1
      <4> QED
        BY <1>1, <3>2, <4>1
    <3> QED
      BY <1>1, <3>1, <3>2, <3>3 DEF WasCurrent
  <2>2. /\ to \notin {"seq_end", "done", "load_val"}
        /\ to \in {"load_type", "load_val", "seq_end"} => to = "load_type"
    BY DEF StartPcs
  <2> QED
    BY <1>1, <1>3, <2>1, <2>2 DEF ReaderIsGood
<1> QED
  BY <1>4, <1>5, <1>6, <1>7, <1>8, <1>9, <1>10, FreeStep

LEMMA StartKeeps ==
  ASSUME IInv, NEW t \in Threads, StartPromotion(t) \/ StartRead(t) \/ StartWrite(t)
  PROVE  IInv'
<1>1. /\ seq1 \in [Threads -> Nat \cup {Local}]
      /\ {"promote", "seq_begin", "load_type", "lock", "store_type"} = StartPcs
  BY DEF IInv, TypeOK, StartPcs
<1>2. CASE StartPromotion(t)
  <2>1. PICK o \in Requests(t) : Begin(t, o)
    BY <1>2 DEF StartPromotion
  <2>2. pc' = [pc EXCEPT ![t] = "promote"] /\ UNCHANGED <<gen, ref, new, new_size, seq1, val, history>>
    BY <1>2 DEF StartPromotion
  <2>3. PICK to \in StartPcs : to = "promote"
    BY <1>1
  <2> QED
    BY <1>1, <2>1, <2>2, <2>3, BeginKeeps
<1>3. CASE StartRead(t)
  <2>1. PICK o \in Requests(t) : o.kind = "read" /\ InRange(o) /\ Begin(t, o)
    BY <1>3 DEF StartRead
  <2>2. /\ MayAccess(t)
        /\ pc' = [pc EXCEPT ![t] = IF gen[Newest].shared THEN "seq_begin" ELSE "load_type"]
        /\ seq1' = [seq1 EXCEPT ![t] = IF gen[Newest].shared THEN 0 ELSE Local]
        /\ UNCHANGED <<gen, ref, new, new_size, val, history>>
    BY <1>3 DEF StartRead
  <2>3. PICK to \in StartPcs : to = IF gen[Newest].shared THEN "seq_begin" ELSE "load_type"
    BY <1>1
  <2>4. /\ seq1' \in [Threads -> Nat \cup {Local}]
        /\ \A u \in Threads \ {t} : seq1'[u] = seq1[u]
        /\ seq1'[t] = IF gen[Newest].shared THEN 0 ELSE Local
    BY <1>1, <2>2
  <2> QED
    BY <2>1, <2>2, <2>3, <2>4, BeginKeeps
<1>4. CASE StartWrite(t)
  <2>1. PICK o \in Requests(t) :
          /\ o.kind = "write" /\ Begin(t, o)
          /\ pc' = [pc EXCEPT ![t] = IF InRange(o) /\ ~gen[Newest].shared
                                     THEN "store_type" ELSE "lock"]
    BY <1>4 DEF StartWrite
  <2>2. MayAccess(t) /\ UNCHANGED <<gen, ref, new, new_size, seq1, val, history>>
    BY <1>4 DEF StartWrite
  <2>3. PICK to \in StartPcs : to = IF InRange(o) /\ ~gen[Newest].shared
                                    THEN "store_type" ELSE "lock"
    BY <1>1
  <2> QED
    BY <1>1, <2>1, <2>2, <2>3, BeginKeeps
<1> QED
  BY <1>2, <1>3, <1>4

-----------------------------------------------------------------------------
(* Operations that end or wait, and the steps of a read.                   *)

LEMMA SeenIsPast ==
  ASSUME IInv, NEW t \in Threads
  PROVE  Len(history) \in Nat /\ seen[t] \in Nat /\ seen[t] <= Len(history)
BY DEF IInv, TypeOK, ReadersSeeWrites, ReaderIsGood

LEMMA ReturnedIsGood ==
  ASSUME NEW t \in Threads, pc'[t] = "idle", seen'[t] = 0, Len(history') \in Nat
  PROVE  (PointersAreGood(t) /\ OperationIsKept(t) /\ SharingIsKept(t) /\ ReaderIsGood(t))'
<1>1. "idle" \notin AccessPcs \cup TipPcs \cup ReadPcs \cup StorePcs \cup WritePcs
  BY DEF AccessPcs, TipPcs, ReadPcs, StorePcs, LockedPcs, WritePcs
<1>2. PointersAreGood(t)'
  BY <1>1 DEF PointersAreGood
<1>3. OperationIsKept(t)'
  BY <1>1 DEF OperationIsKept
<1>4. SharingIsKept(t)'
  BY <1>1 DEF SharingIsKept, LocalReads
<1>5. ReaderIsGood(t)'
  BY <1>1 DEF ReaderIsGood
<1> QED
  BY <1>2, <1>3, <1>4, <1>5

LEMMA WaitingIsGood ==
  ASSUME IInv, NEW t \in Threads, pc'[t] \in {"retry", "promote"}, op'[t] = op[t],
         op[t].index \in Indices, op[t].kind # "none", seen'[t] = seen[t], UNCHANGED history
  PROVE  (PointersAreGood(t) /\ OperationIsKept(t) /\ SharingIsKept(t) /\ ReaderIsGood(t))'
<1>1. pc'[t] \notin AccessPcs \cup TipPcs \cup ReadPcs \cup StorePcs \cup WritePcs
  BY DEF AccessPcs, TipPcs, ReadPcs, StorePcs, LockedPcs, WritePcs
<1>2. PointersAreGood(t)'
  BY <1>1 DEF PointersAreGood
<1>3. OperationIsKept(t)'
  BY <1>1 DEF OperationIsKept
<1>4. SharingIsKept(t)'
  BY <1>1 DEF SharingIsKept, LocalReads
<1>5. ReaderIsGood(t)'
  BY <1>1, SeenIsPast DEF ReaderIsGood
<1> QED
  BY <1>2, <1>3, <1>4, <1>5

LEMMA ReturnEffect ==
  ASSUME IInv, NEW t \in Threads, Return(t)
  PROVE  /\ op' \in [Threads -> Ops] /\ arr' \in [Threads -> Gens \cup {NULL}]
         /\ new' \in [Threads -> Gens \cup {NULL}] /\ seq1' \in [Threads -> Nat \cup {Local}]
         /\ val' \in [Threads -> Words] /\ seen' \in [Threads -> Nat] /\ seen'[t] = 0
         /\ new_size' \in [Threads -> Nat]
         /\ \A u \in Threads \ {t} :
              /\ op'[u] = op[u] /\ arr'[u] = arr[u] /\ new'[u] = new[u]
              /\ seq1'[u] = seq1[u] /\ val'[u] = val[u] /\ seen'[u] = seen[u]
<1>1. NoOp \in Ops /\ Zero \in Words
  BY ArrayAssumption DEF NoOp, Ops, Zero, Words, Values
<1> QED
  BY <1>1 DEF Return, IInv, TypeOK

LEMMA FreeReturnKeeps ==
  ASSUME IInv, NEW t \in Threads, ReadOutOfRange(t) \/ FinishRead(t)
  PROVE  IInv'
<1>1. /\ pc[t] \in {"idle", "retry", "done"} /\ pc' = [pc EXCEPT ![t] = "idle"]
      /\ Return(t) /\ UNCHANGED <<gen, ref, nwrites, history>>
  <2>1. CASE ReadOutOfRange(t)
    BY <2>1, RequestsAreTyped DEF ReadOutOfRange
  <2>2. CASE FinishRead(t)
    BY <2>2 DEF FinishRead, Goto
  <2> QED
    BY <2>1, <2>2
<1>2. /\ pc' \in [Threads -> Pcs] /\ pc'[t] = "idle" /\ \A u \in Threads \ {t} : pc'[u] = pc[u]
      /\ pc[t] \in FreePcs /\ pc'[t] \in FreePcs
  BY <1>1 DEF IInv, TypeOK, Pcs, OutPcs, FreePcs
<1>3. TypeOK'
  <2>1. Live' = Live
    BY <1>1 DEF Live
  <2> QED
    BY <1>1, <1>2, <2>1, ReturnEffect DEF IInv, TypeOK
<1>4. OthersStay(t)
  BY <1>1, <1>2, ReturnEffect DEF OthersStay
<1>5. (PointersAreGood(t) /\ OperationIsKept(t) /\ SharingIsKept(t) /\ ReaderIsGood(t))'
  BY <1>1, <1>2, ReturnEffect, ReturnedIsGood, SeenIsPast
<1> QED
  BY <1>1, <1>2, <1>3, <1>4, <1>5, FreeStep

LEMMA ReadStep ==
  ASSUME IInv, NEW t \in Threads, NEW to \in ReadPcs \cup {"done"}, pc[t] \in ReadPcs,
         pc' = [pc EXCEPT ![t] = to],
         UNCHANGED <<gen, ref, op, arr, new, new_size, nwrites, history, seen>>,
         seq1' \in [Threads -> Nat \cup {Local}], val' \in [Threads -> Words],
         \A u \in Threads \ {t} : seq1'[u] = seq1[u] /\ val'[u] = val[u],
         LocalReads(t)' => LocalReads(t),
         to \in {"seq_begin", "seq_end"} => seq1'[t] # Local,
         to \in ReadPcs /\ seq1'[t] # Local => gen[arr[t]].shared,
         ReaderIsGood(t)'
  PROVE  IInv'
<1>1. /\ pc' \in [Threads -> Pcs] /\ pc'[t] = to /\ \A u \in Threads \ {t} : pc'[u] = pc[u]
      /\ pc[t] \in FreePcs /\ pc'[t] \in FreePcs
  BY DEF IInv, TypeOK, Pcs, AccessPcs, FreePcs
<1>2. TypeOK'
  <2>1. Live' = Live
    BY DEF Live
  <2> QED
    BY <1>1, <2>1 DEF IInv, TypeOK
<1>3. OthersStay(t)
  BY <1>1 DEF OthersStay
<1>4. /\ Findable' = Findable /\ Live' = Live /\ \A g \in Gens : Link(g)' = Link(g)
      /\ Findable \subseteq Live /\ Live \subseteq Gens
  <2>1. pc[t] # "publish" /\ pc'[t] # "publish"
    BY <1>1, FreeOwnsNothing
  <2> QED
    BY <1>3, <2>1, UnlockedStep, NewestIsTip DEF IInv
<1>5. /\ to \notin TipPcs \cup WritePcs \cup StorePcs /\ to # "idle"
      /\ pc[t] \in AccessPcs /\ pc[t] # "idle"
  BY DEF ReadPcs, AccessPcs, TipPcs, WritePcs, StorePcs, LockedPcs
<1>6. PointersAreGood(t)'
  <2>1. to \notin {"publish", "unlock_old"} /\ arr[t] \in Findable
    BY <1>5 DEF ReadPcs, IInv, ThreadsAreInOrder, PointersAreGood
  <2> QED
    BY <1>1, <1>4, <1>5, <2>1 DEF PointersAreGood
<1>7. OperationIsKept(t)'
  <2>1. op[t].index \in Indices /\ op[t].kind = "read"
    BY <1>5 DEF IInv, ThreadsAreInOrder, OperationIsKept
  <2>2. to \notin {"seq_odd", "seq_even", "lock", "check_newer"}
    BY DEF ReadPcs
  <2> QED
    BY <1>1, <1>5, <2>1, <2>2 DEF OperationIsKept
<1>8. SharingIsKept(t)'
  <2>1. \A g \in Live : t # Creator /\ Link(g) = NULL => gen[g].shared
    BY <1>5 DEF IInv, ThreadsAreInOrder, SharingIsKept
  <2>2. LocalReads(t)' => t = Creator /\ Link(arr[t])' = NULL /\ ~gen[arr[t]].shared
    BY DEF IInv, ThreadsAreInOrder, SharingIsKept, Link
  <2>3. to \notin {"seq_odd", "seq_even"}
    BY DEF ReadPcs
  <2> QED
    BY <1>1, <1>4, <2>1, <2>2, <2>3 DEF SharingIsKept
<1> QED
  BY <1>1, <1>2, <1>3, <1>6, <1>7, <1>8, FreeStep

LEMMA ReaderPointsWell ==
  ASSUME IInv, NEW t \in Threads, pc[t] \in ReadPcs
  PROVE  /\ arr[t] \in Live /\ gen[arr[t]].seqlock \in Nat /\ op[t].index \in Indices
         /\ gen[arr[t]].table[op[t].index] \in Words
         /\ seq1 \in [Threads -> Nat \cup {Local}] /\ val \in [Threads -> Words]
<1>1. arr[t] \in Live /\ Live \subseteq Gens
  BY NewestIsTip, PcSets DEF IInv, ThreadsAreInOrder, PointersAreGood
<1>2. op[t].index \in Indices
  BY DEF IInv, ThreadsAreInOrder, OperationIsKept, ReadPcs
<1>3. gen[arr[t]] \in Generation
  BY <1>1 DEF IInv, TypeOK
<1> QED
  BY <1>1, <1>2, <1>3 DEF Generation, IInv, TypeOK

(* What a reader finds unchanged under its SeqLock, or alone, is whole.    *)
LEMMA ElementIsWhole ==
  ASSUME IInv, NEW t \in Threads, pc[t] = "load_val", seq1[t] \in {Local, gen[arr[t]].seqlock}
  PROVE  gen[arr[t]].table[op[t].index].type = gen[arr[t]].table[op[t].index].val
<1>1. pc[t] \in ReadPcs /\ arr[t] \in Live /\ op[t].index \in Indices
      /\ gen[arr[t]].seqlock \in Nat
  BY ReaderPointsWell DEF ReadPcs
<1>2. SUFFICES ASSUME NEW u \in Threads, pc[u] = "store_val", arr[u] = arr[t] PROVE FALSE
  BY <1>1 DEF IInv, ElementsAreWhole, Halfway
<1>3. CASE seq1[t] = Local
  <2>1. LocalReads(t)
    BY <1>3 DEF LocalReads
  <2>2. t = Creator /\ Link(arr[t]) = NULL /\ ~gen[arr[t]].shared
    BY <2>1 DEF IInv, ThreadsAreInOrder, SharingIsKept
  <2>3. pc[u] \in AccessPcs
    BY <1>2 DEF AccessPcs, StorePcs
  <2>4. u = Creator
    BY <1>1, <2>2, <2>3 DEF IInv, ThreadsAreInOrder, SharingIsKept
  <2> QED
    BY <1>2, <2>2, <2>4
<1>4. CASE seq1[t] # Local
  <2>1. gen[arr[t]].shared
    BY <1>1, <1>4 DEF IInv, ThreadsAreInOrder, SharingIsKept
  <2>2. Unstable(u, arr[t])
    BY <1>2, <2>1 DEF Unstable
  <2>3. gen[arr[t]].seqlock % 2 = 1
    BY <1>1, <2>2 DEF IInv, SeqLocksMatch
  <2>4. gen[arr[t]].seqlock % 2 = 0
    BY <1>4 DEF IInv, ReadersSeeWrites, ReaderIsGood
  <2> QED
    BY <2>3, <2>4
<1> QED
  BY <1>3, <1>4

LEMMA ReadKeeps ==
  ASSUME IInv, NEW t \in Threads,
         SeqBegin(t) \/ LoadType(t) \/ LoadVal(t) \/ SeqEnd(t)
  PROVE  IInv'
<1>1. pc[t] \in ReadPcs /\ {"seq_begin", "load_type", "load_val", "seq_end"} = ReadPcs
  BY DEF SeqBegin, LoadType, LoadVal, SeqEnd, Goto, ReadPcs
<1>2. /\ arr[t] \in Live /\ gen[arr[t]].seqlock \in Nat /\ op[t].index \in Indices
      /\ gen[arr[t]].table[op[t].index] \in Words
      /\ seq1 \in [Threads -> Nat \cup {Local}] /\ val \in [Threads -> Words]
  BY <1>1, ReaderPointsWell
<1>3. /\ seq1[t] # Local => gen[arr[t]].shared
      /\ pc[t] \in {"seq_begin", "seq_end"} => seq1[t] # Local
  BY <1>1 DEF IInv, ThreadsAreInOrder, SharingIsKept
<1>4. ReaderIsGood(t) /\ WasCurrent(t, gen[arr[t]].table[op[t].index].val)
  BY <1>1 DEF IInv, ReadersSeeWrites, ReaderIsGood
<1>5. UNCHANGED <<op, history, seen>> => \A v : WasCurrent(t, v)' <=> WasCurrent(t, v)
  BY DEF WasCurrent
<1>6. \A n \in Nat : n # Local
  BY DEF Local
<1>7. CASE SeqBegin(t)
  <2>1. PICK to \in ReadPcs \cup {"done"} : to = "load_type"
    BY <1>1
  <2>2. /\ pc[t] = "seq_begin" /\ pc' = [pc EXCEPT ![t] = to] /\ pc'[t] = to
        /\ UNCHANGED <<gen, ref, op, arr, new, new_size, val, nwrites, history, seen>>
        /\ seq1' \in [Threads -> Nat \cup {Local}] /\ seq1'[t] = gen[arr[t]].seqlock
        /\ seq1'[t] % 2 = 0 /\ \A u \in Threads \ {t} : seq1'[u] = seq1[u]
    BY <1>2, <1>7, <2>1 DEF SeqBegin, Goto, IInv, TypeOK
  <2>3. ReaderIsGood(t)'
    BY SMTT(30), <1>2, <1>4, <1>5, <2>1, <2>2 DEF ReaderIsGood
  <2>4. gen[arr[t]].shared /\ ~LocalReads(t)'
    BY <1>2, <1>3, <1>6, <2>2 DEF LocalReads
  <2> QED
    BY <1>1, <1>2, <1>6, <2>1, <2>2, <2>3, <2>4, ReadStep
<1>8. CASE LoadType(t)
  <2>1. PICK to \in ReadPcs \cup {"done"} : to = "load_val"
    BY <1>1
  <2>2. /\ pc[t] = "load_type" /\ pc' = [pc EXCEPT ![t] = to] /\ pc'[t] = to
        /\ UNCHANGED <<gen, ref, op, arr, new, new_size, seq1, nwrites, history, seen>>
    BY <1>8, <2>1 DEF LoadType, Goto, IInv, TypeOK
  <2>3. /\ val' \in [Threads -> Words] /\ \A u \in Threads \ {t} : val'[u] = val[u]
        /\ val'[t].type = gen[arr[t]].table[op[t].index].type
    BY <1>2, <1>8 DEF LoadType, Words
  <2>4. ReaderIsGood(t)'
    BY <1>2, <1>4, <1>5, <2>1, <2>2, <2>3 DEF ReaderIsGood
  <2>5. LocalReads(t)' => LocalReads(t)
    BY <2>1, <2>2 DEF LocalReads
  <2> QED
    BY <1>1, <1>2, <1>3, <2>1, <2>2, <2>3, <2>4, <2>5, ReadStep
<1>9. CASE LoadVal(t)
  <2>1. PICK to \in ReadPcs \cup {"done"} : to = IF seq1[t] = Local THEN "done" ELSE "seq_end"
    BY <1>1
  <2>2. /\ pc[t] = "load_val" /\ pc' = [pc EXCEPT ![t] = to] /\ pc'[t] = to
        /\ UNCHANGED <<gen, ref, op, arr, new, new_size, seq1, nwrites, history, seen>>
    BY <1>9, <2>1 DEF LoadVal, Goto, IInv, TypeOK
  <2>3. /\ val' \in [Threads -> Words] /\ \A u \in Threads \ {t} : val'[u] = val[u]
        /\ val'[t].val = gen[arr[t]].table[op[t].index].val /\ val'[t].type = val[t].type
    BY <1>2, <1>9 DEF LoadVal, Words
  <2>4. seq1[t] \in {Local, gen[arr[t]].seqlock} =>
          /\ val[t].type = gen[arr[t]].table[op[t].index].type
          /\ val'[t].type = val'[t].val
    BY <1>4, <2>2, <2>3, ElementIsWhole DEF ReaderIsGood
  <2>5. ReaderIsGood(t)'
    <3>1. \A v : WasCurrent(t, v)' <=> WasCurrent(t, v)
      BY <1>5, <2>2
    <3>2. WasCurrent(t, val[t].val)' /\ WasCurrent(t, gen[arr[t]].table[op[t].index].val)'
      BY <1>4, <2>2, <2>3, <3>1
    <3>3. /\ seen[t] <= Len(history) /\ pc'[t] # "load_type" /\ pc'[t] # "load_val"
          /\ seq1[t] # Local => seq1[t] % 2 = 0 /\ seq1[t] <= gen[arr[t]].seqlock
      BY <1>4, <2>1, <2>2 DEF ReaderIsGood
    <3>4. pc'[t] = "done" => seq1[t] = Local
      BY <2>1, <2>2
    <3> QED
      BY <2>2, <2>4, <3>2, <3>3, <3>4 DEF ReaderIsGood
  <2>6. ~LocalReads(t)'
    BY <2>1, <2>2 DEF LocalReads
  <2> QED
    BY <1>1, <1>2, <1>3, <2>1, <2>2, <2>3, <2>5, <2>6, ReadStep
<1>10. CASE SeqEnd(t)
  <2>1. PICK to \in ReadPcs \cup {"done"} :
          to = IF gen[arr[t]].seqlock = seq1[t] THEN "done" ELSE "seq_begin"
    BY <1>1
  <2>2. /\ pc[t] = "seq_end" /\ pc' = [pc EXCEPT ![t] = to] /\ pc'[t] = to
        /\ UNCHANGED <<gen, ref, op, arr, new, new_size, seq1, val, nwrites, history, seen>>
    BY <1>10, <2>1 DEF SeqEnd, Goto, IInv, TypeOK
  <2>3. ReaderIsGood(t)'
    <3>1. /\ seen'[t] <= Len(history') /\ WasCurrent(t, val[t].val)
          /\ pc'[t] \in ReadPcs => WasCurrent(t, gen[arr[t]].table[op[t].index].val)
      BY <1>4, <2>2 DEF ReaderIsGood
    <3>2. \A v : WasCurrent(t, v)' <=> WasCurrent(t, v)
      BY <1>5, <2>2
    <3>3. CASE to = "seq_begin"
      BY <2>2, <3>1, <3>2, <3>3 DEF ReaderIsGood
    <3>4. CASE to = "done"
      <4>1. val[t].type = val[t].val
        BY <1>4, <2>1, <2>2, <3>4 DEF ReaderIsGood
      <4> QED
        BY <2>2, <3>1, <3>2, <3>4, <4>1 DEF ReaderIsGood
    <3> QED
      BY <2>1, <3>3, <3>4
  <2>4. ~LocalReads(t)'
    BY <2>1, <2>2 DEF LocalReads
  <2> QED
    BY <1>1, <1>2, <1>3, <2>1, <2>2, <2>3, <2>4, ReadStep
<1> QED
  BY <1>7, <1>8, <1>9, <1>10

-----------------------------------------------------------------------------
(* The steps of the write lock.                                            *)

LEMMA CountedIsPositive ==
  ASSUME IInv, NEW t \in Threads, NEW g \in Live, Counted(t, g)
  PROVE  gen[g].write_lock \in Nat /\ gen[g].write_lock > 0
<1>1. t \in Holders(g)
  BY DEF Holders
<1>2. Cardinality(Holders(g)) # 0 /\ Cardinality(Holders(g)) \in Nat
  BY <1>1, HoldersAreFinite, FS_EmptySet
<1> QED
  BY <1>2 DEF IInv, LocksAreHeld

LockFrom == {"lock", "back_off", "check_newer", "unlock_retry", "unlock_done", "unlock_old", "alloc"}
LockTo   == {"check_newer", "back_off", "unlock_retry", "unlock_done", "alloc", "retry", "idle",
             "seq_odd"}

LockMove(t, h, n, to) ==
  /\ pc[t] \in LockFrom /\ to \in LockTo /\ pc' = [pc EXCEPT ![t] = to]
  /\ gen' = [gen EXCEPT ![h].write_lock = n]
  /\ op' \in [Threads -> Ops] /\ arr' \in [Threads -> Gens \cup {NULL}]
  /\ new' \in [Threads -> Gens \cup {NULL}] /\ seq1' \in [Threads -> Nat \cup {Local}]
  /\ val' \in [Threads -> Words] /\ seen' \in [Threads -> Nat]
  /\ new_size' \in [Threads -> Nat]
  /\ \A u \in Threads \ {t} :
       /\ op'[u] = op[u] /\ arr'[u] = arr[u] /\ new'[u] = new[u]
       /\ seq1'[u] = seq1[u] /\ val'[u] = val[u] /\ seen'[u] = seen[u]
  /\ seen'[t] <= Len(history)
  /\ UNCHANGED <<ref, nwrites, history>>

LEMMA LockMoveShape ==
  ASSUME IInv, NEW t \in Threads, NEW h \in Live, NEW n \in Nat, NEW to, LockMove(t, h, n, to)
  PROVE  /\ TypeOK' /\ SameShape /\ SameContents /\ OthersStay(t)
         /\ pc'[t] = to /\ Live' = Live /\ Findable' = Findable
         /\ \A g \in Gens : /\ Link(g)' = Link(g) /\ gen'[g].shared = gen[g].shared
                            /\ gen'[g].alloc_size = gen[g].alloc_size
                            /\ gen'[g].write_lock = IF g = h THEN n ELSE gen[g].write_lock
         /\ \A u \in Threads \ {t}, g \in Live :
              (Owns(u, g)' <=> Owns(u, g)) /\ (Counted(u, g)' <=> Counted(u, g))
         /\ Findable \subseteq Live /\ Live \subseteq Gens /\ Newest \in Findable
<1>1. Live \subseteq Gens /\ Findable \subseteq Live /\ Newest \in Findable
  BY NewestIsTip DEF IInv
<1>2. LockTo \subseteq Pcs \ {"publish"} /\ LockFrom \subseteq Pcs \ {"publish"}
  BY DEF LockTo, LockFrom, Pcs, OutPcs, AccessPcs, LockedPcs
<1>3. /\ pc' \in [Threads -> Pcs] /\ pc'[t] = to /\ \A u \in Threads \ {t} : pc'[u] = pc[u]
      /\ pc[t] # "publish" /\ pc'[t] # "publish"
  BY <1>2 DEF LockMove, IInv, TypeOK
<1>4. gen \in [Gens -> Generation]
  BY DEF IInv, TypeOK
<1>5. \A g \in Gens \ {h} : gen'[g] = gen[g]
  BY <1>4 DEF LockMove
<1>6. gen'[h] = [gen[h] EXCEPT !.write_lock = n] /\ gen' = [g \in Gens |-> gen'[g]]
  BY <1>1, <1>4 DEF LockMove
<1>7. gen[h] \in Generation
  BY <1>1, <1>4
<1>8. /\ gen'[h] \in Generation /\ gen'[h].write_lock = n
      /\ gen'[h].alloc_size = gen[h].alloc_size /\ gen'[h].newer = gen[h].newer
      /\ gen'[h].shared = gen[h].shared /\ gen'[h].creator = gen[h].creator
      /\ gen'[h].table = gen[h].table /\ gen'[h].size = gen[h].size
      /\ gen'[h].seqlock = gen[h].seqlock
  BY <1>6, <1>7 DEF Generation
<1>9. OthersStay(t)
  BY <1>3 DEF OthersStay, LockMove
<1>10. SameShape /\ SameContents
  BY <1>3, <1>5, <1>8, <1>9 DEF SameShape, SameContents, LockMove, OthersStay
<1>11. /\ Live' = Live /\ Findable' = Findable /\ \A g \in Gens : Link(g)' = Link(g)
  BY <1>10, ShapeKept DEF IInv
<1>12. TypeOK'
  <2>1. gen' \in [Gens -> Generation]
    BY <1>4, <1>5, <1>6, <1>8
  <2>2. UNCHANGED <<ref, nwrites, history>>
    BY DEF LockMove
  <2> QED
    BY <1>3, <1>11, <2>1, <2>2 DEF TypeOK, LockMove, IInv
<1> QED
  BY <1>1, <1>3, <1>5, <1>8, <1>9, <1>10, <1>11, <1>12, OthersHold

LEMMA LockMoveKeeps ==
  ASSUME IInv, NEW t \in Threads, NEW h \in Live, NEW n \in Nat, NEW to, LockMove(t, h, n, to),
         PointersAreGood(t)', OperationIsKept(t)', SharingIsKept(t)', LocksAreHeld'
  PROVE  IInv'
<1>1. TypeOK' /\ SameShape /\ SameContents /\ OthersStay(t) /\ pc'[t] = to
  BY LockMoveShape
<1>2. /\ pc[t] \notin BusyPcs /\ to \notin BusyPcs
      /\ to \notin ReadPcs /\ to \notin {"load_type", "load_val", "seq_end", "done"}
  BY DEF LockMove, LockFrom, LockTo, BusyPcs, ReadPcs
<1>3. ReaderIsGood(t)'
  BY <1>1, <1>2 DEF ReaderIsGood, LockMove
<1> QED
  BY <1>1, <1>2, <1>3, QuietStep

(* Taking it.                                                              *)
LEMMA TryLockKeeps ==
  ASSUME IInv, NEW t \in Threads, TryLock(t)
  PROVE  IInv'
<1>1. pc[t] = "lock" /\ pc[t] \in AccessPcs
  BY DEF TryLock, Goto, AccessPcs
<1>2. PICK h \in Live : h = arr[t] /\ h \in Findable /\ h \in Gens
  BY <1>1, NewestIsTip DEF IInv, ThreadsAreInOrder, PointersAreGood
<1>3. gen[h].write_lock \in Nat
  BY <1>2 DEF IInv, TypeOK, Generation
<1>4. PICK n \in Nat : n = gen[h].write_lock + 1
  BY <1>3
<1>5. PICK to : to = IF gen[h].write_lock = 0 THEN "check_newer" ELSE "back_off"
  OBVIOUS
<1>6. /\ LockMove(t, h, n, to)
      /\ UNCHANGED <<op, arr, seq1>>
  BY <1>1, <1>2, <1>4, <1>5, SeenIsPast
  DEF TryLock, Goto, LockMove, LockFrom, LockTo, IInv, TypeOK
<1>7. /\ pc'[t] = to /\ Live' = Live /\ Findable' = Findable
      /\ \A g \in Gens : /\ Link(g)' = Link(g) /\ gen'[g].shared = gen[g].shared
                         /\ gen'[g].alloc_size = gen[g].alloc_size
                         /\ gen'[g].write_lock = IF g = h THEN n ELSE gen[g].write_lock
      /\ \A u \in Threads \ {t}, g \in Live :
           (Owns(u, g)' <=> Owns(u, g)) /\ (Counted(u, g)' <=> Counted(u, g))
      /\ Live \subseteq Gens
  BY <1>6, LockMoveShape
<1>8. /\ to \notin TipPcs \cup ReadPcs \cup StorePcs
      /\ to \notin {"publish", "unlock_old", "idle", "done", "seq_odd", "seq_even", "lock"}
      /\ to \in AccessPcs /\ to \in WritePcs /\ pc[t] \in WritePcs
  BY <1>1, <1>5 DEF TipPcs, ReadPcs, StorePcs, AccessPcs, WritePcs, LockedPcs
<1>9. PointersAreGood(t)'
  BY <1>2, <1>6, <1>7, <1>8 DEF PointersAreGood
<1>10. OperationIsKept(t)'
  <2>1. op[t].index \in Indices /\ op[t].kind = "write"
        /\ (~gen[h].shared => op[t].index >= gen[h].alloc_size)
    BY <1>1, <1>2, <1>8 DEF IInv, ThreadsAreInOrder, OperationIsKept
  <2> QED
    BY <1>2, <1>6, <1>7, <1>8, <2>1 DEF OperationIsKept
<1>11. SharingIsKept(t)'
  <2>1. \A g \in Live : t # Creator /\ Link(g) = NULL => gen[g].shared
    BY <1>1 DEF IInv, ThreadsAreInOrder, SharingIsKept
  <2>2. ~LocalReads(t)' /\ to \notin {"seq_begin", "seq_end"}
    BY <1>7, <1>8 DEF LocalReads, ReadPcs
  <2> QED
    BY <1>7, <1>8, <2>1, <2>2 DEF SharingIsKept
<1>12. LocksAreHeld'
  <2>1. \A g : ~Owns(t, g) /\ ~Counted(t, g)
    BY <1>1, FreeOwnsNothing DEF FreePcs
  <2>2. to = "check_newer" => to \in LockedPcs /\ gen[h].write_lock = 0
    BY <1>5 DEF LockedPcs
  <2>3. to # "check_newer" => to = "back_off" /\ to \notin LockedPcs
    BY <1>5 DEF LockedPcs
  <2>4. Counted(t, h)' /\ (Owns(t, h)' => gen[h].write_lock = 0)
    BY <1>2, <1>6, <1>7, <1>8, <2>2, <2>3 DEF Counted, Owns
  <2>5. \A g : g # h => ~Owns(t, g)' /\ ~Counted(t, g)'
    BY <1>2, <1>5, <1>6, <1>7, <1>8 DEF Counted, Owns
  <2>6. \A u \in Threads, g \in Live : <<u, g>> # <<t, h>> =>
           (Owns(u, g)' => Owns(u, g)) /\ (Counted(u, g)' <=> Counted(u, g))
    BY <1>7, <2>1, <2>5
  <2> QED
    BY <1>4, <1>7, <2>1, <2>4, <2>6, LockTaken
<1> QED
  BY <1>6, <1>9, <1>10, <1>11, <1>12, LockMoveKeeps

(* Giving it back.                                                         *)
LEMMA UnlockKeeps ==
  ASSUME IInv, NEW t \in Threads, BackOff(t) \/ UnlockRetry(t) \/ UnlockDone(t)
  PROVE  IInv'
<1>1. /\ pc[t] \in {"back_off", "unlock_retry", "unlock_done"}
      /\ gen' = [gen EXCEPT ![arr[t]].write_lock = @ - 1]
      /\ UNCHANGED <<ref, nwrites, history>>
  BY DEF BackOff, UnlockRetry, UnlockDone, Unlock, Goto
<1>2. pc[t] \in AccessPcs /\ pc[t] \in WritePcs /\ pc[t] # "idle"
      /\ (pc[t] # "back_off" => pc[t] \in LockedPcs)
  BY <1>1 DEF AccessPcs, WritePcs, LockedPcs
<1>3. PICK h \in Live : h = arr[t] /\ h \in Gens
  BY <1>2, NewestIsTip DEF IInv, ThreadsAreInOrder, PointersAreGood
<1>4. Counted(t, h)
  BY <1>1, <1>2, <1>3 DEF Counted, Owns
<1>5. gen[h].write_lock \in Nat /\ gen[h].write_lock > 0
  BY <1>4, CountedIsPositive
<1>6. PICK n \in Nat : n = gen[h].write_lock - 1
  BY <1>5
<1>7. op[t].index \in Indices /\ op[t].kind # "none"
  BY <1>2 DEF IInv, ThreadsAreInOrder, OperationIsKept
<1>8. PICK to \in {"retry", "idle"} :
        /\ LockMove(t, h, n, to)
        /\ (PointersAreGood(t) /\ OperationIsKept(t) /\ SharingIsKept(t))'
  <2>0. Len(history) \in Nat /\ seen[t] \in Nat /\ seen[t] <= Len(history)
    BY SeenIsPast
  <2>1. CASE BackOff(t) \/ UnlockRetry(t)
    <3>1. /\ LockMove(t, h, n, "retry") /\ pc'[t] = "retry" /\ UNCHANGED <<op, seen>>
      <4>1. /\ pc' = [pc EXCEPT ![t] = "retry"] /\ pc[t] \in {"back_off", "unlock_retry"}
            /\ arr' = [arr EXCEPT ![t] = NULL]
            /\ new' = new \/ new' = [new EXCEPT ![t] = NULL]
            /\ new_size' = new_size \/ new_size' = [new_size EXCEPT ![t] = 0]
            /\ UNCHANGED <<op, seq1, val, seen>>
        BY <2>1 DEF BackOff, UnlockRetry, Unlock, Goto
      <4>2. /\ arr' \in [Threads -> Gens \cup {NULL}] /\ new' \in [Threads -> Gens \cup {NULL}]
            /\ new_size' \in [Threads -> Nat] /\ pc'[t] = "retry"
            /\ \A u \in Threads \ {t} : arr'[u] = arr[u] /\ new'[u] = new[u]
        BY <4>1 DEF IInv, TypeOK
      <4> QED
        BY <1>1, <1>3, <1>6, <2>0, <4>1, <4>2 DEF LockMove, LockFrom, LockTo, IInv, TypeOK
    <3> QED
      BY <1>1, <1>7, <3>1, WaitingIsGood
  <2>2. CASE UnlockDone(t)
    <3>1. pc' = [pc EXCEPT ![t] = "idle"] /\ Return(t) /\ pc'[t] = "idle"
      BY <2>2 DEF UnlockDone, Unlock, Goto, IInv, TypeOK
    <3>2. LockMove(t, h, n, "idle") /\ seen'[t] = 0
      BY <1>1, <1>3, <1>6, <2>0, <3>1, ReturnEffect DEF LockMove, LockFrom, LockTo
    <3> QED
      BY <1>1, <2>0, <3>1, <3>2, ReturnedIsGood
  <2> QED
    BY <2>1, <2>2
<1>9. /\ pc'[t] = to /\ Live' = Live
      /\ \A g \in Gens : gen'[g].write_lock = IF g = h THEN n ELSE gen[g].write_lock
      /\ \A u \in Threads \ {t}, g \in Live :
           (Owns(u, g)' <=> Owns(u, g)) /\ (Counted(u, g)' <=> Counted(u, g))
  BY <1>8, LockMoveShape
<1>10. LocksAreHeld'
  <2>1. \A g : ~Owns(t, g)' /\ ~Counted(t, g)'
    BY <1>9, FreeOwnsNothing DEF FreePcs
  <2>2. \A g : g # h => ~Counted(t, g)
    BY <1>1, <1>3 DEF Counted, Owns, StorePcs
  <2>3. \A u \in Threads, g \in Live : <<u, g>> # <<t, h>> =>
           (Owns(u, g)' => Owns(u, g)) /\ (Counted(u, g)' <=> Counted(u, g))
    BY <1>9, <2>1, <2>2
  <2> QED
    BY <1>4, <1>6, <1>9, <2>1, <2>3, LockLeft
<1> QED
  BY <1>8, <1>10, LockMoveKeeps

(* The old generation's lock is given back and the new one's kept.         *)
LEMMA UnlockOldKeeps ==
  ASSUME IInv, NEW t \in Threads, UnlockOld(t)
  PROVE  IInv'
<1>1. /\ pc[t] = "unlock_old" /\ pc' = [pc EXCEPT ![t] = "unlock_retry"]
      /\ gen' = [gen EXCEPT ![arr[t]].write_lock = @ - 1]
      /\ arr' = [arr EXCEPT ![t] = new[t]]
      /\ UNCHANGED <<ref, op, new, new_size, seq1, val, nwrites, history, seen>>
  BY DEF UnlockOld, Unlock, Goto
<1>2. pc[t] \in AccessPcs /\ pc[t] \in WritePcs /\ pc[t] # "idle" /\ pc[t] \in LockedPcs
  BY <1>1 DEF AccessPcs, WritePcs, LockedPcs
<1>3. PICK h \in Live : h = arr[t] /\ h \in Gens
  BY <1>2, NewestIsTip DEF IInv, ThreadsAreInOrder, PointersAreGood
<1>4. new[t] \in Findable /\ new[t] # h /\ new[t] \in Gens
  BY <1>1, <1>3, NewestIsTip DEF IInv, ThreadsAreInOrder, PointersAreGood
<1>5. Counted(t, h)
  BY <1>2, <1>3 DEF Counted, Owns
<1>6. PICK n \in Nat : n = gen[h].write_lock - 1
  BY <1>5, CountedIsPositive
<1>7. /\ LockMove(t, h, n, "unlock_retry") /\ arr'[t] = new[t] /\ op'[t] = op[t]
  BY <1>1, <1>3, <1>4, <1>6, SeenIsPast DEF LockMove, LockFrom, LockTo, IInv, TypeOK
<1>8. /\ pc'[t] = "unlock_retry" /\ Live' = Live /\ Findable' = Findable
      /\ \A g \in Gens : /\ Link(g)' = Link(g) /\ gen'[g].shared = gen[g].shared
                         /\ gen'[g].write_lock = IF g = h THEN n ELSE gen[g].write_lock
      /\ \A u \in Threads \ {t}, g \in Live :
           (Owns(u, g)' <=> Owns(u, g)) /\ (Counted(u, g)' <=> Counted(u, g))
      /\ Live \subseteq Gens
  BY <1>7, LockMoveShape
<1>9. "unlock_retry" \notin TipPcs \cup ReadPcs \cup StorePcs /\ "unlock_retry" \in WritePcs
      /\ "unlock_retry" \in LockedPcs
  BY DEF TipPcs, ReadPcs, StorePcs, WritePcs, LockedPcs
<1>10. PointersAreGood(t)'
  BY <1>4, <1>7, <1>8, <1>9 DEF PointersAreGood
<1>11. OperationIsKept(t)'
  <2>1. op[t].index \in Indices /\ op[t].kind = "write"
    BY <1>2 DEF IInv, ThreadsAreInOrder, OperationIsKept
  <2> QED
    BY <1>7, <1>8, <1>9, <2>1 DEF OperationIsKept
<1>12. SharingIsKept(t)'
  <2>1. \A g \in Live : t # Creator /\ Link(g) = NULL => gen[g].shared
    BY <1>2 DEF IInv, ThreadsAreInOrder, SharingIsKept
  <2>2. ~LocalReads(t)'
    BY <1>8 DEF LocalReads
  <2> QED
    BY <1>8, <1>9, <2>1, <2>2 DEF SharingIsKept
<1>13. LocksAreHeld'
  <2>1. \A g : /\ (Owns(t, g)' <=> g = new[t]) /\ (Counted(t, g)' <=> g = new[t])
               /\ (Owns(t, g) <=> g \in {h, new[t]}) /\ (Counted(t, g) <=> g \in {h, new[t]})
    BY <1>1, <1>3, <1>7, <1>8, <1>9 DEF Owns, Counted, StorePcs, LockedPcs
  <2>2. \A u \in Threads, g \in Live : <<u, g>> # <<t, h>> =>
           (Owns(u, g)' => Owns(u, g)) /\ (Counted(u, g)' <=> Counted(u, g))
    BY <1>8, <2>1
  <2>3. ~Counted(t, h)'
    BY <1>4, <2>1
  <2> QED
    BY <1>5, <1>6, <1>8, <2>2, <2>3, LockLeft
<1> QED
  BY <1>7, <1>10, <1>11, <1>12, <1>13, LockMoveKeeps

(* What the holder finds.                                                  *)
LEMMA SameLock ==
  ASSUME IInv, NEW h \in Live
  PROVE  gen[h].write_lock \in Nat /\ [gen EXCEPT ![h].write_lock = gen[h].write_lock] = gen
<1>1. h \in Gens /\ gen \in [Gens -> Generation] /\ gen[h] \in Generation
  BY DEF IInv, TypeOK, Live
<1>2. [gen[h] EXCEPT !.write_lock = gen[h].write_lock] = gen[h] /\ gen[h].write_lock \in Nat
  BY <1>1 DEF Generation
<1> QED
  BY <1>1, <1>2

LEMMA RequestIsEnough ==
  ASSUME IInv, NEW t \in Threads, pc[t] # "idle", NEW h \in Live
  PROVE  /\ NewSize(gen[h].alloc_size, op[t].index) \in Nat
         /\ gen[h].size <= NewSize(gen[h].alloc_size, op[t].index)
<1>1. /\ gen[h].alloc_size \in Nat \ {0} /\ gen[h].size \in Nat
      /\ gen[h].size <= gen[h].alloc_size
  BY DEF IInv, TypeOK, Live, Generation, SizesCover
<1>2. op[t].index \in Nat
  BY IndexIsNat DEF IInv, ThreadsAreInOrder, OperationIsKept
<1>3. PICK n \in Nat : n = NewSize(gen[h].alloc_size, op[t].index) /\ n >= gen[h].alloc_size
  BY <1>1, <1>2, NewSizeGrows
<1> QED
  BY <1>1, <1>3

LEMMA CheckNewerKeeps ==
  ASSUME IInv, NEW t \in Threads, CheckNewer(t)
  PROVE  IInv'
<1>1. /\ pc[t] = "check_newer"
      /\ pc' = [pc EXCEPT ![t] =
                  IF gen[arr[t]].newer # NULL THEN "unlock_retry"
                  ELSE IF gen[arr[t]].newer = NULL /\ op[t].index >= gen[arr[t]].alloc_size
                       THEN "alloc" ELSE "seq_odd"]
      /\ new_size' = IF gen[arr[t]].newer = NULL /\ op[t].index >= gen[arr[t]].alloc_size
                     THEN [new_size EXCEPT ![t] = NewSize(gen[arr[t]].alloc_size, op[t].index)]
                     ELSE new_size
      /\ UNCHANGED <<gen, ref, op, arr, new, seq1, val, nwrites, history, seen>>
  BY DEF CheckNewer, Goto
<1>2. pc[t] \in AccessPcs /\ pc[t] \in WritePcs /\ pc[t] # "idle" /\ pc[t] \in LockedPcs
  BY <1>1 DEF AccessPcs, WritePcs, LockedPcs
<1>3. PICK h \in Live : h = arr[t] /\ h \in Gens /\ h \in Findable
  BY <1>2, NewestIsTip DEF IInv, ThreadsAreInOrder, PointersAreGood
<1>4. PICK n \in Nat : n = gen[h].write_lock /\ [gen EXCEPT ![h].write_lock = n] = gen
  BY SameLock
<1>5. PICK to \in {"unlock_retry", "seq_odd", "alloc"} :
        /\ pc' = [pc EXCEPT ![t] = to]
        /\ to \in {"seq_odd", "alloc"} => Link(h) = NULL
        /\ to = "seq_odd" => op[t].index < gen[h].alloc_size
  <2>1. gen[h].alloc_size \in Nat /\ op[t].index \in Nat
    BY <1>2, <1>3, IndexIsNat DEF IInv, ThreadsAreInOrder, OperationIsKept, TypeOK, Generation
  <2>2. CASE gen[h].newer # NULL
    BY <1>1, <1>3, <2>2
  <2>3. CASE gen[h].newer = NULL /\ op[t].index >= gen[h].alloc_size
    <3>1. pc' = [pc EXCEPT ![t] = "alloc"] /\ Link(h) = NULL
      BY <1>1, <1>3, <2>3 DEF Link
    <3> QED
      BY <3>1
  <2>4. CASE gen[h].newer = NULL /\ ~(op[t].index >= gen[h].alloc_size)
    <3>1. pc' = [pc EXCEPT ![t] = "seq_odd"] /\ Link(h) = NULL
      BY <1>1, <1>3, <2>4 DEF Link
    <3>2. op[t].index < gen[h].alloc_size
      BY <2>1, <2>4
    <3> QED
      BY <3>1, <3>2
  <2> QED
    BY <2>2, <2>3, <2>4
<1>6. LockMove(t, h, n, to)
  <2>1. NewSize(gen[h].alloc_size, op[t].index) \in Nat
    BY <1>2, <1>3, RequestIsEnough
  <2>2. new_size' \in [Threads -> Nat]
    BY <1>1, <1>3, <2>1 DEF IInv, TypeOK
  <2> QED
    BY <1>1, <1>4, <1>5, <2>2, SeenIsPast DEF LockMove, LockFrom, LockTo, IInv, TypeOK
<1>7. /\ pc'[t] = to /\ Live' = Live /\ Findable' = Findable
      /\ \A g \in Gens : Link(g)' = Link(g)
      /\ \A u \in Threads \ {t}, g \in Live :
           (Owns(u, g)' <=> Owns(u, g)) /\ (Counted(u, g)' <=> Counted(u, g))
      /\ Live \subseteq Gens
  BY <1>6, LockMoveShape
<1>8. /\ to \notin ReadPcs \cup StorePcs /\ to \in WritePcs
      /\ (to \in TipPcs => to = "seq_odd") /\ (to \in AccessPcs => to # "alloc")
      /\ (to \in LockedPcs <=> to # "alloc")
  BY DEF TipPcs, ReadPcs, StorePcs, WritePcs, LockedPcs, AccessPcs
<1>9. PointersAreGood(t)'
  BY <1>1, <1>3, <1>5, <1>7, <1>8 DEF PointersAreGood
<1>10. OperationIsKept(t)'
  <2>1. op[t].index \in Indices /\ op[t].kind = "write"
    BY <1>2 DEF IInv, ThreadsAreInOrder, OperationIsKept
  <2> QED
    BY <1>1, <1>3, <1>5, <1>7, <1>8, <2>1 DEF OperationIsKept
<1>11. SharingIsKept(t)'
  <2>1. \A g \in Live : t # Creator /\ Link(g) = NULL => gen[g].shared
    BY <1>2 DEF IInv, ThreadsAreInOrder, SharingIsKept
  <2>2. ~LocalReads(t)'
    BY <1>7 DEF LocalReads
  <2>3. to = "seq_odd" => gen[h].shared
    <3>1. ~gen[h].shared => op[t].index >= gen[h].alloc_size
      BY <1>1, <1>3 DEF IInv, ThreadsAreInOrder, OperationIsKept
    <3>2. gen[h].alloc_size \in Nat /\ op[t].index \in Nat
      BY <1>2, <1>3, IndexIsNat DEF IInv, ThreadsAreInOrder, OperationIsKept, TypeOK, Generation
    <3> QED
      BY <1>5, <3>1, <3>2
  <2> QED
    BY <1>1, <1>3, <1>7, <1>8, <2>1, <2>2, <2>3 DEF SharingIsKept
<1>12. LocksAreHeld'
  <2>1. \A g \in Live : (Owns(t, g) <=> g = h) /\ (Counted(t, g) <=> g = h)
    BY <1>1, <1>2, <1>3 DEF Owns, Counted, StorePcs
  <2>2. \A g \in Live : Owns(t, g)' <=> g = h
    <3>1. CASE to = "alloc"
      BY <1>3, <1>5, <1>7, <1>8, <3>1, NewestIsTip DEF Owns, IInv
    <3>2. CASE to # "alloc"
      BY <1>1, <1>3, <1>7, <1>8, <3>2 DEF Owns
    <3> QED
      BY <3>1, <3>2
  <2>3. \A g \in Live : Counted(t, g)' <=> g = h
    BY <1>7, <2>2 DEF Counted
  <2>4. \A u \in Threads, g \in Live :
           (Owns(u, g)' => Owns(u, g)) /\ (Counted(u, g)' <=> Counted(u, g))
    BY <1>7, <2>1, <2>2, <2>3
  <2> QED
    BY <1>1, <1>7, <2>4, LocksKept
<1> QED
  BY <1>6, <1>9, <1>10, <1>11, <1>12, LockMoveKeeps

(* The lock of the newest generation is kept where it was moved to.        *)
LEMMA AllocFailsKeeps ==
  ASSUME IInv, NEW t \in Threads, AllocFails(t)
  PROVE  IInv'
<1>1. /\ pc[t] = "alloc" /\ pc' = [pc EXCEPT ![t] = "unlock_done"]
      /\ arr' = [arr EXCEPT ![t] = Newest]
      /\ UNCHANGED <<gen, ref, op, new, new_size, seq1, val, nwrites, history, seen>>
  BY DEF AllocFails, Refollowed, Goto
<1>2. PICK h \in Live : /\ h = Newest /\ h \in Gens /\ h \in Findable /\ Link(h) = NULL
                        /\ \A g \in Findable : Link(g) = NULL => g = h
  BY NewestIsTip DEF IInv
<1>3. PICK n \in Nat : n = gen[h].write_lock /\ [gen EXCEPT ![h].write_lock = n] = gen
  BY SameLock
<1>4. LockMove(t, h, n, "unlock_done") /\ arr'[t] = h
  BY <1>1, <1>2, <1>3, SeenIsPast DEF LockMove, LockFrom, LockTo, IInv, TypeOK
<1>5. /\ pc'[t] = "unlock_done" /\ Live' = Live /\ Findable' = Findable
      /\ \A g \in Gens : Link(g)' = Link(g)
      /\ \A u \in Threads \ {t}, g \in Live :
           (Owns(u, g)' <=> Owns(u, g)) /\ (Counted(u, g)' <=> Counted(u, g))
      /\ Live \subseteq Gens
  BY <1>4, LockMoveShape
<1>6. /\ "unlock_done" \notin TipPcs \cup ReadPcs \cup StorePcs
      /\ "unlock_done" \in WritePcs \cap LockedPcs /\ pc[t] \in WritePcs /\ pc[t] # "idle"
      /\ pc[t] \notin LockedPcs \cup StorePcs /\ "unlock_done" \notin {"seq_odd", "seq_even"}
  BY <1>1 DEF TipPcs, ReadPcs, StorePcs, WritePcs, LockedPcs
<1>7. PointersAreGood(t)'
  BY <1>2, <1>4, <1>5, <1>6 DEF PointersAreGood
<1>8. OperationIsKept(t)'
  <2>1. op[t].index \in Indices /\ op[t].kind = "write"
    BY <1>6 DEF IInv, ThreadsAreInOrder, OperationIsKept
  <2> QED
    BY <1>1, <1>5, <1>6, <2>1 DEF OperationIsKept
<1>9. SharingIsKept(t)'
  <2>1. \A g \in Live : t # Creator /\ Link(g) = NULL => gen[g].shared
    BY <1>1 DEF IInv, ThreadsAreInOrder, SharingIsKept
  <2>2. ~LocalReads(t)'
    BY <1>5 DEF LocalReads
  <2> QED
    BY <1>1, <1>5, <1>6, <2>1, <2>2 DEF SharingIsKept
<1>10. LocksAreHeld'
  <2>1. \A g \in Live : (Owns(t, g) <=> g = h) /\ (Counted(t, g) <=> g = h)
    BY <1>1, <1>2, <1>6 DEF Owns, Counted
  <2>2. \A g \in Live : (Owns(t, g)' <=> g = h) /\ (Counted(t, g)' <=> g = h)
    BY <1>4, <1>5, <1>6 DEF Owns, Counted
  <2>3. \A u \in Threads, g \in Live :
           (Owns(u, g)' => Owns(u, g)) /\ (Counted(u, g)' <=> Counted(u, g))
    BY <1>5, <2>1, <2>2
  <2> QED
    BY <1>1, <1>5, <2>3, LocksKept
<1> QED
  BY <1>4, <1>7, <1>8, <1>9, <1>10, LockMoveKeeps

-----------------------------------------------------------------------------
(* The steps that write to the newest generation.                          *)

StoreFrom == {"seq_odd", "store_type", "store_val", "seq_even", "set_size"}
StoreTo   == {"store_type", "store_val", "seq_even", "set_size", "unlock_done", "idle"}

LEMMA StorerFacts ==
  ASSUME IInv, NEW t \in Threads, pc[t] \in StoreFrom
  PROVE  /\ arr[t] = Newest /\ Newest \in Findable /\ Newest \in Live /\ Newest \in Gens
         /\ Link(Newest) = NULL
         /\ op[t] \in Ops /\ op[t].kind = "write" /\ op[t].index \in Indices
         /\ op[t].index \in Nat /\ op[t].index < gen[Newest].alloc_size
         /\ gen[Newest].shared \in BOOLEAN
         /\ pc[t] \in {"seq_odd", "seq_even"} => gen[Newest].shared
         /\ \A g \in Live : /\ Owns(t, g) <=> g = Newest /\ gen[Newest].shared
                            /\ Counted(t, g) <=> Owns(t, g)
         /\ pc[t] \in AccessPcs /\ pc[t] # "idle" /\ pc[t] \notin ReadPcs \cup {"publish"}
         /\ \A g \in Live : t # Creator /\ Link(g) = NULL => gen[g].shared
<1>1. /\ pc[t] \in TipPcs /\ pc[t] \in AccessPcs /\ pc[t] \in WritePcs
      /\ pc[t] \in StorePcs \cup {"seq_odd", "seq_even"}
      /\ pc[t] # "idle" /\ pc[t] \notin ReadPcs \cup {"publish", "back_off", "unlock_old", "alloc"}
      /\ pc[t] \in {"seq_odd", "seq_even"} => pc[t] \in LockedPcs
      /\ pc[t] \notin {"seq_odd", "seq_even"} => pc[t] \in StorePcs /\ pc[t] \notin LockedPcs
  BY DEF StoreFrom, TipPcs, AccessPcs, WritePcs, StorePcs, LockedPcs, ReadPcs
<1>2. arr[t] = Newest /\ Newest \in Findable /\ Newest \in Live /\ Newest \in Gens
      /\ Link(Newest) = NULL
  BY <1>1, NewestIsTip DEF IInv, ThreadsAreInOrder, PointersAreGood
<1>3. /\ op[t] \in Ops /\ op[t].kind = "write" /\ op[t].index \in Indices
      /\ op[t].index < gen[Newest].alloc_size
  BY <1>1, <1>2 DEF IInv, ThreadsAreInOrder, OperationIsKept, TypeOK
<1>4. pc[t] \in {"seq_odd", "seq_even"} => gen[Newest].shared
  BY <1>2 DEF IInv, ThreadsAreInOrder, SharingIsKept
<1>5. gen[Newest].shared \in BOOLEAN
  BY <1>2 DEF IInv, TypeOK, Generation
<1>6. \A g \in Live : Owns(t, g) <=> g = Newest /\ gen[Newest].shared
  BY <1>1, <1>2, <1>4 DEF Owns
<1>7. \A g \in Live : Counted(t, g) <=> Owns(t, g)
  BY <1>1 DEF Counted
<1>8. \A g \in Live : t # Creator /\ Link(g) = NULL => gen[g].shared
  BY <1>1 DEF IInv, ThreadsAreInOrder, SharingIsKept
<1> QED
  BY <1>1, <1>2, <1>3, <1>4, <1>5, <1>6, <1>7, <1>8, IndexIsNat

(* Nobody else writes to it, has a copy of it to publish, or reads it      *)
(* outside the SeqLock.                                                    *)
LEMMA StorerIsAlone ==
  ASSUME IInv, NEW t \in Threads, pc[t] \in StoreFrom, NEW u \in Threads \ {t}
  PROVE  /\ pc[u] \notin StoreFrom \cup {"publish"} /\ ~LocalReads(u)
         /\ pc[u] \in AccessPcs \cup {"alloc"} => gen[Newest].shared
<1>1. /\ Newest \in Live /\ Link(Newest) = NULL /\ gen[Newest].shared \in BOOLEAN
      /\ gen[Newest].shared => Owns(t, Newest)
      /\ t # Creator => gen[Newest].shared
  BY StorerFacts
<1>2. pc[u] \in AccessPcs \cup {"alloc"} => gen[Newest].shared
  BY <1>1 DEF IInv, ThreadsAreInOrder, SharingIsKept
<1>3. ~LocalReads(u)
  <2>1. LocalReads(u) => pc[u] \in AccessPcs
    BY DEF LocalReads, AccessPcs, ReadPcs
  <2>2. LocalReads(u) => Link(arr[u]) = NULL /\ ~gen[arr[u]].shared
    BY DEF IInv, ThreadsAreInOrder, SharingIsKept
  <2>3. pc[u] \in AccessPcs => arr[u] \in Findable
    BY DEF IInv, ThreadsAreInOrder, PointersAreGood
  <2> QED
    BY <1>2, <2>1, <2>2, <2>3, NewestIsTip DEF IInv
<1>4. pc[u] \in StoreFrom => ~gen[Newest].shared
  BY <1>1, StorerFacts DEF IInv, LocksAreHeld
<1>5. pc[u] \in StoreFrom \cup {"publish"} => pc[u] \in AccessPcs
  BY DEF StoreFrom, AccessPcs, StorePcs, LockedPcs
<1>6. pc[u] # "publish"
  <2> SUFFICES ASSUME pc[u] = "publish" PROVE FALSE
    OBVIOUS
  <2>1. arr[u] = Newest
    BY <1>5, NewestIsTip DEF IInv, ThreadsAreInOrder, PointersAreGood, TipPcs
  <2>2. Owns(u, Newest)
    BY <2>1 DEF Owns, LockedPcs
  <2> QED
    BY <1>1, <1>2, <1>5, <2>2 DEF IInv, LocksAreHeld
<1> QED
  BY <1>2, <1>3, <1>4, <1>5, <1>6

LEMMA StorerSeesOneTip ==
  ASSUME IInv, NEW t \in Threads, pc[t] \in StoreFrom
  PROVE  \A g \in Live : Link(g) = NULL => g = Newest
<1> SUFFICES ASSUME NEW g \in Live, Link(g) = NULL PROVE g = Newest
  OBVIOUS
<1>1. CASE g \in Findable
  BY <1>1, NewestIsTip DEF IInv
<1>2. CASE g \notin Findable
  <2>1. PICK u \in Threads : pc[u] = "publish"
    BY <1>2 DEF Findable, Private
  <2> QED
    BY <2>1, StorerIsAlone DEF StoreFrom
<1> QED
  BY <1>1, <1>2

StoreMove(t, r, to) ==
  /\ pc[t] \in StoreFrom /\ to \in StoreTo /\ pc' = [pc EXCEPT ![t] = to]
  /\ gen' = [gen EXCEPT ![Newest] = r] /\ r \in Generation
  /\ r.alloc_size = gen[Newest].alloc_size /\ r.newer = gen[Newest].newer
  /\ r.shared = gen[Newest].shared /\ r.creator = gen[Newest].creator
  /\ r.write_lock = gen[Newest].write_lock
  /\ to \in {"seq_even", "unlock_done"} => gen[Newest].shared
  /\ to = "idle" => ~gen[Newest].shared /\ seen'[t] = 0
  /\ to # "idle" => UNCHANGED <<op, arr, new, new_size, seq1, val, seen>>
  /\ op' \in [Threads -> Ops] /\ arr' \in [Threads -> Gens \cup {NULL}]
  /\ new' \in [Threads -> Gens \cup {NULL}] /\ seq1' \in [Threads -> Nat \cup {Local}]
  /\ val' \in [Threads -> Words] /\ seen' \in [Threads -> Nat]
  /\ new_size' \in [Threads -> Nat]
  /\ \A u \in Threads \ {t} :
       /\ op'[u] = op[u] /\ arr'[u] = arr[u] /\ new'[u] = new[u]
       /\ seq1'[u] = seq1[u] /\ val'[u] = val[u] /\ seen'[u] = seen[u]
  /\ UNCHANGED <<ref, nwrites>>
  /\ history' \in Seq(Writes) /\ Len(history) <= Len(history')

LEMMA StoreMoveShape ==
  ASSUME IInv, NEW t \in Threads, NEW r, NEW to, StoreMove(t, r, to)
  PROVE  /\ TypeOK' /\ SameShape /\ OthersStay(t) /\ LocksAreHeld' /\ ThreadsAreInOrder'
         /\ ChainIsWhole'
         /\ pc'[t] = to /\ Live' = Live /\ Live \subseteq Gens
         /\ \A g \in Gens : Link(g)' = Link(g) /\ gen'[g].shared = gen[g].shared
         /\ gen'[Newest] = r /\ \A g \in Gens \ {Newest} : gen'[g] = gen[g]
         /\ Newest \in Live /\ arr[t] = Newest /\ gen[Newest].shared \in BOOLEAN
         /\ to # "idle" => arr'[t] = Newest /\ op'[t] = op[t]
         /\ \A g \in Live : Link(g) = NULL => g = Newest
<1>1. /\ arr[t] = Newest /\ Newest \in Findable /\ Newest \in Live /\ Newest \in Gens
      /\ Link(Newest) = NULL
      /\ op[t].kind = "write" /\ op[t].index \in Indices
      /\ op[t].index < gen[Newest].alloc_size /\ gen[Newest].shared \in BOOLEAN
      /\ pc[t] \in {"seq_odd", "seq_even"} => gen[Newest].shared
      /\ \A g \in Live : /\ Owns(t, g) <=> g = Newest /\ gen[Newest].shared
                         /\ Counted(t, g) <=> Owns(t, g)
      /\ pc[t] # "publish"
      /\ \A g \in Live : t # Creator /\ Link(g) = NULL => gen[g].shared
  BY StorerFacts DEF StoreMove
<1>2. /\ to \in Pcs /\ to # "publish" /\ to \notin {"back_off", "unlock_old", "alloc"} \cup ReadPcs
      /\ to \in LockedPcs => to \in {"seq_even", "unlock_done"}
      /\ to \in StorePcs \cup LockedPcs <=> to # "idle"
      /\ to \in {"seq_odd", "seq_even"} => to = "seq_even"
      /\ to \in WritePcs <=> to # "idle"
      /\ to \notin {"load_type", "load_val", "done", "lock", "check_newer"}
  BY DEF StoreMove, StoreTo, Pcs, OutPcs, AccessPcs, StorePcs, LockedPcs, ReadPcs, WritePcs
<1>3. /\ pc' \in [Threads -> Pcs] /\ pc'[t] = to /\ \A u \in Threads \ {t} : pc'[u] = pc[u]
      /\ pc'[t] # "publish"
  BY <1>2 DEF StoreMove, IInv, TypeOK
<1>4. gen \in [Gens -> Generation]
  BY DEF IInv, TypeOK
<1>5. /\ gen'[Newest] = r /\ \A g \in Gens \ {Newest} : gen'[g] = gen[g]
      /\ gen' \in [Gens -> Generation]
  BY <1>1, <1>4 DEF StoreMove
<1>6. OthersStay(t)
  BY <1>3 DEF OthersStay, StoreMove
<1>7. SameShape
  BY <1>1, <1>3, <1>5, <1>6 DEF SameShape, StoreMove, OthersStay
<1>8. /\ Live' = Live /\ Findable' = Findable /\ ChainIsWhole'
      /\ \A g \in Gens : Link(g)' = Link(g)
      /\ Live \subseteq Gens /\ Findable \subseteq Live
  BY <1>7, ShapeKept, NewestIsTip DEF IInv
<1>9. TypeOK'
  BY <1>3, <1>5, <1>8 DEF StoreMove, IInv, TypeOK, Writes
<1>10. to # "idle" => arr'[t] = Newest /\ op'[t] = op[t] /\ seq1'[t] = seq1[t]
  BY <1>1 DEF StoreMove
<1>11. \A g \in Gens : /\ gen'[g].shared = gen[g].shared
                       /\ gen'[g].alloc_size = gen[g].alloc_size
  BY <1>7 DEF SameShape
<1>12. PointersAreGood(t)'
  <2>1. CASE to = "idle"
    BY <1>3, <2>1 DEF PointersAreGood, AccessPcs, TipPcs, ReadPcs, StorePcs, LockedPcs
  <2>2. CASE to # "idle"
    BY <1>1, <1>2, <1>3, <1>8, <1>10, <2>2 DEF PointersAreGood
  <2> QED
    BY <2>1, <2>2
<1>13. OperationIsKept(t)'
  <2>1. CASE to = "idle"
    BY <1>2, <1>3, <2>1 DEF OperationIsKept, StorePcs
  <2>2. CASE to # "idle"
    BY <1>1, <1>2, <1>3, <1>10, <1>11, <2>2 DEF OperationIsKept
  <2> QED
    BY <2>1, <2>2
<1>14. SharingIsKept(t)'
  <2>1. ~LocalReads(t)'
    BY <1>2, <1>3 DEF LocalReads
  <2>2. "seq_begin" \in ReadPcs /\ "seq_end" \in ReadPcs
    BY DEF ReadPcs
  <2>3. to \in {"seq_odd", "seq_even"} => gen'[arr'[t]].shared
    BY <1>1, <1>2, <1>10, <1>11 DEF StoreMove
  <2>4. \A g \in Live' : t # Creator /\ Link(g)' = NULL => gen'[g].shared
    BY <1>1, <1>8, <1>11
  <2> QED
    BY <1>2, <1>3, <2>1, <2>2, <2>3, <2>4 DEF SharingIsKept
<1>15. ThreadsAreInOrder'
  BY <1>6, <1>7, <1>12, <1>13, <1>14, ThreadsKept
<1>16. LocksAreHeld'
  <2>1. \A g \in Live : (Owns(t, g)' <=> g = Newest /\ gen[Newest].shared)
                          /\ (Counted(t, g)' <=> Owns(t, g)')
    <3>1. CASE to = "idle"
      BY <1>2, <1>3, <3>1 DEF StoreMove, Owns, Counted
    <3>2. CASE to # "idle"
      BY <1>1, <1>2, <1>3, <1>8, <1>10, <1>11, <3>2 DEF StoreMove, Owns, Counted
    <3> QED
      BY <3>1, <3>2
  <2>2. \A u \in Threads \ {t}, g \in Live :
          (Owns(u, g)' <=> Owns(u, g)) /\ (Counted(u, g)' <=> Counted(u, g))
    BY <1>6, <1>7, OthersHold
  <2>3. \A u \in Threads, g \in Live :
          (Owns(u, g)' => Owns(u, g)) /\ (Counted(u, g)' <=> Counted(u, g))
    BY <1>1, <2>1, <2>2
  <2>4. \A g \in Gens : gen'[g].write_lock = gen[g].write_lock
    BY <1>5 DEF StoreMove
  <2> QED
    BY <1>8, <2>3, <2>4, LocksKept
<1> QED
  BY <1>1, <1>3, <1>5, <1>6, <1>7, <1>8, <1>9, <1>10, <1>11, <1>15, <1>16, StorerSeesOneTip
  DEF StoreMove

LEMMA StoreMoveReaders ==
  ASSUME IInv, NEW t \in Threads, NEW r, NEW to, StoreMove(t, r, to),
         r.seqlock >= gen[Newest].seqlock,
         \/ ~gen[Newest].shared \/ r.table = gen[Newest].table
         \/ r.seqlock # gen[Newest].seqlock \/ r.seqlock % 2 = 1,
         \A i \in Indices : r.table[i].val = LastWrite(history', i),
         \A k \in 0 .. Len(history) : SubSeq(history', 1, k) = SubSeq(history, 1, k)
  PROVE  ReadersSeeWrites'
<1>1. /\ OthersStay(t) /\ pc'[t] = to /\ Live \subseteq Gens /\ Newest \in Live
      /\ gen'[Newest] = r /\ \A g \in Gens \ {Newest} : gen'[g] = gen[g]
  BY StoreMoveShape
<1>2. /\ history' \in Seq(Writes) /\ Len(history) <= Len(history') /\ Len(history) \in Nat
      /\ Len(history') \in Nat /\ SubSeq(history', 1, Len(history')) = history'
  BY SeenIsPast, Prefixes DEF StoreMove
<1>3. r.seqlock \in Nat /\ gen[Newest].seqlock \in Nat
  BY <1>1 DEF StoreMove, Generation, IInv, TypeOK
<1>4. ReaderIsGood(t)'
  <2>1. to \notin ReadPcs /\ to \notin {"load_type", "load_val", "seq_end", "done"}
    BY DEF StoreMove, StoreTo, ReadPcs
  <2>2. seen'[t] <= Len(history')
    BY <1>2, SeenIsPast DEF StoreMove
  <2> QED
    BY <1>1, <2>1, <2>2 DEF ReaderIsGood
<1>5. ASSUME NEW u \in Threads \ {t} PROVE ReaderIsGood(u)'
  <2>1. /\ pc'[u] = pc[u] /\ op'[u] = op[u] /\ arr'[u] = arr[u] /\ seq1'[u] = seq1[u]
        /\ val'[u] = val[u] /\ seen'[u] = seen[u]
    BY <1>1 DEF OthersStay
  <2>2. seen[u] \in Nat /\ seen[u] <= Len(history) /\ ReaderIsGood(u)
    BY SeenIsPast DEF IInv, ReadersSeeWrites
  <2>3. ASSUME NEW v, WasCurrent(u, v) PROVE WasCurrent(u, v)'
    <3>1. PICK k \in seen[u] .. Len(history) : v = LastWrite(SubSeq(history, 1, k), op[u].index)
      BY <2>3 DEF WasCurrent
    <3>2. k \in 0 .. Len(history) /\ k \in seen[u] .. Len(history')
      BY <1>2, <2>2
    <3>3. v = LastWrite(SubSeq(history', 1, k), op'[u].index)
      BY <2>1, <3>1, <3>2
    <3> QED
      BY <2>1, <3>2, <3>3 DEF WasCurrent
  <2>4. CASE pc[u] \notin ReadPcs
    <3>1. pc[u] \notin {"load_type", "load_val", "seq_end"}
      BY <2>4 DEF ReadPcs
    <3> QED
      BY <1>2, <2>1, <2>2, <2>3, <2>4, <3>1 DEF ReaderIsGood
  <2>5. CASE pc[u] \in ReadPcs
    <3>1. arr[u] \in Live /\ op[u].index \in Indices /\ seq1[u] \in Nat \cup {Local}
      BY <2>5, ReaderPointsWell
    <3>2. CASE arr[u] # Newest
      <4>1. gen'[arr[u]] = gen[arr[u]]
        BY <1>1, <3>1, <3>2
      <4> QED
        BY <1>2, <2>1, <2>2, <2>3, <4>1 DEF ReaderIsGood
    <3>3. CASE arr[u] = Newest
      <4>1. seq1[u] # Local /\ seq1[u] \in Nat
        <5>1. ~LocalReads(u)
          BY StorerIsAlone DEF StoreMove
        <5>2. pc[u] \in {"seq_begin", "seq_end"} => seq1[u] # Local
          BY DEF IInv, ThreadsAreInOrder, SharingIsKept
        <5>3. pc[u] \in {"seq_begin", "seq_end", "load_type", "load_val"}
          BY <2>5 DEF ReadPcs
        <5> QED
          BY <3>1, <5>1, <5>2, <5>3 DEF LocalReads
      <4>2. WasCurrent(u, gen[arr[u]].table[op[u].index].val)'
        <5>1. gen'[arr'[u]].table[op'[u].index].val = LastWrite(history', op[u].index)
          BY <1>1, <2>1, <3>1, <3>3
        <5>2. Len(history') \in seen'[u] .. Len(history')
          BY <1>2, <2>1, <2>2
        <5> QED
          BY <1>2, <2>1, <5>1, <5>2 DEF WasCurrent
      <4>3. pc[u] \in {"load_type", "load_val", "seq_end"} =>
              seq1[u] % 2 = 0 /\ seq1[u] <= gen[Newest].seqlock
        BY <2>2, <3>3, <4>1 DEF ReaderIsGood
      <4>4. pc[u] \in {"load_type", "load_val", "seq_end"} /\ seq1[u] = r.seqlock =>
              r.table = gen[Newest].table /\ r.seqlock = gen[Newest].seqlock
        <5>1. gen[Newest].shared
          BY <2>5, StorerIsAlone, PcSets DEF StoreMove
        <5> QED
          BY <1>3, <4>1, <4>3, <5>1
      <4>5. seq1[u] <= gen[Newest].seqlock => seq1[u] <= r.seqlock
        BY <1>3, <4>1
      <4>6. /\ pc[u] \in {"load_type", "load_val", "seq_end"} =>
                 seq1[u] % 2 = 0 /\ seq1[u] <= gen'[arr'[u]].seqlock
            /\ pc[u] = "load_val" /\ seq1[u] = gen'[arr'[u]].seqlock =>
                 val[u].type = gen'[arr'[u]].table[op[u].index].type
            /\ pc[u] = "seq_end" /\ seq1[u] = gen'[arr'[u]].seqlock => val[u].type = val[u].val
        BY <1>1, <2>1, <2>2, <3>3, <4>3, <4>4, <4>5 DEF ReaderIsGood
      <4>7. /\ pc[u] \in {"seq_end", "done"} => WasCurrent(u, val[u].val)
            /\ pc[u] # "done"
        BY <2>2, <2>5 DEF ReaderIsGood, ReadPcs
      <4>8. seen'[u] <= Len(history')
        BY <1>2, <2>1, <2>2
      <4>9. pc'[u] \in {"seq_end", "done"} => WasCurrent(u, val[u].val)'
        BY <2>1, <2>3, <4>7
      <4>10. /\ pc'[u] \in {"load_type", "load_val", "seq_end"} /\ seq1'[u] # Local =>
                  seq1'[u] % 2 = 0 /\ seq1'[u] <= gen'[arr'[u]].seqlock
             /\ pc'[u] = "load_val" /\ seq1'[u] \in {Local, gen'[arr'[u]].seqlock} =>
                  val'[u].type = gen'[arr'[u]].table[op'[u].index].type
             /\ pc'[u] = "seq_end" /\ seq1'[u] = gen'[arr'[u]].seqlock => val'[u].type = val'[u].val
             /\ pc'[u] # "done"
        BY <2>1, <4>1, <4>6, <4>7
      <4> QED
        BY <4>2, <4>8, <4>9, <4>10 DEF ReaderIsGood
    <3> QED
      BY <3>2, <3>3
  <2> QED
    BY <2>4, <2>5
<1> QED
  BY <1>4, <1>5 DEF ReadersSeeWrites

LEMMA StoreMoveKeeps ==
  ASSUME IInv, NEW t \in Threads, NEW r, NEW to, StoreMove(t, r, to),
         r.seqlock % 2 = 1 <=> to \in {"store_type", "store_val", "seq_even"} /\ gen[Newest].shared,
         r.seqlock >= gen[Newest].seqlock,
         \/ ~gen[Newest].shared \/ r.table = gen[Newest].table
         \/ r.seqlock # gen[Newest].seqlock \/ r.seqlock % 2 = 1,
         \A i \in Indices : r.table[i].type = r.table[i].val
                              \/ (to = "store_val" /\ i = op[t].index),
         \A i \in Indices : r.table[i].val = LastWrite(history', i),
         r.size <= r.alloc_size,
         \A k \in DOMAIN history' :
           history'[k].index < r.size
             \/ (to \in {"seq_even", "set_size"} /\ history'[k].index = op[t].index),
         to = "store_val" => r.table[op[t].index].type = op[t].value,
         UNCHANGED history \/ \E e \in Writes : history' = Append(history, e)
  PROVE  IInv'
<1>1. /\ TypeOK' /\ OthersStay(t) /\ LocksAreHeld' /\ ThreadsAreInOrder' /\ ChainIsWhole'
      /\ pc'[t] = to /\ Live' = Live /\ Live \subseteq Gens
      /\ \A g \in Gens : Link(g)' = Link(g) /\ gen'[g].shared = gen[g].shared
      /\ gen'[Newest] = r /\ \A g \in Gens \ {Newest} : gen'[g] = gen[g]
      /\ Newest \in Live /\ arr[t] = Newest /\ gen[Newest].shared \in BOOLEAN
      /\ to # "idle" => arr'[t] = Newest /\ op'[t] = op[t]
      /\ \A g \in Live : Link(g) = NULL => g = Newest
  BY StoreMoveShape
<1>2. /\ \A u \in Threads \ {t} : pc'[u] = pc[u] /\ arr'[u] = arr[u] /\ op'[u] = op[u]
      /\ \A u \in Threads \ {t} : pc[u] \notin StoreFrom /\ pc'[u] \notin StoreFrom
      /\ pc[t] \in StoreFrom
  BY <1>1, StorerIsAlone DEF OthersStay, StoreMove
<1>3. \A k \in 0 .. Len(history) : SubSeq(history', 1, k) = SubSeq(history, 1, k)
  <2>1. history \in Seq(Writes)
    BY DEF IInv, TypeOK, Writes
  <2>2. CASE UNCHANGED history
    BY <2>2
  <2>3. CASE \E e \in Writes : history' = Append(history, e)
    BY <2>1, <2>3, Prefixes
  <2> QED
    BY <2>2, <2>3
<1>4. ReadersSeeWrites'
  BY <1>3, StoreMoveReaders
<1>9. PICK h \in Gens :
        /\ h = Newest /\ pc'[t] = to /\ Live' = Live /\ Live \subseteq Gens
        /\ \A g \in Gens : Link(g)' = Link(g) /\ gen'[g].shared = gen[g].shared
        /\ gen'[h] = r /\ \A g \in Gens \ {h} : gen'[g] = gen[g]
        /\ h \in Live /\ arr[t] = h /\ gen[h].shared \in BOOLEAN
        /\ to # "idle" => arr'[t] = h /\ op'[t] = op[t]
        /\ \A g \in Live : Link(g) = NULL => g = h
  BY <1>1
<1>5. SeqLocksMatch'
  <2>1. \A u \in Threads, g \in Live \ {h} : ~Unstable(u, g) /\ ~Unstable(u, g)'
    BY <1>9, <1>2 DEF Unstable, StoreFrom
  <2>2. (\E u \in Threads : Unstable(u, h)')
          <=> to \in {"store_type", "store_val", "seq_even"} /\ gen[h].shared
    <3>1. \A u \in Threads : u # t => ~Unstable(u, h)'
      BY <1>2 DEF Unstable, StoreFrom
    <3>2. Unstable(t, h)' <=> to \in {"store_type", "store_val", "seq_even"}
                                     /\ gen[h].shared
      BY <1>9 DEF Unstable
    <3> QED
      BY <3>1, <3>2
  <2>3. \A g \in Live \ {h} : gen'[g].seqlock % 2 = 1 <=> \E u \in Threads : Unstable(u, g)'
    BY <1>9, <2>1 DEF IInv, SeqLocksMatch
  <2>4. gen'[h].seqlock % 2 = 1 <=> \E u \in Threads : Unstable(u, h)'
    BY <1>9, <2>2
  <2>5. \A g \in Live : gen'[g].seqlock % 2 = 1 <=> \E u \in Threads : Unstable(u, g)'
    BY <2>3, <2>4
  <2> QED
    BY <1>9, <2>5 DEF SeqLocksMatch
<1>6. ElementsAreWhole'
  <2>1. \A u \in Threads, g \in Live \ {h} : \A i : ~Halfway(u, g, i)
    BY <1>9, <1>2 DEF Halfway, StoreFrom
  <2>2. \A g \in Live \ {h} : \A i \in Indices : gen'[g].table[i].type = gen'[g].table[i].val
    BY <1>9, <2>1 DEF IInv, ElementsAreWhole
  <2>3. \A i : to = "store_val" /\ i = op[t].index => Halfway(t, h, i)'
    BY <1>9 DEF Halfway
  <2> QED
    BY <1>9, <2>2, <2>3 DEF ElementsAreWhole
<1>7. ValuesAreStored'
  BY <1>9 DEF ValuesAreStored
<1>8. SizesCover'
  <2>1. \A g \in Live' : gen'[g].size <= gen'[g].alloc_size /\ gen'[g].creator = Creator
    BY <1>9 DEF IInv, SizesCover, StoreMove
  <2>2. \A i : to \in {"seq_even", "set_size"} /\ i = op[t].index => Uncounted(t, h, i)'
    BY <1>9 DEF Uncounted
  <2>3. ASSUME NEW g \in Live, NEW k \in DOMAIN history', Link(g)' = NULL, NEW i,
               i = history'[k].index
        PROVE  i < gen'[g].size \/ \E u \in Threads : Uncounted(u, g, i)'
    <3>1. g = h
      BY <1>9, <2>3
    <3> QED
      BY <1>9, <2>2, <2>3, <3>1
  <2>4. \A u \in Threads : pc'[u] = "store_val" =>
          gen'[arr'[u]].table[op'[u].index].type = op'[u].value
    BY <1>9, <1>2 DEF StoreFrom
  <2> QED
    BY <1>9, <2>1, <2>3, <2>4 DEF SizesCover, Uncounted
<1> QED
  BY <1>1, <1>4, <1>5, <1>6, <1>7, <1>8 DEF IInv

LEMMA StorerFinds ==
  ASSUME IInv, NEW t \in Threads, pc[t] \in StoreFrom
  PROVE  /\ gen[Newest] \in Generation
         /\ gen[Newest].seqlock % 2 = 1
              <=> pc[t] \in {"store_type", "store_val", "seq_even"} /\ gen[Newest].shared
         /\ \A i \in Indices : gen[Newest].table[i].type = gen[Newest].table[i].val
                                 \/ (pc[t] = "store_val" /\ i = op[t].index)
         /\ \A i \in Indices : gen[Newest].table[i].val = LastWrite(history, i)
         /\ gen[Newest].size <= gen[Newest].alloc_size
         /\ \A k \in DOMAIN history :
              history[k].index < gen[Newest].size
                \/ (pc[t] \in {"seq_even", "set_size"} /\ history[k].index = op[t].index)
         /\ pc[t] = "store_val" => gen[Newest].table[op[t].index].type = op[t].value
<1>1. arr[t] = Newest /\ Newest \in Live /\ Newest \in Gens /\ Link(Newest) = NULL
  BY StorerFacts
<1>2. \A u \in Threads \ {t} : pc[u] \notin StoreFrom
  BY StorerIsAlone
<1>3. gen[Newest] \in Generation
  BY <1>1 DEF IInv, TypeOK
<1>4. \A u \in Threads : Unstable(u, Newest) <=>
         u = t /\ pc[t] \in {"store_type", "store_val", "seq_even"} /\ gen[Newest].shared
  BY <1>1, <1>2 DEF Unstable, StoreFrom
<1>5. \A u \in Threads : \A i : Halfway(u, Newest, i) <=>
         u = t /\ pc[t] = "store_val" /\ i = op[t].index
  BY <1>1, <1>2 DEF Halfway, StoreFrom
<1>6. \A u \in Threads : \A i : Uncounted(u, Newest, i) <=>
         u = t /\ pc[t] \in {"seq_even", "set_size"} /\ i = op[t].index
  BY <1>1, <1>2 DEF Uncounted, StoreFrom
<1>7. gen[Newest].seqlock % 2 = 1
        <=> pc[t] \in {"store_type", "store_val", "seq_even"} /\ gen[Newest].shared
  BY <1>1, <1>4 DEF IInv, SeqLocksMatch
<1>8. \A i \in Indices : gen[Newest].table[i].type = gen[Newest].table[i].val
                           \/ (pc[t] = "store_val" /\ i = op[t].index)
  BY <1>1, <1>5 DEF IInv, ElementsAreWhole
<1>9. ASSUME NEW k \in DOMAIN history
      PROVE  history[k].index < gen[Newest].size
               \/ (pc[t] \in {"seq_even", "set_size"} /\ history[k].index = op[t].index)
  BY <1>1, <1>6 DEF IInv, SizesCover
<1> QED
  BY <1>1, <1>3, <1>7, <1>8, <1>9 DEF IInv, ValuesAreStored, SizesCover

LEMMA StoreStays ==
  ASSUME IInv, NEW t \in Threads, NEW to \in StoreTo \ {"idle"}, NEW r \in Generation,
         pc[t] \in StoreFrom, pc' = [pc EXCEPT ![t] = to], gen' = [gen EXCEPT ![Newest] = r],
         r.alloc_size = gen[Newest].alloc_size, r.newer = gen[Newest].newer,
         r.shared = gen[Newest].shared, r.creator = gen[Newest].creator,
         r.write_lock = gen[Newest].write_lock,
         to \in {"seq_even", "unlock_done"} => gen[Newest].shared,
         UNCHANGED <<ref, op, arr, new, new_size, seq1, val, nwrites, seen>>,
         history' = history \/ \E e \in Writes : history' = Append(history, e)
  PROVE  StoreMove(t, r, to)
<1>1. history \in Seq(Writes)
  BY DEF IInv, TypeOK, Writes
<1>2. history' \in Seq(Writes) /\ Len(history) <= Len(history')
  <2>1. CASE history' = history
    BY <1>1, <2>1, SeenIsPast
  <2>2. CASE history' # history
    <3>1. PICK e \in Writes : history' = Append(history, e)
      BY <2>2
    <3>2. Append(history, e) \in Seq(Writes)
      BY <1>1
    <3> QED
      BY <1>1, <3>1, <3>2, Prefixes
  <2> QED
    BY <2>1, <2>2
<1> QED
  BY <1>2 DEF StoreMove, IInv, TypeOK

LEMMA StoreKeeps ==
  ASSUME IInv, NEW t \in Threads,
         SeqOdd(t) \/ StoreType(t) \/ StoreVal(t) \/ SeqEven(t)
  PROVE  IInv'
<1>1. pc[t] \in StoreFrom /\ {"store_type", "store_val", "seq_even", "set_size"} \subseteq StoreTo \ {"idle"}
  BY DEF SeqOdd, StoreType, StoreVal, SeqEven, Goto, StoreFrom, StoreTo
<1>2. PICK h \in Gens : h = Newest /\ arr[t] = h
  BY <1>1, StorerFacts
<1>3. PICK i \in Indices, v \in Values : i = op[t].index /\ v = op[t].value
  BY <1>1, StorerFacts DEF Ops
<1>4. /\ gen[h] \in Generation
      /\ gen[h].seqlock % 2 = 1
           <=> pc[t] \in {"store_type", "store_val", "seq_even"} /\ gen[h].shared
      /\ \A j \in Indices : gen[h].table[j].type = gen[h].table[j].val
                              \/ (pc[t] = "store_val" /\ j = i)
      /\ \A j \in Indices : gen[h].table[j].val = LastWrite(history, j)
      /\ gen[h].size <= gen[h].alloc_size
      /\ \A k \in DOMAIN history :
           history[k].index < gen[h].size
             \/ (pc[t] \in {"seq_even", "set_size"} /\ history[k].index = i)
      /\ pc[t] = "store_val" => gen[h].table[i].type = v
  BY <1>1, <1>2, <1>3, StorerFinds
<1>5. /\ gen[h].seqlock \in Nat /\ gen[h].table \in [Indices -> Words]
      /\ gen[h].shared \in BOOLEAN /\ gen[h].table[i] \in Words
      /\ pc[t] \in {"seq_odd", "seq_even"} => gen[h].shared
  BY <1>1, <1>2, <1>4, StorerFacts DEF Generation
<1>6. gen \in [Gens -> Generation] /\ history \in Seq(Writes)
  BY DEF IInv, TypeOK, Writes
<1>7. CASE SeqOdd(t) \/ SeqEven(t)
  <2>1. PICK r : r = [gen[h] EXCEPT !.seqlock = @ + 1]
    OBVIOUS
  <2>2. /\ r \in Generation /\ r.seqlock = gen[h].seqlock + 1 /\ r.table = gen[h].table
        /\ r.size = gen[h].size /\ r.alloc_size = gen[h].alloc_size /\ r.newer = gen[h].newer
        /\ r.shared = gen[h].shared /\ r.creator = gen[h].creator
        /\ r.write_lock = gen[h].write_lock
    BY <1>4, <1>5, <2>1 DEF Generation
  <2>3. PICK to \in StoreTo \ {"idle"} :
          /\ pc' = [pc EXCEPT ![t] = to]
          /\ pc[t] = "seq_odd" => to = "store_type"
          /\ pc[t] = "seq_even" => to = "set_size"
          /\ pc[t] \in {"seq_odd", "seq_even"}
    BY <1>1, <1>7 DEF SeqOdd, SeqEven, Goto
  <2>4. /\ gen' = [gen EXCEPT ![h] = r]
        /\ UNCHANGED <<ref, op, arr, new, new_size, seq1, val, nwrites, history, seen>>
    BY <1>2, <1>6, <1>7, <2>1 DEF SeqOdd, SeqEven
  <2>5. StoreMove(t, r, to)
    BY <1>1, <1>2, <2>2, <2>3, <2>4, StoreStays
  <2>6. r.seqlock % 2 = 1 <=> pc[t] = "seq_odd"
    BY <1>4, <1>5, <2>2, <2>3
  <2>7. /\ r.seqlock >= gen[h].seqlock /\ r.seqlock # gen[h].seqlock
        /\ (r.seqlock % 2 = 1 <=> to \in {"store_type", "store_val", "seq_even"} /\ gen[h].shared)
    BY <1>5, <2>2, <2>3, <2>6
  <2>8. \A k \in DOMAIN history' : history'[k].index < r.size
          \/ (to \in {"seq_even", "set_size"} /\ history'[k].index = op[t].index)
    BY <1>3, <1>4, <2>2, <2>3, <2>4
  <2> QED
    BY <1>2, <1>4, <2>2, <2>3, <2>4, <2>5, <2>7, <2>8, StoreMoveKeeps
<1>8. CASE StoreType(t)
  <2>1. PICK w \in Words : w = [gen[h].table[i] EXCEPT !.type = v]
    BY <1>5 DEF Words
  <2>2. PICK r : r = [gen[h] EXCEPT !.table = [@ EXCEPT ![i] = w]]
    OBVIOUS
  <2>3. /\ r \in Generation /\ r.seqlock = gen[h].seqlock
        /\ r.table = [gen[h].table EXCEPT ![i] = w]
        /\ r.size = gen[h].size /\ r.alloc_size = gen[h].alloc_size /\ r.newer = gen[h].newer
        /\ r.shared = gen[h].shared /\ r.creator = gen[h].creator
        /\ r.write_lock = gen[h].write_lock
    BY <1>4, <1>5, <2>2 DEF Generation
  <2>4. /\ \A j \in Indices : r.table[j].val = gen[h].table[j].val
        /\ \A j \in Indices \ {i} : r.table[j].type = gen[h].table[j].type
        /\ r.table[i].type = v
    BY <1>5, <2>1, <2>3 DEF Words
  <2>5. PICK to \in StoreTo \ {"idle"} : to = "store_val"
    BY <1>1
  <2>6. /\ gen' = [gen EXCEPT ![h] = r] /\ pc[t] = "store_type" /\ pc' = [pc EXCEPT ![t] = to]
        /\ UNCHANGED <<ref, op, arr, new, new_size, seq1, val, nwrites, history, seen>>
    <3>1. gen' = [gen EXCEPT ![h].table[i].type = v]
      BY <1>2, <1>3, <1>8 DEF StoreType
    <3>2. [gen EXCEPT ![h].table[i].type = v] = [gen EXCEPT ![h] = r]
      BY <1>5, <1>6, <2>1, <2>2
    <3> QED
      BY <1>8, <2>5, <3>1, <3>2 DEF StoreType, Goto
  <2>7. StoreMove(t, r, to)
    BY <1>1, <1>2, <2>3, <2>5, <2>6, StoreStays
  <2>8. /\ r.seqlock >= gen[h].seqlock
        /\ (r.seqlock % 2 = 1 <=> to \in {"store_type", "store_val", "seq_even"} /\ gen[h].shared)
        /\ ~gen[h].shared \/ r.seqlock % 2 = 1
    BY <1>4, <1>5, <2>3, <2>5, <2>6
  <2>9. \A j \in Indices : r.table[j].type = r.table[j].val
                             \/ (to = "store_val" /\ j = op[t].index)
    BY <1>3, <1>4, <2>4, <2>5, <2>6
  <2>10. /\ \A j \in Indices : r.table[j].val = LastWrite(history', j)
         /\ \A k \in DOMAIN history' : history'[k].index < r.size
    BY <1>4, <2>3, <2>4, <2>6
  <2>11. r.size <= r.alloc_size /\ r.table[op[t].index].type = op[t].value
    BY <1>3, <1>4, <2>3, <2>4
  <2> QED
    BY <1>2, <2>6, <2>7, <2>8, <2>9, <2>10, <2>11, StoreMoveKeeps
<1>9. CASE StoreVal(t)
  <2>1. PICK w \in Words : w = [gen[h].table[i] EXCEPT !.val = v]
    BY <1>5 DEF Words
  <2>2. PICK r : r = [gen[h] EXCEPT !.table = [@ EXCEPT ![i] = w]]
    OBVIOUS
  <2>3. /\ r \in Generation /\ r.seqlock = gen[h].seqlock
        /\ r.table = [gen[h].table EXCEPT ![i] = w]
        /\ r.size = gen[h].size /\ r.alloc_size = gen[h].alloc_size /\ r.newer = gen[h].newer
        /\ r.shared = gen[h].shared /\ r.creator = gen[h].creator
        /\ r.write_lock = gen[h].write_lock
    BY <1>4, <1>5, <2>2 DEF Generation
  <2>4. /\ \A j \in Indices : r.table[j].type = gen[h].table[j].type
        /\ \A j \in Indices \ {i} : r.table[j].val = gen[h].table[j].val
        /\ r.table[i].val = v
    BY <1>5, <2>1, <2>3 DEF Words
  <2>5. PICK to \in StoreTo \ {"idle"} : to = IF gen[h].shared THEN "seq_even" ELSE "set_size"
    BY <1>1
  <2>6. PICK e \in Writes : e = [index |-> i, value |-> v]
    BY DEF Writes
  <2>7. /\ gen' = [gen EXCEPT ![h] = r] /\ pc[t] = "store_val" /\ pc' = [pc EXCEPT ![t] = to]
        /\ UNCHANGED <<ref, op, arr, new, new_size, seq1, val, nwrites, seen>>
        /\ history' = Append(history, e)
    <3>1. gen' = [gen EXCEPT ![h].table[i].val = v]
      BY <1>2, <1>3, <1>9 DEF StoreVal
    <3>2. [gen EXCEPT ![h].table[i].val = v] = [gen EXCEPT ![h] = r]
      BY <1>5, <1>6, <2>1, <2>2
    <3>3. history' = Append(history, e)
      BY <1>3, <1>9, <2>6 DEF StoreVal
    <3> QED
      BY <1>2, <1>9, <2>5, <3>1, <3>2, <3>3 DEF StoreVal, Goto
  <2>8. StoreMove(t, r, to)
    BY <1>1, <1>2, <2>3, <2>5, <2>7, StoreStays
  <2>9. /\ r.seqlock >= gen[h].seqlock
        /\ (r.seqlock % 2 = 1 <=> to \in {"store_type", "store_val", "seq_even"} /\ gen[h].shared)
        /\ ~gen[h].shared \/ r.seqlock % 2 = 1
    BY <1>4, <1>5, <2>3, <2>5, <2>7
  <2>10. \A j \in Indices : r.table[j].type = r.table[j].val
    BY <1>4, <2>4, <2>7
  <2>11. \A j \in Indices : r.table[j].val = LastWrite(history', j)
    BY <1>4, <1>6, <2>4, <2>6, <2>7, LastOfAppend
  <2>12. ASSUME NEW k \in DOMAIN history'
         PROVE  history'[k].index < r.size
                  \/ (to \in {"seq_even", "set_size"} /\ history'[k].index = op[t].index)
    <3>1. CASE k \in DOMAIN history
      <4>1. history'[k] = history[k]
        BY <1>6, <2>7, <3>1
      <4> QED
        BY <1>4, <2>3, <2>7, <3>1, <4>1
    <3>2. CASE k \notin DOMAIN history
      <4>1. history'[k] = e
        BY <1>6, <2>7, <3>2
      <4> QED
        BY <1>3, <2>5, <2>6, <4>1
    <3> QED
      BY <3>1, <3>2
  <2>13. r.size <= r.alloc_size /\ to # "store_val"
    BY <1>4, <2>3, <2>5
  <2> QED
    BY <1>2, <2>7, <2>8, <2>9, <2>10, <2>11, <2>12, <2>13, StoreMoveKeeps
<1> QED
  BY <1>7, <1>8, <1>9

LEMMA SetSizeKeeps ==
  ASSUME IInv, NEW t \in Threads, SetSize(t)
  PROVE  IInv'
<1>1. pc[t] \in StoreFrom /\ pc[t] = "set_size" /\ {"idle", "unlock_done"} \subseteq StoreTo
  BY DEF SetSize, StoreFrom, StoreTo
<1>2. PICK h \in Gens : h = Newest /\ arr[t] = h
  BY <1>1, StorerFacts
<1>3. PICK i \in Indices : i = op[t].index /\ i \in Nat /\ i < gen[h].alloc_size
  BY <1>1, <1>2, StorerFacts
<1>4. /\ gen[h] \in Generation
      /\ gen[h].seqlock % 2 # 1
      /\ \A j \in Indices : gen[h].table[j].type = gen[h].table[j].val
      /\ \A j \in Indices : gen[h].table[j].val = LastWrite(history, j)
      /\ gen[h].size <= gen[h].alloc_size
      /\ \A k \in DOMAIN history : history[k].index < gen[h].size \/ history[k].index = i
  BY <1>1, <1>2, <1>3, StorerFinds
<1>5. /\ gen[h].seqlock \in Nat /\ gen[h].size \in Nat /\ gen[h].alloc_size \in Nat
      /\ gen[h].shared \in BOOLEAN
  BY <1>4 DEF Generation
<1>6. PICK s \in Nat : s = IF i >= gen[h].size THEN i + 1 ELSE gen[h].size
  BY <1>3, <1>5
<1>7. PICK r : r = [gen[h] EXCEPT !.size = s]
  OBVIOUS
<1>8. /\ r \in Generation /\ r.seqlock = gen[h].seqlock /\ r.table = gen[h].table
      /\ r.size = s /\ r.alloc_size = gen[h].alloc_size /\ r.newer = gen[h].newer
      /\ r.shared = gen[h].shared /\ r.creator = gen[h].creator
      /\ r.write_lock = gen[h].write_lock
  BY <1>4, <1>7 DEF Generation
<1>9. gen \in [Gens -> Generation] /\ history \in Seq(Writes)
  BY DEF IInv, TypeOK, Writes
<1>10. PICK to \in StoreTo : to = IF gen[h].shared THEN "unlock_done" ELSE "idle"
  BY <1>1
<1>11. /\ gen' = [gen EXCEPT ![h] = r] /\ pc' = [pc EXCEPT ![t] = to]
       /\ UNCHANGED <<ref, nwrites, history>>
       /\ gen[h].shared => UNCHANGED <<op, arr, new, new_size, seq1, val, seen>>
       /\ ~gen[h].shared => Return(t)
  BY <1>2, <1>3, <1>6, <1>7, <1>9, <1>10 DEF SetSize
<1>12. StoreMove(t, r, to)
  <2>1. CASE gen[h].shared
    BY <1>1, <1>2, <1>8, <1>10, <1>11, <2>1, StoreStays
  <2>2. CASE ~gen[h].shared
    BY <1>1, <1>2, <1>8, <1>9, <1>10, <1>11, <2>2, ReturnEffect, SeenIsPast DEF StoreMove
  <2> QED
    BY <2>1, <2>2
<1>13. /\ r.size <= r.alloc_size
       /\ \A k \in DOMAIN history' : history'[k].index < r.size
  <2>1. s <= gen[h].alloc_size /\ i < s /\ gen[h].size <= s
    BY <1>3, <1>4, <1>5, <1>6
  <2>2. ASSUME NEW k \in DOMAIN history PROVE history[k].index < s
    <3>1. history[k] \in Writes
      BY <1>9
    <3>2. history[k].index \in Nat
      BY <3>1, IndexIsNat DEF Writes
    <3> QED
      BY <1>4, <1>5, <2>1, <3>2
  <2> QED
    BY <1>8, <1>11, <2>1, <2>2
<1>14. /\ r.seqlock >= gen[h].seqlock /\ r.seqlock % 2 # 1
       /\ to \notin {"store_type", "store_val", "seq_even"}
  BY <1>4, <1>5, <1>8, <1>10
<1> QED
  BY <1>2, <1>4, <1>8, <1>11, <1>12, <1>13, <1>14, StoreMoveKeeps

-----------------------------------------------------------------------------
(* Expansion.                                                              *)

(* Whoever expands the array has its lock, and nobody else has a           *)
(* generation to publish or writes.                                        *)
LEMMA ExpanderIsAlone ==
  ASSUME IInv, NEW t \in Threads, pc[t] \in {"alloc", "publish"}
  PROVE  /\ Owns(t, Newest)
         /\ \A u \in Threads \ {t} :
              /\ pc[u] \notin TipPcs \cup {"alloc"} /\ ~LocalReads(u)
              /\ ~Owns(u, Newest)
         /\ pc[t] \in WritePcs /\ pc[t] \in AccessPcs \cup {"alloc"}
<1>1. Newest \in Findable /\ Newest \in Live /\ Link(Newest) = NULL
      /\ \A g \in Findable : Link(g) = NULL => g = Newest
  BY NewestIsTip DEF IInv
<1>2. /\ pc[t] = "publish" => pc[t] \in AccessPcs \cap TipPcs \cap LockedPcs
      /\ pc[t] \in WritePcs /\ pc[t] \in AccessPcs \cup {"alloc"}
  BY DEF AccessPcs, TipPcs, LockedPcs, WritePcs
<1>3. pc[t] = "publish" => arr[t] = Newest
  BY <1>1, <1>2 DEF IInv, ThreadsAreInOrder, PointersAreGood
<1>4. Owns(t, Newest)
  BY <1>1, <1>2, <1>3 DEF Owns
<1>5. \A u \in Threads \ {t} : ~Owns(u, Newest)
  BY <1>1, <1>4 DEF IInv, LocksAreHeld
<1>6. ASSUME NEW u \in Threads \ {t} PROVE pc[u] \notin TipPcs \cup {"alloc"} /\ ~LocalReads(u)
  <2>1. pc[u] # "alloc"
    BY <1>1, <1>5 DEF Owns
  <2>2. pc[u] \in AccessPcs => gen[Newest].shared
    <3>1. t # Creator \/ u # Creator
      OBVIOUS
    <3> QED
      BY <1>1, <1>2, <3>1 DEF IInv, ThreadsAreInOrder, SharingIsKept
  <2>3. pc[u] \in AccessPcs => arr[u] \in Findable
    BY DEF IInv, ThreadsAreInOrder, PointersAreGood
  <2>4. ~LocalReads(u)
    <3>1. LocalReads(u) => pc[u] \in AccessPcs
      BY DEF LocalReads, AccessPcs, ReadPcs
    <3>2. LocalReads(u) => Link(arr[u]) = NULL /\ ~gen[arr[u]].shared
      BY DEF IInv, ThreadsAreInOrder, SharingIsKept
    <3> QED
      BY <1>1, <2>2, <2>3, <3>1, <3>2
  <2>5. pc[u] \notin TipPcs
    <3> SUFFICES ASSUME pc[u] \in TipPcs PROVE FALSE
      OBVIOUS
    <3>1. pc[u] \in AccessPcs
      BY PcSets
    <3>2. arr[u] = Newest
      BY <1>1, <2>3, <3>1 DEF IInv, ThreadsAreInOrder, PointersAreGood
    <3>3. pc[u] \in LockedPcs \cup StorePcs
      BY DEF TipPcs, LockedPcs
    <3> QED
      BY <1>5, <2>2, <3>1, <3>2, <3>3 DEF Owns
  <2> QED
    BY <2>1, <2>4, <2>5
<1> QED
  BY <1>2, <1>4, <1>5, <1>6

(* The copy is whole, of the same values, and large enough.                *)
LEMMA CopyIsGood ==
  ASSUME IInv, RequestsFit, NEW t \in Threads, pc[t] = "alloc", NEW r,
         r = Expanded(t, gen[Newest], new_size[t])
  PROVE  /\ r \in Generation /\ r.alloc_size > 0 /\ r.newer = NULL /\ r.seqlock = 0
         /\ r.write_lock = 1 /\ r.shared = gen[Newest].shared /\ r.creator = Creator
         /\ r.size <= r.alloc_size
         /\ \A i \in Indices : /\ r.table[i].type = r.table[i].val
                               /\ r.table[i].val = LastWrite(history, i)
         /\ \A k \in DOMAIN history : history[k].index < r.size
<1>1. PICK h \in Live : h = Newest /\ h \in Findable /\ h \in Gens /\ Link(h) = NULL
  BY NewestIsTip DEF IInv
<1>2. /\ gen[h] \in Generation /\ gen[h].alloc_size \in Nat \ {0} /\ gen[h].size \in Nat
      /\ gen[h].table \in [Indices -> Words] /\ gen[h].size <= gen[h].alloc_size
      /\ gen[h].shared \in BOOLEAN /\ gen[h].creator = Creator
  BY <1>1 DEF IInv, TypeOK, Live, Generation, SizesCover
<1>4. PICK n \in Nat : n = new_size[t] /\ n >= gen[h].size
  BY <1>1, <1>2 DEF IInv, TypeOK, RequestsFit
<1>5. Kept(gen[h], n) = gen[h].size
  BY <1>2, <1>4 DEF Kept
<1>6. PICK tab : tab = FirstElements(gen[h], Kept(gen[h], n))
  OBVIOUS
<1>7. /\ tab \in [Indices -> Words]
      /\ \A i \in Indices : tab[i] = IF i < gen[h].size THEN gen[h].table[i] ELSE Zero
  <2>1. Zero \in Words
    BY ArrayAssumption DEF Zero, Words, Values
  <2> QED
    BY <1>2, <1>5, <1>6, <2>1 DEF FirstElements
<1>8. PICK m \in Nat : m = (IF n < 2 THEN 2 ELSE n) /\ m >= gen[h].size /\ m > 0
  BY <1>2, <1>4
<1>9. r = [Unused EXCEPT !.alloc_size = m, !.creator = Creator, !.size = gen[h].size,
                         !.table = tab, !.shared = gen[h].shared, !.write_lock = 1]
  BY ZenonT(30), <1>1, <1>2, <1>4, <1>5, <1>6, <1>8 DEF Expanded, NewArray, Unused
<1>10. /\ r.alloc_size = m /\ r.newer = NULL /\ r.seqlock = 0 /\ r.write_lock = 1
       /\ r.shared = gen[h].shared /\ r.creator = Creator /\ r.size = gen[h].size
       /\ r.table = tab
       /\ r = [alloc_size |-> m, size |-> gen[h].size, table |-> tab,
               shared |-> gen[h].shared, creator |-> Creator, write_lock |-> 1, seqlock |-> 0,
               newer |-> NULL]
  BY <1>9 DEF Unused
<1>11. r \in Generation
  BY <1>2, <1>7, <1>10, ArrayAssumption DEF Generation
<1>12. \A u \in Threads : pc[u] \notin StorePcs \cup {"seq_even"}
  BY ExpanderIsAlone DEF TipPcs, StorePcs
<1>13. \A i \in Indices : gen[h].table[i].type = gen[h].table[i].val
                            /\ gen[h].table[i].val = LastWrite(history, i)
  BY <1>1, <1>12 DEF IInv, ElementsAreWhole, Halfway, StorePcs, ValuesAreStored
<1>14. ASSUME NEW k \in DOMAIN history PROVE history[k].index < gen[h].size
  BY <1>1, <1>12 DEF IInv, SizesCover, Uncounted, StorePcs
<1>15. ASSUME NEW i \in Indices, ~(i < gen[h].size) PROVE LastWrite(history, i) = 0
  <2>1. \A k \in DOMAIN history : history[k].index # i
    BY <1>14, <1>15
  <2>2. history \in Seq(Writes)
    BY DEF IInv, TypeOK, Writes
  <2> QED
    BY <2>1, <2>2, NeverWritten
<1>16. \A i \in Indices : tab[i].type = tab[i].val /\ tab[i].val = LastWrite(history, i)
  BY <1>7, <1>13, <1>15 DEF Zero
<1> QED
  BY <1>1, <1>8, <1>10, <1>11, <1>14, <1>16

LEMMA AllocAndCopyKeeps ==
  ASSUME IInv, RequestsFit, NEW t \in Threads, AllocAndCopy(t)
  PROVE  IInv'
<1>1. PICK h \in Live :
        /\ h = Newest /\ h \in Findable /\ h \in Gens /\ Link(h) = NULL
        /\ \A x \in Findable : Link(x) = NULL => x = h
  BY NewestIsTip DEF IInv
<1>2. PICK r : r = Expanded(t, gen[h], new_size[t])
  OBVIOUS
<1>3. PICK g \in Free : /\ gen' = [gen EXCEPT ![g] = r]
                        /\ new' = [new EXCEPT ![t] = g]
  BY <1>1, <1>2 DEF AllocAndCopy, Refollowed
<1>4. /\ pc[t] = "alloc" /\ pc' = [pc EXCEPT ![t] = "publish"]
      /\ arr' = [arr EXCEPT ![t] = h]
      /\ UNCHANGED <<ref, op, new_size, seq1, val, nwrites, history, seen>>
  BY <1>1 DEF AllocAndCopy, Refollowed, Goto
<1>5. /\ r \in Generation /\ r.alloc_size > 0 /\ r.newer = NULL /\ r.seqlock = 0
      /\ r.write_lock = 1 /\ r.shared = gen[h].shared /\ r.creator = Creator
      /\ r.size <= r.alloc_size
      /\ \A i \in Indices : r.table[i].type = r.table[i].val
                              /\ r.table[i].val = LastWrite(history, i)
      /\ \A k \in DOMAIN history : history[k].index < r.size
  BY <1>1, <1>2, <1>4, CopyIsGood
<1>6. g \in Gens /\ g \notin Live /\ Live \subseteq Gens /\ Findable \subseteq Live /\ g # h
  <2>1. Gens \ Live # {} /\ g \in {CHOOSE x \in Gens \ Live : TRUE}
    BY <1>3 DEF Free
  <2> QED
    BY <1>1, <2>1, NewestIsTip DEF IInv
<1>7. /\ gen \in [Gens -> Generation] /\ gen' \in [Gens -> Generation]
      /\ gen'[g] = r /\ \A x \in Gens \ {g} : gen'[x] = gen[x]
  BY <1>3, <1>5, <1>6 DEF IInv, TypeOK
<1>8. /\ pc'[t] = "publish" /\ arr'[t] = h /\ new'[t] = g
      /\ pc' \in [Threads -> Pcs] /\ arr' \in [Threads -> Gens \cup {NULL}]
      /\ new' \in [Threads -> Gens \cup {NULL}]
      /\ \A u \in Threads \ {t} : pc'[u] = pc[u] /\ arr'[u] = arr[u] /\ new'[u] = new[u]
  BY <1>1, <1>3, <1>4, <1>6 DEF IInv, TypeOK, Pcs, AccessPcs, LockedPcs
<1>9. \A u \in Threads \ {t} : /\ pc[u] \notin TipPcs \cup {"alloc"} /\ ~LocalReads(u)
                               /\ pc[u] # "publish"
  BY <1>4, ExpanderIsAlone DEF TipPcs
<1>10. Live' = Live \cup {g}
  <2>1. \A x \in Gens \ {g} : x \in Live' <=> x \in Live
    BY <1>7 DEF Live
  <2>2. g \in Live'
    BY <1>5, <1>6, <1>7 DEF Live
  <2> QED
    BY <1>6, <2>1, <2>2 DEF Live
<1>11. Findable' = Live /\ Findable = Live
  <2>1. \A x : Private(x)' <=> x = g
    BY <1>8, <1>9 DEF Private
  <2>2. \A x : ~Private(x)
    BY <1>4, <1>9 DEF Private
  <2> QED
    BY <1>6, <1>10, <2>1, <2>2 DEF Findable
<1>12. \A x \in Gens : Link(x)' = Link(x)
  <2>1. Link(g) = NULL
    BY <1>6 DEF IInv, ChainIsWhole
  <2> QED
    BY <1>5, <1>7, <2>1 DEF Link
<1>13. ChainIsWhole'
  <2>1. Chain' = Chain
    BY <1>4, <1>12 DEF Chain, Link
  <2> QED
    BY <1>4, <1>6, <1>11, <1>12, <2>1 DEF IInv, ChainIsWhole
<1>14. TypeOK'
  BY <1>4, <1>7, <1>8, <1>10 DEF IInv, TypeOK
<1>15. \A u \in Threads : pc[u] \in AccessPcs => arr[u] \in Live
  BY <1>6 DEF IInv, ThreadsAreInOrder, PointersAreGood
<1>16. ThreadsAreInOrder'
  <2>1. ASSUME NEW u \in Threads \ {t} PROVE PointersAreGood(u)' /\ OperationIsKept(u)'
    <3>1. PointersAreGood(u)'
      BY <1>8, <1>9, <1>11, <2>1 DEF IInv, ThreadsAreInOrder, PointersAreGood
    <3>2. pc[u] \in {"lock", "check_newer"} => pc[u] \in AccessPcs
      BY DEF AccessPcs, LockedPcs
    <3>3. pc[u] \notin StorePcs \cup {"seq_odd", "seq_even"}
      BY <1>9 DEF TipPcs
    <3>4. pc[u] \in {"lock", "check_newer"} => gen'[arr[u]] = gen[arr[u]]
      BY <1>6, <1>7, <1>15, <3>2
    <3>5. OperationIsKept(u)
      BY DEF IInv, ThreadsAreInOrder
    <3>6. OperationIsKept(u)'
      BY <1>4, <1>8, <3>3, <3>4, <3>5 DEF OperationIsKept
    <3> QED
      BY <3>1, <3>6
  <2>2. ASSUME NEW u \in Threads, NEW x \in Live', pc'[u] \in AccessPcs \cup {"alloc"},
               u # Creator, Link(x)' = NULL
        PROVE  gen'[x].shared
    <3>1. pc[u] \in AccessPcs \cup {"alloc"}
      BY <1>4, <1>8, <2>2
    <3>2. \A y \in Live : Link(y) = NULL => gen[y].shared
      BY <2>2, <3>1 DEF IInv, ThreadsAreInOrder, SharingIsKept
    <3> QED
      BY <1>1, <1>5, <1>6, <1>7, <1>10, <1>12, <2>2, <3>2
  <2>3. ASSUME NEW u \in Threads \ {t} PROVE SharingIsKept(u)'
    <3>1. ~LocalReads(u)'
      BY <1>4, <1>8, <1>9 DEF LocalReads
    <3>2. pc[u] \in ReadPcs => gen'[arr[u]] = gen[arr[u]]
      BY <1>6, <1>7, <1>15, PcSets
    <3>3. pc[u] \notin {"seq_odd", "seq_even"}
      BY <1>9 DEF TipPcs
    <3>4. SharingIsKept(u)
      BY DEF IInv, ThreadsAreInOrder
    <3> QED
      BY <1>4, <1>8, <2>2, <3>1, <3>2, <3>3, <3>4 DEF SharingIsKept
  <2>4. "publish" \notin ReadPcs \cup StorePcs /\ "publish" \in WritePcs
    BY DEF ReadPcs, StorePcs, WritePcs, LockedPcs
  <2>5. PointersAreGood(t)'
    <3>1. new'[t] \in Live' /\ Link(g)' = NULL /\ gen'[g].shared = gen'[h].shared
      BY <1>5, <1>6, <1>7, <1>8, <1>10 DEF Link
    <3> QED
      BY <1>1, <1>8, <1>11, <1>12, <3>1 DEF PointersAreGood, Link
  <2>6. OperationIsKept(t)'
    <3>1. op[t].index \in Indices /\ op[t].kind = "write"
      BY <1>4 DEF IInv, ThreadsAreInOrder, OperationIsKept, WritePcs
    <3> QED
      BY <1>4, <1>8, <2>4, <3>1 DEF OperationIsKept
  <2>7. SharingIsKept(t)'
    <3>1. ~LocalReads(t)'
      BY <1>8 DEF LocalReads
    <3> QED
      BY <1>8, <2>2, <2>4, <3>1 DEF SharingIsKept
  <2> QED
    BY <2>1, <2>3, <2>5, <2>6, <2>7 DEF ThreadsAreInOrder
<1>17. LocksAreHeld'
  <2>1. \A u \in Threads \ {t} : ~Owns(u, g)' /\ ~Counted(u, g)'
    <3> SUFFICES ASSUME NEW u \in Threads \ {t} PROVE ~Counted(u, g)'
      BY DEF Counted
    <3>1. pc[u] \in AccessPcs => arr[u] # g
      BY <1>6, <1>15
    <3>2. pc[u] = "unlock_old" => new[u] # g
      BY <1>6 DEF IInv, ThreadsAreInOrder, PointersAreGood
    <3>3. pc[u] \in LockedPcs \cup StorePcs \cup {"back_off"} => pc[u] \in AccessPcs
      BY DEF AccessPcs
    <3> QED
      BY <1>8, <1>9, <3>1, <3>2, <3>3 DEF Owns, Counted
  <2>2. Owns(t, g)' /\ Counted(t, g)'
    BY <1>8 DEF Owns, Counted
  <2>3. \A u \in Threads \ {t}, x \in Live :
          (Owns(u, x)' <=> Owns(u, x)) /\ (Counted(u, x)' <=> Counted(u, x))
    BY <1>6, <1>7, <1>8, <1>9 DEF Owns, Counted
  <2>4. \A x \in Live : (Owns(t, x)' <=> Owns(t, x)) /\ (Counted(t, x)' <=> Counted(t, x))
    <3>1. "publish" \in LockedPcs \ StorePcs /\ "alloc" \notin LockedPcs \cup StorePcs
      BY DEF LockedPcs, StorePcs
    <3>2. \A x \in Live : Owns(t, x)' <=> x = h
      BY <1>6, <1>8, <3>1 DEF Owns
    <3>3. \A x \in Live : Owns(t, x) <=> x = h
      BY <1>1, <1>4, <1>11, <3>1 DEF Owns
    <3> QED
      BY <1>4, <1>8, <3>2, <3>3 DEF Counted
  <2>5. Holders(g)' = {t} /\ Cardinality(Holders(g)') = 1
    <3>1. Holders(g)' = {t}
      BY <2>1, <2>2 DEF Holders
    <3> QED
      BY <3>1, FS_Singleton
  <2>6. \A x \in Live : Holders(x)' = Holders(x)
    BY <2>3, <2>4 DEF Holders
  <2>7. \A x \in Live' : gen'[x].write_lock = Cardinality(Holders(x)')
    <3>1. \A x \in Live : gen'[x].write_lock = Cardinality(Holders(x)')
      BY <1>6, <1>7, <2>6 DEF IInv, LocksAreHeld
    <3>2. gen'[g].write_lock = Cardinality(Holders(g)')
      BY <1>5, <1>7, <2>5
    <3> QED
      BY <1>10, <3>1, <3>2
  <2>8. \A x \in Live' : \A u, v \in Threads : Owns(u, x)' /\ Owns(v, x)' => u = v
    <3>1. \A x \in Live : \A u \in Threads : Owns(u, x)' <=> Owns(u, x)
      BY <2>3, <2>4
    <3>2. \A u \in Threads : Owns(u, g)' => u = t
      BY <2>1
    <3> QED
      BY <1>10, <3>1, <3>2 DEF IInv, LocksAreHeld
  <2> QED
    BY <2>7, <2>8 DEF LocksAreHeld
<1>18. /\ \A u \in Threads : pc[u] \notin StorePcs \cup {"seq_even"}
       /\ \A u \in Threads : pc'[u] \notin StorePcs \cup {"seq_even"}
  BY <1>4, <1>8, <1>9 DEF TipPcs, StorePcs
<1>19. SeqLocksMatch'
  <2>1. \A u \in Threads : \A x : ~Unstable(u, x) /\ ~Unstable(u, x)'
    BY <1>18 DEF Unstable, StorePcs
  <2>2. \A x \in Live' : ~(gen'[x].seqlock % 2 = 1)
    BY <1>5, <1>6, <1>7, <1>10, <2>1 DEF IInv, SeqLocksMatch
  <2> QED
    BY <2>1, <2>2 DEF SeqLocksMatch
<1>20. ElementsAreWhole'
  <2>1. \A u \in Threads : \A x, i : ~Halfway(u, x, i)
    BY <1>18 DEF Halfway, StorePcs
  <2>2. \A x \in Live', i \in Indices : gen'[x].table[i].type = gen'[x].table[i].val
    BY <1>5, <1>6, <1>7, <1>10, <2>1 DEF IInv, ElementsAreWhole
  <2> QED
    BY <2>2 DEF ElementsAreWhole
<1>21. ValuesAreStored'
  BY <1>4, <1>5, <1>6, <1>7, <1>10, <1>12 DEF IInv, ValuesAreStored
<1>22. SizesCover'
  <2>1. \A u \in Threads : \A x, i : ~Uncounted(u, x, i)
    BY <1>18 DEF Uncounted, StorePcs
  <2>2. ASSUME NEW x \in Live', NEW k \in DOMAIN history, Link(x)' = NULL
        PROVE  history[k].index < gen'[x].size
    <3>1. CASE x = g
      BY <1>5, <1>7, <3>1
    <3>2. CASE x \in Live
      BY <1>6, <1>7, <1>12, <2>1, <2>2, <3>2 DEF IInv, SizesCover
    <3> QED
      BY <1>10, <3>1, <3>2
  <2>3. \A x \in Live' : gen'[x].size <= gen'[x].alloc_size /\ gen'[x].creator = Creator
    BY <1>5, <1>6, <1>7, <1>10 DEF IInv, SizesCover
  <2>4. \A u \in Threads : pc'[u] # "store_val"
    BY <1>18 DEF StorePcs
  <2> QED
    BY <1>4, <2>2, <2>3, <2>4 DEF SizesCover
<1>23. ReadersSeeWrites'
  <2>1. ASSUME NEW u \in Threads \ {t} PROVE ReaderIsGood(u)'
    <3>1. pc[u] \in ReadPcs => gen'[arr[u]] = gen[arr[u]]
      BY <1>6, <1>7, <1>15, PcSets
    <3> QED
      BY <1>4, <1>8, <3>1, ReaderKept
  <2>2. ReaderIsGood(t)'
    BY <1>4, <1>8, SeenIsPast DEF ReaderIsGood, ReadPcs
  <2> QED
    BY <2>1, <2>2 DEF ReadersSeeWrites
<1> QED
  BY <1>13, <1>14, <1>16, <1>17, <1>19, <1>20, <1>21, <1>22, <1>23 DEF IInv

LEMMA PublishKeeps ==
  ASSUME IInv, NEW t \in Threads, Publish(t)
  PROVE  IInv'
<1>1. PICK h \in Live :
        /\ h = Newest /\ h \in Findable /\ h \in Gens /\ Link(h) = NULL
        /\ \A x \in Findable : Link(x) = NULL => x = h
  BY NewestIsTip DEF IInv
<1>2. pc[t] = "publish" /\ pc[t] \in AccessPcs /\ pc[t] \in TipPcs /\ pc[t] \in WritePcs
  BY DEF Publish, Goto, AccessPcs, TipPcs, LockedPcs, WritePcs
<1>3. arr[t] = h
  BY <1>1, <1>2 DEF IInv, ThreadsAreInOrder, PointersAreGood
<1>4. PICK g \in Live : /\ g = new[t] /\ g \in Gens /\ g \notin Findable /\ g # h
                        /\ Link(g) = NULL /\ Findable \subseteq Live /\ Live \subseteq Gens
  <2>1. Private(new[t])
    BY <1>2 DEF Private
  <2> QED
    BY <1>1, <1>2, <2>1, NewestIsTip DEF IInv, ThreadsAreInOrder, PointersAreGood, Findable
<1>5. /\ pc' = [pc EXCEPT ![t] = "unlock_old"] /\ gen' = [gen EXCEPT ![h].newer = g]
      /\ UNCHANGED <<ref, op, arr, new, new_size, seq1, val, nwrites, history, seen>>
  BY <1>3, <1>4 DEF Publish, Goto
<1>6. /\ pc'[t] = "unlock_old" /\ pc' \in [Threads -> Pcs]
      /\ \A u \in Threads \ {t} : pc'[u] = pc[u]
  BY <1>5 DEF IInv, TypeOK, Pcs, AccessPcs, LockedPcs
<1>7. /\ gen' \in [Gens -> Generation]
      /\ \A x \in Gens : /\ gen'[x].alloc_size = gen[x].alloc_size /\ gen'[x].size = gen[x].size
                         /\ gen'[x].table = gen[x].table /\ gen'[x].shared = gen[x].shared
                         /\ gen'[x].creator = gen[x].creator
                         /\ gen'[x].write_lock = gen[x].write_lock
                         /\ gen'[x].seqlock = gen[x].seqlock
                         /\ gen'[x].newer = IF x = h THEN g ELSE gen[x].newer
  <2>1. gen \in [Gens -> Generation] /\ gen[h] \in Generation
    BY <1>1 DEF IInv, TypeOK
  <2>2. gen'[h] = [gen[h] EXCEPT !.newer = g] /\ \A x \in Gens \ {h} : gen'[x] = gen[x]
    BY <1>1, <1>5, <2>1
  <2>3. /\ gen'[h] \in Generation
        /\ gen'[h].alloc_size = gen[h].alloc_size /\ gen'[h].size = gen[h].size
        /\ gen'[h].table = gen[h].table /\ gen'[h].shared = gen[h].shared
        /\ gen'[h].creator = gen[h].creator
        /\ gen'[h].write_lock = gen[h].write_lock
        /\ gen'[h].seqlock = gen[h].seqlock /\ gen'[h].newer = g
    BY <1>4, <2>1, <2>2 DEF Generation
  <2>4. gen' \in [Gens -> Generation]
    BY <1>5, <2>1, <2>2, <2>3
  <2> QED
    BY <2>2, <2>3, <2>4
<1>8. \A u \in Threads \ {t} : pc[u] \notin TipPcs \cup {"alloc"} /\ ~LocalReads(u)
                               /\ pc[u] # "publish"
  BY <1>2, ExpanderIsAlone DEF TipPcs
<1>9. Live' = Live
  BY <1>7 DEF Live
<1>10. Findable' = Live /\ Findable = Live \ {g}
  <2>1. \A x : ~Private(x)'
    BY <1>6, <1>8 DEF Private
  <2>2. \A x : Private(x) <=> x = g
    BY <1>2, <1>4, <1>8 DEF Private
  <2> QED
    BY <1>9, <2>1, <2>2 DEF Findable
<1>11. \A x \in Gens : Link(x)' = IF x = h THEN g ELSE Link(x)
  BY <1>7 DEF Link
<1>12. ChainIsWhole'
  <2>1. ref' \in Findable'
    BY <1>4, <1>5, <1>10 DEF IInv, ChainIsWhole
  <2>2. \A x \in Gens : Link(x)' # NULL => x \in Findable' /\ Link(x)' \in Findable'
    BY <1>1, <1>4, <1>10, <1>11 DEF IInv, ChainIsWhole
  <2>3. Live \subseteq Chain'
    <3> SUFFICES ASSUME NEW S \in SUBSET Gens, ref \in S,
                        \A x \in S : Link(x)' # NULL => Link(x)' \in S
                 PROVE  Live \subseteq S
      BY <1>4, <1>5 DEF Chain, Link
    <3>1. \A x \in S : Link(x) # NULL => Link(x) \in S
      BY <1>1, <1>11
    <3>2. \A x \in Chain : x \in S
      BY <3>1 DEF Chain, Link
    <3>3. Live \ {g} \subseteq S
      BY <1>10, <3>2 DEF IInv, ChainIsWhole
    <3>4. g \in S
      BY <1>1, <1>4, <1>11, <3>3, NullIsNone
    <3> QED
      BY <3>3, <3>4
  <2>4. Link(g)' = NULL
    BY <1>4, <1>11
  <2>5. \A x \in Live : Link(x)' = NULL => x = g
    BY <1>1, <1>4, <1>10, <1>11, NullIsNone
  <2> QED
    BY <1>4, <1>10, <2>1, <2>2, <2>3, <2>4, <2>5 DEF ChainIsWhole
<1>13. TypeOK'
  BY <1>5, <1>6, <1>7, <1>9 DEF IInv, TypeOK
<1>14. \A u \in Threads : pc[u] \in AccessPcs => arr[u] \in Live
  BY <1>4 DEF IInv, ThreadsAreInOrder, PointersAreGood
<1>15. \A x \in Live : Link(x)' = NULL => Link(x) = NULL
  BY <1>1, <1>4, <1>11
<1>16. ThreadsAreInOrder'
  <2>1. ASSUME NEW u \in Threads, NEW x \in Live', pc'[u] \in AccessPcs \cup {"alloc"},
               u # Creator, Link(x)' = NULL
        PROVE  gen'[x].shared
    <3>1. pc[u] \in AccessPcs \cup {"alloc"}
      BY <1>2, <1>6, <2>1
    <3>2. Link(x) = NULL /\ x \in Live /\ x \in Gens
      BY <1>4, <1>9, <1>15, <2>1
    <3> QED
      BY <1>7, <2>1, <3>1, <3>2 DEF IInv, ThreadsAreInOrder, SharingIsKept
  <2>2. ASSUME NEW u \in Threads \ {t}
        PROVE  PointersAreGood(u)' /\ OperationIsKept(u)' /\ SharingIsKept(u)'
    <3>1. PointersAreGood(u)'
      BY <1>4, <1>5, <1>6, <1>8, <1>10, <2>2 DEF IInv, ThreadsAreInOrder, PointersAreGood
    <3>2. pc[u] \in {"lock", "check_newer"} => pc[u] \in AccessPcs
      BY DEF AccessPcs, LockedPcs
    <3>3. pc[u] \notin StorePcs \cup {"seq_odd", "seq_even"}
      BY <1>8 DEF TipPcs
    <3>4. pc[u] \in {"lock", "check_newer"} =>
            gen'[arr[u]].shared = gen[arr[u]].shared /\ gen'[arr[u]].alloc_size = gen[arr[u]].alloc_size
      BY <1>4, <1>7, <1>14, <3>2
    <3>5. OperationIsKept(u) /\ SharingIsKept(u)
      BY DEF IInv, ThreadsAreInOrder
    <3>6. OperationIsKept(u)'
      BY <1>5, <1>6, <3>3, <3>4, <3>5 DEF OperationIsKept
    <3>7. pc[u] \in ReadPcs => gen'[arr[u]].shared = gen[arr[u]].shared
      BY <1>4, <1>7, <1>14, PcSets
    <3>8. ~LocalReads(u)'
      BY <1>5, <1>6, <1>8 DEF LocalReads
    <3>9. SharingIsKept(u)'
      BY <1>5, <1>6, <2>1, <3>3, <3>5, <3>7, <3>8 DEF SharingIsKept
    <3> QED
      BY <3>1, <3>6, <3>9
  <2>3. "unlock_old" \notin ReadPcs \cup StorePcs \cup TipPcs /\ "unlock_old" \in WritePcs
    BY DEF ReadPcs, StorePcs, TipPcs, WritePcs, LockedPcs
  <2>4. PointersAreGood(t)'
    BY <1>1, <1>3, <1>4, <1>5, <1>6, <1>10, <2>3 DEF PointersAreGood
  <2>5. OperationIsKept(t)'
    <3>1. op[t].index \in Indices /\ op[t].kind = "write"
      BY <1>2 DEF IInv, ThreadsAreInOrder, OperationIsKept
    <3> QED
      BY <1>5, <1>6, <2>3, <3>1 DEF OperationIsKept
  <2>6. SharingIsKept(t)'
    <3>1. ~LocalReads(t)'
      BY <1>6 DEF LocalReads
    <3> QED
      BY <1>6, <2>1, <2>3, <3>1 DEF SharingIsKept
  <2> QED
    BY <2>2, <2>4, <2>5, <2>6 DEF ThreadsAreInOrder
<1>17. LocksAreHeld'
  <2>1. \A u \in Threads, x \in Live :
          (Owns(u, x)' <=> Owns(u, x)) /\ (Counted(u, x)' <=> Counted(u, x))
    <3>1. \A u \in Threads \ {t} : pc[u] # "alloc" /\ pc[u] # "publish" /\ pc'[u] = pc[u]
      BY <1>6, <1>8
    <3>2. "unlock_old" \in LockedPcs /\ "publish" \in LockedPcs
      BY DEF LockedPcs
    <3>3. "unlock_old" \notin StorePcs /\ "publish" \notin StorePcs
      BY DEF StorePcs
    <3>4. ASSUME NEW u \in Threads, NEW x \in Live
          PROVE  Owns(u, x)' <=> Owns(u, x)
      <4>1. gen'[x].shared = gen[x].shared
        BY <1>4, <1>7
      <4> QED
        BY <1>2, <1>5, <1>6, <3>1, <3>2, <3>3, <4>1 DEF Owns
    <3>5. \A u \in Threads : pc'[u] = "back_off" <=> pc[u] = "back_off"
      BY <1>2, <1>6
    <3> QED
      BY <1>5, <3>4, <3>5 DEF Counted
  <2> QED
    BY <1>7, <1>9, <2>1, LocksKept
<1>18. /\ \A u \in Threads : pc[u] \notin StorePcs \cup {"seq_even"}
       /\ \A u \in Threads : pc'[u] \notin StorePcs \cup {"seq_even"}
  BY <1>2, <1>6, <1>8 DEF TipPcs, StorePcs
<1>19. SeqLocksMatch'
  <2>1. \A u \in Threads : \A x : ~Unstable(u, x) /\ ~Unstable(u, x)'
    BY <1>18 DEF Unstable, StorePcs
  <2> QED
    BY <1>4, <1>7, <1>9, <2>1 DEF IInv, SeqLocksMatch
<1>20. ElementsAreWhole'
  <2>1. \A u \in Threads : \A x, i : ~Halfway(u, x, i)
    BY <1>18 DEF Halfway, StorePcs
  <2>2. \A x \in Live', i \in Indices : gen'[x].table[i].type = gen'[x].table[i].val
    BY <1>4, <1>7, <1>9, <2>1 DEF IInv, ElementsAreWhole
  <2> QED
    BY <2>2 DEF ElementsAreWhole
<1>21. ValuesAreStored'
  BY <1>4, <1>5, <1>7, <1>9, <1>15 DEF IInv, ValuesAreStored
<1>22. SizesCover'
  <2>1. \A u \in Threads : \A x, i : ~Uncounted(u, x, i)
    BY <1>18 DEF Uncounted, StorePcs
  <2>2. \A x \in Live', k \in DOMAIN history : Link(x)' = NULL => history[k].index < gen'[x].size
    BY <1>4, <1>7, <1>9, <1>15, <2>1 DEF IInv, SizesCover
  <2>3. \A x \in Live' : gen'[x].size <= gen'[x].alloc_size /\ gen'[x].creator = Creator
    BY <1>4, <1>7, <1>9 DEF IInv, SizesCover
  <2>4. \A u \in Threads : pc'[u] # "store_val"
    BY <1>18 DEF StorePcs
  <2> QED
    BY <1>5, <2>2, <2>3, <2>4 DEF SizesCover
<1>23. ReadersSeeWrites'
  <2>1. ASSUME NEW u \in Threads \ {t} PROVE ReaderIsGood(u)'
    <3>1. pc[u] \in ReadPcs =>
            gen'[arr[u]].table = gen[arr[u]].table /\ gen'[arr[u]].seqlock = gen[arr[u]].seqlock
      BY <1>4, <1>7, <1>14, PcSets
    <3> QED
      BY <1>5, <1>6, <3>1, ReaderKept
  <2>2. ReaderIsGood(t)'
    BY <1>5, <1>6, SeenIsPast DEF ReaderIsGood, ReadPcs
  <2> QED
    BY <2>1, <2>2 DEF ReadersSeeWrites
<1> QED
  BY <1>12, <1>13, <1>16, <1>17, <1>19, <1>20, <1>21, <1>22, <1>23 DEF IInv

-----------------------------------------------------------------------------
(* Sections: no thread has a pointer to any generation.                    *)

LEMMA WorldIsStopped ==
  ASSUME NEW t \in Threads, pc[t] \in OutPcs, STW!WorldStoppedFor(t)
  PROVE  /\ \A u \in Threads : pc[u] \in OutPcs
         /\ \A u \in Threads : pc[u] \notin AccessPcs \cup TipPcs \cup ReadPcs \cup StorePcs
                                            \cup LockedPcs \cup {"back_off", "done"}
<1>1. \A u \in Threads : pc[u] \in OutPcs
  BY DEF STW!WorldStoppedFor, mode
<1>2. \A x \in OutPcs : x \notin AccessPcs \cup TipPcs \cup ReadPcs \cup StorePcs
                                   \cup LockedPcs \cup {"back_off", "done"}
  BY DEF OutPcs, AccessPcs, TipPcs, ReadPcs, StorePcs, LockedPcs
<1> QED
  BY <1>1, <1>2

(* What the stopped threads keep.                                          *)
StoppedThreads ==
  \A u \in Threads :
    /\ pc[u] \in OutPcs /\ pc'[u] \in OutPcs
    /\ pc[u] = "idle" <=> pc'[u] = "idle"
    /\ pc[u] = "alloc" <=> pc'[u] = "alloc"
    /\ op'[u] = op[u] /\ seen'[u] = seen[u] /\ UNCHANGED history

LEMMA StoppedThreadsAreGood ==
  ASSUME IInv, StoppedThreads,
         \A u \in Threads : pc[u] \notin AccessPcs \cup TipPcs \cup ReadPcs \cup StorePcs
                                            \cup LockedPcs \cup {"back_off", "done"},
         \A u \in Threads : pc[u] = "alloc" /\ u # Creator =>
           \A g \in Live' : Link(g)' = NULL => gen'[g].shared
  PROVE  ThreadsAreInOrder' /\ ReadersSeeWrites'
<1>1. \A u \in Threads :
        /\ pc'[u] \notin AccessPcs \cup TipPcs \cup ReadPcs \cup StorePcs
                          \cup LockedPcs \cup {"back_off", "done"}
        /\ pc'[u] \in WritePcs <=> pc[u] = "alloc"
  <2>1. \A x \in OutPcs : /\ x \notin AccessPcs \cup TipPcs \cup ReadPcs \cup StorePcs
                                      \cup LockedPcs \cup {"back_off", "done"}
                          /\ x \in WritePcs <=> x = "alloc"
    BY DEF OutPcs, AccessPcs, TipPcs, ReadPcs, StorePcs, LockedPcs, WritePcs
  <2> QED
    BY <2>1 DEF StoppedThreads
<1>2. ASSUME NEW u \in Threads
      PROVE  PointersAreGood(u)' /\ OperationIsKept(u)' /\ SharingIsKept(u)' /\ ReaderIsGood(u)'
  <2>1. pc'[u] \notin {"publish", "unlock_old", "lock", "check_newer", "seq_odd", "seq_even",
                       "seq_begin", "seq_end", "load_type", "load_val"}
    BY <1>1 DEF AccessPcs, LockedPcs, ReadPcs
  <2>2. PointersAreGood(u)'
    BY <1>1, <2>1 DEF PointersAreGood
  <2>3. OperationIsKept(u)'
    <3>1. OperationIsKept(u) /\ op'[u] = op[u] /\ (pc[u] = "idle" <=> pc'[u] = "idle")
      BY DEF IInv, ThreadsAreInOrder, StoppedThreads
    <3>2. pc[u] \in WritePcs <=> pc[u] = "alloc"
      BY DEF WritePcs, StoppedThreads, OutPcs, StorePcs, LockedPcs
    <3>3. pc[u] \notin ReadPcs \cup {"done"}
      OBVIOUS
    <3> QED
      BY <1>1, <2>1, <3>1, <3>2, <3>3 DEF OperationIsKept
  <2>4. SharingIsKept(u)'
    BY <1>1, <2>1 DEF SharingIsKept, LocalReads, StoppedThreads
  <2>5. ReaderIsGood(u)'
    BY <1>1, <2>1, SeenIsPast DEF ReaderIsGood, StoppedThreads
  <2> QED
    BY <2>2, <2>3, <2>4, <2>5
<1> QED
  BY <1>2 DEF ThreadsAreInOrder, ReadersSeeWrites

(* Nobody is between two words, and the generations hold whole values.     *)
LEMMA StoppedContents ==
  ASSUME IInv,
         \A u \in Threads : pc[u] \notin AccessPcs \cup TipPcs \cup ReadPcs \cup StorePcs
                                            \cup LockedPcs \cup {"back_off", "done"}
  PROVE  /\ Findable = Live /\ Newest \in Live /\ Newest \in Gens /\ Link(Newest) = NULL
         /\ Live \subseteq Gens
         /\ \A g \in Live : Link(g) = NULL => g = Newest
         /\ \A g \in Live : \A u \in Threads :
              /\ Owns(u, g) <=> pc[u] = "alloc" /\ g = Newest
              /\ Counted(u, g) <=> Owns(u, g)
         /\ \A g \in Live : ~(gen[g].seqlock % 2 = 1)
         /\ \A g \in Live : \A i \in Indices : gen[g].table[i].type = gen[g].table[i].val
         /\ \A g \in Live : \A k \in DOMAIN history : Link(g) = NULL =>
              history[k].index < gen[g].size
<1>1. \A u \in Threads : pc[u] \notin BusyPcs \cup {"publish", "unlock_old"}
  BY DEF BusyPcs, StorePcs, LockedPcs
<1>2. Findable = Live
  BY <1>1 DEF Findable, Private
<1>3. /\ Newest \in Live /\ Newest \in Gens /\ Link(Newest) = NULL /\ Live \subseteq Gens
      /\ \A g \in Live : Link(g) = NULL => g = Newest
  BY <1>2, NewestIsTip DEF IInv
<1>4. \A g \in Live : \A u \in Threads : Owns(u, g) <=> pc[u] = "alloc" /\ g = Newest
  BY <1>1, <1>2, <1>3 DEF Owns
<1>5. \A g : \A u \in Threads : Counted(u, g) <=> Owns(u, g)
  BY DEF Counted
<1>6. \A g \in Live : ~(gen[g].seqlock % 2 = 1)
  BY <1>1 DEF IInv, SeqLocksMatch, Unstable, BusyPcs
<1>7. \A g \in Live : \A i \in Indices : gen[g].table[i].type = gen[g].table[i].val
  BY <1>1 DEF IInv, ElementsAreWhole, Halfway, BusyPcs
<1>8. \A g \in Live : \A k \in DOMAIN history : Link(g) = NULL => history[k].index < gen[g].size
  BY <1>1 DEF IInv, SizesCover, Uncounted, BusyPcs
<1> QED
  BY <1>2, <1>3, <1>4, <1>5, <1>6, <1>7, <1>8

LEMMA PromoteKeeps ==
  ASSUME IInv, NEW t \in Threads, Promote(t)
  PROVE  IInv'
<1>1. /\ pc[t] = "promote" /\ pc[t] \in OutPcs /\ pc' = [pc EXCEPT ![t] = "retry"]
      /\ STW!WorldStoppedFor(t) /\ arr' = [arr EXCEPT ![t] = NULL]
      /\ UNCHANGED <<ref, op, new, new_size, seq1, val, nwrites, history, seen>>
  BY DEF Promote, Goto, OutPcs
<1>2. /\ \A u \in Threads : pc[u] \in OutPcs
      /\ \A u \in Threads : pc[u] \notin AccessPcs \cup TipPcs \cup ReadPcs \cup StorePcs
                                            \cup LockedPcs \cup {"back_off", "done"}
  BY <1>1, WorldIsStopped
<1>3. PICK h \in Live : h = Newest /\ h \in Gens /\ gen' = [gen EXCEPT ![h].shared = TRUE]
  BY <1>2, StoppedContents DEF Promote
<1>4. /\ pc'[t] = "retry" /\ \A u \in Threads \ {t} : pc'[u] = pc[u]
      /\ pc' \in [Threads -> Pcs] /\ arr' \in [Threads -> Gens \cup {NULL}]
      /\ pc'[t] \in OutPcs
  BY <1>1 DEF IInv, TypeOK, Pcs, OutPcs
<1>5. /\ gen' \in [Gens -> Generation]
      /\ \A x \in Gens : /\ gen'[x].alloc_size = gen[x].alloc_size /\ gen'[x].size = gen[x].size
                         /\ gen'[x].table = gen[x].table /\ gen'[x].newer = gen[x].newer
                         /\ gen'[x].creator = gen[x].creator
                         /\ gen'[x].write_lock = gen[x].write_lock
                         /\ gen'[x].seqlock = gen[x].seqlock
                         /\ gen[x].shared => gen'[x].shared
  <2>1. gen \in [Gens -> Generation] /\ gen[h] \in Generation
    BY <1>3 DEF IInv, TypeOK
  <2>2. gen'[h] = [gen[h] EXCEPT !.shared = TRUE] /\ \A x \in Gens \ {h} : gen'[x] = gen[x]
    BY <1>3, <2>1
  <2>3. /\ gen'[h] \in Generation
        /\ gen'[h].alloc_size = gen[h].alloc_size /\ gen'[h].size = gen[h].size
        /\ gen'[h].table = gen[h].table /\ gen'[h].newer = gen[h].newer
        /\ gen'[h].creator = gen[h].creator
        /\ gen'[h].write_lock = gen[h].write_lock
        /\ gen'[h].seqlock = gen[h].seqlock /\ gen'[h].shared
    BY <2>1, <2>2 DEF Generation
  <2>4. gen' \in [Gens -> Generation]
    BY <1>3, <2>1, <2>2, <2>3
  <2> QED
    BY <2>2, <2>3, <2>4
<1>6. Live' = Live /\ \A x \in Gens : Link(x)' = Link(x)
  BY <1>5 DEF Live, Link
<1>7. /\ Findable' = Live /\ Findable = Live /\ Live \subseteq Gens
  <2>1. \A x : ~Private(x)'
    BY <1>2, <1>4 DEF Private, LockedPcs
  <2> QED
    BY <1>2, <1>6, <2>1, StoppedContents DEF Findable
<1>8. Chain' = Chain
  BY <1>1, <1>6 DEF Chain, Link
<1>9. ChainIsWhole'
  BY <1>1, <1>6, <1>7, <1>8 DEF IInv, ChainIsWhole
<1>10. TypeOK'
  BY <1>1, <1>4, <1>5, <1>6 DEF IInv, TypeOK
<1>11. StoppedThreads
  BY <1>1, <1>2, <1>4 DEF StoppedThreads
<1>12. ThreadsAreInOrder' /\ ReadersSeeWrites'
  <2>1. ASSUME NEW u \in Threads, pc[u] = "alloc", u # Creator, NEW x \in Live', Link(x)' = NULL
        PROVE  gen'[x].shared
    BY <1>5, <1>6, <1>7, <2>1 DEF IInv, ThreadsAreInOrder, SharingIsKept
  <2> QED
    BY <1>2, <1>11, <2>1, StoppedThreadsAreGood
<1>13. /\ \A u \in Threads : pc'[u] \notin LockedPcs \cup StorePcs \cup {"publish", "unlock_old", "back_off"}
       /\ \A u \in Threads : pc'[u] = "alloc" <=> pc[u] = "alloc"
       /\ \A u \in Threads : pc'[u] \notin BusyPcs
  BY <1>1, <1>2, <1>4 DEF LockedPcs, StorePcs, BusyPcs
<1>14. LocksAreHeld'
  <2>1. \A u \in Threads, x \in Live :
          (Owns(u, x)' => Owns(u, x)) /\ (Counted(u, x)' <=> Counted(u, x))
    <3>1. \A u \in Threads, x \in Live : Owns(u, x)' <=> pc[u] = "alloc" /\ Link(x) = NULL
      BY <1>6, <1>7, <1>13 DEF Owns
    <3>2. \A u \in Threads, x \in Live : Owns(u, x) <=> pc[u] = "alloc" /\ Link(x) = NULL
      BY <1>2, StoppedContents
    <3>3. \A u \in Threads, x \in Live : Counted(u, x)' <=> Owns(u, x)'
      BY <1>13 DEF Counted
    <3>4. \A u \in Threads, x \in Live : Counted(u, x) <=> Owns(u, x)
      BY <1>2, StoppedContents
    <3> QED
      BY <3>1, <3>2, <3>3, <3>4
  <2> QED
    BY <1>5, <1>6, <2>1, LocksKept
<1>15. SeqLocksMatch'
  <2>1. \A u \in Threads : \A x : ~Unstable(u, x)'
    BY <1>13 DEF Unstable, BusyPcs
  <2> QED
    BY <1>2, <1>5, <1>6, <1>7, <2>1, StoppedContents DEF SeqLocksMatch
<1>16. ElementsAreWhole'
  BY <1>2, <1>5, <1>6, <1>7, StoppedContents DEF ElementsAreWhole
<1>17. ValuesAreStored'
  BY <1>1, <1>5, <1>6, <1>7 DEF IInv, ValuesAreStored
<1>18. SizesCover'
  <2>1. \A x \in Live', k \in DOMAIN history : Link(x)' = NULL => history[k].index < gen'[x].size
    BY <1>2, <1>5, <1>6, <1>7, StoppedContents
  <2>2. \A x \in Live' : gen'[x].size <= gen'[x].alloc_size /\ gen'[x].creator = Creator
    BY <1>5, <1>6, <1>7 DEF IInv, SizesCover
  <2>3. \A u \in Threads : pc'[u] # "store_val"
    BY <1>13 DEF BusyPcs
  <2> QED
    BY <1>1, <2>1, <2>2, <2>3 DEF SizesCover
<1> QED
  BY <1>9, <1>10, <1>12, <1>14, <1>15, <1>16, <1>17, <1>18 DEF IInv

(* The array that a collection leaves, in its place or as a copy of its    *)
(* first "size" elements, holds every write.                               *)
LEMMA MoveKeepsWrites ==
  ASSUME IInv,
         \A u \in Threads : pc[u] \notin AccessPcs \cup TipPcs \cup ReadPcs \cup StorePcs
                                            \cup LockedPcs \cup {"back_off", "done"},
         NEW h \in Live, h = Newest, NEW r \in {gen[h], Moved(gen[h])}
  PROVE  /\ r \in Generation /\ r.alloc_size > 0 /\ r.newer = NULL
         /\ r.size = gen[h].size /\ r.size <= r.alloc_size /\ r.creator = Creator
         /\ r.shared = gen[h].shared /\ r.write_lock = gen[h].write_lock
         /\ r.seqlock = gen[h].seqlock
         /\ \A i \in Indices : /\ r.table[i].type = r.table[i].val
                               /\ r.table[i].val = LastWrite(history, i)
<1>1. /\ h \in Gens /\ Link(h) = NULL
      /\ \A i \in Indices : gen[h].table[i].type = gen[h].table[i].val
      /\ \A k \in DOMAIN history : history[k].index < gen[h].size
  BY StoppedContents
<1>2. /\ gen[h] \in Generation /\ gen[h].alloc_size \in Nat /\ gen[h].alloc_size > 0
      /\ gen[h].size \in Nat /\ gen[h].size <= gen[h].alloc_size /\ gen[h].creator = Creator
      /\ gen[h].table \in [Indices -> Words] /\ gen[h].shared \in BOOLEAN
      /\ gen[h].write_lock \in Nat /\ gen[h].seqlock \in Nat
  BY <1>1 DEF IInv, TypeOK, Live, Generation, SizesCover
<1>3. \A i \in Indices : gen[h].table[i].val = LastWrite(history, i)
  BY <1>1 DEF IInv, ValuesAreStored
<1>4. CASE r = gen[h]
  BY <1>1, <1>2, <1>3, <1>4 DEF Link
<1>5. CASE r = Moved(gen[h])
  <2>1. PICK tab : tab = FirstElements(gen[h], gen[h].size)
    OBVIOUS
  <2>2. /\ tab \in [Indices -> Words]
        /\ \A i \in Indices : tab[i] = IF i < gen[h].size THEN gen[h].table[i] ELSE Zero
    <3>1. Zero \in Words
      BY ArrayAssumption DEF Zero, Words, Values
    <3> QED
      BY <1>2, <2>1, <3>1 DEF FirstElements
  <2>3. ASSUME NEW i \in Indices, ~(i < gen[h].size) PROVE LastWrite(history, i) = 0
    <3>1. \A k \in DOMAIN history : history[k].index # i
      BY <1>1, <2>3
    <3>2. history \in Seq(Writes)
      BY DEF IInv, TypeOK, Writes
    <3> QED
      BY <3>1, <3>2, NeverWritten
  <2>4. \A i \in Indices : tab[i].type = tab[i].val /\ tab[i].val = LastWrite(history, i)
    BY <1>1, <1>3, <2>2, <2>3 DEF Zero
  <2>5. PICK n \in Nat : n = (IF gen[h].size = 0 THEN gen[h].alloc_size ELSE gen[h].size)
                         /\ n >= gen[h].size
    BY <1>2
  <2>6. PICK m \in Nat : m = (IF n < 2 THEN 2 ELSE n) /\ m >= gen[h].size /\ m > 0
    BY <1>2, <2>5
  <2>7. r = [Unused EXCEPT !.alloc_size = m, !.creator = Creator, !.size = gen[h].size,
                           !.table = tab, !.shared = gen[h].shared,
                           !.write_lock = gen[h].write_lock, !.seqlock = gen[h].seqlock]
    BY ZenonT(30), <1>2, <1>5, <2>1, <2>5, <2>6 DEF Moved, NewArray, Unused
  <2>8. r = [alloc_size |-> m, size |-> gen[h].size, table |-> tab,
             shared |-> gen[h].shared, creator |-> Creator, write_lock |-> gen[h].write_lock,
             seqlock |-> gen[h].seqlock, newer |-> NULL]
    BY <2>7 DEF Unused
  <2>9. r \in Generation
    BY <1>2, <2>2, <2>8, ArrayAssumption DEF Generation
  <2> QED
    BY <2>4, <2>6, <2>8, <2>9
<1> QED
  BY <1>4, <1>5

LEMMA CollectKeeps ==
  ASSUME IInv, NEW t \in Threads, Collect(t)
  PROVE  IInv'
<1>1. /\ pc[t] \in OutPcs /\ STW!WorldStoppedFor(t)
      /\ UNCHANGED <<pc, op, arr, new, new_size, seq1, val, nwrites, history, seen>>
  BY DEF Collect, OutPcs, threadVars
<1>2. /\ \A u \in Threads : pc[u] \in OutPcs
      /\ \A u \in Threads : pc[u] \notin AccessPcs \cup TipPcs \cup ReadPcs \cup StorePcs
                                            \cup LockedPcs \cup {"back_off", "done"}
  BY <1>1, WorldIsStopped
<1>3. PICK h \in Live :
        /\ h = Newest /\ h \in Gens /\ Link(h) = NULL /\ Findable = Live
        /\ \A u \in Threads : (Owns(u, h) <=> pc[u] = "alloc") /\ (Counted(u, h) <=> Owns(u, h))
        /\ ~(gen[h].seqlock % 2 = 1)
        /\ \A i \in Indices : gen[h].table[i].type = gen[h].table[i].val
        /\ \A k \in DOMAIN history : history[k].index < gen[h].size
  BY <1>2, StoppedContents
<1>4. PICK g \in Free \cup {h}, r \in {gen[h], Moved(gen[h])} :
        /\ gen' = [x \in Gens |-> IF x = g THEN r ELSE Unused]
        /\ ref' = g
  BY <1>3 DEF Collect
<1>5. g \in Gens
  BY <1>3 DEF Free
<1>19. /\ r \in Generation /\ r.alloc_size > 0 /\ r.newer = NULL
       /\ r.size = gen[h].size /\ r.size <= r.alloc_size /\ r.creator = Creator
       /\ r.shared = gen[h].shared /\ r.write_lock = gen[h].write_lock
       /\ r.seqlock = gen[h].seqlock
       /\ \A i \in Indices : /\ r.table[i].type = r.table[i].val
                             /\ r.table[i].val = LastWrite(history, i)
  BY <1>2, <1>3, <1>4, MoveKeepsWrites
<1>6. /\ gen'[g] = r /\ \A x \in Gens \ {g} : gen'[x] = Unused
      /\ gen' \in [Gens -> Generation]
  <2>1. r \in Generation
    BY <1>19
  <2>2. Zero \in Words
    BY ArrayAssumption DEF Zero, Words, Values
  <2>3. Unused \in Generation
    BY <2>2, ArrayAssumption DEF Unused, Generation
  <2> QED
    BY <1>4, <1>5, <2>1, <2>3
<1>7. Live' = {g}
  BY <1>5, <1>6, <1>19 DEF Live, Unused
<1>8. Link(g)' = NULL /\ \A x \in Gens : Link(x)' = NULL
  BY <1>5, <1>6, <1>19 DEF Link, Unused
<1>9. Findable' = {g}
  <2>1. \A x : ~Private(x)'
    BY <1>1, <1>2 DEF Private, LockedPcs
  <2> QED
    BY <1>7, <2>1 DEF Findable
<1>10. ChainIsWhole'
  <2>1. g \in Chain'
    BY <1>4, <1>5 DEF Chain
  <2> QED
    BY <1>4, <1>5, <1>8, <1>9, <2>1 DEF ChainIsWhole
<1>11. TypeOK'
  BY <1>1, <1>4, <1>6, <1>7 DEF IInv, TypeOK
<1>12. ThreadsAreInOrder' /\ ReadersSeeWrites'
  <2>1. ASSUME NEW u \in Threads, pc[u] = "alloc", u # Creator PROVE gen'[g].shared
    BY <1>3, <1>6, <1>19, <2>1 DEF IInv, ThreadsAreInOrder, SharingIsKept
  <2>2. StoppedThreads
    BY <1>1, <1>2 DEF StoppedThreads
  <2> QED
    BY <1>2, <1>7, <2>1, <2>2, StoppedThreadsAreGood
<1>13. \A u \in Threads : pc[u] \notin BusyPcs \cup {"publish", "unlock_old"}
  BY <1>2 DEF BusyPcs, StorePcs, LockedPcs
<1>14. LocksAreHeld'
  <2>1. \A u \in Threads : Owns(u, g)' <=> Owns(u, h)
    BY <1>1, <1>2, <1>3, <1>8, <1>9, <1>13 DEF Owns
  <2>2. \A u \in Threads : Counted(u, g)' <=> Counted(u, h)
    BY <1>1, <1>2, <1>3, <2>1 DEF Counted
  <2>3. Holders(g)' = Holders(h)
    BY <2>2 DEF Holders
  <2> QED
    BY <1>3, <1>6, <1>7, <1>19, <2>1, <2>3 DEF IInv, LocksAreHeld
<1>15. SeqLocksMatch'
  <2>1. \A u \in Threads : \A x : ~Unstable(u, x)'
    BY <1>1, <1>13 DEF Unstable, BusyPcs
  <2> QED
    BY <1>3, <1>6, <1>7, <1>19, <2>1 DEF SeqLocksMatch
<1>16. ElementsAreWhole'
  BY <1>6, <1>7, <1>19 DEF ElementsAreWhole
<1>17. ValuesAreStored'
  BY <1>1, <1>6, <1>7, <1>19 DEF ValuesAreStored
<1>18. SizesCover'
  <2>1. \A u \in Threads : pc'[u] # "store_val"
    BY <1>1, <1>13 DEF BusyPcs
  <2> QED
    BY <1>1, <1>3, <1>6, <1>7, <1>19, <2>1 DEF SizesCover
<1> QED
  BY <1>10, <1>11, <1>12, <1>14, <1>15, <1>16, <1>17, <1>18 DEF IInv

-----------------------------------------------------------------------------
(* The specification.                                                      *)

LEMMA InitIInv == Init => IInv
<1> SUFFICES ASSUME Init PROVE IInv
  OBVIOUS
<1>1. PICK h \in Gens : ref = h
  BY ArrayAssumption DEF Init
<1>2. PICK r : /\ r = NewArray(Creator, StartSize)
               /\ gen = [g \in Gens |-> IF g = h THEN r ELSE Unused]
  BY <1>1 DEF Init
<1>3. /\ pc = [t \in Threads |-> "idle"] /\ op = [t \in Threads |-> NoOp]
      /\ arr = [t \in Threads |-> NULL] /\ new = [t \in Threads |-> NULL]
      /\ seq1 = [t \in Threads |-> 0] /\ val = [t \in Threads |-> Zero]
      /\ nwrites = 0 /\ history = << >> /\ seen = [t \in Threads |-> 0]
      /\ new_size = [t \in Threads |-> 0]
  BY DEF Init
<1>4. Zero \in Words /\ Zero.type = 0 /\ Zero.val = 0 /\ NoOp \in Ops /\ 0 \in Values
  BY ArrayAssumption DEF Zero, Words, Values, NoOp, Ops
<1>5. /\ Unused \in Generation /\ Unused.alloc_size = 0 /\ Unused.newer = NULL
  BY <1>4, ArrayAssumption DEF Unused, Generation
<1>6. /\ r \in Generation /\ r.alloc_size > 0 /\ r.newer = NULL /\ r.size = 0
      /\ r.creator = Creator /\ r.write_lock = 0 /\ r.seqlock = 0
      /\ \A i \in Indices : r.table[i] = Zero
  <2>1. PICK m \in Nat : m = (IF StartSize < 2 THEN 2 ELSE StartSize) /\ m > 0
    BY ArrayAssumption
  <2>2. r = [Unused EXCEPT !.alloc_size = m, !.creator = Creator]
    BY <1>2, <2>1 DEF NewArray
  <2> QED
    BY <1>4, <2>1, <2>2, ArrayAssumption DEF Unused, Generation
<1>7. /\ gen \in [Gens -> Generation] /\ gen[h] = r /\ \A g \in Gens \ {h} : gen[g] = Unused
  BY <1>2, <1>5, <1>6
<1>8. Live = {h} /\ \A g \in Gens : Link(g) = NULL
  BY <1>5, <1>6, <1>7 DEF Live, Link
<1>9. Findable = {h}
  BY <1>3, <1>8 DEF Findable, Private
<1>10. ChainIsWhole
  <2>1. h \in Chain
    BY <1>1 DEF Chain
  <2> QED
    BY <1>1, <1>8, <1>9, <2>1 DEF ChainIsWhole
<1>11. TypeOK
  <2>1. history \in Seq([index : Indices, value : Values])
    BY <1>3
  <2>2. pc \in [Threads -> Pcs]
    BY <1>3 DEF Pcs, OutPcs
  <2> QED
    BY <1>1, <1>3, <1>4, <1>7, <1>8, <2>1, <2>2 DEF TypeOK
<1>12. ThreadsAreInOrder /\ ReadersSeeWrites
  <2> SUFFICES ASSUME NEW u \in Threads
               PROVE  PointersAreGood(u) /\ OperationIsKept(u) /\ SharingIsKept(u) /\ ReaderIsGood(u)
    BY DEF ThreadsAreInOrder, ReadersSeeWrites
  <2>1. pc[u] = "idle" /\ seen[u] = 0 /\ Len(history) = 0
    BY <1>3
  <2>2. "idle" \notin AccessPcs \cup TipPcs \cup ReadPcs \cup StorePcs \cup WritePcs
    BY DEF AccessPcs, TipPcs, ReadPcs, StorePcs, LockedPcs, WritePcs
  <2>3. PointersAreGood(u)
    BY <2>1, <2>2 DEF PointersAreGood
  <2>4. OperationIsKept(u)
    BY <2>1, <2>2 DEF OperationIsKept
  <2>5. SharingIsKept(u)
    BY <2>1, <2>2 DEF SharingIsKept, LocalReads
  <2>6. ReaderIsGood(u)
    BY <2>1, <2>2 DEF ReaderIsGood
  <2> QED
    BY <2>3, <2>4, <2>5, <2>6
<1>13. \A u \in Threads : \A g : ~Owns(u, g) /\ ~Counted(u, g) /\ ~Unstable(u, g)
  BY <1>3 DEF Owns, Counted, Unstable, LockedPcs, StorePcs
<1>14. LocksAreHeld
  <2>1. Holders(h) = {} /\ Cardinality(Holders(h)) = 0
    <3>1. Holders(h) = {}
      BY <1>13 DEF Holders
    <3> QED
      BY <3>1, FS_EmptySet
  <2> QED
    BY <1>6, <1>7, <1>8, <1>13, <2>1 DEF LocksAreHeld
<1>15. SeqLocksMatch
  BY <1>6, <1>7, <1>8, <1>13 DEF SeqLocksMatch
<1>16. ElementsAreWhole
  BY <1>4, <1>6, <1>7, <1>8 DEF ElementsAreWhole
<1>17. ValuesAreStored
  <2>1. history \in Seq(Writes) /\ DOMAIN history = {}
    BY <1>3
  <2>2. \A i : LastWrite(history, i) = 0
    BY <2>1, NeverWritten
  <2> QED
    BY <1>4, <1>6, <1>7, <1>8, <2>2 DEF ValuesAreStored
<1>18. SizesCover
  <2>1. DOMAIN history = {} /\ \A t \in Threads : pc[t] # "store_val"
    BY <1>3
  <2>2. r.size <= r.alloc_size
    BY <1>6 DEF Generation
  <2> QED
    BY <1>6, <1>7, <1>8, <2>1, <2>2 DEF SizesCover
<1> QED
  BY <1>10, <1>11, <1>12, <1>14, <1>15, <1>16, <1>17, <1>18 DEF IInv

LEMMA StutterKeeps ==
  ASSUME IInv, UNCHANGED vars
  PROVE  IInv'
<1>1. UNCHANGED <<gen, ref, pc, op, arr, new, new_size, seq1, val, nwrites, history, seen>>
  BY DEF vars, threadVars
<1>2. /\ Live' = Live /\ Chain' = Chain
      /\ \A g : Link(g)' = Link(g)
      /\ \A g : Private(g)' <=> Private(g)
  BY <1>1 DEF Live, Chain, Link, Private
<1>3. Findable' = Findable
  BY <1>2 DEF Findable
<1>4. TypeOK' /\ ChainIsWhole'
  BY <1>1, <1>2, <1>3 DEF IInv, TypeOK, ChainIsWhole
<1>5. ThreadsAreInOrder'
  <2> SUFFICES ASSUME NEW t \in Threads
               PROVE  (PointersAreGood(t) /\ OperationIsKept(t) /\ SharingIsKept(t))'
    BY DEF ThreadsAreInOrder
  <2>1. PointersAreGood(t) /\ OperationIsKept(t) /\ SharingIsKept(t)
    BY DEF IInv, ThreadsAreInOrder
  <2>2. PointersAreGood(t)'
    BY <1>1, <1>2, <1>3, <2>1 DEF PointersAreGood, Link
  <2>3. OperationIsKept(t)'
    BY <1>1, <2>1 DEF OperationIsKept
  <2>4. SharingIsKept(t)'
    BY <1>1, <1>2, <2>1 DEF SharingIsKept, LocalReads, Link
  <2> QED
    BY <2>2, <2>3, <2>4
<1>6. \A t \in Threads : \A g :
        /\ Owns(t, g)' <=> Owns(t, g)
        /\ Counted(t, g)' <=> Counted(t, g)
        /\ Unstable(t, g)' <=> Unstable(t, g)
  BY <1>1, <1>2, <1>3 DEF Owns, Counted, Unstable
<1>7. \A g : Holders(g)' = Holders(g)
  BY <1>6 DEF Holders
<1>8. LocksAreHeld' /\ SeqLocksMatch'
  BY <1>1, <1>2, <1>6, <1>7 DEF IInv, LocksAreHeld, SeqLocksMatch
<1>9. ElementsAreWhole' /\ ValuesAreStored'
  BY <1>1, <1>2 DEF IInv, ElementsAreWhole, Halfway, ValuesAreStored
<1>10. SizesCover'
  BY <1>1, <1>2 DEF IInv, SizesCover, Uncounted
<1>11. ReadersSeeWrites'
  BY <1>1 DEF IInv, ReadersSeeWrites, ReaderIsGood, WasCurrent
<1> QED
  BY <1>4, <1>5, <1>8, <1>9, <1>10, <1>11 DEF IInv

LEMMA NextIInv ==
  ASSUME IInv, RequestsFit, [Next]_vars
  PROVE  IInv'
<1>1. CASE UNCHANGED vars
  BY <1>1, StutterKeeps
<1>2. ASSUME NEW t \in Threads, Step(t) PROVE IInv'
  <2>1. CASE Promote(t) \/ Collect(t)
    BY <2>1, PromoteKeeps, CollectKeeps
  <2>2. CASE StartPromotion(t) \/ StartRead(t) \/ StartWrite(t)
    BY <2>2, StartKeeps
  <2>3. CASE ReadOutOfRange(t) \/ FinishRead(t)
    BY <2>3, FreeReturnKeeps
  <2>4. CASE SeqBegin(t) \/ LoadType(t) \/ LoadVal(t) \/ SeqEnd(t)
    BY <2>4, ReadKeeps
  <2>5. CASE TryLock(t) \/ CheckNewer(t)
    BY <2>5, TryLockKeeps, CheckNewerKeeps
  <2>6. CASE BackOff(t) \/ UnlockRetry(t) \/ UnlockDone(t)
    BY <2>6, UnlockKeeps
  <2>7. CASE SeqOdd(t) \/ StoreType(t) \/ StoreVal(t) \/ SeqEven(t)
    BY <2>7, StoreKeeps
  <2>8. CASE SetSize(t)
    BY <2>8, SetSizeKeeps
  <2>9. CASE AllocAndCopy(t) \/ AllocFails(t)
    BY <2>9, AllocAndCopyKeeps, AllocFailsKeeps
  <2>10. CASE Publish(t) \/ UnlockOld(t)
    BY <2>10, PublishKeeps, UnlockOldKeeps
  <2> QED
    BY <1>2, <2>1, <2>2, <2>3, <2>4, <2>5, <2>6, <2>7, <2>8, <2>9, <2>10 DEF Step
<1> QED
  BY <1>1, <1>2 DEF Next

(* follow_array_pointer returns the same generation as long as no link     *)
(* changes.                                                                *)
LEMMA NewestStays ==
  ASSUME UNCHANGED ref, \A g \in Gens : gen'[g].newer = gen[g].newer
  PROVE  Newest' = Newest
<1>1. ASSUME NEW S \in SUBSET Gens
      PROVE  (\A h \in S : gen'[h].newer # NULL => gen'[h].newer \in S)
               <=> (\A h \in S : gen[h].newer # NULL => gen[h].newer \in S)
  OBVIOUS
<1>2. Chain' = Chain /\ Chain \subseteq Gens
  BY <1>1 DEF Chain
<1>3. \A g : (g \in Chain' /\ gen'[g].newer = NULL) <=> (g \in Chain /\ gen[g].newer = NULL)
  BY <1>2
<1> QED
  BY <1>2, <1>3 DEF Newest

LEMMA NextRequestsFit ==
  ASSUME IInv, RequestsFit, [Next]_vars
  PROVE  RequestsFit'
<1>1. SUFFICES ASSUME NEW u \in Threads, pc'[u] = "alloc" PROVE gen'[Newest'].size <= new_size'[u]
  BY DEF RequestsFit
<1>2. /\ gen \in [Gens -> Generation] /\ pc \in [Threads -> Pcs] /\ new_size \in [Threads -> Nat]
      /\ Newest \in Live /\ Newest \in Gens
  BY NewestIsTip DEF IInv, TypeOK
<1>3. ASSUME pc[u] = "alloc", new_size'[u] = new_size[u], UNCHANGED ref,
             \A g \in Gens : gen'[g].newer = gen[g].newer /\ gen'[g].size = gen[g].size
      PROVE  gen'[Newest'].size <= new_size'[u]
  BY <1>2, <1>3, NewestStays DEF RequestsFit
<1>4. CASE UNCHANGED vars
  BY <1>1, <1>3, <1>4 DEF vars, threadVars
<1>5. ASSUME NEW t \in Threads, Step(t) PROVE gen'[Newest'].size <= new_size'[u]
  <2>1. CASE Promote(t) \/ StartPromotion(t) \/ StartRead(t) \/ ReadOutOfRange(t) \/ StartWrite(t)
             \/ SeqBegin(t) \/ LoadType(t) \/ LoadVal(t) \/ SeqEnd(t) \/ FinishRead(t)
    <3>1. pc[u] = "alloc" /\ new_size'[u] = new_size[u] /\ UNCHANGED ref
      <4>1. CASE ReadOutOfRange(t) \/ FinishRead(t)
        BY <1>1, <1>2, <4>1 DEF ReadOutOfRange, FinishRead, Goto, Return
      <4>2. CASE Promote(t) \/ StartPromotion(t) \/ StartRead(t) \/ StartWrite(t)
        BY <1>1, <1>2, <4>2 DEF Promote, StartPromotion, StartRead, StartWrite, Goto
      <4>3. CASE SeqBegin(t) \/ LoadType(t) \/ LoadVal(t) \/ SeqEnd(t)
        BY <1>1, <1>2, <4>3 DEF SeqBegin, LoadType, LoadVal, SeqEnd, Goto
      <4> QED
        BY <2>1, <4>1, <4>2, <4>3
    <3>2. \A g \in Gens : gen'[g].newer = gen[g].newer /\ gen'[g].size = gen[g].size
      <4>1. CASE Promote(t)
        BY <1>2, <4>1 DEF Promote, Generation
      <4>2. CASE UNCHANGED gen
        BY <4>2
      <4> QED
        BY <2>1, <4>1, <4>2 DEF StartPromotion, StartRead, ReadOutOfRange, StartWrite,
                                SeqBegin, LoadType, LoadVal, SeqEnd, FinishRead
    <3> QED
      BY <1>3, <3>1, <3>2
  <2>2. CASE TryLock(t) \/ BackOff(t) \/ SeqOdd(t) \/ StoreType(t) \/ StoreVal(t) \/ SeqEven(t)
             \/ UnlockRetry(t) \/ UnlockDone(t) \/ AllocFails(t) \/ UnlockOld(t)
    <3>1. pc[u] = "alloc" /\ new_size'[u] = new_size[u] /\ UNCHANGED ref
      <4>1. CASE BackOff(t) \/ UnlockRetry(t) \/ UnlockDone(t) \/ UnlockOld(t)
        BY <1>1, <1>2, <4>1 DEF BackOff, UnlockRetry, UnlockDone, UnlockOld, Unlock, Goto, Return
      <4>2. CASE TryLock(t) \/ SeqOdd(t) \/ StoreType(t) \/ StoreVal(t) \/ SeqEven(t)
                 \/ AllocFails(t)
        BY <1>1, <1>2, <4>2 DEF TryLock, SeqOdd, StoreType, StoreVal, SeqEven, AllocFails, Goto
      <4> QED
        BY <2>2, <4>1, <4>2
    <3>2. \A g \in Gens : gen'[g].newer = gen[g].newer /\ gen'[g].size = gen[g].size
      <4>1. CASE BackOff(t) \/ UnlockRetry(t) \/ UnlockDone(t) \/ UnlockOld(t)
        BY <1>2, <4>1 DEF BackOff, UnlockRetry, UnlockDone, UnlockOld, Unlock, Generation
      <4>2. CASE TryLock(t) \/ SeqOdd(t) \/ SeqEven(t)
        BY <1>2, <4>2 DEF TryLock, SeqOdd, SeqEven, Generation
      <4>3. CASE StoreType(t) \/ StoreVal(t)
        <5>1. PICK table : gen' = [gen EXCEPT ![arr[t]].table = table]
          BY <4>3 DEF StoreType, StoreVal
        <5> QED
          BY <1>2, <5>1 DEF Generation
      <4>4. CASE AllocFails(t)
        BY <4>4 DEF AllocFails
      <4> QED
        BY <2>2, <4>1, <4>2, <4>3, <4>4
    <3> QED
      BY <1>3, <3>1, <3>2
  <2>3. CASE CheckNewer(t)
    <3>1. /\ UNCHANGED <<gen, ref>> /\ pc[t] = "check_newer"
          /\ pc' = [pc EXCEPT ![t] =
                      IF gen[arr[t]].newer # NULL THEN "unlock_retry"
                      ELSE IF gen[arr[t]].newer = NULL /\ op[t].index >= gen[arr[t]].alloc_size
                           THEN "alloc" ELSE "seq_odd"]
          /\ new_size' = IF gen[arr[t]].newer = NULL /\ op[t].index >= gen[arr[t]].alloc_size
                         THEN [new_size EXCEPT ![t] = NewSize(gen[arr[t]].alloc_size, op[t].index)]
                         ELSE new_size
      BY <2>3 DEF CheckNewer, Goto
    <3>2. CASE u = t
      <4>1. gen[arr[t]].newer = NULL /\ op[t].index >= gen[arr[t]].alloc_size
        BY <1>1, <1>2, <3>1, <3>2
      <4>2. arr[t] = Newest
        BY <3>1, <4>1, NewestIsTip DEF IInv, ThreadsAreInOrder, PointersAreGood, AccessPcs,
                                       LockedPcs, Link
      <4>3. new_size'[t] = NewSize(gen[Newest].alloc_size, op[t].index)
        BY <1>2, <3>1, <4>1, <4>2
      <4>4. gen[Newest].size <= new_size'[t]
        BY <1>2, <3>1, <4>3, RequestIsEnough
      <4>5. Newest' = Newest
        BY <3>1, NewestStays
      <4> QED
        BY <3>1, <3>2, <4>4, <4>5
    <3>3. CASE u # t
      BY <1>1, <1>2, <1>3, <3>1, <3>3
    <3> QED
      BY <3>2, <3>3
  <2>4. CASE SetSize(t)
    <3>1. u # t /\ pc[u] = "alloc" /\ pc[t] = "set_size"
      BY <1>1, <1>2, <2>4 DEF SetSize
    <3>2. pc[t] \in StoreFrom /\ Newest = arr[t] /\ pc[t] \in TipPcs
      BY <3>1, StorerFacts DEF StoreFrom, TipPcs, StorePcs
    <3> QED
      BY <3>1, <3>2, ExpanderIsAlone
  <2>5. CASE AllocAndCopy(t) \/ Publish(t)
    <3>1. pc[t] \in {"alloc", "publish"} /\ u # t /\ pc[u] = "alloc"
      BY <1>1, <1>2, <2>5 DEF AllocAndCopy, Publish, Goto
    <3> QED
      BY <3>1, ExpanderIsAlone
  <2>6. CASE Collect(t)
    <3>1. pc[t] \in OutPcs /\ STW!WorldStoppedFor(t) /\ UNCHANGED <<pc, new_size>>
      BY <2>6 DEF Collect, OutPcs, threadVars
    <3>2. \A v \in Threads : pc[v] \notin AccessPcs \cup TipPcs \cup ReadPcs \cup StorePcs
                                            \cup LockedPcs \cup {"back_off", "done"}
      BY <3>1, WorldIsStopped
    <3>3. PICK g \in Free \cup {Newest}, r \in {gen[Newest], Moved(gen[Newest])} :
            gen' = [x \in Gens |-> IF x = g THEN r ELSE Unused] /\ ref' = g
      BY <2>6 DEF Collect
    <3>4. r.size = gen[Newest].size /\ r.newer = NULL /\ g \in Gens
      BY <1>2, <3>2, <3>3, MoveKeepsWrites DEF Free
    <3>5. Newest' = g
      <4>1. ChainIsWhole'
        BY <2>6, CollectKeeps DEF IInv
      <4>2. (\E x \in Chain : gen[x].newer = NULL)'
        BY <4>1 DEF ChainIsWhole, Link
      <4>3. Newest' \in Chain'
        BY <4>2 DEF Newest
      <4>4. Chain' \subseteq {g}
        <5>1. ref' = g /\ gen'[g].newer = NULL /\ {g} \in SUBSET Gens
          BY <3>3, <3>4
        <5> QED
          BY <5>1 DEF Chain
      <4> QED
        BY <4>3, <4>4
    <3> QED
      BY <1>1, <1>2, <3>1, <3>3, <3>4, <3>5 DEF RequestsFit
  <2> QED
    BY <1>5, <2>1, <2>2, <2>3, <2>4, <2>5, <2>6 DEF Step
<1> QED
  BY <1>4, <1>5 DEF Next

(* Every state of om_read_array, om_write_array, expand_array, the         *)
(* promotion and the collections satisfies the inductive invariant.        *)
THEOREM Invariance == Spec => []IInv
<1>1. Init => RequestsFit
  BY DEF Init, RequestsFit
<1>2. IInv /\ RequestsFit /\ [Next]_vars => IInv' /\ RequestsFit'
  BY NextIInv, NextRequestsFit
<1> QED
  BY <1>1, <1>2, InitIInv, PTL DEF Spec

(* The variables keep their types: no lock count goes below zero and no    *)
(* link, pointer or reference leaves the heap.                             *)
THEOREM TypeCorrect == Spec => []TypeOK
<1>1. IInv => TypeOK
  BY DEF IInv
<1> QED
  BY <1>1, Invariance, PTL

(* Whoever works without lock and SeqLock (the fast path of                *)
(* start_array_read and start_array_write) is the only thread that has a   *)
(* pointer to a generation.                                                *)
THEOREM FastPathIsSafe == Spec => []FastPathIsExclusive
<1>1. ASSUME IInv PROVE FastPathIsExclusive
  <2> SUFFICES ASSUME NEW t \in Threads, NEW u \in Threads, OnFastPath(t), u # t,
                      pc[u] \in AccessPcs
               PROVE  FALSE
    BY DEF FastPathIsExclusive
  <2>1. pc[t] \in AccessPcs
    BY PcSets DEF OnFastPath, ReadPcs
  <2>2. arr[t] \in Findable /\ Findable \subseteq Live
    BY <1>1, <2>1, NewestIsTip DEF IInv, ThreadsAreInOrder, PointersAreGood
  <2>3. ~gen[arr[t]].shared /\ Link(arr[t]) = NULL
    <3>1. CASE LocalReads(t)
      BY <1>1, <3>1 DEF IInv, ThreadsAreInOrder, SharingIsKept
    <3>2. CASE pc[t] \in StorePcs /\ ~gen[arr[t]].shared
      BY <1>1, <3>2 DEF IInv, ThreadsAreInOrder, PointersAreGood, TipPcs
    <3> QED
      BY <3>1, <3>2 DEF OnFastPath, LocalReads
  <2>4. t # Creator \/ u # Creator
    OBVIOUS
  <2> QED
    BY <1>1, <2>1, <2>2, <2>3, <2>4 DEF IInv, ThreadsAreInOrder, SharingIsKept
<1> QED
  BY <1>1, Invariance, PTL

(* No pointer that a running thread uses leads to a generation a           *)
(* collection has reclaimed.                                               *)
THEOREM PointersStayLive == Spec => []NoFreedAccess
<1>1. ASSUME IInv PROVE NoFreedAccess
  <2>1. Findable \subseteq Live
    BY <1>1, NewestIsTip DEF IInv
  <2> QED
    BY <1>1, <2>1 DEF IInv, ThreadsAreInOrder, PointersAreGood, NoFreedAccess
<1> QED
  BY <1>1, Invariance, PTL

(* At every collection the element count covers every element written.     *)
THEOREM WritesAreScanned == Spec => []SizeCoversWrites
<1>1. ASSUME IInv PROVE SizeCoversWrites
  <2> SUFFICES ASSUME \A t \in Threads : mode[t] = "out", NEW k \in DOMAIN history
               PROVE  history[k].index < gen[Newest].size
    BY DEF SizeCoversWrites
  <2>1. \A t \in Threads : pc[t] \in OutPcs
    BY DEF mode
  <2>2. \A x \in OutPcs : x \notin AccessPcs \cup TipPcs \cup ReadPcs \cup StorePcs
                                     \cup LockedPcs \cup {"back_off", "done"}
    BY DEF OutPcs, AccessPcs, TipPcs, ReadPcs, StorePcs, LockedPcs
  <2> QED
    BY <1>1, <2>1, <2>2, StoppedContents
<1> QED
  BY <1>1, Invariance, PTL

(* No write is lost to another write, an expansion, a promotion or the     *)
(* copy of the first "size" elements to a smaller array by a collection:   *)
(* the newest generation holds the last value of every index, and has room *)
(* for every index written.                                                *)
THEOREM UpdatesAreKept == Spec => []NoLostUpdate
<1>1. ASSUME IInv PROVE NoLostUpdate
  <2>1. Newest \in Live /\ Link(Newest) = NULL /\ Newest \in Gens
    BY <1>1, NewestIsTip DEF IInv
  <2>2. \A i \in Indices : gen[Newest].table[i].val = LastWrite(history, i)
    BY <1>1, <2>1 DEF IInv, ValuesAreStored
  <2>3. ASSUME NEW k \in DOMAIN history PROVE history[k].index < gen[Newest].alloc_size
    <3>1. /\ gen[Newest].size \in Nat /\ gen[Newest].alloc_size \in Nat
          /\ gen[Newest].size <= gen[Newest].alloc_size /\ history[k].index \in Nat
      <4>0. history \in Seq(Writes)
        BY <1>1 DEF IInv, TypeOK, Writes
      <4>1. history[k] \in Writes
        BY <4>0
      <4> QED
        BY <1>1, <2>1, <4>1, IndexIsNat DEF IInv, TypeOK, Generation, SizesCover, Writes
    <3>2. CASE history[k].index < gen[Newest].size
      BY <3>1, <3>2
    <3>3. CASE \E t \in Threads : Uncounted(t, Newest, history[k].index)
      BY <1>1, <3>3 DEF Uncounted, IInv, ThreadsAreInOrder, OperationIsKept, StorePcs
    <3> QED
      BY <1>1, <2>1, <3>2, <3>3 DEF IInv, SizesCover
  <2> QED
    BY <2>2, <2>3 DEF NoLostUpdate
<1> QED
  BY <1>1, Invariance, PTL

(* Every read returns both words of one write, and none that had been      *)
(* replaced when the read began.                                           *)
THEOREM ReadsAreCurrent == Spec => []ReadReturnsCurrent
<1>1. ASSUME IInv PROVE ReadReturnsCurrent
  BY <1>1 DEF IInv, ReadersSeeWrites, ReaderIsGood, WasCurrent, ReadReturnsCurrent
<1> QED
  BY <1>1, Invariance, PTL

=============================================================================
