-------------------------- MODULE GlobalTableProofs --------------------------
(***************************************************************************)
(* The table of globals, for every finite set of threads, every hash       *)
(* function and every size: the counter that guards it excludes every      *)
(* second thread, no search ever fails to end, growth loses nothing, and   *)
(* so each call takes effect at once on the map of GlobalMap.              *)
(***************************************************************************)

EXTENDS GlobalTable, FiniteSetTheorems, WellFoundedInduction, TLAPS

(* What the counter counts, with the control points that it is read off.   *)
LockInv == pc \in [Threads -> Pcs] /\ OneHolder

(* The threads that the counter counts are finitely many.                  *)
LEMMA CountsAreFinite ==
  /\ IsFiniteSet(Holders) /\ Cardinality(Holders) \in Nat
  /\ IsFiniteSet(BackingOff) /\ Cardinality(BackingOff) \in Nat
<1>1. IsFiniteSet(Holders) /\ IsFiniteSet(BackingOff)
  BY GlobalTableAssumption, FS_Subset DEF Holders, BackingOff
<1> QED
  BY <1>1, FS_CardinalityType

(* A counter of zero means that nobody owns the table.                     *)
LEMMA ZeroMeansFree ==
  ASSUME OneHolder, global_var_counter = 0
  PROVE  Holders = {}
<1>1. Cardinality(Holders) = 0
  BY CountsAreFinite DEF OneHolder
<1> QED
  BY <1>1, CountsAreFinite, FS_EmptySet

(* A step that moves no thread into or out of either set and leaves the    *)
(* counter alone.                                                          *)
LEMMA UncountedStep ==
  ASSUME LockInv, NEW t \in Threads, NEW from \in Pcs, NEW to \in Pcs, Goto(t, from, to),
         from = "back_off" <=> to = "back_off",
         from \in {"inside", "insert", "release"} <=> to \in {"inside", "insert", "release"},
         UNCHANGED global_var_counter
  PROVE  LockInv'
<1>1. pc' \in [Threads -> Pcs]
  BY DEF LockInv, Goto
<1>2. Holders' = Holders /\ BackingOff' = BackingOff
  BY DEF LockInv, Goto, Holders, BackingOff
<1> QED
  BY <1>1, <1>2 DEF LockInv, OneHolder

(* Only a thread that added its one to zero comes in.                      *)
LEMMA AcquireKeeps ==
  ASSUME LockInv, NEW t \in Threads, Acquire(t)
  PROVE  LockInv'
<1>1. pc' \in [Threads -> Pcs]
  BY DEF LockInv, Acquire, Goto, Pcs
<1>2. CASE global_var_counter = 0
  <2>1. Holders = {}
    BY <1>2, ZeroMeansFree DEF LockInv
  <2>2. Holders' = Holders \cup {t} /\ t \notin Holders /\ BackingOff' = BackingOff
    BY <1>2, <2>1 DEF LockInv, Acquire, Goto, Holders, BackingOff
  <2>3. Cardinality(Holders') = Cardinality(Holders) + 1 /\ Cardinality(Holders) = 0
    BY <2>1, <2>2, CountsAreFinite, FS_AddElement, FS_EmptySet
  <2>4. OneHolder'
    BY <2>2, <2>3, CountsAreFinite DEF LockInv, OneHolder, Acquire
  <2> QED
    BY <1>1, <2>4 DEF LockInv
<1>3. CASE global_var_counter # 0
  <2>1. BackingOff' = BackingOff \cup {t} /\ t \notin BackingOff /\ Holders' = Holders
    BY <1>3 DEF LockInv, Acquire, Goto, Holders, BackingOff
  <2>2. Cardinality(BackingOff') = Cardinality(BackingOff) + 1
    BY <2>1, CountsAreFinite, FS_AddElement
  <2>3. OneHolder'
    BY <2>1, <2>2, CountsAreFinite DEF LockInv, OneHolder, Acquire
  <2> QED
    BY <1>1, <2>3 DEF LockInv
<1> QED
  BY <1>2, <1>3

(* A thread that came second takes its one away.                           *)
LEMMA BackOffKeeps ==
  ASSUME LockInv, NEW t \in Threads, BackOff(t)
  PROVE  LockInv'
<1>1. pc' \in [Threads -> Pcs]
  BY DEF LockInv, BackOff, Goto, Pcs
<1>2. BackingOff' = BackingOff \ {t} /\ t \in BackingOff /\ Holders' = Holders
  BY DEF LockInv, BackOff, Goto, Holders, BackingOff
<1>3. Cardinality(BackingOff') = Cardinality(BackingOff) - 1
  BY <1>2, CountsAreFinite, FS_RemoveElement
<1> QED
  BY <1>1, <1>2, <1>3, CountsAreFinite DEF LockInv, OneHolder, BackOff

(* The owner takes its one away.                                           *)
LEMMA ReleaseKeeps ==
  ASSUME LockInv, NEW t \in Threads, Release(t)
  PROVE  LockInv'
<1>1. pc' \in [Threads -> Pcs]
  BY DEF LockInv, Release, Goto, Pcs
<1>2. Holders' = Holders \ {t} /\ t \in Holders /\ BackingOff' = BackingOff
  BY DEF LockInv, Release, Goto, Holders, BackingOff
<1>3. Cardinality(Holders') = Cardinality(Holders) - 1
  BY <1>2, CountsAreFinite, FS_RemoveElement
<1> QED
  BY <1>1, <1>2, <1>3, CountsAreFinite DEF LockInv, OneHolder, Release

(* Every other step, whatever it does to the table.                        *)
LEMMA OthersKeep ==
  ASSUME LockInv, NEW t \in Threads,
         \/ Call(t) \/ Check(t) \/ Get(t) \/ Mark(t)
         \/ SetFails(t) \/ SetExpand(t) \/ SetInsert(t) \/ SetOverwrite(t)
  PROVE  LockInv'
<1>1. CASE Call(t)
  BY <1>1, UncountedStep DEF Call, Pcs
<1>2. CASE SetExpand(t)
  BY <1>2, UncountedStep DEF SetExpand, Pcs
<1>3. ASSUME NEW op, NEW from \in {"inside", "insert"}, NEW r, Leave(t, op, from, r)
      PROVE  LockInv'
  BY <1>3, UncountedStep DEF Leave, Pcs
<1>4. CASE Check(t)
  BY <1>3, <1>4 DEF Check
<1>5. CASE Get(t)
  BY <1>3, <1>5 DEF Get
<1>6. CASE Mark(t)
  BY <1>3, <1>6 DEF Mark
<1>7. CASE SetFails(t)
  BY <1>3, <1>7 DEF SetFails
<1>8. CASE SetInsert(t)
  BY <1>3, <1>8 DEF SetInsert
<1>9. CASE SetOverwrite(t)
  BY <1>3, <1>9 DEF SetOverwrite
<1> QED
  BY <1>1, <1>2, <1>4, <1>5, <1>6, <1>7, <1>8, <1>9

(* No thread has begun.                                                    *)
LEMMA InitLock == Init => LockInv
<1> SUFFICES ASSUME Init PROVE LockInv
  OBVIOUS
<1>1. Holders = {} /\ BackingOff = {}
  BY DEF Init, Holders, BackingOff
<1> QED
  BY <1>1, FS_EmptySet DEF Init, LockInv, OneHolder, Pcs

(* Every step keeps what the counter counts.                               *)
LEMMA StepKeepsLock ==
  ASSUME LockInv, [Next]_vars
  PROVE  LockInv'
<1>1. CASE Next
  BY <1>1, AcquireKeeps, BackOffKeeps, ReleaseKeeps, OthersKeep DEF Next, Step
<1>2. CASE UNCHANGED vars
  BY <1>2 DEF vars, LockInv, OneHolder, Holders, BackingOff
<1> QED
  BY <1>1, <1>2

(* ACQUIRE_GLOBAL and RELEASE_GLOBAL: one thread at a time is between      *)
(* them, and the counter is the number of those inside and of those that   *)
(* found it taken.                                                         *)
THEOREM LockIsExclusive == Spec => []OneHolder
<1>1. LockInv /\ [Next]_vars => LockInv'
  BY StepKeepsLock
<1>2. LockInv => OneHolder
  BY DEF LockInv
<1> QED
  BY InitLock, <1>1, <1>2, PTL DEF Spec

-----------------------------------------------------------------------------
(* Counting up.                                                            *)

LEMMA LeastExists ==
  ASSUME NEW S \in SUBSET Nat, S # {}
  PROVE  \E x \in S : \A y \in S : x <= y
<1>1. PICK x \in S : \A y \in S : ~ (<<y, x>> \in OpToRel(<, Nat))
  BY NatLessThanWellFounded, WFMin
<1>2. \A y \in S : ~ (y < x)
  BY <1>1 DEF OpToRel
<1> QED
  BY <1>2

(* What holds of 0, and of each number up to N if of the one before.       *)
LEMMA CountingUp ==
  ASSUME NEW N \in Nat, NEW S, 0 \in S, \A n \in 1 .. N : n - 1 \in S => n \in S
  PROVE  \A n \in 0 .. N : n \in S
<1> DEFINE Bad == {n \in 0 .. N : n \notin S}
<1> SUFFICES ASSUME Bad # {} PROVE FALSE
  OBVIOUS
<1>1. PICK x \in Bad : \A y \in Bad : x <= y
  <2>1. Bad \in SUBSET Nat
    OBVIOUS
  <2> HIDE DEF Bad
  <2> QED
    BY <2>1, LeastExists
<1>2. x \in 1 .. N /\ x \notin S
  OBVIOUS
<1>3. x - 1 \in 0 .. N /\ ~(x <= x - 1)
  BY <1>2
<1>4. x - 1 \in S
  BY <1>1, <1>3
<1> QED
  BY <1>2, <1>4

(* Repeating a function N times has a sequence of results.                 *)
IterationOf(N, X, start, F) ==
  \E f \in [0 .. N -> X] : f[0] = start /\ \A n \in 1 .. N : f[n] = F[n][f[n - 1]]

(* The sequence of results exists.                                         *)
LEMMA IterationExists ==
  ASSUME NEW N \in Nat, NEW X, NEW start \in X, NEW F \in [1 .. N -> [X -> X]]
  PROVE  IterationOf(N, X, start, F)
<1> DEFINE Results(m, f) == f[0] = start /\ \A n \in 1 .. m : f[n] = F[n][f[n - 1]]
           Done == {m \in Nat : \E f \in [0 .. m -> X] : Results(m, f)}
<1>1. 0 \in Done
  <2>1. PICK f : f = [n \in 0 .. 0 |-> start]
    OBVIOUS
  <2> QED
    BY <2>1
<1>2. ASSUME NEW m \in 1 .. N, m - 1 \in Done PROVE m \in Done
  <2>1. PICK f \in [0 .. m - 1 -> X] : Results(m - 1, f)
    BY <1>2
  <2>2. PICK g : g = [n \in 0 .. m |-> IF n = m THEN F[m][f[m - 1]] ELSE f[n]]
    OBVIOUS
  <2>3. f[m - 1] \in X /\ F[m] \in [X -> X]
    BY <1>2, <2>1
  <2>4. g \in [0 .. m -> X]
    BY <2>1, <2>2, <2>3
  <2>5. g[0] = start /\ g[m] = F[m][g[m - 1]]
    BY <1>2, <2>1, <2>2
  <2>6. ASSUME NEW n \in 1 .. m - 1 PROVE g[n] = F[n][g[n - 1]]
    BY <1>2, <2>1, <2>2
  <2>7. Results(m, g)
    BY <2>5, <2>6
  <2>8. m \in Nat
    OBVIOUS
  <2> HIDE DEF Results
  <2> QED
    BY <2>4, <2>7, <2>8
<1>3. N \in Done
  <2>1. \A m \in 1 .. N : m - 1 \in Done => m \in Done
    BY <1>2
  <2> HIDE DEF Done
  <2>2. \A n \in 0 .. N : n \in Done
    BY <1>1, <2>1, CountingUp
  <2> QED
    BY <2>2
<1> QED
  BY <1>3 DEF IterationOf

-----------------------------------------------------------------------------
(* Probing.                                                                *)

LEMMA RemainderOf ==
  ASSUME NEW s \in Nat \ {0}, NEW q \in Int, NEW r \in 0 .. s - 1
  PROVE  (q * s + r) % s = r
OBVIOUS

(* Adding less than s goes around the end of the table at most once.       *)
LEMMA SumRemainder ==
  ASSUME NEW s \in Nat \ {0}, NEW h \in Nat, NEW n \in 0 .. s - 1
  PROVE  (h + n) % s = IF (h % s) + n < s THEN (h % s) + n ELSE (h % s) + n - s
<1>1. PICK q \in Int, r \in 0 .. s - 1 : h = q * s + r /\ r = h % s
  OBVIOUS
<1>2. CASE r + n < s
  <2>1. h + n = q * s + (r + n) /\ r + n \in 0 .. s - 1
    BY <1>1, <1>2
  <2> QED
    BY <1>1, <1>2, <2>1, RemainderOf
<1>3. CASE ~(r + n < s)
  <2>1. h + n = (q + 1) * s + (r + n - s) /\ r + n - s \in 0 .. s - 1 /\ q + 1 \in Int
    BY <1>1, <1>3
  <2> QED
    BY <1>1, <1>3, <2>1, RemainderOf
<1> QED
  BY <1>2, <1>3

(* A probe visits each slot of the table once.                             *)
LEMMA ProbesDiffer ==
  ASSUME NEW s \in Nat \ {0}, NEW h \in Nat, NEW m \in 0 .. s - 1, NEW n \in 0 .. s - 1,
         (h + m) % s = (h + n) % s
  PROVE  m = n
<1>1. h % s \in 0 .. s - 1
  OBVIOUS
<1>2. /\ (h + m) % s = IF (h % s) + m < s THEN (h % s) + m ELSE (h % s) + m - s
      /\ (h + n) % s = IF (h % s) + n < s THEN (h % s) + n ELSE (h % s) + n - s
  BY SumRemainder
<1>3. PICK r \in 0 .. s - 1 : r = h % s
  BY <1>1
<1> QED
  BY <1>2, <1>3


-----------------------------------------------------------------------------
(* The table.                                                              *)

Entries == [name : Names \cup {Undefined}, val : Values \cup {Undefined}, const : BOOLEAN]

IsTable(tbl, s) == s \in Nat /\ s >= 2 /\ tbl \in [0 .. s - 1 -> Entries]

Probe(n, k, s) == (Hash[n] + k) % s

(* A gap is an empty entry, and every name has a value and is at a slot    *)
(* that the search for it reaches: before it there is neither a gap nor    *)
(* another entry of that name.                                             *)
IsGap(e) == e.name = Undefined

TableIsGood(tbl, s) ==
  /\ IsTable(tbl, s)
  /\ \A i \in 0 .. s - 1 :
       IF IsGap(tbl[i]) THEN tbl[i] = Empty
       ELSE /\ tbl[i].val \in Values
            /\ \E k \in 0 .. s - 2 :
                 /\ i = Probe(tbl[i].name, k, s)
                 /\ \A m \in 0 .. k - 1 :
                      tbl[Probe(tbl[i].name, m, s)].name \notin {tbl[i].name, Undefined}

(* What a table holds, and where.                                          *)
Used(tbl)     == {i \in DOMAIN tbl : ~IsGap(tbl[i])}
Contents(tbl) == {tbl[i] : i \in Used(tbl)}
Has(tbl, n)   == \E i \in DOMAIN tbl : tbl[i].name = n

IsStore(r, tbl, i, e) == r = [tbl EXCEPT ![i] = e]

(* Sizes and probes of a table, in terms of its size s.                    *)
LEMMA TableFacts ==
  ASSUME NEW s, NEW tbl, IsTable(tbl, s)
  PROVE  /\ s \in Nat \ {0} /\ s >= 2 /\ DOMAIN tbl = 0 .. s - 1 /\ Cardinality(DOMAIN tbl) = s
         /\ IsFiniteSet(Used(tbl)) /\ Cardinality(Used(tbl)) \in Nat
         /\ \A n, k : Slot(tbl, n, k) = Probe(n, k, s)
         /\ \A n : Stops(tbl, n) = {k \in 0 .. s - 2 :
                                      tbl[Probe(n, k, s)].name \in {n, Undefined}}
<1>1. s \in Nat \ {0} /\ s >= 2 /\ DOMAIN tbl = 0 .. s - 1
  BY DEF IsTable
<1>2. IsFiniteSet(DOMAIN tbl) /\ Cardinality(DOMAIN tbl) = s
  <2>1. s - 1 \in Int /\ ~(0 > s - 1)
    BY <1>1
  <2>2. IsFiniteSet(0 .. s - 1) /\ Cardinality(0 .. s - 1) = s - 1 - 0 + 1
    BY <2>1, FS_Interval
  <2> QED
    BY <1>1, <2>2
<1>3. Used(tbl) \in SUBSET DOMAIN tbl
  BY DEF Used
<1>4. IsFiniteSet(Used(tbl)) /\ Cardinality(Used(tbl)) \in Nat
  BY <1>2, <1>3, FS_Subset, FS_CardinalityType
<1>5. \A n, k : Slot(tbl, n, k) = Probe(n, k, s)
  BY <1>2 DEF Slot, Probe
<1> QED
  BY <1>1, <1>2, <1>4, <1>5 DEF Stops

(* A probe is a slot.                                                      *)
LEMMA ProbeIsInTable ==
  ASSUME NEW s \in Nat \ {0}, NEW n \in Names, NEW k \in Nat
  PROVE  Probe(n, k, s) \in 0 .. s - 1
<1>1. Hash[n] + k \in Nat
  BY GlobalTableAssumption
<1> QED
  BY <1>1 DEF Probe

(* A search that ends has a slot at which it ends first, and that is       *)
(* where it ends.                                                          *)
LEMMA NearestExists ==
  ASSUME NEW s, NEW tbl, IsTable(tbl, s), NEW n \in Names, Stops(tbl, n) # {}
  PROVE  /\ Nearest(tbl, n) \in Stops(tbl, n) /\ Nearest(tbl, n) \in 0 .. s - 2
         /\ \A j \in Stops(tbl, n) : Nearest(tbl, n) <= j
         /\ SlotOf(tbl, n) = Probe(n, Nearest(tbl, n), s) /\ SlotOf(tbl, n) \in 0 .. s - 1
         /\ tbl[SlotOf(tbl, n)].name \in {n, Undefined}
<1>1. Stops(tbl, n) \in SUBSET Nat /\ Stops(tbl, n) \in SUBSET (0 .. s - 2)
  BY TableFacts
<1>2. \E k \in Stops(tbl, n) : \A j \in Stops(tbl, n) : k <= j
  BY <1>1, LeastExists
<1>3. Nearest(tbl, n) \in Stops(tbl, n) /\ \A j \in Stops(tbl, n) : Nearest(tbl, n) <= j
  BY <1>2 DEF Nearest
<1>4. SlotOf(tbl, n) = Probe(n, Nearest(tbl, n), s)
  BY TableFacts DEF SlotOf
<1>5. Nearest(tbl, n) \in 0 .. s - 2 /\ Nearest(tbl, n) \in Nat /\ s \in Nat \ {0}
  BY <1>1, <1>3, TableFacts
<1>6. SlotOf(tbl, n) \in 0 .. s - 1
  BY <1>4, <1>5, ProbeIsInTable
<1>7. Stops(tbl, n) = {k \in 0 .. s - 2 : tbl[Probe(n, k, s)].name \in {n, Undefined}}
  BY TableFacts
<1>8. tbl[SlotOf(tbl, n)].name \in {n, Undefined}
  BY <1>3, <1>4, <1>7
<1> QED
  BY <1>3, <1>4, <1>5, <1>6, <1>8

(* The search for a name ends at the slot the name is in.                  *)
LEMMA SearchFinds ==
  ASSUME NEW s, NEW tbl, TableIsGood(tbl, s), NEW n \in Names,
         NEW i \in 0 .. s - 1, tbl[i].name = n
  PROVE  IsFound(tbl, n) /\ i = SlotOf(tbl, n)
<1>1. IsTable(tbl, s) /\ s \in Nat \ {0}
  BY TableFacts DEF TableIsGood
<1>2. n # Undefined
  BY GlobalTableAssumption
<1>3. PICK k \in 0 .. s - 2 : /\ i = Probe(n, k, s)
                              /\ \A m \in 0 .. k - 1 : tbl[Probe(n, m, s)].name \notin {n, Undefined}
  BY <1>2 DEF TableIsGood, IsGap
<1>4. k \in Stops(tbl, n) /\ \A j \in Stops(tbl, n) : j \in 0 .. s - 2 /\ ~(j < k)
  BY <1>1, <1>3, TableFacts
<1>5. Nearest(tbl, n) = k
  <2>1. Nearest(tbl, n) \in Stops(tbl, n) /\ Nearest(tbl, n) <= k
    BY <1>1, <1>4, NearestExists
  <2>2. Nearest(tbl, n) \in 0 .. s - 2 /\ ~(Nearest(tbl, n) < k)
    BY <1>4, <2>1
  <2> QED
    BY <1>1, <2>1, <2>2
<1>6. SlotOf(tbl, n) = i
  BY <1>1, <1>3, <1>4, <1>5, NearestExists
<1> QED
  BY <1>4, <1>6 DEF IsFound

(* A search finds a name if and only if the table has it, in one slot.     *)
LEMMA SearchIsRight ==
  ASSUME NEW s, NEW tbl, TableIsGood(tbl, s), NEW n \in Names
  PROVE  /\ IsFound(tbl, n) <=> Has(tbl, n)
         /\ IsFound(tbl, n) => /\ SlotOf(tbl, n) \in 0 .. s - 1
                               /\ tbl[SlotOf(tbl, n)].name = n
                               /\ tbl[SlotOf(tbl, n)].val \in Values
         /\ \A i, j \in 0 .. s - 1 : tbl[i].name = n /\ tbl[j].name = n => i = j
<1>1. IsTable(tbl, s) /\ DOMAIN tbl = 0 .. s - 1
  BY TableFacts DEF TableIsGood
<1>2. ASSUME IsFound(tbl, n)
      PROVE  /\ SlotOf(tbl, n) \in 0 .. s - 1 /\ tbl[SlotOf(tbl, n)].name = n
             /\ tbl[SlotOf(tbl, n)].val \in Values
  <2>1. SlotOf(tbl, n) \in 0 .. s - 1 /\ tbl[SlotOf(tbl, n)].name = n
    BY <1>1, <1>2, NearestExists DEF IsFound
  <2> QED
    BY <2>1, GlobalTableAssumption DEF TableIsGood, IsGap
<1>3. IsFound(tbl, n) => Has(tbl, n)
  BY <1>1, <1>2 DEF Has
<1>4. Has(tbl, n) => IsFound(tbl, n)
  BY <1>1, SearchFinds DEF Has
<1>5. \A i, j \in 0 .. s - 1 : tbl[i].name = n /\ tbl[j].name = n => i = j
  BY SearchFinds
<1> QED
  BY <1>2, <1>3, <1>4, <1>5

(* As long as two slots are left, every search ends.                       *)
LEMMA GapExists ==
  ASSUME NEW s, NEW tbl, IsTable(tbl, s), NEW n \in Names, Cardinality(Used(tbl)) < s - 1
  PROVE  Stops(tbl, n) # {}
<1> SUFFICES ASSUME Stops(tbl, n) = {} PROVE FALSE
  OBVIOUS
<1> DEFINE S == 0 .. s - 2
<1>1. s \in Nat \ {0} /\ s >= 2 /\ DOMAIN tbl = 0 .. s - 1
  BY TableFacts
<1>2. IsFiniteSet(S) /\ Cardinality(S) = s - 1
  <2>1. s - 2 \in Int /\ ~(0 > s - 2)
    BY <1>1
  <2>2. IsFiniteSet(S) /\ Cardinality(S) = s - 2 - 0 + 1
    BY <2>1, FS_Interval
  <2> HIDE DEF S
  <2> QED
    BY <1>1, <2>2
<1>3. ASSUME NEW k \in S PROVE Probe(n, k, s) \in Used(tbl)
  <2>1. Probe(n, k, s) \in 0 .. s - 1
    <3>1. k \in Nat
      BY <1>1
    <3> QED
      BY <1>1, <3>1, ProbeIsInTable
  <2>2. tbl[Probe(n, k, s)].name # Undefined
    BY TableFacts
  <2> QED
    BY <1>1, <2>1, <2>2 DEF Used, IsGap
<1>4. PICK f : f = [k \in S |-> Probe(n, k, s)]
  OBVIOUS
<1>5. f \in [S -> Used(tbl)]
  BY <1>3, <1>4
<1>6. PICK x \in S, y \in S : x # y /\ f[x] = f[y]
  <2> HIDE DEF S
  <2> QED
    BY <1>2, <1>5, TableFacts, FS_PigeonHole
<1>7. Probe(n, x, s) = Probe(n, y, s) /\ x \in 0 .. s - 1 /\ y \in 0 .. s - 1
  BY <1>1, <1>4, <1>6
<1>8. Hash[n] \in Nat
  BY GlobalTableAssumption
<1> QED
  BY <1>1, <1>6, <1>7, <1>8, ProbesDiffer DEF Probe

(* A new entry goes to the gap that its search has met.                    *)
LEMMA InsertionKeepsTable ==
  ASSUME NEW s, NEW tbl, TableIsGood(tbl, s), NEW n \in Names,
         NEW e \in Entries, e.name = n, e.val \in Values,
         ~Has(tbl, n), Stops(tbl, n) # {}, NEW r, IsStore(r, tbl, SlotOf(tbl, n), e)
  PROVE  /\ TableIsGood(r, s) /\ Contents(r) = Contents(tbl) \cup {e}
         /\ Cardinality(Used(r)) = Cardinality(Used(tbl)) + 1
<1>1. IsTable(tbl, s) /\ s \in Nat \ {0} /\ DOMAIN tbl = 0 .. s - 1 /\ n # Undefined
  BY TableFacts, GlobalTableAssumption DEF TableIsGood
<1>2. PICK i \in 0 .. s - 1, k \in 0 .. s - 2 :
        /\ i = SlotOf(tbl, n) /\ i = Probe(n, k, s) /\ tbl[i].name = Undefined
        /\ \A j \in Stops(tbl, n) : k <= j
  BY <1>1, NearestExists DEF Has
<1>3. /\ r \in [0 .. s - 1 -> Entries] /\ IsTable(r, s) /\ DOMAIN r = 0 .. s - 1
      /\ r[i] = e /\ \A j \in 0 .. s - 1 : j # i => r[j] = tbl[j]
  BY <1>1, <1>2 DEF IsTable, IsStore
<1>4. ASSUME NEW j \in 0 .. s - 1, ~IsGap(r[j])
      PROVE  /\ r[j].val \in Values
             /\ \E x \in 0 .. s - 2 :
                  /\ j = Probe(r[j].name, x, s)
                  /\ \A m \in 0 .. x - 1 :
                       r[Probe(r[j].name, m, s)].name \notin {r[j].name, Undefined}
  <2>1. CASE j = i
    <3>1. ASSUME NEW m \in 0 .. k - 1
          PROVE  r[Probe(n, m, s)].name \notin {n, Undefined}
      <4>1. m \in 0 .. s - 2 /\ m \in Nat /\ ~(k <= m)
        BY <1>1, <1>2
      <4>2. m \notin Stops(tbl, n)
        BY <1>2, <4>1
      <4>3. tbl[Probe(n, m, s)].name \notin {n, Undefined}
        BY <1>1, <4>1, <4>2, TableFacts
      <4>4. Probe(n, m, s) \in 0 .. s - 1 /\ Probe(n, m, s) # i
        BY <1>1, <1>2, <4>1, <4>3, ProbeIsInTable
      <4> QED
        BY <1>3, <4>3, <4>4
    <3> QED
      BY <1>2, <1>3, <2>1, <3>1
  <2>2. CASE j # i
    <3>1. r[j] = tbl[j] /\ ~IsGap(tbl[j])
      BY <1>3, <1>4, <2>2
    <3>2. PICK l \in Names : l = tbl[j].name
      BY <1>1, <3>1 DEF IsTable, Entries, IsGap
    <3>3. tbl[j].val \in Values
      BY <3>1 DEF TableIsGood
    <3>4. PICK x \in 0 .. s - 2 : /\ j = Probe(l, x, s)
                                  /\ \A m \in 0 .. x - 1 : tbl[Probe(l, m, s)].name \notin {l, Undefined}
      BY <3>1, <3>2 DEF TableIsGood
    <3>5. ASSUME NEW m \in 0 .. x - 1
          PROVE  r[Probe(l, m, s)].name \notin {l, Undefined}
      <4>0. m \in Nat
        BY <1>1
      <4>1. Probe(l, m, s) \in 0 .. s - 1 /\ Probe(l, m, s) # i
        BY <1>1, <1>2, <3>4, <4>0, ProbeIsInTable
      <4> QED
        BY <1>3, <3>4, <4>1
    <3> QED
      BY <3>1, <3>2, <3>3, <3>4, <3>5
  <2> QED
    BY <2>1, <2>2
<1>5. ASSUME NEW j \in 0 .. s - 1, IsGap(r[j]) PROVE r[j] = Empty
  BY <1>1, <1>3, <1>5 DEF TableIsGood, IsGap
<1>6. TableIsGood(r, s)
  BY <1>3, <1>4, <1>5 DEF TableIsGood
<1>7. Used(r) = Used(tbl) \cup {i} /\ i \notin Used(tbl)
  BY <1>1, <1>2, <1>3 DEF Used, IsGap
<1>8. Contents(r) = Contents(tbl) \cup {e}
  <2>1. \A j \in Used(tbl) : r[j] = tbl[j]
    BY <1>1, <1>3, <1>7 DEF Used
  <2>2. ASSUME NEW d \in Contents(r) PROVE d \in Contents(tbl) \cup {e}
    <3>1. PICK j \in Used(r) : d = r[j]
      BY DEF Contents
    <3> QED
      BY <1>3, <1>7, <2>1, <3>1 DEF Contents
  <2>3. ASSUME NEW d \in Contents(tbl) PROVE d \in Contents(r)
    BY <1>7, <2>1 DEF Contents
  <2>4. e \in Contents(r)
    BY <1>3, <1>7 DEF Contents
  <2> QED
    BY <2>2, <2>3, <2>4
<1>9. Cardinality(Used(r)) = Cardinality(Used(tbl)) + 1
  BY <1>1, <1>7, TableFacts, FS_AddElement
<1> QED
  BY <1>6, <1>8, <1>9

(* An entry that keeps its name may change its value and its flag.         *)
LEMMA ReplacementKeepsTable ==
  ASSUME NEW s, NEW tbl, TableIsGood(tbl, s), NEW n \in Names,
         NEW i \in 0 .. s - 1, tbl[i].name = n,
         NEW e \in Entries, e.name = n, e.val \in Values, NEW r, IsStore(r, tbl, i, e)
  PROVE  TableIsGood(r, s) /\ Used(r) = Used(tbl)
<1>1. IsTable(tbl, s) /\ s \in Nat \ {0} /\ DOMAIN tbl = 0 .. s - 1 /\ ~IsGap(tbl[i])
  BY TableFacts, GlobalTableAssumption DEF TableIsGood, IsGap
<1>2. /\ IsTable(r, s) /\ DOMAIN r = 0 .. s - 1
      /\ r[i] = e /\ \A j \in 0 .. s - 1 : j # i => r[j] = tbl[j]
  BY <1>1 DEF IsTable, IsStore
<1>3. \A j \in 0 .. s - 1 : r[j].name = tbl[j].name
  BY <1>2
<1>4. ASSUME NEW j \in 0 .. s - 1, IsGap(r[j]) PROVE r[j] = Empty
  BY <1>1, <1>2, <1>3, <1>4 DEF TableIsGood, IsGap
<1>5. ASSUME NEW j \in 0 .. s - 1, ~IsGap(r[j])
      PROVE  /\ r[j].val \in Values
             /\ \E x \in 0 .. s - 2 :
                  /\ j = Probe(r[j].name, x, s)
                  /\ \A m \in 0 .. x - 1 :
                       r[Probe(r[j].name, m, s)].name \notin {r[j].name, Undefined}
  <2>1. ~IsGap(tbl[j])
    BY <1>3, <1>5 DEF IsGap
  <2>2. PICK l \in Names : l = tbl[j].name /\ l = r[j].name
    BY <1>1, <1>3, <2>1 DEF IsTable, Entries, IsGap
  <2>3. r[j].val \in Values
    BY <1>2, <2>1 DEF TableIsGood
  <2>4. PICK x \in 0 .. s - 2 : /\ j = Probe(l, x, s)
                                /\ \A m \in 0 .. x - 1 : tbl[Probe(l, m, s)].name \notin {l, Undefined}
    BY <2>1, <2>2 DEF TableIsGood
  <2>5. ASSUME NEW m \in 0 .. x - 1 PROVE r[Probe(l, m, s)].name \notin {l, Undefined}
    <3>1. m \in Nat
      BY <1>1
    <3>2. Probe(l, m, s) \in 0 .. s - 1
      BY <1>1, <3>1, ProbeIsInTable
    <3> QED
      BY <1>3, <2>4, <3>2
  <2> QED
    BY <2>2, <2>3, <2>4, <2>5
<1>6. Used(r) = Used(tbl)
  BY <1>1, <1>2, <1>3 DEF Used, IsGap
<1> QED
  BY <1>2, <1>4, <1>5, <1>6 DEF TableIsGood

(* A new table is well formed and holds nothing.                           *)
LEMMA NewTableIsGood ==
  ASSUME NEW s \in Nat, s >= 2, NEW tbl, tbl = NewTable(s)
  PROVE  TableIsGood(tbl, s) /\ Used(tbl) = {} /\ Contents(tbl) = {} /\ \A n \in Names : ~Has(tbl, n)
<1>1. tbl = [i \in 0 .. s - 1 |-> Empty] /\ Empty \in Entries /\ Undefined \notin Names
  BY GlobalTableAssumption DEF NewTable, Empty, Entries
<1>2. Empty.name = Undefined
  BY DEF Empty
<1> QED
  BY <1>1, <1>2 DEF TableIsGood, IsTable, IsGap, Used, Contents, Has

-----------------------------------------------------------------------------
(* Rehashing.                                                              *)

(* Its n-th step, which places the entry of slot n - 1.                    *)
RehashStep(x, tbl, n) ==
  LET e == tbl[n - 1] IN
  IF e.name = Undefined \/ Stops(x, e.name) = {} THEN x
  ELSE [x EXCEPT ![SlotOf(x, e.name)] = e]

IsRehash(f, tbl, s, z) ==
  /\ f[0] = NewTable(z)
  /\ \A n \in 1 .. s : f[n] = RehashStep(f[n - 1], tbl, n)

(* The recursive function of Rehash exists: its results are those of       *)
(* RehashStep, one after another.                                          *)
LEMMA RehashIterates ==
  ASSUME NEW s, NEW tbl, IsTable(tbl, s), NEW z \in Nat, z >= 2
  PROVE  \E f \in [0 .. s -> [0 .. z - 1 -> Entries]] :
           IsRehash(f, tbl, s, z) /\ Rehash(tbl, z) = f[s]
<1> DEFINE X == [0 .. z - 1 -> Entries]
           Rec(f) == [i \in 0 .. s |->
                        IF i = 0 THEN NewTable(z)
                        ELSE LET e == tbl[i - 1] IN
                             IF e.name = Undefined \/ Stops(f[i - 1], e.name) = {} THEN f[i - 1]
                             ELSE [f[i - 1] EXCEPT ![SlotOf(f[i - 1], e.name)] = e]]
           moved == CHOOSE moved : moved = [i \in 0 .. s |->
                        IF i = 0 THEN NewTable(z)
                        ELSE LET e == tbl[i - 1] IN
                             IF e.name = Undefined \/ Stops(moved[i - 1], e.name) = {} THEN moved[i - 1]
                             ELSE [moved[i - 1] EXCEPT ![SlotOf(moved[i - 1], e.name)] = e]]
<1>1. s \in Nat /\ Cardinality(DOMAIN tbl) = s /\ \A n \in 1 .. s : n - 1 \in 0 .. s - 1
  BY TableFacts
<1>2. ASSUME NEW n \in 1 .. s, NEW x \in X PROVE RehashStep(x, tbl, n) \in X
  <2>1. tbl[n - 1] \in Entries
    BY <1>1 DEF IsTable
  <2> QED
    BY <2>1 DEF RehashStep
<1>3. NewTable(z) \in X
  BY NewTableIsGood DEF TableIsGood, IsTable
<1>4. PICK g : g = Rec(g)
  <2>1. PICK F : F = [n \in 1 .. s |-> [x \in X |-> RehashStep(x, tbl, n)]]
    OBVIOUS
  <2>2. F \in [1 .. s -> [X -> X]]
    <3> HIDE DEF X
    <3> QED
      BY <1>2, <2>1
  <2>3. PICK f \in [0 .. s -> X] : f[0] = NewTable(z) /\ \A n \in 1 .. s : f[n] = F[n][f[n - 1]]
    <3> HIDE DEF X, moved, Rec
    <3>1. IterationOf(s, X, NewTable(z), F)
      BY <1>1, <1>3, <2>2, IterationExists
    <3> QED
      BY <3>1 DEF IterationOf
  <2>4. \A n \in 1 .. s : f[n] = RehashStep(f[n - 1], tbl, n)
    <3>1. \A n \in 1 .. s : n - 1 \in 0 .. s
      BY <1>1
    <3> HIDE DEF X
    <3> QED
      BY <2>1, <2>3, <3>1
  <2>5. ASSUME NEW n \in 0 .. s PROVE f[n] = Rec(f)[n]
    <3>1. CASE n = 0
      BY <2>3, <3>1
    <3>2. CASE n \in 1 .. s
      <4>1. n # 0 /\ n \in 0 .. s
        BY <1>1, <3>2
      <4>2. f[n] = RehashStep(f[n - 1], tbl, n)
        BY <2>4, <3>2
      <4> HIDE DEF X, moved
      <4> QED
        BY <4>1, <4>2 DEF RehashStep
    <3> QED
      BY <1>1, <3>1, <3>2
  <2>6. f = [n \in 0 .. s |-> f[n]] /\ Rec(f) = [n \in 0 .. s |-> Rec(f)[n]]
    BY <2>3
  <2>7. f = Rec(f)
    <3> HIDE DEF Rec
    <3> QED
      BY <2>5, <2>6
  <2> QED
    BY <2>7
<1>5. moved = Rec(moved)
  BY <1>4
<1>6. Rehash(tbl, z) = moved[s]
  BY <1>1 DEF Rehash
<1>7. PICK f : f = moved
  OBVIOUS
<1>8. f = Rec(f) /\ Rehash(tbl, z) = f[s]
  <2> HIDE DEF moved, Rec
  <2> QED
    BY <1>5, <1>6, <1>7
<1>9. f[0] = NewTable(z) /\ \A n \in 1 .. s : f[n] = RehashStep(f[n - 1], tbl, n)
  <2>1. \A n \in 0 .. s : f[n] = Rec(f)[n]
    BY <1>8
  <2>2. 0 \in 0 .. s /\ \A n \in 1 .. s : n \in 0 .. s /\ n # 0
    BY <1>1
  <2> HIDE DEF X, moved
  <2>3. f[0] = NewTable(z)
    BY <2>1, <2>2
  <2>4. ASSUME NEW n \in 1 .. s PROVE f[n] = RehashStep(f[n - 1], tbl, n)
    BY <2>1, <2>2 DEF RehashStep
  <2> QED
    BY <2>3, <2>4
<1>10. \A n \in 0 .. s : f[n] \in X
  <2> DEFINE S == {n \in 0 .. s : f[n] \in X}
  <2>1. 0 \in S
    BY <1>1, <1>3, <1>9
  <2>2. ASSUME NEW n \in 1 .. s, n - 1 \in S PROVE n \in S
    <3>1. f[n] \in X
      <4> HIDE DEF X
      <4> QED
        BY <1>2, <1>9, <2>2
    <3> QED
      BY <1>1, <3>1
  <2>3. \A n \in 0 .. s : n \in S
    <3> HIDE DEF S
    <3> QED
      BY <1>1, <2>1, <2>2, CountingUp
  <2> QED
    BY <2>3
<1>11. f \in [0 .. s -> X]
  <2> HIDE DEF X, moved
  <2>1. f = [n \in 0 .. s |-> f[n]]
    BY <1>8
  <2> HIDE DEF Rec
  <2> QED
    BY <1>10, <2>1
<1> QED
  BY <1>8, <1>9, <1>11 DEF IsRehash

(* x holds the entries of the first n slots of tbl.                        *)
UsedTo(tbl, n) == {i \in 0 .. n - 1 : ~IsGap(tbl[i])}

HoldsFirst(x, z, tbl, n) ==
  /\ TableIsGood(x, z)
  /\ Contents(x) = {tbl[i] : i \in UsedTo(tbl, n)}
  /\ Cardinality(Used(x)) = Cardinality(UsedTo(tbl, n))

(* One step of rehashing moves one more entry.                             *)
LEMMA RehashStepKeeps ==
  ASSUME NEW s, NEW tbl, TableIsGood(tbl, s), NEW z \in Nat, z >= 2,
         Cardinality(Used(tbl)) <= z - 1, NEW n \in 1 .. s, NEW x, HoldsFirst(x, z, tbl, n - 1)
  PROVE  HoldsFirst(RehashStep(x, tbl, n), z, tbl, n)
<1>1. IsTable(tbl, s) /\ s \in Nat \ {0} /\ DOMAIN tbl = 0 .. s - 1
  BY TableFacts DEF TableIsGood
<1>2. PICK i \in 0 .. s - 1 : i = n - 1
  BY <1>1
<1>3. 0 .. n - 1 = (0 .. i - 1) \cup {i} /\ 0 .. n - 1 \subseteq 0 .. s - 1 /\ i \notin 0 .. i - 1
  BY <1>1, <1>2
<1>4. HoldsFirst(x, z, tbl, i) /\ tbl[i] \in Entries
  BY <1>1, <1>2 DEF IsTable
<1>5. CASE IsGap(tbl[i])
  <2>1. RehashStep(x, tbl, n) = x
    BY <1>2, <1>5 DEF RehashStep, IsGap
  <2>2. UsedTo(tbl, n) = UsedTo(tbl, i)
    BY <1>3, <1>5 DEF UsedTo
  <2> QED
    BY <1>4, <2>1, <2>2 DEF HoldsFirst
<1>6. CASE ~IsGap(tbl[i])
  <2>1. PICK e \in Entries : e = tbl[i] /\ e.name \in Names /\ e.val \in Values /\ e.name # Undefined
    BY <1>4, <1>6 DEF Entries, IsGap, TableIsGood
  <2>2. /\ UsedTo(tbl, n) = UsedTo(tbl, i) \cup {i} /\ i \notin UsedTo(tbl, i)
        /\ UsedTo(tbl, n) \in SUBSET Used(tbl) /\ UsedTo(tbl, i) \in SUBSET Used(tbl)
    BY <1>1, <1>3, <1>6 DEF UsedTo, Used
  <2>3. /\ Cardinality(UsedTo(tbl, n)) = Cardinality(UsedTo(tbl, i)) + 1
        /\ Cardinality(UsedTo(tbl, n)) <= Cardinality(Used(tbl))
        /\ Cardinality(UsedTo(tbl, i)) \in Nat
    <3>1. IsFiniteSet(Used(tbl))
      BY <1>1, TableFacts
    <3>2. IsFiniteSet(UsedTo(tbl, i)) /\ Cardinality(UsedTo(tbl, n)) <= Cardinality(Used(tbl))
      BY <2>2, <3>1, FS_Subset
    <3> QED
      BY <2>2, <3>2, FS_AddElement, FS_CardinalityType
  <2>4. TableIsGood(x, z) /\ IsTable(x, z) /\ DOMAIN x = 0 .. z - 1
    BY <1>4, TableFacts DEF HoldsFirst, TableIsGood
  <2>5. Cardinality(Used(x)) < z - 1
    BY <1>1, <1>4, <2>3, <2>4, TableFacts DEF HoldsFirst
  <2>6. Stops(x, e.name) # {}
    BY <2>1, <2>4, <2>5, GapExists
  <2>7. ~Has(x, e.name)
    <3> SUFFICES ASSUME Has(x, e.name) PROVE FALSE
      OBVIOUS
    <3>1. PICK j \in DOMAIN x : x[j].name = e.name
      BY DEF Has
    <3>2. x[j] \in Contents(x)
      BY <2>1, <3>1 DEF Contents, Used, IsGap
    <3>3. PICK m \in 0 .. i - 1 : tbl[m].name = e.name
      BY <1>4, <3>1, <3>2 DEF HoldsFirst, UsedTo
    <3>4. m \in 0 .. s - 1 /\ m # i
      BY <1>3, <3>3
    <3> QED
      BY <2>1, <3>3, <3>4, SearchIsRight
  <2>8. PICK r : r = RehashStep(x, tbl, n) /\ IsStore(r, x, SlotOf(x, e.name), e)
    BY <1>2, <2>1, <2>6 DEF RehashStep, IsStore
  <2>9. /\ TableIsGood(r, z) /\ Contents(r) = Contents(x) \cup {e}
        /\ Cardinality(Used(r)) = Cardinality(Used(x)) + 1
    BY <2>1, <2>4, <2>6, <2>7, <2>8, InsertionKeepsTable
  <2>10. {tbl[j] : j \in UsedTo(tbl, n)} = {tbl[j] : j \in UsedTo(tbl, i)} \cup {e}
    BY <2>1, <2>2
  <2> QED
    BY <1>4, <2>3, <2>8, <2>9, <2>10 DEF HoldsFirst
<1> QED
  BY <1>5, <1>6

(* Growing a table keeps its contents: every entry finds a gap.            *)
LEMMA RehashKeepsTable ==
  ASSUME NEW s, NEW tbl, TableIsGood(tbl, s), NEW z \in Nat, z >= 2,
         Cardinality(Used(tbl)) <= z - 1, NEW r, r = Rehash(tbl, z)
  PROVE  /\ TableIsGood(r, z) /\ Contents(r) = Contents(tbl)
         /\ Cardinality(Used(r)) = Cardinality(Used(tbl))
<1>1. IsTable(tbl, s) /\ s \in Nat \ {0} /\ DOMAIN tbl = 0 .. s - 1
  BY TableFacts DEF TableIsGood
<1>2. PICK f \in [0 .. s -> [0 .. z - 1 -> Entries]] :
        IsRehash(f, tbl, s, z) /\ Rehash(tbl, z) = f[s]
  BY <1>1, RehashIterates
<1> DEFINE S == {n \in 0 .. s : HoldsFirst(f[n], z, tbl, n)}
<1>3. 0 \in S
  <2>1. UsedTo(tbl, 0) = {}
    BY DEF UsedTo
  <2>2. HoldsFirst(f[0], z, tbl, 0)
    BY <1>2, <2>1, NewTableIsGood DEF IsRehash, HoldsFirst
  <2> QED
    BY <1>1, <2>2
<1>4. ASSUME NEW n \in 1 .. s, n - 1 \in S PROVE n \in S
  <2>1. HoldsFirst(f[n - 1], z, tbl, n - 1) /\ f[n] = RehashStep(f[n - 1], tbl, n)
    BY <1>2, <1>4 DEF IsRehash
  <2>2. HoldsFirst(f[n], z, tbl, n)
    BY <2>1, RehashStepKeeps
  <2> QED
    BY <1>1, <2>2
<1>5. s \in S
  <2> HIDE DEF S
  <2>1. \A n \in 0 .. s : n \in S
    BY <1>1, <1>3, <1>4, CountingUp
  <2> QED
    BY <1>1, <2>1
<1>6. UsedTo(tbl, s) = Used(tbl)
  BY <1>1 DEF UsedTo, Used
<1> QED
  BY <1>2, <1>5, <1>6 DEF HoldsFirst, Contents

-----------------------------------------------------------------------------
(* The map that a table stands for.                                        *)

View(tbl) == [n \in Names |->
  LET here == {i \in DOMAIN tbl : tbl[i].name = n} IN
  IF here = {} THEN [val |-> Undefined, const |-> FALSE]
  ELSE LET i == CHOOSE i \in here : TRUE
       IN [val |-> tbl[i].val, const |-> tbl[i].const]]

(* What the map has for the name of an entry, and for other names.         *)
Bound(e) == [val |-> e.val, const |-> e.const]
Nothing  == [val |-> Undefined, const |-> FALSE]

(* The fields of what the map has.                                         *)
LEMMA NothingHas == Nothing.val = Undefined /\ Nothing.const = FALSE
BY DEF Nothing

(* Likewise for a name that was assigned.                                  *)
LEMMA BoundHas ==
  ASSUME NEW e
  PROVE  Bound(e).val = e.val /\ Bound(e).const = e.const
BY DEF Bound

(* Changing a field of what the map has.                                   *)
LEMMA ValueChange ==
  ASSUME NEW v, NEW c, NEW w
  PROVE  [[val |-> v, const |-> c] EXCEPT !.val = w] = [val |-> w, const |-> c]
<1> DEFINE d == [[val |-> v, const |-> c] EXCEPT !.val = w]
           f == [val |-> w, const |-> c]
<1>1. DOMAIN d = {"val", "const"}
  OBVIOUS
<1>2. d.val = w /\ d.const = c
  OBVIOUS
<1>3. d = [x \in {"val", "const"} |-> d[x]]
  BY <1>1
<1>4. f = [x \in {"val", "const"} |-> f[x]]
  OBVIOUS
<1>5. \A x \in {"val", "const"} : d[x] = f[x]
  BY <1>2
<1>6. d = f
  <2> HIDE DEF d, f
  <2> QED
    BY <1>3, <1>4, <1>5
<1> QED
  BY <1>6

(* Changing a field of an entry of the map changes the entry.              *)
LEMMA FieldChange ==
  ASSUME NEW V, NEW n, NEW v
  PROVE  /\ [V EXCEPT ![n].val = v] = [V EXCEPT ![n] = [V[n] EXCEPT !.val = v]]
         /\ [V EXCEPT ![n].const = v] = [V EXCEPT ![n] = [V[n] EXCEPT !.const = v]]
OBVIOUS

(* A new value, or a new flag, in the entry and in the map.                *)
LEMMA BoundChanges ==
  ASSUME NEW d \in Entries, NEW e \in Entries
  PROVE  /\ e.const = d.const => Bound(e) = [Bound(d) EXCEPT !.val = e.val]
         /\ e.val = d.val => Bound(e) = [Bound(d) EXCEPT !.const = e.const]
         /\ e.const = FALSE => Bound(e) = [Nothing EXCEPT !.val = e.val]
<1>1. e.const = d.const => Bound(e) = [Bound(d) EXCEPT !.val = e.val]
  BY DEF Bound, Entries
<1>2. e.val = d.val => Bound(e) = [Bound(d) EXCEPT !.const = e.const]
  BY DEF Bound, Entries
<1>3. e.const = FALSE => Bound(e) = [Nothing EXCEPT !.val = e.val]
  <2> SUFFICES ASSUME e.const = FALSE PROVE Bound(e) = [Nothing EXCEPT !.val = e.val]
    OBVIOUS
  <2>1. Bound(e) = [val |-> e.val, const |-> FALSE]
    BY Zenon DEF Bound
  <2>2. [Nothing EXCEPT !.val = e.val] = [val |-> e.val, const |-> FALSE]
    BY ValueChange DEF Nothing
  <2> QED
    BY <2>1, <2>2
<1> QED
  BY <1>1, <1>2, <1>3

(* The map has for a name what the slot of the name has.                   *)
LEMMA ViewOfEntry ==
  ASSUME NEW s, NEW tbl, TableIsGood(tbl, s), NEW n \in Names,
         NEW i \in 0 .. s - 1, tbl[i].name = n
  PROVE  View(tbl)[n] = Bound(tbl[i])
<1> DEFINE here == {j \in DOMAIN tbl : tbl[j].name = n}
<1>1. DOMAIN tbl = 0 .. s - 1
  BY TableFacts DEF TableIsGood
<1>2. here = {i}
  <2>1. \A j \in 0 .. s - 1 : tbl[j].name = n => j = i
    BY SearchIsRight
  <2> QED
    BY <1>1, <2>1
<1>3. here # {} /\ (CHOOSE j \in here : TRUE) = i
  BY <1>2
<1> QED
  BY <1>3 DEF View, Bound

(* The map has nothing for a name that the table does not have.            *)
LEMMA ViewOfNone ==
  ASSUME NEW tbl, NEW n \in Names, ~Has(tbl, n)
  PROVE  View(tbl)[n] = Nothing
<1>1. {i \in DOMAIN tbl : tbl[i].name = n} = {}
  BY DEF Has
<1> QED
  BY <1>1 DEF View, Nothing

(* Tables with the same contents stand for the same map.                   *)
LEMMA ViewOfContents ==
  ASSUME NEW s, NEW tbl, TableIsGood(tbl, s), NEW z, NEW r, TableIsGood(r, z),
         Contents(r) = Contents(tbl)
  PROVE  View(r) = View(tbl)
<1>1. DOMAIN tbl = 0 .. s - 1 /\ DOMAIN r = 0 .. z - 1
  BY TableFacts DEF TableIsGood
<1>2. ASSUME NEW n \in Names PROVE View(r)[n] = View(tbl)[n]
  <2>0. n # Undefined
    BY GlobalTableAssumption
  <2>1. CASE Has(tbl, n)
    <3>1. PICK i \in 0 .. s - 1 : tbl[i].name = n
      BY <1>1, <2>1 DEF Has
    <3>2. tbl[i] \in Contents(r)
      BY <1>1, <2>0, <3>1 DEF Contents, Used, IsGap
    <3>3. PICK j \in 0 .. z - 1 : r[j] = tbl[i]
      BY <1>1, <3>2 DEF Contents, Used
    <3> QED
      BY <3>1, <3>3, ViewOfEntry
  <2>2. CASE ~Has(tbl, n)
    <3>1. ~Has(r, n)
      <4> SUFFICES ASSUME Has(r, n) PROVE FALSE
        OBVIOUS
      <4>1. PICK j \in 0 .. z - 1 : r[j].name = n
        BY <1>1 DEF Has
      <4>2. r[j] \in Contents(tbl)
        BY <1>1, <2>0, <4>1 DEF Contents, Used, IsGap
      <4> QED
        BY <2>2, <4>1, <4>2 DEF Contents, Used, Has
    <3> QED
      BY <2>2, <3>1, ViewOfNone
  <2> QED
    BY <2>1, <2>2
<1>3. View(r) = [n \in Names |-> View(r)[n]] /\ View(tbl) = [n \in Names |-> View(tbl)[n]]
  BY DEF View
<1> QED
  BY <1>2, <1>3

(* The map after an entry of name e.name was stored, other names as they   *)
(* were.                                                                   *)
LEMMA ViewOfStore ==
  ASSUME NEW s, NEW tbl, TableIsGood(tbl, s), NEW n \in Names,
         NEW i \in 0 .. s - 1, tbl[i].name \in {n, Undefined},
         NEW e \in Entries, e.name = n, NEW r, IsStore(r, tbl, i, e), TableIsGood(r, s)
  PROVE  View(r) = [View(tbl) EXCEPT ![n] = Bound(e)]
<1>1. /\ DOMAIN tbl = 0 .. s - 1 /\ DOMAIN r = 0 .. s - 1
      /\ r[i] = e /\ \A j \in 0 .. s - 1 : j # i => r[j] = tbl[j]
  BY TableFacts DEF TableIsGood, IsTable, IsStore
<1>2. View(r)[n] = Bound(e)
  <2>1. r[i].name = n
    BY <1>1
  <2> QED
    BY <1>1, <2>1, ViewOfEntry
<1>3. ASSUME NEW l \in Names, l # n PROVE View(r)[l] = View(tbl)[l]
  <2>0. l # Undefined
    BY GlobalTableAssumption
  <2>1. CASE Has(tbl, l)
    <3>1. PICK j \in 0 .. s - 1 : tbl[j].name = l
      BY <1>1, <2>1 DEF Has
    <3>2. j # i /\ r[j] = tbl[j]
      BY <1>1, <1>3, <2>0, <3>1
    <3>3. View(tbl)[l] = Bound(tbl[j]) /\ View(r)[l] = Bound(r[j])
      BY <3>1, <3>2, ViewOfEntry
    <3> QED
      BY <3>2, <3>3
  <2>2. CASE ~Has(tbl, l)
    <3>1. ~Has(r, l)
      BY <1>1, <1>3, <2>2 DEF Has
    <3> QED
      BY <2>2, <3>1, ViewOfNone
  <2> QED
    BY <2>1, <2>2
<1>4. View(r) = [l \in Names |-> View(r)[l]] /\ View(tbl) = [l \in Names |-> View(tbl)[l]]
  BY DEF View
<1> QED
  BY <1>2, <1>3, <1>4

-----------------------------------------------------------------------------
(* The invariant of the table and of the calls.                            *)

Limit(s) == (s \div 4) * 3

Replies == Values \cup {"none", "pending", "yes", "no", "not found", "ok", "constant",
                        "out of memory"}

CallMatches(t) ==
  /\ pc[t] = "idle" <=> call[t] = NoCall
  /\ pc[t] = "idle" => reply[t] = "none"
  /\ pc[t] \in {"acquire", "back_off", "inside", "insert"} => reply[t] = "pending"
  /\ pc[t] = "release" => reply[t] # "pending"
  /\ pc[t] = "insert" => call[t].op = "set"

CallsMatch ==
  /\ call \in [Threads -> Calls \cup {NoCall}]
  /\ reply \in [Threads -> Replies]
  /\ \A t \in Threads : CallMatches(t)

(* At least one slot more than the last search needs is left, and one more *)
(* than that where a name is about to be inserted.                         *)
RoomIsLeft ==
  /\ TableIsGood(global, global_alloc_size)
  /\ global_size = Cardinality(Used(global))
  /\ global_size <= Limit(global_alloc_size)
  /\ \A t \in Threads : pc[t] = "insert" => global_size < Limit(global_alloc_size)

TableInv == LockInv /\ CallsMatch /\ RoomIsLeft

(* Three quarters of a table leave a slot, and fewer names than those of   *)
(* a table of twice its size.                                              *)
LEMMA LimitLeavesRoom ==
  ASSUME NEW s \in Nat, s >= 2
  PROVE  /\ Limit(s) \in Nat /\ Limit(s) <= s - 1
         /\ Limit(s) < Limit(2 * s) /\ 2 * s \in Nat /\ 2 * s >= 2 /\ 2 * s = s * 2
BY DEF Limit

(* Two threads that own the table are one.                                 *)
LEMMA HoldersAreOne ==
  ASSUME LockInv, NEW t \in Holders, NEW u \in Holders
  PROVE  t = u
<1> SUFFICES ASSUME t # u PROVE FALSE
  OBVIOUS
<1>1. IsFiniteSet(Holders) /\ Cardinality(Holders) <= 1
  BY CountsAreFinite DEF LockInv, OneHolder
<1>2. IsFiniteSet({t}) /\ Cardinality({t}) = 1
  BY FS_Singleton
<1>3. Cardinality({t} \cup {u}) = 2
  BY <1>2, FS_AddElement
<1>4. {t} \cup {u} \in SUBSET Holders
  OBVIOUS
<1>5. Cardinality({t} \cup {u}) <= Cardinality(Holders)
  BY <1>1, <1>4, FS_Subset
<1> QED
  BY <1>1, <1>3, <1>5, CountsAreFinite

(* What a step does to the call of its own thread and to that of others.   *)
LEMMA CallStep ==
  ASSUME CallsMatch, LockInv, NEW t \in Threads, NEW to \in Pcs, pc' = [pc EXCEPT ![t] = to],
         NEW c \in Calls \cup {NoCall}, call' = [call EXCEPT ![t] = c],
         NEW r \in Replies, reply' = [reply EXCEPT ![t] = r],
         to = "idle" <=> c = NoCall, to = "idle" => r = "none",
         to \in {"acquire", "back_off", "inside", "insert"} => r = "pending",
         to = "release" => r # "pending", to = "insert" => c.op = "set"
  PROVE  CallsMatch'
<1>1. /\ pc \in [Threads -> Pcs] /\ call \in [Threads -> Calls \cup {NoCall}]
      /\ reply \in [Threads -> Replies]
  BY DEF LockInv, CallsMatch
<1>2. call' \in [Threads -> Calls \cup {NoCall}] /\ reply' \in [Threads -> Replies]
  BY <1>1
<1>3. pc'[t] = to /\ call'[t] = c /\ reply'[t] = r
  BY <1>1
<1>4. CallMatches(t)'
  BY <1>3 DEF CallMatches
<1>5. ASSUME NEW u \in Threads, u # t PROVE CallMatches(u)'
  <2>1. pc'[u] = pc[u] /\ call'[u] = call[u] /\ reply'[u] = reply[u] /\ CallMatches(u)
    BY <1>1, <1>5 DEF CallsMatch
  <2> QED
    BY <2>1 DEF CallMatches
<1> QED
  BY <1>2, <1>4, <1>5 DEF CallsMatch

(* A call that is under way has its arguments.                             *)
LEMMA CallFacts ==
  ASSUME CallsMatch, NEW t \in Threads, pc[t] # "idle"
  PROVE  /\ call[t] \in Calls /\ call[t] # NoCall /\ call[t].name \in Names
         /\ call[t].op = "set" => call[t].val \in Values
<1>1. call[t] \in Calls /\ call[t] # NoCall
  BY DEF CallsMatch, CallMatches
<1>2. PICK c : c = call[t]
  OBVIOUS
<1>3. c.name \in Names /\ (c.op = "set" => c.val \in Values)
  <2>1. CASE c \in [op : {"set"}, name : Names, val : Values]
    BY <2>1
  <2>2. CASE c \in [op : {"get", "check"}, name : Names]
    BY <2>2
  <2>3. CASE c \in [op : {"mark"}, name : Lets]
    BY <2>3, GlobalTableAssumption
  <2> QED
    BY <1>1, <1>2, <2>1, <2>2, <2>3 DEF Calls
<1> QED
  BY <1>1, <1>2, <1>3

-----------------------------------------------------------------------------
(* What the steps do to the table.                                         *)

LEMMA TableOf ==
  ASSUME RoomIsLeft
  PROVE  \E s \in Nat : /\ s = global_alloc_size /\ s >= 2 /\ TableIsGood(global, s)
                        /\ IsTable(global, s) /\ DOMAIN global = 0 .. s - 1
                        /\ global_size = Cardinality(Used(global)) /\ global_size \in Nat
                        /\ global_size <= Limit(s) /\ Limit(s) \in Nat /\ Limit(s) <= s - 1
<1>1. PICK s : s = global_alloc_size
  OBVIOUS
<1>2. TableIsGood(global, s) /\ IsTable(global, s)
  BY <1>1 DEF RoomIsLeft, TableIsGood
<1>3. s \in Nat /\ s >= 2 /\ DOMAIN global = 0 .. s - 1 /\ Cardinality(Used(global)) \in Nat
  BY <1>2, TableFacts
<1> QED
  BY <1>1, <1>2, <1>3, LimitLeavesRoom DEF RoomIsLeft

(* What a search finds is what the map has.                                *)
LEMMA SearchAndView ==
  ASSUME NEW s, TableIsGood(global, s), NEW n \in Names
  PROVE  /\ IsFound(global, n) <=> View(global)[n].val # Undefined
         /\ ~IsFound(global, n) => /\ ~Has(global, n)
                                   /\ View(global)[n] = Nothing
         /\ IsFound(global, n) =>
              /\ SlotOf(global, n) \in 0 .. s - 1 /\ global[SlotOf(global, n)].name = n
              /\ global[SlotOf(global, n)].val \in Values
              /\ View(global)[n] = Bound(global[SlotOf(global, n)])
<1>1. CASE IsFound(global, n)
  <2>1. /\ SlotOf(global, n) \in 0 .. s - 1 /\ global[SlotOf(global, n)].name = n
        /\ global[SlotOf(global, n)].val \in Values
    BY <1>1, SearchIsRight
  <2>2. View(global)[n] = Bound(global[SlotOf(global, n)])
    BY <2>1, ViewOfEntry
  <2>3. View(global)[n].val # Undefined
    BY <2>1, <2>2, BoundHas, GlobalTableAssumption
  <2> QED
    BY <1>1, <2>1, <2>2, <2>3
<1>2. CASE ~IsFound(global, n)
  <2>1. ~Has(global, n)
    BY <1>2, SearchIsRight
  <2>2. View(global)[n] = Nothing
    BY <2>1, ViewOfNone
  <2> QED
    BY <1>2, <2>1, <2>2, NothingHas
<1> QED
  BY <1>1, <1>2

(* rt_mark_global_const, in the table and in the map.                      *)
LEMMA MarkStep ==
  ASSUME RoomIsLeft, CallsMatch, NEW t \in Threads, Mark(t), NEW n, n = call[t].name
  PROVE  /\ n \in Names
         /\ \/ /\ View(global)[n].val = Undefined /\ UNCHANGED global
               /\ reply' = [reply EXCEPT ![t] = "not found"]
            \/ /\ View(global)[n].val # Undefined
               /\ reply' = [reply EXCEPT ![t] = "ok"]
               /\ global_alloc_size' = global_alloc_size
               /\ TableIsGood(global', global_alloc_size) /\ Used(global') = Used(global)
               /\ View(global') = [View(global) EXCEPT ![n].const = TRUE]
<1> DEFINE here == {i \in DOMAIN global : global[i].name = n}
<1>1. PICK s \in Nat : /\ s = global_alloc_size /\ s >= 2 /\ TableIsGood(global, s)
                       /\ IsTable(global, s) /\ DOMAIN global = 0 .. s - 1
  BY TableOf
<1>2. n \in Names
  BY CallFacts DEF Mark, Leave, Goto
<1>3. /\ reply' = [reply EXCEPT ![t] = IF here = {} THEN "not found" ELSE "ok"]
      /\ IF here = {} THEN UNCHANGED global
         ELSE global' = [global EXCEPT ![CHOOSE i \in here : \A j \in here : i <= j].const = TRUE]
  BY DEF Mark, Leave
<1>4. here = {} <=> ~Has(global, n)
  BY DEF Has
<1>5. CASE here = {}
  <2>1. View(global)[n].val = Undefined
    BY <1>2, <1>4, <1>5, ViewOfNone, NothingHas
  <2> QED
    BY <1>2, <1>3, <1>5, <2>1
<1>6. CASE here # {}
  <2>1. PICK i \in 0 .. s - 1 : here = {i} /\ global[i].name = n
    BY <1>1, <1>2, <1>6, SearchIsRight
  <2>2. (CHOOSE j \in here : \A k \in here : j <= k) = i
    BY <2>1
  <2>3. PICK e : e = [global[i] EXCEPT !.const = TRUE]
    OBVIOUS
  <2>4. global[i] \in Entries /\ global[i].val \in Values
    <3>1. n # Undefined
      BY <1>2, GlobalTableAssumption
    <3> QED
      BY <1>1, <2>1, <3>1 DEF TableIsGood, IsTable, IsGap
  <2>5. e \in Entries /\ e.name = n /\ e.val = global[i].val /\ e.const = TRUE
    BY <2>1, <2>3, <2>4 DEF Entries
  <2>6. IsStore(global', global, i, e)
    BY <1>3, <1>6, <2>2, <2>3 DEF IsStore
  <2> HIDE DEF here
  <2>7. TableIsGood(global', s) /\ Used(global') = Used(global)
    BY <1>1, <1>2, <2>1, <2>4, <2>5, <2>6, ReplacementKeepsTable
  <2>8. View(global') = [View(global) EXCEPT ![n] = Bound(e)]
    BY <1>1, <1>2, <2>1, <2>5, <2>6, <2>7, ViewOfStore
  <2>9. View(global)[n] = Bound(global[i])
    BY <1>1, <1>2, <2>1, ViewOfEntry
  <2>10. View(global') = [View(global) EXCEPT ![n].const = TRUE]
    <3>1. Bound(e) = [Bound(global[i]) EXCEPT !.const = TRUE]
      BY <2>4, <2>5, BoundChanges
    <3> QED
      BY <2>8, <2>9, <3>1, FieldChange
  <2>11. View(global)[n].val # Undefined
    BY <2>4, <2>9, BoundHas, GlobalTableAssumption
  <2>12. global_alloc_size' = global_alloc_size
    BY <2>6 DEF global_alloc_size, IsStore
  <2> QED
    BY <1>1, <1>2, <1>3, <1>6, <2>7, <2>10, <2>11, <2>12
<1> QED
  BY <1>5, <1>6

(* rt_expand_global changes the table and not the map, and makes room.     *)
LEMMA ExpandStep ==
  ASSUME RoomIsLeft, NEW t \in Threads, SetExpand(t)
  PROVE  /\ TableIsGood(global, global_alloc_size)'
         /\ Cardinality(Used(global')) = Cardinality(Used(global))
         /\ global_size < Limit(global_alloc_size)'
         /\ View(global') = View(global)
<1>1. PICK s \in Nat : /\ s = global_alloc_size /\ s >= 2 /\ TableIsGood(global, s)
                       /\ IsTable(global, s) /\ DOMAIN global = 0 .. s - 1
                       /\ global_size = Cardinality(Used(global)) /\ global_size \in Nat
                       /\ global_size <= Limit(s) /\ Limit(s) \in Nat /\ Limit(s) <= s - 1
  BY TableOf
<1>2. CASE ~NeedsExpansion
  <2>1. global' = global
    BY <1>2 DEF SetExpand
  <2>2. global_size < Limit(s)
    BY <1>1, <1>2 DEF NeedsExpansion, Limit
  <2> QED
    BY <1>1, <2>1, <2>2 DEF global_alloc_size
<1>3. CASE NeedsExpansion
  <2>1. PICK z \in Nat : z = s * 2 /\ z >= 2 /\ Limit(s) < Limit(z) /\ Limit(z) \in Nat /\ s < z
    BY <1>1, LimitLeavesRoom
  <2>2. global' = Rehash(global, z)
    BY <1>1, <1>3, <2>1 DEF SetExpand
  <2>3. Cardinality(Used(global)) <= z - 1
    BY <1>1, <2>1
  <2>4. /\ TableIsGood(global', z) /\ Contents(global') = Contents(global)
        /\ Cardinality(Used(global')) = Cardinality(Used(global))
    BY <1>1, <2>1, <2>2, <2>3, RehashKeepsTable
  <2>5. global_alloc_size' = z
    BY <2>4, TableFacts DEF global_alloc_size, TableIsGood
  <2>6. View(global') = View(global)
    BY <1>1, <2>4, ViewOfContents
  <2> QED
    BY <1>1, <2>1, <2>4, <2>5, <2>6
<1> QED
  BY <1>2, <1>3

(* rt_set_global on a name the table does not have.                        *)
LEMMA InsertStep ==
  ASSUME RoomIsLeft, CallsMatch, NEW t \in Threads, SetInsert(t), NEW n, n = call[t].name
  PROVE  /\ n \in Names /\ View(global)[n] = Nothing
         /\ \/ /\ UNCHANGED <<global, global_size>>
               /\ reply' = [reply EXCEPT ![t] = "out of memory"]
            \/ /\ reply' = [reply EXCEPT ![t] = "ok"]
               /\ global_size' = global_size + 1
               /\ global_alloc_size' = global_alloc_size
               /\ TableIsGood(global', global_alloc_size)
               /\ Cardinality(Used(global')) = Cardinality(Used(global)) + 1
               /\ View(global') = [View(global) EXCEPT ![n].val = call[t].val]
<1> DEFINE i == SlotOf(global, n)
<1>1. PICK s \in Nat : /\ s = global_alloc_size /\ s >= 2 /\ TableIsGood(global, s)
                       /\ IsTable(global, s) /\ DOMAIN global = 0 .. s - 1
  BY TableOf
<1>2. pc[t] = "insert" /\ Stops(global, n) # {} /\ ~IsFound(global, n)
  BY DEF SetInsert
<1>3. call[t].op = "set"
  BY <1>2 DEF CallsMatch, CallMatches
<1>4. n \in Names /\ call[t].val \in Values /\ n # Undefined
  BY <1>2, <1>3, CallFacts, GlobalTableAssumption
<1>5. ~Has(global, n) /\ View(global)[n] = Nothing
  BY <1>1, <1>2, <1>4, SearchAndView
<1>6. CASE reply' = [reply EXCEPT ![t] = "out of memory"] /\ UNCHANGED <<global, global_size>>
  BY <1>4, <1>5, <1>6
<1>7. CASE /\ reply' = [reply EXCEPT ![t] = "ok"] /\ global_size' = global_size + 1
           /\ global' = [global EXCEPT ![i].name = n, ![i].val = call[t].val]
  <2>1. i \in 0 .. s - 1 /\ global[i].name \in {n, Undefined}
    BY <1>1, <1>2, <1>4, NearestExists
  <2>2. global[i].name = Undefined
    BY <1>1, <1>5, <2>1 DEF Has
  <2>3. global[i] = Empty
    BY <1>1, <2>1, <2>2 DEF TableIsGood, IsGap
  <2>4. PICK e : e = [[global[i] EXCEPT !.name = n] EXCEPT !.val = call[t].val]
    OBVIOUS
  <2>5. e \in Entries /\ e.name = n /\ e.val = call[t].val /\ e.const = FALSE
    <3>1. global[i] \in Entries /\ global[i].const = FALSE
      BY <1>1, <2>1, <2>3 DEF IsTable, Empty
    <3> HIDE DEF i
    <3> QED
      BY <1>4, <2>4, <3>1 DEF Entries
  <2>6. IsStore(global', global, i, e)
    <3>1. global' = [global EXCEPT ![i] = [[global[i] EXCEPT !.name = n] EXCEPT !.val = call[t].val]]
      <4> HIDE DEF i
      <4> QED
        BY <1>1, <1>7, <2>1 DEF IsTable
    <3> QED
      BY <2>4, <3>1 DEF IsStore
  <2>7. TableIsGood(global', s) /\ Cardinality(Used(global')) = Cardinality(Used(global)) + 1
    BY <1>1, <1>2, <1>4, <1>5, <2>5, <2>6, InsertionKeepsTable
  <2>8. View(global') = [View(global) EXCEPT ![n] = Bound(e)]
    <3> HIDE DEF i
    <3> QED
      BY <1>1, <1>4, <2>1, <2>5, <2>6, <2>7, ViewOfStore
  <2>9. View(global') = [View(global) EXCEPT ![n].val = call[t].val]
    <3>1. Bound(e) = [Nothing EXCEPT !.val = call[t].val]
      BY <2>5, BoundChanges
    <3> QED
      BY <1>5, <2>8, <3>1, FieldChange
  <2>10. global_alloc_size' = global_alloc_size
    BY <2>6 DEF global_alloc_size, IsStore
  <2> QED
    BY <1>1, <1>4, <1>5, <1>7, <2>7, <2>9, <2>10
<1> QED
  BY <1>6, <1>7 DEF SetInsert, Leave

(* rt_set_global on a name the table has.                                  *)
LEMMA OverwriteStep ==
  ASSUME RoomIsLeft, CallsMatch, NEW t \in Threads, SetOverwrite(t), NEW n, n = call[t].name
  PROVE  /\ n \in Names /\ UNCHANGED global_size /\ View(global)[n].const \in BOOLEAN
         /\ \/ /\ View(global)[n].const /\ UNCHANGED global
               /\ reply' = [reply EXCEPT ![t] = "constant"]
            \/ /\ ~View(global)[n].const
               /\ reply' = [reply EXCEPT ![t] = "ok"]
               /\ global_alloc_size' = global_alloc_size
               /\ TableIsGood(global', global_alloc_size) /\ Used(global') = Used(global)
               /\ View(global') = [View(global) EXCEPT ![n].val = call[t].val]
<1> DEFINE i == SlotOf(global, n)
<1>1. PICK s \in Nat : /\ s = global_alloc_size /\ s >= 2 /\ TableIsGood(global, s)
                       /\ IsTable(global, s) /\ DOMAIN global = 0 .. s - 1
  BY TableOf
<1>2. pc[t] = "insert" /\ IsFound(global, n)
  BY DEF SetOverwrite
<1>3. call[t].op = "set"
  BY <1>2 DEF CallsMatch, CallMatches
<1>4. n \in Names /\ call[t].val \in Values
  BY <1>2, <1>3, CallFacts
<1>5. /\ i \in 0 .. s - 1 /\ global[i].name = n /\ global[i].val \in Values
      /\ View(global)[n] = Bound(global[i])
  BY <1>1, <1>2, <1>4, SearchAndView
<1>6. global[i] \in Entries /\ global[i].const \in BOOLEAN
  BY <1>1, <1>5 DEF IsTable, Entries
<1>0. View(global)[n].const = global[i].const
  BY <1>5, BoundHas
<1>7. CASE global[i].const
  BY <1>0, <1>4, <1>5, <1>6, <1>7 DEF SetOverwrite, Leave
<1>8. CASE ~global[i].const
  <2>1. global' = [global EXCEPT ![i].val = call[t].val] /\ reply' = [reply EXCEPT ![t] = "ok"]
    BY <1>8 DEF SetOverwrite, Leave
  <2>2. PICK e : e = [global[i] EXCEPT !.val = call[t].val]
    OBVIOUS
  <2>3. e \in Entries /\ e.name = n /\ e.val = call[t].val /\ e.const = global[i].const
    BY <1>4, <1>5, <1>6, <2>2 DEF Entries
  <2>4. IsStore(global', global, i, e)
    BY <2>1, <2>2 DEF IsStore
  <2>5. TableIsGood(global', s) /\ Used(global') = Used(global)
    <3> HIDE DEF i
    <3> QED
      BY <1>1, <1>4, <1>5, <2>3, <2>4, ReplacementKeepsTable
  <2>6. View(global') = [View(global) EXCEPT ![n] = Bound(e)]
    <3> HIDE DEF i
    <3> QED
      BY <1>1, <1>4, <1>5, <2>3, <2>4, <2>5, ViewOfStore
  <2>7. View(global') = [View(global) EXCEPT ![n].val = call[t].val]
    <3>1. Bound(e) = [Bound(global[i]) EXCEPT !.val = call[t].val]
      <4>1. PICK d \in Entries : d = global[i]
        BY <1>6
      <4>2. Bound(e) = [Bound(d) EXCEPT !.val = e.val]
        BY <2>3, <4>1, BoundChanges
      <4> HIDE DEF i
      <4> QED
        BY <2>3, <4>1, <4>2
    <3> QED
      BY <1>5, <2>6, <3>1, FieldChange
  <2>8. global_alloc_size' = global_alloc_size
    BY <2>4 DEF global_alloc_size, IsStore
  <2> QED
    BY <1>0, <1>1, <1>4, <1>5, <1>6, <1>8, <2>1, <2>5, <2>7, <2>8 DEF SetOverwrite
<1> QED
  BY <1>7, <1>8

-----------------------------------------------------------------------------
(* Every step keeps the invariant.                                         *)

LEMMA QuietRoom ==
  ASSUME RoomIsLeft, UNCHANGED <<global, global_size>>,
         \A u \in Threads : pc'[u] = "insert" => pc[u] = "insert"
  PROVE  RoomIsLeft'
BY DEF RoomIsLeft, global_alloc_size

(* When the owner leaves, nobody is about to insert.                       *)
LEMMA NobodyInserts ==
  ASSUME LockInv, NEW t \in Holders, NEW to, to # "insert", pc' = [pc EXCEPT ![t] = to]
  PROVE  \A u \in Threads : pc'[u] # "insert"
<1>1. pc \in [Threads -> Pcs] /\ t \in Threads
  BY DEF LockInv, Holders
<1>2. ASSUME NEW u \in Threads, pc'[u] = "insert" PROVE FALSE
  <2>1. u # t /\ pc[u] = "insert"
    BY <1>1, <1>2
  <2>2. u \in Holders
    BY <2>1 DEF Holders
  <2> QED
    BY <2>1, <2>2, HoldersAreOne
<1> QED
  BY <1>2

(* A step that stores and leaves.                                          *)
LEMMA RoomAfterStore ==
  ASSUME TableInv, NEW t \in Holders, NEW to, to # "insert", pc' = [pc EXCEPT ![t] = to],
         TableIsGood(global', global_alloc_size), global_alloc_size' = global_alloc_size,
         global_size' = Cardinality(Used(global')), global_size' <= Limit(global_alloc_size)
  PROVE  RoomIsLeft'
BY NobodyInserts DEF RoomIsLeft, TableInv

(* Every step leaves the table well formed and with room.                  *)
LEMMA StepKeepsRoom ==
  ASSUME TableInv, NEW t \in Threads, Step(t)
  PROVE  RoomIsLeft'
<1> USE DEF TableInv
<1>1. pc \in [Threads -> Pcs]
  BY DEF LockInv
<1>2. PICK s \in Nat : /\ s = global_alloc_size /\ global_size = Cardinality(Used(global))
                       /\ global_size \in Nat /\ global_size <= Limit(s) /\ Limit(s) \in Nat
  BY TableOf
<1>3. CASE Call(t) \/ Acquire(t) \/ BackOff(t) \/ Check(t) \/ Get(t) \/ SetFails(t) \/ Release(t)
  <2>1. \A u \in Threads : pc'[u] = "insert" => pc[u] = "insert"
    BY <1>1, <1>3 DEF Call, Acquire, BackOff, Check, Get, SetFails, Release, Leave, Goto
  <2> QED
    BY <1>3, <2>1, QuietRoom DEF Call, Acquire, BackOff, Check, Get, SetFails, Release
<1>4. CASE Mark(t)
  <2>1. pc' = [pc EXCEPT ![t] = "release"] /\ t \in Holders /\ UNCHANGED global_size
    BY <1>1, <1>4 DEF Mark, Leave, Goto, Holders
  <2>2. CASE UNCHANGED global
    <3>1. \A u \in Threads : pc'[u] = "insert" => pc[u] = "insert"
      BY <1>1, <2>1
    <3> QED
      BY <2>1, <2>2, <3>1, QuietRoom
  <2>3. CASE ~UNCHANGED global
    <3>1. /\ global_alloc_size' = global_alloc_size
          /\ TableIsGood(global', global_alloc_size) /\ Used(global') = Used(global)
      BY <1>4, <2>3, MarkStep
    <3> QED
      BY <1>2, <2>1, <3>1, RoomAfterStore
  <2> QED
    BY <2>2, <2>3
<1>5. CASE SetExpand(t)
  <2>1. UNCHANGED global_size
    BY <1>5 DEF SetExpand
  <2>2. /\ TableIsGood(global, global_alloc_size)'
        /\ Cardinality(Used(global')) = Cardinality(Used(global))
        /\ global_size < Limit(global_alloc_size)'
    BY <1>5, ExpandStep
  <2>3. PICK l : l = Limit(global_alloc_size)'
    OBVIOUS
  <2>4. l \in Nat
    <3>1. global_alloc_size' \in Nat /\ global_alloc_size' >= 2
      BY <2>2 DEF TableIsGood, IsTable
    <3> QED
      BY <2>3, <3>1, LimitLeavesRoom
  <2>5. global_size' < l /\ global_size' <= l
    BY <1>2, <2>1, <2>2, <2>3, <2>4
  <2> QED
    BY <1>2, <2>1, <2>2, <2>3, <2>5 DEF RoomIsLeft
<1>6. CASE SetInsert(t)
  <2>1. pc' = [pc EXCEPT ![t] = "release"] /\ pc[t] = "insert" /\ t \in Holders
    BY <1>1, <1>6 DEF SetInsert, Leave, Goto, Holders
  <2>2. global_size < Limit(s)
    BY <1>2, <2>1 DEF RoomIsLeft
  <2>3. CASE UNCHANGED <<global, global_size>>
    <3>1. \A u \in Threads : pc'[u] = "insert" => pc[u] = "insert"
      BY <1>1, <2>1
    <3> QED
      BY <2>3, <3>1, QuietRoom
  <2>4. CASE ~UNCHANGED <<global, global_size>>
    <3>1. /\ global_size' = global_size + 1 /\ global_alloc_size' = global_alloc_size
          /\ TableIsGood(global', global_alloc_size)
          /\ Cardinality(Used(global')) = Cardinality(Used(global)) + 1
      BY <1>6, <2>4, InsertStep
    <3>2. global_size' = Cardinality(Used(global')) /\ global_size' <= Limit(s)
      BY <1>2, <2>2, <3>1
    <3> QED
      BY <1>2, <2>1, <3>1, <3>2, RoomAfterStore
  <2> QED
    BY <2>3, <2>4
<1>7. CASE SetOverwrite(t)
  <2>1. pc' = [pc EXCEPT ![t] = "release"] /\ pc[t] = "insert" /\ t \in Holders
    BY <1>1, <1>7 DEF SetOverwrite, Leave, Goto, Holders
  <2>2. CASE UNCHANGED <<global, global_size>>
    <3>1. \A u \in Threads : pc'[u] = "insert" => pc[u] = "insert"
      BY <1>1, <2>1
    <3> QED
      BY <2>2, <3>1, QuietRoom
  <2>3. CASE ~UNCHANGED <<global, global_size>>
    <3>1. /\ UNCHANGED global_size /\ global_alloc_size' = global_alloc_size
          /\ TableIsGood(global', global_alloc_size) /\ Used(global') = Used(global)
      BY <1>7, <2>3, OverwriteStep
    <3> QED
      BY <1>2, <2>1, <3>1, RoomAfterStore
  <2> QED
    BY <2>2, <2>3
<1> QED
  BY <1>3, <1>4, <1>5, <1>6, <1>7 DEF Step

(* Every step keeps calls and answers with the control points.             *)
LEMMA StepKeepsCalls ==
  ASSUME TableInv, NEW t \in Threads, Step(t)
  PROVE  CallsMatch'
<1> USE DEF TableInv
<1>1. /\ pc \in [Threads -> Pcs] /\ call \in [Threads -> Calls \cup {NoCall}]
      /\ reply \in [Threads -> Replies] /\ CallMatches(t) /\ NoCall \notin Calls
  BY DEF LockInv, CallsMatch, Calls, NoCall
<1>2. call = [call EXCEPT ![t] = call[t]] /\ reply = [reply EXCEPT ![t] = reply[t]]
  BY <1>1
<1>3. CASE Call(t)
  <2>1. PICK c \in Calls : call' = [call EXCEPT ![t] = c]
    BY <1>3 DEF Call
  <2> QED
    BY <1>1, <1>3, <2>1, CallStep DEF Call, Goto, Pcs, Replies
<1>4. ASSUME NEW to \in {"inside", "insert", "acquire", "back_off"}, pc' = [pc EXCEPT ![t] = to],
             pc[t] \in {"acquire", "back_off", "inside"}, UNCHANGED <<call, reply>>,
             to = "insert" => call[t].op = "set"
      PROVE  CallsMatch'
  <2>1. call[t] \in Calls /\ call[t] # NoCall /\ reply[t] = "pending" /\ to \in Pcs /\ to # "idle"
    BY <1>1, <1>4 DEF CallMatches, Pcs
  <2> QED
    BY <1>2, <1>4, <2>1, CallStep DEF Replies
<1>5. CASE Acquire(t) \/ BackOff(t) \/ SetExpand(t)
  BY <1>4, <1>5 DEF Acquire, BackOff, SetExpand, Goto
<1>6. ASSUME NEW op, NEW from \in {"inside", "insert"}, NEW r \in Replies \ {"pending"},
             Leave(t, op, from, r)
      PROVE  CallsMatch'
  <2>1. call[t] \in Calls /\ call[t] # NoCall
    BY <1>1, <1>6 DEF CallMatches, Leave, Goto
  <2> QED
    BY <1>2, <1>6, <2>1, CallStep DEF Leave, Goto, Pcs
<1>7. CASE Check(t)
  BY <1>6, <1>7 DEF Check, Replies
<1>8. CASE Get(t)
  <2> DEFINE n == call[t].name
             r == IF IsFound(global, n) THEN global[SlotOf(global, n)].val ELSE "not found"
  <2>1. n \in Names
    BY <1>8, CallFacts DEF Get, Leave, Goto
  <2>2. PICK s \in Nat : TableIsGood(global, s)
    BY TableOf
  <2>3. r \in Replies \ {"pending"}
    BY <2>1, <2>2, SearchAndView, GlobalTableAssumption DEF Replies
  <2>4. Leave(t, "get", "inside", r)
    BY <1>8 DEF Get
  <2> QED
    BY <1>6, <2>3, <2>4
<1>9. CASE Mark(t) \/ SetFails(t) \/ SetInsert(t) \/ SetOverwrite(t)
  <2>1. /\ "not found" \in Replies \ {"pending"} /\ "ok" \in Replies \ {"pending"}
        /\ "constant" \in Replies \ {"pending"} /\ "out of memory" \in Replies \ {"pending"}
    BY DEF Replies
  <2> QED
    BY <1>6, <1>9, <2>1 DEF Mark, SetFails, SetInsert, SetOverwrite
<1>10. CASE Release(t)
  BY <1>1, <1>10, CallStep DEF Release, Goto, Pcs, Replies
<1> QED
  BY <1>3, <1>5, <1>7, <1>8, <1>9, <1>10 DEF Step

(* rt_init_global makes a table that is well formed.                       *)
LEMMA InitTable == Init => TableInv
<1> SUFFICES ASSUME Init PROVE TableInv
  OBVIOUS
<1>1. LockInv
  BY InitLock
<1>2. CallsMatch
  BY DEF Init, CallsMatch, CallMatches, Replies
<1>3. TableIsGood(global, StartSize) /\ Used(global) = {}
  BY NewTableIsGood, GlobalTableAssumption DEF Init
<1>4. global_alloc_size = StartSize
  BY <1>3, TableFacts DEF global_alloc_size, TableIsGood
<1>5. Limit(StartSize) \in Nat
  BY LimitLeavesRoom, GlobalTableAssumption
<1>6. global_size = 0 /\ Cardinality(Used(global)) = 0 /\ \A t \in Threads : pc[t] # "insert"
  BY <1>3, FS_EmptySet DEF Init
<1> QED
  BY <1>1, <1>2, <1>3, <1>4, <1>5, <1>6 DEF TableInv, RoomIsLeft

(* The lock keeps every thread but one off the table, each call and its    *)
(* answer are where the control point says, and the table is well formed   *)
(* and has room left.                                                      *)
THEOREM Invariance == Spec => []TableInv
<1>1. TableInv /\ [Next]_vars => TableInv'
  <2> SUFFICES ASSUME TableInv, [Next]_vars PROVE TableInv'
    OBVIOUS
  <2>1. LockInv'
    BY StepKeepsLock DEF TableInv
  <2>2. CASE Next
    BY <2>1, <2>2, StepKeepsRoom, StepKeepsCalls DEF Next, TableInv
  <2>3. CASE UNCHANGED vars
    BY <2>1, <2>3 DEF vars, TableInv, RoomIsLeft, CallsMatch, CallMatches, global_alloc_size
  <2> QED
    BY <2>2, <2>3
<1> QED
  BY <1>1, InitTable, PTL DEF Spec

(* Every search ends: a name is in one slot, which the search for it       *)
(* reaches, and an insertion finds a gap, after any growth and with any    *)
(* collisions ("NEVER_COME_HERE" in rt_set_global).                        *)
THEOREM ProbesStayUnbroken == Spec => []ProbesAreUnbroken
<1>1. TableInv => ProbesAreUnbroken
  <2> SUFFICES ASSUME TableInv PROVE ProbesAreUnbroken
    OBVIOUS
  <2>1. PICK s \in Nat : /\ s = global_alloc_size /\ s >= 2 /\ TableIsGood(global, s)
                         /\ IsTable(global, s) /\ DOMAIN global = 0 .. s - 1
                         /\ global_size = Cardinality(Used(global)) /\ global_size \in Nat
                         /\ global_size <= Limit(s) /\ Limit(s) \in Nat /\ Limit(s) <= s - 1
    BY TableOf DEF TableInv
  <2>2. Used(global) = {i \in DOMAIN global : global[i].name # Undefined}
    BY DEF Used, IsGap
  <2>3. ASSUME NEW i \in DOMAIN global, NEW j \in DOMAIN global, global[i].name = global[j].name
        PROVE  i = j \/ global[i].name = Undefined
    BY <2>1, <2>3, SearchIsRight DEF IsTable, Entries
  <2>4. ASSUME NEW n \in Names, \E i \in DOMAIN global : global[i].name = n
        PROVE  IsFound(global, n)
    BY <2>1, <2>4, SearchIsRight DEF Has
  <2>5. ASSUME NEW t \in Threads, pc[t] = "insert" PROVE Stops(global, call[t].name) # {}
    <3>1. call[t].name \in Names
      BY <2>5, CallFacts DEF TableInv
    <3>2. Cardinality(Used(global)) < s - 1
      BY <2>1, <2>5 DEF TableInv, RoomIsLeft
    <3> QED
      BY <2>1, <3>1, <3>2, GapExists
  <2> QED
    BY <2>1, <2>2, <2>3, <2>4, <2>5 DEF ProbesAreUnbroken
<1> QED
  BY <1>1, Invariance, PTL

(* Every variable has its type; there are never more threads in the        *)
(* counter than there are, nor more names than slots.                      *)
THEOREM TypeCorrect == Spec => []TypeOK
<1>1. TableInv => TypeOK
  <2> SUFFICES ASSUME TableInv PROVE TypeOK
    OBVIOUS
  <2>1. PICK s \in Nat : /\ s = global_alloc_size /\ s >= 2 /\ IsTable(global, s)
                         /\ DOMAIN global = 0 .. s - 1
                         /\ global_size \in Nat /\ global_size <= Limit(s)
                         /\ Limit(s) \in Nat /\ Limit(s) <= s - 1
    BY TableOf DEF TableInv
  <2>2. global_size \in 0 .. s
    BY <2>1
  <2>3. global \in [0 .. s - 1 -> [name : Names \cup {Undefined}, val : Values \cup {Undefined},
                                   const : BOOLEAN]]
    BY <2>1 DEF IsTable, Entries
  <2>4. global_var_counter \in 0 .. Cardinality(Threads)
    <3>1. Holders \cap BackingOff = {} /\ Holders \cup BackingOff \in SUBSET Threads
      BY DEF Holders, BackingOff
    <3>2. Cardinality(Holders \cup BackingOff) = Cardinality(Holders) + Cardinality(BackingOff)
      <4>1. Cardinality(Holders \cap BackingOff) = 0
        BY <3>1, FS_EmptySet
      <4>2. Cardinality(Holders \cup BackingOff)
              = Cardinality(Holders) + Cardinality(BackingOff) - Cardinality(Holders \cap BackingOff)
        BY CountsAreFinite, FS_Union
      <4> QED
        BY <4>1, <4>2, CountsAreFinite
    <3>3. /\ Cardinality(Holders \cup BackingOff) <= Cardinality(Threads)
          /\ Cardinality(Threads) \in Nat
      BY <3>1, GlobalTableAssumption, FS_Subset, FS_CardinalityType
    <3> QED
      BY <3>2, <3>3, CountsAreFinite DEF TableInv, LockInv, OneHolder
  <2> QED
    BY <2>1, <2>2, <2>3, <2>4 DEF TypeOK, TableInv, LockInv, CallsMatch
<1> QED
  BY <1>1, Invariance, PTL

-----------------------------------------------------------------------------
(* Every call takes effect at once.                                        *)

LEMMA InitRefines == Init => Map!Init
<1> SUFFICES ASSUME Init PROVE Map!Init
  OBVIOUS
<1>1. \A n \in Names : ~Has(global, n)
  BY NewTableIsGood, GlobalTableAssumption DEF Init
<1>2. \A n \in Names : View(global)[n] = Nothing
  BY <1>1, ViewOfNone
<1>3. globals = View(global) /\ globals = [n \in Names |-> View(global)[n]]
  BY DEF globals, View
<1> QED
  BY <1>2, <1>3 DEF Init, Map!Init, Map!Absent, Nothing, NoCall, Map!NoCall

(* Each step is a step of the map, or changes neither map nor calls.       *)
LEMMA StepRefines ==
  ASSUME TableInv, TableInv', NEW t \in Threads, Step(t)
  PROVE  Map!Next \/ UNCHANGED <<globals, call, reply>>
<1> USE DEF TableInv
<1>1. globals = View(global) /\ globals' = View(global')
  BY DEF globals, View
<1>2. /\ pc \in [Threads -> Pcs] /\ CallMatches(t) /\ reply \in [Threads -> Replies]
      /\ Calls = Map!Calls /\ NoCall = Map!NoCall
  BY DEF LockInv, CallsMatch, Calls, NoCall, Map!Calls, Map!NoCall
<1>3. ASSUME UNCHANGED global PROVE UNCHANGED globals
  BY <1>1, <1>3
<1>4. CASE Call(t)
  <2>1. Map!Request(t)
    BY <1>2, <1>3, <1>4 DEF Call, Goto, CallMatches, Map!Request
  <2> QED
    BY <2>1 DEF Map!Next
<1>5. CASE Acquire(t) \/ BackOff(t)
  BY <1>3, <1>5 DEF Acquire, BackOff
<1>6. CASE Release(t)
  <2>1. Map!Return(t)
    BY <1>2, <1>3, <1>6 DEF Release, Goto, CallMatches, Map!Return
  <2> QED
    BY <2>1 DEF Map!Next
<1>7. CASE SetExpand(t)
  <2>1. UNCHANGED globals
    BY <1>1, <1>7, ExpandStep
  <2> QED
    BY <1>7, <2>1 DEF SetExpand
<1>8. PICK s \in Nat : TableIsGood(global, s)
  BY TableOf
<1>9. ASSUME NEW op, NEW from \in {"inside", "insert"}, NEW r, Leave(t, op, from, r)
      PROVE  /\ call[t].name \in Names /\ call[t] # Map!NoCall /\ Map!Answer(t, op, r)
             /\ call[t].op = op
  <2>1. pc[t] = from /\ pc[t] # "idle" /\ reply[t] = "pending"
    BY <1>2, <1>9 DEF Leave, Goto, CallMatches
  <2> QED
    BY <1>2, <1>9, <2>1, CallFacts DEF Leave, Map!Answer
<1>10. ASSUME call[t] # Map!NoCall, Map!Set(t) \/ Map!Get(t) \/ Map!Check(t) \/ Map!Mark(t)
       PROVE  Map!Next
  BY <1>10 DEF Map!Next, Map!Serve
<1>11. CASE Check(t)
  <2>1. /\ call[t].name \in Names /\ call[t] # Map!NoCall /\ UNCHANGED globals
        /\ Map!Answer(t, "check", IF IsFound(global, call[t].name) THEN "yes" ELSE "no")
    BY <1>3, <1>9, <1>11 DEF Check
  <2>2. IsFound(global, call[t].name) <=> Map!Defined(call[t].name)
    <3>1. IsFound(global, call[t].name) <=> View(global)[call[t].name].val # Undefined
      BY <1>8, <2>1, SearchAndView
    <3> QED
      BY <1>1, <3>1 DEF Map!Defined
  <2>3. Map!Check(t)
    BY <2>1, <2>2 DEF Map!Check
  <2> QED
    BY <1>10, <2>1, <2>3
<1>12. CASE Get(t)
  <2> DEFINE n == call[t].name
             r == IF IsFound(global, n) THEN global[SlotOf(global, n)].val ELSE "not found"
  <2>1. n \in Names /\ call[t] # Map!NoCall /\ UNCHANGED globals /\ Map!Answer(t, "get", r)
    BY <1>3, <1>9, <1>12 DEF Get
  <2>2. r = IF Map!Defined(n) THEN globals[n].val ELSE "not found"
    <3>1. IsFound(global, n) <=> View(global)[n].val # Undefined
      BY <1>8, <2>1, SearchAndView
    <3>2. IsFound(global, n) => View(global)[n].val = global[SlotOf(global, n)].val
      BY <1>8, <2>1, SearchAndView, BoundHas
    <3> QED
      BY <1>1, <3>1, <3>2 DEF Map!Defined
  <2>3. Map!Get(t)
    BY <2>1, <2>2 DEF Map!Get
  <2> QED
    BY <1>10, <2>1, <2>3
<1>13. CASE Mark(t)
  <2> DEFINE n == call[t].name
  <2>1. PICK r : Leave(t, "mark", "inside", r)
    BY <1>13 DEF Mark
  <2>2. n \in Names /\ call[t] # Map!NoCall /\ Map!Answer(t, "mark", r) /\ reply' = [reply EXCEPT ![t] = r]
    BY <1>9, <2>1 DEF Leave
  <2>3. r = reply'[t]
    BY <1>2, <2>2
  <2>4. CASE View(global)[n].val = Undefined
    <3>1. UNCHANGED global /\ r = "not found"
      BY <1>2, <1>13, <2>3, <2>4, MarkStep
    <3>2. Map!Mark(t)
      BY <1>1, <1>3, <2>2, <2>4, <3>1 DEF Map!Mark, Map!Defined
    <3> QED
      BY <1>10, <2>2, <3>2
  <2>5. CASE View(global)[n].val # Undefined
    <3>1. r = "ok" /\ View(global') = [View(global) EXCEPT ![n].const = TRUE]
      BY <1>2, <1>13, <2>3, <2>5, MarkStep
    <3>2. Map!Mark(t)
      BY <1>1, <2>2, <2>5, <3>1 DEF Map!Mark, Map!Defined
    <3> QED
      BY <1>10, <2>2, <3>2
  <2> QED
    BY <2>4, <2>5
<1>14. CASE SetFails(t)
  <2>1. call[t] # Map!NoCall /\ Map!Answer(t, "set", "out of memory") /\ UNCHANGED globals
    BY <1>3, <1>9, <1>14 DEF SetFails
  <2>2. Map!Set(t)
    BY <2>1 DEF Map!Set
  <2> QED
    BY <1>10, <2>1, <2>2
<1>15. CASE SetInsert(t)
  <2> DEFINE n == call[t].name
  <2>1. PICK r : Leave(t, "set", "insert", r)
    BY <1>15 DEF SetInsert
  <2>2. call[t] # Map!NoCall /\ Map!Answer(t, "set", r) /\ reply' = [reply EXCEPT ![t] = r]
    BY <1>9, <2>1 DEF Leave
  <2>3. r = reply'[t]
    BY <1>2, <2>2
  <2>4. n \in Names /\ View(global)[n] = Nothing
    BY <1>15, InsertStep
  <2>5. CASE UNCHANGED global /\ r = "out of memory"
    <3>1. Map!Set(t)
      BY <1>3, <2>2, <2>5 DEF Map!Set
    <3> QED
      BY <1>10, <2>2, <3>1
  <2>6. CASE r = "ok" /\ View(global') = [View(global) EXCEPT ![n].val = call[t].val]
    <3>1. ~globals[n].const
      BY <1>1, <2>4, NothingHas
    <3>2. Map!Set(t)
      BY <1>1, <2>2, <2>6, <3>1 DEF Map!Set
    <3> QED
      BY <1>10, <2>2, <3>2
  <2> QED
    BY <1>2, <1>15, <2>3, <2>5, <2>6, InsertStep
<1>16. CASE SetOverwrite(t)
  <2> DEFINE n == call[t].name
  <2>1. PICK r : Leave(t, "set", "insert", r)
    BY <1>16 DEF SetOverwrite
  <2>2. call[t] # Map!NoCall /\ Map!Answer(t, "set", r) /\ reply' = [reply EXCEPT ![t] = r]
    BY <1>9, <2>1 DEF Leave
  <2>3. r = reply'[t]
    BY <1>2, <2>2
  <2>4. CASE View(global)[n].const /\ UNCHANGED global /\ r = "constant"
    <3>1. Map!Set(t)
      BY <1>1, <1>3, <2>2, <2>4 DEF Map!Set
    <3> QED
      BY <1>10, <2>2, <3>1
  <2>5. CASE /\ ~View(global)[n].const /\ r = "ok"
             /\ View(global') = [View(global) EXCEPT ![n].val = call[t].val]
    <3>1. Map!Set(t)
      BY <1>1, <2>2, <2>5 DEF Map!Set
    <3> QED
      BY <1>10, <2>2, <3>1
  <2> QED
    BY <1>2, <1>16, <2>3, <2>4, <2>5, OverwriteStep
<1> QED
  BY <1>4, <1>5, <1>6, <1>7, <1>11, <1>12, <1>13, <1>14, <1>15, <1>16 DEF Step

(* GlobalTable implements GlobalMap: every call takes effect at once on    *)
(* one map, whatever the table does underneath.                            *)
THEOREM Refinement == Spec => ImplementsGlobals
<1>1. TableInv /\ TableInv' /\ [Next]_vars => [Map!Next]_<<globals, call, reply>>
  <2> SUFFICES ASSUME TableInv, TableInv', [Next]_vars
               PROVE  Map!Next \/ UNCHANGED <<globals, call, reply>>
    OBVIOUS
  <2>1. CASE Next
    BY <2>1, StepRefines DEF Next
  <2>2. CASE UNCHANGED vars
    BY <2>2 DEF vars, globals
  <2> QED
    BY <2>1, <2>2
<1> QED
  BY <1>1, InitRefines, Invariance, PTL DEF Spec, ImplementsGlobals, Map!Spec

=============================================================================
