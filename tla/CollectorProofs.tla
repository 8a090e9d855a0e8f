-------------------------- MODULE CollectorProofs --------------------------
(***************************************************************************)
(* Proofs about Collector.tla: for any roots, slots, objects and sizes of  *)
(* the regions, its invariant holds, every traversal ends, and it          *)
(* implements ManagedHeap.tla.                                             *)
(*                                                                         *)
(* The argument is about homes.  The home of an object that the program    *)
(* can reach is the place of its newest generation, or of that one's copy  *)
(* while a young collection runs.  HeapInv says why the homes are there;   *)
(* LiveElements depends on nothing but the homes (NamesFacts), which are   *)
(* the least set closed under the references in them (HomesFacts).  A step *)
(* of a collection renames homes one to one, and so is not seen            *)
(* (UnseenSteps).                                                          *)
(***************************************************************************)

EXTENDS Collector, FiniteSetTheorems, WellFoundedInduction, TLAPS

-----------------------------------------------------------------------------
(* Numbers, places and lists.                                              *)

(* A set of numbers has a least one.                                       *)
LEMMA LeastExists ==
  ASSUME NEW T \in SUBSET Nat, T # {}
  PROVE  \E x \in T : \A y \in T : x <= y
<1>1. PICK x \in T : \A y \in T : ~ (<<y, x>> \in OpToRel(<, Nat))
  BY NatLessThanWellFounded, WFMin
<1>2. \A y \in T : ~ (y < x)
  BY <1>1 DEF OpToRel
<1> QED
  BY <1>2

(* What holds of 0, and of a number if of the one before it, holds up to   *)
(* any N. The library's theorem on induction takes an operator; this lemma *)
(* takes a set, and rests on a least counterexample.                       *)
LEMMA CountingUp ==
  ASSUME NEW N \in Nat, NEW T, 0 \in T, \A n \in 1 .. N : n - 1 \in T => n \in T
  PROVE  \A n \in 0 .. N : n \in T
<1> DEFINE Bad == {n \in 0 .. N : n \notin T}
<1> SUFFICES ASSUME Bad # {} PROVE FALSE
  OBVIOUS
<1>1. PICK x \in Bad : \A y \in Bad : x <= y
  <2>1. Bad \in SUBSET Nat
    OBVIOUS
  <2> HIDE DEF Bad
  <2> QED
    BY <2>1, LeastExists
<1>2. x \in 1 .. N /\ x \notin T
  OBVIOUS
<1>3. x - 1 \in 0 .. N /\ ~(x <= x - 1)
  BY <1>2
<1>4. x - 1 \in T
  BY <1>1, <1>3
<1> QED
  BY <1>2, <1>4

(* A finite set of numbers has a greatest one: otherwise some set of least *)
(* cardinality had none.                                                   *)
LEMMA GreatestExists ==
  ASSUME NEW S \in SUBSET Nat, IsFiniteSet(S), S # {}
  PROVE  \E x \in S : \A y \in S : x >= y
<1> DEFINE Bad(R) == IsFiniteSet(R) /\ R # {} /\ ~ \E x \in R : \A y \in R : x >= y
           Cards == {n \in Nat : \E R \in SUBSET Nat : Bad(R) /\ Cardinality(R) = n}
<1> SUFFICES ASSUME Bad(S) PROVE FALSE
  OBVIOUS
<1>1. Cardinality(S) \in Cards
  BY FS_CardinalityType
<1>2. PICK n \in Cards : \A m \in Cards : n <= m
  <2>1. Cards \in SUBSET Nat /\ Cards # {}
    BY <1>1
  <2> HIDE DEF Cards
  <2> QED
    BY <2>1, LeastExists
<1>3. PICK R \in SUBSET Nat : Bad(R) /\ Cardinality(R) = n
  OBVIOUS
<1>4. PICK x : x \in R
  BY <1>3
<1>5. IsFiniteSet(R \ {x}) /\ Cardinality(R \ {x}) = n - 1 /\ n \in Nat
  BY <1>3, <1>4, FS_RemoveElement, FS_CardinalityType
<1>6. R \ {x} # {}
  BY <1>3, <1>4
<1>7. n - 1 \notin Cards
  BY <1>2, <1>5
<1>8. ~ Bad(R \ {x})
  <2>1. n - 1 \in Nat
    BY <1>5, FS_CardinalityType
  <2> QED
    BY <1>5, <1>7, <2>1
<1>9. PICK y \in R \ {x} : \A z \in R \ {x} : y >= z
  BY <1>5, <1>6, <1>8
<1>10. \A z \in R : (IF x >= y THEN x ELSE y) >= z
  BY <1>3, <1>4, <1>9
<1> QED
  BY <1>3, <1>4, <1>9, <1>10

(* The places of a region are numbered from 1 on.                          *)
LEMMA RegionsAreNumbered ==
  ASSUME NEW region \in Regions
  PROVE  \E n \in Nat : /\ Region(region) = {region} \X (1 .. n)
                        /\ \A c \in Configs : c[region] <= n
<1> DEFINE S == {c[region] : c \in Configs}
<1>1. IsFiniteSet(S)
  <2>1. PICK f : f = [c \in Configs |-> c[region]]
    OBVIOUS
  <2>2. f \in Surjection(Configs, S)
    BY <2>1 DEF Surjection
  <2> HIDE DEF S
  <2> QED
    BY <2>2, CollectorAssumption, FS_Surjection
<1>2. S \in SUBSET Nat /\ S # {}
  BY CollectorAssumption
<1>3. \E x \in S : \A y \in S : x >= y
  <2> HIDE DEF S
  <2> QED
    BY <1>1, <1>2, GreatestExists
<1>4. Max(S) \in S /\ \A y \in S : Max(S) >= y
  <2> HIDE DEF S
  <2> QED
    BY <1>3 DEF Max
<1> QED
  BY <1>2, <1>4 DEF Region

(* The regions are disjoint, and a place knows its own.                    *)
LEMMA PlacesAreApart ==
  /\ \A p \in Nursery : p = <<"nursery", p[2]>>
  /\ \A p \in Half[0] : p = <<"graduate0", p[2]>>
  /\ \A p \in Half[1] : p = <<"graduate1", p[2]>>
  /\ \A p \in Tenure : p = <<"tenure", p[2]>>
  /\ \A p \in Places : p[2] \in Nat \ {0}
  /\ Places = Nursery \cup Half[0] \cup Half[1] \cup Tenure
  /\ Young = Nursery \cup Half[0] \cup Half[1]
<1> DEFINE R == Regions
<1>1. \A region \in R : \A p \in Region(region) : p = <<region, p[2]>> /\ p[2] \in Nat \ {0}
  <2> SUFFICES ASSUME NEW region \in Regions, NEW p \in Region(region)
               PROVE  p = <<region, p[2]>> /\ p[2] \in Nat \ {0}
    OBVIOUS
  <2>1. PICK n \in Nat : Region(region) = {region} \X (1 .. n)
    BY RegionsAreNumbered
  <2> QED
    BY <2>1
<1>2. Half[0] = Region("graduate0") /\ Half[1] = Region("graduate1")
  BY DEF Half
<1> QED
  BY <1>1, <1>2 DEF Regions, Nursery, Tenure, Places, Young

(* So there are finitely many places.                                      *)
LEMMA PlacesAreFinite == IsFiniteSet(Places)
<1>1. \A region \in Regions : IsFiniteSet(Region(region))
  <2> SUFFICES ASSUME NEW region \in Regions PROVE IsFiniteSet(Region(region))
    OBVIOUS
  <2>1. PICK n \in Nat : Region(region) = {region} \X (1 .. n)
    BY RegionsAreNumbered
  <2>2. IsFiniteSet({region}) /\ IsFiniteSet(1 .. n)
    <3>1. 1 \in Int /\ n \in Int
      OBVIOUS
    <3> QED
      BY <3>1, FS_Singleton, FS_Interval
  <2> QED
    BY <2>1, <2>2, FS_Product
<1>2. IsFiniteSet(Nursery) /\ IsFiniteSet(Half[0]) /\ IsFiniteSet(Half[1]) /\ IsFiniteSet(Tenure)
  BY <1>1 DEF Half, Regions, Nursery, Tenure
<1>3. IsFiniteSet(Young)
  BY <1>2, FS_Union DEF Young
<1> QED
  BY <1>2, <1>3, FS_Union DEF Places

(* SetToSeq lists every element of a finite set.                           *)
LEMMA SetToSeqListsAll ==
  ASSUME NEW S, IsFiniteSet(S)
  PROVE  /\ SetToSeq(S) \in Seq(S)
         /\ \A x \in S : \E i \in DOMAIN SetToSeq(S) : SetToSeq(S)[i] = x
<1> DEFINE N == Cardinality(S)
<1>1. N \in Nat /\ ExistsBijection(1 .. N, S)
  BY FS_CardinalityType
<1>2. PICK f \in [1 .. N -> S] : IsInjective(f)
  <2>1. PICK f : f \in Bijection(1 .. N, S)
    BY <1>1 DEF ExistsBijection
  <2> QED
    BY <2>1 DEF Bijection, Injection, IsInjective
<1>3. SetToSeq(S) \in [1 .. N -> S] /\ IsInjective(SetToSeq(S))
  BY <1>2 DEF SetToSeq
<1>4. SetToSeq(S) \in Injection(1 .. N, S)
  BY <1>3 DEF Injection, IsInjective
<1>5. Cardinality(1 .. N) = N
  BY <1>1, FS_Interval
<1>6. SetToSeq(S) \in Surjection(1 .. N, S)
  BY <1>4, <1>5, FS_Injection
<1>7. SetToSeq(S) \in Seq(S)
  BY <1>1, <1>3
<1> QED
  BY <1>3, <1>6, <1>7 DEF Surjection

-----------------------------------------------------------------------------
(* What ReachableFrom computes for a finite graph: the least set of nodes  *)
(* that contains from and that no edge leaves.                             *)

(* No edge leaves X.                                                       *)
Closed(X, edges) == \A e \in edges : e[1] \in X => e[2] \in X

(* ReachableFrom computes the least set that holds from and that no edge   *)
(* leaves.                                                                 *)
LEMMA ReachableIsLeast ==
  ASSUME NEW from, NEW edges, NEW all, IsFiniteSet(all),
         from \subseteq all, \A e \in edges : e[2] \in all
  PROVE  /\ from \subseteq ReachableFrom(from, edges)
         /\ Closed(ReachableFrom(from, edges), edges)
         /\ \A X : from \subseteq X /\ Closed(X, edges) => ReachableFrom(from, edges) \subseteq X
<1> DEFINE nodes   == from \cup {e[2] : e \in edges}
           Rec(f)  == [reached \in SUBSET nodes |->
                         LET further == Successors(reached, edges) \ reached
                         IN IF further = {} THEN reached ELSE f[reached \cup further]]
           closure == CHOOSE f : f = Rec(f)
           Least(A) == {n \in nodes : \A X \in SUBSET nodes : A \subseteq X /\ Closed(X, edges) => n \in X}
<1>1. IsFiniteSet(nodes)
  <2>1. nodes \subseteq all
    OBVIOUS
  <2> HIDE DEF nodes
  <2> QED
    BY <2>1, FS_Subset
<1>2. \A A \in SUBSET nodes :
        /\ Successors(A, edges) \in SUBSET nodes
        /\ Successors(A, edges) \subseteq A <=> Closed(A, edges)
  BY DEF Successors, Closed
<1>3. \E f : f = Rec(f)
  <2>1. PICK f : f = [A \in SUBSET nodes |-> Least(A)]
    OBVIOUS
  <2>2. ASSUME NEW A \in SUBSET nodes, NEW B, B = Successors(A, edges) \ A
        PROVE  f[A] = IF B = {} THEN A ELSE f[A \cup B]
    <3>1. B \in SUBSET nodes /\ A \cup B \in SUBSET nodes
      BY <1>2, <2>2
    <3>2. CASE B = {}
      <4>1. Closed(A, edges)
        BY <1>2, <2>2, <3>2
      <4>2. Least(A) = A
        BY <4>1
      <4> QED
        BY <2>1, <3>2, <4>2
    <3>3. CASE B # {}
      <4>1. \A X \in SUBSET nodes : A \subseteq X /\ Closed(X, edges) => B \subseteq X
        BY <2>2 DEF Closed, Successors
      <4>2. Least(A) = Least(A \cup B)
        BY <4>1
      <4> HIDE DEF Least, nodes
      <4> QED
        BY <2>1, <3>1, <3>3, <4>2
    <3> QED
      BY <3>2, <3>3
  <2>3. f = Rec(f)
    <3>1. \A A \in SUBSET nodes : f[A] = Rec(f)[A]
      BY <2>2
    <3>2. f = [A \in SUBSET nodes |-> f[A]] /\ Rec(f) = [A \in SUBSET nodes |-> Rec(f)[A]]
      BY <2>1
    <3> HIDE DEF Rec, nodes
    <3> QED
      BY <3>1, <3>2
  <2> QED
    BY <2>3
<1>4. closure = Rec(closure)
  BY <1>3
<1>5. ReachableFrom(from, edges) = closure[from]
  BY DEF ReachableFrom
<1>6. PICK f : f = closure
  OBVIOUS
<1>7. \A A \in SUBSET nodes :
        f[A] = IF Successors(A, edges) \subseteq A THEN A ELSE f[A \cup (Successors(A, edges) \ A)]
  <2>1. f = Rec(f)
    <3> HIDE DEF closure, Rec
    <3> QED
      BY <1>4, <1>6
  <2>2. SUFFICES ASSUME NEW A \in SUBSET nodes
                 PROVE  f[A] = IF Successors(A, edges) \subseteq A THEN A
                               ELSE f[A \cup (Successors(A, edges) \ A)]
    OBVIOUS
  <2>3. Rec(f)[A] = IF Successors(A, edges) \ A = {} THEN A
                    ELSE f[A \cup (Successors(A, edges) \ A)]
    <3> HIDE DEF nodes, closure
    <3> QED
      BY DEF Rec
  <2> HIDE DEF nodes, Rec, closure
  <2> QED
    BY <2>1, <2>3
<1> DEFINE Good(A) == /\ A \subseteq f[A] /\ Closed(f[A], edges)
                      /\ \A X : A \subseteq X /\ Closed(X, edges) => f[A] \subseteq X
           Bad == {n \in Nat : \E A \in SUBSET nodes : ~Good(A) /\ Cardinality(nodes \ A) = n}
<1>8. \A A \in SUBSET nodes : Good(A)
  <2> SUFFICES ASSUME NEW A0 \in SUBSET nodes, ~Good(A0) PROVE FALSE
    OBVIOUS
  <2>1. \A A \in SUBSET nodes : IsFiniteSet(nodes \ A) /\ Cardinality(nodes \ A) \in Nat
    <3> SUFFICES ASSUME NEW A \in SUBSET nodes
                 PROVE  IsFiniteSet(nodes \ A) /\ Cardinality(nodes \ A) \in Nat
      OBVIOUS
    <3> HIDE DEF nodes
    <3>1. IsFiniteSet(nodes \ A)
      BY <1>1, FS_Difference
    <3> QED
      BY <3>1, FS_CardinalityType
  <2>2. Cardinality(nodes \ A0) \in Bad
    BY <2>1
  <2>3. PICK n \in Bad : \A m \in Bad : n <= m
    <3>1. Bad \in SUBSET Nat /\ Bad # {}
      BY <2>2
    <3> HIDE DEF Bad
    <3> QED
      BY <3>1, LeastExists
  <2>4. PICK A \in SUBSET nodes : ~Good(A) /\ Cardinality(nodes \ A) = n
    BY <2>3
  <2>5. CASE Successors(A, edges) \subseteq A
    <3>1. f[A] = A /\ Closed(A, edges)
      BY <1>2, <1>7, <2>5
    <3>2. Good(A)
      BY <3>1
    <3> QED
      BY <2>4, <3>2
  <2>6. CASE ~(Successors(A, edges) \subseteq A)
    <3>1. PICK B : B = A \cup (Successors(A, edges) \ A)
      OBVIOUS
    <3>2. B \in SUBSET nodes /\ f[A] = f[B]
      BY <1>2, <1>7, <2>6, <3>1
    <3>3. PICK x \in B : x \notin A /\ x \in nodes
      BY <2>6, <3>1, <3>2
    <3>4. (nodes \ B) \subseteq (nodes \ A) \ {x}
      BY <3>1, <3>3
    <3>5. Cardinality((nodes \ A) \ {x}) = n - 1 /\ IsFiniteSet((nodes \ A) \ {x})
      BY <2>1, <2>4, <3>3, FS_RemoveElement
    <3>6. Cardinality(nodes \ B) <= n - 1
      BY <3>4, <3>5, FS_Subset
    <3>7. Cardinality(nodes \ B) \in Nat /\ n \in Nat
      BY <2>1, <3>2
    <3>8. Good(B)
      <4>1. Cardinality(nodes \ B) \notin Bad
        BY <2>3, <3>6, <3>7
      <4> HIDE DEF Good, nodes
      <4> QED
        BY <3>2, <3>7, <4>1
    <3>9. \A X : A \subseteq X /\ Closed(X, edges) => B \subseteq X
      BY <3>1 DEF Closed, Successors
    <3>10. Good(A)
      <4>1. A \subseteq B
        BY <3>1
      <4> HIDE DEF nodes
      <4> QED
        BY <3>2, <3>8, <3>9, <4>1
    <3> QED
      BY <2>4, <3>10
  <2> QED
    BY <2>5, <2>6
<1>9. from \in SUBSET nodes
  OBVIOUS
<1>10. f[from] = ReachableFrom(from, edges)
  <2> HIDE DEF closure
  <2> QED
    BY <1>5, <1>6
<1> HIDE DEF nodes, closure, Bad
<1> QED
  BY <1>8, <1>9, <1>10

-----------------------------------------------------------------------------
(* Newest.  Every heap h has a function like it, and one only, if chains   *)
(* of generations go down in some ranking of the places.                   *)

(* What a heap maps places to.                                             *)
Heaps == [Places -> Object \cup {Null}]

(* Nothing supersedes what is at p.                                        *)
IsLast(h, p) == h[p] = Null \/ h[p].newer = Null

(* Chains of generations go down in some ranking of the places.            *)
Ranked(h) ==
  \E N \in Nat : \E r \in [Places -> 0 .. N] :
    \A p \in Places : ~IsLast(h, p) => r[h[p].newer] < r[p]

(* f leads from each place to the end of its chain.                        *)
Follows(h, f) ==
  /\ f \in [Places -> Places]
  /\ \A p \in Places : f[p] = IF IsLast(h, p) THEN p ELSE f[h[p].newer]

(* What supersedes an object is at a place.                                *)
LEMMA NewerIsPlace ==
  ASSUME NEW h \in Heaps, NEW p \in Places, ~IsLast(h, p)
  PROVE  h[p].newer \in Places
BY DEF Heaps, IsLast, Object, Refs

(* Along a ranking, the recursive definition of Newest has a solution.     *)
LEMMA FollowsExists ==
  ASSUME NEW h \in Heaps, Ranked(h)
  PROVE  Follows(h, CHOOSE f : f = [p \in Places |-> IF h[p] = Null \/ h[p].newer = Null
                                                     THEN p ELSE f[h[p].newer]])
<1> DEFINE Rec(f)  == [p \in Places |-> IF h[p] = Null \/ h[p].newer = Null
                                        THEN p ELSE f[h[p].newer]]
           newest  == CHOOSE f : f = Rec(f)
<1>0. PICK N \in Nat : \E r \in [Places -> 0 .. N] :
        \A p \in Places : ~IsLast(h, p) => r[h[p].newer] < r[p]
  BY DEF Ranked
<1>1. PICK r \in [Places -> 0 .. N] : \A p \in Places : ~IsLast(h, p) => r[h[p].newer] < r[p]
  BY <1>0
<1> DEFINE Upto(n, f) == \A p \in Places :
                           r[p] < n => f[p] = IF IsLast(h, p) THEN p ELSE f[h[p].newer]
           T == {n \in Nat : \E f \in [Places -> Places] : Upto(n, f)}
<1>2. 0 \in T
  <2>1. [p \in Places |-> p] \in [Places -> Places]
    OBVIOUS
  <2>2. \A p \in Places : ~(r[p] < 0)
    OBVIOUS
  <2> QED
    BY <2>1, <2>2
<1>3. ASSUME NEW n \in 1 .. N + 1, n - 1 \in T PROVE n \in T
  <2>1. PICK f \in [Places -> Places] : Upto(n - 1, f)
    BY <1>3
  <2>2. PICK g : g = [p \in Places |-> IF r[p] < n - 1 THEN f[p]
                                       ELSE IF IsLast(h, p) THEN p ELSE f[h[p].newer]]
    OBVIOUS
  <2>3. \A p \in Places : ~IsLast(h, p) => h[p].newer \in Places
    BY NewerIsPlace
  <2>4. g \in [Places -> Places]
    BY <2>1, <2>2, <2>3
  <2>5. ASSUME NEW p \in Places, r[p] < n
        PROVE  g[p] = IF IsLast(h, p) THEN p ELSE g[h[p].newer]
    <3>1. CASE IsLast(h, p)
      BY <2>1, <2>2, <3>1
    <3>2. CASE ~IsLast(h, p)
      <4>1. h[p].newer \in Places /\ r[h[p].newer] < r[p]
        BY <1>1, <2>3, <3>2
      <4>2. r[p] \in Nat /\ r[h[p].newer] \in Nat /\ n \in Nat
        BY <1>1, <4>1
      <4>3. g[h[p].newer] = f[h[p].newer]
        BY <2>2, <2>5, <4>1, <4>2
      <4>4. g[p] = f[h[p].newer]
        BY <2>1, <2>2, <3>2
      <4> QED
        BY <3>2, <4>3, <4>4
    <3> QED
      BY <3>1, <3>2
  <2> QED
    BY <2>4, <2>5
<1>4. N + 1 \in T
  <2> HIDE DEF T
  <2>1. N + 1 \in Nat /\ \A n \in 1 .. N + 1 : n - 1 \in T => n \in T
    BY <1>3
  <2>2. \A n \in 0 .. N + 1 : n \in T
    BY <1>2, <2>1, CountingUp
  <2> QED
    BY <2>1, <2>2
<1>5. PICK f \in [Places -> Places] : Upto(N + 1, f)
  BY <1>4
<1>6. \A p \in Places : r[p] < N + 1
  BY <1>1
<1>7. \A p \in Places : f[p] = Rec(f)[p]
  BY <1>5, <1>6 DEF IsLast
<1>8. f = Rec(f)
  <2>1. f = [p \in Places |-> f[p]] /\ Rec(f) = [p \in Places |-> Rec(f)[p]]
    BY <1>5
  <2> HIDE DEF Rec
  <2> QED
    BY <1>7, <2>1
<1>9. newest = Rec(newest)
  BY <1>8
<1>10. PICK g : g = newest
  OBVIOUS
<1>11. g = Rec(g)
  <2> HIDE DEF newest, Rec
  <2> QED
    BY <1>9, <1>10
<1>12. \A p \in Places : g[p] = IF IsLast(h, p) THEN p ELSE g[h[p].newer]
  <2>1. \A p \in Places : Rec(g)[p] = IF IsLast(h, p) THEN p ELSE g[h[p].newer]
    BY DEF IsLast
  <2> HIDE DEF Rec, newest
  <2> QED
    BY <1>11, <2>1
<1>13. \A n \in 0 .. N + 1 : n \in {i \in Nat : \A p \in Places : r[p] < i => g[p] \in Places}
  <2> DEFINE U == {i \in Nat : \A p \in Places : r[p] < i => g[p] \in Places}
  <2>1. 0 \in U
    BY <1>1
  <2>2. ASSUME NEW n \in 1 .. N + 1, n - 1 \in U PROVE n \in U
    <3>1. ASSUME NEW p \in Places, r[p] < n PROVE g[p] \in Places
      <4>1. CASE IsLast(h, p)
        BY <1>12, <4>1
      <4>2. CASE ~IsLast(h, p)
        <5>1. h[p].newer \in Places /\ r[h[p].newer] < r[p]
          BY <1>1, <4>2, NewerIsPlace
        <5>2. r[p] \in Nat /\ r[h[p].newer] \in Nat
          BY <1>1, <5>1
        <5>3. r[h[p].newer] < n - 1
          BY <3>1, <5>1, <5>2
        <5>4. g[h[p].newer] \in Places
          BY <2>2, <5>1, <5>3
        <5> QED
          BY <1>12, <4>2, <5>4
      <4> QED
        BY <4>1, <4>2
    <3> QED
      BY <3>1
  <2>3. N + 1 \in Nat
    OBVIOUS
  <2> HIDE DEF U
  <2>4. \A n \in 1 .. N + 1 : n - 1 \in U => n \in U
    BY <2>2
  <2>5. \A n \in 0 .. N + 1 : n \in U
    BY <2>1, <2>3, <2>4, CountingUp
  <2> QED
    BY <2>5 DEF U
<1>14. \A p \in Places : g[p] \in Places
  BY <1>6, <1>13
<1>15. g \in [Places -> Places]
  <2>1. g = [p \in Places |-> g[p]]
    <3>1. Rec(g) = [p \in Places |-> Rec(g)[p]]
      OBVIOUS
    <3> HIDE DEF Rec, newest
    <3> QED
      BY <1>11, <3>1
  <2> HIDE DEF newest
  <2> QED
    BY <1>14, <2>1
<1>16. Follows(h, g)
  <2> HIDE DEF newest
  <2> QED
    BY <1>12, <1>15 DEF Follows
<1> QED
  BY <1>10, <1>16

(* Two chains that go the same way end at the same place, up to renaming.  *)
LEMMA FollowsMoves ==
  ASSUME NEW h \in Heaps, Ranked(h), NEW f, Follows(h, f),
         NEW k, NEW g, Follows(k, g),
         NEW S \in SUBSET Places, NEW m \in [S -> Places],
         \A p \in S : IF IsLast(h, p) THEN IsLast(k, m[p])
                      ELSE /\ ~IsLast(k, m[p]) /\ h[p].newer \in S
                           /\ k[m[p]].newer = m[h[p].newer]
  PROVE  \A p \in S : f[p] \in S /\ g[m[p]] = m[f[p]]
<1>0. PICK N \in Nat : \E r \in [Places -> 0 .. N] :
        \A p \in Places : ~IsLast(h, p) => r[h[p].newer] < r[p]
  BY DEF Ranked
<1>1. PICK r \in [Places -> 0 .. N] : \A p \in Places : ~IsLast(h, p) => r[h[p].newer] < r[p]
  BY <1>0
<1> DEFINE T == {n \in Nat : \A p \in S : r[p] < n => f[p] \in S /\ g[m[p]] = m[f[p]]}
<1>2. 0 \in T
  BY <1>1
<1>3. ASSUME NEW n \in 1 .. N + 1, n - 1 \in T PROVE n \in T
  <2>1. ASSUME NEW p \in S, r[p] < n PROVE f[p] \in S /\ g[m[p]] = m[f[p]]
    <3>1. CASE IsLast(h, p)
      BY <3>1 DEF Follows
    <3>2. CASE ~IsLast(h, p)
      <4> DEFINE q == h[p].newer
      <4>1. q \in S /\ r[q] < r[p]
        BY <1>1, <3>2
      <4>2. r[p] \in Nat /\ r[q] \in Nat
        BY <1>1, <4>1
      <4>3. r[q] < n - 1
        BY <2>1, <4>1, <4>2
      <4>4. f[q] \in S /\ g[m[q]] = m[f[q]]
        BY <1>3, <4>1, <4>3
      <4>5. f[p] = f[q]
        BY <3>2 DEF Follows
      <4>6. g[m[p]] = g[m[q]]
        BY <3>2 DEF Follows
      <4> QED
        BY <4>4, <4>5, <4>6
    <3> QED
      BY <3>1, <3>2
  <2> QED
    BY <2>1
<1>4. N + 1 \in Nat /\ \A n \in 1 .. N + 1 : n - 1 \in T => n \in T
  <2> HIDE DEF T
  <2> QED
    BY <1>3
<1>5. \A n \in 0 .. N + 1 : n \in T
  <2> HIDE DEF T
  <2> QED
    BY <1>2, <1>4, CountingUp
<1>6. \A p \in S : r[p] < N + 1
  BY <1>1
<1>7. N + 1 \in T
  BY <1>4, <1>5
<1> QED
  BY <1>6, <1>7

(* A chain ends at an object that nothing supersedes, or at a free place.  *)
LEMMA FollowsEnds ==
  ASSUME NEW h \in Heaps, Ranked(h), NEW f, Follows(h, f)
  PROVE  \A p \in Places : /\ IsLast(h, f[p]) /\ f[f[p]] = f[p]
                           /\ h[f[p]] # Null => h[p] # Null
<1>0. PICK N \in Nat : \E r \in [Places -> 0 .. N] :
        \A p \in Places : ~IsLast(h, p) => r[h[p].newer] < r[p]
  BY DEF Ranked
<1>1. PICK r \in [Places -> 0 .. N] : \A p \in Places : ~IsLast(h, p) => r[h[p].newer] < r[p]
  BY <1>0
<1> DEFINE T == {n \in Nat : \A p \in Places : r[p] < n => IsLast(h, f[p])}
<1>2. 0 \in T
  BY <1>1
<1>3. ASSUME NEW n \in 1 .. N + 1, n - 1 \in T PROVE n \in T
  <2>1. ASSUME NEW p \in Places, r[p] < n PROVE IsLast(h, f[p])
    <3>1. CASE IsLast(h, p)
      BY <3>1 DEF Follows
    <3>2. CASE ~IsLast(h, p)
      <4> DEFINE q == h[p].newer
      <4>1. q \in Places /\ r[q] < r[p]
        BY <1>1, <3>2, NewerIsPlace
      <4>2. r[p] \in Nat /\ r[q] \in Nat
        BY <1>1, <4>1
      <4>3. r[q] < n - 1
        BY <2>1, <4>1, <4>2
      <4>4. IsLast(h, f[q])
        BY <1>3, <4>1, <4>3
      <4> QED
        BY <3>2, <4>4 DEF Follows
    <3> QED
      BY <3>1, <3>2
  <2> QED
    BY <2>1
<1>4. N + 1 \in Nat /\ \A n \in 1 .. N + 1 : n - 1 \in T => n \in T
  <2> HIDE DEF T
  <2> QED
    BY <1>3
<1>5. \A n \in 0 .. N + 1 : n \in T
  <2> HIDE DEF T
  <2> QED
    BY <1>2, <1>4, CountingUp
<1>6. \A p \in Places : r[p] < N + 1
  BY <1>1
<1>7. N + 1 \in T
  BY <1>4, <1>5
<1>8. \A p \in Places : IsLast(h, f[p])
  BY <1>6, <1>7
<1> QED
  BY <1>8 DEF Follows, IsLast

-----------------------------------------------------------------------------
(* The invariant.                                                          *)

(* What can be on the worklist.                                            *)
Entries ==
  ({"root"} \X Roots) \cup ({"element"} \X Places \X Slots) \cup ({"member"} \X Tenure)

(* What a list holds.                                                      *)
Items(seq) == {seq[i] : i \in DOMAIN seq}

(* The types of the variables, and what each list of the collector lists.  *)
Typed ==
  /\ config \in Configs
  /\ root \in [Roots -> Refs]
  /\ heap \in Heaps
  /\ remember_set \subseteq Used(Tenure)
  /\ tenure_frontier \in 0 .. config["tenure"]
  /\ \A p \in Used(Tenure) : p[2] <= tenure_frontier
  /\ cur_grad_from \in {0, 1}
  /\ graduate_list = Used(Half[cur_grad_from])
  /\ graduate_new_list = Used(ToHalf)
  /\ phase \in Phases
  /\ work \in Seq(Entries)
  /\ promoted \subseteq Used(Tenure)
  /\ resources \subseteq Handles
  /\ nallocated \in Nat
  /\ phase = "mutator" => work = << >> /\ promoted = {} /\ graduate_new_list = {}

(* The objects in G are those that a collection may come to.               *)
Traced(G) ==
  /\ \A p \in G : heap[p].newer = Null
  /\ \A p \in G, s \in Slots : heap[p].slots[s] # Null => Newest[heap[p].slots[s]] \in G
  /\ \A v \in Roots : root[v] # Null => Newest[root[v]] \in G
  /\ \A p \in remember_set : Newest[p] \in G
  /\ InYoung => Marked \subseteq G

(* There is such a set.  It holds all that can be reached, and all that a  *)
(* collection in progress has marked.                                      *)
Sound == \E G \in SUBSET Used(Places) : Traced(G)

(* A native resource is owned by one copy of its object, until it is       *)
(* finalized.                                                              *)
NativesDiffer ==
  /\ \A p \in Used(Places) : heap[p].native => heap[p].object \in resources
  /\ \A p, q \in Used(Places) :
       heap[p].native /\ heap[q].native /\ heap[p].object = heap[q].object => p = q

(* A young collection is due after an old one and a compaction; the old    *)
(* collection has left no superseded tenured object.                       *)
AgendaIsClean ==
  /\ agenda \in {<< >>, <<"compact", "young">>, <<"young">>}
  /\ agenda # << >> => phase = "mutator"
  /\ agenda = <<"compact", "young">> => \A p \in Used(Tenure) : heap[p].newer = Null

(* No object is elsewhere while the program runs.                          *)
NoneForwarded == phase = "mutator" => \A p \in Used(Places) : heap[p].forward = Null

(* The places that a young collection empties, and those it fills.         *)
From == Nursery \cup Half[cur_grad_from]
To   == ToHalf \cup Tenure

(* Objects that are where they will stay, and have been visited.           *)
Black == Marked \cap To

(* The copy of the object at p, if it has been evacuated.                  *)
Copied(p) == IF heap[p] = Null \/ heap[p].forward = Null THEN p ELSE heap[p].forward

(* The place where the object is that a reference stands for.              *)
Home(ref) == IF ref = Null THEN Null ELSE Copied(Newest[ref])

(* During a young collection: a marked object in a region that will be     *)
(* emptied has been evacuated, to a copy that has the same elements as     *)
(* seen through copies.                                                    *)
Forwarding ==
  /\ \A p \in Used(Places) : heap[p].forward # Null =>
       /\ p \in From /\ heap[p].is_marked
       /\ heap[p].forward \in Black
       /\ heap[heap[p].forward].object = heap[p].object
       /\ \A s \in Slots : Home(heap[p].slots[s]) = Home(heap[heap[p].forward].slots[s])
  /\ \A p \in Used(From) : heap[p].is_marked => heap[p].forward # Null
  /\ Used(ToHalf) \cup promoted \subseteq Marked

(* A slot of a visited object, a root, or a member of the remember set     *)
(* either refers to a visited object or is on the worklist.                *)
TriColor ==
  /\ \A p \in Black, s \in Slots :
       \/ heap[p].slots[s] \in Black \cup {Null}
       \/ <<"element", p, s>> \in Items(work)
  /\ \A v \in Roots : root[v] \in Black \cup {Null} \/ <<"root", v>> \in Items(work)
  /\ phase = "young_remembered" =>
       \A p \in remember_set : heap[Newest[p]].is_marked \/ <<"member", p>> \in Items(work)

(* The worklist holds slots of visited objects and roots, and members of   *)
(* the remember set, that are not Null.                                    *)
WorkIsGood ==
  /\ \A v \in Roots : <<"root", v>> \in Items(work) => root[v] # Null
  /\ \A p \in Places, s \in Slots :
       <<"element", p, s>> \in Items(work) => p \in Black /\ heap[p].slots[s] # Null
  /\ \A p \in Tenure : <<"member", p>> \in Items(work) => p \in remember_set

(* The invariant of the heap; the inductive invariant adds what the        *)
(* program sees of it.                                                     *)
HeapInv ==
  /\ Typed /\ Ranked(heap) /\ Sound /\ NativesDiffer /\ AgendaIsClean /\ NoneForwarded
  /\ InYoung => Forwarding /\ TriColor /\ WorkIsGood

(* Where the objects are that the program can reach.                       *)
Homes == {Copied(p) : p \in LivePlaces}

(* No two of them are the same object, and each handle has its resource.   *)
Names ==
  /\ \A p \in Homes : heap[p].object \in Handles => heap[p].native
  /\ \A p, q \in Homes : heap[p].object = heap[q].object => p = q

(* The invariant of every moment: of the heap and its phase, and of the    *)
(* names in it.                                                            *)
IInv == HeapInv /\ Names

-----------------------------------------------------------------------------
(* What the invariant says of references.                                  *)

(* The end of a chain of generations is the same from each of its places.  *)
LEMMA NewestFacts ==
  ASSUME heap \in Heaps, Ranked(heap)
  PROVE  /\ Follows(heap, Newest)
         /\ Newest \in [Places -> Places]
         /\ \A p \in Places : IsLast(heap, p) => Newest[p] = p
         /\ \A p \in Places : /\ IsLast(heap, Newest[p]) /\ Newest[Newest[p]] = Newest[p]
                              /\ heap[Newest[p]] # Null => heap[p] # Null
<1>1. Follows(heap, Newest)
  BY FollowsExists DEF Newest
<1> QED
  BY <1>1, FollowsEnds DEF Follows

(* The same of the next state.                                             *)
LEMMA NewestFactsNext ==
  ASSUME heap' \in Heaps, Ranked(heap')
  PROVE  /\ Follows(heap', Newest')
         /\ Newest' \in [Places -> Places]
         /\ \A p \in Places : IsLast(heap', p) => Newest'[p] = p
         /\ \A p \in Places : /\ IsLast(heap', Newest'[p]) /\ Newest'[Newest'[p]] = Newest'[p]
                              /\ heap'[Newest'[p]] # Null => heap'[p] # Null
<1>1. Follows(heap', Newest')
  BY FollowsExists DEF Newest
<1> QED
  BY <1>1, FollowsEnds DEF Follows

(* Steps that supersede nothing and move nothing.                          *)
LEMMA NewestStays ==
  ASSUME heap \in Heaps, Ranked(heap), heap' \in Heaps, Ranked(heap'),
         \A p \in Used(Places) : heap'[p] # Null /\ heap'[p].newer = heap[p].newer
  PROVE  \A p \in Places : heap[Newest[p]] # Null => Newest'[p] = Newest[p]
<1> DEFINE S == {p \in Places : heap[Newest[p]] # Null}
           m == [p \in S |-> p]
<1>1. Follows(heap, Newest) /\ Follows(heap', Newest')
  BY NewestFacts, NewestFactsNext
<1>2. ASSUME NEW p \in S
      PROVE  IF IsLast(heap, p) THEN IsLast(heap', m[p])
             ELSE /\ ~IsLast(heap', m[p]) /\ heap[p].newer \in S
                  /\ heap'[m[p]].newer = m[heap[p].newer]
  <2>1. heap[p] # Null /\ heap'[p] # Null /\ heap'[p].newer = heap[p].newer
    BY <1>2, NewestFacts DEF Used
  <2>2. CASE IsLast(heap, p)
    BY <2>1, <2>2 DEF IsLast
  <2>3. CASE ~IsLast(heap, p)
    <3>1. heap[p].newer \in Places /\ Newest[p] = Newest[heap[p].newer]
      BY <1>1, <2>3, NewerIsPlace DEF Follows
    <3>2. heap[p].newer \in S
      BY <1>2, <3>1
    <3> QED
      BY <2>1, <2>3, <3>2 DEF IsLast
  <2> QED
    BY <2>2, <2>3
<1>3. S \in SUBSET Places /\ m \in [S -> Places]
  OBVIOUS
<1> HIDE DEF S, m
<1>4. \A p \in S : Newest[p] \in S /\ Newest'[m[p]] = m[Newest[p]]
  BY <1>1, <1>2, <1>3, FollowsMoves
<1> QED
  BY <1>4 DEF S, m

(* What the program can reach is the least set that is closed.             *)
LEMMA LiveFacts ==
  ASSUME Typed, Ranked(heap)
  PROVE  /\ LivePlaces \subseteq Places
         /\ \A v \in Roots : root[v] # Null => Newest[root[v]] \in LivePlaces
         /\ \A p \in LivePlaces, s \in Slots :
              heap[p] # Null /\ heap[p].slots[s] # Null => Newest[heap[p].slots[s]] \in LivePlaces
         /\ \A X : /\ \A v \in Roots : root[v] # Null => Newest[root[v]] \in X
                   /\ \A p \in X \cap Used(Places), s \in Slots :
                        heap[p].slots[s] # Null => Newest[heap[p].slots[s]] \in X
                   => LivePlaces \subseteq X
<1> DEFINE from  == NewestOf({root[v] : v \in Roots})
           edges == References(Used(Places))
<1>1. Newest \in [Places -> Places] /\ heap \in Heaps
  BY NewestFacts DEF Typed
<1>2. \A p \in Used(Places), s \in Slots : heap[p].slots[s] \in Refs
  BY <1>1 DEF Heaps, Used, Object
<1>3. from \subseteq Places
  BY <1>1 DEF NewestOf, Typed, Refs
<1>4. \A e \in edges : e[2] \in Places
  BY <1>1, <1>2 DEF References, NewestOf, Refs
<1>5. \A X : Closed(X, edges) <=>
        \A p \in X \cap Used(Places), s \in Slots :
          heap[p].slots[s] # Null => Newest[heap[p].slots[s]] \in X
  <2>1. \A e : e \in edges <=> \E p \in Used(Places), s \in Slots :
                                 heap[p].slots[s] # Null /\ e = <<p, Newest[heap[p].slots[s]]>>
    BY DEF References, NewestOf
  <2> HIDE DEF edges
  <2> TAKE X
  <2>2. ASSUME Closed(X, edges), NEW p \in X \cap Used(Places), NEW s \in Slots,
               heap[p].slots[s] # Null
        PROVE  Newest[heap[p].slots[s]] \in X
    <3> DEFINE e == <<p, Newest[heap[p].slots[s]]>>
    <3>1. e \in edges /\ e[1] \in X
      BY <2>1, <2>2
    <3> QED
      BY <2>2, <3>1 DEF Closed
  <2>3. ASSUME \A p \in X \cap Used(Places), s \in Slots :
                 heap[p].slots[s] # Null => Newest[heap[p].slots[s]] \in X,
               NEW e \in edges, e[1] \in X
        PROVE  e[2] \in X
    BY <2>1, <2>3
  <2> QED
    BY <2>2, <2>3 DEF Closed
<1>6. \A X : from \subseteq X <=> \A v \in Roots : root[v] # Null => Newest[root[v]] \in X
  BY DEF NewestOf
<1>7. LivePlaces = ReachableFrom(from, edges)
  BY DEF LivePlaces
<1> HIDE DEF from, edges
<1>8. /\ from \subseteq LivePlaces /\ Closed(LivePlaces, edges)
      /\ \A X : from \subseteq X /\ Closed(X, edges) => LivePlaces \subseteq X
  BY <1>3, <1>4, <1>7, PlacesAreFinite, ReachableIsLeast
<1>9. LivePlaces \subseteq Places
  <2>1. Closed(Places, edges)
    BY <1>4 DEF Closed
  <2> QED
    BY <1>3, <1>8, <2>1
<1>10. \A p \in LivePlaces, s \in Slots :
         heap[p] # Null /\ heap[p].slots[s] # Null => Newest[heap[p].slots[s]] \in LivePlaces
  BY <1>5, <1>8, <1>9 DEF Used
<1>11. \A v \in Roots : root[v] # Null => Newest[root[v]] \in LivePlaces
  BY <1>6, <1>8
<1> QED
  BY <1>5, <1>6, <1>8, <1>9, <1>10, <1>11

(* The types of an object's fields.                                        *)
LEMMA FieldTypes ==
  ASSUME heap \in Heaps, NEW p \in Used(Places)
  PROVE  /\ p \in Places /\ heap[p] \in Object
         /\ heap[p].object \in Objects /\ heap[p].slots \in [Slots -> Refs]
         /\ heap[p].newer \in Refs /\ heap[p].native \in BOOLEAN
         /\ heap[p].is_marked \in BOOLEAN /\ heap[p].forward \in Refs
         /\ heap[p].promotion_count \in 0 .. PromotionThreshold
BY DEF Heaps, Used, Object

(* The halves of the graduation space, nursery and tenure split the        *)
(* places.                                                                 *)
LEMMA SpacesAreApart ==
  ASSUME cur_grad_from \in {0, 1}
  PROVE  /\ From \cap To = {} /\ From \cup To = Places
         /\ Young \cap Tenure = {} /\ Young = From \cup ToHalf /\ From \cap ToHalf = {}
         /\ To = ToHalf \cup Tenure /\ ToHalf \cap Tenure = {}
         /\ Null \notin Places
BY PlacesAreApart, NullAssumption DEF From, To, ToHalf

(* Marked objects of To-space have not been evacuated.                     *)
LEMMA BlackStays ==
  ASSUME HeapInv, NEW p \in Used(To)
  PROVE  heap[p].forward = Null
<1>1. p \in Used(Places) /\ p \notin From
  BY SpacesAreApart DEF HeapInv, Typed, Used
<1>2. CASE phase = "mutator"
  BY <1>1, <1>2 DEF HeapInv, NoneForwarded
<1>3. CASE InYoung
  BY <1>1, <1>3 DEF HeapInv, Forwarding
<1> QED
  BY <1>2, <1>3 DEF HeapInv, Typed, Phases, InYoung

(* Where the objects are that collections come to.                         *)
LEMMA CopiedFacts ==
  ASSUME HeapInv, NEW G \in SUBSET Used(Places), Traced(G), NEW p \in G
  PROVE  /\ Copied(p) \in G /\ Copied(Copied(p)) = Copied(p) /\ Newest[Copied(p)] = Copied(p)
         /\ heap[Copied(p)].object = heap[p].object
         /\ \A s \in Slots : Home(heap[Copied(p)].slots[s]) = Home(heap[p].slots[s])
<1>1. p \in Used(Places) /\ p \in Places /\ heap[p] # Null
  BY DEF Used
<1>2. \A q \in G : Newest[q] = q
  BY NewestFacts DEF HeapInv, Typed, Traced, IsLast, Used
<1>3. CASE heap[p].forward = Null
  BY <1>1, <1>2, <1>3 DEF Copied
<1>4. CASE heap[p].forward # Null
  <2>1. InYoung
    BY <1>1, <1>4 DEF HeapInv, NoneForwarded, Typed, Phases, InYoung
  <2>2. /\ heap[p].forward \in Black /\ heap[heap[p].forward].object = heap[p].object
        /\ \A s \in Slots : Home(heap[p].slots[s]) = Home(heap[heap[p].forward].slots[s])
    BY <1>1, <1>4, <2>1 DEF HeapInv, Forwarding
  <2>3. heap[p].forward \in G /\ heap[p].forward \in Used(To)
    BY <2>1, <2>2 DEF Black, Traced, Marked, Used
  <2>4. heap[heap[p].forward].forward = Null
    BY <2>3, BlackStays
  <2> QED
    BY <1>1, <1>2, <1>4, <2>2, <2>3, <2>4 DEF Copied, Used
<1> QED
  BY <1>3, <1>4

(* References to such objects have a home, which is at home in itself.     *)
LEMMA HomeOfLive ==
  ASSUME HeapInv, NEW G \in SUBSET Used(Places), Traced(G),
         NEW ref \in Refs, ref # Null => Newest[ref] \in G
  PROVE  /\ Home(ref) \in G \cup {Null}
         /\ Home(ref) = Null <=> ref = Null
         /\ Home(Home(ref)) = Home(ref)
<1>1. Null \notin G
  BY NullAssumption DEF Used
<1>2. CASE ref = Null
  BY <1>1, <1>2 DEF Home
<1>3. CASE ref # Null
  <2>1. Newest[ref] \in G
    BY <1>3
  <2>2. Copied(Newest[ref]) \in G /\ Newest[Copied(Newest[ref])] = Copied(Newest[ref])
        /\ Copied(Copied(Newest[ref])) = Copied(Newest[ref])
    BY <2>1, CopiedFacts
  <2> QED
    BY <1>1, <1>3, <2>2 DEF Home
<1> QED
  BY <1>2, <1>3

(* All that the program can reach is among them.                           *)
LEMMA LiveAreTraced ==
  ASSUME HeapInv, NEW G \in SUBSET Used(Places), Traced(G)
  PROVE  LivePlaces \subseteq G
BY LiveFacts DEF HeapInv, Typed, Traced

(* Homes is the least set with the homes of the roots and of what its      *)
(* members refer to.                                                       *)
HomesAreLeast ==
  /\ Homes \subseteq Used(Places)
  /\ \A v \in Roots : root[v] # Null => Home(root[v]) \in Homes
  /\ \A p \in Homes, s \in Slots :
       heap[p].slots[s] # Null => Home(heap[p].slots[s]) \in Homes
  /\ \A p \in Homes : Copied(p) = p /\ Newest[p] = p /\ Home(p) = p
  /\ \A X : /\ \A v \in Roots : root[v] # Null => Home(root[v]) \in X
            /\ \A p \in X \cap Used(Places), s \in Slots :
                 heap[p].slots[s] # Null => Home(heap[p].slots[s]) \in X
            => Homes \subseteq X

(* It is that set.                                                         *)
LEMMA HomesFacts == HeapInv => HomesAreLeast
<1> SUFFICES ASSUME HeapInv PROVE HomesAreLeast
  OBVIOUS
<1>1. PICK G \in SUBSET Used(Places) : Traced(G)
  BY DEF HeapInv, Sound
<1>2. Typed /\ Ranked(heap) /\ heap \in Heaps
  BY DEF HeapInv, Typed
<1>3. LivePlaces \subseteq G /\ Null \notin Places
  BY <1>1, LiveAreTraced, NullAssumption
<1>4. \A p \in G, s \in Slots : heap[p].slots[s] \in Refs
  BY <1>2, FieldTypes
<1>5. Homes \subseteq G
  BY <1>1, <1>3, CopiedFacts DEF Homes
<1>6. \A v \in Roots : root[v] # Null => Home(root[v]) \in Homes
  BY <1>2, LiveFacts DEF Homes, Home
<1>7. ASSUME NEW p \in Homes, NEW s \in Slots, heap[p].slots[s] # Null
      PROVE  Home(heap[p].slots[s]) \in Homes
  <2>1. PICK q \in LivePlaces : p = Copied(q)
    BY DEF Homes
  <2>2. q \in G /\ Home(heap[p].slots[s]) = Home(heap[q].slots[s])
    BY <1>1, <1>3, <2>1, CopiedFacts
  <2>3. Home(heap[p].slots[s]) # Null
    <3>1. p \in G /\ Newest[heap[p].slots[s]] \in G
      BY <1>1, <1>5, <1>7 DEF Traced
    <3> QED
      BY <1>1, <1>4, <1>7, <3>1, HomeOfLive
  <2>4. heap[q].slots[s] # Null
    BY <2>2, <2>3 DEF Home
  <2>5. Newest[heap[q].slots[s]] \in LivePlaces
    BY <1>2, <2>2, <2>4, LiveFacts DEF Used
  <2> QED
    BY <2>2, <2>4, <2>5 DEF Homes, Home
<1>8. \A p \in Homes : Copied(p) = p /\ Newest[p] = p /\ Home(p) = p
  <2> SUFFICES ASSUME NEW q \in LivePlaces
               PROVE  LET p == Copied(q) IN Copied(p) = p /\ Newest[p] = p /\ Home(p) = p
    BY DEF Homes
  <2>1. q \in G
    BY <1>3
  <2>2. Copied(q) \in G /\ Copied(Copied(q)) = Copied(q) /\ Newest[Copied(q)] = Copied(q)
    BY <1>1, <2>1, CopiedFacts
  <2>3. Copied(q) # Null
    BY <1>3, <2>2 DEF Used
  <2> QED
    BY <2>2, <2>3 DEF Home
<1>9. ASSUME NEW X,
             \A v \in Roots : root[v] # Null => Home(root[v]) \in X,
             \A p \in X \cap Used(Places), s \in Slots :
               heap[p].slots[s] # Null => Home(heap[p].slots[s]) \in X
      PROVE  Homes \subseteq X
  <2> DEFINE Y == {p \in G : Copied(p) \in X}
  <2>1. \A v \in Roots : root[v] # Null => Newest[root[v]] \in Y
    BY <1>1, <1>9 DEF Traced, Home
  <2>2. ASSUME NEW p \in Y, NEW s \in Slots, heap[p].slots[s] # Null
        PROVE  Newest[heap[p].slots[s]] \in Y
    <3> DEFINE ref == heap[p].slots[s]
    <3>1. p \in G /\ Copied(p) \in X
      OBVIOUS
    <3>2. Newest[ref] \in G /\ ref \in Refs
      BY <1>1, <1>4, <2>2, <3>1 DEF Traced
    <3>3. Copied(p) \in X \cap Used(Places) /\ Home(heap[Copied(p)].slots[s]) = Home(ref)
      BY <1>1, <3>1, CopiedFacts
    <3>4. Home(ref) # Null
      BY <1>1, <2>2, <3>2, HomeOfLive
    <3>5. heap[Copied(p)].slots[s] # Null
      BY <3>3, <3>4 DEF Home
    <3>6. Home(ref) \in X
      BY <1>9, <3>3, <3>5
    <3> QED
      BY <2>2, <3>2, <3>6 DEF Home
  <2>3. LivePlaces \subseteq Y
    <3> HIDE DEF Y
    <3> QED
      BY <1>2, <2>1, <2>2, LiveFacts
  <2> QED
    BY <2>3 DEF Homes
<1> QED
  BY <1>5, <1>6, <1>7, <1>8, <1>9 DEF HomesAreLeast

(* The object at p.                                                        *)
NameAt(p) == IF p = Null THEN Null ELSE heap[p].object

(* The elements of the objects at places X, by name.                       *)
Contents(X) == {<<heap[p].object, s, NameAt(Home(heap[p].slots[s]))>> : p \in X, s \in Slots}

(* What the program sees, in terms of homes.                               *)
NamesAreOfHomes ==
  /\ LiveElements = Contents(Homes)
  /\ \A v \in Roots : Name(root[v]) = NameAt(Home(root[v]))
  /\ LiveNames = {heap[p].object : p \in Homes}

(* The program sees exactly the homes and what is in them.                 *)
LEMMA NamesFacts == HeapInv => NamesAreOfHomes
<1> SUFFICES ASSUME HeapInv PROVE NamesAreOfHomes
  OBVIOUS
<1>1. PICK G \in SUBSET Used(Places) : Traced(G)
  BY DEF HeapInv, Sound
<1>2. LivePlaces \subseteq G /\ Null \notin Places /\ Null \notin G
  BY <1>1, LiveAreTraced, NullAssumption DEF Used
<1>3. ASSUME NEW ref \in Refs, ref # Null => Newest[ref] \in G
      PROVE  Name(ref) = NameAt(Home(ref))
  <2>1. CASE ref = Null
    BY <2>1 DEF Name, NameAt, Home
  <2>2. CASE ref # Null
    <3>1. Newest[ref] \in G /\ heap[Newest[ref]] # Null
      BY <1>3, <2>2 DEF Used
    <3>2. /\ Copied(Newest[ref]) \in G
          /\ heap[Copied(Newest[ref])].object = heap[Newest[ref]].object
      BY <1>1, <3>1, CopiedFacts
    <3> QED
      BY <1>2, <2>2, <3>1, <3>2 DEF Name, NameAt, Home
  <2> QED
    BY <2>1, <2>2
<1>4. \A v \in Roots : Name(root[v]) = NameAt(Home(root[v]))
  BY <1>1, <1>3 DEF HeapInv, Typed, Traced
<1>5. ASSUME NEW p \in LivePlaces
      PROVE  /\ p \in Used(Places) /\ Name(p) = heap[p].object
             /\ heap[Copied(p)].object = heap[p].object
             /\ \A s \in Slots : /\ Name(heap[p].slots[s]) = NameAt(Home(heap[p].slots[s]))
                                 /\ Home(heap[Copied(p)].slots[s]) = Home(heap[p].slots[s])
  <2>1. p \in G /\ p \in Used(Places) /\ heap[p] # Null /\ p # Null
    BY <1>2, <1>5 DEF Used
  <2>2. Newest[p] = p
    BY <1>1, <2>1, NewestFacts DEF HeapInv, Typed, Traced, IsLast, Used
  <2>3. \A s \in Slots : heap[p].slots[s] \in Refs
    BY <2>1, FieldTypes DEF HeapInv, Typed
  <2>4. \A s \in Slots : Name(heap[p].slots[s]) = NameAt(Home(heap[p].slots[s]))
    BY <1>1, <1>3, <2>1, <2>3 DEF Traced
  <2>5. Name(p) = heap[p].object
    BY <2>1, <2>2 DEF Name
  <2> QED
    BY <1>1, <2>1, <2>4, <2>5, CopiedFacts
<1>6. LiveElements = Contents(Homes)
  <2>1. \A e : e \in LiveElements <=>
          \E p \in LivePlaces, s \in Slots : e = <<heap[p].object, s, NameAt(Home(heap[p].slots[s]))>>
    BY <1>5 DEF LiveElements
  <2>2. \A e : e \in Contents(Homes) <=>
          \E p \in LivePlaces, s \in Slots :
            e = <<heap[Copied(p)].object, s, NameAt(Home(heap[Copied(p)].slots[s]))>>
    BY DEF Contents, Homes
  <2>3. \A e : e \in LiveElements <=> e \in Contents(Homes)
    BY <1>5, <2>1, <2>2
  <2> QED
    BY <2>3
<1>7. LiveNames = {heap[p].object : p \in Homes}
  BY <1>5 DEF LiveNames, Homes
<1> QED
  BY <1>4, <1>6, <1>7 DEF NamesAreOfHomes

(* A step after which the object that was at home in p is at home in m[p]. *)
SameHeap(m) ==
  /\ m \in [Places \cup {Null} -> Places \cup {Null}] /\ m[Null] = Null
  /\ \A v \in Roots : Home(root[v])' = m[Home(root[v])]
  /\ \A p \in Homes :
       /\ m[p] # Null /\ heap'[m[p]].object = heap[p].object
       /\ heap[p].native => heap'[m[p]].native
       /\ \A s \in Slots : Home(heap[m[p]].slots[s])' = m[Home(heap[p].slots[s])]

(* The program does not see it.                                            *)
LEMMA UnseenSteps ==
  ASSUME HeapInv, HeapInv', NEW m, SameHeap(m)
  PROVE  /\ Homes' = {m[p] : p \in Homes}
         /\ Names => Names'
         /\ LiveElements' = LiveElements
         /\ \A v \in Roots : Name(root[v])' = Name(root[v])
<1>1. HomesAreLeast /\ HomesAreLeast' /\ NamesAreOfHomes /\ NamesAreOfHomes'
  <2>1. HeapInv => HomesAreLeast /\ NamesAreOfHomes
    BY HomesFacts, NamesFacts
  <2> QED
    BY <2>1, HomesFacts, NamesFacts, PTL
<1>2. Null \notin Places /\ Homes \subseteq Used(Places) /\ Homes' \subseteq Used(Places)'
  BY <1>1, NullAssumption DEF HomesAreLeast
<1>3. Used(Places) \subseteq Places /\ Used(Places)' \subseteq Places
  BY DEF Used
<1>4. \A p \in Homes, s \in Slots : Home(heap[p].slots[s]) \in Homes \cup {Null}
  BY <1>1 DEF HomesAreLeast, Home
<1>5. \A v \in Roots : Home(root[v]) \in Homes \cup {Null}
  BY <1>1 DEF HomesAreLeast, Home
<1>6. Homes' \subseteq {m[p] : p \in Homes}
  <2> DEFINE X == {m[p] : p \in Homes} \cup {Null}
  <2>1. \A v \in Roots : root'[v] # Null => Home(root[v])' \in X
    BY <1>5 DEF SameHeap
  <2>2. \A q \in X \cap Used(Places)', s \in Slots :
          heap'[q].slots[s] # Null => Home(heap[q].slots[s])' \in X
    <3> SUFFICES ASSUME NEW q \in X, q \in Used(Places)', NEW s \in Slots
                 PROVE  Home(heap[q].slots[s])' \in X
      OBVIOUS
    <3>1. PICK p \in Homes : q = m[p]
      BY <1>2, <1>3
    <3>2. Home(heap[m[p]].slots[s])' = m[Home(heap[p].slots[s])]
      BY <3>1 DEF SameHeap
    <3>3. Home(heap[q].slots[s])' = m[Home(heap[p].slots[s])]
      BY <3>1, <3>2
    <3> QED
      BY <1>4, <3>3 DEF SameHeap
  <2>3. Homes' \subseteq X
    <3> HIDE DEF X
    <3> QED
      BY <1>1, <2>1, <2>2 DEF HomesAreLeast
  <2> QED
    BY <1>2, <1>3, <2>3
<1>7. \A p \in Homes : m[p] \in Homes'
  <2> DEFINE X == {p \in Homes : m[p] \in Homes'} \cup {Null}
  <2>1. ASSUME NEW v \in Roots, root[v] # Null PROVE Home(root[v]) \in X
    <3>1. Home(root[v]) \in Homes
      BY <1>1, <2>1 DEF HomesAreLeast
    <3>2. Home(root[v])' = m[Home(root[v])] /\ m[Home(root[v])] # Null
      BY <3>1 DEF SameHeap
    <3>3. root'[v] # Null
      BY <3>2 DEF Home
    <3> QED
      BY <1>1, <3>1, <3>2, <3>3 DEF HomesAreLeast
  <2>2. ASSUME NEW p \in X \cap Used(Places), NEW s \in Slots, heap[p].slots[s] # Null
        PROVE  Home(heap[p].slots[s]) \in X
    <3>1. p \in Homes /\ m[p] \in Homes'
      BY <1>2, <1>3, <2>2
    <3>2. Home(heap[p].slots[s]) \in Homes
      BY <1>1, <2>2, <3>1 DEF HomesAreLeast
    <3>3. PICK q : q = m[p]
      OBVIOUS
    <3>4. /\ Home(heap[q].slots[s])' = m[Home(heap[p].slots[s])]
          /\ m[Home(heap[p].slots[s])] # Null
      BY <3>1, <3>2, <3>3 DEF SameHeap
    <3>5. heap'[q].slots[s] # Null
      BY <3>4 DEF Home
    <3>6. Home(heap[q].slots[s])' \in Homes'
      BY <1>1, <3>1, <3>3, <3>5 DEF HomesAreLeast
    <3> QED
      BY <3>2, <3>4, <3>6
  <2>3. Homes \subseteq X
    <3> HIDE DEF X
    <3> QED
      BY <1>1, <2>1, <2>2 DEF HomesAreLeast
  <2> QED
    BY <1>2, <1>3, <2>3
<1>8. Homes' = {m[p] : p \in Homes}
  BY <1>6, <1>7
<1>9. Names => Names'
  BY <1>8 DEF Names, SameHeap
<1>10. \A p \in Homes \cup {Null} : NameAt(p) = NameAt(m[p])'
  <2> SUFFICES ASSUME NEW p \in Homes \cup {Null} PROVE NameAt(p) = NameAt(m[p])'
    OBVIOUS
  <2>1. CASE p = Null
    BY <2>1 DEF SameHeap, NameAt
  <2>2. CASE p \in Homes
    BY <1>2, <1>3, <2>2 DEF SameHeap, NameAt
  <2> QED
    BY <2>1, <2>2
<1>11. \A v \in Roots : Name(root[v])' = Name(root[v])
  <2> SUFFICES ASSUME NEW v \in Roots PROVE Name(root[v])' = Name(root[v])
    OBVIOUS
  <2>1. Name(root[v]) = NameAt(Home(root[v])) /\ Name(root[v])' = NameAt(Home(root[v]))'
    BY <1>1 DEF NamesAreOfHomes
  <2>2. PICK p : p = Home(root[v])
    OBVIOUS
  <2>3. Home(root[v])' = m[p] /\ p \in Homes \cup {Null}
    BY <1>5, <2>2 DEF SameHeap
  <2>4. NameAt(Home(root[v]))' = NameAt(m[p])'
    BY <2>3 DEF NameAt
  <2> QED
    BY <1>10, <2>1, <2>2, <2>3, <2>4
<1>12. LiveElements' = LiveElements
  <2>1. ASSUME NEW p \in Homes, NEW s \in Slots
        PROVE  <<heap'[m[p]].object, s, NameAt(Home(heap[m[p]].slots[s]))'>>
               = <<heap[p].object, s, NameAt(Home(heap[p].slots[s]))>>
    <3>1. PICK q : q = Home(heap[p].slots[s])
      OBVIOUS
    <3>2. Home(heap[m[p]].slots[s])' = m[q] /\ q \in Homes \cup {Null}
      BY <1>4, <3>1 DEF SameHeap
    <3>3. NameAt(Home(heap[m[p]].slots[s]))' = NameAt(m[q])'
      BY <3>2 DEF NameAt
    <3> QED
      BY <1>10, <3>1, <3>2, <3>3 DEF SameHeap
  <2>2. \A e : e \in Contents(Homes) <=>
          \E p \in Homes, s \in Slots : e = <<heap[p].object, s, NameAt(Home(heap[p].slots[s]))>>
    BY DEF Contents
  <2>3. \A e : e \in Contents(Homes)' <=>
          \E p \in Homes', s \in Slots : e = <<heap'[p].object, s, NameAt(Home(heap[p].slots[s]))'>>
    BY DEF Contents
  <2>4. \A e : e \in Contents(Homes)' <=>
          \E p \in Homes, s \in Slots :
            e = <<heap'[m[p]].object, s, NameAt(Home(heap[m[p]].slots[s]))'>>
    BY <1>8, <2>3
  <2>5. \A e : e \in Contents(Homes)' <=> e \in Contents(Homes)
    BY <2>1, <2>2, <2>4
  <2>6. Contents(Homes)' = Contents(Homes)
    BY <2>5 DEF Contents
  <2> QED
    BY <1>1, <2>6 DEF NamesAreOfHomes
<1> QED
  BY <1>8, <1>9, <1>11, <1>12

(* What remains in ManagedHeap of a set of elements.                       *)
LEMMA SameReachability ==
  ASSUME NEW from, NEW edges
  PROVE  ManagedHeap!ReachableFrom(from, edges) = ReachableFrom(from, edges)
BY DEF ManagedHeap!ReachableFrom, ReachableFrom, ManagedHeap!Successors, Successors

(* What is reachable over elements is the least set that the roots and the *)
(* elements require.                                                       *)
LEMMA ReachableElements ==
  ASSUME NEW r, NEW elements, NEW all, IsFiniteSet(all),
         \A v \in Roots : r[v] \in all, \A e \in elements : e[3] \in all
  PROVE  \E live :
           /\ \A v \in Roots : r[v] \in live
           /\ \A e \in elements : e[1] \in live /\ e[3] # Null => e[3] \in live
           /\ \A X : /\ \A v \in Roots : r[v] \in X
                     /\ \A e \in elements : e[1] \in X /\ e[3] # Null => e[3] \in X
                     => live \subseteq X
           /\ ManagedHeap!Reachable(r, elements) = {e \in elements : e[1] \in live}
<1> DEFINE from  == {r[v] : v \in Roots}
           edges == {<<e[1], e[3]>> : e \in {e \in elements : e[3] # Null}}
           live  == ReachableFrom(from, edges)
<1>1. ASSUME NEW X
      PROVE  Closed(X, edges) <=> \A e \in elements : e[1] \in X /\ e[3] # Null => e[3] \in X
  <2>1. \A e \in elements : e[3] # Null => <<e[1], e[3]>> \in edges
    OBVIOUS
  <2>2. \A d \in edges : \E e \in elements : e[3] # Null /\ d = <<e[1], e[3]>>
    OBVIOUS
  <2> HIDE DEF edges
  <2>3. ASSUME Closed(X, edges), NEW e \in elements, e[1] \in X, e[3] # Null
        PROVE  e[3] \in X
    <3>1. <<e[1], e[3]>>[1] \in X => <<e[1], e[3]>>[2] \in X
      BY <2>1, <2>3 DEF Closed
    <3> QED
      BY <2>3, <3>1
  <2>4. ASSUME \A e \in elements : e[1] \in X /\ e[3] # Null => e[3] \in X,
               NEW d \in edges, d[1] \in X
        PROVE  d[2] \in X
    BY <2>2, <2>4
  <2> QED
    BY <2>3, <2>4 DEF Closed
<1>2. \A X : from \subseteq X <=> \A v \in Roots : r[v] \in X
  OBVIOUS
<1>3. from \subseteq all /\ \A e \in edges : e[2] \in all
  OBVIOUS
<1>4. ManagedHeap!Reachable(r, elements) = {e \in elements : e[1] \in live}
  <2>1. ManagedHeap!ReachableFrom(from, edges) = ReachableFrom(from, edges)
    BY SameReachability
  <2> QED
    BY <2>1 DEF ManagedHeap!Reachable
<1>5. PICK l : l = live
  OBVIOUS
<1> HIDE DEF from, edges
<1>6. /\ from \subseteq l /\ Closed(l, edges)
      /\ \A X : from \subseteq X /\ Closed(X, edges) => l \subseteq X
  BY <1>3, <1>5, ReachableIsLeast
<1> QED
  BY <1>1, <1>2, <1>4, <1>5, <1>6

(* The objects in X are all that a root or one of them refers to.          *)
Encloses(X) ==
  /\ X \subseteq Used(Places)
  /\ \A v \in Roots : Home(root[v]) \in X \cup {Null}
  /\ \A p \in X, s \in Slots : Home(heap[p].slots[s]) \in X \cup {Null}
  /\ \A p, q \in X : heap[p].object = heap[q].object => p = q

(* Of their elements, those that remain are those that the program sees.   *)
SeenOfEnclosed ==
  \A X : Encloses(X) =>
    /\ Homes \subseteq X
    /\ LiveElements = ManagedHeap!Reachable([v \in Roots |-> Name(root[v])], Contents(X))

(* So a step need only say where objects are among which the reachable     *)
(* ones are.                                                               *)
LEMMA SeenFacts == HeapInv => SeenOfEnclosed
<1> SUFFICES ASSUME HeapInv, NEW X, Encloses(X)
             PROVE  /\ Homes \subseteq X
                    /\ LiveElements = ManagedHeap!Reachable([v \in Roots |-> Name(root[v])], Contents(X))
  BY DEF SeenOfEnclosed
<1>1. HomesAreLeast /\ NamesAreOfHomes /\ heap \in Heaps
  BY HomesFacts, NamesFacts DEF HeapInv, Typed
<1>2. \A p \in Used(Places) : heap[p].object \in Objects /\ heap[p].object # Null /\ p # Null
  BY <1>1, FieldTypes, NullAssumption
<1>3. Homes \subseteq X
  <2>1. \A v \in Roots : root[v] # Null => Home(root[v]) \in X
    <3>1. \A v \in Roots : root[v] # Null => Home(root[v]) \in Homes
      BY <1>1 DEF HomesAreLeast
    <3> QED
      BY <1>1, <1>2, <3>1 DEF HomesAreLeast, Encloses
  <2> DEFINE Y == X \cap Homes
  <2>2. \A v \in Roots : root[v] # Null => Home(root[v]) \in Y
    BY <1>1, <2>1 DEF HomesAreLeast
  <2>3. \A p \in Y \cap Used(Places), s \in Slots :
          heap[p].slots[s] # Null => Home(heap[p].slots[s]) \in Y
    BY <1>1, <1>2 DEF HomesAreLeast, Encloses
  <2>4. Homes \subseteq Y
    <3> HIDE DEF Y
    <3> QED
      BY <1>1, <2>2, <2>3 DEF HomesAreLeast
  <2> QED
    BY <2>4
<1> DEFINE r == [v \in Roots |-> Name(root[v])]
           all == Objects \cup {Null}
<1>4. \A p \in X \cup {Null} : NameAt(p) \in all /\ (NameAt(p) = Null <=> p = Null)
  BY <1>2 DEF NameAt, Encloses
<1>5. \A v \in Roots : r[v] = NameAt(Home(root[v])) /\ r[v] \in all
  BY <1>1, <1>4 DEF NamesAreOfHomes, Encloses
<1>6. \A e \in Contents(X) : e[3] \in all
  BY <1>4 DEF Contents, Encloses
<1>7. IsFiniteSet(all)
  BY CollectorAssumption, FS_AddElement
<1>8. PICK live :
           /\ \A v \in Roots : r[v] \in live
           /\ \A e \in Contents(X) : e[1] \in live /\ e[3] # Null => e[3] \in live
           /\ \A Z : /\ \A v \in Roots : r[v] \in Z
                     /\ \A e \in Contents(X) : e[1] \in Z /\ e[3] # Null => e[3] \in Z
                     => live \subseteq Z
           /\ ManagedHeap!Reachable(r, Contents(X)) = {e \in Contents(X) : e[1] \in live}
  <2> HIDE DEF r, all
  <2> QED
    BY <1>5, <1>6, <1>7, ReachableElements
<1> DEFINE seen == {heap[p].object : p \in Homes}
<1>9. ASSUME NEW p \in Homes PROVE heap[p].object \in live
  <2> DEFINE Y == {q \in X : heap[q].object \in live}
  <2>1. ASSUME NEW v \in Roots, root[v] # Null PROVE Home(root[v]) \in Y
    <3>1. Home(root[v]) \in X /\ Home(root[v]) # Null
      BY <1>1, <1>2, <1>3, <2>1 DEF HomesAreLeast
    <3> QED
      BY <1>5, <1>8, <3>1 DEF NameAt
  <2>2. ASSUME NEW q \in Y \cap Used(Places), NEW s \in Slots, heap[q].slots[s] # Null,
               Home(heap[q].slots[s]) # Null
        PROVE  Home(heap[q].slots[s]) \in Y
    <3> DEFINE h == Home(heap[q].slots[s])
               e == <<heap[q].object, s, NameAt(h)>>
    <3>1. h \in X
      BY <2>2 DEF Encloses
    <3>2. e \in Contents(X) /\ e[1] \in live /\ e[3] # Null
      BY <1>4, <2>2, <3>1 DEF Contents
    <3>3. NameAt(h) \in live
      BY <1>8, <3>2
    <3> QED
      BY <2>2, <3>1, <3>3 DEF NameAt
  <2>3. Homes \subseteq Y \cap Homes
    <3>1. \A v \in Roots : root[v] # Null => Home(root[v]) \in Y \cap Homes
      BY <1>1, <2>1 DEF HomesAreLeast
    <3>2. \A q \in (Y \cap Homes) \cap Used(Places), s \in Slots :
            heap[q].slots[s] # Null => Home(heap[q].slots[s]) \in Y \cap Homes
      BY <1>1, <1>2, <2>2 DEF HomesAreLeast
    <3> HIDE DEF Y
    <3> QED
      BY <1>1, <3>1, <3>2 DEF HomesAreLeast
  <2> QED
    BY <2>3
<1>10. live \subseteq seen \cup {Null}
  <2>1. \A v \in Roots : r[v] \in seen \cup {Null}
    <3> SUFFICES ASSUME NEW v \in Roots PROVE NameAt(Home(root[v])) \in seen \cup {Null}
      BY <1>5
    <3>1. Home(root[v]) \in Homes \cup {Null}
      BY <1>1 DEF HomesAreLeast, Home
    <3> QED
      BY <3>1 DEF NameAt
  <2>2. ASSUME NEW e \in Contents(X), e[1] \in seen \cup {Null}, e[3] # Null
        PROVE  e[3] \in seen \cup {Null}
    <3>0. PICK p \in X : \E s \in Slots : e = <<heap[p].object, s, NameAt(Home(heap[p].slots[s]))>>
      BY DEF Contents
    <3>1. PICK s \in Slots : e = <<heap[p].object, s, NameAt(Home(heap[p].slots[s]))>>
      BY <3>0
    <3>2. heap[p].object \in seen
      BY <1>2, <2>2, <3>1 DEF Encloses
    <3>3. PICK q \in Homes : heap[q].object = heap[p].object
      BY <3>2
    <3>4. p \in Homes
      BY <1>3, <3>3 DEF Encloses
    <3>5. Home(heap[p].slots[s]) \in Homes \cup {Null}
      BY <1>1, <3>4 DEF HomesAreLeast, Home
    <3> QED
      BY <3>1, <3>5 DEF NameAt
  <2> HIDE DEF r, seen
  <2> QED
    BY <1>8, <2>1, <2>2
<1>11. \A e : e \in Contents(X) /\ e[1] \in live <=> e \in Contents(Homes)
  <2>1. ASSUME NEW e \in Contents(Homes) PROVE e \in Contents(X) /\ e[1] \in live
    BY <1>3, <1>9 DEF Contents
  <2>2. ASSUME NEW e \in Contents(X), e[1] \in live PROVE e \in Contents(Homes)
    <3>0. PICK p \in X : \E s \in Slots : e = <<heap[p].object, s, NameAt(Home(heap[p].slots[s]))>>
      BY DEF Contents
    <3>1. PICK s \in Slots : e = <<heap[p].object, s, NameAt(Home(heap[p].slots[s]))>>
      BY <3>0
    <3>2. heap[p].object \in seen
      BY <1>2, <1>10, <2>2, <3>1 DEF Encloses
    <3>3. PICK q \in Homes : heap[q].object = heap[p].object
      BY <3>2
    <3>4. p \in Homes
      BY <1>3, <3>3 DEF Encloses
    <3> QED
      BY <3>1, <3>4 DEF Contents
  <2> QED
    BY <2>1, <2>2
<1> QED
  BY <1>1, <1>3, <1>8, <1>11 DEF NamesAreOfHomes

-----------------------------------------------------------------------------
(* While the program runs.                                                 *)

(* There are no copies, and what is at home is what is live.               *)
IdleHomes ==
  phase = "mutator" =>
    /\ \A p \in Places : Copied(p) = p
    /\ \A ref \in Refs : Home(ref) = IF ref = Null THEN Null ELSE Newest[ref]
    /\ Homes = LivePlaces

(* While the program runs, an object is at home where its newest           *)
(* generation is.                                                          *)
LEMMA IdleFacts == HeapInv => IdleHomes
<1> SUFFICES ASSUME HeapInv, phase = "mutator"
             PROVE  /\ \A p \in Places : Copied(p) = p
                    /\ \A ref \in Refs : Home(ref) = IF ref = Null THEN Null ELSE Newest[ref]
                    /\ Homes = LivePlaces
  BY DEF IdleHomes
<1>1. \A p \in Places : Copied(p) = p
  BY DEF HeapInv, NoneForwarded, Copied, Used
<1>2. Newest \in [Places -> Places] /\ LivePlaces \subseteq Places
  BY NewestFacts, LiveFacts DEF HeapInv, Typed
<1>3. \A ref \in Refs : Home(ref) = IF ref = Null THEN Null ELSE Newest[ref]
  BY <1>1, <1>2 DEF Home, Refs
<1>4. Homes = LivePlaces
  BY <1>1, <1>2 DEF Homes
<1> QED
  BY <1>1, <1>3, <1>4

(* What the program can name.                                              *)
LEMMA LiveRefs ==
  ASSUME HeapInv
  PROVE  /\ LivePlaces \subseteq Used(Places) /\ Null \notin Used(Places)
         /\ \A p \in LivePlaces : Newest[p] = p /\ heap[p].newer = Null
         /\ \A v \in Roots : root[v] # Null => Newest[root[v]] \in LivePlaces
         /\ \A p \in LivePlaces, s \in Slots :
              heap[p].slots[s] # Null => Newest[heap[p].slots[s]] \in LivePlaces
<1>1. PICK G \in SUBSET Used(Places) : Traced(G)
  BY DEF HeapInv, Sound
<1>2. LivePlaces \subseteq G
  BY <1>1, LiveAreTraced
<1>3. Null \notin Used(Places)
  BY NullAssumption DEF Used
<1>4. ASSUME NEW p \in LivePlaces PROVE Newest[p] = p /\ heap[p].newer = Null
  <2>1. p \in G /\ p \in Places
    BY <1>2 DEF Used
  <2>2. heap[p].newer = Null
    BY <1>1, <2>1 DEF Traced
  <2> QED
    BY <2>1, <2>2, NewestFacts DEF HeapInv, Typed, IsLast
<1> QED
  BY <1>2, <1>3, <1>4, LiveFacts DEF HeapInv, Used

(* Free places of a region.                                                *)
LEMMA FirstFreeFacts ==
  ASSUME config \in Configs, NEW region \in {Nursery, Half[0], Half[1], Tenure}, Free(region) # {}
  PROVE  LET p == FirstFree(region)
         IN p \in region /\ p \in Places /\ heap[p] = Null /\ p[2] \in Nat \ {0} /\ p[2] <= config[p[1]]
<1> DEFINE T == {p[2] : p \in Free(region)}
<1>1. region \subseteq Places /\ Free(region) \subseteq region
  BY PlacesAreApart DEF Free
<1>2. T \in SUBSET Nat /\ T # {}
  BY <1>1, PlacesAreApart
<1>3. \E x \in T : \A y \in T : x <= y
  <2> HIDE DEF T
  <2> QED
    BY <1>2, LeastExists
<1>4. \E p \in Free(region) : \A q \in Free(region) : p[2] <= q[2]
  BY <1>3
<1>5. FirstFree(region) \in Free(region)
  <2> HIDE DEF T
  <2> QED
    BY <1>4 DEF FirstFree
<1> QED
  BY <1>1, <1>5, PlacesAreApart DEF Free

(* The frontier covers the places that are taken.                          *)
LEMMA FrontierFacts ==
  ASSUME Typed, NEW p \in Places, p[2] <= config[p[1]]
  PROVE  /\ FrontierWith(p) \in 0 .. config["tenure"]
         /\ tenure_frontier <= FrontierWith(p)
         /\ p \in Tenure => p[2] <= FrontierWith(p)
<1>1. p[2] \in Nat /\ (p \in Tenure => p[1] = "tenure")
  BY PlacesAreApart
<1>2. config["tenure"] \in Nat /\ tenure_frontier \in Nat
  BY CollectorAssumption DEF Typed, Regions
<1> QED
  BY <1>1, <1>2 DEF Typed, FrontierWith

(* Chains that only become shorter still go down.                          *)
LEMMA RankedStays ==
  ASSUME NEW h, Ranked(h), NEW k,
         \A p \in Places : ~IsLast(k, p) => ~IsLast(h, p) /\ k[p].newer = h[p].newer
  PROVE  Ranked(k)
BY DEF Ranked

(* Between a step's effects on the heap and its invariant.                 *)
LEMMA MutatorTyped ==
  ASSUME HeapInv, phase = "mutator", UNCHANGED <<config, listVars, phase, work, promoted>>,
         root' \in [Roots -> Refs], heap' \in Heaps, remember_set' \subseteq Used(Tenure)',
         tenure_frontier' \in 0 .. config["tenure"],
         \A p \in Used(Tenure)' : p[2] <= tenure_frontier',
         \A p \in Half[0] \cup Half[1] : heap'[p] = Null <=> heap[p] = Null,
         resources' \subseteq Handles, nallocated' \in Nat
  PROVE  Typed' /\ ~InYoung'
<1>1. ~InYoung'
  BY DEF InYoung
<1>2. /\ graduate_list' = Used(Half[cur_grad_from])'
      /\ graduate_new_list' = Used(ToHalf)'
  BY DEF HeapInv, Typed, Used, ToHalf, listVars
<1> QED
  BY <1>1, <1>2 DEF HeapInv, Typed, listVars

(* The roots, as ManagedHeap sees them.                                    *)
Seen == [v \in Roots |-> Name(root[v])]

(* A step of ManagedHeap or a stuttering step.                             *)
AbstractNext == [ManagedHeap!Next]_(ManagedHeap!vars)

(* A reference that the program has is put into a root.                    *)
LEMMA AssignKeepsHeap ==
  ASSUME HeapInv, NEW v \in Roots, NEW ref \in Refs, ref # Null => Newest[ref] \in LivePlaces,
         Assign(v, ref)
  PROVE  HeapInv'
<1>1. UNCHANGED <<heap, Newest, config, listVars, gcVars, resources, remember_set, tenure_frontier, nallocated>>
  BY DEF Assign, Newest
<1>2. Typed' /\ ~InYoung'
  <2>1. /\ phase = "mutator" /\ root' \in [Roots -> Refs] /\ heap' \in Heaps
        /\ remember_set' \subseteq Used(Tenure)' /\ \A p \in Used(Tenure)' : p[2] <= tenure_frontier'
        /\ tenure_frontier' \in 0 .. config["tenure"] /\ resources' \subseteq Handles /\ nallocated' \in Nat
    BY <1>1 DEF HeapInv, Typed, Assign, Mutating, Used
  <2> QED
    BY <1>1, <2>1, MutatorTyped DEF gcVars
<1>3. PICK G \in SUBSET Used(Places) : Traced(G)
  BY DEF HeapInv, Sound
<1>4. LivePlaces \subseteq G
  BY <1>3, LiveAreTraced
<1>5. Traced(G)'
  BY <1>1, <1>2, <1>3, <1>4 DEF Traced, Assign, HeapInv, Typed
<1>6. Sound'
  BY <1>1, <1>3, <1>5 DEF Sound, Used
<1>7. Ranked(heap') /\ NativesDiffer' /\ AgendaIsClean' /\ NoneForwarded'
  BY <1>1 DEF HeapInv, NativesDiffer, AgendaIsClean, NoneForwarded, Used, gcVars
<1> QED
  BY <1>2, <1>6, <1>7 DEF HeapInv

(* The reachable objects are such a set.                                   *)
LEMMA HomesAreEnclosed ==
  ASSUME HeapInv, Names
  PROVE  Encloses(Homes)
<1>1. HomesAreLeast
  BY HomesFacts
<1> QED
  BY <1>1 DEF HomesAreLeast, Encloses, Names, Home

(* If the objects of X are named apart and keep their resources, so are    *)
(* those that the program sees.                                            *)
LEMMA EnclosedKeepNames ==
  ASSUME HeapInv', NEW X, Encloses(X)',
         \A p \in X : heap'[p].object \in Handles => heap'[p].native
  PROVE  Names'
<1>1. SeenOfEnclosed'
  BY SeenFacts, PTL
<1>2. Homes' \subseteq X
  BY <1>1 DEF SeenOfEnclosed
<1> QED
  BY <1>2 DEF Names, Encloses

(* An assignment is seen as one by ManagedHeap.                            *)
LEMMA AssignIsSeen ==
  ASSUME HeapInv, Names, NEW v \in Roots, NEW ref \in Refs, ref # Null => Newest[ref] \in LivePlaces,
         Assign(v, ref)
  PROVE  /\ Names'
         /\ Seen' = [Seen EXCEPT ![v] = Name(ref)]
         /\ LiveElements' = ManagedHeap!Reachable(Seen', LiveElements)
         /\ LiveElements = ManagedHeap!Reachable(Seen, LiveElements)
<1>1. HeapInv'
  BY AssignKeepsHeap
<1>2. /\ HomesAreLeast /\ NamesAreOfHomes /\ SeenOfEnclosed
      /\ SeenOfEnclosed'
  <2>1. HeapInv => SeenOfEnclosed
    BY SeenFacts
  <2> QED
    BY <1>1, <2>1, SeenFacts, HomesFacts, NamesFacts, PTL
<1>3. UNCHANGED <<heap, Newest>>
  BY DEF Assign, Newest
<1>4. \A r : Home(r)' = Home(r) /\ Name(r)' = Name(r) /\ NameAt(r)' = NameAt(r)
  BY <1>3 DEF Home, Copied, Name, NameAt
<1>5. PICK X : X = Homes
  OBVIOUS
<1>6. Encloses(X)
  BY <1>5, HomesAreEnclosed
<1>7. phase = "mutator" /\ IdleHomes
  BY IdleFacts DEF Assign, Mutating
<1>8. Home(ref) \in X \cup {Null}
  BY <1>5, <1>7 DEF IdleHomes
<1>9. root' = [root EXCEPT ![v] = ref] /\ root \in [Roots -> Refs]
  BY DEF Assign, HeapInv, Typed
<1>10. Encloses(X)'
  <2>1. ASSUME NEW u \in Roots PROVE Home(root[u])' \in X \cup {Null}
    <3>1. Home(root[u])' = Home(root'[u])
      BY <1>3 DEF Home, Copied
    <3> QED
      BY <1>6, <1>8, <1>9, <3>1 DEF Encloses
  <2>2. ASSUME NEW p \in X, NEW s \in Slots PROVE Home(heap[p].slots[s])' \in X \cup {Null}
    <3>1. Home(heap[p].slots[s])' = Home(heap[p].slots[s])
      BY <1>3 DEF Home, Copied
    <3> QED
      BY <1>6, <3>1 DEF Encloses
  <2> QED
    BY <1>3, <1>6, <2>1, <2>2 DEF Encloses, Used
<1>11. Names'
  BY <1>1, <1>3, <1>5, <1>10, EnclosedKeepNames DEF Names
<1>12. Seen' = [Seen EXCEPT ![v] = Name(ref)]
  <2>1. \A u \in Roots : Name(root[u])' = Name(root'[u])
    BY <1>3 DEF Name
  <2> QED
    BY <1>9, <2>1 DEF Seen
<1>13. Contents(X)' = Contents(X)
  BY <1>3 DEF Contents, Home, NameAt, Copied
<1>14. LiveElements = Contents(X)
  BY <1>2, <1>5 DEF NamesAreOfHomes
<1>15. LiveElements = ManagedHeap!Reachable(Seen, LiveElements)
  BY <1>2, <1>6, <1>14 DEF SeenOfEnclosed, Seen
<1>16. LiveElements' = ManagedHeap!Reachable(Seen, Contents(X))'
  BY <1>2, <1>10 DEF SeenOfEnclosed, Seen
<1>17. LiveElements' = ManagedHeap!Reachable(Seen', LiveElements)
  BY <1>13, <1>14, <1>16 DEF ManagedHeap!Reachable
<1> QED
  BY <1>11, <1>12, <1>15, <1>17

(* Clearing a root keeps the invariant, and is Assign of ManagedHeap.      *)
LEMMA AssignNullStep ==
  ASSUME IInv, NEW v \in Roots, Assign(v, Null)
  PROVE  IInv' /\ AbstractNext
<1>1. Null \in Refs
  BY DEF Refs
<1>2. HeapInv'
  BY <1>1, AssignKeepsHeap DEF IInv
<1>3. /\ Names'
      /\ Seen' = [Seen EXCEPT ![v] = Name(Null)]
      /\ LiveElements' = ManagedHeap!Reachable(Seen', LiveElements)
      /\ LiveElements = ManagedHeap!Reachable(Seen, LiveElements)
  BY <1>1, AssignIsSeen DEF IInv
<1>4. Name(Null) = Null /\ resources' = resources
  BY DEF Name, Assign
<1>5. AbstractNext
  <2>1. CASE Seen' = Seen
    BY <1>3, <1>4, <2>1 DEF AbstractNext, ManagedHeap!vars, Seen
  <2>2. CASE Seen' # Seen
    <3>1. ManagedHeap!Assign(v, Null)
      BY <1>3, <1>4 DEF ManagedHeap!Assign, Seen
    <3>2. Null \in ManagedHeap!Values
      BY DEF ManagedHeap!Values
    <3> QED
      BY <2>2, <3>1, <3>2 DEF AbstractNext, ManagedHeap!Next, Seen
  <2> QED
    BY <2>1, <2>2
<1> QED
  BY <1>2, <1>3, <1>5 DEF IInv

(* A load keeps the invariant, and is Load of ManagedHeap.                 *)
LEMMA LoadStep ==
  ASSUME IInv, NEW v \in Roots, NEW u \in Roots, NEW s \in Slots, Load(v, u, s)
  PROVE  IInv' /\ AbstractNext
<1> DEFINE p == Newest[root[u]]
           ref == heap[p].slots[s]
<1>1. root[u] # Null /\ Assign(v, ref)
  BY DEF Load, Container
<1>2. p \in LivePlaces /\ p \in Used(Places)
  BY <1>1, LiveRefs DEF IInv
<1>3. ref \in Refs /\ (ref # Null => Newest[ref] \in LivePlaces)
  <2>1. ref \in Refs
    BY <1>2, FieldTypes DEF IInv, HeapInv, Typed
  <2> QED
    BY <1>2, <2>1, LiveRefs DEF IInv
<1> HIDE DEF ref
<1>4. HeapInv'
  BY <1>1, <1>3, AssignKeepsHeap DEF IInv
<1>5. /\ Names'
      /\ Seen' = [Seen EXCEPT ![v] = Name(ref)]
      /\ LiveElements' = ManagedHeap!Reachable(Seen', LiveElements)
      /\ LiveElements = ManagedHeap!Reachable(Seen, LiveElements)
  BY <1>1, <1>3, AssignIsSeen DEF IInv
<1>6. resources' = resources
  BY <1>1 DEF Assign
<1>7. <<Name(root[u]), s, Name(ref)>> \in LiveElements
  <2>1. Newest[p] = p
    BY <1>2, LiveRefs DEF IInv
  <2>2. p # Null
    BY <1>2, LiveRefs DEF IInv
  <2>3. Name(p) = Name(root[u])
    BY <1>1, <2>1, <2>2 DEF Name
  <2>4. <<Name(p), s, Name(heap[p].slots[s])>> \in LiveElements
    BY <1>2 DEF LiveElements
  <2> QED
    BY <2>3, <2>4 DEF ref
<1>8. AbstractNext
  <2>1. CASE Seen' = Seen
    BY <1>5, <1>6, <2>1 DEF AbstractNext, ManagedHeap!vars, Seen
  <2>2. CASE Seen' # Seen
    <3>1. ManagedHeap!Assign(v, Name(ref))
      BY <1>5, <1>6 DEF ManagedHeap!Assign, Seen
    <3>2. ManagedHeap!Load(v, u)
      <4> DEFINE e == <<Name(root[u]), s, Name(ref)>>
      <4>1. e[1] = [w \in Roots |-> Name(root[w])][u] /\ e[3] = Name(ref) /\ e \in LiveElements
        BY <1>7
      <4> QED
        BY <3>1, <4>1 DEF ManagedHeap!Load
    <3> QED
      BY <2>2, <3>2 DEF AbstractNext, ManagedHeap!Next, Seen
  <2> QED
    BY <2>1, <2>2
<1> QED
  BY <1>4, <1>5, <1>8 DEF IInv

(* An object is made.                                                      *)
LEMMA NewObjectType ==
  ASSUME NEW o \in Objects
  PROVE  NewObject(o) \in Object
BY CollectorAssumption DEF NewObject, Object, Refs

(* A new object has a native resource if it is a handle.                   *)
LEMMA NewIsNative ==
  ASSUME NEW o
  PROVE  NewObject(o).native <=> o \in Handles
<1>1. NewObject(o).native = (o \in Handles)
  BY DEF NewObject
<1> QED
  BY <1>1

(* A fresh name is neither in use nor waiting for its finalizer.           *)
LEMMA FreshNamesFacts ==
  ASSUME NEW o \in FreshNames
  PROVE  o \in Objects /\ o \notin LiveNames /\ o \notin resources
<1> DEFINE unused == Objects \ (LiveNames \cup resources)
           kinds  == {unused \cap Handles, unused \cap Leaves, unused \ (Handles \cup Leaves)} \ {{}}
<1>1. PICK kind \in kinds : o = CHOOSE x \in kind : TRUE
  BY DEF FreshNames
<1>2. o \in unused
  BY <1>1
<1> QED
  BY <1>2

(* What New does to the heap.                                              *)
LEMMA NewEffect ==
  ASSUME HeapInv, NEW v \in Roots, NEW o \in Objects, o \notin resources,
         NEW region \in {Nursery, Tenure}, New(v, o, region),
         NEW p, p = FirstFree(region)
  PROVE  /\ p \in region /\ p \in Places /\ heap[p] = Null
         /\ heap' \in Heaps /\ Ranked(heap') /\ Typed' /\ ~InYoung'
         /\ heap'[p] = NewObject(o)
         /\ \A q \in Places \ {p} : heap'[q] = heap[q]
         /\ Used(Places)' = Used(Places) \cup {p}
         /\ \A q \in Places : heap[Newest[q]] # Null => Newest'[q] = Newest[q]
         /\ Newest'[p] = p
<1>1. Typed /\ Ranked(heap) /\ heap \in Heaps /\ phase = "mutator"
  BY DEF HeapInv, Typed, New, Mutating
<1>2. Free(region) # {} /\ heap' = [heap EXCEPT ![p] = NewObject(o)]
      /\ root' = [root EXCEPT ![v] = p] /\ tenure_frontier' = FrontierWith(p)
  BY DEF New
<1>3. p \in region /\ p \in Places /\ heap[p] = Null /\ p[2] <= config[p[1]]
  BY <1>1, <1>2, FirstFreeFacts DEF Typed
<1>4. NewObject(o) \in Object /\ NewObject(o) # Null /\ NewObject(o).newer = Null
  BY NewObjectType, NullAssumption DEF NewObject
<1>5. heap'[p] = NewObject(o) /\ heap' \in Heaps /\ \A q \in Places \ {p} : heap'[q] = heap[q]
  BY <1>1, <1>2, <1>3, <1>4 DEF Heaps
<1>6. Ranked(heap')
  <2>1. \A q \in Places : ~IsLast(heap', q) => ~IsLast(heap, q) /\ heap'[q].newer = heap[q].newer
    BY <1>4, <1>5 DEF IsLast
  <2> QED
    BY <1>1, <2>1, RankedStays
<1>7. Used(Places)' = Used(Places) \cup {p}
  BY <1>3, <1>4, <1>5 DEF Used
<1>8. \A q \in Places : heap[Newest[q]] # Null => Newest'[q] = Newest[q]
  <2>1. \A q \in Used(Places) : heap'[q] # Null /\ heap'[q].newer = heap[q].newer
    BY <1>3, <1>5 DEF Used
  <2> QED
    BY <1>1, <1>5, <1>6, <2>1, NewestStays
<1>9. Newest'[p] = p
  BY <1>3, <1>4, <1>5, <1>6, NewestFactsNext DEF IsLast
<1>10. FrontierWith(p) \in 0 .. config["tenure"] /\ tenure_frontier <= FrontierWith(p)
       /\ (p \in Tenure => p[2] <= FrontierWith(p))
  BY <1>1, <1>3, FrontierFacts
<1>11. Typed' /\ ~InYoung'
  <2>1. UNCHANGED <<config, listVars, phase, work, promoted, remember_set>>
    BY DEF New, Mutating, gcVars, listVars
  <2>2. root' \in [Roots -> Refs]
    BY <1>1, <1>2, <1>3 DEF Typed, Refs
  <2>3. remember_set' \subseteq Used(Tenure)'
    BY <1>1, <1>5, <1>3, <2>1 DEF Typed, Used, Places
  <2>4. \A q \in Used(Tenure)' : q[2] <= tenure_frontier'
    <3>1. \A q \in Used(Tenure)' : q = p \/ q \in Used(Tenure)
      BY <1>5 DEF Used, Places
    <3>2. \A q \in Used(Tenure) : q[2] <= tenure_frontier /\ q[2] \in Nat
      BY <1>1, PlacesAreApart DEF Typed, Used, Places
    <3>3. tenure_frontier \in Int /\ FrontierWith(p) \in Int
      BY <1>1, <1>10, CollectorAssumption DEF Typed, Regions
    <3>4. \A q \in Used(Tenure)' : q \in Tenure
      BY DEF Used
    <3>5. ASSUME NEW q \in Used(Tenure), q \in Tenure PROVE q[2] <= tenure_frontier'
      BY <1>2, <1>10, <3>2, <3>3, <3>5
    <3> QED
      BY <1>2, <1>10, <3>1, <3>4, <3>5
  <2>5. tenure_frontier' \in 0 .. config["tenure"]
    BY <1>2, <1>10
  <2>6. \A q \in Half[0] \cup Half[1] : heap'[q] = Null <=> heap[q] = Null
    <3>1. p \notin Half[0] \cup Half[1]
      BY <1>3, PlacesAreApart
    <3>2. Half[0] \cup Half[1] \subseteq Places
      BY PlacesAreApart
    <3> QED
      BY <1>5, <3>1, <3>2
  <2>7. resources' \subseteq Handles /\ nallocated' \in Nat
    BY <1>1 DEF New, Typed
  <2> QED
    BY <1>1, <1>5, <2>1, <2>2, <2>3, <2>4, <2>5, <2>6, <2>7, MutatorTyped
<1> QED
  BY <1>3, <1>5, <1>6, <1>7, <1>8, <1>9, <1>11

(* The heap is in order after an allocation.                               *)
LEMMA NewKeepsHeap ==
  ASSUME HeapInv, NEW v \in Roots, NEW o \in Objects, o \notin resources,
         NEW region \in {Nursery, Tenure}, New(v, o, region)
  PROVE  HeapInv'
<1>1. PICK p : p = FirstFree(region)
  OBVIOUS
<1>2. /\ p \in region /\ p \in Places /\ heap[p] = Null
      /\ heap' \in Heaps /\ Ranked(heap') /\ Typed' /\ ~InYoung'
      /\ heap'[p] = NewObject(o)
      /\ \A q \in Places \ {p} : heap'[q] = heap[q]
      /\ Used(Places)' = Used(Places) \cup {p}
      /\ \A q \in Places : heap[Newest[q]] # Null => Newest'[q] = Newest[q]
      /\ Newest'[p] = p
  BY <1>1, NewEffect
<1>3. PICK G \in SUBSET Used(Places) : Traced(G)
  BY DEF HeapInv, Sound
<1>4. /\ root' = [root EXCEPT ![v] = p] /\ UNCHANGED <<remember_set, phase, agenda>>
      /\ resources' = resources \cup ({o} \cap Handles) /\ phase = "mutator" /\ agenda = << >>
  BY <1>1 DEF New, gcVars, Mutating
<1>5. /\ \A q \in G : q \in Places /\ heap[q] # Null /\ q # p /\ heap'[q] = heap[q]
      /\ \A ref \in Places : Newest[ref] \in G => Newest'[ref] \in G
  BY <1>2, <1>3 DEF Used
<1>6. heap \in Heaps /\ root \in [Roots -> Refs] /\ remember_set \subseteq Places
  BY SpacesAreApart DEF HeapInv, Typed, Used
<1>7. Traced(G \cup {p})'
  <2>1. \A q \in G \cup {p} : heap'[q].newer = Null
    BY <1>2, <1>3, <1>5 DEF Traced, NewObject
  <2>2. ASSUME NEW q \in G \cup {p}, NEW s \in Slots, heap'[q].slots[s] # Null
        PROVE  Newest'[heap'[q].slots[s]] \in G \cup {p}
    <3>1. q \in G
      BY <1>2, <2>2 DEF NewObject
    <3>2. heap'[q].slots[s] = heap[q].slots[s] /\ heap[q].slots[s] \in Places
      BY <1>3, <1>5, <1>6, <2>2, <3>1, FieldTypes DEF Refs
    <3> QED
      BY <1>3, <1>5, <2>2, <3>1, <3>2 DEF Traced
  <2>3. ASSUME NEW u \in Roots, root'[u] # Null PROVE Newest'[root'[u]] \in G \cup {p}
    BY <1>2, <1>3, <1>4, <1>5, <1>6, <2>3 DEF Traced, Refs
  <2>4. \A q \in remember_set' : Newest'[q] \in G \cup {p}
    BY <1>3, <1>4, <1>5, <1>6 DEF Traced
  <2> QED
    BY <1>2, <2>1, <2>2, <2>3, <2>4 DEF Traced
<1>8. Sound'
  <2>1. (G \cup {p}) \in SUBSET Used(Places)'
    BY <1>2, <1>3
  <2> QED
    BY <1>7, <2>1 DEF Sound
<1>9. NativesDiffer'
  <2>1. \A q \in Used(Places) : q # p /\ q \in Places /\ heap'[q] = heap[q]
    BY <1>2 DEF Used
  <2>2. \A q \in Used(Places) : heap[q].native => heap[q].object \in resources
    BY DEF HeapInv, NativesDiffer
  <2>3. heap'[p].native => o \in Handles
    BY <1>2, NewIsNative
  <2>4. heap'[p].object = o
    BY <1>2 DEF NewObject
  <2>5. \A q \in Used(Places)' : heap'[q].native => heap'[q].object \in resources'
    BY <1>2, <1>4, <2>1, <2>2, <2>3, <2>4
  <2>6. ASSUME NEW q \in Used(Places)', NEW r \in Used(Places)',
               heap'[q].native, heap'[r].native, heap'[q].object = heap'[r].object
        PROVE  q = r
    <3>1. CASE q \in Used(Places) /\ r \in Used(Places)
      BY <2>1, <2>6, <3>1 DEF HeapInv, NativesDiffer
    <3>2. CASE q = p \/ r = p
      BY <1>2, <2>1, <2>2, <2>4, <2>6, <3>2
    <3> QED
      BY <1>2, <2>6, <3>1, <3>2
  <2> QED
    BY <2>5, <2>6 DEF NativesDiffer
<1>10. AgendaIsClean' /\ NoneForwarded'
  <2>1. heap'[p].forward = Null
    BY <1>2 DEF NewObject
  <2>2. \A q \in Used(Places) : q # p /\ q \in Places /\ heap'[q] = heap[q]
    BY <1>2 DEF Used
  <2> QED
    BY <1>2, <1>4, <2>1, <2>2 DEF AgendaIsClean, NoneForwarded, HeapInv
<1> QED
  BY <1>2, <1>8, <1>9, <1>10 DEF HeapInv

(* An allocation keeps the invariant, and is New of ManagedHeap.           *)
LEMMA NewStep ==
  ASSUME IInv, NEW v \in Roots, NEW o \in FreshNames,
         NEW region \in {Nursery, Tenure}, New(v, o, region)
  PROVE  IInv' /\ AbstractNext
<1>1. PICK p : p = FirstFree(region)
  OBVIOUS
<1>2. o \in Objects /\ o \notin LiveNames /\ o \notin resources /\ HeapInv /\ Names
  BY FreshNamesFacts DEF IInv
<1>3. /\ p \in region /\ p \in Places /\ heap[p] = Null
      /\ heap'[p] = NewObject(o)
      /\ \A q \in Places \ {p} : heap'[q] = heap[q]
      /\ Used(Places)' = Used(Places) \cup {p}
      /\ \A q \in Places : heap[Newest[q]] # Null => Newest'[q] = Newest[q]
      /\ Newest'[p] = p
  BY <1>1, <1>2, NewEffect
<1>4. /\ root' = [root EXCEPT ![v] = p] /\ phase' = "mutator" /\ phase = "mutator"
      /\ resources' = resources \cup ({o} \cap Handles)
  BY <1>1 DEF New, gcVars, Mutating
<1>5. HeapInv'
  BY <1>2, NewKeepsHeap
<1>6. /\ HomesAreLeast /\ NamesAreOfHomes /\ NamesAreOfHomes' /\ IdleHomes /\ IdleHomes'
      /\ SeenOfEnclosed'
  <2>1. HeapInv => HomesAreLeast /\ NamesAreOfHomes
    BY HomesFacts, NamesFacts
  <2>2. HeapInv => IdleHomes
    BY IdleFacts
  <2> QED
    BY <1>2, <1>5, <2>1, <2>2, SeenFacts, IdleFacts, NamesFacts, PTL
<1>7. PICK X : X = Homes
  OBVIOUS
<1>8. Encloses(X)
  BY <1>2, <1>7, HomesAreEnclosed
<1>9. /\ heap \in Heaps /\ root \in [Roots -> Refs] /\ heap' \in Heaps /\ root' \in [Roots -> Refs]
      /\ Null \notin Used(Places)
  BY <1>2, <1>5, NullAssumption DEF HeapInv, Typed, Used
<1>10. \A q \in X : q \in Used(Places) /\ q \in Places /\ q # p /\ q # Null /\ heap'[q] = heap[q]
  BY <1>3, <1>8, <1>9 DEF Encloses, Used
<1>11. ASSUME NEW ref \in Refs, Home(ref) \in X \cup {Null}
       PROVE  Home(ref)' = Home(ref)
  <2>1. CASE ref = Null
    BY <2>1 DEF Home
  <2>2. CASE ref # Null
    <3>1. ref \in Places /\ Home(ref) = Newest[ref] /\ Newest[ref] \in Places
      BY <1>2, <1>4, <1>6, <2>2, NewestFacts DEF IdleHomes, Refs, HeapInv, Typed
    <3>2. Newest[ref] \in Used(Places)
      BY <1>8, <1>11, <3>1, NullAssumption DEF Encloses
    <3>3. Newest'[ref] = Newest[ref]
      BY <1>3, <3>1, <3>2 DEF Used
    <3>4. Home(ref)' = Newest'[ref]
      BY <1>4, <1>6, <2>2 DEF IdleHomes
    <3> QED
      BY <3>1, <3>3, <3>4
  <2> QED
    BY <2>1, <2>2
<1>12. ASSUME NEW q \in X, NEW s \in Slots
       PROVE  /\ Home(heap[q].slots[s])' = Home(heap[q].slots[s])
              /\ Home(heap[q].slots[s]) \in X \cup {Null}
  <2>1. heap[q].slots[s] \in Refs /\ Home(heap[q].slots[s]) \in X \cup {Null}
    BY <1>8, <1>9, <1>10, FieldTypes DEF Encloses
  <2>2. PICK ref : ref = heap[q].slots[s]
    OBVIOUS
  <2>3. Home(ref)' = Home(ref)
    BY <1>11, <2>1, <2>2
  <2>4. Home(heap[q].slots[s])' = Home(ref)'
    BY <1>10, <2>2 DEF Home
  <2> QED
    BY <2>1, <2>2, <2>3, <2>4
<1>13. Home(p)' = p /\ \A s \in Slots : heap'[p].slots[s] = Null /\ Home(heap[p].slots[s])' = Null
  <2>1. Home(p)' = p
    BY <1>3, <1>4, <1>6, NullAssumption DEF IdleHomes, Refs
  <2>2. \A s \in Slots : heap'[p].slots[s] = Null
    BY <1>3 DEF NewObject
  <2> QED
    BY <2>1, <2>2 DEF Home
<1>14. \A u \in Roots \ {v} : root'[u] = root[u] /\ Home(root[u])' = Home(root[u])
  <2> SUFFICES ASSUME NEW u \in Roots \ {v}
               PROVE  root'[u] = root[u] /\ Home(root[u])' = Home(root[u])
    OBVIOUS
  <2>1. PICK ref : ref = root[u]
    OBVIOUS
  <2>2. root'[u] = ref /\ ref \in Refs /\ Home(ref) \in X \cup {Null}
    BY <1>4, <1>8, <1>9, <2>1 DEF Encloses
  <2>3. Home(ref)' = Home(ref)
    BY <1>11, <2>2
  <2>4. Home(root[u])' = Home(ref)'
    BY <2>2 DEF Home
  <2> QED
    BY <2>1, <2>2, <2>3, <2>4
<1>15. root'[v] = p /\ Home(root[v])' = p
  <2>1. root'[v] = p
    BY <1>4, <1>9
  <2>2. Home(root[v])' = Home(p)'
    BY <2>1 DEF Home
  <2> QED
    BY <1>13, <2>1, <2>2
<1>16. \A q \in X : heap'[q].object # heap'[p].object /\ heap[q].object # o
  <2>1. \A q \in X : heap[q].object # o
    BY <1>2, <1>6, <1>7 DEF NamesAreOfHomes
  <2> QED
    BY <1>3, <1>10, <2>1 DEF NewObject
<1>17. Encloses(X \cup {p})'
  <2>1. X \cup {p} \subseteq Used(Places)'
    BY <1>3, <1>10
  <2>2. \A u \in Roots : Home(root[u])' \in X \cup {p} \cup {Null}
    BY <1>8, <1>14, <1>15 DEF Encloses
  <2>3. ASSUME NEW q \in X \cup {p}, NEW s \in Slots
        PROVE  Home(heap[q].slots[s])' \in X \cup {p} \cup {Null}
    <3>1. CASE q \in X
      BY <1>12, <3>1
    <3>2. CASE q = p
      BY <1>13, <3>2
    <3> QED
      BY <3>1, <3>2
  <2>4. \A q, r \in X \cup {p} : heap'[q].object = heap'[r].object => q = r
    BY <1>8, <1>10, <1>16 DEF Encloses
  <2> QED
    BY <2>1, <2>2, <2>3, <2>4 DEF Encloses
<1>18. Names'
  <2>1. \A q \in X : heap'[q].object \in Handles => heap'[q].native
    BY <1>2, <1>7, <1>10 DEF Names
  <2>2. heap'[p].object \in Handles => heap'[p].native
    BY <1>3, NewIsNative DEF NewObject
  <2> QED
    BY <1>5, <1>17, <2>1, <2>2, EnclosedKeepNames
<1>19. \A q \in X \cup {Null} : NameAt(q)' = NameAt(q)
  BY <1>10 DEF NameAt
<1>20. Seen' = [Seen EXCEPT ![v] = o]
  <2>1. \A u \in Roots : Name(root[u]) = NameAt(Home(root[u])) /\ Name(root[u])' = NameAt(Home(root[u]))'
    BY <1>6 DEF NamesAreOfHomes
  <2>2. Name(root[v])' = o
    <3>1. Name(root[v])' = NameAt(p)'
      BY <1>15, <2>1 DEF NameAt
    <3> QED
      BY <1>3, <3>1, NullAssumption DEF NameAt, NewObject
  <2>3. ASSUME NEW u \in Roots \ {v} PROVE Name(root[u])' = Name(root[u])
    <3>1. PICK h : h = Home(root[u])
      OBVIOUS
    <3>2. Name(root[u])' = NameAt(h)' /\ Name(root[u]) = NameAt(h) /\ h \in X \cup {Null}
      BY <1>8, <1>14, <2>1, <3>1 DEF Encloses, NameAt
    <3> QED
      BY <1>19, <3>2
  <2> QED
    BY <2>2, <2>3 DEF Seen
<1>21. Contents(X \cup {p})' = LiveElements \cup {<<o, s, Null>> : s \in Slots}
  <2>1. LiveElements = Contents(X)
    BY <1>6, <1>7 DEF NamesAreOfHomes
  <2>2. ASSUME NEW q \in X, NEW s \in Slots
        PROVE  <<heap'[q].object, s, NameAt(Home(heap[q].slots[s]))'>>
               = <<heap[q].object, s, NameAt(Home(heap[q].slots[s]))>>
    <3>1. PICK h : h = Home(heap[q].slots[s])
      OBVIOUS
    <3>2. NameAt(Home(heap[q].slots[s]))' = NameAt(h)' /\ h \in X \cup {Null}
      BY <1>12, <3>1 DEF NameAt
    <3> QED
      BY <1>10, <1>19, <3>1, <3>2
  <2>3. \A s \in Slots : <<heap'[p].object, s, NameAt(Home(heap[p].slots[s]))'>> = <<o, s, Null>>
    BY <1>3, <1>13 DEF NameAt, NewObject
  <2>4. \A e : e \in Contents(X) <=>
          \E q \in X, s \in Slots : e = <<heap[q].object, s, NameAt(Home(heap[q].slots[s]))>>
    BY DEF Contents
  <2>5. \A e : e \in Contents(X \cup {p})' <=>
          \E q \in X \cup {p}, s \in Slots : e = <<heap'[q].object, s, NameAt(Home(heap[q].slots[s]))'>>
    BY DEF Contents
  <2>6. \A e : e \in Contents(X \cup {p})' <=> e \in Contents(X) \cup {<<o, s, Null>> : s \in Slots}
    <3> TAKE e
    <3>1. e \in Contents(X \cup {p})' <=>
            \/ \E q \in X, s \in Slots : e = <<heap'[q].object, s, NameAt(Home(heap[q].slots[s]))'>>
            \/ \E s \in Slots : e = <<heap'[p].object, s, NameAt(Home(heap[p].slots[s]))'>>
      BY <2>5
    <3>2. e \in Contents(X) <=>
            \E q \in X, s \in Slots : e = <<heap'[q].object, s, NameAt(Home(heap[q].slots[s]))'>>
      BY <2>2, <2>4
    <3>3. (\E s \in Slots : e = <<heap'[p].object, s, NameAt(Home(heap[p].slots[s]))'>>)
          <=> \E s \in Slots : e = <<o, s, Null>>
      BY <2>3
    <3> QED
      BY <3>1, <3>2, <3>3
  <2> QED
    BY <2>1, <2>6
<1>22. LiveElements' = ManagedHeap!Reachable(Seen', LiveElements \cup {<<o, s, Null>> : s \in Slots})
  <2>1. LiveElements' = ManagedHeap!Reachable(Seen, Contents(X \cup {p}))'
    BY <1>6, <1>17 DEF SeenOfEnclosed, Seen
  <2> QED
    BY <1>21, <2>1 DEF ManagedHeap!Reachable
<1>23. o \notin ManagedHeap!Existing
  <2>1. \A e \in LiveElements : \E p_1 \in Homes : e[1] = heap[p_1].object
    BY <1>6 DEF NamesAreOfHomes, Contents
  <2> QED
    BY <1>7, <1>16, <2>1 DEF ManagedHeap!Existing
<1>24. Seen' # Seen
  <2>1. Name(root[v]) = NameAt(Home(root[v])) /\ Home(root[v]) \in X \cup {Null}
    BY <1>6, <1>8 DEF NamesAreOfHomes, Encloses
  <2>2. Name(root[v]) # o
    BY <1>2, <1>16, <2>1, NullAssumption DEF NameAt
  <2> QED
    BY <1>20, <2>2 DEF Seen
<1>25. AbstractNext
  <2>1. ManagedHeap!New(v, o)
    BY <1>2, <1>4, <1>20, <1>22, <1>23 DEF ManagedHeap!New, Seen
  <2> QED
    BY <1>2, <1>24, <2>1 DEF AbstractNext, ManagedHeap!Next, Seen
<1> QED
  BY <1>5, <1>18, <1>25 DEF IInv

(* A reference that the program has is stored into an object that it has.  *)
StoredRef(ref) == ref \in {Null} \cup {root[u] : u \in Roots}

(* One slot changes, and the remember set grows by the object, if it must. *)
LEMMA StoreEffect ==
  ASSUME HeapInv, NEW v \in Roots, NEW s \in Slots, NEW ref, StoredRef(ref),
         Store(v, s, ref), NEW c, c = Newest[root[v]]
  PROVE  /\ c \in LivePlaces /\ c \in Used(Places) /\ Newest[c] = c
         /\ root[v] # Null /\ ref \in Refs /\ (ref # Null => Newest[ref] \in LivePlaces)
         /\ heap' \in Heaps /\ Ranked(heap') /\ Typed' /\ ~InYoung'
         /\ \A q \in Places \ {c} : heap'[q] = heap[q]
         /\ heap'[c] = [heap[c] EXCEPT !.slots = [heap[c].slots EXCEPT ![s] = ref]]
         /\ Used(Places)' = Used(Places)
         /\ remember_set' \subseteq remember_set \cup {c}
         /\ \A q \in Places : heap[Newest[q]] # Null => Newest'[q] = Newest[q]
<1>1. Typed /\ Ranked(heap) /\ heap \in Heaps /\ phase = "mutator"
  BY DEF HeapInv, Typed, Store, Mutating
<1>2. root[v] # Null /\ heap' = [heap EXCEPT ![c].slots[s] = ref]
  BY DEF Store, Container
<1>3. c \in LivePlaces /\ c \in Used(Places) /\ Newest[c] = c /\ c \in Places
  BY <1>2, LiveRefs DEF Used
<1>4. ref \in Refs /\ (ref # Null => Newest[ref] \in LivePlaces)
  BY <1>1, LiveRefs DEF StoredRef, Typed, Refs
<1>5. /\ \A q \in Places \ {c} : heap'[q] = heap[q]
      /\ heap'[c] = [heap[c] EXCEPT !.slots = [heap[c].slots EXCEPT ![s] = ref]]
  BY <1>1, <1>2, <1>3 DEF Heaps
<1>6. heap'[c] \in Object /\ heap'[c].newer = heap[c].newer /\ heap'[c] # Null
  BY <1>1, <1>3, <1>4, <1>5, FieldTypes, NullAssumption DEF Object
<1>7. heap' \in Heaps
  BY <1>1, <1>2, <1>5, <1>6 DEF Heaps
<1>8. \A q \in Places : (heap'[q] = Null <=> heap[q] = Null) /\ (heap[q] # Null => heap'[q].newer = heap[q].newer)
  BY <1>3, <1>5, <1>6 DEF Used
<1>9. \A region \in SUBSET Places : Used(region)' = Used(region)
  BY <1>8 DEF Used
<1>10. Ranked(heap')
  <2>1. \A q \in Places : ~IsLast(heap', q) => ~IsLast(heap, q) /\ heap'[q].newer = heap[q].newer
    BY <1>8 DEF IsLast
  <2> QED
    BY <1>1, <2>1, RankedStays
<1>11. \A q \in Places : heap[Newest[q]] # Null => Newest'[q] = Newest[q]
  BY <1>1, <1>7, <1>8, <1>10, NewestStays DEF Used
<1>12. remember_set' \subseteq remember_set \cup {c} /\ (remember_set' = remember_set \/ c \in Tenure)
  BY DEF Store, WriteBarrier
<1>13. Typed' /\ ~InYoung'
  <2>1. UNCHANGED <<config, listVars, phase, work, promoted, root, tenure_frontier, resources, nallocated>>
    BY DEF Store, gcVars
  <2>2. Tenure \in SUBSET Places /\ Half[0] \cup Half[1] \subseteq Places
    BY PlacesAreApart
  <2>3. Used(Tenure)' = Used(Tenure)
    BY <1>9, <2>2
  <2>4. remember_set' \subseteq Used(Tenure)'
    BY <1>1, <1>3, <1>12, <2>3 DEF Typed, Used
  <2>5. \A q \in Used(Tenure)' : q[2] <= tenure_frontier'
    BY <1>1, <2>1, <2>3 DEF Typed
  <2>6. \A q \in Half[0] \cup Half[1] : heap'[q] = Null <=> heap[q] = Null
    BY <1>8, <2>2
  <2> QED
    BY <1>1, <1>7, <2>1, <2>4, <2>5, <2>6, MutatorTyped DEF Typed
<1>14. Used(Places)' = Used(Places)
  BY <1>9
<1> QED
  BY <1>2, <1>3, <1>4, <1>5, <1>7, <1>10, <1>11, <1>12, <1>13, <1>14

(* The heap is in order after a store.                                     *)
LEMMA StoreKeepsHeap ==
  ASSUME HeapInv, NEW v \in Roots, NEW s \in Slots, NEW ref, StoredRef(ref), Store(v, s, ref)
  PROVE  HeapInv'
<1>1. PICK c : c = Newest[root[v]]
  OBVIOUS
<1>2. /\ c \in LivePlaces /\ c \in Used(Places) /\ Newest[c] = c
      /\ ref \in Refs /\ (ref # Null => Newest[ref] \in LivePlaces)
      /\ heap' \in Heaps /\ Ranked(heap') /\ Typed' /\ ~InYoung'
      /\ \A q \in Places \ {c} : heap'[q] = heap[q]
      /\ heap'[c] = [heap[c] EXCEPT !.slots = [heap[c].slots EXCEPT ![s] = ref]]
      /\ Used(Places)' = Used(Places)
      /\ remember_set' \subseteq remember_set \cup {c}
      /\ \A q \in Places : heap[Newest[q]] # Null => Newest'[q] = Newest[q]
  BY <1>1, StoreEffect
<1>3. PICK G \in SUBSET Used(Places) : Traced(G)
  BY DEF HeapInv, Sound
<1>4. LivePlaces \subseteq G
  BY <1>3, LiveAreTraced
<1>5. UNCHANGED <<root, resources, phase, agenda>> /\ phase = "mutator"
  BY DEF Store, gcVars, Mutating
<1>6. heap \in Heaps /\ root \in [Roots -> Refs] /\ remember_set \subseteq Places
  BY SpacesAreApart DEF HeapInv, Typed, Used
<1>7. \A q \in Used(Places) :
        /\ q \in Places /\ heap[q] # Null
        /\ heap'[q].newer = heap[q].newer /\ heap'[q].object = heap[q].object
        /\ heap'[q].native = heap[q].native /\ heap'[q].forward = heap[q].forward
        /\ \A t \in Slots : heap'[q].slots[t] = IF q = c /\ t = s THEN ref ELSE heap[q].slots[t]
  <2> SUFFICES ASSUME NEW q \in Used(Places)
               PROVE  /\ q \in Places /\ heap[q] # Null
                      /\ heap'[q].newer = heap[q].newer /\ heap'[q].object = heap[q].object
                      /\ heap'[q].native = heap[q].native /\ heap'[q].forward = heap[q].forward
                      /\ \A t \in Slots : heap'[q].slots[t] = IF q = c /\ t = s THEN ref ELSE heap[q].slots[t]
    OBVIOUS
  <2>1. q \in Places /\ heap[q] # Null
    BY DEF Used
  <2>2. CASE q # c
    BY <1>2, <2>1, <2>2
  <2>3. CASE q = c
    BY <1>2, <1>6, <2>1, <2>3, FieldTypes DEF Object
  <2> QED
    BY <2>1, <2>2, <2>3
<1>8. \A r \in Places : Newest[r] \in G => Newest'[r] \in G
  BY <1>2, <1>3 DEF Used
<1>9. Traced(G)'
  <2>1. ASSUME NEW q \in G, NEW t \in Slots, heap'[q].slots[t] # Null
        PROVE  Newest'[heap'[q].slots[t]] \in G
    <3>1. heap[q].slots[t] \in Refs
      BY <1>3, <1>6, FieldTypes
    <3>2. CASE q = c /\ t = s
      BY <1>2, <1>3, <1>4, <1>7, <1>8, <2>1, <3>2 DEF Refs
    <3>3. CASE ~(q = c /\ t = s)
      BY <1>3, <1>7, <1>8, <2>1, <3>1, <3>3 DEF Refs, Traced
    <3> QED
      BY <3>2, <3>3
  <2>2. \A q \in remember_set' : Newest'[q] \in G
    BY <1>2, <1>3, <1>4, <1>6, <1>8 DEF Traced, Used
  <2>3. \A u \in Roots : root'[u] # Null => Newest'[root'[u]] \in G
    BY <1>3, <1>5, <1>6, <1>8 DEF Traced, Refs
  <2>4. \A q \in G : heap'[q].newer = Null
    BY <1>3, <1>7 DEF Traced
  <2> QED
    BY <1>2, <2>1, <2>2, <2>3, <2>4 DEF Traced
<1>10. Sound'
  BY <1>2, <1>3, <1>9 DEF Sound
<1>11. NativesDiffer' /\ AgendaIsClean' /\ NoneForwarded'
  <2>1. NativesDiffer'
    BY <1>2, <1>5, <1>7 DEF HeapInv, NativesDiffer
  <2>2. NoneForwarded'
    BY <1>2, <1>5, <1>7 DEF HeapInv, NoneForwarded
  <2>3. AgendaIsClean'
    BY <1>5 DEF AgendaIsClean, Store, Mutating
  <2> QED
    BY <2>1, <2>2, <2>3
<1> QED
  BY <1>2, <1>10, <1>11 DEF HeapInv

(* A store keeps the invariant, and is Store of ManagedHeap.               *)
LEMMA StoreStep ==
  ASSUME IInv, NEW v \in Roots, NEW s \in Slots, NEW ref, StoredRef(ref), Store(v, s, ref)
  PROVE  IInv' /\ AbstractNext
<1>1. PICK c : c = Newest[root[v]]
  OBVIOUS
<1>2. HeapInv /\ Names
  BY DEF IInv
<1>3. /\ c \in LivePlaces /\ c \in Used(Places) /\ Newest[c] = c /\ root[v] # Null
      /\ ref \in Refs /\ (ref # Null => Newest[ref] \in LivePlaces)
      /\ \A q \in Places \ {c} : heap'[q] = heap[q]
      /\ heap'[c] = [heap[c] EXCEPT !.slots = [heap[c].slots EXCEPT ![s] = ref]]
      /\ Used(Places)' = Used(Places)
      /\ \A q \in Places : heap[Newest[q]] # Null => Newest'[q] = Newest[q]
  BY <1>1, <1>2, StoreEffect
<1>4. HeapInv'
  BY <1>2, StoreKeepsHeap
<1>5. UNCHANGED <<root, resources>> /\ phase = "mutator" /\ phase' = "mutator"
  BY DEF Store, gcVars, Mutating
<1>6. /\ HomesAreLeast /\ NamesAreOfHomes /\ NamesAreOfHomes' /\ IdleHomes /\ IdleHomes'
      /\ SeenOfEnclosed'
  <2>1. HeapInv => HomesAreLeast /\ NamesAreOfHomes
    BY HomesFacts, NamesFacts
  <2>2. HeapInv => IdleHomes
    BY IdleFacts
  <2> QED
    BY <1>2, <1>4, <2>1, <2>2, SeenFacts, IdleFacts, NamesFacts, PTL
<1>7. PICK X : X = Homes
  OBVIOUS
<1>8. Encloses(X) /\ c \in X
  BY <1>2, <1>3, <1>5, <1>6, <1>7, HomesAreEnclosed DEF IdleHomes
<1>9. /\ heap \in Heaps /\ root \in [Roots -> Refs] /\ heap' \in Heaps
      /\ Null \notin Used(Places)
  BY <1>2, <1>4, NullAssumption DEF HeapInv, Typed, Used
<1>10. \A q \in X :
        /\ q \in Used(Places) /\ q \in Places /\ q # Null
        /\ heap'[q].object = heap[q].object /\ heap'[q].native = heap[q].native
        /\ \A t \in Slots : heap'[q].slots[t] = IF q = c /\ t = s THEN ref ELSE heap[q].slots[t]
  <2> SUFFICES ASSUME NEW q \in X
               PROVE  /\ q \in Used(Places) /\ q \in Places /\ q # Null
                      /\ heap'[q].object = heap[q].object /\ heap'[q].native = heap[q].native
                      /\ \A t \in Slots : heap'[q].slots[t] = IF q = c /\ t = s THEN ref ELSE heap[q].slots[t]
    OBVIOUS
  <2>1. q \in Used(Places) /\ q \in Places /\ q # Null
    BY <1>8, <1>9 DEF Encloses, Used
  <2>2. CASE q # c
    BY <1>3, <2>1, <2>2
  <2>3. CASE q = c
    BY <1>3, <1>9, <2>1, <2>3, FieldTypes DEF Object
  <2> QED
    BY <2>1, <2>2, <2>3
<1>11. ASSUME NEW r \in Refs, Home(r) \in X \cup {Null}
       PROVE  Home(r)' = Home(r)
  <2>1. CASE r = Null
    BY <2>1 DEF Home
  <2>2. CASE r # Null
    <3>1. r \in Places /\ Home(r) = Newest[r] /\ Newest[r] \in Places
      BY <1>2, <1>5, <1>6, <2>2, NewestFacts DEF IdleHomes, Refs, HeapInv, Typed
    <3>2. Newest[r] \in Used(Places)
      BY <1>8, <1>11, <3>1, NullAssumption DEF Encloses
    <3>3. Newest'[r] = Newest[r]
      BY <1>3, <3>1, <3>2 DEF Used
    <3>4. Home(r)' = Newest'[r]
      BY <1>5, <1>6, <2>2 DEF IdleHomes
    <3> QED
      BY <3>1, <3>3, <3>4
  <2> QED
    BY <2>1, <2>2
<1>12. Home(ref) \in X \cup {Null} /\ Home(ref)' = Home(ref)
  <2>1. Home(ref) \in X \cup {Null}
    BY <1>3, <1>5, <1>6, <1>7 DEF IdleHomes
  <2> QED
    BY <1>3, <1>11, <2>1
<1>13. ASSUME NEW q \in X, NEW t \in Slots
       PROVE  LET h == IF q = c /\ t = s THEN Home(ref) ELSE Home(heap[q].slots[t])
              IN Home(heap[q].slots[t])' = h /\ h \in X \cup {Null}
  <2>1. PICK r : r = IF q = c /\ t = s THEN ref ELSE heap[q].slots[t]
    OBVIOUS
  <2>2. r \in Refs /\ Home(r) \in X \cup {Null}
    BY <1>3, <1>8, <1>9, <1>10, <1>12, <2>1, FieldTypes DEF Encloses
  <2>3. Home(r)' = Home(r)
    BY <1>11, <2>2
  <2>4. Home(heap[q].slots[t])' = Home(r)'
    BY <1>10, <2>1 DEF Home
  <2> QED
    BY <2>1, <2>2, <2>3, <2>4
<1>14. ASSUME NEW u \in Roots PROVE Home(root[u])' = Home(root[u]) /\ Home(root[u]) \in X \cup {Null}
  <2>1. PICK r : r = root[u]
    OBVIOUS
  <2>2. r \in Refs /\ Home(r) \in X \cup {Null}
    BY <1>8, <1>9, <2>1 DEF Encloses
  <2>3. Home(r)' = Home(r)
    BY <1>11, <2>2
  <2>4. Home(root[u])' = Home(r)'
    BY <1>5, <2>1 DEF Home
  <2> QED
    BY <2>1, <2>2, <2>3, <2>4
<1>15. Encloses(X)'
  <2>1. X \subseteq Used(Places)'
    BY <1>3, <1>8 DEF Encloses
  <2>2. \A q, r \in X : heap'[q].object = heap'[r].object => q = r
    BY <1>8, <1>10 DEF Encloses
  <2>3. \A q \in X, t \in Slots : Home(heap[q].slots[t])' \in X \cup {Null}
    BY <1>12, <1>13
  <2> QED
    BY <1>14, <2>1, <2>2, <2>3 DEF Encloses
<1>16. Names'
  <2>1. \A q \in X : heap'[q].object \in Handles => heap'[q].native
    BY <1>2, <1>7, <1>10 DEF Names
  <2> QED
    BY <1>4, <1>15, <2>1, EnclosedKeepNames
<1>17. \A q \in X \cup {Null} : NameAt(q)' = NameAt(q)
  BY <1>10 DEF NameAt
<1>18. Seen' = Seen
  <2>1. ASSUME NEW u \in Roots PROVE Name(root[u])' = Name(root[u])
    <3>1. PICK h : h = Home(root[u])
      OBVIOUS
    <3>2. Name(root[u])' = NameAt(h)' /\ Name(root[u]) = NameAt(h) /\ h \in X \cup {Null}
      BY <1>6, <1>14, <3>1 DEF NamesAreOfHomes, NameAt
    <3> QED
      BY <1>17, <3>2
  <2> QED
    BY <2>1 DEF Seen
<1>19. Name(root[v]) = heap[c].object /\ heap[c].object # Null
  <2>1. heap[c] # Null
    BY <1>8, <1>10 DEF Used
  <2>2. heap[c].object # Null
    BY <1>3, <1>9, FieldTypes, NullAssumption
  <2> QED
    BY <1>1, <1>3, <2>1, <2>2 DEF Name
<1>20. Name(ref) = NameAt(Home(ref)) /\ (ref = Null \/ \E u \in Roots : Name(ref) = Name(root[u]))
  <2>1. CASE ref = Null
    BY <2>1 DEF Name, NameAt, Home
  <2>2. CASE ref # Null
    <3>1. PICK u \in Roots : ref = root[u]
      BY <2>2 DEF StoredRef
    <3> QED
      BY <1>6, <3>1 DEF NamesAreOfHomes
  <2> QED
    BY <2>1, <2>2
<1> DEFINE others == {e \in LiveElements : ~(e[1] = Name(root[v]) /\ e[2] = s)}
<1>21. Contents(X)' = others \cup {<<Name(root[v]), s, Name(ref)>>}
  <2>1. LiveElements = Contents(X)
    BY <1>6, <1>7 DEF NamesAreOfHomes
  <2>2. ASSUME NEW q \in X, NEW t \in Slots
        PROVE  <<heap'[q].object, t, NameAt(Home(heap[q].slots[t]))'>>
               = IF q = c /\ t = s THEN <<Name(root[v]), s, Name(ref)>>
                 ELSE <<heap[q].object, t, NameAt(Home(heap[q].slots[t]))>>
    <3>1. PICK h : h = IF q = c /\ t = s THEN Home(ref) ELSE Home(heap[q].slots[t])
      OBVIOUS
    <3>2. NameAt(Home(heap[q].slots[t]))' = NameAt(h)' /\ h \in X \cup {Null}
      BY <1>13, <3>1 DEF NameAt
    <3>3. NameAt(h)' = NameAt(h)
      BY <1>17, <3>2
    <3> QED
      BY <1>10, <1>19, <1>20, <3>1, <3>2, <3>3
  <2>3. ASSUME NEW q \in X, NEW t \in Slots
        PROVE  (q = c /\ t = s) <=> (heap[q].object = Name(root[v]) /\ t = s)
    BY <1>8, <1>19 DEF Encloses
  <2>4. \A e : e \in others <=>
          \E q \in X, t \in Slots :
            ~(q = c /\ t = s) /\ e = <<heap[q].object, t, NameAt(Home(heap[q].slots[t]))>>
    <3>1. \A e : e \in LiveElements <=>
            \E q \in X, t \in Slots : e = <<heap[q].object, t, NameAt(Home(heap[q].slots[t]))>>
      BY <2>1 DEF Contents
    <3> QED
      BY <2>3, <3>1
  <2>5. \A e : e \in Contents(X)' <=>
          \E q \in X, t \in Slots : e = <<heap'[q].object, t, NameAt(Home(heap[q].slots[t]))'>>
    BY DEF Contents
  <2>6. \A e : e \in Contents(X)' <=> e \in others \cup {<<Name(root[v]), s, Name(ref)>>}
    <3> TAKE e
    <3> HIDE DEF others
    <3>1. e \in Contents(X)' <=>
            \E q \in X, t \in Slots :
              e = IF q = c /\ t = s THEN <<Name(root[v]), s, Name(ref)>>
                  ELSE <<heap[q].object, t, NameAt(Home(heap[q].slots[t]))>>
      <4> DEFINE Now(q, t) == <<heap'[q].object, t, NameAt(Home(heap[q].slots[t]))'>>
                 Old(q, t) == IF q = c /\ t = s THEN <<Name(root[v]), s, Name(ref)>>
                              ELSE <<heap[q].object, t, NameAt(Home(heap[q].slots[t]))>>
      <4>1. \A q \in X, t \in Slots : Now(q, t) = Old(q, t)
        BY <2>2
      <4>2. e \in Contents(X)' <=> \E q \in X, t \in Slots : e = Now(q, t)
        BY <2>5
      <4> HIDE DEF Now, Old
      <4>3. e \in Contents(X)' <=> \E q \in X, t \in Slots : e = Old(q, t)
        BY <4>1, <4>2
      <4> QED
        BY <4>3 DEF Old
    <3> QED
      BY <1>8, <2>4, <3>1
  <2> QED
    BY <2>6
<1>22. LiveElements' = ManagedHeap!Reachable(Seen, others \cup {<<Name(root[v]), s, Name(ref)>>})
  <2>1. LiveElements' = ManagedHeap!Reachable(Seen, Contents(X))'
    BY <1>6, <1>15 DEF SeenOfEnclosed, Seen
  <2> HIDE DEF others
  <2> QED
    BY <1>18, <1>21, <2>1 DEF ManagedHeap!Reachable
<1>23. AbstractNext
  <2>1. CASE LiveElements' = LiveElements
    BY <1>5, <1>18, <2>1 DEF AbstractNext, ManagedHeap!vars, Seen
  <2>2. CASE LiveElements' # LiveElements
    <3>1. ManagedHeap!Store(v, s, Name(ref))
      BY <1>5, <1>18, <1>19, <1>22 DEF ManagedHeap!Store, Seen
    <3>2. Name(ref) \in ManagedHeap!Values
      BY <1>20 DEF ManagedHeap!Values, Name
    <3> QED
      BY <1>18, <2>2, <3>1, <3>2 DEF AbstractNext, ManagedHeap!Next, Seen
  <2> QED
    BY <2>1, <2>2
<1> QED
  BY <1>4, <1>16, <1>23 DEF IInv

(* Newest is the only solution of its definition.                          *)
LEMMA FollowsUnique ==
  ASSUME NEW h \in Heaps, Ranked(h), NEW f, Follows(h, f), NEW g, Follows(h, g)
  PROVE  \A p \in Places : f[p] = g[p]
<1> DEFINE m == [p \in Places |-> p]
           S == Places
<1>0. PICK k : k = h
  OBVIOUS
<1>1. \A p \in Places : ~IsLast(h, p) => h[p].newer \in Places
  BY NewerIsPlace
<1>2. \A p \in S : IF IsLast(h, p) THEN IsLast(k, m[p])
                   ELSE /\ ~IsLast(k, m[p]) /\ h[p].newer \in S
                        /\ k[m[p]].newer = m[h[p].newer]
  BY <1>0, <1>1
<1>3. S \in SUBSET Places /\ m \in [S -> Places]
  OBVIOUS
<1> HIDE DEF m, S
<1>4. \A p \in S : f[p] \in S /\ g[m[p]] = m[f[p]]
  <2>1. Follows(k, g)
    BY <1>0
  <2> QED
    BY <1>2, <1>3, <2>1, FollowsMoves
<1> QED
  BY <1>4 DEF m, S

(* An expanded object is superseded.                                       *)
LEMMA ExpandEffect ==
  ASSUME HeapInv, NEW v \in Roots, NEW region \in {Nursery, Tenure}, Expand(v, region),
         NEW old, old = Newest[root[v]], NEW new, new = FirstFree(region)
  PROVE  /\ old \in LivePlaces /\ old \in Used(Places) /\ Newest[old] = old
         /\ new \in Places /\ heap[new] = Null
         /\ heap' \in Heaps /\ Ranked(heap') /\ Typed' /\ ~InYoung'
         /\ \A q \in Places \ {old, new} : heap'[q] = heap[q]
         /\ heap'[new].newer = Null /\ heap'[new].forward = Null
         /\ heap'[new].object = heap[old].object /\ heap'[new].slots = heap[old].slots
         /\ heap'[new].native = heap[old].native
         /\ heap'[old] = Superseded(old, new)
         /\ Used(Places)' = Used(Places) \cup {new}
         /\ remember_set' \subseteq remember_set \cup {new}
         /\ \A q \in Places : heap[Newest[q]] # Null =>
              Newest'[q] = IF Newest[q] = old THEN new ELSE Newest[q]
         /\ Newest'[new] = new
<1>1. Typed /\ Ranked(heap) /\ heap \in Heaps /\ phase = "mutator"
  BY DEF HeapInv, Typed, Expand, Mutating
<1>2. /\ root[v] # Null /\ Free(region) # {}
      /\ heap' = [heap EXCEPT
               ![new] = [NewObject(heap[old].object) EXCEPT
                           !.slots = heap[old].slots, !.native = heap[old].native],
               ![old] = Superseded(old, new)]
      /\ remember_set' = IF new \in Tenure /\ PointsToYoung(heap[old])
                           THEN remember_set \cup {new} ELSE remember_set
      /\ tenure_frontier' = FrontierWith(new)
  BY DEF Expand, Container
<1>3. old \in LivePlaces /\ old \in Used(Places) /\ Newest[old] = old /\ heap[old].newer = Null
  BY <1>2, LiveRefs
<1>4. new \in region /\ new \in Places /\ heap[new] = Null /\ new[2] <= config[new[1]]
  BY <1>1, <1>2, FirstFreeFacts DEF Typed
<1>5. old \in Places /\ heap[old] # Null /\ old # new /\ heap[old] \in Object /\ new # Null
  BY <1>1, <1>3, <1>4, FieldTypes, NullAssumption DEF Used
<1>6. \A q \in Places \ {old, new} : heap'[q] = heap[q]
  BY <1>1, <1>2 DEF Heaps
<1>7. /\ heap'[new] = [NewObject(heap[old].object) EXCEPT
                           !.slots = heap[old].slots, !.native = heap[old].native]
      /\ heap'[old] = Superseded(old, new)
  BY <1>1, <1>2, <1>4, <1>5 DEF Heaps
<1>8. /\ heap'[new].newer = Null /\ heap'[new].forward = Null
      /\ heap'[new].object = heap[old].object /\ heap'[new].slots = heap[old].slots
      /\ heap'[new].native = heap[old].native
      /\ heap'[new] \in Object /\ heap'[new] # Null
  <2>1. NewObject(heap[old].object) \in Object
    BY <1>5, NewObjectType DEF Object
  <2>2. heap'[new] \in Object
    BY <1>5, <1>7, <2>1 DEF Object
  <2> QED
    BY <1>7, <2>2, NullAssumption DEF NewObject
<1>9. heap'[old] \in Object /\ heap'[old] # Null /\ heap'[old].newer = new
  <2>1. heap'[old] \in Object /\ heap'[old].newer = new
    BY <1>4, <1>5, <1>7 DEF Superseded, Object, Refs
  <2> QED
    BY <2>1, NullAssumption
<1>10. heap' \in Heaps
  BY <1>1, <1>2, <1>6, <1>8, <1>9 DEF Heaps
<1>11. Used(Places)' = Used(Places) \cup {new}
  BY <1>4, <1>5, <1>6, <1>8, <1>9 DEF Used
<1>12. Ranked(heap')
  <2>1. PICK N \in Nat : \E r \in [Places -> 0 .. N] :
          \A p \in Places : ~IsLast(heap, p) => r[heap[p].newer] < r[p]
    BY <1>1 DEF Ranked
  <2>2. PICK r \in [Places -> 0 .. N] : \A p \in Places : ~IsLast(heap, p) => r[heap[p].newer] < r[p]
    BY <2>1
  <2>3. PICK r2 : r2 = [p \in Places |-> IF p = new THEN 0 ELSE r[p] + 1]
    OBVIOUS
  <2>4. r2 \in [Places -> 0 .. N + 1] /\ N + 1 \in Nat
    BY <2>3
  <2>5. ASSUME NEW p \in Places, ~IsLast(heap', p) PROVE r2[heap'[p].newer] < r2[p]
    <3>1. CASE p = old
      BY <1>4, <1>5, <1>9, <2>3, <3>1
    <3>2. CASE p = new
      BY <1>8, <2>5, <3>2 DEF IsLast
    <3>3. CASE p \notin {old, new}
      <4>1. heap'[p] = heap[p] /\ ~IsLast(heap, p)
        BY <1>6, <2>5, <3>3 DEF IsLast
      <4>2. heap[p].newer \in Places /\ r[heap[p].newer] < r[p]
        BY <1>1, <2>2, <4>1, NewerIsPlace
      <4>3. r[heap[p].newer] \in Nat /\ r[p] \in Nat
        BY <4>2
      <4> QED
        BY <2>3, <3>3, <4>1, <4>2, <4>3
    <3> QED
      BY <3>1, <3>2, <3>3
  <2> QED
    BY <2>4, <2>5 DEF Ranked
<1>13. Newest'[new] = new
  BY <1>4, <1>8, <1>10, <1>12, NewestFactsNext DEF IsLast
<1>14. \A q \in Places : heap[Newest[q]] # Null =>
              Newest'[q] = IF Newest[q] = old THEN new ELSE Newest[q]
  <2>1. PICK g : g = [q \in Places |-> IF Newest[q] = old THEN new
                                      ELSE IF heap[Newest[q]] # Null THEN Newest[q] ELSE Newest'[q]]
    OBVIOUS
  <2>2. /\ Follows(heap, Newest) /\ Newest \in [Places -> Places]
        /\ \A p \in Places : IsLast(heap, p) => Newest[p] = p
        /\ Follows(heap', Newest') /\ Newest' \in [Places -> Places]
        /\ \A p \in Places : IsLast(heap', p) => Newest'[p] = p
    BY <1>1, <1>10, <1>12, NewestFacts, NewestFactsNext
  <2>3. g \in [Places -> Places]
    BY <1>4, <2>1, <2>2
  <2>4. ASSUME NEW p \in Places
        PROVE  g[p] = IF IsLast(heap', p) THEN p ELSE g[heap'[p].newer]
    <3>1. CASE p = new
      <4>1. IsLast(heap, new) /\ IsLast(heap', new)
        BY <1>4, <1>8 DEF IsLast
      <4> QED
        BY <1>4, <1>5, <1>13, <2>1, <2>2, <3>1, <4>1
    <3>2. CASE p = old
      <4>1. ~IsLast(heap', old)
        BY <1>5, <1>9 DEF IsLast
      <4>2. Newest[new] = new /\ Newest[old] = old
        BY <1>3, <1>4, <2>2 DEF IsLast
      <4>3. g[new] = new /\ g[old] = new
        BY <1>4, <1>5, <1>13, <2>1, <4>2
      <4> QED
        BY <1>9, <3>2, <4>1, <4>3
    <3>3. CASE p \notin {old, new}
      <4>1. heap'[p] = heap[p]
        BY <1>6, <3>3
      <4>2. CASE IsLast(heap, p)
        BY <2>1, <2>2, <3>3, <4>1, <4>2 DEF IsLast
      <4>3. CASE ~IsLast(heap, p)
        <5>1. heap[p].newer \in Places /\ ~IsLast(heap', p)
          BY <1>1, <4>1, <4>3, NewerIsPlace DEF IsLast
        <5>2. Newest[p] = Newest[heap[p].newer] /\ Newest'[p] = Newest'[heap[p].newer]
          BY <2>2, <4>1, <4>3, <5>1 DEF Follows
        <5> QED
          BY <2>1, <4>1, <5>1, <5>2
      <4> QED
        BY <4>2, <4>3
    <3> QED
      BY <3>1, <3>2, <3>3
  <2>5. \A p \in Places : Newest'[p] = g[p]
    BY <1>10, <1>12, <2>2, <2>3, <2>4, FollowsUnique DEF Follows
  <2> QED
    BY <2>1, <2>5
<1>15. FrontierWith(new) \in 0 .. config["tenure"] /\ tenure_frontier <= FrontierWith(new)
       /\ (new \in Tenure => new[2] <= FrontierWith(new))
  BY <1>1, <1>4, FrontierFacts
<1>16. Typed' /\ ~InYoung'
  <2>1. UNCHANGED <<config, listVars, phase, work, promoted, root, resources>>
    BY DEF Expand, gcVars, listVars
  <2>2. remember_set' \subseteq Used(Tenure)'
    <3>1. Tenure \subseteq Places /\ remember_set \subseteq Used(Tenure)
      BY <1>1 DEF Typed, Places
    <3>2. \A q \in Used(Tenure) : q \in Used(Tenure)'
      BY <1>6, <1>8, <1>9, <3>1 DEF Used
    <3>3. new \in Tenure => new \in Used(Tenure)'
      BY <1>8 DEF Used
    <3> QED
      BY <1>2, <3>1, <3>2, <3>3
  <2>3. \A q \in Used(Tenure)' : q[2] <= tenure_frontier'
    <3>1. \A q \in Used(Tenure)' : q = new \/ q \in Used(Tenure)
      BY <1>5, <1>6 DEF Used, Places
    <3>2. \A q \in Used(Tenure) : q[2] <= tenure_frontier /\ q[2] \in Nat
      BY <1>1, PlacesAreApart DEF Typed, Used, Places
    <3>3. tenure_frontier \in Int /\ FrontierWith(new) \in Int
      BY <1>1, <1>15, CollectorAssumption DEF Typed, Regions
    <3>4. \A q \in Used(Tenure)' : q \in Tenure
      BY DEF Used
    <3>5. ASSUME NEW q \in Used(Tenure), q \in Tenure PROVE q[2] <= tenure_frontier'
      BY <1>2, <1>15, <3>2, <3>3, <3>5
    <3> QED
      BY <1>2, <1>15, <3>1, <3>4, <3>5
  <2>4. tenure_frontier' \in 0 .. config["tenure"]
    BY <1>2, <1>15
  <2>5. \A q \in Half[0] \cup Half[1] : heap'[q] = Null <=> heap[q] = Null
    <3>1. new \notin Half[0] \cup Half[1]
      BY <1>4, PlacesAreApart
    <3>2. Half[0] \cup Half[1] \subseteq Places
      BY PlacesAreApart
    <3> QED
      BY <1>5, <1>6, <1>9, <3>1, <3>2
  <2>6. nallocated' \in Nat
    BY <1>1 DEF Expand, Typed
  <2> QED
    BY <1>1, <1>10, <2>1, <2>2, <2>3, <2>4, <2>5, <2>6, MutatorTyped DEF Typed
<1>17. remember_set' \subseteq remember_set \cup {new}
  BY <1>2
<1> QED
  BY <1>3, <1>4, <1>6, <1>7, <1>8, <1>10, <1>11, <1>12, <1>13, <1>14, <1>16, <1>17

(* The heap is in order after an expansion.                                *)
LEMMA ExpandKeepsHeap ==
  ASSUME HeapInv, NEW v \in Roots, NEW region \in {Nursery, Tenure}, Expand(v, region)
  PROVE  HeapInv'
<1>1. PICK old : old = Newest[root[v]]
  OBVIOUS
<1>2. PICK new : new = FirstFree(region)
  OBVIOUS
<1>3. /\ old \in LivePlaces /\ old \in Used(Places) /\ Newest[old] = old
      /\ new \in Places /\ heap[new] = Null
      /\ heap' \in Heaps /\ Ranked(heap') /\ Typed' /\ ~InYoung'
      /\ \A q \in Places \ {old, new} : heap'[q] = heap[q]
      /\ heap'[new].newer = Null /\ heap'[new].forward = Null
      /\ heap'[new].object = heap[old].object /\ heap'[new].slots = heap[old].slots
      /\ heap'[new].native = heap[old].native
      /\ heap'[old] = Superseded(old, new)
      /\ Used(Places)' = Used(Places) \cup {new}
      /\ remember_set' \subseteq remember_set \cup {new}
      /\ \A q \in Places : heap[Newest[q]] # Null =>
           Newest'[q] = IF Newest[q] = old THEN new ELSE Newest[q]
      /\ Newest'[new] = new
  BY <1>1, <1>2, ExpandEffect
<1>4. PICK G \in SUBSET Used(Places) : Traced(G)
  BY DEF HeapInv, Sound
<1>5. old \in G
  BY <1>3, <1>4, LiveAreTraced
<1>6. UNCHANGED <<root, resources, phase, agenda>> /\ phase = "mutator" /\ agenda = << >>
  BY DEF Expand, gcVars, Mutating
<1>7. heap \in Heaps /\ root \in [Roots -> Refs] /\ remember_set \subseteq Places
  BY SpacesAreApart DEF HeapInv, Typed, Used
<1>8. PICK H : H = (G \ {old}) \cup {new}
  OBVIOUS
<1>9. \A r \in Places : Newest[r] \in G => Newest'[r] \in H
  BY <1>3, <1>4, <1>8 DEF Used
<1>10. \A q \in Used(Places) : q \in Places /\ heap[q] # Null /\ q # new /\ heap[q] \in Object
  BY <1>3, <1>7, FieldTypes DEF Used
<1>11. /\ heap'[old].native = FALSE /\ heap'[old].object = heap[old].object
       /\ heap'[old].forward = heap[old].forward
  BY <1>3, <1>10 DEF Superseded, Object
<1>12. Traced(H)'
  <2>1. ASSUME NEW q \in H, NEW s \in Slots, heap'[q].slots[s] # Null
        PROVE  Newest'[heap'[q].slots[s]] \in H
    <3>1. PICK p \in G : heap'[q].slots = heap[p].slots
      BY <1>3, <1>4, <1>5, <1>8, <1>10
    <3>2. heap[p].slots[s] \in Refs
      BY <1>4, <1>7, <3>1, FieldTypes
    <3> QED
      BY <1>4, <1>9, <2>1, <3>1, <3>2 DEF Traced, Refs
  <2>2. \A q \in remember_set' : Newest'[q] \in H
    BY <1>3, <1>4, <1>7, <1>8, <1>9 DEF Traced
  <2>3. \A u \in Roots : root'[u] # Null => Newest'[root'[u]] \in H
    BY <1>4, <1>6, <1>7, <1>9 DEF Traced, Refs
  <2>4. \A q \in H : heap'[q].newer = Null
    BY <1>3, <1>4, <1>8, <1>10 DEF Traced
  <2> QED
    BY <1>3, <2>1, <2>2, <2>3, <2>4 DEF Traced
<1>13. Sound'
  BY <1>3, <1>4, <1>8, <1>12 DEF Sound
<1>14. NativesDiffer'
  <2>1. PICK m : m = [q \in Places |-> IF q = new THEN old ELSE q]
    OBVIOUS
  <2>2. ASSUME NEW q \in Used(Places)', heap'[q].native
        PROVE  /\ m[q] \in Used(Places) /\ heap[m[q]].native /\ heap[m[q]].object = heap'[q].object
               /\ q # old /\ q \in Places
    <3>1. q # old
      BY <1>11, <2>2
    <3> QED
      BY <1>3, <1>10, <2>1, <2>2, <3>1
  <2>3. \A q \in Used(Places)' : heap'[q].native => heap'[q].object \in resources'
    BY <1>6, <2>2 DEF HeapInv, NativesDiffer
  <2>4. \A p, q \in Used(Places)' :
          heap'[p].native /\ heap'[q].native /\ heap'[p].object = heap'[q].object => p = q
    <3> SUFFICES ASSUME NEW p \in Used(Places)', NEW q \in Used(Places)',
                        heap'[p].native, heap'[q].native, heap'[p].object = heap'[q].object
                 PROVE  p = q
      OBVIOUS
    <3>1. m[p] = m[q]
      BY <2>2 DEF HeapInv, NativesDiffer
    <3> QED
      BY <2>1, <2>2, <3>1
  <2> QED
    BY <2>3, <2>4 DEF NativesDiffer
<1>15. AgendaIsClean' /\ NoneForwarded'
  <2>1. \A q \in Used(Places) : heap[q].forward = Null
    BY <1>6 DEF HeapInv, NoneForwarded
  <2>2. \A q \in Used(Places)' : heap'[q].forward = Null
    BY <1>3, <1>10, <1>11, <2>1
  <2> QED
    BY <1>6, <2>2 DEF AgendaIsClean, NoneForwarded
<1> QED
  BY <1>3, <1>13, <1>14, <1>15 DEF HeapInv

(* An expansion keeps the invariant, and the program does not see it.      *)
LEMMA ExpandStep ==
  ASSUME IInv, NEW v \in Roots, NEW region \in {Nursery, Tenure}, Expand(v, region)
  PROVE  IInv' /\ AbstractNext
<1>1. PICK old : old = Newest[root[v]]
  OBVIOUS
<1>2. PICK new : new = FirstFree(region)
  OBVIOUS
<1>3. /\ old \in LivePlaces /\ old \in Used(Places) /\ Newest[old] = old
      /\ new \in Places /\ heap[new] = Null
      /\ \A q \in Places \ {old, new} : heap'[q] = heap[q]
      /\ heap'[new].object = heap[old].object /\ heap'[new].slots = heap[old].slots
      /\ heap'[new].native = heap[old].native
      /\ Used(Places)' = Used(Places) \cup {new}
      /\ \A q \in Places : heap[Newest[q]] # Null =>
           Newest'[q] = IF Newest[q] = old THEN new ELSE Newest[q]
      /\ Newest'[new] = new
  BY <1>1, <1>2, ExpandEffect DEF IInv
<1>4. HeapInv /\ Names /\ HeapInv'
  BY ExpandKeepsHeap DEF IInv
<1>5. UNCHANGED <<root, resources>> /\ phase = "mutator" /\ phase' = "mutator"
  BY DEF Expand, gcVars, Mutating
<1>6. HomesAreLeast /\ IdleHomes /\ IdleHomes'
  <2>1. HeapInv => HomesAreLeast /\ IdleHomes
    BY HomesFacts, IdleFacts
  <2> QED
    BY <1>4, <2>1, IdleFacts, PTL
<1>7. heap \in Heaps /\ root \in [Roots -> Refs] /\ Null \notin Places
  BY <1>4, NullAssumption DEF HeapInv, Typed
<1> DEFINE m == [p \in Places \cup {Null} |-> IF p = old THEN new ELSE p]
<1>8. ASSUME NEW r \in Refs, Home(r) \in Homes \cup {Null}
      PROVE  Home(r)' = m[Home(r)]
  <2>1. CASE r = Null
    BY <1>3, <1>7, <2>1 DEF Home, Used
  <2>2. CASE r # Null
    <3>1. r \in Places /\ Home(r) = Newest[r] /\ Newest[r] \in Places
      BY <1>4, <1>5, <1>6, <2>2, NewestFacts DEF IdleHomes, Refs, HeapInv, Typed
    <3>2. heap[Newest[r]] # Null
      BY <1>6, <1>7, <1>8, <3>1 DEF HomesAreLeast, Used
    <3>3. Newest'[r] = m[Newest[r]]
      BY <1>3, <3>1, <3>2
    <3>4. Home(r)' = Newest'[r]
      BY <1>5, <1>6, <2>2 DEF IdleHomes
    <3> QED
      BY <3>1, <3>3, <3>4
  <2> QED
    BY <2>1, <2>2
<1>9. \A p \in Homes : p \in Used(Places) /\ p \in Places /\ p # Null /\ p # new
  BY <1>3, <1>6, <1>7 DEF HomesAreLeast, Used
<1>10. ASSUME NEW p \in Homes
       PROVE  /\ heap'[m[p]].object = heap[p].object /\ heap'[m[p]].native = heap[p].native
              /\ heap'[m[p]].slots = heap[p].slots
  BY <1>3, <1>9
<1>11. SameHeap(m)
  <2>1. m \in [Places \cup {Null} -> Places \cup {Null}] /\ m[Null] = Null
    BY <1>3, <1>7 DEF Used
  <2>2. ASSUME NEW u \in Roots PROVE Home(root[u])' = m[Home(root[u])]
    <3>1. PICK r : r = root[u]
      OBVIOUS
    <3>2. r \in Refs /\ Home(r) \in Homes \cup {Null}
      BY <1>6, <1>7, <3>1 DEF HomesAreLeast, Home
    <3>3. Home(r)' = m[Home(r)]
      BY <1>8, <3>2
    <3>4. Home(root[u])' = Home(r)'
      BY <1>5, <3>1 DEF Home
    <3> QED
      BY <3>1, <3>3, <3>4
  <2>3. ASSUME NEW p \in Homes, NEW s \in Slots
        PROVE  Home(heap[m[p]].slots[s])' = m[Home(heap[p].slots[s])]
    <3>1. PICK r : r = heap[p].slots[s]
      OBVIOUS
    <3>2. r \in Refs /\ Home(r) \in Homes \cup {Null}
      BY <1>6, <1>7, <1>9, <3>1, FieldTypes DEF HomesAreLeast, Home
    <3>3. Home(r)' = m[Home(r)]
      BY <1>8, <3>2
    <3>4. Home(heap[m[p]].slots[s])' = Home(r)'
      BY <1>10, <3>1 DEF Home
    <3> QED
      BY <3>1, <3>3, <3>4
  <2>4. \A p \in Homes : m[p] # Null
    BY <1>3, <1>7, <1>9
  <2> HIDE DEF m
  <2> QED
    BY <1>10, <2>1, <2>2, <2>3, <2>4 DEF SameHeap
<1>12. Names' /\ LiveElements' = LiveElements /\ Seen' = Seen
  <2> HIDE DEF m
  <2> QED
    BY <1>4, <1>11, UnseenSteps DEF Seen
<1> QED
  BY <1>4, <1>5, <1>12 DEF IInv, AbstractNext, ManagedHeap!vars, Seen

(* Finalizers are called for objects that are no longer at home anywhere.  *)
LEMMA FinalizeStep ==
  ASSUME HeapInv, Names, NEW D,
         \A p \in D : p \in Used(Places) /\ heap[p].native /\ p \notin Homes,
         resources' = resources \ {heap[p].object : p \in D},
         LiveElements' = LiveElements, \A v \in Roots : Name(root[v])' = Name(root[v])
  PROVE  AbstractNext
<1>1. Seen' = Seen
  BY DEF Seen
<1>2. CASE resources' = resources
  BY <1>1, <1>2 DEF AbstractNext, ManagedHeap!vars, Seen
<1>3. CASE resources' # resources
  <2> DEFINE handles == resources \ resources'
  <2>1. handles \in (SUBSET resources) \ {{}} /\ resources' = resources \ handles
    <3>1. resources' \subseteq resources
      OBVIOUS
    <3>2. handles \subseteq resources /\ handles # {} /\ resources' = resources \ handles
      BY <1>3, <3>1
    <3> HIDE DEF handles
    <3> QED
      BY <3>2
  <2>2. ASSUME NEW o \in handles, o \in ManagedHeap!Existing PROVE FALSE
    <3>1. NamesAreOfHomes /\ HomesAreLeast
      BY NamesFacts, HomesFacts
    <3>2. PICK p \in D : o = heap[p].object
      OBVIOUS
    <3>3. PICK q \in Homes : o = heap[q].object
      BY <2>2, <3>1 DEF ManagedHeap!Existing, NamesAreOfHomes, Contents
    <3>4. o \in Handles
      BY DEF HeapInv, Typed
    <3>5. heap[q].native /\ q \in Used(Places)
      BY <3>1, <3>3, <3>4 DEF Names, HomesAreLeast
    <3>6. p = q
      BY <3>2, <3>3, <3>5 DEF HeapInv, NativesDiffer
    <3> QED
      BY <3>2, <3>3, <3>6
  <2>3. ManagedHeap!Finalize(handles)
    BY <1>1, <2>1, <2>2 DEF ManagedHeap!Finalize, Seen
  <2> QED
    BY <2>1, <2>3 DEF AbstractNext, ManagedHeap!Next
<1> QED
  BY <1>2, <1>3

(* What an old collection leaves: the reachable objects, each slot         *)
(* referring to a newest generation, and the young ones.                   *)
LEMMA OldEffect ==
  ASSUME HeapInv, OldCollection
  PROVE  /\ phase = "mutator"
         /\ LivePlaces \subseteq Used(Places)
         /\ \A p \in Places :
              LET live == p \in LivePlaces IN
              /\ heap'[p] = Null <=> heap[p] = Null \/ (p \in Tenure /\ ~live)
              /\ heap'[p] # Null =>
                   /\ heap'[p] \in Object
                   /\ heap'[p].newer = heap[p].newer /\ heap'[p].object = heap[p].object
                   /\ heap'[p].native = heap[p].native /\ heap'[p].forward = heap[p].forward
                   /\ live => heap'[p].slots = [s \in Slots |-> Follow(heap[p].slots[s])]
         /\ heap' \in [Places -> Object \cup {Null}]
         /\ root' = [v \in Roots |-> Follow(root[v])]
         /\ remember_set' = remember_set \ (Used(Tenure) \ LivePlaces)
         /\ resources' = resources \ {heap[p].object : p \in {p \in Used(Tenure) \ LivePlaces : heap[p].native}}
<1>1. phase = "mutator" /\ MarkAndSweep
  BY DEF OldCollection, Due
<1>2. /\ Typed /\ Ranked(heap) /\ heap \in Heaps
      /\ Newest \in [Places -> Places] /\ LivePlaces \subseteq Used(Places)
  BY NewestFacts, LiveRefs DEF HeapInv, Typed
<1>3. Used(Places) \subseteq Listed
  BY <1>1, <1>2, PlacesAreApart DEF Typed, Used, Listed, ToHalf
<1>4. \A p \in Used(Places) : StillMarked(p) = FALSE
  BY <1>3 DEF StillMarked
<1>5. {p \in Used(Places) : ~StillMarked(p)} = Used(Places)
  BY <1>4
<1> DEFINE dead == Used(Tenure) \ LivePlaces
<1>6. /\ heap' = [p \in Places |->
                   IF p \in dead \/ heap[p] = Null THEN Null
                   ELSE IF p \in LivePlaces /\ ~StillMarked(p)
                   THEN [heap[p] EXCEPT !.is_marked = TRUE, !.slots = [s \in Slots |-> Follow(@[s])]]
                   ELSE [heap[p] EXCEPT !.is_marked = StillMarked(p)]]
      /\ root' = [v \in Roots |-> Follow(root[v])]
      /\ remember_set' = remember_set \ dead
      /\ resources' = resources \ {heap[p].object : p \in {p \in dead : heap[p].native}}
  <2>1. LivePlaces = ReachableFrom(NewestOf({root[v] : v \in Roots}),
                                   References({p \in Used(Places) : ~StillMarked(p)}))
    BY <1>5 DEF LivePlaces
  <2> QED
    BY <1>1, <2>1 DEF MarkAndSweep, Finalize
<1>7. \A ref \in Refs : Follow(ref) \in Refs
  BY <1>2 DEF Follow, Refs
<1>8. ASSUME NEW p \in Places
      PROVE  LET live == p \in LivePlaces IN
              /\ heap'[p] = Null <=> heap[p] = Null \/ (p \in Tenure /\ ~live)
              /\ heap'[p] # Null =>
                   /\ heap'[p] \in Object
                   /\ heap'[p].newer = heap[p].newer /\ heap'[p].object = heap[p].object
                   /\ heap'[p].native = heap[p].native /\ heap'[p].forward = heap[p].forward
                   /\ live => heap'[p].slots = [s \in Slots |-> Follow(heap[p].slots[s])]
  <2>1. CASE p \in dead \/ heap[p] = Null
    <3>1. heap'[p] = Null
      BY <1>6, <2>1
    <3> QED
      BY <2>1, <3>1 DEF Used
  <2>2. CASE ~(p \in dead \/ heap[p] = Null)
    <3>1. heap[p] \in Object /\ p \in Used(Places) /\ StillMarked(p) = FALSE
      BY <1>2, <1>4, <2>2 DEF Heaps, Used
    <3>2. CASE p \in LivePlaces
      <4>1. heap'[p] = [heap[p] EXCEPT !.is_marked = TRUE, !.slots = [s \in Slots |-> Follow(heap[p].slots[s])]]
        BY <1>6, <2>2, <3>1, <3>2
      <4>2. [s \in Slots |-> Follow(heap[p].slots[s])] \in [Slots -> Refs]
        BY <1>7, <3>1 DEF Object
      <4>3. /\ heap'[p] \in Object /\ heap'[p].newer = heap[p].newer /\ heap'[p].object = heap[p].object
            /\ heap'[p].native = heap[p].native /\ heap'[p].forward = heap[p].forward
            /\ heap'[p].slots = [s \in Slots |-> Follow(heap[p].slots[s])]
        BY <3>1, <4>1, <4>2 DEF Object
      <4>4. heap'[p] # Null
        BY <4>3, NullAssumption
      <4> QED
        BY <2>2, <3>2, <4>3, <4>4
    <3>3. CASE p \notin LivePlaces
      <4>1. heap'[p] = [heap[p] EXCEPT !.is_marked = FALSE]
        BY <1>6, <2>2, <3>1, <3>3
      <4>2. /\ heap'[p] \in Object /\ heap'[p].newer = heap[p].newer /\ heap'[p].object = heap[p].object
            /\ heap'[p].native = heap[p].native /\ heap'[p].forward = heap[p].forward
        BY <3>1, <4>1 DEF Object
      <4>3. heap'[p] # Null
        BY <4>2, NullAssumption
      <4> QED
        BY <2>2, <3>1, <3>3, <4>2, <4>3 DEF Used
    <3> QED
      BY <3>2, <3>3
  <2> QED
    BY <2>1, <2>2
<1>9. heap' \in [Places -> Object \cup {Null}]
  <2>1. \A p \in Places : heap'[p] \in Object \cup {Null}
    BY <1>8
  <2>2. heap' = [p \in Places |-> heap'[p]]
    BY <1>6
  <2> QED
    BY <2>1, <2>2
<1> QED
  BY <1>1, <1>2, <1>6, <1>8, <1>9

(* An old collection keeps the invariant, and finalizes what nobody        *)
(* reaches.                                                                *)
LEMMA OldStep ==
  ASSUME IInv, OldCollection
  PROVE  IInv' /\ AbstractNext
<1>1. HeapInv /\ Names /\ Typed /\ heap \in Heaps /\ Ranked(heap)
  BY DEF IInv, HeapInv, Typed
<1>2. /\ phase = "mutator"
      /\ LivePlaces \subseteq Used(Places)
      /\ \A p \in Places : heap'[p] = Null <=> heap[p] = Null \/ (p \in Tenure /\ p \notin LivePlaces)
      /\ \A p \in Places : heap'[p] # Null =>
                   /\ heap'[p] \in Object
                   /\ heap'[p].newer = heap[p].newer /\ heap'[p].object = heap[p].object
                   /\ heap'[p].native = heap[p].native /\ heap'[p].forward = heap[p].forward
                   /\ p \in LivePlaces => heap'[p].slots = [s \in Slots |-> Follow(heap[p].slots[s])]
      /\ heap' \in Heaps
      /\ root' = [v \in Roots |-> Follow(root[v])]
      /\ remember_set' = remember_set \ (Used(Tenure) \ LivePlaces)
      /\ resources' = resources \ {heap[p].object : p \in {p \in Used(Tenure) \ LivePlaces : heap[p].native}}
  BY <1>1, OldEffect DEF Heaps
<1>3. /\ UNCHANGED <<config, tenure_frontier, nallocated, listVars, phase, work, promoted>>
      /\ \/ agenda' = << >>
         \/ agenda' = <<"compact", "young">>
  <2>1. UNCHANGED <<config, tenure_frontier, nallocated, listVars, phase, work, promoted>>
    BY DEF OldCollection
  <2>2. agenda \in {<< >>, <<"compact", "young">>, <<"young">>}
    BY <1>1 DEF HeapInv, AgendaIsClean
  <2> QED
    BY <2>1, <2>2 DEF OldCollection, Due, After
<1>4. /\ \A p \in LivePlaces : p \in Places /\ heap[p] # Null /\ heap[p].newer = Null /\ p # Null
      /\ \A v \in Roots : root[v] # Null => Newest[root[v]] \in LivePlaces
      /\ \A p \in LivePlaces, s \in Slots :
           heap[p].slots[s] # Null => Newest[heap[p].slots[s]] \in LivePlaces
      /\ Null \notin LivePlaces
  BY <1>1, <1>2, LiveRefs DEF Used
<1>5. PICK G : G = LivePlaces
  OBVIOUS
<1>6. /\ \A p \in G : p \in Used(Places) /\ heap'[p] # Null /\ p \in Used(Places)' /\ heap'[p].newer = Null
      /\ \A p \in G, s \in Slots : heap'[p].slots[s] = Follow(heap[p].slots[s]) /\ heap'[p].slots[s] \in G \cup {Null}
      /\ \A v \in Roots : root'[v] = Follow(root[v]) /\ root'[v] \in G \cup {Null}
  <2>1. ASSUME NEW p \in G
        PROVE  p \in Used(Places) /\ heap'[p] # Null /\ p \in Used(Places)' /\ heap'[p].newer = Null
    BY <1>2, <1>4, <1>5 DEF Used
  <2>2. ASSUME NEW p \in G, NEW s \in Slots
        PROVE  heap'[p].slots[s] = Follow(heap[p].slots[s]) /\ heap'[p].slots[s] \in G \cup {Null}
    <3>1. heap'[p].slots[s] = Follow(heap[p].slots[s])
      <4>1. p \in Places /\ p \in LivePlaces /\ heap'[p] # Null
        BY <1>4, <1>5, <2>1
      <4>2. heap'[p].slots = [t \in Slots |-> Follow(heap[p].slots[t])]
        BY <1>2, <4>1
      <4> QED
        BY <4>2
    <3> QED
      BY <1>4, <1>5, <3>1 DEF Follow
  <2>3. ASSUME NEW v \in Roots PROVE root'[v] = Follow(root[v]) /\ root'[v] \in G \cup {Null}
    BY <1>2, <1>4, <1>5 DEF Follow
  <2> QED
    BY <2>1, <2>2, <2>3
<1>7. Ranked(heap')
  <2>1. \A p \in Places : ~IsLast(heap', p) => ~IsLast(heap, p) /\ heap'[p].newer = heap[p].newer
    BY <1>2 DEF IsLast
  <2> QED
    BY <1>1, <2>1, RankedStays
<1>8. \A p \in G : Newest'[p] = p
  BY <1>2, <1>4, <1>5, <1>6, <1>7, NewestFactsNext DEF IsLast
<1>9. Tenure \subseteq Places /\ Half[0] \cup Half[1] \subseteq Places /\ Tenure \cap (Half[0] \cup Half[1]) = {}
  BY PlacesAreApart
<1>10. \A p \in Used(Tenure)' : p \in Used(Tenure) /\ p \in G
  BY <1>2, <1>5, <1>9 DEF Used
<1>11. \A p \in remember_set' : p \in G /\ p \in Used(Tenure)'
  BY <1>1, <1>2, <1>5, <1>6, <1>9 DEF Typed, Used
<1>12. Typed' /\ ~InYoung'
  <2>1. root' \in [Roots -> Refs]
    BY <1>2, <1>4, <1>5, <1>6 DEF Refs
  <2>2. \A p \in Used(Tenure)' : p[2] <= tenure_frontier'
    BY <1>1, <1>3, <1>10 DEF Typed
  <2>3. \A p \in Half[0] \cup Half[1] : heap'[p] = Null <=> heap[p] = Null
    BY <1>2, <1>9
  <2>4. remember_set' \subseteq Used(Tenure)'
    BY <1>11
  <2>5. tenure_frontier' \in 0 .. config["tenure"] /\ resources' \subseteq Handles /\ nallocated' \in Nat
    BY <1>1, <1>2, <1>3 DEF Typed
  <2> QED
    BY <1>1, <1>2, <1>3, <2>1, <2>2, <2>3, <2>4, <2>5, MutatorTyped
<1>13. Traced(G)'
  BY <1>6, <1>8, <1>11, <1>12 DEF Traced
<1>14. Sound'
  BY <1>6, <1>13 DEF Sound
<1>15. \A p \in Used(Places)' :
         /\ p \in Used(Places) /\ p \notin Used(Tenure) \ LivePlaces
         /\ heap'[p].native = heap[p].native /\ heap'[p].object = heap[p].object
         /\ heap'[p].forward = heap[p].forward
  BY <1>2 DEF Used
<1>16. NativesDiffer'
  BY <1>1, <1>2, <1>9, <1>15 DEF HeapInv, NativesDiffer, Used
<1>17. NoneForwarded'
  BY <1>1, <1>2, <1>15 DEF HeapInv, NoneForwarded
<1>18. AgendaIsClean'
  <2>1. \A p \in Used(Tenure)' : heap'[p].newer = Null
    BY <1>6, <1>10
  <2> QED
    BY <1>2, <1>3, <2>1 DEF AgendaIsClean
<1>19. HeapInv'
  BY <1>7, <1>12, <1>14, <1>16, <1>17, <1>18 DEF HeapInv
<1>20. IdleHomes /\ IdleHomes' /\ phase' = "mutator"
  <2>1. IdleHomes
    BY <1>1, IdleFacts
  <2>2. IdleHomes'
    BY <1>19, IdleFacts, PTL
  <2> QED
    BY <1>2, <1>3, <2>1, <2>2
<1>21. G = Homes
  BY <1>2, <1>5, <1>20 DEF IdleHomes
<1>22. ASSUME NEW r \in Refs, Follow(r) \in G \cup {Null}
       PROVE  Home(r) = Follow(r)
  BY <1>2, <1>20 DEF IdleHomes, Follow
<1>23. \A q \in G \cup {Null} : Home(q)' = q
  BY <1>4, <1>5, <1>8, <1>20 DEF IdleHomes, Refs, Home
<1> DEFINE m == [p \in Places \cup {Null} |-> p]
<1>24. SameHeap(m)
  <2>1. m \in [Places \cup {Null} -> Places \cup {Null}] /\ m[Null] = Null /\ \A p \in G : m[p] = p
    BY <1>4, <1>5
  <2>2. ASSUME NEW v \in Roots PROVE Home(root[v])' = m[Home(root[v])]
    <3>1. PICK q : q = root'[v]
      OBVIOUS
    <3>2. Home(root[v])' = Home(q)'
      BY <3>1 DEF Home
    <3>3. Home(root[v]) = q /\ q \in G \cup {Null}
      BY <1>1, <1>6, <1>22, <3>1 DEF Typed
    <3> QED
      BY <1>23, <2>1, <3>2, <3>3
  <2>3. ASSUME NEW p \in G, NEW s \in Slots
        PROVE  Home(heap[m[p]].slots[s])' = m[Home(heap[p].slots[s])]
    <3>1. PICK q : q = heap'[p].slots[s]
      OBVIOUS
    <3>2. Home(heap[m[p]].slots[s])' = Home(q)'
      BY <2>1, <3>1 DEF Home
    <3>3. Home(heap[p].slots[s]) = q /\ q \in G \cup {Null}
      BY <1>1, <1>6, <1>22, <3>1, FieldTypes
    <3> QED
      BY <1>23, <2>1, <3>2, <3>3
  <2>4. \A p \in G : heap'[p].object = heap[p].object /\ heap'[p].native = heap[p].native /\ p # Null
    BY <1>4, <1>5, <1>6, <1>15
  <2> HIDE DEF m
  <2> QED
    BY <1>21, <2>1, <2>2, <2>3, <2>4 DEF SameHeap
<1>25. Names' /\ LiveElements' = LiveElements /\ \A v \in Roots : Name(root[v])' = Name(root[v])
  <2> HIDE DEF m
  <2> QED
    BY <1>1, <1>19, <1>24, UnseenSteps
<1>26. AbstractNext
  <2>1. PICK D : D = {p \in Used(Tenure) \ LivePlaces : heap[p].native}
    OBVIOUS
  <2>2. \A p \in D : p \in Used(Places) /\ heap[p].native /\ p \notin Homes
    BY <1>5, <1>9, <1>21, <2>1 DEF Used
  <2> QED
    BY <1>1, <1>2, <1>25, <2>1, <2>2, FinalizeStep
<1> QED
  BY <1>19, <1>25, <1>26 DEF IInv

-----------------------------------------------------------------------------
(* Compaction.                                                             *)

(* The tenured objects up to a place; Remap counts them.                   *)
Below(p) == {q \in Used(Tenure) : q[2] <= p[2]}

(* A column of the tenured region.                                         *)
LEMMA ColumnSize ==
  ASSUME NEW n \in Nat
  PROVE  IsFiniteSet({"tenure"} \X (1 .. n)) /\ Cardinality({"tenure"} \X (1 .. n)) = n
<1>1. IsFiniteSet(1 .. n) /\ Cardinality(1 .. n) = n
  <2>1. 1 \in Int /\ n \in Int
    OBVIOUS
  <2> QED
    BY <2>1, FS_Interval
<1>2. IsFiniteSet({"tenure"}) /\ Cardinality({"tenure"}) = 1
  BY FS_Singleton
<1>3. PICK S, T : S = {"tenure"} /\ T = 1 .. n
  OBVIOUS
<1>4. IsFiniteSet(S \X T) /\ Cardinality(S \X T) = Cardinality(S) * Cardinality(T)
  <2>1. IsFiniteSet(S) /\ IsFiniteSet(T)
    BY <1>1, <1>2, <1>3
  <2> QED
    BY <2>1, FS_Product
<1>5. Cardinality(S) * Cardinality(T) = n
  BY <1>1, <1>2, <1>3
<1> QED
  BY <1>3, <1>4, <1>5

(* The tenured region is one column of places.                             *)
LEMMA TenureIsColumn ==
  /\ \E n \in Nat : Tenure = {"tenure"} \X (1 .. n) /\ \A c \in Configs : c["tenure"] <= n
  /\ \A p \in Tenure : p[2] \in Nat \ {0} /\ p = <<"tenure", p[2]>>
  /\ \A p \in Tenure : \A i \in 1 .. p[2] : <<"tenure", i>> \in Tenure
<1>1. PICK n \in Nat : Tenure = {"tenure"} \X (1 .. n) /\ \A c \in Configs : c["tenure"] <= n
  BY RegionsAreNumbered DEF Tenure, Regions
<1>2. \A p \in Tenure : p[2] \in Nat \ {0} /\ p = <<"tenure", p[2]>> /\ p[2] \in 1 .. n
  BY <1>1
<1>3. ASSUME NEW p \in Tenure, NEW i \in 1 .. p[2] PROVE <<"tenure", i>> \in Tenure
  <2>1. i \in 1 .. n
    BY <1>2
  <2> QED
    BY <1>1, <2>1
<1> QED
  BY <1>1, <1>2, <1>3

(* Counting the objects up to a place.                                     *)
LEMMA BelowFacts ==
  ASSUME NEW p \in Used(Tenure)
  PROVE  /\ p \in Tenure /\ p \in Below(p) /\ IsFiniteSet(Below(p))
         /\ Cardinality(Below(p)) \in 1 .. p[2]
         /\ Remap(p) = <<"tenure", Cardinality(Below(p))>> /\ Remap(p) \in Tenure
<1>1. p \in Tenure /\ p[2] \in Nat /\ p \in Below(p)
  BY TenureIsColumn DEF Used, Below
<1>2. Below(p) \subseteq {"tenure"} \X (1 .. p[2])
  <2> SUFFICES ASSUME NEW q \in Below(p) PROVE q \in {"tenure"} \X (1 .. p[2])
    OBVIOUS
  <2>1. q \in Tenure /\ q[2] <= p[2]
    BY DEF Below, Used
  <2>2. q = <<"tenure", q[2]>> /\ q[2] \in 1 .. p[2]
    BY <1>1, <2>1, TenureIsColumn
  <2> QED
    BY <2>2
<1>3. IsFiniteSet(Below(p)) /\ Cardinality(Below(p)) <= p[2]
  <2>1. PICK S : S = {"tenure"} \X (1 .. p[2])
    OBVIOUS
  <2>2. IsFiniteSet(S) /\ Cardinality(S) = p[2]
    BY <1>1, <2>1, ColumnSize
  <2>3. Below(p) \in SUBSET S
    BY <1>2, <2>1
  <2> QED
    BY <2>2, <2>3, FS_Subset
<1>4. Cardinality(Below(p)) \in Nat /\ Cardinality(Below(p)) # 0
  BY <1>1, <1>3, FS_CardinalityType, FS_EmptySet
<1>5. Cardinality(Below(p)) \in 1 .. p[2]
  BY <1>1, <1>3, <1>4
<1>6. Remap(p) = <<"tenure", Cardinality(Below(p))>>
  BY DEF Remap, Below
<1> QED
  BY <1>1, <1>3, <1>5, <1>6, TenureIsColumn

(* No two objects are moved to one place.                                  *)
LEMMA RemapIsInjective ==
  ASSUME NEW p \in Used(Places), NEW q \in Used(Places), Remap(p) = Remap(q)
  PROVE  p = q
<1>1. CASE p \in Used(Tenure) /\ q \in Used(Tenure)
  <2>1. /\ p \in Tenure /\ q \in Tenure
        /\ IsFiniteSet(Below(p)) /\ IsFiniteSet(Below(q)) /\ p \in Below(p) /\ q \in Below(q)
        /\ Cardinality(Below(p)) = Cardinality(Below(q))
    BY <1>1, BelowFacts
  <2>2. p[2] \in Nat /\ q[2] \in Nat /\ p = <<"tenure", p[2]>> /\ q = <<"tenure", q[2]>>
    BY <2>1, TenureIsColumn
  <2>3. CASE p[2] <= q[2]
    <3>1. \A r \in Used(Tenure) : r[2] \in Nat
      BY TenureIsColumn DEF Used
    <3>2. Below(p) \subseteq Below(q)
      BY <2>2, <2>3, <3>1 DEF Below
    <3>3. Below(p) = Below(q)
      BY <2>1, <3>2, FS_Subset
    <3> QED
      BY <2>1, <2>2, <2>3, <3>3 DEF Below
  <2>4. CASE q[2] <= p[2]
    <3>1. \A r \in Used(Tenure) : r[2] \in Nat
      BY TenureIsColumn DEF Used
    <3>2. Below(q) \subseteq Below(p)
      BY <2>2, <2>4, <3>1 DEF Below
    <3>3. Below(p) = Below(q)
      BY <2>1, <3>2, FS_Subset
    <3> QED
      BY <2>1, <2>2, <2>4, <3>3 DEF Below
  <2> QED
    BY <2>2, <2>3, <2>4
<1>2. CASE p \notin Used(Tenure) /\ q \notin Used(Tenure)
  BY <1>2 DEF Remap
<1>3. ASSUME NEW a \in Used(Places), NEW b \in Used(Places), a \in Used(Tenure), b \notin Used(Tenure)
      PROVE  Remap(a) # Remap(b)
  <2>1. Remap(a) \in Tenure /\ Remap(b) = b
    BY <1>3, BelowFacts DEF Remap
  <2>2. b \notin Tenure
    BY <1>3 DEF Used
  <2> QED
    BY <2>1, <2>2
<1> QED
  BY <1>1, <1>2, <1>3

(* Objects stay in their region, and move down.                            *)
LEMMA RemapStays ==
  /\ \A p \in Places : Remap(p) \in Places /\ (Remap(p) \in Tenure <=> p \in Tenure)
                       /\ (p \notin Tenure => Remap(p) = p)
  /\ Remap(Null) = Null
  /\ \A ref \in Refs : Remap(ref) \in Refs
<1>1. Tenure \subseteq Places /\ Null \notin Places
  BY NullAssumption DEF Places
<1>2. Remap(Null) = Null
  BY <1>1 DEF Remap, Used
<1>3. ASSUME NEW p \in Places
      PROVE  Remap(p) \in Places /\ (Remap(p) \in Tenure <=> p \in Tenure)
             /\ (p \notin Tenure => Remap(p) = p)
  <2>1. CASE p \in Used(Tenure)
    BY <1>1, <2>1, BelowFacts
  <2>2. CASE p \notin Used(Tenure)
    <3>1. Remap(p) = p
      BY <2>2 DEF Remap
    <3> QED
      BY <3>1
  <2> QED
    BY <2>1, <2>2
<1> QED
  BY <1>2, <1>3 DEF Refs

(* Nothing is moved if the region is full.                                 *)
LEMMA RemapFull ==
  ASSUME Typed, Free(Tenure) = {}
  PROVE  /\ \A ref : Remap(ref) = ref
         /\ Cardinality(Used(Tenure)) = config["tenure"]
<1>1. config \in Configs /\ config["tenure"] \in Nat \ {0} /\ tenure_frontier \in 0 .. config["tenure"]
  BY CollectorAssumption DEF Typed, Regions
<1> DEFINE n == config["tenure"]
<1>2. Used(Tenure) = {"tenure"} \X (1 .. n)
  <2>1. ASSUME NEW p \in Used(Tenure) PROVE p \in {"tenure"} \X (1 .. n)
    <3>1. p \in Tenure /\ p[2] <= tenure_frontier
      BY DEF Used, Typed
    <3>2. p = <<"tenure", p[2]>> /\ p[2] \in 1 .. n
      BY <1>1, <3>1, TenureIsColumn
    <3> QED
      BY <3>2
  <2>2. ASSUME NEW i \in 1 .. n PROVE <<"tenure", i>> \in Used(Tenure)
    <3>1. PICK m \in Nat : Tenure = {"tenure"} \X (1 .. m) /\ \A c \in Configs : c["tenure"] <= m
      BY TenureIsColumn
    <3>2. i \in 1 .. m
      BY <1>1, <3>1
    <3>3. <<"tenure", i>> \in Tenure
      BY <3>1, <3>2
    <3>4. <<"tenure", i>> \notin Free(Tenure)
      OBVIOUS
    <3> QED
      BY <3>3, <3>4 DEF Free, Used
  <2> QED
    BY <2>1, <2>2
<1>3. Cardinality(Used(Tenure)) = n
  BY <1>1, <1>2, ColumnSize
<1>4. ASSUME NEW p \in Used(Tenure) PROVE Remap(p) = p
  <2>1. p = <<"tenure", p[2]>> /\ p[2] \in 1 .. n
    BY <1>2
  <2>2. Below(p) = {"tenure"} \X (1 .. p[2])
    <3>1. \A i \in 1 .. n : i <= p[2] <=> i \in 1 .. p[2]
      BY <2>1
    <3>2. \A i \in 1 .. p[2] : i \in 1 .. n
      BY <1>1, <2>1
    <3>3. Below(p) = {q \in {"tenure"} \X (1 .. n) : q[2] <= p[2]}
      BY <1>2 DEF Below
    <3> QED
      BY <3>1, <3>2, <3>3
  <2>3. Cardinality(Below(p)) = p[2]
    BY <2>1, <2>2, ColumnSize
  <2> QED
    BY <2>1, <2>3, BelowFacts
<1> QED
  BY <1>3, <1>4 DEF Remap

(* An object keeps all but its references.                                 *)
LEMMA RemappedFacts ==
  ASSUME NEW object \in Object
  PROVE  LET moved == Remapped(object) IN
         /\ moved \in Object /\ moved.object = object.object /\ moved.native = object.native
         /\ moved.forward = object.forward /\ moved.newer = Remap(object.newer)
         /\ moved.slots = [s \in Slots |-> Remap(object.slots[s])]
<1>1. Remapped(object) = [object EXCEPT !.slots = [s \in Slots |-> Remap(object.slots[s])],
                                        !.newer = Remap(object.newer)]
  BY DEF Remapped
<1>2. object.newer \in Refs /\ object.slots \in [Slots -> Refs]
  BY DEF Object
<1>3. Remap(object.newer) \in Refs /\ [s \in Slots |-> Remap(object.slots[s])] \in [Slots -> Refs]
  BY <1>2, RemapStays
<1> QED
  BY <1>1, <1>3 DEF Object

(* Objects are moved to where Remap says, and references to them follow.   *)
LEMMA CompactEffect ==
  ASSUME HeapInv, Compact
  PROVE  /\ phase = "mutator"
         /\ \A p \in Used(Places) : Remap(p) \in Used(Places)' /\ heap'[Remap(p)] = Remapped(heap[p])
         /\ \A q \in Used(Places)' : \E p \in Used(Places) : q = Remap(p)
         /\ heap' \in Heaps
         /\ root' = [v \in Roots |-> Remap(root[v])]
         /\ remember_set' = {Remap(p) : p \in remember_set}
<1>1. phase = "mutator" /\ Typed /\ heap \in Heaps
  BY DEF Compact, Due, HeapInv, Typed
<1>2. Used(Places) \subseteq Listed /\ Tenure \subseteq Places
  BY <1>1, PlacesAreApart DEF Typed, Used, Listed, ToHalf
<1> DEFINE updated == [p \in Used(Places) |-> IF p \in Listed THEN Remapped(heap[p]) ELSE heap[p]]
<1>3. heap' = [p \in Places |->
                   IF p \in Tenure
                   THEN IF \E q \in Used(Tenure) : Remap(q) = p
                        THEN updated[CHOOSE q \in Used(Tenure) : Remap(q) = p] ELSE Null
                   ELSE IF heap[p] = Null THEN Null ELSE updated[p]]
  BY DEF Compact
<1>4. \A p \in Used(Places) : updated[p] = Remapped(heap[p]) /\ updated[p] \in Object /\ updated[p] # Null
  <2> SUFFICES ASSUME NEW p \in Used(Places)
               PROVE  updated[p] = Remapped(heap[p]) /\ updated[p] \in Object /\ updated[p] # Null
    OBVIOUS
  <2>1. updated[p] = Remapped(heap[p])
    BY <1>2
  <2>2. heap[p] \in Object
    BY <1>1, FieldTypes
  <2>3. Remapped(heap[p]) \in Object
    BY <2>2, RemappedFacts
  <2> QED
    BY <2>1, <2>3, NullAssumption
<1>5. PICK u : u = updated
  OBVIOUS
<1> HIDE DEF updated
<1>6. ASSUME NEW p \in Used(Places)
      PROVE  Remap(p) \in Used(Places)' /\ heap'[Remap(p)] = Remapped(heap[p])
  <2>1. p \in Places /\ heap[p] # Null /\ Remap(p) \in Places
    BY RemapStays DEF Used
  <2>2. CASE p \in Tenure
    <3>1. p \in Used(Tenure) /\ Remap(p) \in Tenure
      BY <2>1, <2>2, RemapStays DEF Used
    <3>2. \A q \in Used(Tenure) : Remap(q) = Remap(p) => q = p
      BY <1>2, RemapIsInjective DEF Used
    <3>3. (CHOOSE q \in Used(Tenure) : Remap(q) = Remap(p)) = p
      BY <3>1, <3>2
    <3>4. heap'[Remap(p)] = updated[p]
      BY <1>3, <2>1, <3>1, <3>3
    <3> QED
      BY <1>4, <2>1, <3>4 DEF Used
  <2>3. CASE p \notin Tenure
    <3>1. Remap(p) = p
      BY <2>1, <2>3, RemapStays
    <3>2. heap'[p] = updated[p]
      BY <1>3, <2>1, <2>3
    <3> QED
      BY <1>4, <2>1, <3>1, <3>2 DEF Used
  <2> QED
    BY <2>2, <2>3
<1>7. ASSUME NEW q \in Used(Places)' PROVE \E p \in Used(Places) : q = Remap(p)
  <2>1. q \in Places /\ heap'[q] # Null
    BY DEF Used
  <2>2. CASE q \in Tenure
    <3>1. \E r \in Used(Tenure) : Remap(r) = q
      BY <1>3, <2>1, <2>2
    <3> QED
      BY <1>2, <3>1 DEF Used
  <2>3. CASE q \notin Tenure
    <3>1. heap[q] # Null /\ Remap(q) = q
      BY <1>3, <2>1, <2>3, RemapStays
    <3> QED
      BY <2>1, <3>1 DEF Used
  <2> QED
    BY <2>2, <2>3
<1>8. heap' \in Heaps
  <2>1. ASSUME NEW q \in Places PROVE heap'[q] \in Object \cup {Null}
    <3>1. CASE q \in Used(Places)'
      <4>1. PICK p \in Used(Places) : q = Remap(p)
        BY <1>7, <3>1
      <4>2. heap'[q] = updated[p]
        BY <1>4, <1>6, <4>1
      <4> QED
        BY <1>4, <4>2
    <3>2. CASE q \notin Used(Places)'
      BY <3>2 DEF Used
    <3> QED
      BY <3>1, <3>2
  <2>2. heap' = [p \in Places |-> heap'[p]]
    BY <1>3
  <2> QED
    BY <2>1, <2>2 DEF Heaps
<1>9. root' = [v \in Roots |-> Remap(root[v])] /\ remember_set' = {Remap(p) : p \in remember_set}
  BY DEF Compact
<1> QED
  BY <1>1, <1>6, <1>7, <1>8, <1>9

(* Chains go down after a compaction, too.                                 *)
LEMMA CompactRanks ==
  ASSUME HeapInv, Compact
  PROVE  Ranked(heap')
<1>1. Typed /\ Ranked(heap) /\ heap \in Heaps
  BY DEF HeapInv, Typed
<1>2. /\ \A p \in Used(Places) : Remap(p) \in Used(Places)' /\ heap'[Remap(p)] = Remapped(heap[p])
      /\ \A q \in Used(Places)' : \E p \in Used(Places) : q = Remap(p)
  BY CompactEffect
<1>3. ASSUME NEW q \in Places, ~IsLast(heap', q)
      PROVE  \E p \in Used(Places) : /\ q = Remap(p) /\ ~IsLast(heap, p) /\ heap[p].newer \in Places
                                     /\ heap'[q].newer = Remap(heap[p].newer)
  <2>1. q \in Used(Places)'
    BY <1>3 DEF Used, IsLast
  <2>2. PICK p \in Used(Places) : q = Remap(p)
    BY <1>2, <2>1
  <2>3. heap[p] \in Object /\ heap[p] # Null /\ p \in Places
    BY <1>1, FieldTypes DEF Used
  <2>4. heap'[q].newer = Remap(heap[p].newer)
    BY <1>2, <2>2, <2>3, RemappedFacts
  <2>5. heap[p].newer # Null
    BY <1>3, <2>4, RemapStays DEF IsLast
  <2>6. ~IsLast(heap, p)
    BY <2>3, <2>5 DEF IsLast
  <2> QED
    BY <1>1, <2>2, <2>3, <2>4, <2>6, NewerIsPlace
<1>4. PICK N \in Nat : \E r \in [Places -> 0 .. N] :
        \A p \in Places : ~IsLast(heap, p) => r[heap[p].newer] < r[p]
  BY <1>1 DEF Ranked
<1>5. PICK r \in [Places -> 0 .. N] : \A p \in Places : ~IsLast(heap, p) => r[heap[p].newer] < r[p]
  BY <1>4
<1>6. CASE Free(Tenure) = {}
  <2>1. \A ref : Remap(ref) = ref
    BY <1>1, <1>6, RemapFull
  <2>2. \A q \in Places : ~IsLast(heap', q) => ~IsLast(heap, q) /\ heap'[q].newer = heap[q].newer
    BY <1>3, <2>1
  <2> QED
    BY <1>1, <2>2, RankedStays
<1>7. CASE agenda = <<"compact", "young">>
  <2>1. PICK r2 : r2 = [p \in Places |-> IF p \in Tenure THEN 0 ELSE r[p] + 1]
    OBVIOUS
  <2>2. r2 \in [Places -> 0 .. N + 1] /\ N + 1 \in Nat
    BY <2>1
  <2>3. ASSUME NEW q \in Places, ~IsLast(heap', q) PROVE r2[heap'[q].newer] < r2[q]
    <3>1. PICK p \in Used(Places) : /\ q = Remap(p) /\ ~IsLast(heap, p) /\ heap[p].newer \in Places
                                    /\ heap'[q].newer = Remap(heap[p].newer)
      BY <1>3, <2>3
    <3>2. p \in Places /\ p \notin Tenure
      BY <1>7, <3>1 DEF HeapInv, AgendaIsClean, IsLast, Used
    <3>3. q = p /\ r[heap[p].newer] < r[p]
      BY <1>5, <3>1, <3>2, RemapStays
    <3>4. r2[q] = r[q] + 1 /\ r[q] \in Nat /\ r[heap[p].newer] \in Nat
      BY <2>1, <3>1, <3>2, <3>3
    <3>5. CASE heap'[q].newer \in Tenure
      BY <2>1, <2>3, <3>1, <3>4, <3>5, RemapStays
    <3>6. CASE heap'[q].newer \notin Tenure
      <4>1. heap'[q].newer = heap[p].newer
        BY <3>1, <3>6, RemapStays
      <4> QED
        BY <2>1, <3>1, <3>3, <3>4, <3>6, <4>1
    <3> QED
      BY <3>5, <3>6
  <2> QED
    BY <2>2, <2>3 DEF Ranked
<1> QED
  <2>1. agenda = << >> \/ agenda = <<"compact", "young">> \/ agenda = <<"young">>
    BY DEF HeapInv, AgendaIsClean
  <2>2. Free(Tenure) = {} \/ agenda = <<"compact", "young">>
    BY <2>1 DEF Compact, Due
  <2> QED
    BY <1>6, <1>7, <2>2

(* References are followed to where their objects have been moved.         *)
LEMMA CompactNewest ==
  ASSUME HeapInv, Compact
  PROVE  \A p \in Places : heap[Newest[p]] # Null =>
           Newest'[Remap(p)] = Remap(Newest[p])
<1>1. Typed /\ Ranked(heap) /\ heap \in Heaps /\ heap' \in Heaps /\ Ranked(heap')
  BY CompactEffect, CompactRanks DEF HeapInv, Typed
<1>2. \A p \in Used(Places) : Remap(p) \in Used(Places)' /\ heap'[Remap(p)] = Remapped(heap[p])
  BY CompactEffect
<1> DEFINE S == {p \in Places : heap[Newest[p]] # Null}
           m == [p \in S |-> Remap(p)]
<1>3. Follows(heap, Newest) /\ Follows(heap', Newest')
  BY <1>1, NewestFacts, NewestFactsNext
<1>4. ASSUME NEW p \in S
      PROVE  IF IsLast(heap, p) THEN IsLast(heap', m[p])
             ELSE /\ ~IsLast(heap', m[p]) /\ heap[p].newer \in S
                  /\ heap'[m[p]].newer = m[heap[p].newer]
  <2>1. p \in Used(Places) /\ p \in Places
    BY <1>1, NewestFacts DEF Used
  <2>2. heap[p] \in Object
    BY <1>1, <2>1, FieldTypes
  <2>3. heap'[Remap(p)].newer = Remap(heap[p].newer) /\ heap'[Remap(p)] # Null
    BY <1>2, <2>1, <2>2, RemappedFacts DEF Used
  <2>4. CASE IsLast(heap, p)
    <3>1. heap[p].newer = Null
      BY <2>1, <2>4 DEF IsLast, Used
    <3> QED
      BY <2>3, <2>4, <3>1, RemapStays DEF IsLast
  <2>5. CASE ~IsLast(heap, p)
    <3>1. heap[p].newer \in Places /\ Newest[p] = Newest[heap[p].newer]
      BY <1>1, <1>3, <2>5, NewerIsPlace DEF Follows
    <3>2. heap[p].newer \in S
      BY <1>4, <3>1
    <3>3. Remap(heap[p].newer) # Null
      BY <3>1, RemapStays, NullAssumption
    <3> QED
      BY <2>3, <2>5, <3>2, <3>3 DEF IsLast
  <2> QED
    BY <2>4, <2>5
<1>5. S \in SUBSET Places /\ m \in [S -> Places]
  BY RemapStays
<1> HIDE DEF S, m
<1>6. \A p \in S : Newest[p] \in S /\ Newest'[m[p]] = m[Newest[p]]
  BY <1>1, <1>3, <1>4, <1>5, FollowsMoves
<1> QED
  BY <1>6 DEF S, m

(* A compaction keeps the invariant, and the program does not see it.      *)
LEMMA CompactStep ==
  ASSUME IInv, Compact
  PROVE  IInv' /\ AbstractNext
<1>1. HeapInv /\ Names /\ Typed /\ heap \in Heaps /\ Ranked(heap)
  BY DEF IInv, HeapInv, Typed
<1>2. /\ phase = "mutator"
      /\ \A p \in Used(Places) : Remap(p) \in Used(Places)' /\ heap'[Remap(p)] = Remapped(heap[p])
      /\ \A q \in Used(Places)' : \E p \in Used(Places) : q = Remap(p)
      /\ heap' \in Heaps /\ Ranked(heap')
      /\ root' = [v \in Roots |-> Remap(root[v])]
      /\ remember_set' = {Remap(p) : p \in remember_set}
  BY <1>1, CompactEffect, CompactRanks
<1>3. \A p \in Places : heap[Newest[p]] # Null => Newest'[Remap(p)] = Remap(Newest[p])
  BY <1>1, CompactNewest
<1>4. UNCHANGED <<config, resources, nallocated, listVars, phase, work, promoted>>
      /\ tenure_frontier' = IF Used(Tenure) = {} THEN tenure_frontier ELSE Cardinality(Used(Tenure))
  BY DEF Compact
<1>5. agenda' = << >> \/ agenda' = <<"young">>
  <2>1. agenda \in {<< >>, <<"compact", "young">>, <<"young">>}
    BY <1>1 DEF HeapInv, AgendaIsClean
  <2>2. agenda = << >> \/ agenda = <<"compact", "young">>
    BY <2>1 DEF Compact, Due
  <2>3. agenda' = IF agenda = << >> THEN << >> ELSE Tail(agenda)
    BY DEF Compact, After
  <2>4. Tail(<<"compact", "young">>) = <<"young">> /\ <<"compact", "young">> # << >>
    OBVIOUS
  <2> QED
    BY <2>2, <2>3, <2>4
<1>6. ASSUME NEW p \in Used(Places)
      PROVE  /\ heap'[Remap(p)].object = heap[p].object /\ heap'[Remap(p)].native = heap[p].native
             /\ heap'[Remap(p)].forward = heap[p].forward /\ heap'[Remap(p)].newer = Remap(heap[p].newer)
             /\ \A s \in Slots : heap'[Remap(p)].slots[s] = Remap(heap[p].slots[s]) /\ heap[p].slots[s] \in Refs
             /\ p \in Places /\ heap[p] # Null
  <2>1. heap[p] \in Object /\ \A s \in Slots : heap[p].slots[s] \in Refs
    BY <1>1, FieldTypes
  <2>2. p \in Places /\ heap[p] # Null
    BY DEF Used
  <2>3. PICK object \in Object : object = heap[p]
    BY <2>1
  <2>4. /\ Remapped(object).object = object.object /\ Remapped(object).native = object.native
        /\ Remapped(object).forward = object.forward /\ Remapped(object).newer = Remap(object.newer)
        /\ Remapped(object).slots = [s \in Slots |-> Remap(object.slots[s])]
    BY RemappedFacts
  <2>5. heap'[Remap(p)] = Remapped(object)
    BY <1>2, <2>3
  <2>6. \A s \in Slots : heap'[Remap(p)].slots[s] = Remap(heap[p].slots[s])
    BY <2>3, <2>4, <2>5
  <2> QED
    BY <2>1, <2>2, <2>3, <2>4, <2>5, <2>6
<1>7. Null \notin Places /\ Tenure \subseteq Places /\ Half[0] \cup Half[1] \subseteq Places
      /\ Tenure \cap (Half[0] \cup Half[1]) = {}
  BY PlacesAreApart, NullAssumption
<1>8. \A q \in Used(Tenure)' : \E p \in Used(Tenure) : q = Remap(p)
  <2> SUFFICES ASSUME NEW q \in Used(Tenure)' PROVE \E p \in Used(Tenure) : q = Remap(p)
    OBVIOUS
  <2>1. q \in Tenure /\ q \in Used(Places)'
    BY <1>7 DEF Used
  <2>2. PICK p \in Used(Places) : q = Remap(p)
    BY <1>2, <2>1
  <2> QED
    BY <2>1, <2>2, RemapStays DEF Used
<1>9. IsFiniteSet(Used(Tenure)) /\ Cardinality(Used(Tenure)) <= tenure_frontier
      /\ tenure_frontier \in Nat /\ config["tenure"] \in Nat
  <2>1. tenure_frontier \in 0 .. config["tenure"] /\ config["tenure"] \in Nat
    BY <1>1, CollectorAssumption DEF Typed, Regions
  <2>2. Used(Tenure) \subseteq {"tenure"} \X (1 .. tenure_frontier)
    <3> SUFFICES ASSUME NEW p \in Used(Tenure) PROVE p \in {"tenure"} \X (1 .. tenure_frontier)
      OBVIOUS
    <3>1. p \in Tenure /\ p[2] <= tenure_frontier
      BY <1>1 DEF Typed, Used
    <3>2. p = <<"tenure", p[2]>> /\ p[2] \in 1 .. tenure_frontier
      BY <2>1, <3>1, TenureIsColumn
    <3> QED
      BY <3>2
  <2>3. PICK T : T = {"tenure"} \X (1 .. tenure_frontier)
    OBVIOUS
  <2>4. IsFiniteSet(T) /\ Cardinality(T) = tenure_frontier
    BY <2>1, <2>3, ColumnSize
  <2>5. Used(Tenure) \in SUBSET T
    BY <2>2, <2>3
  <2> QED
    BY <2>1, <2>4, <2>5, FS_Subset
<1>10. tenure_frontier' \in 0 .. config["tenure"] /\ \A q \in Used(Tenure)' : q[2] <= tenure_frontier'
  <2>1. Cardinality(Used(Tenure)) \in Nat
    BY <1>9, FS_CardinalityType
  <2>2. tenure_frontier' \in 0 .. config["tenure"]
    BY <1>1, <1>4, <1>9, <2>1 DEF Typed
  <2>3. ASSUME NEW q \in Used(Tenure)' PROVE q[2] <= tenure_frontier'
    <3>1. PICK p \in Used(Tenure) : q = Remap(p)
      BY <1>8
    <3>2. q[2] = Cardinality(Below(p))
      BY <3>1, BelowFacts
    <3>3. Below(p) \in SUBSET Used(Tenure)
      BY DEF Below
    <3>4. Cardinality(Below(p)) <= Cardinality(Used(Tenure))
      BY <1>9, <3>3, FS_Subset
    <3> QED
      BY <1>4, <3>1, <3>2, <3>4
  <2> QED
    BY <2>2, <2>3
<1>11. Typed' /\ ~InYoung'
  <2>1. root' \in [Roots -> Refs]
    BY <1>1, <1>2, RemapStays DEF Typed
  <2>2. remember_set' \subseteq Used(Tenure)'
    <3> SUFFICES ASSUME NEW p \in remember_set PROVE Remap(p) \in Used(Tenure)'
      BY <1>2
    <3>1. p \in Tenure /\ p \in Used(Places)
      BY <1>1, <1>7 DEF Typed, Used
    <3> QED
      BY <1>2, <1>7, <3>1, RemapStays DEF Used
  <2>3. \A q \in Half[0] \cup Half[1] : heap'[q] = Null <=> heap[q] = Null
    <3> SUFFICES ASSUME NEW q \in Half[0] \cup Half[1] PROVE heap'[q] = Null <=> heap[q] = Null
      OBVIOUS
    <3>1. q \in Places /\ q \notin Tenure /\ Remap(q) = q
      BY <1>7, RemapStays
    <3>2. ASSUME heap[q] # Null PROVE heap'[q] # Null
      <4>1. q \in Used(Places)
        BY <3>1, <3>2 DEF Used
      <4> QED
        BY <1>2, <3>1, <4>1 DEF Used
    <3>3. ASSUME heap'[q] # Null PROVE heap[q] # Null
      <4>1. PICK p \in Used(Places) : q = Remap(p)
        BY <1>2, <3>1, <3>3 DEF Used
      <4>2. p = q
        BY <3>1, <4>1, RemapStays DEF Used
      <4> QED
        BY <4>1, <4>2 DEF Used
    <3> QED
      BY <3>2, <3>3
  <2>4. resources' \subseteq Handles /\ nallocated' \in Nat
    BY <1>1, <1>4 DEF Typed
  <2> QED
    BY <1>1, <1>2, <1>4, <1>10, <2>1, <2>2, <2>3, <2>4, MutatorTyped
<1>12. PICK G \in SUBSET Used(Places) : Traced(G)
  BY <1>1 DEF HeapInv, Sound
<1>13. PICK H : H = {Remap(p) : p \in G}
  OBVIOUS
<1>14. ASSUME NEW ref \in Places, Newest[ref] \in G
       PROVE  Newest'[Remap(ref)] \in H
  BY <1>3, <1>12, <1>13, <1>14 DEF Used
<1>15. Traced(H)'
  <2>1. ASSUME NEW p \in G
        PROVE  /\ heap'[Remap(p)].newer = Null
               /\ \A s \in Slots : heap'[Remap(p)].slots[s] # Null => Newest'[heap'[Remap(p)].slots[s]] \in H
    <3>1. heap[p].newer = Null /\ p \in Used(Places)
      BY <1>12 DEF Traced
    <3>2. heap'[Remap(p)].newer = Null
      BY <1>6, <3>1, RemapStays
    <3>3. ASSUME NEW s \in Slots, heap'[Remap(p)].slots[s] # Null
          PROVE  Newest'[heap'[Remap(p)].slots[s]] \in H
      <4>1. heap'[Remap(p)].slots[s] = Remap(heap[p].slots[s]) /\ heap[p].slots[s] \in Refs
        BY <1>6, <3>1
      <4>2. heap[p].slots[s] \in Places
        BY <3>3, <4>1, RemapStays DEF Refs
      <4>3. Newest[heap[p].slots[s]] \in G
        BY <1>7, <1>12, <4>2 DEF Traced
      <4> QED
        BY <1>14, <4>1, <4>2, <4>3
    <3> QED
      BY <3>2, <3>3
  <2>2. ASSUME NEW v \in Roots, root'[v] # Null PROVE Newest'[root'[v]] \in H
    <3>1. root'[v] = Remap(root[v]) /\ root[v] \in Refs
      BY <1>1, <1>2 DEF Typed
    <3>2. root[v] \in Places
      BY <2>2, <3>1, RemapStays DEF Refs
    <3> QED
      BY <1>7, <1>12, <1>14, <3>1, <3>2 DEF Traced
  <2>3. ASSUME NEW p \in remember_set PROVE Newest'[Remap(p)] \in H
    <3>1. p \in Places /\ Newest[p] \in G
      BY <1>1, <1>7, <1>12 DEF Typed, Used, Traced
    <3> QED
      BY <1>14, <3>1
  <2> QED
    BY <1>2, <1>11, <1>13, <2>1, <2>2, <2>3 DEF Traced
<1>16. Sound'
  BY <1>2, <1>12, <1>13, <1>15 DEF Sound
<1>17. NativesDiffer'
  <2>1. \A q \in Used(Places)' : heap'[q].native => heap'[q].object \in resources'
    <3> SUFFICES ASSUME NEW q \in Used(Places)', heap'[q].native PROVE heap'[q].object \in resources'
      OBVIOUS
    <3>1. PICK p \in Used(Places) : q = Remap(p)
      BY <1>2
    <3> QED
      BY <1>1, <1>4, <1>6, <3>1 DEF HeapInv, NativesDiffer
  <2>2. \A q, r \in Used(Places)' :
          heap'[q].native /\ heap'[r].native /\ heap'[q].object = heap'[r].object => q = r
    <3> SUFFICES ASSUME NEW q \in Used(Places)', NEW r \in Used(Places)',
                        heap'[q].native, heap'[r].native, heap'[q].object = heap'[r].object
                 PROVE  q = r
      OBVIOUS
    <3>1. PICK a \in Used(Places) : q = Remap(a)
      BY <1>2
    <3>2. PICK b \in Used(Places) : r = Remap(b)
      BY <1>2
    <3> QED
      BY <1>1, <1>6, <3>1, <3>2 DEF HeapInv, NativesDiffer
  <2> QED
    BY <2>1, <2>2 DEF NativesDiffer
<1>18. NoneForwarded'
  BY <1>1, <1>2, <1>6 DEF HeapInv, NoneForwarded
<1>19. AgendaIsClean'
  BY <1>2, <1>4, <1>5 DEF AgendaIsClean
<1>20. HeapInv'
  BY <1>2, <1>11, <1>16, <1>17, <1>18, <1>19 DEF HeapInv
<1>21. IdleHomes /\ IdleHomes' /\ HomesAreLeast /\ phase' = "mutator"
  <2>1. IdleHomes /\ HomesAreLeast
    BY <1>1, IdleFacts, HomesFacts
  <2>2. IdleHomes'
    BY <1>20, IdleFacts, PTL
  <2> QED
    BY <1>2, <1>4, <2>1, <2>2
<1>22. PICK m : m = [p \in Places \cup {Null} |-> Remap(p)]
  OBVIOUS
<1>23. ASSUME NEW ref \in Refs, Home(ref) \in Homes \cup {Null}, NEW q, q = Remap(ref)
       PROVE  Home(q)' = m[Home(ref)]
  <2>1. CASE ref = Null
    <3>1. q = Null /\ Home(ref) = Null /\ m[Null] = Null
      BY <1>22, <1>23, <2>1, RemapStays DEF Home
    <3> QED
      BY <3>1 DEF Home
  <2>2. CASE ref # Null
    <3>1. ref \in Places /\ Home(ref) = Newest[ref] /\ Newest[ref] \in Places
      BY <1>1, <1>2, <1>21, <2>2, NewestFacts DEF IdleHomes, Refs
    <3>2. heap[Newest[ref]] # Null
      BY <1>7, <1>21, <1>23, <3>1 DEF HomesAreLeast, Used
    <3>3. Newest'[q] = m[Newest[ref]]
      BY <1>3, <1>22, <1>23, <3>1, <3>2
    <3>4. q \in Places /\ q # Null
      BY <1>7, <1>23, <3>1, RemapStays
    <3>5. Home(q)' = Newest'[q]
      BY <1>21, <3>4 DEF IdleHomes, Refs
    <3> QED
      BY <3>1, <3>3, <3>5
  <2> QED
    BY <2>1, <2>2
<1>24. \A p \in Homes : p \in Used(Places) /\ m[p] = Remap(p) /\ m[p] # Null /\ p \in Places
  BY <1>6, <1>7, <1>21, <1>22, RemapStays DEF HomesAreLeast
<1>25. SameHeap(m)
  <2>1. m \in [Places \cup {Null} -> Places \cup {Null}] /\ m[Null] = Null
    BY <1>22, RemapStays
  <2>2. ASSUME NEW v \in Roots PROVE Home(root[v])' = m[Home(root[v])]
    <3>1. PICK q : q = root'[v]
      OBVIOUS
    <3>2. q = Remap(root[v]) /\ root[v] \in Refs /\ Home(root[v]) \in Homes \cup {Null}
      BY <1>1, <1>2, <1>21, <3>1 DEF Typed, HomesAreLeast, Home
    <3>3. Home(q)' = m[Home(root[v])]
      BY <1>23, <3>2
    <3> QED
      BY <3>1, <3>3 DEF Home
  <2>3. ASSUME NEW p \in Homes, NEW s \in Slots
        PROVE  Home(heap[m[p]].slots[s])' = m[Home(heap[p].slots[s])]
    <3>1. PICK q : q = heap'[m[p]].slots[s]
      OBVIOUS
    <3>2. q = Remap(heap[p].slots[s]) /\ heap[p].slots[s] \in Refs
      BY <1>6, <1>24, <3>1
    <3>3. Home(heap[p].slots[s]) \in Homes \cup {Null}
      BY <1>21 DEF HomesAreLeast, Home
    <3>4. Home(q)' = m[Home(heap[p].slots[s])]
      BY <1>23, <3>2, <3>3
    <3> QED
      BY <3>1, <3>4 DEF Home
  <2>4. \A p \in Homes : heap'[m[p]].object = heap[p].object /\ heap'[m[p]].native = heap[p].native
    BY <1>6, <1>24
  <2> QED
    BY <1>24, <2>1, <2>2, <2>3, <2>4 DEF SameHeap
<1>26. Names' /\ LiveElements' = LiveElements /\ Seen' = Seen
  BY <1>1, <1>20, <1>25, UnseenSteps DEF Seen
<1> QED
  BY <1>4, <1>20, <1>26 DEF IInv, AbstractNext, ManagedHeap!vars, Seen

-----------------------------------------------------------------------------
(* Worklists.                                                              *)

(* The list of a finite set holds its elements.                            *)
LEMMA ItemsOfList ==
  ASSUME NEW S, IsFiniteSet(S)
  PROVE  SetToSeq(S) \in Seq(S) /\ Items(SetToSeq(S)) = S
<1>1. /\ SetToSeq(S) \in Seq(S)
      /\ \A x \in S : \E i \in DOMAIN SetToSeq(S) : SetToSeq(S)[i] = x
  BY SetToSeqListsAll
<1>2. PICK seq : seq = SetToSeq(S)
  OBVIOUS
<1>3. Items(seq) = S
  BY <1>1, <1>2 DEF Items
<1> QED
  BY <1>1, <1>2, <1>3

(* A worklist holds its head and what its tail holds.                      *)
LEMMA ItemsOfWork ==
  ASSUME NEW E, NEW w \in Seq(E), w # << >>
  PROVE  /\ Head(w) \in E /\ Head(w) \in Items(w) /\ Tail(w) \in Seq(E)
         /\ Len(Tail(w)) < Len(w)
         /\ Items(w) = {Head(w)} \cup Items(Tail(w))
<1>1. Len(w) \in Nat \ {0} /\ DOMAIN w = 1 .. Len(w) /\ Head(w) = w[1] /\ 1 \in DOMAIN w
  OBVIOUS
<1>2. Tail(w) \in Seq(E) /\ Len(Tail(w)) = Len(w) - 1 /\ \A i \in 1 .. Len(w) - 1 : Tail(w)[i] = w[i + 1]
  BY <1>1
<1>3. DOMAIN Tail(w) = 1 .. Len(w) - 1
  BY <1>2
<1>4. Items(w) \subseteq {Head(w)} \cup Items(Tail(w))
  <2> SUFFICES ASSUME NEW i \in DOMAIN w PROVE w[i] \in {Head(w)} \cup Items(Tail(w))
    BY DEF Items
  <2>1. CASE i = 1
    BY <1>1, <2>1
  <2>2. CASE i # 1
    <3>1. i - 1 \in 1 .. Len(w) - 1 /\ (i - 1) + 1 = i
      BY <1>1, <2>2
    <3>2. Tail(w)[i - 1] = w[i]
      BY <1>2, <3>1
    <3> QED
      BY <1>3, <3>1, <3>2 DEF Items
  <2> QED
    BY <2>1, <2>2
<1>5. Items(Tail(w)) \subseteq Items(w)
  <2> SUFFICES ASSUME NEW i \in 1 .. Len(w) - 1 PROVE Tail(w)[i] \in Items(w)
    BY <1>3 DEF Items
  <2>1. i + 1 \in DOMAIN w /\ Tail(w)[i] = w[i + 1]
    BY <1>1, <1>2
  <2> QED
    BY <2>1 DEF Items
<1>6. Head(w) \in Items(w)
  BY <1>1 DEF Items
<1> QED
  BY <1>1, <1>2, <1>4, <1>5, <1>6

(* A concatenation holds what its parts hold.                              *)
LEMMA ItemsOfBoth ==
  ASSUME NEW E, NEW a \in Seq(E), NEW b \in Seq(E)
  PROVE  a \o b \in Seq(E) /\ Items(a \o b) = Items(a) \cup Items(b)
<1>1. /\ Len(a) \in Nat /\ Len(b) \in Nat /\ DOMAIN a = 1 .. Len(a) /\ DOMAIN b = 1 .. Len(b)
      /\ a \o b \in Seq(E) /\ DOMAIN (a \o b) = 1 .. Len(a) + Len(b)
      /\ \A i \in 1 .. Len(a) + Len(b) : (a \o b)[i] = IF i <= Len(a) THEN a[i] ELSE b[i - Len(a)]
  OBVIOUS
<1>2. PICK c : c = a \o b
  OBVIOUS
<1>3. \A i \in DOMAIN c : c[i] \in Items(a) \cup Items(b)
  <2> SUFFICES ASSUME NEW i \in DOMAIN c PROVE c[i] \in Items(a) \cup Items(b)
    OBVIOUS
  <2>1. i \in 1 .. Len(a) + Len(b) /\ c[i] = IF i <= Len(a) THEN a[i] ELSE b[i - Len(a)]
    BY <1>1, <1>2
  <2>2. CASE i <= Len(a)
    <3>1. i \in DOMAIN a
      BY <1>1, <2>1, <2>2
    <3> QED
      BY <2>1, <2>2, <3>1 DEF Items
  <2>3. CASE ~(i <= Len(a))
    <3>1. i - Len(a) \in DOMAIN b
      BY <1>1, <2>1, <2>3
    <3> QED
      BY <2>1, <2>3, <3>1 DEF Items
  <2> QED
    BY <2>2, <2>3
<1>4. \A i \in DOMAIN a : a[i] \in Items(c)
  <2> SUFFICES ASSUME NEW i \in DOMAIN a PROVE a[i] \in Items(c)
    OBVIOUS
  <2>1. i \in 1 .. Len(a) + Len(b) /\ i <= Len(a)
    BY <1>1
  <2>2. c[i] = a[i] /\ i \in DOMAIN c
    BY <1>1, <1>2, <2>1
  <2> QED
    BY <2>2 DEF Items
<1>5. \A i \in DOMAIN b : b[i] \in Items(c)
  <2> SUFFICES ASSUME NEW i \in DOMAIN b PROVE b[i] \in Items(c)
    OBVIOUS
  <2>1. i + Len(a) \in 1 .. Len(a) + Len(b) /\ ~(i + Len(a) <= Len(a)) /\ (i + Len(a)) - Len(a) = i
    BY <1>1
  <2>2. c[i + Len(a)] = b[i] /\ i + Len(a) \in DOMAIN c
    BY <1>1, <1>2, <2>1
  <2> QED
    BY <2>2 DEF Items
<1>6. Items(c) \subseteq Items(a) \cup Items(b)
  <2> SUFFICES ASSUME NEW i \in DOMAIN c PROVE c[i] \in Items(a) \cup Items(b)
    BY DEF Items
  <2> QED
    BY <1>3
<1>7. Items(a) \subseteq Items(c)
  <2> SUFFICES ASSUME NEW i \in DOMAIN a PROVE a[i] \in Items(c)
    BY DEF Items
  <2> QED
    BY <1>4
<1>8. Items(b) \subseteq Items(c)
  <2> SUFFICES ASSUME NEW i \in DOMAIN b PROVE b[i] \in Items(c)
    BY DEF Items
  <2> QED
    BY <1>5
<1> QED
  BY <1>1, <1>2, <1>6, <1>7, <1>8

(* A finite set has a finite image.                                        *)
LEMMA FiniteImages ==
  ASSUME NEW S, IsFiniteSet(S), NEW f, NEW T, T = {f[x] : x \in S}
  PROVE  IsFiniteSet(T)
<1>1. [x \in S |-> f[x]] \in Surjection(S, T)
  BY DEF Surjection
<1> QED
  BY <1>1, FS_Surjection

(* What the worklists of roots, members and elements hold.                 *)
LEMMA ListFacts ==
  /\ root \in [Roots -> Refs] =>
       /\ RootSlots \in Seq(Entries)
       /\ Items(RootSlots) = {<<"root", v>> : v \in {v \in Roots : root[v] # Null}}
  /\ \A ps \in SUBSET Tenure :
       /\ Members(ps) \in Seq(Entries)
       /\ Items(Members(ps)) = {<<"member", p>> : p \in ps}
  /\ \A p \in Places : \A object :
       /\ Elements(p, object) \in Seq(Entries)
       /\ Items(Elements(p, object)) = {<<"element", p, s>> : s \in {s \in Slots : object.slots[s] # Null}}
<1>1. ASSUME NEW S, IsFiniteSet(S), S \subseteq Entries
      PROVE  SetToSeq(S) \in Seq(Entries) /\ Items(SetToSeq(S)) = S
  BY <1>1, ItemsOfList
<1>2. /\ RootSlots \in Seq(Entries)
      /\ Items(RootSlots) = {<<"root", v>> : v \in {v \in Roots : root[v] # Null}}
  <2>1. PICK R : R = {v \in Roots : root[v] # Null}
    OBVIOUS
  <2>2. PICK S : S = {<<"root", v>> : v \in R}
    OBVIOUS
  <2>3. IsFiniteSet(S)
    <3>1. IsFiniteSet(R)
      BY <2>1, CollectorAssumption, FS_Subset
    <3>2. PICK f : f = [v \in R |-> <<"root", v>>]
      OBVIOUS
    <3>3. S = {f[x] : x \in R}
      BY <2>2, <3>2
    <3> QED
      BY <3>1, <3>3, FiniteImages
  <2>4. S \subseteq Entries
    BY <2>1, <2>2 DEF Entries
  <2>5. RootSlots = SetToSeq(S)
    BY <2>1, <2>2 DEF RootSlots
  <2> QED
    BY <1>1, <2>1, <2>2, <2>3, <2>4, <2>5
<1>3. ASSUME NEW ps \in SUBSET Tenure
      PROVE  Members(ps) \in Seq(Entries) /\ Items(Members(ps)) = {<<"member", p>> : p \in ps}
  <2>2. PICK S : S = {<<"member", p>> : p \in ps}
    OBVIOUS
  <2>3. IsFiniteSet(S)
    <3>1. IsFiniteSet(ps)
      <4>1. ps \in SUBSET Places
        BY DEF Places
      <4> QED
        BY <4>1, PlacesAreFinite, FS_Subset
    <3>2. PICK f : f = [p \in ps |-> <<"member", p>>]
      OBVIOUS
    <3>3. S = {f[x] : x \in ps}
      BY <2>2, <3>2
    <3> QED
      BY <3>1, <3>3, FiniteImages
  <2>4. S \subseteq Entries
    BY <2>2 DEF Entries
  <2>5. Members(ps) = SetToSeq(S)
    BY <2>2 DEF Members
  <2> QED
    BY <1>1, <2>2, <2>3, <2>4, <2>5
<1>4. ASSUME NEW p \in Places, NEW object
      PROVE  /\ Elements(p, object) \in Seq(Entries)
             /\ Items(Elements(p, object)) = {<<"element", p, s>> : s \in {s \in Slots : object.slots[s] # Null}}
  <2>1. PICK R : R = {s \in Slots : object.slots[s] # Null}
    OBVIOUS
  <2>2. PICK S : S = {<<"element", p, s>> : s \in R}
    OBVIOUS
  <2>3. IsFiniteSet(S)
    <3>1. IsFiniteSet(R)
      BY <2>1, CollectorAssumption, FS_Subset
    <3>2. PICK f : f = [s \in R |-> <<"element", p, s>>]
      OBVIOUS
    <3>3. S = {f[x] : x \in R}
      BY <2>2, <3>2
    <3> QED
      BY <3>1, <3>3, FiniteImages
  <2>4. S \subseteq Entries
    BY <2>1, <2>2 DEF Entries
  <2>5. Elements(p, object) = SetToSeq(S)
    BY <2>1, <2>2 DEF Elements
  <2> QED
    BY <1>1, <2>1, <2>2, <2>3, <2>4, <2>5
<1> QED
  BY <1>2, <1>3, <1>4

(* Steps that move no object.                                              *)
LEMMA UnmovedSteps ==
  ASSUME HeapInv, HeapInv', Names,
         \A v \in Roots : Home(root[v])' = Home(root[v]),
         \A p \in Homes :
           /\ heap'[p].object = heap[p].object /\ heap'[p].native = heap[p].native
           /\ \A s \in Slots : Home(heap[p].slots[s])' = Home(heap[p].slots[s])
  PROVE  Names' /\ LiveElements' = LiveElements /\ Seen' = Seen
         /\ \A v \in Roots : Name(root[v])' = Name(root[v])
<1>1. HomesAreLeast
  BY HomesFacts
<1>2. PICK m : m = [p \in Places \cup {Null} |-> p]
  OBVIOUS
<1>3. /\ \A p \in Homes \cup {Null} : m[p] = p
      /\ \A p \in Homes : p # Null
      /\ m \in [Places \cup {Null} -> Places \cup {Null}]
  BY <1>1, <1>2, NullAssumption DEF HomesAreLeast, Used
<1>4. SameHeap(m)
  <2>1. ASSUME NEW v \in Roots PROVE Home(root[v])' = m[Home(root[v])]
    <3>1. Home(root[v]) \in Homes \cup {Null}
      BY <1>1 DEF HomesAreLeast, Home
    <3> QED
      BY <1>3, <3>1
  <2>2. ASSUME NEW p \in Homes, NEW s \in Slots
        PROVE  Home(heap[m[p]].slots[s])' = m[Home(heap[p].slots[s])]
    <3>1. Home(heap[p].slots[s]) \in Homes \cup {Null}
      BY <1>1 DEF HomesAreLeast, Home
    <3>2. Home(heap[p].slots[s])' = Home(heap[p].slots[s])
      OBVIOUS
    <3>3. heap'[m[p]].slots[s] = heap'[p].slots[s]
      BY <1>3
    <3>4. Home(heap[m[p]].slots[s])' = Home(heap[p].slots[s])'
      BY <3>3 DEF Home
    <3> QED
      BY <1>3, <3>1, <3>2, <3>4
  <2> QED
    BY <1>3, <2>1, <2>2 DEF SameHeap
<1> QED
  BY <1>4, UnseenSteps DEF Seen

(* A young collection starts: nothing is marked, nothing forwarded, and    *)
(* every root is on the worklist.                                          *)
LEMMA StartYoungStep ==
  ASSUME IInv, StartYoung
  PROVE  IInv' /\ AbstractNext
<1>1. HeapInv /\ Names /\ Typed /\ heap \in Heaps /\ Ranked(heap) /\ phase = "mutator"
  BY DEF IInv, HeapInv, Typed, StartYoung, Due
<1>2. /\ phase' = "young_roots" /\ work' = RootSlots /\ graduate_new_list' = {} /\ agenda' = After
      /\ heap' = Cleared(Listed \cup graduate_new_list')
      /\ UNCHANGED <<config, root, remember_set, tenure_frontier, resources, nallocated, cur_grad_from, graduate_list, promoted>>
  BY DEF StartYoung
<1>3. Used(Places) \subseteq Listed /\ graduate_new_list = {} /\ promoted = {}
  BY <1>1, PlacesAreApart DEF Typed, Used, Listed, ToHalf
<1>4. agenda' = << >>
  <2>1. agenda \in {<< >>, <<"compact", "young">>, <<"young">>}
    BY <1>1 DEF HeapInv, AgendaIsClean
  <2>2. agenda = << >> \/ agenda = <<"young">>
    BY <2>1 DEF StartYoung, Due
  <2>3. Tail(<<"young">>) = << >>
    OBVIOUS
  <2> QED
    BY <1>2, <2>2, <2>3 DEF After
<1>5. /\ \A p \in Places : heap'[p] = Null <=> heap[p] = Null
      /\ \A p \in Used(Places) :
           /\ p \in Places /\ heap'[p] # Null /\ heap'[p] \in Object
           /\ heap'[p].is_marked = FALSE /\ heap'[p].forward = Null
           /\ heap'[p].object = heap[p].object /\ heap'[p].slots = heap[p].slots
           /\ heap'[p].newer = heap[p].newer /\ heap'[p].native = heap[p].native
  <2>1. ASSUME NEW p \in Used(Places)
        PROVE  /\ p \in Places /\ heap'[p] # Null /\ heap'[p] \in Object
               /\ heap'[p].is_marked = FALSE /\ heap'[p].forward = Null
               /\ heap'[p].object = heap[p].object /\ heap'[p].slots = heap[p].slots
               /\ heap'[p].newer = heap[p].newer /\ heap'[p].native = heap[p].native
    <3>1. p \in Places /\ heap[p] # Null /\ heap[p] \in Object /\ p \in Listed
      BY <1>1, <1>3, FieldTypes DEF Used
    <3>2. heap'[p] = [heap[p] EXCEPT !.is_marked = FALSE, !.forward = Null]
      BY <1>2, <3>1 DEF Cleared
    <3>3. /\ heap'[p] \in Object
          /\ heap'[p].is_marked = FALSE /\ heap'[p].forward = Null
          /\ heap'[p].object = heap[p].object /\ heap'[p].slots = heap[p].slots
          /\ heap'[p].newer = heap[p].newer /\ heap'[p].native = heap[p].native
      BY <3>1, <3>2 DEF Object, Refs
    <3> QED
      BY <3>1, <3>3, NullAssumption
  <2>2. ASSUME NEW p \in Places, heap[p] = Null PROVE heap'[p] = Null
    BY <1>2, <2>2 DEF Cleared
  <2> QED
    BY <2>1, <2>2 DEF Used
<1>6. heap' \in Heaps
  BY <1>2, <1>5 DEF Heaps, Cleared, Used
<1>7. \A region : Used(region)' = {p \in region : heap'[p] # Null}
  BY DEF Used
<1>8. \A region \in SUBSET Places : Used(region)' = Used(region)
  BY <1>5 DEF Used
<1>9. Tenure \in SUBSET Places /\ Half[0] \in SUBSET Places /\ Half[1] \in SUBSET Places /\ Null \notin Places
  BY PlacesAreApart, NullAssumption
<1>10. Typed' /\ InYoung'
  <2>1. work' \in Seq(Entries)
    BY <1>1, <1>2, ListFacts DEF Typed
  <2>2. remember_set' \subseteq Used(Tenure)' /\ \A p \in Used(Tenure)' : p[2] <= tenure_frontier'
    BY <1>1, <1>2, <1>8, <1>9 DEF Typed
  <2>3. graduate_list' = Used(Half[cur_grad_from])'
    BY <1>1, <1>2, <1>5, <1>9 DEF Typed, Used
  <2>4. graduate_new_list' = Used(ToHalf)'
    <3>1. Used(ToHalf) = {} /\ ToHalf' = ToHalf /\ ToHalf \subseteq Places
      BY <1>1, <1>2, <1>3, <1>9 DEF Typed, ToHalf
    <3> QED
      BY <1>2, <1>5, <3>1 DEF Used
  <2>5. promoted' \subseteq Used(Tenure)'
    BY <1>2, <1>3
  <2>6. phase' \in Phases /\ phase' # "mutator"
    BY <1>2 DEF Phases
  <2>7. InYoung'
    BY <1>2 DEF InYoung
  <2> QED
    BY <1>1, <1>2, <1>6, <2>1, <2>2, <2>3, <2>4, <2>5, <2>6, <2>7 DEF Typed
<1>11. Ranked(heap')
  <2>1. \A p \in Places : ~IsLast(heap', p) => ~IsLast(heap, p) /\ heap'[p].newer = heap[p].newer
    BY <1>5 DEF IsLast, Used
  <2> QED
    BY <1>1, <2>1, RankedStays
<1>12. \A p \in Places : heap[Newest[p]] # Null => Newest'[p] = Newest[p]
  BY <1>1, <1>5, <1>6, <1>11, NewestStays
<1>13. PICK G \in SUBSET Used(Places) : Traced(G)
  BY <1>1 DEF HeapInv, Sound
<1>14. \A ref \in Places : Newest[ref] \in G => Newest'[ref] = Newest[ref]
  BY <1>12, <1>13 DEF Used
<1>15. Traced(G)'
  <2>1. \A p \in G : heap'[p].newer = Null
    BY <1>5, <1>13 DEF Traced
  <2>2. ASSUME NEW p \in G, NEW s \in Slots, heap'[p].slots[s] # Null
        PROVE  Newest'[heap'[p].slots[s]] \in G
    <3>1. heap'[p].slots[s] = heap[p].slots[s] /\ heap[p].slots[s] \in Refs
      BY <1>1, <1>5, <1>13, FieldTypes
    <3> QED
      BY <1>13, <1>14, <2>2, <3>1 DEF Traced, Refs
  <2>3. \A v \in Roots : root'[v] # Null => Newest'[root'[v]] \in G
    BY <1>1, <1>2, <1>13, <1>14 DEF Traced, Typed, Refs
  <2>4. \A p \in remember_set' : Newest'[p] \in G
    BY <1>1, <1>2, <1>9, <1>13, <1>14 DEF Traced, Typed, Used
  <2>5. Marked' = {}
    BY <1>5, <1>8 DEF Marked
  <2> QED
    BY <2>1, <2>2, <2>3, <2>4, <2>5 DEF Traced
<1>16. Sound'
  <2>1. Used(Places)' = Used(Places)
    BY <1>8
  <2> QED
    BY <1>13, <1>15, <2>1 DEF Sound
<1>17. NativesDiffer' /\ AgendaIsClean' /\ NoneForwarded'
  <2>1. Used(Places)' = Used(Places)
    BY <1>8
  <2> QED
    BY <1>1, <1>2, <1>4, <1>5, <2>1 DEF HeapInv, NativesDiffer, AgendaIsClean, NoneForwarded
<1>18. Forwarding' /\ TriColor' /\ WorkIsGood'
  <2>1. Used(Places)' = Used(Places)
    BY <1>8
  <2>2. Marked' = {} /\ Black' = {}
    BY <1>5, <2>1 DEF Marked, Black
  <2>3. Items(work)' = {<<"root", v>> : v \in {v \in Roots : root[v] # Null}}
    BY <1>1, <1>2, ListFacts DEF Typed, Items
  <2>4. From' \subseteq Places /\ ToHalf' \subseteq Places /\ Used(ToHalf)' = {}
    <3>1. graduate_new_list' = Used(ToHalf)'
      BY <1>10 DEF Typed
    <3>2. From' \subseteq Places /\ ToHalf' \subseteq Places
      BY <1>1, <1>2, <1>9, PlacesAreApart DEF From, ToHalf, Typed
    <3> QED
      BY <1>2, <3>1, <3>2
  <2>5. Forwarding'
    <3>1. \A p \in Used(From)' : p \in Used(Places)'
      BY <2>4 DEF Used
    <3> QED
      BY <1>2, <1>3, <1>5, <2>1, <2>2, <2>4, <3>1 DEF Forwarding
  <2>6. TriColor'
    BY <1>2, <2>2, <2>3 DEF TriColor
  <2>7. WorkIsGood'
    BY <1>2, <2>3 DEF WorkIsGood
  <2> QED
    BY <2>5, <2>6, <2>7
<1>19. HeapInv'
  BY <1>10, <1>11, <1>16, <1>17, <1>18 DEF HeapInv
<1>20. HomesAreLeast /\ IdleHomes /\ LivePlaces \subseteq G
  BY <1>1, <1>13, HomesFacts, IdleFacts, LiveAreTraced
<1>21. ASSUME NEW ref \in Refs, Home(ref) \in Homes \cup {Null} PROVE Home(ref)' = Home(ref)
  <2>1. CASE ref = Null
    BY <2>1 DEF Home
  <2>2. CASE ref # Null
    <3>1. ref \in Places /\ Home(ref) = Newest[ref] /\ Newest[ref] \in Places
      BY <1>1, <1>20, <2>2, NewestFacts DEF IdleHomes, Refs
    <3>2. Newest[ref] \in Used(Places)
      BY <1>9, <1>20, <1>21, <3>1 DEF HomesAreLeast
    <3>3. Newest'[ref] = Newest[ref]
      BY <1>12, <3>1, <3>2 DEF Used
    <3>4. heap'[Newest[ref]].forward = Null
      BY <1>5, <3>2
    <3>5. Home(ref)' = Newest[ref]
      BY <2>2, <3>3, <3>4 DEF Home, Copied
    <3> QED
      BY <3>1, <3>5
  <2> QED
    BY <2>1, <2>2
<1>22. \A p \in Homes : p \in Used(Places)
  BY <1>20 DEF HomesAreLeast
<1>23. ASSUME NEW v \in Roots PROVE Home(root[v])' = Home(root[v])
  <2>1. PICK r : r = root[v]
    OBVIOUS
  <2>2. r \in Refs /\ Home(r) \in Homes \cup {Null}
    BY <1>1, <1>20, <2>1 DEF Typed, HomesAreLeast, Home
  <2>3. Home(r)' = Home(r)
    BY <1>21, <2>2
  <2>4. Home(root[v])' = Home(r)'
    BY <1>2, <2>1 DEF Home
  <2> QED
    BY <2>1, <2>3, <2>4
<1>24. ASSUME NEW p \in Homes, NEW s \in Slots
       PROVE  Home(heap[p].slots[s])' = Home(heap[p].slots[s])
  <2>1. PICK r : r = heap[p].slots[s]
    OBVIOUS
  <2>2. r \in Refs /\ Home(r) \in Homes \cup {Null}
    BY <1>1, <1>20, <1>22, <2>1, FieldTypes DEF HomesAreLeast, Home
  <2>3. Home(r)' = Home(r)
    BY <1>21, <2>2
  <2>4. Home(heap[p].slots[s])' = Home(r)'
    BY <1>5, <1>22, <2>1 DEF Home
  <2> QED
    BY <2>1, <2>3, <2>4
<1>25. Names' /\ LiveElements' = LiveElements /\ Seen' = Seen
  BY <1>1, <1>5, <1>19, <1>22, <1>23, <1>24, UnmovedSteps
<1> QED
  BY <1>2, <1>19, <1>25 DEF IInv, AbstractNext, ManagedHeap!vars, Seen

(* The remember set, with the promoted objects that refer to young ones,   *)
(* is put on the worklist.                                                 *)
LEMMA StartRememberedStep ==
  ASSUME IInv, StartRemembered
  PROVE  IInv' /\ AbstractNext
<1>1. HeapInv /\ Names /\ Typed /\ heap \in Heaps /\ Ranked(heap) /\ InYoung /\ phase # "mutator"
  BY DEF IInv, HeapInv, Typed, StartRemembered, InYoung
<1>2. /\ work = << >> /\ phase' = "young_remembered" /\ remember_set' = Noted /\ promoted' = {}
      /\ work' = Members(Noted)
      /\ UNCHANGED <<config, root, heap, tenure_frontier, resources, nallocated, listVars, agenda>>
  BY DEF StartRemembered
<1>3. UNCHANGED <<Newest, LivePlaces>> /\ InYoung' /\ ToHalf' = ToHalf /\ \A region : Used(region)' = Used(region)
  BY <1>2 DEF Newest, InYoung, ToHalf, listVars, Used, LivePlaces, NewestOf, References
<1>4. Marked' = Marked /\ Black' = Black /\ From' = From /\ \A ref : Home(ref)' = Home(ref)
  BY <1>2, <1>3 DEF Marked, Black, From, To, Home, Copied, listVars
<1>5. Noted \subseteq Used(Tenure) /\ Tenure \subseteq Places
  BY <1>1, PlacesAreApart DEF Typed, Noted
<1>6. Noted \in SUBSET Tenure
  BY <1>5 DEF Used
<1>7. work' \in Seq(Entries) /\ Items(work') = {<<"member", p>> : p \in Noted}
  BY <1>2, <1>6, ListFacts
<1>8. Items(work)' = {<<"member", p>> : p \in Noted} /\ Items(work) = {}
  BY <1>2, <1>7 DEF Items
<1>9. Typed'
  BY <1>1, <1>2, <1>3, <1>5, <1>7 DEF Typed, Phases, listVars
<1>10. PICK G \in SUBSET Used(Places) : Traced(G)
  BY <1>1 DEF HeapInv, Sound
<1>11. \A p \in Noted : Newest[p] \in G
  <2> SUFFICES ASSUME NEW p \in promoted PROVE Newest[p] \in G
    BY <1>10 DEF Noted, Traced
  <2>1. p \in G /\ p \in Places /\ heap[p].newer = Null
    <3>1. p \in G
      BY <1>1, <1>10 DEF HeapInv, Forwarding, Traced
    <3> QED
      BY <1>10, <3>1 DEF Traced, Used
  <2> QED
    BY <1>1, <2>1, NewestFacts DEF IsLast
<1>12. Traced(G)'
  BY <1>1, <1>2, <1>3, <1>4, <1>10, <1>11 DEF Traced
<1>13. Sound'
  BY <1>3, <1>10, <1>12 DEF Sound
<1>14. Ranked(heap') /\ NativesDiffer' /\ AgendaIsClean' /\ NoneForwarded'
  BY <1>1, <1>2, <1>3 DEF HeapInv, NativesDiffer, AgendaIsClean, NoneForwarded
<1>15. Forwarding'
  BY <1>1, <1>2, <1>3, <1>4 DEF HeapInv, Forwarding
<1>16. TriColor'
  BY <1>1, <1>2, <1>4, <1>8 DEF HeapInv, TriColor
<1>17. WorkIsGood'
  BY <1>2, <1>4, <1>8 DEF WorkIsGood
<1>18. HeapInv'
  BY <1>9, <1>13, <1>14, <1>15, <1>16, <1>17 DEF HeapInv
<1>19. \A v \in Roots : Home(root[v])' = Home(root[v])
  BY <1>2, <1>4 DEF Home
<1>20. \A p \in Homes, s \in Slots : Home(heap[p].slots[s])' = Home(heap[p].slots[s])
  BY <1>2, <1>4 DEF Home
<1>21. Names' /\ LiveElements' = LiveElements /\ Seen' = Seen
  BY <1>1, <1>2, <1>18, <1>19, <1>20, UnmovedSteps
<1> QED
  BY <1>2, <1>18, <1>21 DEF IInv, AbstractNext, ManagedHeap!vars, Seen

(* With an empty worklist all that is reachable has been visited, so the   *)
(* regions can be emptied; no slot needs to be updated any more.           *)
LEMMA FinishYoungStep ==
  ASSUME IInv, FinishYoung
  PROVE  IInv' /\ AbstractNext
<1>1. /\ HeapInv /\ Names /\ Typed /\ heap \in Heaps /\ Ranked(heap) /\ InYoung /\ phase # "mutator"
      /\ Forwarding /\ TriColor /\ cur_grad_from \in {0, 1}
  BY DEF IInv, HeapInv, Typed, FinishYoung, InYoung
<1>2. /\ work = << >> /\ phase = "young_remembered" /\ phase' = "mutator"
      /\ heap' = [p \in Places |-> IF p \in From THEN Null ELSE Updated(p)]
      /\ remember_set' = Remembered /\ promoted' = {}
      /\ resources' = resources \ {heap[p].object : p \in {p \in Used(Nursery) : heap[p].native /\ ~heap[p].is_marked}}
      /\ cur_grad_from' = 1 - cur_grad_from
      /\ graduate_list' = graduate_new_list /\ graduate_new_list' = {}
      /\ UNCHANGED <<config, root, tenure_frontier, nallocated, agenda, work>>
  BY DEF FinishYoung, From, Finalize
<1>3. /\ From \cap To = {} /\ From \cup To = Places /\ ToHalf \subseteq To /\ Tenure \subseteq To
      /\ Null \notin Places /\ ToHalf \cap From = {}
  BY <1>1, SpacesAreApart DEF Typed, To
<1>4. PICK G \in SUBSET Used(Places) : Traced(G)
  BY <1>1 DEF HeapInv, Sound
<1>5. Items(work) = {}
  BY <1>2 DEF Items
<1>6. ASSUME NEW p \in Black
      PROVE  /\ p \in Used(To) /\ p \in Used(Places) /\ p \in Places /\ heap[p] # Null
             /\ heap[p].is_marked /\ heap[p].newer = Null /\ heap[p].forward = Null
             /\ \A s \in Slots : heap[p].slots[s] \in Black \cup {Null}
             /\ Newest[p] = p /\ Copied(p) = p /\ Home(p) = p
  <2>1. p \in Used(To) /\ p \in Used(Places) /\ p \in Places /\ heap[p] # Null /\ heap[p].is_marked /\ p \in G
    BY <1>1, <1>4 DEF Black, Marked, Used, Traced
  <2>2. heap[p].newer = Null /\ heap[p].forward = Null
    BY <1>1, <1>4, <2>1, BlackStays DEF Traced
  <2>3. Newest[p] = p
    BY <1>1, <2>1, <2>2, NewestFacts DEF IsLast
  <2>4. Copied(p) = p
    BY <2>2 DEF Copied
  <2>5. Home(p) = p
    BY <1>3, <2>1, <2>3, <2>4 DEF Home
  <2> QED
    BY <1>1, <1>5, <2>1, <2>2, <2>3, <2>4, <2>5 DEF TriColor
<1>7. \A v \in Roots : root[v] \in Black \cup {Null}
  BY <1>1, <1>5 DEF TriColor
<1>8. ASSUME NEW p \in Noted, heap[p].newer = Null PROVE p \in Black
  <2>1. p \in Used(Tenure) /\ p \in Used(Places) /\ p \in To
    BY <1>1, <1>3, PlacesAreApart DEF Typed, Noted, Used
  <2>2. CASE p \in promoted
    BY <1>1, <2>1, <2>2 DEF Forwarding, Black
  <2>3. CASE p \in remember_set
    <3>1. Newest[p] = p
      BY <1>1, <1>8, <2>1, NewestFacts DEF IsLast, Used
    <3>2. heap[p].is_marked
      BY <1>1, <1>2, <1>5, <2>3, <3>1 DEF TriColor
    <3> QED
      BY <2>1, <3>2 DEF Black, Marked
  <2> QED
    BY <2>2, <2>3 DEF Noted
<1>9. ASSUME NEW p \in To PROVE Updated(p) = heap[p]
  <2>1. CASE p \in Noted /\ heap[p].newer = Null
    <3>1. p \in Black
      BY <1>8, <2>1
    <3>2. heap[p] \in Object /\ heap[p].slots \in [Slots -> Refs]
      BY <1>1, <1>6, <3>1, FieldTypes
    <3>3. \A s \in Slots : Forwarded(heap[p].slots[s]) = heap[p].slots[s]
      <4> SUFFICES ASSUME NEW s \in Slots PROVE Forwarded(heap[p].slots[s]) = heap[p].slots[s]
        OBVIOUS
      <4>1. heap[p].slots[s] \in Black \cup {Null}
        BY <1>6, <3>1
      <4>2. CASE heap[p].slots[s] = Null
        BY <1>3, <4>2 DEF Forwarded, Places
      <4>3. CASE heap[p].slots[s] \in Black
        BY <1>6, <4>3 DEF Forwarded
      <4> QED
        BY <4>1, <4>2, <4>3
    <3>4. [s \in Slots |-> Forwarded(heap[p].slots[s])] = heap[p].slots
      BY <3>2, <3>3
    <3>5. Updated(p) = [heap[p] EXCEPT !.slots = [s \in Slots |-> Forwarded(heap[p].slots[s])]]
      BY <2>1 DEF Updated
    <3>6. [heap[p] EXCEPT !.slots = heap[p].slots] = heap[p]
      BY <3>2 DEF Object
    <3> QED
      BY <3>4, <3>5, <3>6
  <2>2. CASE ~(p \in Noted /\ heap[p].newer = Null)
    BY <2>2 DEF Updated
  <2> QED
    BY <2>1, <2>2
<1>10. \A p \in Places : heap'[p] = IF p \in From THEN Null ELSE heap[p]
  BY <1>2, <1>3, <1>9
<1>11. heap' \in Heaps
  <2>1. \A p \in Places : heap'[p] \in Object \cup {Null}
    BY <1>1, <1>10 DEF Heaps
  <2> QED
    BY <1>2, <2>1 DEF Heaps
<1>12. /\ \A region : Used(region)' = {p \in region : heap'[p] # Null}
       /\ Used(Places)' = Used(To)
       /\ \A region \in SUBSET To : Used(region)' = Used(region)
  BY <1>3, <1>10 DEF Used
<1>13. Used(Tenure)' = Used(Tenure)
  BY <1>3, <1>12
<1>14. /\ graduate_list' = Used(Half[cur_grad_from])'
       /\ graduate_new_list' = Used(ToHalf)'
  <2>1. Half[cur_grad_from]' = ToHalf /\ ToHalf' = Half[cur_grad_from] /\ Half[cur_grad_from] \subseteq From
    BY <1>1, <1>2 DEF ToHalf, From
  <2>2. Used(ToHalf)' = {}
    BY <1>3, <1>10, <2>1 DEF Used
  <2>3. Used(Half[cur_grad_from])' = Used(ToHalf)
    <3>1. Used(Half[cur_grad_from])' = {p \in ToHalf : heap'[p] # Null}
      BY <2>1 DEF Used
    <3> QED
      BY <1>3, <1>10, <3>1 DEF Used
  <2> QED
    BY <1>1, <1>2, <2>2, <2>3 DEF Typed
<1>15. Remembered \subseteq Black /\ Remembered \subseteq Used(Tenure)
  BY <1>1, <1>8 DEF Remembered, Noted, Typed
<1>16. Typed' /\ ~InYoung'
  <2>1. ~InYoung'
    BY <1>2 DEF InYoung
  <2>2. /\ config' \in Configs /\ root' \in [Roots -> Refs]
        /\ remember_set' \subseteq Used(Tenure)'
        /\ tenure_frontier' \in 0 .. config'["tenure"]
        /\ \A p \in Used(Tenure)' : p[2] <= tenure_frontier'
        /\ cur_grad_from' \in {0, 1}
        /\ phase' \in Phases
        /\ work' \in Seq(Entries) /\ work' = << >>
        /\ promoted' \subseteq Used(Tenure)'
        /\ resources' \subseteq Handles
        /\ nallocated' \in Nat
    BY <1>1, <1>2, <1>13, <1>15 DEF Typed, Phases
  <2> QED
    BY <1>2, <1>11, <1>14, <2>1, <2>2 DEF Typed
<1>17. Ranked(heap')
  <2>1. \A p \in Places : ~IsLast(heap', p) => ~IsLast(heap, p) /\ heap'[p].newer = heap[p].newer
    BY <1>10 DEF IsLast
  <2> QED
    BY <1>1, <2>1, RankedStays
<1>18. ASSUME NEW p \in Black
       PROVE  heap'[p] = heap[p] /\ p \in Used(Places)' /\ Newest'[p] = p /\ Home(p)' = p
  <2>1. heap'[p] = heap[p] /\ p \in Used(Places)'
    BY <1>3, <1>6, <1>10, <1>12 DEF Used
  <2>2. Newest'[p] = p
    BY <1>6, <1>11, <1>17, <2>1, NewestFactsNext DEF IsLast
  <2>3. Home(p)' = p
    BY <1>3, <1>6, <2>1, <2>2 DEF Home, Copied
  <2> QED
    BY <2>1, <2>2, <2>3
<1>19. Sound'
  <2>1. Black \in SUBSET Used(Places)'
    BY <1>18
  <2>2. \A p \in Black : /\ heap'[p].newer = Null
                         /\ \A s \in Slots : heap'[p].slots[s] # Null => Newest'[heap'[p].slots[s]] \in Black
    BY <1>6, <1>18
  <2>3. \A v \in Roots : root'[v] # Null => Newest'[root'[v]] \in Black
    BY <1>2, <1>7, <1>18
  <2>4. \A p \in remember_set' : Newest'[p] \in Black
    BY <1>2, <1>15, <1>18
  <2>5. PICK B : B = Black
    OBVIOUS
  <2>6. Traced(B)'
    BY <1>16, <2>2, <2>3, <2>4, <2>5 DEF Traced
  <2> QED
    BY <2>1, <2>5, <2>6 DEF Sound
<1> DEFINE D == {p \in Used(Nursery) : heap[p].native /\ ~heap[p].is_marked}
<1>20. \A p \in D : p \in Used(Places) /\ heap[p].native /\ p \in From /\ p \notin Black
  BY PlacesAreApart DEF Used, Black, Marked, From
<1>21. NativesDiffer'
  <2>1. ASSUME NEW q \in Used(Places)', heap'[q].native PROVE heap'[q].object \in resources'
    <3>1. q \in Used(Places) /\ q \in To /\ heap'[q] = heap[q]
      BY <1>3, <1>10, <1>12 DEF Used
    <3>2. heap[q].object \in resources
      BY <1>1, <2>1, <3>1 DEF HeapInv, NativesDiffer
    <3>3. ASSUME NEW p \in D, heap[p].object = heap[q].object PROVE FALSE
      <4>1. p = q
        BY <1>1, <1>20, <2>1, <3>1, <3>3 DEF HeapInv, NativesDiffer
      <4> QED
        BY <1>3, <1>20, <3>1, <4>1
    <3> QED
      BY <1>2, <3>1, <3>2, <3>3
  <2>2. \A p, q \in Used(Places)' :
          heap'[p].native /\ heap'[q].native /\ heap'[p].object = heap'[q].object => p = q
    <3>1. \A p \in Used(Places)' : p \in Used(Places) /\ heap'[p] = heap[p]
      BY <1>3, <1>10, <1>12 DEF Used
    <3> QED
      BY <1>1, <3>1 DEF HeapInv, NativesDiffer
  <2> QED
    BY <2>1, <2>2 DEF NativesDiffer
<1>22. AgendaIsClean'
  <2>1. agenda = << >>
    BY <1>1 DEF HeapInv, AgendaIsClean
  <2> QED
    BY <1>2, <2>1 DEF AgendaIsClean
<1>23. NoneForwarded'
  <2> SUFFICES ASSUME NEW p \in Used(Places)' PROVE heap'[p].forward = Null
    BY DEF NoneForwarded
  <2>1. p \in Used(To) /\ heap'[p] = heap[p]
    BY <1>3, <1>10, <1>12 DEF Used
  <2> QED
    BY <1>1, <2>1, BlackStays
<1>24. HeapInv'
  BY <1>16, <1>17, <1>19, <1>21, <1>22, <1>23 DEF HeapInv
<1>25. Homes \subseteq Black
  <2>1. HomesAreLeast
    BY <1>1, HomesFacts
  <2>2. \A v \in Roots : root[v] # Null => Home(root[v]) \in Black
    BY <1>6, <1>7
  <2>3. \A p \in Black \cap Used(Places), s \in Slots :
          heap[p].slots[s] # Null => Home(heap[p].slots[s]) \in Black
    BY <1>6
  <2> QED
    BY <2>1, <2>2, <2>3 DEF HomesAreLeast
<1>26. \A r \in Black \cup {Null} : Home(r)' = r /\ Home(r) = r
  BY <1>6, <1>18 DEF Home
<1>27. ASSUME NEW v \in Roots PROVE Home(root[v])' = Home(root[v])
  <2>1. PICK r : r = root[v]
    OBVIOUS
  <2>2. Home(root[v])' = Home(r)'
    BY <1>2, <2>1 DEF Home
  <2> QED
    BY <1>7, <1>26, <2>1, <2>2
<1>28. ASSUME NEW p \in Homes, NEW s \in Slots
       PROVE  Home(heap[p].slots[s])' = Home(heap[p].slots[s])
  <2>1. PICK r : r = heap[p].slots[s]
    OBVIOUS
  <2>2. Home(heap[p].slots[s])' = Home(r)'
    BY <1>18, <1>25, <2>1 DEF Home
  <2>3. r \in Black \cup {Null}
    BY <1>6, <1>25, <2>1
  <2> QED
    BY <1>26, <2>1, <2>2, <2>3
<1>29. Names' /\ LiveElements' = LiveElements /\ \A v \in Roots : Name(root[v])' = Name(root[v])
  BY <1>1, <1>18, <1>24, <1>25, <1>27, <1>28, UnmovedSteps
<1>30. AbstractNext
  <2>1. \A p \in D : p \in Used(Places) /\ heap[p].native /\ p \notin Homes
    BY <1>20, <1>25
  <2>2. resources' = resources \ {heap[p].object : p \in D}
    BY <1>2
  <2> HIDE DEF D
  <2> QED
    BY <1>1, <1>29, <2>1, <2>2, FinalizeStep
<1> QED
  BY <1>24, <1>29, <1>30 DEF IInv

-----------------------------------------------------------------------------
(* Visits.                                                                 *)

(* The next slot on the worklist refers to an object that the collection   *)
(* may come to.                                                            *)
LEMMA TargetFacts ==
  ASSUME HeapInv, InYoung, work # << >>, NEW G \in SUBSET Used(Places), Traced(G)
  PROVE  /\ Head(work) \in Entries
         /\ Items(work) = {Head(work)} \cup Items(Tail(work))
         /\ Tail(work) \in Seq(Entries) /\ Len(Tail(work)) < Len(work)
         /\ Target(Head(work)) \in G
         /\ \A v \in Roots : Head(work) = <<"root", v>> =>
              root[v] # Null /\ Newest[root[v]] = Target(Head(work))
         /\ \A q \in Places, s \in Slots : Head(work) = <<"element", q, s>> =>
              q \in Black /\ heap[q].slots[s] # Null /\ Newest[heap[q].slots[s]] = Target(Head(work))
         /\ \A q \in Tenure : Head(work) = <<"member", q>> =>
              q \in remember_set /\ Newest[q] = Target(Head(work))
<1>1. work \in Seq(Entries) /\ WorkIsGood
  BY DEF HeapInv, Typed
<1>2. PICK slot : slot = Head(work)
  OBVIOUS
<1>3. /\ slot \in Entries /\ slot \in Items(work)
      /\ Tail(work) \in Seq(Entries) /\ Len(Tail(work)) < Len(work)
      /\ Items(work) = {Head(work)} \cup Items(Tail(work))
  BY <1>1, <1>2, ItemsOfWork
<1>4. ASSUME NEW v \in Roots, slot = <<"root", v>>
      PROVE  root[v] # Null /\ Newest[root[v]] = Target(slot)
  BY <1>1, <1>3, <1>4 DEF WorkIsGood, Target
<1>5. ASSUME NEW q \in Places, NEW s \in Slots, slot = <<"element", q, s>>
      PROVE  q \in Black /\ heap[q].slots[s] # Null /\ Newest[heap[q].slots[s]] = Target(slot)
  <2>1. Target(slot) = Newest[heap[q].slots[s]]
    BY <1>5 DEF Target
  <2> QED
    BY <1>1, <1>3, <1>5, <2>1 DEF WorkIsGood
<1>6. ASSUME NEW q \in Tenure, slot = <<"member", q>>
      PROVE  q \in remember_set /\ Newest[q] = Target(slot)
  <2>1. Target(slot) = Newest[q]
    BY <1>6 DEF Target
  <2> QED
    BY <1>1, <1>3, <1>6, <2>1 DEF WorkIsGood
<1>7. Black \subseteq G
  BY DEF Black, Traced
<1>8. Target(slot) \in G
  <2>1. \/ \E v \in Roots : slot = <<"root", v>>
        \/ \E q \in Places : \E s \in Slots : slot = <<"element", q, s>>
        \/ \E q \in Tenure : slot = <<"member", q>>
    BY <1>3 DEF Entries
  <2>2. CASE \E v \in Roots : slot = <<"root", v>>
    BY <1>4, <2>2 DEF Traced
  <2>3. CASE \E q \in Places : \E s \in Slots : slot = <<"element", q, s>>
    <3>1. PICK q \in Places : \E s \in Slots : slot = <<"element", q, s>>
      BY <2>3
    <3>2. PICK s \in Slots : slot = <<"element", q, s>>
      BY <3>1
    <3> QED
      BY <1>5, <1>7, <3>2 DEF Traced
  <2>4. CASE \E q \in Tenure : slot = <<"member", q>>
    BY <1>6, <2>4 DEF Traced
  <2> QED
    BY <2>1, <2>2, <2>3, <2>4
<1> QED
  BY <1>2, <1>3, <1>4, <1>5, <1>6, <1>8

(* What every visit does. The object at p stays, or is moved to a free     *)
(* place; the slots in new are those that it adds to the worklist.         *)
Stays(p, to, new) ==
  /\ heap[to] # Null /\ Copied(p) = to
  /\ heap'[p].native = heap[p].native /\ heap'[p].forward = heap[p].forward
  /\ \/ to \in Black /\ new = {}
     \/ to = p /\ new = {<<"element", to, s>> : s \in {s \in Slots : heap[p].slots[s] # Null}}

(* The object is moved to a free place.                                    *)
Moves(p, to, new) ==
  /\ heap[to] = Null /\ p \in From /\ heap[p].forward = Null
  /\ heap'[p].native = FALSE /\ heap'[p].forward = to
  /\ heap'[to].object = heap[p].object /\ heap'[to].native = heap[p].native
  /\ heap'[to].slots = heap[p].slots
  /\ new = {<<"element", to, s>> : s \in {s \in Slots : heap[p].slots[s] # Null}}

(* Nothing but the copy, and the mark of the object visited, is new.       *)
Visited(p, to, new) ==
  /\ heap' \in Heaps /\ root' \in [Roots -> Refs] /\ to \in To
  /\ \A v \in Roots : root'[v] = IF Head(work) = <<"root", v>> THEN to ELSE root[v]
  /\ \A q \in Places : heap'[q] # Null <=> heap[q] # Null \/ q = to
  /\ \A q \in Used(Places) :
       /\ heap'[q].object = heap[q].object /\ heap'[q].newer = heap[q].newer
       /\ heap'[q].is_marked <=> heap[q].is_marked \/ q = p
       /\ q # p => heap'[q].native = heap[q].native /\ heap'[q].forward = heap[q].forward
       /\ \A s \in Slots : heap'[q].slots[s] = IF Head(work) = <<"element", q, s>> THEN to
                                               ELSE heap[q].slots[s]
  /\ heap'[to].is_marked /\ heap'[to].newer = Null /\ heap'[to].forward = Null
  /\ Stays(p, to, new) \/ Moves(p, to, new)
  /\ work' \in Seq(Entries) /\ Items(work') = Items(Tail(work)) \cup new
  /\ graduate_new_list' = graduate_new_list \cup ({to} \cap ToHalf)
  /\ promoted' \subseteq promoted \cup ({to} \cap Tenure)
  /\ remember_set \subseteq remember_set'
  /\ remember_set' \subseteq remember_set \cup ({to} \cap Tenure)
  /\ tenure_frontier' \in 0 .. config["tenure"] /\ tenure_frontier <= tenure_frontier'
  /\ to \in Tenure => to[2] <= tenure_frontier'
  /\ UNCHANGED <<config, resources, nallocated, cur_grad_from, graduate_list, phase, agenda>>

(* Where references lead after a visit.                                    *)
Moved(p, to) == [q \in Places \cup {Null} |-> IF q = p THEN to ELSE q]

(* A visit supersedes nothing.                                             *)
LEMMA VisitedNewest ==
  ASSUME HeapInv, InYoung, work # << >>, NEW G \in SUBSET Used(Places), Traced(G),
         NEW to, NEW new, NEW p, p = Target(Head(work)), Visited(p, to, new)
  PROVE  /\ Ranked(heap') /\ Newest'[to] = to
         /\ \A ref \in Places : Newest[ref] \in G => Newest'[ref] = Newest[ref]
<1>1. heap \in Heaps /\ Ranked(heap) /\ heap' \in Heaps /\ to \in Places
  BY SpacesAreApart DEF HeapInv, Typed, Visited
<1>2. \A q \in Used(Places) : heap'[q] # Null /\ heap'[q].newer = heap[q].newer
  BY DEF Visited, Used
<1>3. Ranked(heap')
  <2>1. \A q \in Places : ~IsLast(heap', q) => ~IsLast(heap, q) /\ heap'[q].newer = heap[q].newer
    BY <1>2 DEF IsLast, Visited, Used
  <2> QED
    BY <1>1, <2>1, RankedStays
<1>4. Newest'[to] = to
  <2>1. IsLast(heap', to)
    BY DEF IsLast, Visited
  <2> QED
    BY <1>1, <1>3, <2>1, NewestFactsNext
<1>5. \A q \in Places : heap[Newest[q]] # Null => Newest'[q] = Newest[q]
  BY <1>1, <1>2, <1>3, NewestStays
<1>6. \A ref \in Places : Newest[ref] \in G => Newest'[ref] = Newest[ref]
  BY <1>5 DEF Used
<1> QED
  BY <1>3, <1>4, <1>6

(* A visit changes where the object at p is at home, and nothing else.     *)
LEMMA VisitedHomes ==
  ASSUME HeapInv, InYoung, work # << >>, NEW G \in SUBSET Used(Places), Traced(G),
         NEW to, NEW new, NEW p, p = Target(Head(work)), Visited(p, to, new),
         NEW m, m = Moved(p, to)
  PROVE  /\ m \in [Places \cup {Null} -> Places \cup {Null}] /\ m[Null] = Null
         /\ p \in G /\ to \in Places /\ to # Null /\ p # Null
         /\ p \in To => to = p
         /\ heap[to] # Null => to \in G
         /\ \A v \in Roots : Home(root[v])' = m[Home(root[v])]
         /\ \A q \in G, s \in Slots : Home(heap[q].slots[s])' = m[Home(heap[q].slots[s])]
         /\ heap[to] = Null => \A s \in Slots : Home(heap[to].slots[s])' = m[Home(heap[p].slots[s])]
<1>1. /\ heap \in Heaps /\ Ranked(heap) /\ heap' \in Heaps /\ to \in To
      /\ Null \notin Places /\ From \cap To = {} /\ From \cup To = Places
      /\ root \in [Roots -> Refs]
  BY SpacesAreApart DEF HeapInv, Typed, Visited
<1>2. p \in G /\ p \in Used(Places) /\ p \in Places /\ heap[p] # Null
  BY TargetFacts DEF Used
<1>3. to \in Places /\ to # Null /\ p # Null
  BY <1>1, <1>2
<1>4. m \in [Places \cup {Null} -> Places \cup {Null}] /\ m[Null] = Null
      /\ \A q \in Places : m[q] = IF q = p THEN to ELSE q
  BY <1>1, <1>2, <1>3 DEF Moved
<1>5. p \in To => to = p
  <2> SUFFICES ASSUME p \in To PROVE to = p
    OBVIOUS
  <2>1. heap[p].forward = Null
    BY <1>2, BlackStays DEF Used
  <2>2. ~Moves(p, to, new)
    BY <1>1 DEF Moves
  <2>3. Stays(p, to, new)
    BY <2>2 DEF Visited
  <2> QED
    BY <2>1, <2>3 DEF Stays, Copied
<1>6. heap[to] # Null => to \in G /\ Copied(p) = to
  <2> SUFFICES ASSUME heap[to] # Null PROVE to \in G /\ Copied(p) = to
    OBVIOUS
  <2>1. Copied(p) = to
    BY DEF Visited, Stays, Moves
  <2> QED
    BY <1>2, <2>1, CopiedFacts
<1>7. ASSUME NEW x \in G PROVE Copied(x)' = m[Copied(x)]
  <2>1. x \in Used(Places) /\ x \in Places /\ heap[x] # Null /\ heap'[x] # Null
    BY DEF Used, Visited
  <2>2. CASE x = p /\ Stays(p, to, new)
    <3>1. Copied(x)' = Copied(x) /\ Copied(x) = to
      BY <2>1, <2>2 DEF Copied, Stays
    <3> QED
      BY <1>3, <1>4, <3>1
  <2>3. CASE x = p /\ Moves(p, to, new)
    <3>1. Copied(x)' = to /\ Copied(x) = p
      BY <1>3, <2>1, <2>3 DEF Copied, Moves
    <3> QED
      BY <1>2, <1>4, <3>1
  <2>4. CASE x # p
    <3>1. heap'[x].forward = heap[x].forward
      BY <2>1, <2>4 DEF Visited
    <3>2. Copied(x)' = Copied(x)
      BY <2>1, <3>1 DEF Copied
    <3>3. Copied(x) = p => p \in To
      <4>1. CASE heap[x].forward = Null
        BY <2>4, <4>1 DEF Copied
      <4>2. CASE heap[x].forward # Null
        BY <2>1, <4>2 DEF Copied, HeapInv, Forwarding, Black
      <4> QED
        BY <4>1, <4>2
    <3>4. Copied(x) \in Places
      BY CopiedFacts DEF Used
    <3> QED
      BY <1>4, <1>5, <3>2, <3>3, <3>4
  <2> QED
    BY <2>2, <2>3, <2>4 DEF Visited
<1>8. /\ Newest'[to] = to /\ \A ref \in Places : Newest[ref] \in G => Newest'[ref] = Newest[ref]
  BY VisitedNewest
<1>9. ASSUME NEW ref \in Refs, ref # Null => Newest[ref] \in G
      PROVE  Home(ref)' = m[Home(ref)]
  <2>1. CASE ref = Null
    BY <1>4, <2>1 DEF Home
  <2>2. CASE ref # Null
    <3>1. PICK x : x = Newest[ref]
      OBVIOUS
    <3>2. x \in G /\ Newest'[ref] = x
      BY <1>8, <1>9, <2>2, <3>1 DEF Refs
    <3>3. Home(ref)' = Copied(x)' /\ Home(ref) = Copied(x)
      BY <2>2, <3>1, <3>2 DEF Home
    <3> QED
      BY <1>7, <3>2, <3>3
  <2> QED
    BY <2>1, <2>2
<1>10. Home(to)' = to
  BY <1>3, <1>8 DEF Home, Copied, Visited
<1>11. m[Copied(p)] = to
  <2>1. CASE heap[to] # Null
    BY <1>3, <1>4, <1>6, <2>1
  <2>2. CASE heap[to] = Null
    <3>1. Copied(p) = p
      BY <2>2 DEF Visited, Stays, Moves, Copied
    <3> QED
      BY <1>2, <1>4, <3>1
  <2> QED
    BY <2>1, <2>2
<1>12. ASSUME NEW v \in Roots PROVE Home(root[v])' = m[Home(root[v])]
  <2>1. PICK r : r = root'[v]
    OBVIOUS
  <2>2. Home(root[v])' = Home(r)'
    BY <2>1 DEF Home
  <2>3. CASE Head(work) = <<"root", v>>
    <3>1. r = to
      BY <2>1, <2>3 DEF Visited
    <3>2. Home(root[v]) = Copied(p)
      BY <2>3, TargetFacts DEF Home
    <3> QED
      BY <1>10, <1>11, <2>2, <3>1, <3>2
  <2>4. CASE Head(work) # <<"root", v>>
    <3>1. r = root[v]
      BY <2>1, <2>4 DEF Visited
    <3>2. r \in Refs /\ (r # Null => Newest[r] \in G)
      BY <1>1, <3>1 DEF Traced
    <3> QED
      BY <1>9, <2>2, <3>1, <3>2
  <2> QED
    BY <2>3, <2>4
<1>13. ASSUME NEW q \in G, NEW s \in Slots
       PROVE  /\ heap[q].slots[s] \in Refs
              /\ heap[q].slots[s] # Null => Newest[heap[q].slots[s]] \in G
  BY <1>1, <1>13, FieldTypes DEF Traced
<1>14. ASSUME NEW q \in G, NEW s \in Slots
       PROVE  Home(heap[q].slots[s])' = m[Home(heap[q].slots[s])]
  <2>0. q \in Used(Places) /\ q \in Places
    BY DEF Used
  <2>1. PICK r : r = heap'[q].slots[s]
    OBVIOUS
  <2>2. Home(heap[q].slots[s])' = Home(r)'
    BY <2>1 DEF Home
  <2>3. CASE Head(work) = <<"element", q, s>>
    <3>1. r = to
      BY <2>0, <2>1, <2>3 DEF Visited
    <3>2. Home(heap[q].slots[s]) = Copied(p)
      BY <2>0, <2>3, TargetFacts DEF Home
    <3> QED
      BY <1>10, <1>11, <2>2, <3>1, <3>2
  <2>4. CASE Head(work) # <<"element", q, s>>
    <3>1. r = heap[q].slots[s]
      BY <2>0, <2>1, <2>4 DEF Visited
    <3>2. r \in Refs /\ (r # Null => Newest[r] \in G)
      BY <1>13, <3>1
    <3> QED
      BY <1>9, <2>2, <3>1, <3>2
  <2> QED
    BY <2>3, <2>4
<1>15. ASSUME heap[to] = Null, NEW s \in Slots
       PROVE  Home(heap[to].slots[s])' = m[Home(heap[p].slots[s])]
  <2>1. PICK r : r = heap[p].slots[s]
    OBVIOUS
  <2>2. r = heap'[to].slots[s]
    BY <1>15, <2>1 DEF Visited, Stays, Moves
  <2>3. Home(heap[to].slots[s])' = Home(r)'
    BY <2>2 DEF Home
  <2> QED
    BY <1>2, <1>9, <1>13, <2>1, <2>3
<1>16. /\ m \in [Places \cup {Null} -> Places \cup {Null}] /\ m[Null] = Null
       /\ p \in G /\ to \in Places /\ to # Null /\ p # Null
       /\ p \in To => to = p
       /\ heap[to] # Null => to \in G
       /\ \A v \in Roots : Home(root[v])' = m[Home(root[v])]
       /\ \A q \in G, s \in Slots : Home(heap[q].slots[s])' = m[Home(heap[q].slots[s])]
       /\ heap[to] = Null => \A s \in Slots : Home(heap[to].slots[s])' = m[Home(heap[p].slots[s])]
  BY <1>2, <1>3, <1>4, <1>5, <1>6, <1>12, <1>14, <1>15
<1> QED
  BY <1>16

(* A visit marks the object and its copy.                                  *)
LEMMA VisitedTyped ==
  ASSUME HeapInv, InYoung, NEW to, NEW new, NEW p \in Used(Places), Visited(p, to, new)
  PROVE  /\ Typed' /\ InYoung'
         /\ Used(Places)' = Used(Places) \cup {to}
         /\ From' = From /\ To' = To /\ ToHalf' = ToHalf
         /\ Marked' = Marked \cup {p, to}
         /\ Black' = Black \cup {to}
<1>1. /\ Typed /\ to \in To /\ From \cap To = {} /\ From \cup To = Places /\ Null \notin Places
      /\ To = ToHalf \cup Tenure /\ ToHalf \cap Tenure = {} /\ From \cap ToHalf = {}
  BY SpacesAreApart DEF HeapInv, Typed, Visited
<1>2. InYoung' /\ From' = From /\ To' = To /\ ToHalf' = ToHalf
  BY DEF Visited, InYoung, From, To, ToHalf
<1>3. \A region \in SUBSET Places :
        Used(region)' = Used(region) \cup ({to} \cap region)
  <2> SUFFICES ASSUME NEW region \in SUBSET Places
               PROVE  Used(region)' = Used(region) \cup ({to} \cap region)
    OBVIOUS
  <2>1. \A q \in region : heap'[q] # Null <=> heap[q] # Null \/ q = to
    BY DEF Visited
  <2> QED
    BY <2>1 DEF Used
<1>4. Used(Places)' = Used(Places) \cup {to}
  BY <1>1, <1>3
<1>5. Marked' = Marked \cup {p, to}
  <2>1. \A q \in Used(Places) : heap'[q].is_marked <=> heap[q].is_marked \/ q = p
    BY DEF Visited
  <2>2. heap'[to].is_marked
    BY DEF Visited
  <2>3. Marked' = {q \in Used(Places)' : heap'[q].is_marked}
    BY DEF Marked
  <2> QED
    BY <1>4, <2>1, <2>2, <2>3 DEF Marked
<1>6. Black' = Black \cup {to}
  <2>1. p \in To => to = p
    <3> SUFFICES ASSUME p \in To PROVE to = p
      OBVIOUS
    <3>1. heap[p].forward = Null
      BY BlackStays DEF Used
    <3>2. ~Moves(p, to, new)
      BY <1>1 DEF Moves
    <3> QED
      BY <3>1, <3>2 DEF Visited, Stays, Copied
  <2> QED
    BY <1>1, <1>2, <1>5, <2>1 DEF Black
<1>7. Tenure \subseteq Places /\ Half[cur_grad_from] \subseteq From /\ ToHalf \subseteq Places /\ to \in Places
  BY <1>1, PlacesAreApart DEF From
<1>8. Used(Tenure)' = Used(Tenure) \cup ({to} \cap Tenure) /\ Used(ToHalf)' = graduate_new_list'
  <2>1. Used(ToHalf)' = {q \in ToHalf : heap'[q] # Null}
    BY <1>2 DEF Used
  <2>2. \A q \in ToHalf : heap'[q] # Null <=> heap[q] # Null \/ q = to
    BY <1>7 DEF Visited
  <2>3. Used(ToHalf)' = Used(ToHalf) \cup ({to} \cap ToHalf)
    BY <2>1, <2>2 DEF Used
  <2>4. graduate_new_list' = graduate_new_list \cup ({to} \cap ToHalf)
    BY DEF Visited
  <2> QED
    BY <1>1, <1>3, <1>7, <2>3, <2>4 DEF Typed
<1>9. graduate_list' = Used(Half[cur_grad_from])'
  <2>1. Half[cur_grad_from]' = Half[cur_grad_from]
    BY DEF Visited
  <2>2. \A q \in Half[cur_grad_from] : heap'[q] # Null <=> heap[q] # Null
    BY <1>1, <1>7 DEF Visited
  <2>3. Used(Half[cur_grad_from])' = Used(Half[cur_grad_from])
    BY <2>1, <2>2 DEF Used
  <2> QED
    BY <1>1, <2>3 DEF Typed, Visited
<1>10. \A q \in Used(Tenure)' : q[2] <= tenure_frontier'
  <2> SUFFICES ASSUME NEW q \in Used(Tenure)' PROVE q[2] <= tenure_frontier'
    OBVIOUS
  <2>1. CASE q \in Used(Tenure)
    <3>1. q \in Places
      BY <1>7, <2>1 DEF Used
    <3>2. config["tenure"] \in Nat
      BY <1>1, CollectorAssumption DEF Typed, Regions
    <3>3. q[2] \in Nat /\ tenure_frontier \in Nat /\ tenure_frontier' \in Nat /\ q[2] <= tenure_frontier
      BY <1>1, <2>1, <3>1, <3>2, PlacesAreApart DEF Typed, Visited
    <3>4. tenure_frontier <= tenure_frontier'
      BY DEF Visited
    <3> QED
      BY <3>3, <3>4
  <2>2. CASE q = to /\ to \in Tenure
    BY <2>2 DEF Visited
  <2> QED
    BY <1>8, <2>1, <2>2
<1>11. Typed'
  <2>1. /\ config' \in Configs /\ root' \in [Roots -> Refs] /\ heap' \in Heaps
        /\ tenure_frontier' \in 0 .. config'["tenure"]
        /\ cur_grad_from' \in {0, 1} /\ phase' \in Phases /\ phase' # "mutator"
        /\ work' \in Seq(Entries) /\ resources' \subseteq Handles /\ nallocated' \in Nat
    BY <1>1 DEF Typed, Visited, InYoung
  <2>2. remember_set' \subseteq Used(Tenure)' /\ promoted' \subseteq Used(Tenure)'
    BY <1>1, <1>8 DEF Typed, Visited
  <2> QED
    BY <1>8, <1>9, <1>10, <2>1, <2>2 DEF Typed
<1> QED
  BY <1>2, <1>4, <1>5, <1>6, <1>11

(* The copy joins the objects that the collection may come to.             *)
LEMMA VisitedTraced ==
  ASSUME HeapInv, InYoung, work # << >>, NEW G \in SUBSET Used(Places), Traced(G),
         NEW to, NEW new, NEW p, p = Target(Head(work)), Visited(p, to, new)
  PROVE  Sound'
<1>1. /\ heap \in Heaps /\ root \in [Roots -> Refs] /\ remember_set \subseteq Used(Tenure)
      /\ p \in G /\ p \in Used(Places) /\ Tenure \subseteq Places
  BY TargetFacts, PlacesAreApart DEF HeapInv, Typed
<1>2. Used(Places)' = Used(Places) \cup {to} /\ Marked' = Marked \cup {p, to} /\ InYoung'
  BY <1>1, VisitedTyped
<1>3. /\ Newest'[to] = to /\ \A ref \in Places : Newest[ref] \in G => Newest'[ref] = Newest[ref]
  BY VisitedNewest
<1>4. PICK H : H = G \cup {to}
  OBVIOUS
<1>5. H \in SUBSET Used(Places)'
  BY <1>2, <1>4
<1>6. \A q \in H : heap'[q].newer = Null
  BY <1>1, <1>4 DEF Traced, Visited
<1>7. ASSUME NEW ref \in Refs, ref # Null, Newest[ref] \in G PROVE Newest'[ref] \in H
  BY <1>3, <1>4, <1>7 DEF Refs
<1>8. ASSUME NEW q \in G, NEW s \in Slots
      PROVE  /\ heap[q].slots[s] \in Refs
             /\ heap[q].slots[s] # Null => Newest[heap[q].slots[s]] \in G
  BY <1>1, FieldTypes DEF Traced
<1>9. ASSUME NEW q \in H, NEW s \in Slots, heap'[q].slots[s] # Null
      PROVE  Newest'[heap'[q].slots[s]] \in H
  <2>1. CASE q \in G
    <3>1. PICK ref : ref = heap'[q].slots[s]
      OBVIOUS
    <3>2. ref = to \/ ref = heap[q].slots[s]
      BY <2>1, <3>1 DEF Visited
    <3> QED
      BY <1>3, <1>4, <1>7, <1>8, <1>9, <2>1, <3>1, <3>2
  <2>2. CASE q = to /\ heap[to] = Null
    <3>1. heap'[q].slots[s] = heap[p].slots[s]
      BY <2>2 DEF Visited, Stays, Moves
    <3> QED
      BY <1>1, <1>7, <1>8, <1>9, <3>1
  <2>3. CASE q = to /\ heap[to] # Null
    BY <2>1, <2>3, VisitedHomes
  <2> QED
    BY <1>4, <2>1, <2>2, <2>3
<1>10. \A v \in Roots : root'[v] # Null => Newest'[root'[v]] \in H
  <2> SUFFICES ASSUME NEW v \in Roots, root'[v] # Null PROVE Newest'[root'[v]] \in H
    OBVIOUS
  <2>1. root'[v] = to \/ root'[v] = root[v]
    BY DEF Visited
  <2>2. root[v] \in Refs /\ (root[v] # Null => Newest[root[v]] \in G)
    BY <1>1 DEF Traced
  <2> QED
    BY <1>3, <1>4, <1>7, <2>1, <2>2
<1>11. \A q \in remember_set' : Newest'[q] \in H
  <2> SUFFICES ASSUME NEW q \in remember_set' PROVE Newest'[q] \in H
    OBVIOUS
  <2>1. q = to \/ q \in remember_set
    BY DEF Visited
  <2>2. q \in remember_set => q \in Places /\ Newest[q] \in G
    BY <1>1 DEF Traced, Used
  <2> QED
    BY <1>3, <1>4, <2>1, <2>2
<1>12. Marked' \subseteq H
  BY <1>1, <1>2, <1>4 DEF Traced
<1>13. Traced(H)'
  BY <1>6, <1>9, <1>10, <1>11, <1>12 DEF Traced
<1> QED
  BY <1>5, <1>13 DEF Sound

(* The resource goes with the copy.                                        *)
LEMMA VisitedNatives ==
  ASSUME HeapInv, NEW to, NEW new, NEW p \in Used(Places), Visited(p, to, new),
         Used(Places)' = Used(Places) \cup {to}
  PROVE  NativesDiffer'
<1>1. NativesDiffer
  BY DEF HeapInv
<1> DEFINE Owner(q) == IF heap[q] = Null THEN p ELSE q
<1>2. ASSUME NEW q \in Used(Places)', heap'[q].native
      PROVE  /\ Owner(q) \in Used(Places) /\ heap[Owner(q)].native
             /\ heap'[q].object = heap[Owner(q)].object
             /\ Moves(p, to, new) => q # p
             /\ heap[q] = Null => Moves(p, to, new) /\ q = to
  <2>1. CASE heap[q] = Null
    <3>1. q = to /\ Moves(p, to, new)
      BY <1>2, <2>1 DEF Visited, Stays, Moves, Used
    <3> QED
      BY <1>2, <2>1, <3>1 DEF Moves, Used
  <2>2. CASE heap[q] # Null
    <3>1. q \in Used(Places)
      BY <1>2, <2>2 DEF Used
    <3>2. CASE q # p
      BY <1>2, <2>2, <3>1, <3>2 DEF Visited
    <3>3. CASE q = p /\ Stays(p, to, new)
      BY <1>2, <2>2, <3>1, <3>3 DEF Visited, Stays, Moves
    <3>4. CASE q = p /\ Moves(p, to, new)
      BY <1>2, <3>4 DEF Moves
    <3> QED
      BY <3>2, <3>3, <3>4 DEF Visited
  <2> QED
    BY <2>1, <2>2
<1>3. \A q \in Used(Places)' : heap'[q].native => heap'[q].object \in resources'
  BY <1>1, <1>2 DEF NativesDiffer, Visited
<1>4. ASSUME NEW q \in Used(Places)', NEW r \in Used(Places)',
             heap'[q].native, heap'[r].native, heap'[q].object = heap'[r].object
      PROVE  q = r
  <2>1. Owner(q) = Owner(r)
    <3> HIDE DEF Owner
    <3> QED
      BY <1>1, <1>2, <1>4 DEF NativesDiffer
  <2> QED
    BY <1>2, <1>4, <2>1
<1> QED
  BY <1>3, <1>4 DEF NativesDiffer

(* The copy has the same elements as the original, through copies.         *)
LEMMA VisitedForwarding ==
  ASSUME HeapInv, InYoung, work # << >>, NEW G \in SUBSET Used(Places), Traced(G),
         NEW to, NEW new, NEW p, p = Target(Head(work)), Visited(p, to, new)
  PROVE  Forwarding'
<1>1. /\ p \in G /\ p \in Used(Places) /\ to \in To /\ From \cap To = {} /\ From \cup To = Places
      /\ Null \notin Places /\ ToHalf \subseteq Places /\ Forwarding
  BY TargetFacts, SpacesAreApart DEF HeapInv, Typed, Visited
<1>2. /\ Typed' /\ Used(Places)' = Used(Places) \cup {to}
      /\ From' = From /\ To' = To /\ ToHalf' = ToHalf
      /\ Marked' = Marked \cup {p, to} /\ Black' = Black \cup {to}
  BY <1>1, VisitedTyped
<1>3. PICK m : m = Moved(p, to)
  OBVIOUS
<1>4. /\ to \in Places /\ to # Null
      /\ \A q \in G, s \in Slots : Home(heap[q].slots[s])' = m[Home(heap[q].slots[s])]
      /\ heap[to] = Null => \A s \in Slots : Home(heap[to].slots[s])' = m[Home(heap[p].slots[s])]
  BY <1>3, VisitedHomes
<1>5. ASSUME NEW q \in Used(Places), heap[q].forward # Null, heap'[q].forward = heap[q].forward
      PROVE  /\ q \in From /\ heap'[q].is_marked
             /\ heap'[q].forward \in Black'
             /\ heap'[heap'[q].forward].object = heap'[q].object
             /\ \A s \in Slots : Home(heap[q].slots[s])' = Home(heap[heap[q].forward].slots[s])'
  <2>1. PICK f : f = heap[q].forward
    OBVIOUS
  <2>2. /\ q \in From /\ heap[q].is_marked /\ f \in Black /\ heap[f].object = heap[q].object
        /\ \A s \in Slots : Home(heap[q].slots[s]) = Home(heap[f].slots[s])
    BY <1>1, <1>5, <2>1 DEF Forwarding
  <2>3. q \in G /\ f \in G
    BY <2>2 DEF Traced, Marked, Black
  <2>4. \A s \in Slots : Home(heap[q].slots[s])' = Home(heap[f].slots[s])'
    BY <1>4, <2>2, <2>3
  <2>5. heap'[q].is_marked /\ heap'[q].object = heap[q].object /\ heap'[f].object = heap[f].object
    BY <2>2, <2>3 DEF Visited
  <2>6. \A s \in Slots : Home(heap[heap[q].forward].slots[s])' = Home(heap[f].slots[s])'
    BY <1>5, <2>1 DEF Home
  <2> QED
    BY <1>2, <1>5, <2>1, <2>2, <2>4, <2>5, <2>6
<1>6. ASSUME NEW q \in Used(Places)', heap'[q].forward # Null
      PROVE  /\ q \in From' /\ heap'[q].is_marked
             /\ heap'[q].forward \in Black'
             /\ heap'[heap'[q].forward].object = heap'[q].object
             /\ \A s \in Slots : Home(heap[q].slots[s])' = Home(heap[heap[q].forward].slots[s])'
  <2>1. q # to /\ q \in Used(Places)
    BY <1>2, <1>6 DEF Visited
  <2>2. CASE heap'[q].forward = heap[q].forward
    BY <1>2, <1>5, <1>6, <2>1, <2>2
  <2>3. CASE heap'[q].forward # heap[q].forward
    <3>1. q = p /\ Moves(p, to, new)
      BY <2>1, <2>3 DEF Visited, Stays
    <3>2. /\ p \in From /\ heap[to] = Null /\ heap'[p].forward = to
          /\ heap'[to].object = heap[p].object
      BY <3>1 DEF Moves
    <3>3. heap'[p].is_marked /\ heap'[p].object = heap[p].object
      BY <1>1 DEF Visited
    <3>4. \A s \in Slots : Home(heap[p].slots[s])' = Home(heap[to].slots[s])'
      BY <1>1, <1>4, <3>2
    <3>5. \A s \in Slots : Home(heap[heap[p].forward].slots[s])' = Home(heap[to].slots[s])'
      BY <3>2 DEF Home
    <3> QED
      BY <1>2, <3>1, <3>2, <3>3, <3>4, <3>5
  <2> QED
    BY <2>2, <2>3
<1>7. ASSUME NEW q \in Used(From)', heap'[q].is_marked PROVE heap'[q].forward # Null
  <2>1. q \in From /\ q \in Used(Places) /\ q \in Used(From) /\ q # to
    BY <1>1, <1>2 DEF Used, Visited
  <2>2. CASE q # p
    <3>1. heap[q].is_marked /\ heap'[q].forward = heap[q].forward
      BY <1>7, <2>1, <2>2 DEF Visited
    <3> QED
      BY <1>1, <2>1, <3>1 DEF Forwarding
  <2>3. CASE q = p /\ Stays(p, to, new)
    <3>1. Copied(p) = to /\ heap'[p].forward = heap[p].forward
      BY <2>3 DEF Stays
    <3> QED
      BY <2>1, <2>3, <3>1 DEF Copied
  <2>4. CASE q = p /\ Moves(p, to, new)
    BY <1>4, <2>4 DEF Moves
  <2> QED
    BY <2>2, <2>3, <2>4 DEF Visited
<1>8. Used(ToHalf)' \cup promoted' \subseteq Marked'
  <2>1. ASSUME NEW q \in Used(ToHalf)' PROVE q \in Marked'
    <3>1. q \in ToHalf /\ q \in Used(Places)'
      BY <1>1, <1>2 DEF Used
    <3>2. q \in Used(ToHalf) \/ q = to
      BY <1>2, <3>1 DEF Used
    <3> QED
      BY <1>1, <1>2, <3>2 DEF Forwarding
  <2>2. promoted' \subseteq Marked'
    BY <1>1, <1>2 DEF Visited, Forwarding
  <2> QED
    BY <2>1, <2>2
<1> QED
  BY <1>6, <1>7, <1>8 DEF Forwarding

(* The slot that was visited refers to a visited object; the elements of   *)
(* the newly marked object are on the worklist.                            *)
LEMMA VisitedColors ==
  ASSUME HeapInv, InYoung, work # << >>, NEW G \in SUBSET Used(Places), Traced(G),
         NEW to, NEW new, NEW p, p = Target(Head(work)), Visited(p, to, new)
  PROVE  TriColor' /\ WorkIsGood'
<1>1. /\ p \in G /\ p \in Used(Places) /\ to \in To /\ to \in Places /\ to # Null /\ Null \notin Places
      /\ TriColor /\ WorkIsGood /\ Tenure \subseteq Places /\ remember_set \subseteq Used(Tenure)
  <2>1. TriColor /\ WorkIsGood /\ remember_set \subseteq Used(Tenure) /\ cur_grad_from \in {0, 1}
    BY DEF HeapInv, Typed
  <2>2. Null \notin Places /\ From \cup To = Places /\ Tenure \subseteq Places
    BY <2>1, SpacesAreApart, PlacesAreApart
  <2>3. p \in G /\ p \in Used(Places)
    BY TargetFacts
  <2>4. to \in To
    BY DEF Visited
  <2> QED
    BY <2>1, <2>2, <2>3, <2>4
<1>2. /\ Used(Places)' = Used(Places) \cup {to}
      /\ Marked' = Marked \cup {p, to} /\ Black' = Black \cup {to}
  BY <1>1, VisitedTyped
<1>3. /\ Items(work) = {Head(work)} \cup Items(Tail(work))
      /\ Items(work)' = Items(Tail(work)) \cup new
  <2>1. Items(work)' = Items(work')
    BY DEF Items
  <2> QED
    BY <2>1, TargetFacts DEF Visited
<1>4. /\ Newest'[to] = to /\ \A ref \in Places : Newest[ref] \in G => Newest'[ref] = Newest[ref]
  BY VisitedNewest
<1>5. ASSUME NEW e \in new
      PROVE  \E s \in Slots : e = <<"element", to, s>> /\ heap[p].slots[s] # Null
  BY DEF Visited, Stays, Moves
<1>6. ASSUME NEW q \in Black, NEW s \in Slots
      PROVE  \/ heap'[q].slots[s] \in Black' \cup {Null}
             \/ <<"element", q, s>> \in Items(work)'
  <2>1. q \in Used(Places)
    BY DEF Black, Marked
  <2>2. CASE Head(work) = <<"element", q, s>>
    BY <1>2, <2>1, <2>2 DEF Visited
  <2>3. CASE Head(work) # <<"element", q, s>>
    <3>1. heap'[q].slots[s] = heap[q].slots[s]
      BY <2>1, <2>3 DEF Visited
    <3>2. \/ heap[q].slots[s] \in Black \cup {Null}
          \/ <<"element", q, s>> \in Items(work)
      BY <1>1 DEF TriColor
    <3> QED
      BY <1>2, <1>3, <2>3, <3>1, <3>2
  <2> QED
    BY <2>2, <2>3
<1>7. ASSUME to \notin Black
      PROVE  /\ new = {<<"element", to, s>> : s \in {s \in Slots : heap[p].slots[s] # Null}}
             /\ \A s \in Slots : heap'[to].slots[s] = heap[p].slots[s] \/ heap'[to].slots[s] = to
  BY <1>1, <1>7 DEF Visited, Stays, Moves
<1>8. ASSUME NEW s \in Slots
      PROVE  \/ heap'[to].slots[s] \in Black' \cup {Null}
             \/ <<"element", to, s>> \in Items(work)'
  <2>1. CASE to \in Black
    BY <1>6, <2>1
  <2>2. CASE to \notin Black
    <3>1. heap'[to].slots[s] = heap[p].slots[s] \/ heap'[to].slots[s] = to
      BY <1>7, <2>2
    <3>2. heap[p].slots[s] # Null => <<"element", to, s>> \in new
      BY <1>7, <2>2
    <3> QED
      BY <1>2, <1>3, <3>1, <3>2
  <2> QED
    BY <2>1, <2>2
<1>9. ASSUME NEW v \in Roots
      PROVE  root'[v] \in Black' \cup {Null} \/ <<"root", v>> \in Items(work)'
  <2>1. CASE Head(work) = <<"root", v>>
    BY <1>2, <2>1 DEF Visited
  <2>2. CASE Head(work) # <<"root", v>>
    <3>1. root'[v] = root[v]
      BY <2>2 DEF Visited
    <3> QED
      BY <1>1, <1>2, <1>3, <2>2, <3>1 DEF TriColor
  <2> QED
    BY <2>1, <2>2
<1>10. ASSUME phase' = "young_remembered", NEW q \in remember_set'
       PROVE  heap'[Newest'[q]].is_marked \/ <<"member", q>> \in Items(work)'
  <2>1. CASE q = to
    BY <1>4, <2>1 DEF Visited
  <2>2. CASE q \in remember_set
    <3>1. PICK x : x = Newest[q]
      OBVIOUS
    <3>2. x \in G /\ Newest'[q] = x /\ q \in Tenure
      BY <1>1, <1>4, <2>2, <3>1 DEF Traced, Used
    <3>3. CASE Head(work) = <<"member", q>>
      <4>1. x = p
        BY <3>1, <3>2, <3>3, TargetFacts
      <4> QED
        BY <1>1, <3>2, <4>1 DEF Visited
    <3>4. CASE Head(work) # <<"member", q>>
      <4>1. heap[x].is_marked \/ <<"member", q>> \in Items(work)
        BY <1>1, <1>10, <2>2, <3>1 DEF TriColor, Visited
      <4>2. heap[x].is_marked => heap'[x].is_marked
        BY <3>2 DEF Visited
      <4> QED
        BY <1>3, <3>2, <3>4, <4>1, <4>2
    <3> QED
      BY <3>3, <3>4
  <2> QED
    BY <2>1, <2>2 DEF Visited
<1>11. TriColor'
  BY <1>2, <1>6, <1>8, <1>9, <1>10 DEF TriColor
<1>12. ASSUME NEW v \in Roots, <<"root", v>> \in Items(work)' PROVE root'[v] # Null
  <2>1. <<"root", v>> \in Items(work)
    <3>1. <<"root", v>> \notin new
      BY <1>5
    <3> QED
      BY <1>3, <1>12, <3>1
  <2> QED
    BY <1>1, <2>1 DEF WorkIsGood, Visited
<1>13. ASSUME NEW q \in Places, NEW s \in Slots, <<"element", q, s>> \in Items(work)'
       PROVE  q \in Black' /\ heap'[q].slots[s] # Null
  <2>1. CASE <<"element", q, s>> \in new
    <3>1. q = to /\ heap[p].slots[s] # Null
      BY <1>5, <2>1
    <3>2. new # {}
      BY <2>1
    <3>3. heap'[to].slots[s] = heap[p].slots[s] \/ heap'[to].slots[s] = to
      BY <1>1, <3>2 DEF Visited, Stays, Moves
    <3> QED
      BY <1>1, <1>2, <3>1, <3>3
  <2>2. CASE <<"element", q, s>> \in Items(work)
    <3>1. q \in Black /\ heap[q].slots[s] # Null
      BY <1>1, <2>2 DEF WorkIsGood
    <3>2. heap'[q].slots[s] = heap[q].slots[s] \/ heap'[q].slots[s] = to
      BY <3>1 DEF Visited, Black, Marked
    <3> QED
      BY <1>1, <1>2, <3>1, <3>2
  <2> QED
    BY <1>3, <1>13, <2>1, <2>2
<1>14. ASSUME NEW q \in Tenure, <<"member", q>> \in Items(work)' PROVE q \in remember_set'
  <2>1. <<"member", q>> \in Items(work)
    <3>1. <<"member", q>> \notin new
      BY <1>5
    <3> QED
      BY <1>3, <1>14, <3>1
  <2> QED
    BY <1>1, <2>1 DEF WorkIsGood, Visited
<1>15. WorkIsGood'
  BY <1>12, <1>13, <1>14 DEF WorkIsGood
<1> QED
  BY <1>11, <1>15

(* So a visit keeps the invariant, and the program does not see it.        *)
LEMMA VisitedIsUnseen ==
  ASSUME IInv, InYoung, work # << >>,
         NEW to, NEW new, NEW p, p = Target(Head(work)), Visited(p, to, new)
  PROVE  IInv' /\ AbstractNext
<1>1. HeapInv /\ Names
  BY DEF IInv
<1>2. PICK G \in SUBSET Used(Places) : Traced(G)
  BY <1>1 DEF HeapInv, Sound
<1>3. p \in G /\ p \in Used(Places)
  BY <1>1, <1>2, TargetFacts
<1>4. Typed' /\ InYoung' /\ Used(Places)' = Used(Places) \cup {to}
  BY <1>1, <1>3, VisitedTyped
<1>5. Ranked(heap')
  BY <1>1, <1>2, VisitedNewest
<1>6. Sound'
  BY <1>1, <1>2, VisitedTraced
<1>7. NativesDiffer'
  BY <1>1, <1>3, <1>4, VisitedNatives
<1>8. AgendaIsClean' /\ NoneForwarded'
  <2>1. phase # "mutator" /\ phase' = phase /\ agenda' = agenda
    BY DEF Visited, InYoung
  <2> QED
    BY <1>1, <2>1 DEF HeapInv, AgendaIsClean, NoneForwarded
<1>9. Forwarding' /\ TriColor' /\ WorkIsGood'
  BY <1>1, <1>2, VisitedForwarding, VisitedColors
<1>10. HeapInv'
  BY <1>4, <1>5, <1>6, <1>7, <1>8, <1>9 DEF HeapInv
<1>11. PICK m : m = Moved(p, to)
  OBVIOUS
<1>12. /\ m \in [Places \cup {Null} -> Places \cup {Null}] /\ m[Null] = Null
       /\ p \in G /\ to \in Places /\ to # Null /\ p # Null
       /\ \A v \in Roots : Home(root[v])' = m[Home(root[v])]
       /\ \A q \in G, s \in Slots : Home(heap[q].slots[s])' = m[Home(heap[q].slots[s])]
       /\ heap[to] = Null => \A s \in Slots : Home(heap[to].slots[s])' = m[Home(heap[p].slots[s])]
  <2>1. p \in G /\ to \in Places /\ to # Null /\ p # Null
    BY <1>1, <1>2, <1>11, VisitedHomes
  <2>4. m \in [Places \cup {Null} -> Places \cup {Null}] /\ m[Null] = Null
    BY <1>11, <2>1 DEF Moved
  <2>2. \A v \in Roots : Home(root[v])' = m[Home(root[v])]
    BY <1>1, <1>2, <1>11, VisitedHomes
  <2>3. /\ \A q \in G, s \in Slots : Home(heap[q].slots[s])' = m[Home(heap[q].slots[s])]
        /\ heap[to] = Null => \A s \in Slots : Home(heap[to].slots[s])' = m[Home(heap[p].slots[s])]
    BY <1>1, <1>2, <1>11, VisitedHomes
  <2> QED
    BY <2>1, <2>2, <2>3, <2>4
<1>13. HomesAreLeast /\ Homes \subseteq G
  <2>1. LivePlaces \subseteq G
    BY <1>1, <1>2, LiveAreTraced
  <2> QED
    BY <1>1, <1>2, <2>1, HomesFacts, CopiedFacts DEF Homes
<1>14. ASSUME NEW q \in Homes
       PROVE  /\ m[q] # Null /\ heap'[m[q]].object = heap[q].object
              /\ heap[q].native => heap'[m[q]].native
              /\ \A s \in Slots : Home(heap[m[q]].slots[s])' = m[Home(heap[q].slots[s])]
  <2>1. q \in G /\ q \in Used(Places) /\ q \in Places /\ q # Null /\ Copied(q) = q
    BY <1>13, NullAssumption DEF HomesAreLeast, Used
  <2>2. CASE m[q] = q
    <3>1. q # p \/ Stays(p, to, new)
      <4>1. m[q] = IF q = p THEN to ELSE q
        BY <1>11, <2>1 DEF Moved
      <4> QED
        BY <2>1, <2>2, <4>1 DEF Visited, Moves, Used
    <3>2. heap'[q].object = heap[q].object /\ heap'[q].native = heap[q].native
      BY <2>1, <3>1 DEF Visited, Stays
    <3>3. \A s \in Slots : Home(heap[m[q]].slots[s])' = Home(heap[q].slots[s])'
      BY <2>2 DEF Home
    <3> QED
      BY <1>12, <2>1, <2>2, <3>2, <3>3
  <2>3. CASE m[q] # q
    <3>1. q = p /\ m[q] = to
      BY <1>11, <2>1, <2>3 DEF Moved
    <3>2. Moves(p, to, new)
      BY <2>1, <2>3, <3>1 DEF Visited, Stays
    <3>3. \A s \in Slots : Home(heap[m[q]].slots[s])' = Home(heap[to].slots[s])'
      BY <3>1 DEF Home
    <3> QED
      BY <1>12, <3>1, <3>2, <3>3 DEF Moves
  <2> QED
    BY <2>2, <2>3
<1>15. SameHeap(m)
  BY <1>12, <1>14 DEF SameHeap
<1>16. Names' /\ LiveElements' = LiveElements /\ Seen' = Seen
  <2>1. Names' /\ LiveElements' = LiveElements /\ \A v \in Roots : Name(root[v])' = Name(root[v])
    BY <1>1, <1>10, <1>15, UnseenSteps
  <2> QED
    BY <2>1 DEF Seen
<1>17. resources' = resources
  BY DEF Visited
<1> QED
  BY <1>10, <1>16, <1>17 DEF IInv, AbstractNext, ManagedHeap!vars, Seen

(* The slot refers to to, and the heap is otherwise h.                     *)
Rewritten(slot, to, h) ==
  /\ heap' \in Heaps /\ root' \in [Roots -> Refs]
  /\ \A v \in Roots : root'[v] = IF slot = <<"root", v>> THEN to ELSE root[v]
  /\ \A q \in Places : heap'[q] # Null <=> h[q] # Null
  /\ \A q \in Places : h[q] # Null =>
       /\ heap'[q].object = h[q].object /\ heap'[q].newer = h[q].newer
       /\ heap'[q].native = h[q].native /\ heap'[q].forward = h[q].forward
       /\ heap'[q].is_marked = h[q].is_marked
       /\ \A s \in Slots : heap'[q].slots[s] = IF slot = <<"element", q, s>> THEN to
                                               ELSE h[q].slots[s]

(* Rewrite has this effect.                                                *)
LEMMA RewriteEffect ==
  ASSUME NEW slot \in Entries, NEW h \in Heaps, NEW to \in Refs, Rewrite(slot, to, h),
         root \in [Roots -> Refs],
         \A q \in Places, s \in Slots : slot = <<"element", q, s>> => h[q] # Null
  PROVE  Rewritten(slot, to, h)
<1>1. \/ \E v \in Roots : slot = <<"root", v>>
      \/ \E q \in Places : \E s \in Slots : slot = <<"element", q, s>>
      \/ \E q \in Tenure : slot = <<"member", q>>
  BY DEF Entries
<1>2. CASE \E v \in Roots : slot = <<"root", v>>
  <2>1. PICK v \in Roots : slot = <<"root", v>>
    BY <1>2
  <2>2. heap' = h /\ root' = [root EXCEPT ![v] = to]
    BY <2>1 DEF Rewrite
  <2>3. \A q \in Places, s \in Slots : slot # <<"element", q, s>>
    BY <2>1
  <2>4. \A u \in Roots : slot = <<"root", u>> <=> u = v
    BY <2>1
  <2> QED
    BY <2>2, <2>3, <2>4 DEF Rewritten
<1>3. CASE \E q \in Tenure : slot = <<"member", q>>
  <2>1. PICK q \in Tenure : slot = <<"member", q>>
    BY <1>3
  <2>2. heap' = h /\ root' = root
    BY <2>1 DEF Rewrite
  <2>3. \A x \in Places, s \in Slots : slot # <<"element", x, s>>
    BY <2>1
  <2>4. \A u \in Roots : slot # <<"root", u>>
    BY <2>1
  <2> QED
    BY <2>2, <2>3, <2>4 DEF Rewritten
<1>4. CASE \E q \in Places : \E s \in Slots : slot = <<"element", q, s>>
  <2>1. PICK p \in Places : \E s \in Slots : slot = <<"element", p, s>>
    BY <1>4
  <2>2. PICK t \in Slots : slot = <<"element", p, t>>
    BY <2>1
  <2>3. heap' = [h EXCEPT ![p].slots[t] = to] /\ root' = root
    BY <2>2 DEF Rewrite
  <2>4. \A u \in Roots : slot # <<"root", u>>
    BY <2>2
  <2>5. \A q \in Places, s \in Slots : slot = <<"element", q, s>> <=> q = p /\ s = t
    BY <2>2
  <2>6. h[p] # Null /\ h[p] \in Object /\ h[p].slots \in [Slots -> Refs]
    BY <2>2 DEF Heaps, Object
  <2>7. PICK x : x = [h[p] EXCEPT !.slots[t] = to]
    OBVIOUS
  <2>8. /\ x \in Object /\ x.object = h[p].object /\ x.newer = h[p].newer
        /\ x.native = h[p].native /\ x.forward = h[p].forward /\ x.is_marked = h[p].is_marked
        /\ \A s \in Slots : x.slots[s] = IF s = t THEN to ELSE h[p].slots[s]
    BY <2>6, <2>7 DEF Object
  <2>9. heap' = [h EXCEPT ![p] = x]
    BY <2>3, <2>7
  <2>10. heap' \in Heaps /\ x # Null
    BY <2>8, <2>9, NullAssumption DEF Heaps
  <2>11. \A q \in Places : heap'[q] = IF q = p THEN x ELSE h[q]
    BY <2>9 DEF Heaps
  <2>12. \A q \in Places : heap'[q] # Null <=> h[q] # Null
    BY <2>6, <2>10, <2>11
  <2>13. ASSUME NEW q \in Places, h[q] # Null
         PROVE  /\ heap'[q].object = h[q].object /\ heap'[q].newer = h[q].newer
                /\ heap'[q].native = h[q].native /\ heap'[q].forward = h[q].forward
                /\ heap'[q].is_marked = h[q].is_marked
                /\ \A s \in Slots : heap'[q].slots[s] = IF slot = <<"element", q, s>> THEN to
                                                        ELSE h[q].slots[s]
    BY <2>5, <2>8, <2>11
  <2> QED
    BY <2>3, <2>4, <2>10, <2>12, <2>13 DEF Rewritten
<1> QED
  BY <1>1, <1>2, <1>3, <1>4

(* The object that is visited exists and is not superseded.                *)
LEMMA VisitFacts ==
  ASSUME HeapInv, InYoung, work # << >>, NEW p, p = Target(Head(work))
  PROVE  /\ p \in Used(Places) /\ p \in Places /\ heap[p] # Null /\ heap[p] \in Object
         /\ heap[p].newer = Null
         /\ Head(work) \in Entries /\ Tail(work) \in Seq(Entries) /\ Len(Tail(work)) < Len(work)
         /\ \A q \in Places, s \in Slots : Head(work) = <<"element", q, s>> =>
              q \in Black /\ heap[q] # Null
<1>1. PICK G \in SUBSET Used(Places) : Traced(G)
  BY DEF HeapInv, Sound
<1>2. p \in G
  BY <1>1, TargetFacts
<1>3. p \in Used(Places) /\ p \in Places /\ heap[p] # Null /\ heap[p] \in Object /\ heap[p].newer = Null
  <2>1. heap \in Heaps
    BY DEF HeapInv, Typed
  <2> QED
    BY <1>1, <1>2, <2>1, FieldTypes DEF Used, Traced
<1>4. Head(work) \in Entries /\ Tail(work) \in Seq(Entries) /\ Len(Tail(work)) < Len(work)
  BY <1>1, TargetFacts
<1>5. \A q \in Places, s \in Slots : Head(work) = <<"element", q, s>> => q \in Black
  BY <1>1, TargetFacts
<1> QED
  BY <1>3, <1>4, <1>5 DEF Black, Marked, Used

(* The three kinds of visits.                                              *)
LEMMA VisitMarkedEffect ==
  ASSUME HeapInv, InYoung, work # << >>, NEW p, p = Target(Head(work)), VisitMarked(Head(work))
  PROVE  \E to : Visited(p, to, {})
<1>1. /\ heap \in Heaps /\ root \in [Roots -> Refs] /\ Forwarding /\ cur_grad_from \in {0, 1}
      /\ tenure_frontier \in 0 .. config["tenure"] /\ config["tenure"] \in Nat
      /\ \A q \in Used(Tenure) : q[2] <= tenure_frontier
      /\ graduate_new_list = Used(ToHalf)
  BY CollectorAssumption DEF HeapInv, Typed, Regions
<1>2. /\ p \in Used(Places) /\ p \in Places /\ heap[p] # Null /\ heap[p] \in Object
      /\ heap[p].newer = Null
      /\ Head(work) \in Entries /\ Tail(work) \in Seq(Entries)
      /\ \A q \in Places, s \in Slots : Head(work) = <<"element", q, s>> => heap[q] # Null
  BY VisitFacts
<1>3. PICK to : to = IF p \in Young /\ heap[p].forward # Null THEN heap[p].forward ELSE p
  OBVIOUS
<1>4. /\ heap[p].is_marked /\ Rewrite(Head(work), to, heap) /\ work' = Tail(work)
      /\ UNCHANGED <<config, remember_set, tenure_frontier, resources, nallocated, listVars, phase, agenda, promoted>>
  BY <1>3 DEF VisitMarked
<1>5. to \in Black /\ Copied(p) = to
  <2>1. From \cup To = Places /\ From \cap To = {} /\ From \subseteq Young
    BY <1>1, SpacesAreApart
  <2>2. CASE heap[p].forward # Null
    <3>1. p \in From /\ heap[p].forward \in Black
      BY <1>1, <1>2, <2>2 DEF Forwarding
    <3> QED
      BY <1>2, <1>3, <2>1, <2>2, <3>1 DEF Copied
  <2>3. CASE heap[p].forward = Null
    <3>1. p \notin From
      BY <1>1, <1>2, <1>4, <2>3 DEF Forwarding, Used
    <3> QED
      BY <1>2, <1>3, <1>4, <2>1, <2>3, <3>1 DEF Copied, Black, Marked
  <2> QED
    BY <2>2, <2>3
<1>6. /\ to \in Used(Places) /\ to \in Places /\ to \in To /\ heap[to] # Null /\ to \in Refs
      /\ heap[to].is_marked /\ heap[to].forward = Null /\ heap[to].newer = Null
  <2>1. to \in Used(Places) /\ to \in Places /\ to \in To /\ heap[to] # Null /\ to \in Refs /\ heap[to].is_marked
    BY <1>5 DEF Black, Marked, Used, Refs
  <2>2. heap[to].forward = Null
    BY <2>1, BlackStays DEF Used
  <2>3. PICK G \in SUBSET Used(Places) : Traced(G)
    BY DEF HeapInv, Sound
  <2>4. heap[to].newer = Null
    BY <1>5, <2>3 DEF Traced, Black
  <2> QED
    BY <2>1, <2>2, <2>4
<1>7. Rewritten(Head(work), to, heap)
  <2>1. Head(work) \in Entries /\ heap \in Heaps /\ to \in Refs /\ Rewrite(Head(work), to, heap)
    BY <1>1, <1>2, <1>4, <1>6
  <2> QED
    BY <1>1, <1>2, <2>1, RewriteEffect
<1>8. Stays(p, to, {})
  BY <1>2, <1>5, <1>6, <1>7 DEF Stays, Rewritten
<1>9. heap'[to].is_marked /\ heap'[to].newer = Null /\ heap'[to].forward = Null
  BY <1>6, <1>7 DEF Rewritten
<1>10. \A q \in Used(Places) :
         /\ heap'[q].object = heap[q].object /\ heap'[q].newer = heap[q].newer
         /\ heap'[q].is_marked <=> heap[q].is_marked \/ q = p
         /\ q # p => heap'[q].native = heap[q].native /\ heap'[q].forward = heap[q].forward
         /\ \A s \in Slots : heap'[q].slots[s] = IF Head(work) = <<"element", q, s>> THEN to
                                                 ELSE heap[q].slots[s]
  BY <1>4, <1>7 DEF Used, Rewritten
<1>11. \A q \in Places : heap'[q] # Null <=> heap[q] # Null \/ q = to
  BY <1>6, <1>7 DEF Rewritten
<1>12. /\ work' \in Seq(Entries) /\ Items(work') = Items(Tail(work)) \cup {}
       /\ graduate_new_list' = graduate_new_list \cup ({to} \cap ToHalf)
       /\ promoted' \subseteq promoted \cup ({to} \cap Tenure)
       /\ remember_set \subseteq remember_set'
       /\ remember_set' \subseteq remember_set \cup ({to} \cap Tenure)
       /\ tenure_frontier' \in 0 .. config["tenure"] /\ tenure_frontier <= tenure_frontier'
       /\ to \in Tenure => to[2] <= tenure_frontier'
       /\ UNCHANGED <<config, resources, nallocated, cur_grad_from, graduate_list, phase, agenda>>
  BY <1>1, <1>2, <1>4, <1>6 DEF listVars, Used
<1>13. Visited(p, to, {})
  BY <1>6, <1>7, <1>8, <1>9, <1>10, <1>11, <1>12 DEF Visited, Rewritten
<1> QED
  BY <1>13

(* An object in the tenured region stays.                                  *)
LEMMA VisitTenuredEffect ==
  ASSUME HeapInv, InYoung, work # << >>, NEW p, p = Target(Head(work)), VisitTenured(Head(work))
  PROVE  \E new : Visited(p, p, new)
<1>1. /\ heap \in Heaps /\ root \in [Roots -> Refs] /\ cur_grad_from \in {0, 1}
      /\ tenure_frontier \in 0 .. config["tenure"] /\ config["tenure"] \in Nat
      /\ \A q \in Used(Tenure) : q[2] <= tenure_frontier
  BY CollectorAssumption DEF HeapInv, Typed, Regions
<1>2. /\ p \in Used(Places) /\ p \in Places /\ heap[p] # Null /\ heap[p] \in Object
      /\ heap[p].newer = Null
      /\ Head(work) \in Entries /\ Tail(work) \in Seq(Entries)
      /\ \A q \in Places, s \in Slots : Head(work) = <<"element", q, s>> => heap[q] # Null
  BY VisitFacts
<1>3. PICK x : x = [heap[p] EXCEPT !.is_marked = TRUE]
  OBVIOUS
<1>4. PICK h : h = [heap EXCEPT ![p] = x]
  OBVIOUS
<1>5. /\ p \in Tenure /\ ~heap[p].is_marked /\ Rewrite(Head(work), p, h)
      /\ work' = Elements(p, heap[p]) \o Tail(work)
      /\ UNCHANGED <<config, remember_set, tenure_frontier, resources, nallocated, listVars, phase, agenda, promoted>>
  <2>1. [heap EXCEPT ![p].is_marked = TRUE] = h
    BY <1>3, <1>4
  <2> QED
    BY <2>1 DEF VisitTenured
<1>6. /\ x \in Object /\ x # Null /\ x.object = heap[p].object /\ x.newer = heap[p].newer
      /\ x.native = heap[p].native /\ x.forward = heap[p].forward /\ x.is_marked
      /\ x.slots = heap[p].slots
  BY <1>2, <1>3, NullAssumption DEF Object
<1>7. h \in Heaps /\ \A q \in Places : h[q] = IF q = p THEN x ELSE heap[q]
  BY <1>1, <1>4, <1>6 DEF Heaps
<1>8. \A q \in Places : h[q] # Null <=> heap[q] # Null
  BY <1>2, <1>6, <1>7
<1>9. Rewritten(Head(work), p, h)
  <2>1. p \in Refs
    BY <1>2 DEF Refs
  <2>2. \A q \in Places, s \in Slots : Head(work) = <<"element", q, s>> => h[q] # Null
    BY <1>2, <1>8
  <2> QED
    BY <1>1, <1>2, <1>5, <1>7, <2>1, <2>2, RewriteEffect
<1>10. PICK new : new = {<<"element", p, s>> : s \in {s \in Slots : heap[p].slots[s] # Null}}
  OBVIOUS
<1>11. work' \in Seq(Entries) /\ Items(work') = Items(Tail(work)) \cup new
  <2>1. PICK first : first = Elements(p, heap[p])
    OBVIOUS
  <2>2. PICK rest : rest = Tail(work)
    OBVIOUS
  <2>3. first \in Seq(Entries) /\ Items(first) = new
    BY <1>2, <1>10, <2>1, ListFacts
  <2>4. rest \in Seq(Entries) /\ work' = first \o rest
    BY <1>2, <1>5, <2>1, <2>2
  <2>5. work' \in Seq(Entries) /\ Items(first \o rest) = Items(first) \cup Items(rest)
    BY <2>3, <2>4, ItemsOfBoth
  <2> QED
    BY <2>2, <2>3, <2>4, <2>5
<1>12. heap[p].forward = Null /\ p \in To
  <2>1. p \in To
    BY <1>1, <1>5, SpacesAreApart
  <2> QED
    BY <1>2, <2>1, BlackStays DEF Used
<1>13. \A q \in Used(Places) :
         /\ heap'[q].object = heap[q].object /\ heap'[q].newer = heap[q].newer
         /\ heap'[q].native = heap[q].native /\ heap'[q].forward = heap[q].forward
         /\ heap'[q].is_marked <=> heap[q].is_marked \/ q = p
         /\ \A s \in Slots : heap'[q].slots[s] = IF Head(work) = <<"element", q, s>> THEN p
                                                 ELSE heap[q].slots[s]
  <2> SUFFICES ASSUME NEW q \in Used(Places)
               PROVE  /\ heap'[q].object = heap[q].object /\ heap'[q].newer = heap[q].newer
                      /\ heap'[q].native = heap[q].native /\ heap'[q].forward = heap[q].forward
                      /\ heap'[q].is_marked <=> heap[q].is_marked \/ q = p
                      /\ \A s \in Slots : heap'[q].slots[s] = IF Head(work) = <<"element", q, s>> THEN p
                                                              ELSE heap[q].slots[s]
    OBVIOUS
  <2>1. q \in Places /\ heap[q] # Null /\ h[q] # Null
    BY <1>8 DEF Used
  <2>2. /\ heap'[q].object = h[q].object /\ heap'[q].newer = h[q].newer
        /\ heap'[q].native = h[q].native /\ heap'[q].forward = h[q].forward
        /\ heap'[q].is_marked = h[q].is_marked
        /\ \A s \in Slots : heap'[q].slots[s] = IF Head(work) = <<"element", q, s>> THEN p
                                                ELSE h[q].slots[s]
    BY <1>9, <2>1 DEF Rewritten
  <2>3. CASE q = p
    <3>1. h[q] = x
      BY <1>7, <2>1, <2>3
    <3> QED
      BY <1>6, <2>2, <2>3, <3>1
  <2>4. CASE q # p
    <3>1. h[q] = heap[q]
      BY <1>7, <2>1, <2>4
    <3> QED
      BY <2>2, <2>4, <3>1
  <2> QED
    BY <2>3, <2>4
<1>14. Stays(p, p, new)
  BY <1>2, <1>10, <1>12, <1>13 DEF Stays, Copied
<1>15. heap'[p].is_marked /\ heap'[p].newer = Null /\ heap'[p].forward = Null
  BY <1>2, <1>12, <1>13
<1>16. \A q \in Places : heap'[q] # Null <=> heap[q] # Null \/ q = p
  BY <1>2, <1>8, <1>9 DEF Rewritten
<1>17. /\ graduate_new_list' = graduate_new_list \cup ({p} \cap ToHalf)
       /\ promoted' \subseteq promoted \cup ({p} \cap Tenure)
       /\ remember_set \subseteq remember_set'
       /\ remember_set' \subseteq remember_set \cup ({p} \cap Tenure)
       /\ tenure_frontier' \in 0 .. config["tenure"] /\ tenure_frontier <= tenure_frontier'
       /\ p \in Tenure => p[2] <= tenure_frontier'
       /\ UNCHANGED <<config, resources, nallocated, cur_grad_from, graduate_list, phase, agenda>>
  <2>1. p \notin ToHalf
    BY <1>1, <1>5, SpacesAreApart
  <2> QED
    BY <1>1, <1>2, <1>5, <2>1 DEF listVars, Used
<1>18. Visited(p, p, new)
  <2>1. /\ heap' \in Heaps /\ root' \in [Roots -> Refs]
        /\ \A v \in Roots : root'[v] = IF Head(work) = <<"root", v>> THEN p ELSE root[v]
    BY <1>9 DEF Rewritten
  <2> QED
    BY <1>11, <1>12, <1>13, <1>14, <1>15, <1>16, <1>17, <2>1 DEF Visited
<1> QED
  BY <1>18

(* A young object moves.                                                   *)
LEMMA EvacuateEffect ==
  ASSUME HeapInv, InYoung, work # << >>, NEW p, p = Target(Head(work)), Evacuate(Head(work))
  PROVE  \E to, new : Visited(p, to, new)
<1>1. /\ heap \in Heaps /\ root \in [Roots -> Refs] /\ cur_grad_from \in {0, 1} /\ config \in Configs
      /\ tenure_frontier \in 0 .. config["tenure"] /\ config["tenure"] \in Nat
      /\ Forwarding /\ Typed
  BY CollectorAssumption DEF HeapInv, Typed, Regions
<1>2. /\ p \in Used(Places) /\ p \in Places /\ heap[p] # Null /\ heap[p] \in Object
      /\ heap[p].newer = Null
      /\ Head(work) \in Entries /\ Tail(work) \in Seq(Entries)
      /\ \A q \in Places, s \in Slots : Head(work) = <<"element", q, s>> => q \in Black /\ heap[q] # Null
  BY VisitFacts
<1>3. PICK to : to = FirstFree(Destinations(p))
  OBVIOUS
<1>4. PICK copy : copy = Copy(p, to)
  OBVIOUS
<1>5. PICK left : left = Left(p, to)
  OBVIOUS
<1>6. PICK h : h = [heap EXCEPT ![to] = copy, ![p] = left]
  OBVIOUS
<1>7. /\ p \in Young /\ ~heap[p].is_marked /\ Free(Destinations(p)) # {}
      /\ Rewrite(Head(work), to, h)
      /\ work' = Elements(to, copy) \o Tail(work)
      /\ tenure_frontier' = FrontierWith(to)
      /\ graduate_new_list' = graduate_new_list \cup ({to} \cap ToHalf)
      /\ promoted' = IF Promotes(p) THEN promoted \cup {to} ELSE promoted
      /\ remember_set' = IF to \in Tenure /\ ~Promotes(p) /\ PointsToYoung(heap[p])
                         THEN remember_set \cup {to} ELSE remember_set
      /\ UNCHANGED <<config, resources, nallocated, cur_grad_from, graduate_list, phase, agenda>>
  BY <1>3, <1>4, <1>5, <1>6 DEF Evacuate
<1>8. /\ Destinations(p) \in {ToHalf, Tenure}
      /\ Promotes(p) => Destinations(p) = Tenure
  BY DEF Destinations
<1>9. /\ to \in Destinations(p) /\ to \in Places /\ heap[to] = Null /\ to[2] <= config[to[1]]
  <2>1. ToHalf \in {Half[0], Half[1]}
    BY <1>1 DEF ToHalf
  <2>2. Destinations(p) \in {Nursery, Half[0], Half[1], Tenure}
    BY <1>8, <2>1
  <2> QED
    BY <1>1, <1>3, <1>7, <2>2, FirstFreeFacts
<1>10. /\ to \in To /\ to # p /\ to \in Refs /\ to # Null /\ to \in Places
       /\ Promotes(p) => to \in Tenure
  BY <1>1, <1>2, <1>8, <1>9, SpacesAreApart DEF Refs
<1>11. p \in From /\ heap[p].forward = Null
  <2>1. p \in From \/ p \in ToHalf
    BY <1>1, <1>7, SpacesAreApart
  <2>2. p \notin ToHalf
    BY <1>1, <1>2, <1>7 DEF Forwarding, Used, Marked
  <2>3. heap[p].forward = Null
    BY <1>1, <1>2, <1>7 DEF Forwarding
  <2> QED
    BY <2>1, <2>2, <2>3
<1>12. CountAfter(p, to) \in 0 .. PromotionThreshold
  <2>1. heap[p].promotion_count \in 0 .. PromotionThreshold /\ PromotionThreshold \in Nat
    BY <1>2, CollectorAssumption DEF Object
  <2>2. PICK c : c = heap[p].promotion_count
    OBVIOUS
  <2>3. CountAfter(p, to) = IF to \in Tenure THEN 0 ELSE IF c < PromotionThreshold THEN c + 1 ELSE c
    BY <2>2 DEF CountAfter
  <2> QED
    BY <2>1, <2>2, <2>3
<1>13. /\ copy \in Object /\ copy # Null /\ copy.object = heap[p].object /\ copy.newer = Null
       /\ copy.native = heap[p].native /\ copy.forward = Null /\ copy.is_marked
       /\ copy.slots = heap[p].slots
  <2>1. PICK o : o = heap[p]
    OBVIOUS
  <2>2. PICK n : n = CountAfter(p, to)
    OBVIOUS
  <2>3. copy = [o EXCEPT !.promotion_count = n, !.is_marked = TRUE, !.forward = Null]
    BY <1>4, <2>1, <2>2 DEF Copy
  <2>4. o \in Object /\ o.newer = Null /\ n \in 0 .. PromotionThreshold /\ to \in Refs
    BY <1>2, <1>10, <1>12, <2>1, <2>2
  <2>5. copy \in Object
    BY <2>3, <2>4 DEF Object, Refs
  <2>6. /\ copy.object = o.object /\ copy.newer = o.newer /\ copy.native = o.native
        /\ copy.forward = Null /\ copy.is_marked /\ copy.slots = o.slots
    BY <2>3, <2>4 DEF Object
  <2>7. copy # Null
    BY <2>5, NullAssumption
  <2> QED
    BY <2>1, <2>4, <2>5, <2>6, <2>7
<1>14. /\ left \in Object /\ left # Null /\ left.object = heap[p].object /\ left.newer = heap[p].newer
       /\ left.native = FALSE /\ left.forward = to /\ left.is_marked
       /\ left.slots = heap[p].slots
  <2>1. PICK o : o = heap[p]
    OBVIOUS
  <2>2. left = [o EXCEPT !.is_marked = TRUE, !.forward = to, !.native = FALSE]
    BY <1>5, <2>1 DEF Left
  <2>3. o \in Object /\ to \in Refs
    BY <1>2, <1>10, <2>1
  <2>4. left \in Object
    BY <2>2, <2>3 DEF Object
  <2>5. /\ left.object = o.object /\ left.newer = o.newer /\ left.native = FALSE
        /\ left.forward = to /\ left.is_marked /\ left.slots = o.slots
    BY <2>2, <2>3 DEF Object
  <2>6. left # Null
    BY <2>4, NullAssumption
  <2> QED
    BY <2>1, <2>4, <2>5, <2>6
<1>15. h \in Heaps /\ \A q \in Places : h[q] = IF q = p THEN left ELSE IF q = to THEN copy ELSE heap[q]
  BY <1>1, <1>2, <1>6, <1>9, <1>13, <1>14 DEF Heaps
<1>16. \A q \in Places : h[q] # Null <=> heap[q] # Null \/ q = to
  BY <1>2, <1>13, <1>14, <1>15
<1>17. Rewritten(Head(work), to, h)
  <2>1. \A q \in Places, s \in Slots : Head(work) = <<"element", q, s>> => h[q] # Null
    BY <1>2, <1>16
  <2> QED
    BY <1>1, <1>2, <1>7, <1>10, <1>15, <2>1, RewriteEffect
<1>18. PICK new : new = {<<"element", to, s>> : s \in {s \in Slots : heap[p].slots[s] # Null}}
  OBVIOUS
<1>19. work' \in Seq(Entries) /\ Items(work') = Items(Tail(work)) \cup new
  <2>1. PICK first : first = Elements(to, copy)
    OBVIOUS
  <2>2. PICK rest : rest = Tail(work)
    OBVIOUS
  <2>3. first \in Seq(Entries) /\ Items(first) = new
    <3>1. /\ first \in Seq(Entries)
          /\ Items(first) = {<<"element", to, s>> : s \in {s \in Slots : copy.slots[s] # Null}}
      BY <1>10, <2>1, ListFacts
    <3> QED
      BY <1>13, <1>18, <3>1
  <2>4. rest \in Seq(Entries) /\ work' = first \o rest
    BY <1>2, <1>7, <2>1, <2>2
  <2>5. work' \in Seq(Entries) /\ Items(first \o rest) = Items(first) \cup Items(rest)
    BY <2>3, <2>4, ItemsOfBoth
  <2> QED
    BY <2>2, <2>3, <2>4, <2>5
<1>20. ASSUME NEW q \in Used(Places)
       PROVE  /\ heap'[q].object = heap[q].object /\ heap'[q].newer = heap[q].newer
              /\ heap'[q].is_marked <=> heap[q].is_marked \/ q = p
              /\ q # p => heap'[q].native = heap[q].native /\ heap'[q].forward = heap[q].forward
              /\ q = p => heap'[q].native = FALSE /\ heap'[q].forward = to
              /\ \A s \in Slots : heap'[q].slots[s] = IF Head(work) = <<"element", q, s>> THEN to
                                                      ELSE heap[q].slots[s]
  <2>1. q \in Places /\ heap[q] # Null /\ h[q] # Null /\ q # to
    BY <1>9, <1>16 DEF Used
  <2>2. /\ heap'[q].object = h[q].object /\ heap'[q].newer = h[q].newer
        /\ heap'[q].native = h[q].native /\ heap'[q].forward = h[q].forward
        /\ heap'[q].is_marked = h[q].is_marked
        /\ \A s \in Slots : heap'[q].slots[s] = IF Head(work) = <<"element", q, s>> THEN to
                                                ELSE h[q].slots[s]
    BY <1>17, <2>1 DEF Rewritten
  <2>3. CASE q = p
    <3>1. h[q] = left
      BY <1>15, <2>1, <2>3
    <3> QED
      BY <1>14, <2>2, <2>3, <3>1
  <2>4. CASE q # p
    <3>1. h[q] = heap[q]
      BY <1>15, <2>1, <2>4
    <3> QED
      BY <2>2, <2>4, <3>1
  <2> QED
    BY <2>3, <2>4
<1>21. /\ heap'[to].is_marked /\ heap'[to].newer = Null /\ heap'[to].forward = Null
       /\ heap'[to].object = heap[p].object /\ heap'[to].native = heap[p].native
       /\ heap'[to].slots = heap[p].slots
  <2>1. h[to] = copy /\ h[to] # Null
    BY <1>10, <1>13, <1>15
  <2>2. /\ heap'[to].object = h[to].object /\ heap'[to].newer = h[to].newer
        /\ heap'[to].native = h[to].native /\ heap'[to].forward = h[to].forward
        /\ heap'[to].is_marked = h[to].is_marked
        /\ \A s \in Slots : heap'[to].slots[s] = IF Head(work) = <<"element", to, s>> THEN to
                                                 ELSE h[to].slots[s]
    BY <1>10, <1>17, <2>1 DEF Rewritten
  <2>3. \A s \in Slots : Head(work) # <<"element", to, s>>
    BY <1>2, <1>9
  <2>4. heap'[to].slots = heap[p].slots
    <3>1. heap'[to] # Null /\ heap' \in Heaps
      BY <1>10, <1>17, <2>1 DEF Rewritten
    <3>2. heap'[to].slots \in [Slots -> Refs] /\ heap[p].slots \in [Slots -> Refs]
      BY <1>2, <1>10, <3>1 DEF Heaps, Object
    <3>3. \A s \in Slots : heap'[to].slots[s] = heap[p].slots[s]
      BY <1>13, <2>1, <2>2, <2>3
    <3> QED
      BY <3>2, <3>3
  <2> QED
    BY <1>13, <2>1, <2>2, <2>4
<1>22. Moves(p, to, new)
  BY <1>2, <1>9, <1>11, <1>18, <1>20, <1>21 DEF Moves
<1>23. \A q \in Places : heap'[q] # Null <=> heap[q] # Null \/ q = to
  BY <1>16, <1>17 DEF Rewritten
<1>24. /\ tenure_frontier' \in 0 .. config["tenure"] /\ tenure_frontier <= tenure_frontier'
       /\ to \in Tenure => to[2] <= tenure_frontier'
  BY <1>1, <1>7, <1>9, FrontierFacts
<1>25. /\ promoted' \subseteq promoted \cup ({to} \cap Tenure)
       /\ remember_set \subseteq remember_set'
       /\ remember_set' \subseteq remember_set \cup ({to} \cap Tenure)
  BY <1>7, <1>10
<1>26. Visited(p, to, new)
  <2>1. /\ heap' \in Heaps /\ root' \in [Roots -> Refs]
        /\ \A v \in Roots : root'[v] = IF Head(work) = <<"root", v>> THEN to ELSE root[v]
    BY <1>17 DEF Rewritten
  <2> QED
    BY <1>7, <1>10, <1>19, <1>20, <1>21, <1>22, <1>23, <1>24, <1>25, <2>1 DEF Visited
<1> QED
  BY <1>26

(* Every visit keeps the invariant, unseen by the program.                 *)
LEMMA VisitYoungStep ==
  ASSUME IInv, VisitYoung
  PROVE  IInv' /\ AbstractNext
<1>1. HeapInv /\ InYoung /\ work # << >>
  BY DEF IInv, VisitYoung
<1>2. PICK p : p = Target(Head(work))
  OBVIOUS
<1>3. VisitMarked(Head(work)) \/ VisitTenured(Head(work)) \/ Evacuate(Head(work))
  BY DEF VisitYoung
<1>4. \E to, new : Visited(p, to, new)
  BY <1>1, <1>2, <1>3, VisitMarkedEffect, VisitTenuredEffect, EvacuateEffect
<1> QED
  BY <1>1, <1>2, <1>4, VisitedIsUnseen

(* A visit marks one more object, or leaves less work.                     *)
LEMMA VisitYoungEnds ==
  ASSUME IInv, VisitYoung
  PROVE  VisitEnds
<1>1. HeapInv /\ InYoung /\ work # << >>
  BY DEF IInv, VisitYoung
<1>2. PICK p : p = Target(Head(work))
  OBVIOUS
<1>3. p \in Used(Places) /\ Len(Tail(work)) < Len(work)
  BY <1>1, <1>2, VisitFacts
<1>4. CASE VisitMarked(Head(work))
  <2>1. PICK to : Visited(p, to, {})
    BY <1>1, <1>2, <1>4, VisitMarkedEffect
  <2>2. work' = Tail(work) /\ heap[p].is_marked
    BY <1>2, <1>4 DEF VisitMarked
  <2>3. Marked' = Marked
    <3>1. Marked' = Marked \cup {p, to} /\ Used(Places)' = Used(Places) \cup {to}
      BY <1>1, <1>3, <2>1, VisitedTyped
    <3>2. to \in Black \/ to = p
      <4>1. ~Moves(p, to, {})
        <5>1. heap[p].forward # Null \/ p \notin From
          BY <1>1, <1>3, <2>2 DEF HeapInv, Forwarding, Used
        <5> QED
          BY <5>1 DEF Moves
      <4> QED
        BY <2>1, <4>1 DEF Visited, Stays
    <3> QED
      BY <1>3, <2>2, <3>1, <3>2 DEF Marked, Black
  <2> QED
    BY <1>3, <2>2, <2>3 DEF VisitEnds
<1>5. CASE VisitTenured(Head(work)) \/ Evacuate(Head(work))
  <2>1. ~heap[p].is_marked
    BY <1>2, <1>5 DEF VisitTenured, Evacuate
  <2>2. PICK to : \E new : Visited(p, to, new)
    BY <1>1, <1>2, <1>5, VisitTenuredEffect, EvacuateEffect
  <2>3. PICK new : Visited(p, to, new)
    BY <2>2
  <2>4. Marked' = Marked \cup {p, to}
    BY <1>1, <1>3, <2>3, VisitedTyped
  <2> QED
    BY <2>1, <2>4 DEF VisitEnds, Marked
<1> QED
  BY <1>4, <1>5 DEF VisitYoung

-----------------------------------------------------------------------------
(* The theorems.                                                           *)

(* The initial states satisfy the invariant, and map to that of            *)
(* ManagedHeap.                                                            *)
LEMMA InitFacts == Init => IInv /\ ManagedHeap!Init
<1> SUFFICES ASSUME Init PROVE IInv /\ ManagedHeap!Init
  OBVIOUS
<1>1. /\ \A p \in Places : heap[p] = Null
      /\ \A v \in Roots : root[v] = Null
      /\ heap \in Heaps /\ root \in [Roots -> Refs]
  BY DEF Init, Heaps, Refs
<1>2. \A region \in SUBSET Places : Used(region) = {}
  BY <1>1 DEF Used
<1>3. /\ Tenure \subseteq Places /\ Half[cur_grad_from] \subseteq Places /\ ToHalf \subseteq Places
      /\ cur_grad_from = 0
  BY PlacesAreApart DEF Init, ToHalf
<1>4. Ranked(heap)
  <2>1. [p \in Places |-> 0] \in [Places -> 0 .. 0] /\ 0 \in Nat
    OBVIOUS
  <2>2. \A p \in Places : IsLast(heap, p)
    BY <1>1 DEF IsLast
  <2> QED
    BY <2>1, <2>2 DEF Ranked
<1>5. Typed /\ ~InYoung
  <2>1. config["tenure"] \in Nat
    BY CollectorAssumption DEF Init, Regions
  <2>2. << >> \in Seq(Entries)
    OBVIOUS
  <2> QED
    BY <1>1, <1>2, <1>3, <2>1, <2>2 DEF Init, Typed, Phases, InYoung
<1>6. Sound
  <2>1. Traced({})
    BY <1>1, <1>5 DEF Traced, Init
  <2> QED
    BY <2>1 DEF Sound
<1>7. HeapInv
  BY <1>2, <1>4, <1>5, <1>6 DEF HeapInv, NativesDiffer, AgendaIsClean, NoneForwarded, Init
<1>8. LivePlaces = {}
  <2>1. /\ \A v \in Roots : root[v] # Null => Newest[root[v]] \in {}
        /\ \A p \in {} \cap Used(Places), s \in Slots :
             heap[p].slots[s] # Null => Newest[heap[p].slots[s]] \in {}
    BY <1>1
  <2> QED
    BY <1>4, <1>5, <2>1, LiveFacts
<1>9. Names
  BY <1>8 DEF Names, Homes
<1>10. LiveElements = {} /\ \A v \in Roots : Name(root[v]) = Null
  BY <1>1, <1>8 DEF LiveElements, Name
<1>11. ManagedHeap!Init
  BY <1>10 DEF ManagedHeap!Init, Init
<1> QED
  BY <1>7, <1>9, <1>11 DEF IInv

(* So does a step in which nothing happens.                                *)
LEMMA StutterStep ==
  ASSUME IInv, UNCHANGED vars
  PROVE  IInv' /\ AbstractNext
<1>1. UNCHANGED <<config, root, heap, remember_set, tenure_frontier, resources, nallocated,
                  cur_grad_from, graduate_list, graduate_new_list, phase, agenda, work, promoted>>
  BY DEF vars, mutatorVars, listVars, gcVars
<1>2. /\ UNCHANGED <<Newest, LivePlaces, ToHalf>> /\ InYoung' = InYoung
      /\ \A region : Used(region)' = Used(region)
      /\ \A ref : Name(ref)' = Name(ref)
  BY <1>1 DEF Newest, InYoung, ToHalf, Used, LivePlaces, NewestOf, References, Name
<1>3. /\ Marked' = Marked /\ Black' = Black /\ From' = From
      /\ \A ref : Home(ref)' = Home(ref)
      /\ Homes' = Homes
  BY <1>1, <1>2 DEF Marked, Black, From, To, Home, Copied, Homes
<1>4. Typed'
  BY <1>1, <1>2 DEF IInv, HeapInv, Typed
<1>5. Sound'
  <2>1. PICK G \in SUBSET Used(Places) : Traced(G)
    BY DEF IInv, HeapInv, Sound
  <2>2. Traced(G)'
    BY <1>1, <1>2, <1>3, <2>1 DEF Traced
  <2> QED
    BY <1>2, <2>1, <2>2 DEF Sound
<1>6. Ranked(heap') /\ NativesDiffer' /\ AgendaIsClean' /\ NoneForwarded'
  BY <1>1, <1>2 DEF IInv, HeapInv, NativesDiffer, AgendaIsClean, NoneForwarded
<1>7. InYoung => Forwarding' /\ TriColor' /\ WorkIsGood'
  <2> SUFFICES ASSUME InYoung PROVE Forwarding' /\ TriColor' /\ WorkIsGood'
    OBVIOUS
  <2>1. Forwarding /\ TriColor /\ WorkIsGood
    BY DEF IInv, HeapInv
  <2>2. Forwarding'
    BY <1>1, <1>2, <1>3, <2>1 DEF Forwarding
  <2>3. TriColor'
    BY <1>1, <1>2, <1>3, <2>1 DEF TriColor, Items
  <2>4. WorkIsGood'
    BY <1>1, <1>2, <1>3, <2>1 DEF WorkIsGood, Items
  <2> QED
    BY <2>2, <2>3, <2>4
<1>8. HeapInv'
  BY <1>2, <1>4, <1>5, <1>6, <1>7 DEF HeapInv
<1>9. Names'
  BY <1>1, <1>3 DEF IInv, Names
<1>10. LiveElements' = LiveElements /\ Seen' = Seen
  BY <1>1, <1>2 DEF LiveElements, Seen
<1> QED
  BY <1>1, <1>8, <1>9, <1>10 DEF IInv, AbstractNext, ManagedHeap!vars, Seen

(* Every step keeps the invariant, and maps to a step of ManagedHeap or to *)
(* none.                                                                   *)
LEMMA Steps ==
  ASSUME IInv, [Next]_vars
  PROVE  IInv' /\ AbstractNext
<1>1. CASE Mutator
  <2>1. CASE \E v \in Roots : \E ref \in {Null} : Assign(v, ref)
    BY <2>1, AssignNullStep
  <2>2. CASE \E v \in Roots : \E o \in FreshNames : \E region \in {Nursery, Tenure} : New(v, o, region)
    BY <2>2, NewStep
  <2>3. CASE \E v \in Roots : \E u \in Roots : \E s \in Slots : Load(v, u, s)
    BY <2>3, LoadStep
  <2>4. CASE \E v \in Roots : \E s \in Slots : \E ref \in {Null} \cup {root[u] : u \in Roots} : Store(v, s, ref)
    <3>1. PICK v \in Roots : \E s \in Slots : \E ref \in {Null} \cup {root[u] : u \in Roots} : Store(v, s, ref)
      BY <2>4
    <3>2. PICK s \in Slots : \E ref \in {Null} \cup {root[u] : u \in Roots} : Store(v, s, ref)
      BY <3>1
    <3>3. PICK ref : StoredRef(ref) /\ Store(v, s, ref)
      BY <3>2 DEF StoredRef
    <3> QED
      BY <3>3, StoreStep
  <2>5. CASE \E v \in Roots : \E region \in {Nursery, Tenure} : Expand(v, region)
    BY <2>5, ExpandStep
  <2> QED
    BY <1>1, <2>1, <2>2, <2>3, <2>4, <2>5 DEF Mutator
<1>2. CASE Collect
  BY <1>2, StartYoungStep, VisitYoungStep, StartRememberedStep, FinishYoungStep, OldStep, CompactStep
     DEF Collect
<1>3. CASE UNCHANGED vars
  BY <1>3, StutterStep
<1> QED
  BY <1>1, <1>2, <1>3 DEF Next

(* The collector's regions, lists, marks, forwarding pointers and          *)
(* worklists agree with each other and with what the program can reach,    *)
(* whatever collections, allocations, expansions and stores happen in      *)
(* whatever order.                                                         *)
THEOREM Invariance == Spec => []IInv
<1>1. IInv /\ [Next]_vars => IInv'
  BY Steps
<1> QED
  BY <1>1, InitFacts, PTL DEF Spec

(* The types follow.                                                       *)
LEMMA IInvTypes == IInv => TypeOK
<1> SUFFICES ASSUME IInv PROVE TypeOK
  OBVIOUS
<1>1. Typed /\ heap \in Heaps
  BY DEF IInv, HeapInv, Typed
<1>2. agenda \in Seq(Collections)
  <2>1. agenda \in {<< >>, <<"compact", "young">>, <<"young">>}
    BY DEF IInv, HeapInv, AgendaIsClean
  <2>2. "compact" \in Collections /\ "young" \in Collections
    BY DEF Collections
  <2>3. CASE agenda = << >>
    BY <2>3
  <2>4. CASE agenda = <<"young">>
    BY <2>2, <2>4
  <2>5. CASE agenda = <<"compact", "young">>
    BY <2>2, <2>5
  <2> QED
    BY <2>1, <2>3, <2>4, <2>5
<1>3. \A i \in DOMAIN work : SlotAddress(work[i])
  <2> SUFFICES ASSUME NEW i \in DOMAIN work PROVE SlotAddress(work[i])
    OBVIOUS
  <2>1. PICK slot : slot = work[i]
    OBVIOUS
  <2>2. slot \in Entries
    BY <1>1, <2>1 DEF Typed
  <2>3. SlotAddress(slot)
    BY <2>2 DEF Entries, SlotAddress
  <2> QED
    BY <2>1, <2>3
<1>4. \A p \in Places : heap[p] \in Object \cup {Null}
  BY <1>1 DEF Heaps
<1> QED
  BY <1>1, <1>2, <1>3, <1>4 DEF TypeOK, Typed

(* The types of Collector: the collector's lists hold objects of the right *)
(* regions and its worklists are empty while the program runs.             *)
THEOREM TypeCorrect == Spec => []TypeOK
BY Invariance, IInvTypes, PTL

(* Collector implements ManagedHeap: no allocation, expansion, young or    *)
(* old collection or compaction changes what the program sees, at any      *)
(* moment of it, and a finalizer runs only for a handle that nobody can    *)
(* reach, once.                                                            *)
THEOREM Refinement == Spec => ImplementsManagedHeap
<1>1. IInv /\ [Next]_vars => AbstractNext
  BY Steps
<1>2. Init => ManagedHeap!Init
  BY InitFacts
<1>3. AbstractNext <=> [ManagedHeap!Next]_(ManagedHeap!vars)
  BY DEF AbstractNext
<1> QED
  BY <1>1, <1>2, <1>3, Invariance, PTL DEF Spec, ImplementsManagedHeap, ManagedHeap!Spec

(* What the invariant says while the program runs.                         *)
LEMMA IInvCopies == IInv => OneLiveCopy /\ RememberedAreSound /\ HandleKeepsItsResource
<1> SUFFICES ASSUME IInv, phase = "mutator"
             PROVE  OneLiveCopy /\ RememberedAreSound /\ HandleKeepsItsResource
  BY DEF OneLiveCopy, RememberedAreSound, HandleKeepsItsResource
<1>1. HeapInv /\ Names /\ NativesDiffer /\ heap \in Heaps
  BY DEF IInv, HeapInv, Typed
<1>2. Homes = LivePlaces
  BY <1>1, IdleFacts DEF IdleHomes
<1>3. /\ LivePlaces \subseteq Used(Places)
      /\ \A p \in LivePlaces : Newest[p] = p
  BY <1>1, LiveRefs
<1>4. PICK G \in SUBSET Used(Places) : Traced(G)
  BY <1>1 DEF HeapInv, Sound
<1>5. ASSUME NEW p \in Used(Places), Newest[p] = p PROVE Name(p) = heap[p].object
  <2>1. p # Null /\ heap[p] # Null
    BY NullAssumption DEF Used
  <2> QED
    BY <1>5, <2>1 DEF Name
<1>6. OneLiveCopy
  BY <1>1, <1>2, <1>3, <1>5 DEF OneLiveCopy, Names
<1>7. RememberedAreSound
  <2>1. ASSUME NEW p \in remember_set
        PROVE  /\ Newest[p] \in G /\ heap[Newest[p]] # Null
    BY <1>4 DEF Traced, Used
  <2>2. ASSUME NEW q \in G, NEW s \in Slots, heap[q].slots[s] # Null
        PROVE  Name(heap[q].slots[s]) # "lost"
    <3>1. PICK r : r = heap[q].slots[s]
      OBVIOUS
    <3>2. r # Null /\ Newest[r] \in Used(Places)
      BY <1>4, <2>2, <3>1 DEF Traced
    <3>3. heap[Newest[r]] # Null /\ heap[Newest[r]].object \in Objects
      BY <1>1, <3>2, FieldTypes DEF Used
    <3>4. Name(r) = heap[Newest[r]].object
      BY <3>2, <3>3 DEF Name
    <3> QED
      BY <3>1, <3>3, <3>4, NullAssumption
  <2> QED
    BY <2>1, <2>2 DEF RememberedAreSound
<1>8. HandleKeepsItsResource
  <2> SUFFICES ASSUME NEW o \in Handles \cap LiveNames,
                      NEW p \in Used(Places), heap[p].object = o
               PROVE  heap[p].native <=> p \in LivePlaces
    BY DEF HandleKeepsItsResource
  <2>1. NamesAreOfHomes
    BY <1>1, NamesFacts
  <2>2. PICK q \in Homes : heap[q].object = o
    BY <2>1 DEF NamesAreOfHomes
  <2>3. q \in Used(Places) /\ heap[q].native
    BY <1>1, <1>2, <1>3, <2>2 DEF Names
  <2>4. heap[p].native => p = q
    BY <1>1, <2>2, <2>3 DEF NativesDiffer
  <2>5. p \in LivePlaces => heap[p].native
    BY <1>1, <1>2 DEF Names
  <2> QED
    BY <1>2, <2>2, <2>4, <2>5
<1> QED
  BY <1>6, <1>7, <1>8

(* While the program runs, all references to an object lead to one place:  *)
(* nothing is evacuated twice.                                             *)
THEOREM CopiesAreSingle == Spec => []OneLiveCopy
BY Invariance, IInvCopies, PTL

(* What the members of the remember set refer to is there, also when the   *)
(* program cannot reach the member any more.                               *)
THEOREM RememberedStaySound == Spec => []RememberedAreSound
BY Invariance, IInvCopies, PTL

(* A reachable handle has its native resource in the copy that the program *)
(* sees, and in no other.                                                  *)
THEOREM HandlesKeepResources == Spec => []HandleKeepsItsResource
BY Invariance, IInvCopies, PTL

(* Each visit of a young collection marks one more object or leaves less   *)
(* work, so that the traversal ends, cycles or not.                        *)
THEOREM TraversalsEnd == Spec => TraversalEnds
<1>1. IInv /\ [Next]_vars => [InYoung /\ phase' = phase => VisitEnds]_vars
  <2> SUFFICES ASSUME IInv, Next, InYoung, phase' = phase PROVE VisitEnds
    OBVIOUS
  <2>1. VisitYoung
    <3>1. phase \in {"young_roots", "young_remembered"}
      BY DEF InYoung
    <3>2. ~Mutator
      BY <3>1 DEF Mutator, Assign, New, Load, Store, Expand, Mutating
    <3>3. ~StartYoung /\ ~OldCollection /\ ~Compact
      BY <3>1 DEF StartYoung, OldCollection, Compact, Due
    <3>4. ~StartRemembered /\ ~FinishYoung
      BY <3>1 DEF StartRemembered, FinishYoung
    <3> QED
      BY <3>2, <3>3, <3>4 DEF Next, Collect
  <2> QED
    BY <2>1, VisitYoungEnds
<1>2. TraversalEnds <=> [][InYoung /\ phase' = phase => VisitEnds]_vars
  BY DEF TraversalEnds
<1> QED
  BY <1>1, <1>2, Invariance, PTL DEF Spec

=============================================================================
