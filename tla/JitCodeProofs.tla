---------------------------- MODULE JitCodeProofs ----------------------------
(***************************************************************************)
(* Proofs about JitCode.tla: what its runs check for a few functions and   *)
(* slabs of two pages holds for any functions, code lengths, slab and page *)
(* sizes, and any number of slabs.                                         *)
(*                                                                         *)
(* The inductive invariant says what jit_slab_acquire, jit_slab_finish and *)
(* jit_commit keep between them: a slab consists of pages up to committed, *)
(* which are executable, whole functions up to current, and free cells, of *)
(* which the function under construction has the first ones.               *)
(***************************************************************************)

EXTENDS JitCode, TLAPS

Slab == [current : 0 .. SlabSize, committed : 0 .. SlabSize,
         cells : [Cells -> Funcs \cup {None}],
         exec : SUBSET {Page(i) : i \in Cells}]

-----------------------------------------------------------------------------
(* The inductive invariant.                                                *)

(* A function that is being built is not registered yet, and has a slab to *)
(* emit code into.                                                         *)
BuildFollowsPhase ==
  /\ phase \in {"acquire", "emit", "failed_build"} => building \in Funcs \ func_list
  /\ phase = "emit" => slab_current # 0
  /\ phase = "commit" => cursor # 0

(* What was emitted so far lies between current and code.                  *)
EmittedSoFar ==
  phase = "emit" =>
    /\ slabs[slab_current].current <= code
    /\ Generated <= CodeLength[building]
    /\ \A i \in slabs[slab_current].current .. code - 1 :
         slabs[slab_current].cells[i] = building

(* The executable pages of a slab are those below committed, which no      *)
(* function reaches that is yet to come.                                   *)
CommittedIsExecutable ==
  \A s \in DOMAIN slabs :
    /\ slabs[s].committed <= slabs[s].current
    /\ \A i \in Cells : Page(i) \in slabs[s].exec <=> i < slabs[s].committed

(* An entry belongs to a registered function and to code below current.    *)
EntriesAreBuilt ==
  \A f \in Funcs : jit_code[f] # None =>
    /\ f \in func_list
    /\ jit_code[f].slab \in DOMAIN slabs
    /\ jit_code[f].at + CodeLength[f] <= slabs[jit_code[f].slab].current
    /\ \A i \in CodeOf(f) : slabs[jit_code[f].slab].cells[i] = f

(* What a commit has gone past, or when nothing is dirty, is committed.    *)
CommitsAreComplete ==
  \A s \in DOMAIN slabs :
    ~is_jit_dirty \/ (phase = "commit" /\ s < cursor) => slabs[s].committed = slabs[s].current

IInv ==
  /\ TypeOK
  /\ BuildFollowsPhase
  /\ EmittedSoFar
  /\ CommittedIsExecutable
  /\ EntriesAreBuilt
  /\ CommitsAreComplete

-----------------------------------------------------------------------------
(* Pages.                                                                  *)

LEMMA SlabSizeIsNat == SlabSize \in Nat \ {0} /\ \E q \in Nat : SlabSize = q * PageSize
<1> DEFINE n == IF CodeSize < PageSize THEN PageSize ELSE CodeSize
           d == (n + PageSize - 1) \div PageSize
<1>1. n \in Nat \ {0}
  BY JitCodeAssumption
<1>2. d \in Nat /\ n + PageSize - 1 < d * PageSize + PageSize
  BY <1>1, JitCodeAssumption
<1>3. d * PageSize \in Nat /\ d * PageSize > 0
  <2> HIDE DEF d, n
  <2> QED
    BY <1>1, <1>2, JitCodeAssumption
<1> QED
  BY <1>2, <1>3 DEF SlabSize, AlignUp

LEMMA PageOfCell ==
  ASSUME NEW i \in Nat
  PROVE  Page(i) \in Nat /\ Page(i) * PageSize <= i /\ i < Page(i) * PageSize + PageSize
BY JitCodeAssumption DEF Page

(* A cell is below a page's first cell when its page is below that page.   *)
LEMMA PageBelow ==
  ASSUME NEW i \in Nat, NEW q \in Nat
  PROVE  Page(i) < q <=> i < q * PageSize
<1>1. Page(i) \in Nat /\ Page(i) * PageSize <= i /\ i < Page(i) * PageSize + PageSize
  BY PageOfCell
<1>2. CASE Page(i) < q
  <2>1. Page(i) * PageSize + PageSize <= q * PageSize
    BY <1>1, <1>2, JitCodeAssumption
  <2> QED
    BY <1>1, <1>2, <2>1, JitCodeAssumption
<1>3. CASE q <= Page(i)
  <2>1. q * PageSize <= Page(i) * PageSize
    BY <1>1, <1>3, JitCodeAssumption
  <2> QED
    BY <1>1, <1>3, <2>1, JitCodeAssumption
<1> QED
  BY <1>1, <1>2, <1>3

(* AlignUp is the least multiple of the page size that is no smaller.      *)
LEMMA AlignUpIsLeast ==
  ASSUME NEW n \in Nat
  PROVE  /\ AlignUp(n) \in Nat /\ n <= AlignUp(n)
         /\ \E q \in Nat : AlignUp(n) = q * PageSize
         /\ \A q \in Nat : n <= q * PageSize => AlignUp(n) <= q * PageSize
<1> DEFINE d == (n + PageSize - 1) \div PageSize
<1>1. /\ d \in Nat /\ d * PageSize <= n + PageSize - 1
      /\ n + PageSize - 1 < d * PageSize + PageSize
  BY JitCodeAssumption
<1>2. AlignUp(n) = d * PageSize
  BY DEF AlignUp
<1>3. d * PageSize \in Nat /\ n <= d * PageSize
  <2> HIDE DEF d
  <2> QED
    BY <1>1, JitCodeAssumption
<1>4. ASSUME NEW q \in Nat, n <= q * PageSize PROVE d <= q
  <2> HIDE DEF d
  <2>1. CASE q + 1 <= d
    <3>1. q * PageSize + PageSize <= d * PageSize
      BY <1>1, <2>1, JitCodeAssumption
    <3>2. q * PageSize \in Int /\ d * PageSize \in Int
      BY <1>1, JitCodeAssumption
    <3> QED
      BY <1>1, <1>4, <3>1, <3>2, JitCodeAssumption
  <2> QED
    BY <1>1, <2>1
<1>5. ASSUME NEW q \in Nat, d <= q PROVE d * PageSize <= q * PageSize
  <2> HIDE DEF d
  <2> QED
    BY <1>1, <1>5, JitCodeAssumption
<1> HIDE DEF d
<1> QED
  BY <1>1, <1>2, <1>3, <1>4, <1>5

-----------------------------------------------------------------------------
(* Updates of the list of slabs.                                           *)

LEMMA TypeSlabs == TypeOK => slabs \in Seq(Slab)
BY DEF TypeOK, Slab

LEMMA SlabIsTyped ==
  ASSUME TypeOK, NEW s \in DOMAIN slabs
  PROVE  /\ slabs[s] \in Slab
         /\ slabs[s].current \in 0 .. SlabSize /\ slabs[s].committed \in 0 .. SlabSize
         /\ slabs[s].cells \in [Cells -> Funcs \cup {None}]
<1>1. slabs[s] \in Slab
  BY TypeSlabs
<1> QED
  BY <1>1 DEF Slab

LEMMA EntryIsTyped ==
  ASSUME TypeOK, NEW f \in Funcs, jit_code[f] # None
  PROVE  /\ jit_code[f].slab \in Nat /\ jit_code[f].at \in 0 .. SlabSize - 1
         /\ CodeLength[f] \in Nat \ {0} /\ SlabSize \in Nat \ {0}
BY JitCodeAssumption, SlabSizeIsNat DEF TypeOK, Cells

(* One slab is changed.                                                    *)
LEMMA SlabChanged ==
  ASSUME TypeOK, NEW s \in DOMAIN slabs, NEW r \in Slab, slabs' = [slabs EXCEPT ![s] = r]
  PROVE  /\ slabs' \in Seq(Slab)
         /\ DOMAIN slabs' = DOMAIN slabs /\ Len(slabs') = Len(slabs)
         /\ slabs'[s] = r
         /\ \A u \in DOMAIN slabs \ {s} : slabs'[u] = slabs[u]
BY TypeSlabs

(* A cell is written.                                                      *)
LEMMA EmitIInv == ASSUME IInv, Emit PROVE IInv'
<1> DEFINE s == slab_current
           r == [slabs[s] EXCEPT !.cells = [slabs[s].cells EXCEPT ![code] = building]]
<1>1. /\ phase = "emit" /\ s \in DOMAIN slabs /\ building \in Funcs \ func_list
      /\ code \in Cells /\ code + 1 \in 0 .. SlabSize
      /\ code - slabs[s].current < CodeLength[building] /\ slabs[s].current <= code
  BY SlabSizeIsNat DEF IInv, TypeOK, Emit, BuildFollowsPhase, EmittedSoFar, Generated, Cells
<1>2. /\ slabs' = [slabs EXCEPT ![s] = r] /\ code' = code + 1
      /\ UNCHANGED <<slab_current, jit_code, func_list, is_jit_dirty, phase, building,
                     attempt, cursor>>
  BY DEF Emit
<1>3. /\ r \in Slab /\ r.current = slabs[s].current /\ r.committed = slabs[s].committed
      /\ r.exec = slabs[s].exec /\ r.cells[code] = building
      /\ \A i \in Cells \ {code} : r.cells[i] = slabs[s].cells[i]
  BY <1>1, SlabIsTyped DEF IInv, Slab
<1> HIDE DEF r
<1>4. /\ slabs' \in Seq(Slab) /\ DOMAIN slabs' = DOMAIN slabs /\ Len(slabs') = Len(slabs)
      /\ slabs'[s] = r /\ \A u \in DOMAIN slabs \ {s} : slabs'[u] = slabs[u]
  BY <1>1, <1>2, <1>3, SlabChanged DEF IInv
<1>5. \A u \in DOMAIN slabs : /\ slabs'[u].current = slabs[u].current
                              /\ slabs'[u].committed = slabs[u].committed
                              /\ slabs'[u].exec = slabs[u].exec
  BY <1>3, <1>4
<1>6. TypeOK'
  BY <1>1, <1>2, <1>4 DEF IInv, TypeOK, Slab
<1>7. BuildFollowsPhase'
  BY <1>2 DEF IInv, BuildFollowsPhase
<1>8. EmittedSoFar'
  <2>1. slabs[s].current \in Nat /\ code \in Nat /\ slabs[s].current..code - 1 \subseteq Cells
    BY <1>1, SlabIsTyped, SlabSizeIsNat DEF IInv, Cells
  <2>2. \A i \in slabs[s].current .. code - 1 : i # code /\ i \in Cells /\ slabs[s].cells[i] = building
    BY <1>1, <2>1 DEF IInv, EmittedSoFar
  <2>3. \A i \in slabs[s].current .. code' - 1 : slabs'[s].cells[i] = building
    BY <1>2, <1>3, <1>4, <2>1, <2>2
  <2>4. CodeLength[building] \in Nat
    BY <1>1, JitCodeAssumption
  <2> QED
    BY <1>1, <1>2, <1>5, <2>1, <2>3, <2>4 DEF EmittedSoFar, Generated
<1>9. CommittedIsExecutable'
  BY <1>4, <1>5 DEF IInv, CommittedIsExecutable
<1>10. EntriesAreBuilt'
  <2> SUFFICES ASSUME NEW f \in Funcs, jit_code[f] # None
               PROVE  /\ jit_code[f].slab \in DOMAIN slabs'
                      /\ jit_code[f].at + CodeLength[f] <= slabs'[jit_code[f].slab].current
                      /\ \A i \in CodeOf(f) : slabs'[jit_code[f].slab].cells[i] = f
    BY <1>2 DEF IInv, EntriesAreBuilt, CodeOf
  <2> DEFINE b == jit_code[f].slab
  <2>1. /\ b \in DOMAIN slabs /\ jit_code[f].at + CodeLength[f] <= slabs[b].current
        /\ \A i \in CodeOf(f) : slabs[b].cells[i] = f
    BY DEF IInv, EntriesAreBuilt
  <2>2. jit_code[f].at \in Nat /\ CodeLength[f] \in Nat /\ slabs[b].current \in 0..SlabSize
    BY <2>1, SlabIsTyped, EntryIsTyped DEF IInv
  <2>3. \A i \in CodeOf(f) : i \in Cells /\ i < slabs[b].current
    BY <2>1, <2>2, SlabSizeIsNat DEF CodeOf, Cells
  <2>4. CASE b = s
    BY <1>1, <1>3, <1>4, <1>5, <2>1, <2>2, <2>3, <2>4 DEF Cells
  <2>5. CASE b # s
    BY <1>4, <2>1, <2>5
  <2> QED
    BY <1>4, <1>5, <2>1, <2>4, <2>5
<1>11. CommitsAreComplete'
  BY <1>2, <1>4, <1>5 DEF IInv, CommitsAreComplete
<1> QED
  BY <1>6, <1>7, <1>8, <1>9, <1>10, <1>11 DEF IInv

(* A function is complete: jit_slab_finish.                                *)
LEMMA BuildSucceedsIInv == ASSUME IInv, BuildSucceeds PROVE IInv'
<1> DEFINE s == slab_current
           r == [slabs[s] EXCEPT !.current = code]
           e == [slab |-> s, at |-> slabs[s].current]
<1>1. /\ phase = "emit" /\ s \in DOMAIN slabs /\ building \in Funcs \ func_list
      /\ code - slabs[s].current = CodeLength[building]
      /\ slabs[s].current <= code
      /\ \A i \in slabs[s].current .. code - 1 : slabs[s].cells[i] = building
  BY DEF IInv, TypeOK, BuildSucceeds, BuildFollowsPhase, EmittedSoFar, Generated
<1>2. /\ slabs' = [slabs EXCEPT ![s] = r] /\ jit_code' = [jit_code EXCEPT ![building] = e]
      /\ is_jit_dirty' = TRUE /\ func_list' = func_list \cup {building} /\ building' = None
      /\ phase' = "registering" /\ UNCHANGED <<slab_current, code, attempt, cursor>>
  BY DEF BuildSucceeds, Finish, Link
<1>3. /\ slabs[s].current \in 0 .. SlabSize /\ code \in 0 .. SlabSize
      /\ slabs[s].committed \in 0 .. SlabSize /\ CodeLength[building] \in Nat \ {0}
      /\ SlabSize \in Nat
  BY <1>1, SlabIsTyped, JitCodeAssumption, SlabSizeIsNat DEF IInv, TypeOK
<1>4. /\ r \in Slab /\ r.current = code /\ r.committed = slabs[s].committed
      /\ r.exec = slabs[s].exec /\ r.cells = slabs[s].cells
  BY <1>1, <1>3, SlabIsTyped DEF IInv, Slab
<1> HIDE DEF r
<1>5. /\ slabs' \in Seq(Slab) /\ DOMAIN slabs' = DOMAIN slabs /\ Len(slabs') = Len(slabs)
      /\ slabs'[s] = r /\ \A u \in DOMAIN slabs \ {s} : slabs'[u] = slabs[u]
  BY <1>1, <1>2, <1>4, SlabChanged DEF IInv
<1>6. \A u \in DOMAIN slabs : /\ slabs[u].current <= slabs'[u].current
                              /\ slabs'[u].committed = slabs[u].committed
                              /\ slabs'[u].exec = slabs[u].exec
                              /\ slabs'[u].cells = slabs[u].cells
                              /\ slabs'[u].current \in Int /\ slabs[u].current \in Int
                              /\ slabs[u].committed \in Int
  BY <1>1, <1>3, <1>4, <1>5, SlabIsTyped DEF IInv
<1>7. e.slab = s /\ e.at = slabs[s].current /\ e \in [slab : Nat, at : Cells]
  <2>1. s \in Nat /\ slabs[s].current \in Cells
    BY SMTT(30), <1>1, <1>3 DEF IInv, TypeOK, Cells
  <2> QED
    BY <2>1
<1> HIDE DEF e
<1>8. /\ jit_code'[building] = e
      /\ \A f \in Funcs \ {building} : jit_code'[f] = jit_code[f]
  BY <1>1, <1>2 DEF IInv, TypeOK
<1>9. TypeOK'
  <2>1. jit_code' \in [Funcs -> [slab : Nat, at : Cells] \cup {None}]
    BY <1>2, <1>7 DEF IInv, TypeOK
  <2> QED
    BY <1>1, <1>2, <1>5, <2>1 DEF IInv, TypeOK, Slab, Phases
<1>10. BuildFollowsPhase' /\ EmittedSoFar'
  BY <1>2 DEF BuildFollowsPhase, EmittedSoFar
<1>11. CommittedIsExecutable'
  BY <1>5, <1>6 DEF IInv, CommittedIsExecutable
<1>12. EntriesAreBuilt'
  <2> SUFFICES ASSUME NEW f \in Funcs, jit_code'[f] # None
               PROVE  /\ f \in func_list'
                      /\ jit_code'[f].slab \in DOMAIN slabs'
                      /\ jit_code'[f].at + CodeLength[f] <= slabs'[jit_code'[f].slab].current
                      /\ \A i \in CodeOf(f)' : slabs'[jit_code'[f].slab].cells[i] = f
    BY DEF EntriesAreBuilt
  <2>1. CASE f = building
    <3>1. \A i \in CodeOf(f)' : i \in slabs[s].current .. code - 1
      BY <1>1, <1>3, <1>7, <1>8, <2>1 DEF CodeOf
    <3> QED
      BY <1>1, <1>2, <1>3, <1>4, <1>5, <1>7, <1>8, <2>1, <3>1
  <2>2. CASE f # building
    <3>1. /\ jit_code'[f] = jit_code[f] /\ f \in func_list
          /\ jit_code[f].slab \in DOMAIN slabs
          /\ jit_code[f].at + CodeLength[f] <= slabs[jit_code[f].slab].current
          /\ \A i \in CodeOf(f) : slabs[jit_code[f].slab].cells[i] = f
      BY <1>8, <2>2 DEF IInv, EntriesAreBuilt
    <3>2. jit_code[f].at \in Nat /\ CodeLength[f] \in Nat
      BY <1>8, <2>2, JitCodeAssumption DEF IInv, TypeOK, Cells
    <3>3. CodeOf(f)' = CodeOf(f)
      BY <3>1 DEF CodeOf
    <3> QED
      BY <1>2, <1>5, <1>6, <3>1, <3>2, <3>3
  <2> QED
    BY <2>1, <2>2
<1>13. CommitsAreComplete'
  BY <1>2 DEF CommitsAreComplete
<1> QED
  BY <1>9, <1>10, <1>11, <1>12, <1>13 DEF IInv

(* jit_slab_acquire maps a slab, or takes the one in use.                  *)
LEMMA AcquireIInv == ASSUME IInv, Acquire PROVE IInv'
<1>1. /\ phase = "acquire" /\ building \in Funcs \ func_list
      /\ UNCHANGED <<jit_code, func_list, is_jit_dirty, building, attempt, cursor>>
  BY DEF IInv, Acquire, BuildFollowsPhase
<1>2. CodeLength[building] \in Nat \ {0} /\ SlabSize \in Nat \ {0}
  BY <1>1, JitCodeAssumption, SlabSizeIsNat
<1>3. CASE /\ slabs' = Append(slabs, NewSlab) /\ slab_current' = Len(slabs')
           /\ phase' = "emit" /\ code' = 0
  <2> DEFINE n == Len(slabs) + 1
  <2>1. /\ NewSlab \in Slab /\ NewSlab.current = 0 /\ NewSlab.committed = 0
        /\ NewSlab.exec = {}
    BY <1>2 DEF NewSlab, Slab
  <2>2. slabs \in Seq(Slab) /\ Len(slabs) \in Nat
    BY TypeSlabs DEF IInv
  <2>3. /\ slabs' \in Seq(Slab) /\ Len(slabs') = n /\ slabs'[n] = NewSlab
        /\ n \in DOMAIN slabs' /\ n \in Nat \ {0} /\ slab_current' = n
        /\ \A u \in DOMAIN slabs : u \in DOMAIN slabs' /\ slabs'[u] = slabs[u]
        /\ \A u \in DOMAIN slabs' : u = n \/ u \in DOMAIN slabs
    BY <1>3, <2>1, <2>2
  <2> HIDE DEF n
  <2>4. TypeOK'
    BY <1>1, <1>2, <1>3, <2>3 DEF IInv, TypeOK, Slab, Phases
  <2>5. BuildFollowsPhase'
    BY <1>1, <1>3, <2>3 DEF BuildFollowsPhase
  <2>6. EmittedSoFar'
    BY <1>1, <1>2, <1>3, <2>1, <2>3 DEF EmittedSoFar, Generated
  <2>7. CommittedIsExecutable'
    BY <2>1, <2>3 DEF IInv, CommittedIsExecutable, Cells
  <2>8. EntriesAreBuilt'
    BY <1>1, <2>3 DEF IInv, EntriesAreBuilt, CodeOf
  <2>9. CommitsAreComplete'
    BY <1>1, <1>3, <2>1, <2>3 DEF IInv, CommitsAreComplete
  <2> QED
    BY <2>4, <2>5, <2>6, <2>7, <2>8, <2>9 DEF IInv
<1>4. CASE /\ slab_current # 0 => slabs[slab_current].current >= SlabSize
           /\ phase' = "failed_build"
           /\ UNCHANGED <<slabs, slab_current, code>>
  BY <1>1, <1>4 DEF IInv, TypeOK, Phases, BuildFollowsPhase, EmittedSoFar, CommittedIsExecutable,
                    EntriesAreBuilt, CommitsAreComplete, CodeOf
<1>5. CASE /\ slab_current # 0 /\ phase' = "emit" /\ code' = slabs[slab_current].current
           /\ UNCHANGED <<slabs, slab_current>>
  <2>1. slab_current \in DOMAIN slabs /\ slabs[slab_current].current \in 0 .. SlabSize
    BY <1>5, SlabIsTyped DEF IInv, TypeOK
  <2>2. TypeOK'
    BY <1>1, <1>5, <2>1 DEF IInv, TypeOK, Phases
  <2>3. BuildFollowsPhase'
    BY <1>1, <1>5 DEF BuildFollowsPhase
  <2>4. EmittedSoFar'
    BY <1>1, <1>2, <1>5, <2>1 DEF EmittedSoFar, Generated
  <2>5. CommittedIsExecutable' /\ EntriesAreBuilt' /\ CommitsAreComplete'
    BY <1>1, <1>5 DEF IInv, CommittedIsExecutable, EntriesAreBuilt, CommitsAreComplete, CodeOf
  <2> QED
    BY <2>2, <2>3, <2>4, <2>5 DEF IInv
<1> QED
  BY <1>3, <1>4, <1>5 DEF Acquire, slabVars

(* jit_commit makes the new pages of one slab executable.                  *)
LEMMA CommitSlabCommits ==
  ASSUME TypeOK, CommittedIsExecutable, NEW s \in DOMAIN slabs
  PROVE  LET r == CommitSlab(slabs[s]) IN
         /\ r \in Slab /\ r.committed = r.current /\ r.cells = slabs[s].cells
         /\ slabs[s].current <= r.current /\ r.current \in Nat
         /\ \A i \in Cells : Page(i) \in r.exec <=> i < r.committed
         /\ slabs[s].exec \subseteq r.exec
<1> DEFINE x == slabs[s]
           r == CommitSlab(x)
           end == AlignUp(x.current)
           new == {Page(i) : i \in x.committed .. end - 1}
<1>1. /\ x \in Slab /\ x.current \in 0 .. SlabSize /\ x.committed \in 0 .. SlabSize
      /\ x.committed <= x.current
      /\ \A i \in Cells : Page(i) \in x.exec <=> i < x.committed
      /\ SlabSize \in Nat
  BY SlabIsTyped, SlabSizeIsNat DEF CommittedIsExecutable
<1>2. PICK q \in Nat : end = q * PageSize
  BY <1>1, AlignUpIsLeast
<1>3. end \in Nat /\ x.current <= end /\ end <= SlabSize
  BY <1>1, SlabSizeIsNat, AlignUpIsLeast
<1>4. /\ r = [x EXCEPT !.exec = x.exec \cup new, !.committed = end, !.current = end]
  BY DEF CommitSlab
<1>5. x.committed .. end - 1 \subseteq Cells
  BY <1>1, <1>3 DEF Cells
<1>6. new \subseteq {Page(i) : i \in Cells}
  BY <1>5
<1> HIDE DEF end, new, x, r
<1>7. /\ r \in Slab /\ r.current = end /\ r.committed = end /\ r.cells = x.cells
      /\ r.exec = x.exec \cup new
  <2> DEFINE pages == {Page(i) : i \in Cells}
  <2>1. /\ x \in [current : 0 .. SlabSize, committed : 0 .. SlabSize,
                  cells : [Cells -> Funcs \cup {None}], exec : SUBSET pages]
        /\ end \in 0 .. SlabSize /\ new \subseteq pages
    BY <1>1, <1>3, <1>6 DEF Slab
  <2>2. r.exec = x.exec \cup new /\ r.current = end /\ r.committed = end /\ r.cells = x.cells
    BY <1>4, <2>1
  <2> HIDE DEF pages
  <2>3. r \in [current : 0 .. SlabSize, committed : 0 .. SlabSize,
              cells : [Cells -> Funcs \cup {None}], exec : SUBSET pages]
    BY <1>4, <2>1
  <2> QED
    BY <2>2, <2>3 DEF Slab, pages
<1>8. ASSUME NEW i \in Cells PROVE Page(i) \in r.exec <=> i < r.committed
  <2>0. i \in Nat
    BY <1>1 DEF Cells
  <2>1. CASE Page(i) \in x.exec
    BY <1>1, <1>3, <1>7, <2>0, <2>1
  <2>2. CASE Page(i) \notin x.exec
    <3>1. Page(i) \in new <=> i < end
      <4>1. ASSUME i < end PROVE Page(i) \in new
        BY <1>1, <1>3, <2>0, <2>2, <4>1 DEF new
      <4>2. ASSUME Page(i) \in new PROVE i < end
        <5>1. PICK j \in x.committed .. end - 1 : Page(i) = Page(j)
          BY <4>2 DEF new
        <5>2. j \in Nat /\ j < q * PageSize
          BY <1>1, <1>2, <1>3, <5>1
        <5> QED
          BY <1>2, <2>0, <5>1, <5>2, PageBelow
      <4> QED
        BY <4>1, <4>2
    <3> QED
      BY <1>7, <2>2, <3>1
  <2> QED
    BY <2>1, <2>2
<1> QED
  BY <1>1, <1>3, <1>7, <1>8 DEF x, r

LEMMA CommitNextIInv == ASSUME IInv, CommitNext PROVE IInv'
<1>1. /\ phase = "commit" /\ cursor \in DOMAIN slabs /\ cursor' = cursor + 1
      /\ UNCHANGED <<slab_current, jit_code, func_list, is_jit_dirty, phase, building, code,
                     attempt>>
  BY TypeSlabs DEF IInv, TypeOK, CommitNext, BuildFollowsPhase, buildVars
<1>2. /\ cursor \in Nat /\ cursor + 1 \in Nat /\ DOMAIN slabs \subseteq Nat
      /\ \A s \in DOMAIN slabs : s < cursor' => s < cursor \/ s = cursor
  BY <1>1, TypeSlabs DEF IInv, TypeOK
<1>3. CASE ~NeedsCommit(cursor)
  <2>1. slabs' = slabs /\ slabs[cursor].committed = slabs[cursor].current
    BY <1>1, <1>3, SlabIsTyped DEF IInv, CommitNext, NeedsCommit, CommittedIsExecutable
  <2>2. CommitsAreComplete'
    BY <1>1, <1>2, <2>1 DEF IInv, CommitsAreComplete
  <2>3. TypeOK'
    BY <1>1, <1>2, <2>1 DEF IInv, TypeOK
  <2> QED
    BY <1>1, <1>2, <2>1, <2>2, <2>3
    DEF IInv, BuildFollowsPhase, EmittedSoFar, CommittedIsExecutable, EntriesAreBuilt, CodeOf
<1>4. CASE NeedsCommit(cursor)
  <2> DEFINE r == CommitSlab(slabs[cursor])
  <2>1. slabs' = [slabs EXCEPT ![cursor] = r]
    BY <1>4 DEF CommitNext
  <2>2. /\ r \in Slab /\ r.committed = r.current /\ r.cells = slabs[cursor].cells
        /\ slabs[cursor].current <= r.current /\ r.current \in Nat
        /\ \A i \in Cells : Page(i) \in r.exec <=> i < r.committed
    BY <1>1, CommitSlabCommits DEF IInv
  <2> HIDE DEF r
  <2>3. /\ slabs' \in Seq(Slab) /\ DOMAIN slabs' = DOMAIN slabs /\ Len(slabs') = Len(slabs)
        /\ slabs'[cursor] = r /\ \A u \in DOMAIN slabs \ {cursor} : slabs'[u] = slabs[u]
    BY <1>1, <2>1, <2>2, SlabChanged DEF IInv
  <2>4. \A u \in DOMAIN slabs : /\ slabs'[u].cells = slabs[u].cells
                                /\ slabs[u].current <= slabs'[u].current
                                /\ slabs[u].current \in Int /\ slabs'[u].current \in Int
    BY <1>1, <2>2, <2>3, SlabIsTyped DEF IInv
  <2>5. TypeOK'
    BY <1>1, <1>2, <2>3 DEF IInv, TypeOK, Slab
  <2>6. BuildFollowsPhase' /\ EmittedSoFar'
    BY <1>1, <1>2 DEF IInv, BuildFollowsPhase, EmittedSoFar
  <2>7. CommittedIsExecutable'
    BY <2>2, <2>3 DEF IInv, CommittedIsExecutable
  <2>8. EntriesAreBuilt'
    <3> SUFFICES ASSUME NEW f \in Funcs, jit_code[f] # None
                 PROVE  /\ jit_code[f].slab \in DOMAIN slabs'
                        /\ jit_code[f].at + CodeLength[f] <= slabs'[jit_code[f].slab].current
                        /\ \A i \in CodeOf(f) : slabs'[jit_code[f].slab].cells[i] = f
      BY <1>1 DEF IInv, EntriesAreBuilt, CodeOf
    <3>1. /\ jit_code[f].slab \in DOMAIN slabs
          /\ jit_code[f].at + CodeLength[f] <= slabs[jit_code[f].slab].current
          /\ \A i \in CodeOf(f) : slabs[jit_code[f].slab].cells[i] = f
          /\ jit_code[f].at + CodeLength[f] \in Int
      BY EntryIsTyped DEF IInv, EntriesAreBuilt
    <3> QED
      BY <2>3, <2>4, <3>1
  <2>9. CommitsAreComplete'
    BY <1>1, <1>2, <2>2, <2>3 DEF IInv, CommitsAreComplete
  <2> QED
    BY <2>5, <2>6, <2>7, <2>8, <2>9 DEF IInv
<1> QED
  BY <1>3, <1>4

(* Protection fails, and all native code is dropped.                       *)
LEMMA CommitFailsIInv == ASSUME IInv, CommitFails PROVE IInv'
<1>1. /\ phase' = "idle" /\ slabs' = <<>> /\ slab_current' = 0 /\ is_jit_dirty' = FALSE
      /\ jit_code' = [f \in Funcs |-> IF f \in func_list THEN None ELSE jit_code[f]]
      /\ UNCHANGED <<func_list, building, code, attempt, cursor>>
  BY DEF CommitFails, Goto, Invalidates, buildVars
<1>2. \A f \in Funcs : jit_code'[f] = None
  BY <1>1 DEF IInv, EntriesAreBuilt
<1>3. TypeOK'
  <2>1. slabs' \in Seq(Slab) /\ Len(slabs') = 0
    BY <1>1
  <2>2. jit_code' \in [Funcs -> [slab : Nat, at : Cells] \cup {None}]
    BY <1>1, <1>2
  <2>3. slab_current' \in 0 .. Len(slabs')
    BY <1>1, <2>1
  <2>4. /\ phase' \in Phases /\ is_jit_dirty' \in BOOLEAN
        /\ UNCHANGED <<func_list, building, code, attempt, cursor>>
    BY <1>1 DEF Phases
  <2> QED
    BY <2>1, <2>2, <2>3, <2>4 DEF IInv, TypeOK, Slab
<1>4. DOMAIN slabs' = {}
  BY <1>1
<1> QED
  BY <1>1, <1>2, <1>3, <1>4
  DEF IInv, BuildFollowsPhase, EmittedSoFar, CommittedIsExecutable, EntriesAreBuilt,
      CommitsAreComplete

(* The steps that leave the slabs alone.                                   *)
LEMMA SlabsKept ==
  ASSUME IInv,
         BeginUnit \/ RegisterLir \/ FailUnit \/ Overflow \/ FailBuild \/ BuildFails
           \/ Commit \/ CommitDone \/ UNCHANGED vars
  PROVE  IInv'
<1>1. slabs' = slabs
  BY DEF BeginUnit, RegisterLir, FailUnit, Overflow, FailBuild, BuildFails, Commit, CommitDone,
         slabVars, vars
<1>2. CommittedIsExecutable'
  BY <1>1 DEF IInv, CommittedIsExecutable
<1>3. TypeOK'
  <2>1. /\ slab_current' \in {slab_current, 0}
        /\ func_list' \subseteq func_list \cup {building} /\ is_jit_dirty' \in BOOLEAN
        /\ phase' \in Phases
        /\ building' \in Funcs \cup {building, None}
        /\ code' = code /\ attempt' \in {0, 1} /\ cursor' \in {cursor, 1}
    BY DEF IInv, TypeOK, BeginUnit, RegisterLir, FailUnit, Overflow, FailBuild, BuildFails,
           Commit, CommitDone, slabVars, buildVars, vars, Goto, Link, Abandoned, Phases
  <2>2. building \in Funcs \/ func_list' = func_list
    BY DEF IInv, BeginUnit, RegisterLir, FailUnit, Overflow, FailBuild, BuildFails, Commit,
           CommitDone, slabVars, buildVars, vars, BuildFollowsPhase
  <2>3. jit_code' = jit_code \/ jit_code' = [jit_code EXCEPT ![building] = None]
    BY DEF BeginUnit, RegisterLir, FailUnit, Overflow, FailBuild, BuildFails, Commit,
           CommitDone, vars
  <2>4. jit_code' \in [Funcs -> [slab : Nat, at : Cells] \cup {None}]
    BY <2>3 DEF IInv, TypeOK
  <2>5. Len(slabs) \in Nat
    BY TypeSlabs DEF IInv
  <2> QED
    BY <1>1, <2>1, <2>2, <2>4, <2>5 DEF IInv, TypeOK
<1>4. BuildFollowsPhase'
  BY DEF IInv, BeginUnit, RegisterLir, FailUnit, Overflow, FailBuild, BuildFails, Commit,
         CommitDone, slabVars, buildVars, vars, Goto, Link, BuildFollowsPhase
<1>5. EmittedSoFar'
  BY <1>1 DEF IInv, BeginUnit, RegisterLir, FailUnit, Overflow, FailBuild, BuildFails, Commit,
         CommitDone, slabVars, buildVars, vars, Goto, Link, EmittedSoFar, Generated
<1>6. EntriesAreBuilt'
  <2> SUFFICES ASSUME NEW f \in Funcs, jit_code'[f] # None
               PROVE  /\ f \in func_list' /\ jit_code'[f] = jit_code[f]
                      /\ CodeOf(f)' = CodeOf(f)
    BY <1>1 DEF IInv, EntriesAreBuilt
  <2>1. /\ func_list \subseteq func_list'
        /\ jit_code' = jit_code \/ jit_code' = [jit_code EXCEPT ![building] = None]
    BY DEF BeginUnit, RegisterLir, FailUnit, Overflow, FailBuild, BuildFails, Commit,
           CommitDone, Link, vars
  <2>2. jit_code'[f] = jit_code[f]
    BY <2>1 DEF IInv, TypeOK
  <2>3. f \in func_list
    BY <2>2 DEF IInv, EntriesAreBuilt
  <2> QED
    BY <2>1, <2>2, <2>3 DEF CodeOf
<1>7. CommitsAreComplete'
  <2>1. CASE CommitDone
    <3>1. \A s \in DOMAIN slabs : s < cursor
      BY <2>1, TypeSlabs DEF IInv, TypeOK, CommitDone
    <3> QED
      BY <1>1, <2>1, <3>1 DEF IInv, CommitsAreComplete, CommitDone, Goto
  <2>2. CASE Commit
    <3>1. phase' = "commit" => cursor' = 1
      BY <2>2 DEF Commit
    <3>2. \A s \in DOMAIN slabs : ~(s < 1)
      BY TypeSlabs DEF IInv
    <3> QED
      BY <1>1, <2>2, <3>1, <3>2 DEF IInv, CommitsAreComplete, Commit
  <2>3. CASE UNCHANGED vars
    BY <2>3 DEF IInv, CommitsAreComplete, vars
  <2>4. CASE BeginUnit \/ RegisterLir \/ FailUnit \/ Overflow \/ FailBuild \/ BuildFails
    <3>1. phase' # "commit" /\ is_jit_dirty' = is_jit_dirty
      BY <2>4 DEF BeginUnit, RegisterLir, FailUnit, Overflow, FailBuild, BuildFails, Goto, Link
    <3> QED
      BY <1>1, <3>1 DEF IInv, CommitsAreComplete
  <2> QED
    BY <2>1, <2>2, <2>3, <2>4
<1> QED
  BY <1>2, <1>3, <1>4, <1>5, <1>6, <1>7 DEF IInv

LEMMA InitIInv == Init => IInv
<1> SUFFICES ASSUME Init PROVE IInv
  OBVIOUS
<1>1. TypeOK
  <2>1. slabs \in Seq(Slab) /\ Len(slabs) = 0
    BY DEF Init
  <2>2. slab_current \in 0 .. Len(slabs) /\ code \in 0 .. SlabSize
    BY <2>1, SlabSizeIsNat DEF Init
  <2>3. jit_code \in [Funcs -> [slab : Nat, at : Cells] \cup {None}]
    BY DEF Init
  <2>4. /\ func_list \subseteq Funcs /\ is_jit_dirty \in BOOLEAN /\ phase \in Phases
        /\ building \in Funcs \cup {None} /\ attempt \in {0, 1} /\ cursor \in Nat
    BY DEF Init, Phases
  <2> QED
    BY <2>1, <2>2, <2>3, <2>4 DEF TypeOK, Slab
<1>2. DOMAIN slabs = {} /\ \A f \in Funcs : jit_code[f] = None
  BY DEF Init
<1> QED
  BY <1>1, <1>2 DEF Init, IInv, BuildFollowsPhase, EmittedSoFar, CommittedIsExecutable,
                    EntriesAreBuilt, CommitsAreComplete

LEMMA NextIInv == IInv /\ [Next]_vars => IInv'
BY AcquireIInv, EmitIInv, BuildSucceedsIInv, CommitNextIInv, CommitFailsIInv, SlabsKept DEF Next

(* Every reachable state of jit_slab_acquire, jit_build and jit_commit      *)
(* satisfies the inductive invariant.                                      *)
THEOREM Invariance == Spec => []IInv
BY InitIInv, NextIInv, PTL DEF Spec

-----------------------------------------------------------------------------
(* The properties.                                                         *)

(* Every variable has its type.                                            *)
THEOREM TypeCorrect == Spec => []TypeOK
BY Invariance, PTL DEF IInv

LEMMA CodeIsBelowCurrent ==
  ASSUME IInv, NEW f \in Funcs, jit_code[f] # None, NEW i \in CodeOf(f)
  PROVE  /\ i \in Cells /\ i < slabs[jit_code[f].slab].current
         /\ jit_code[f].slab \in DOMAIN slabs
         /\ slabs[jit_code[f].slab].cells[i] = f
<1>1. /\ jit_code[f].slab \in DOMAIN slabs
      /\ jit_code[f].at + CodeLength[f] <= slabs[jit_code[f].slab].current
      /\ slabs[jit_code[f].slab].cells[i] = f
  BY DEF IInv, EntriesAreBuilt
<1>2. slabs[jit_code[f].slab].current \in 0 .. SlabSize
  BY <1>1, SlabIsTyped DEF IInv
<1> QED
  BY <1>1, <1>2, EntryIsTyped DEF IInv, CodeOf, Cells

(* A pointer to native code leads to the whole code of its function.       *)
THEOREM EntriesStayWhole == Spec => []EntriesAreWhole
<1>1. IInv => EntriesAreWhole
  BY CodeIsBelowCurrent DEF IInv, EntriesAreBuilt, EntriesAreWhole
<1> QED
  BY Invariance, <1>1, PTL

(* With no commit pending, all native code can be executed.                *)
THEOREM SettledCodeCanRun == Spec => []SettledCodeIsExecutable
<1>1. IInv => SettledCodeIsExecutable
  <2> SUFFICES ASSUME IInv, ~is_jit_dirty, NEW f \in Funcs, jit_code[f] # None,
                      NEW i \in CodeOf(f)
               PROVE  Page(i) \in slabs[jit_code[f].slab].exec
    BY DEF SettledCodeIsExecutable
  <2> QED
    BY CodeIsBelowCurrent DEF IInv, CommittedIsExecutable, CommitsAreComplete
<1> QED
  BY Invariance, <1>1, PTL

(* No step writes to an executable page, or makes one writable.            *)
THEOREM ExecutablePagesStay == Spec => ExecutablePagesAreFinal
<1> DEFINE Final ==
      \A s \in DOMAIN slabs \cap DOMAIN slabs' : slabs' # <<>> =>
        \A i \in Cells : Page(i) \in slabs[s].exec =>
          /\ Page(i) \in slabs'[s].exec
          /\ slabs'[s].cells[i] = slabs[s].cells[i]
<1>1. IInv /\ [Next]_vars => [Final]_vars
  <2> SUFFICES ASSUME IInv, Next PROVE Final
    BY DEF vars
  <2>1. CASE Emit
    <3> SUFFICES ASSUME NEW s \in DOMAIN slabs, NEW i \in Cells, Page(i) \in slabs[s].exec
                 PROVE  /\ slabs'[s].exec = slabs[s].exec
                        /\ slabs'[s].cells[i] = slabs[s].cells[i]
      OBVIOUS
    <3> DEFINE r == [slabs[s] EXCEPT !.cells = [slabs[s].cells EXCEPT ![code] = building]]
    <3>1. /\ slabs' = [slabs EXCEPT ![slab_current] =
                         [slabs[slab_current] EXCEPT
                            !.cells = [slabs[slab_current].cells EXCEPT ![code] = building]]]
          /\ slabs[slab_current].current <= code
      BY <2>1 DEF IInv, Emit, EmittedSoFar
    <3>2. /\ i < slabs[s].committed /\ slabs[s].committed <= slabs[s].current
          /\ slabs[s] \in Slab /\ i \in Int /\ code \in Int
          /\ slabs[s].current \in Int /\ slabs[s].committed \in Int
      BY SMTT(30), SlabIsTyped, SlabSizeIsNat DEF IInv, TypeOK, CommittedIsExecutable, Cells
    <3>3. s = slab_current => i # code
      BY <3>1, <3>2
    <3>4. /\ s # slab_current => slabs'[s] = slabs[s]
          /\ s = slab_current => slabs'[s] = r
      BY <3>1, TypeSlabs DEF IInv
    <3>5. r.exec = slabs[s].exec /\ (i # code => r.cells[i] = slabs[s].cells[i])
      BY <3>2 DEF Slab
    <3> QED
      BY <3>3, <3>4, <3>5
  <2>2. CASE BuildSucceeds
    <3>1. slabs' = [slabs EXCEPT ![slab_current] = [slabs[slab_current] EXCEPT !.current = code]]
      BY <2>2 DEF BuildSucceeds, Finish
    <3>2. \A s \in DOMAIN slabs : /\ slabs'[s].exec = slabs[s].exec
                                  /\ slabs'[s].cells = slabs[s].cells
      BY <3>1, SlabIsTyped, TypeSlabs DEF IInv, Slab
    <3> QED
      BY <3>2
  <2>3. CASE CommitNext
    <3>1. slabs' = slabs \/ slabs' = [slabs EXCEPT ![cursor] = CommitSlab(slabs[cursor])]
      BY <2>3 DEF CommitNext
    <3>2. \A s \in DOMAIN slabs : slabs'[s] = slabs[s] \/ slabs'[s] = CommitSlab(slabs[s])
      BY <3>1, TypeSlabs DEF IInv
    <3>3. \A s \in DOMAIN slabs : /\ slabs[s].exec \subseteq slabs'[s].exec
                                  /\ slabs'[s].cells = slabs[s].cells
      BY <3>2, CommitSlabCommits DEF IInv
    <3> QED
      BY <3>3
  <2>4. CASE Acquire
    <3>1. \A s \in DOMAIN slabs : slabs'[s] = slabs[s]
      BY <2>4, TypeSlabs DEF IInv, Acquire, slabVars
    <3> QED
      BY <3>1
  <2>5. CASE CommitFails
    BY <2>5 DEF CommitFails
  <2>6. CASE BeginUnit \/ RegisterLir \/ FailUnit \/ Overflow \/ FailBuild \/ BuildFails
               \/ Commit \/ CommitDone
    BY <2>6 DEF BeginUnit, RegisterLir, FailUnit, Overflow, FailBuild, BuildFails, Commit,
                CommitDone, slabVars
  <2> QED
    BY <2>1, <2>2, <2>3, <2>4, <2>5, <2>6 DEF Next
<1> QED
  BY Invariance, <1>1, PTL DEF Spec, ExecutablePagesAreFinal

=============================================================================
