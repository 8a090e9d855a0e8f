-------------------------- MODULE AccelRuntimeProofs --------------------------
(***************************************************************************)
(* Proofs about AccelRuntime.tla: its invariants hold for any threads,     *)
(* sessions, programs and kernels.                                         *)
(***************************************************************************)

EXTENDS AccelRuntime, FiniteSetTheorems, TLAPS

-----------------------------------------------------------------------------
(* The inductive invariant.                                                *)

SessionRecords == [state : States, context : BOOLEAN, execution : BOOLEAN,
                   next_kernel : 0 .. Kernels, program : Programs \cup {NoProgram},
                   installed : BOOLEAN]
Steps == {"none", "mark", "claim", "detach", "exec", "end", "free"}
Collections == [by : Threads \cup {NoThread}, step : Steps, session : Sessions \cup {NoSession}]

(* The types of all variables but the two counters, whose bounds follow    *)
(* from what they count.                                                   *)
Typed ==
  /\ shell \in {"none", "live", "freed"}
  /\ {attached, shutting_down, destroying, resources_destroyed} \subseteq BOOLEAN
  /\ live \in Seq(Sessions)
  /\ registry \in [ProgramIds -> Programs \cup {NoProgram}]
  /\ next_program_id \in 1 .. MaxProgramId + 1
  /\ program \in [Programs -> {"none", "prepared", "published", "destroyed"}]
  /\ backend \in {"live", "destroyed"}
  /\ binding \in {"none", "live", "finalized"}
  /\ session \in [Sessions -> SessionRecords]
  /\ exec \in [Sessions -> BOOLEAN]
  /\ pc \in [Threads -> Pcs]
  /\ sess \in [Threads -> Sessions \cup {NoSession}]
  /\ prog \in [Threads -> Programs \cup {NoProgram}]
  /\ arg \in [Threads -> 0 .. MaxProgramId]
  /\ wants_gc \subseteq Threads
  /\ collection \in Collections

(* Where the main thread is, from the end of the drain on and after the    *)
(* last orphan.                                                            *)
OrphanPcs     == {"orphan_next", "orphan_exec"}
PostDrainPcs  == OrphanPcs \cup {"destroy_programs", "destroy_backend", "publish_teardown",
                                 "release", "vm_destroy", "teardown", "end"}
PostBackend   == {"publish_teardown", "release", "vm_destroy", "teardown", "end"}

MainIsInOrder ==
  /\ \A t \in Threads \ {Main} : pc[t] \notin MainPcs
  /\ attached => pc[Main] \notin MainPcs
  /\ shell = "none" <=> pc[Main] = "create"
  /\ pc[Main] = "create" => reference_count = 0
  /\ pc[Main] \in {"create", "register"} => binding # "live"
  /\ pc[Main] \in {"create"} \cup PostDrainPcs => active_operation_count = 0
  /\ pc[Main] \in {"drain"} \cup PostDrainPcs => destroying
  /\ pc[Main] \in PostDrainPcs \ OrphanPcs => live = <<>>
  /\ pc[Main] \in PostBackend \cup {"destroy_backend"} =>
       \A p \in Programs : program[p] # "published"
  /\ backend = "destroyed" => pc[Main] \in PostBackend

ClaimedThreads == {t \in Threads : pc[t] \in Claimed}
FinalizerClaims == collection.step \in {"detach", "exec", "end"}

OperationsAreCounted ==
  active_operation_count = Cardinality(ClaimedThreads) + Count(FinalizerClaims)

(* Threads that make a session and threads that use an installed one.      *)
BuilderPcs == {"metadata", "link", "create_execution", "publish", "install", "undo_exec",
               "discard", "discard_exec", "discard_free"}
UserPcs    == {"claim_dispatch", "claim_finish", "dispatch", "dispatching", "finish",
               "finishing", "copy", "copy_failed", "close", "fail_exec", "close_exec"}
PinningPcs == BuilderPcs \cup UserPcs \cup {"end_operation"} \cup OrphanPcs

SessionsArePinned ==
  \A t \in Threads :
    /\ pc[t] \notin PinningPcs => sess[t] = NoSession
    /\ pc[t] \in BuilderPcs \cup UserPcs \cup {"orphan_exec"} => sess[t] \in Sessions
    /\ pc[t] \in UserPcs \cup {"end_operation"} /\ sess[t] # NoSession =>
         session[sess[t]].installed
    /\ pc[t] \in BuilderPcs =>
         /\ session[sess[t]].state # "free" /\ ~session[sess[t]].installed
         /\ \A u \in Threads \ {t} : sess[u] # sess[t]

SessionsAreAccounted ==
  \A s \in Sessions :
    /\ session[s].state = "free" => session[s] = Unused
    /\ session[s].state = "free" \/ session[s].installed
         \/ \E t \in Threads : pc[t] \in BuilderPcs /\ sess[t] = s
    /\ session[s].state = "dispatching" => session[s].next_kernel < Kernels

(* What a thread that makes a session has done so far.                     *)
BuildersAreInOrder ==
  \A t \in Threads :
    /\ pc[t] \in {"metadata", "link"} =>
         /\ session[sess[t]].state = "creating" /\ session[sess[t]].context
         /\ ~Linked(sess[t])
    /\ pc[t] \in {"metadata", "link", "create_execution", "publish"} =>
         ~session[sess[t]].execution
    /\ pc[t] \in {"undo_exec", "discard_exec", "discard_free"} => ~Linked(sess[t])

LiveListIsExact ==
  /\ \A s \in Sessions :
       /\ session[s].execution => Linked(s)
       /\ Linked(s) => session[s].context
       /\ session[s].context =>
            \/ Linked(s)
            \/ \E t \in Threads : pc[t] \in {"metadata", "link", "discard"} /\ sess[t] = s
       /\ session[s].program # NoProgram => session[s].context
  /\ \A i, j \in 1 .. Len(live) : live[i] = live[j] => i = j

(* One thread at a time dispatches, finishes or copies.                    *)
WorkPcs == {"dispatching", "finishing", "copy", "copy_failed", "close"}

WorkersAreAlone ==
  \A t, u \in Threads :
    pc[t] \in WorkPcs /\ pc[u] \in WorkPcs /\ sess[t] = sess[u] => t = u

ClaimsHold ==
  \A t \in Threads :
    /\ pc[t] \in {"create_execution", "publish"} => Holds(sess[t], "creating")
    /\ pc[t] = "dispatching" => HoldsExecution(sess[t], "dispatching")
    /\ pc[t] = "finishing" => HoldsExecution(sess[t], "submitting")
    /\ pc[t] \in {"copy", "copy_failed", "close"} => HoldsExecution(sess[t], "copy_ready")

FinalizerIsAlone ==
  /\ collection.step \in {"claim", "detach", "exec", "end", "free"} <=>
       collection.session # NoSession
  /\ collection.session # NoSession =>
       /\ collection.by \in Threads
       /\ session[collection.session].installed
       /\ \A t \in Threads : sess[t] = collection.session => pc[t] \in OrphanPcs
  /\ collection.step \in {"exec", "end", "free"} => ~Linked(collection.session)

(* An execution is owned by one thread, by its session, or by the          *)
(* finalizer.                                                              *)
Owns(t, s) == pc[t] \in OwningPcs /\ sess[t] = s
FinalizerOwns(s) == collection.step = "exec" /\ collection.session = s

ExecutionsAreOwned ==
  \A s \in Sessions :
    /\ exec[s] <=>
         \/ \E t \in Threads : Owns(t, s)
         \/ session[s].execution
         \/ FinalizerOwns(s)
    /\ \A t, u \in Threads : Owns(t, s) /\ Owns(u, s) => t = u
    /\ \A t \in Threads : Owns(t, s) => ~session[s].execution /\ ~FinalizerOwns(s)
    /\ session[s].execution => ~FinalizerOwns(s)

PreparePcs == {"reserve", "commit", "undo_prepare"}

ProgramsAreKept ==
  /\ \A p \in Programs : program[p] = "published" => \E i \in ProgramIds : registry[i] = p
  /\ \A p \in Programs : program[p] = "prepared" =>
       \E t \in Threads : pc[t] \in PreparePcs /\ prog[t] = p
  /\ \A t \in Threads :
       /\ pc[t] \in PreparePcs => prog[t] \in Programs /\ program[prog[t]] = "prepared"
       /\ pc[t] = "commit" => arg[t] \in ProgramIds
       /\ pc[t] = "retain" => prog[t] \in Programs /\ program[prog[t]] = "published"
  /\ \A t, u \in Threads :
       pc[t] \in PreparePcs /\ pc[u] \in PreparePcs /\ prog[t] = prog[u] => t = u
  /\ pc[Main] \notin {"destroy_backend", "publish_teardown"} =>
       \A i \in ProgramIds : registry[i] # NoProgram => program[registry[i]] = "published"
  /\ \A s \in Sessions : session[s].program # NoProgram =>
       program[session[s].program] = "published"

(* The part that is about sessions and executions, and all of it.          *)
SessionInv ==
  /\ SessionsArePinned /\ SessionsAreAccounted
  /\ BuildersAreInOrder /\ LiveListIsExact
  /\ WorkersAreAlone /\ ClaimsHold
  /\ FinalizerIsAlone
  /\ ExecutionsAreOwned

IInv ==
  /\ Typed /\ MainIsInOrder
  /\ OperationsAreCounted /\ ReferencesAreCounted
  /\ SessionInv
  /\ ProgramsAreKept

-----------------------------------------------------------------------------
(* Updates of the list and of the sessions.                                *)

LEMMA LinkEffect ==
  ASSUME live \in Seq(Sessions), NEW s \in Sessions, Link(s), ~Linked(s),
         \A i, j \in 1 .. Len(live) : live[i] = live[j] => i = j
  PROVE  /\ live' \in Seq(Sessions)
         /\ \A u \in Sessions : Linked(u)' <=> Linked(u) \/ u = s
         /\ \A i, j \in 1 .. Len(live') : live'[i] = live'[j] => i = j
<1>1. /\ live' \in Seq(Sessions) /\ Len(live') = Len(live) + 1 /\ Len(live) \in Nat
      /\ live'[Len(live) + 1] = s /\ \A i \in 1 .. Len(live) : live'[i] = live[i]
  BY DEF Link
<1>2. \A i \in 1 .. Len(live') : i = Len(live) + 1 \/ i \in 1 .. Len(live)
  BY <1>1
<1>3. Len(live) + 1 \in 1 .. Len(live') /\ 1 .. Len(live) \subseteq 1 .. Len(live')
  BY <1>1
<1>4. \A u \in Sessions : Linked(u)' <=> Linked(u) \/ u = s
  BY <1>1, <1>2, <1>3 DEF Linked
<1>5. \A i, j \in 1 .. Len(live') : live'[i] = live'[j] => i = j
  BY <1>1, <1>2 DEF Linked
<1> QED
  BY <1>1, <1>4, <1>5

LEMMA UnlinkEffect ==
  ASSUME live \in Seq(Sessions), NEW s \in Sessions, Unlink(s),
         \A i, j \in 1 .. Len(live) : live[i] = live[j] => i = j
  PROVE  /\ live' \in Seq(Sessions)
         /\ \A u \in Sessions : Linked(u)' <=> Linked(u) /\ u # s
         /\ \A i, j \in 1 .. Len(live') : live'[i] = live'[j] => i = j
<1>1. PICK k \in 1 .. Len(live) :
        live[k] = s /\ live' = SubSeq(live, 1, k - 1) \o SubSeq(live, k + 1, Len(live))
  BY DEF Unlink
<1> DEFINE a == SubSeq(live, 1, k - 1)
           b == SubSeq(live, k + 1, Len(live))
<1>2. a \in Seq(Sessions) /\ Len(a) = k - 1 /\ \A i \in 1 .. k - 1 : a[i] = live[i]
  OBVIOUS
<1>3. /\ b \in Seq(Sessions) /\ Len(b) = Len(live) - k
      /\ \A i \in 1 .. Len(live) - k : b[i] = live[k + i]
  OBVIOUS
<1>4. live' = a \o b /\ Len(live) \in Nat /\ k \in Nat /\ k <= Len(live)
  BY <1>1
<1> HIDE DEF a, b
<1>5. /\ live' \in Seq(Sessions) /\ Len(live') = Len(live) - 1
      /\ \A i \in 1 .. k - 1 : live'[i] = live[i]
      /\ \A i \in k .. Len(live) - 1 : live'[i] = live[i + 1]
  <2>0. a \in Seq(Sessions) /\ b \in Seq(Sessions)
    BY <1>2, <1>3
  <2>1. live' \in Seq(Sessions) /\ Len(live') = Len(a) + Len(b)
    BY <1>4, <2>0
  <2>2. Len(live') = Len(live) - 1
    BY <1>2, <1>3, <1>4, <2>1
  <2>3. \A i \in 1 .. Len(live') : live'[i] = IF i <= Len(a) THEN a[i] ELSE b[i - Len(a)]
    BY <1>4, <2>0, <2>1
  <2>4. \A i \in 1 .. k - 1 : live'[i] = live[i]
    BY <1>2, <1>4, <2>2, <2>3
  <2>5. ASSUME NEW i \in k .. Len(live) - 1 PROVE live'[i] = live[i + 1]
    <3>1. i - (k - 1) \in 1 .. Len(live) - k /\ k + (i - (k - 1)) = i + 1
      BY <1>4
    <3> QED
      BY <1>2, <1>3, <1>4, <2>2, <2>3, <3>1
  <2> QED
    BY <2>1, <2>2, <2>4, <2>5
<1> DEFINE old(i) == IF i < k THEN i ELSE i + 1
<1>6. ASSUME NEW i \in 1 .. Len(live')
      PROVE  old(i) \in 1 .. Len(live) /\ old(i) # k /\ live'[i] = live[old(i)]
  <2>1. i \in 1 .. k - 1 \/ i \in k .. Len(live) - 1
    BY <1>4, <1>5
  <2> QED
    BY <1>4, <1>5, <2>1
<1>7. \A i, j \in 1 .. Len(live') : old(i) = old(j) => i = j
  BY <1>4, <1>5
<1>8. \A i \in 1 .. Len(live) : i # k => \E j \in 1 .. Len(live') : old(j) = i
  <2> TAKE i \in 1 .. Len(live)
  <2> HAVE i # k
  <2>1. CASE i < k
    <3>1. i \in 1 .. Len(live') /\ old(i) = i
      BY <1>4, <1>5, <2>1
    <3> QED
      BY <3>1
  <2>2. CASE i > k
    <3>1. i - 1 \in 1 .. Len(live') /\ old(i - 1) = i
      BY <1>4, <1>5, <2>2
    <3> QED
      BY <3>1
  <2> QED
    BY <1>4, <2>1, <2>2
<1> HIDE DEF old
<1>9. \A i, j \in 1 .. Len(live') : live'[i] = live'[j] => i = j
  BY <1>6, <1>7
<1>10. ASSUME NEW u \in Sessions PROVE Linked(u)' <=> Linked(u) /\ u # s
  <2>1. ASSUME NEW i \in 1 .. Len(live'), live'[i] = u PROVE Linked(u) /\ u # s
    BY ZenonT(30), <1>1, <1>6, <2>1 DEF Linked
  <2>2. ASSUME NEW i \in 1 .. Len(live), live[i] = u, u # s PROVE Linked(u)'
    <3>1. PICK j \in 1 .. Len(live') : old(j) = i
      BY <1>1, <1>8, <2>2
    <3> QED
      BY <1>6, <2>2, <3>1 DEF Linked
  <2> QED
    BY <2>1, <2>2 DEF Linked
<1> QED
  BY <1>5, <1>9, <1>10

(* What CloseSession does.                                                 *)
LEMMA CloseEffect ==
  ASSUME Typed, LiveListIsExact, NEW s \in Sessions, NEW st \in Terminal, CloseSession(s, st)
  PROVE  /\ live' \in Seq(Sessions) /\ session' \in [Sessions -> SessionRecords]
         /\ \A u \in Sessions : Linked(u)' <=> Linked(u) /\ u # s
         /\ \A i, j \in 1 .. Len(live') : live'[i] = live'[j] => i = j
         /\ \A u \in Sessions \ {s} : session'[u] = session[u]
         /\ session'[s].state = st /\ ~session'[s].context /\ ~session'[s].execution
         /\ session'[s].program = NoProgram /\ session'[s].installed = session[s].installed
         /\ session'[s].next_kernel = session[s].next_kernel
<1>1. session' = [session EXCEPT ![s] = [session[s] EXCEPT !.state = st, !.context = FALSE,
                                           !.execution = FALSE, !.program = NoProgram]]
  BY DEF CloseSession, Typed
<1>2. session[s] \in SessionRecords
  BY DEF Typed
<1>3. /\ [session[s] EXCEPT !.state = st, !.context = FALSE, !.execution = FALSE,
                            !.program = NoProgram] \in SessionRecords
  BY <1>2 DEF SessionRecords, States
<1>4. /\ live' \in Seq(Sessions)
      /\ \A u \in Sessions : Linked(u)' <=> Linked(u) /\ u # s
      /\ \A i, j \in 1 .. Len(live') : live'[i] = live'[j] => i = j
  <2>1. CASE Linked(s)
    BY <2>1, UnlinkEffect DEF CloseSession, Typed, LiveListIsExact
  <2>2. CASE ~Linked(s)
    BY <2>2 DEF CloseSession, Typed, LiveListIsExact, Linked
  <2> QED
    BY <2>1, <2>2
<1> QED
  BY <1>1, <1>2, <1>3, <1>4 DEF Typed, SessionRecords

-----------------------------------------------------------------------------
(* Control points.                                                         *)

LEMMA PcSets ==
  /\ Claimed = {"retain", "metadata", "install", "copy", "end_operation", "discard_free",
                "prepare", "reserve", "commit", "undo_prepare", "lookup", "link",
                "create_execution", "publish", "undo_exec", "discard", "discard_exec",
                "dispatch", "dispatching", "finish", "finishing", "copy_failed", "close",
                "fail_exec", "close_exec"}
  /\ Claimed \cap MainPcs = {}
  /\ Claimed \subseteq Pcs /\ MainPcs \subseteq Pcs
  /\ PostDrainPcs \subseteq MainPcs
  /\ "drain" \in MainPcs \ PostDrainPcs
BY DEF Claimed, Pcs, InFlight, Blocking, MainPcs, ClaimPcs, PostDrainPcs, OrphanPcs

-----------------------------------------------------------------------------
(* The counters.                                                           *)

Wrapped == {s \in Sessions : session[s].state # "free"}
HasOwner == pc[Main] \notin {"create", "vm_destroy", "teardown", "end"}

LEMMA CountersAreNat ==
  /\ IsFiniteSet(ClaimedThreads) /\ Cardinality(ClaimedThreads) \in Nat
  /\ IsFiniteSet(Wrapped) /\ Cardinality(Wrapped) \in Nat
  /\ Cardinality(Wrapped) <= Cardinality(Sessions) /\ Cardinality(Sessions) \in Nat
<1>1. ClaimedThreads \subseteq Threads /\ Wrapped \subseteq Sessions
  BY DEF ClaimedThreads, Wrapped
<1>2. IsFiniteSet(ClaimedThreads) /\ IsFiniteSet(Wrapped) /\ IsFiniteSet(Sessions)
  BY <1>1, FS_Subset, AccelRuntimeAssumption, AccelContextAssumption
<1>3. Cardinality(Wrapped) <= Cardinality(Sessions)
  BY <1>1, FS_Subset, AccelContextAssumption
<1> QED
  BY <1>2, <1>3, FS_CardinalityType

LEMMA References ==
  ReferencesAreCounted <=>
    /\ reference_count = Count(HasOwner) + Count(binding = "live") + Cardinality(Wrapped)
    /\ shell = "live" <=> reference_count > 0
    /\ pc[Main] = "end" => shell = "freed"
BY DEF ReferencesAreCounted, HasOwner, Wrapped

(* The bounds of TypeOK.                                                   *)
LEMMA CountersAreTyped ==
  ASSUME Typed, OperationsAreCounted, ReferencesAreCounted
  PROVE  TypeOK
<1>1. reference_count \in 0 .. Cardinality(Sessions) + 2
  BY References, CountersAreNat DEF Count
<1>2. active_operation_count \in Nat
  BY CountersAreNat DEF OperationsAreCounted, Count
<1>3. /\ collection.by \in Threads \cup {NoThread}
      /\ collection.session \in Sessions \cup {NoSession}
  BY DEF Typed, Collections
<1> QED
  BY <1>1, <1>2, <1>3 DEF Typed, TypeOK, ContextTypeOK, SessionRecords

(* Nothing has no claim.                                                   *)
LEMMA NothingActive ==
  ASSUME OperationsAreCounted, active_operation_count = 0
  PROVE  (\A t \in Threads : pc[t] \notin Claimed) /\ ~FinalizerClaims
<1>1. Cardinality(ClaimedThreads) = 0 /\ ~FinalizerClaims
  BY CountersAreNat DEF OperationsAreCounted, Count
<1>2. ClaimedThreads = {}
  BY <1>1, CountersAreNat, FS_EmptySet
<1> QED
  BY <1>1, <1>2 DEF ClaimedThreads

LEMMA ClaimIsActive ==
  ASSUME IInv, (\E t \in Threads : pc[t] \in Claimed) \/ FinalizerClaims
  PROVE  pc[Main] \notin {"create"} \cup PostDrainPcs /\ backend = "live" /\ HasOwner
<1>1. active_operation_count # 0
  BY NothingActive DEF IInv
<1>2. pc[Main] \notin {"create"} \cup PostDrainPcs
  BY <1>1 DEF IInv, MainIsInOrder
<1> QED
  BY <1>2 DEF IInv, MainIsInOrder, Typed, PostDrainPcs, PostBackend, HasOwner

LEMMA OperationsKept ==
  ASSUME OperationsAreCounted, active_operation_count' = active_operation_count,
         \A t \in Threads : pc'[t] \in Claimed <=> pc[t] \in Claimed,
         FinalizerClaims' <=> FinalizerClaims
  PROVE  OperationsAreCounted'
<1>1. ClaimedThreads' = ClaimedThreads
  BY DEF ClaimedThreads
<1>2. Count(FinalizerClaims)' = Count(FinalizerClaims)
  BY DEF Count
<1> QED
  BY <1>1, <1>2 DEF OperationsAreCounted

LEMMA ReferencesKept ==
  ASSUME ReferencesAreCounted, UNCHANGED <<reference_count, shell>>,
         binding' = "live" <=> binding = "live",
         HasOwner' <=> HasOwner, pc'[Main] = "end" => pc[Main] = "end",
         \A s \in Sessions : session'[s].state = "free" <=> session[s].state = "free"
  PROVE  ReferencesAreCounted'
<1>1. Wrapped' = Wrapped
  BY DEF Wrapped
<1>2. Count(HasOwner)' = Count(HasOwner) /\ Count(binding = "live")' = Count(binding = "live")
  BY DEF Count
<1>3. Cardinality(Wrapped)' = Cardinality(Wrapped)
  BY <1>1
<1> QED
  BY <1>1, <1>2, References DEF ReferencesAreCounted, HasOwner, Wrapped

(* A thread moves within its operation.                                    *)
LEMMA ClaimedMove ==
  ASSUME IInv, NEW t \in Threads, NEW to \in Claimed, pc[t] \in Claimed,
         pc' = [pc EXCEPT ![t] = to],
         UNCHANGED <<shell, gateVars, backend, binding, active_operation_count, collection>>
  PROVE  MainIsInOrder' /\ OperationsAreCounted' /\ HasOwner' /\ pc'[Main] # "end"
<1>1. pc[Main] \notin {"create"} \cup PostDrainPcs /\ backend = "live"
  BY ClaimIsActive
<1>2. \A u \in Threads : pc'[u] = IF u = t THEN to ELSE pc[u]
  BY DEF IInv, Typed
<1>3. pc'[Main] = pc[Main] \/ (pc'[Main] \in Claimed /\ pc[Main] \in Claimed)
  BY <1>2, AccelRuntimeAssumption
<1>4. pc'[Main] \notin {"create"} \cup PostDrainPcs
  BY <1>1, <1>3, PcSets DEF MainPcs
<1>5. MainIsInOrder'
  <2>1. \A u \in Threads \ {Main} : pc'[u] \notin MainPcs
    BY <1>2, PcSets DEF IInv, MainIsInOrder
  <2>2. pc'[Main] \in MainPcs => pc'[Main] = pc[Main]
    BY <1>3, PcSets
  <2>3. /\ attached' => pc'[Main] \notin MainPcs
        /\ pc'[Main] \in {"register", "drain"} => pc'[Main] = pc[Main]
    BY <2>2 DEF IInv, MainIsInOrder, gateVars, MainPcs
  <2>4. shell # "none"
    BY <1>1 DEF IInv, MainIsInOrder
  <2> QED
    BY <1>1, <1>4, <2>1, <2>3, <2>4
    DEF IInv, MainIsInOrder, gateVars, PostDrainPcs, PostBackend
<1>6. OperationsAreCounted'
  BY <1>2, OperationsKept DEF IInv, FinalizerClaims
<1> QED
  BY <1>4, <1>5, <1>6 DEF HasOwner, PostDrainPcs

-----------------------------------------------------------------------------
(* Steps of an operation that change no session.                           *)

QuietPairs ==
  {<<"lookup", "end_operation">>, <<"lookup", "retain">>, <<"retain", "end_operation">>,
   <<"metadata", "link">>, <<"metadata", "discard">>, <<"link", "discard">>,
   <<"install", "discard">>, <<"dispatch", "end_operation">>, <<"finish", "end_operation">>,
   <<"copy", "close">>, <<"copy", "copy_failed">>, <<"prepare", "reserve">>,
   <<"prepare", "end_operation">>, <<"reserve", "commit">>, <<"reserve", "undo_prepare">>,
   <<"commit", "end_operation">>, <<"commit", "undo_prepare">>,
   <<"undo_prepare", "end_operation">>}

LEMMA QuietPairsAreClaimed ==
  ASSUME NEW from, NEW to, <<from, to>> \in QuietPairs
  PROVE  /\ from \in Claimed /\ to \in Claimed
         /\ to \in BuilderPcs => from \in BuilderPcs
         /\ to \in UserPcs => from \in UserPcs
         /\ from \notin PinningPcs => to = "end_operation" \/ to \notin PinningPcs
         /\ from \notin OwningPcs /\ to \notin OwningPcs
         /\ from \notin OrphanPcs /\ to \notin OrphanPcs
BY PcSets DEF QuietPairs, BuilderPcs, UserPcs, PinningPcs, OwningPcs, OrphanPcs

LEMMA QuietMove ==
  ASSUME IInv, NEW t \in Threads, NEW to, <<pc[t], to>> \in QuietPairs,
         pc' = [pc EXCEPT ![t] = to],
         UNCHANGED <<session, exec, live, collection, sess>>
  PROVE  SessionInv'
<1>1. \A u \in Threads : pc'[u] = IF u = t THEN to ELSE pc[u]
  BY DEF IInv, Typed
<1>2. \A s \in Sessions \cup {NoSession} : Linked(s)' <=> Linked(s)
  BY DEF Linked
<1>3. sess \in [Threads -> Sessions \cup {NoSession}]
  BY DEF IInv, Typed
<1>4. /\ \A s : Holds(s, "creating")' <=> Holds(s, "creating")
      /\ \A s, st : HoldsExecution(s, st)' <=> HoldsExecution(s, st)
  BY DEF Holds, HoldsExecution, Linked
<1>5. SessionsArePinned'
  <2>1. /\ to \notin PinningPcs => sess[t] = NoSession
        /\ to \in BuilderPcs \cup UserPcs \cup {"orphan_exec"} => sess[t] \in Sessions
        /\ to \in UserPcs \cup {"end_operation"} /\ sess[t] # NoSession =>
             session[sess[t]].installed
    BY DEF IInv, SessionInv, SessionsArePinned, QuietPairs, BuilderPcs, UserPcs, PinningPcs,
           OrphanPcs
  <2>2. to \in BuilderPcs => pc[t] \in BuilderPcs
    BY QuietPairsAreClaimed
  <2> QED
    BY <1>1, <2>1, <2>2 DEF IInv, SessionInv, SessionsArePinned
<1>6. SessionsAreAccounted'
  <2>1. pc[t] \in BuilderPcs => to \in BuilderPcs
    BY DEF QuietPairs, BuilderPcs
  <2> QED
    BY <1>1, <2>1 DEF IInv, SessionInv, SessionsAreAccounted
<1>7. BuildersAreInOrder'
  <2>1. to = "link" => pc[t] = "metadata"
    BY DEF QuietPairs
  <2>2. to \notin {"metadata", "create_execution", "publish", "undo_exec", "discard_exec", "discard_free"}
    BY DEF QuietPairs
  <2> QED
    BY <1>1, <1>2, <1>3, <2>1, <2>2 DEF IInv, SessionInv, BuildersAreInOrder
<1>8. LiveListIsExact'
  <2>1. pc[t] \in {"metadata", "link", "discard"} => to \in {"metadata", "link", "discard"}
    BY DEF QuietPairs
  <2> QED
    BY <1>1, <1>2, <2>1 DEF IInv, SessionInv, LiveListIsExact
<1>9. WorkersAreAlone' /\ ClaimsHold'
  <2>1. to \in WorkPcs => pc[t] = "copy" /\ to \in {"close", "copy_failed"}
    BY DEF QuietPairs, WorkPcs
  <2>2. to \notin {"create_execution", "publish", "dispatching", "finishing"}
    BY DEF QuietPairs
  <2>3. WorkersAreAlone'
    BY <1>1, <2>1 DEF IInv, SessionInv, WorkersAreAlone, WorkPcs
  <2>4. ClaimsHold'
    BY <1>1, <1>4, <2>1, <2>2 DEF IInv, SessionInv, ClaimsHold, WorkPcs
  <2> QED
    BY <2>3, <2>4
<1>10. FinalizerIsAlone'
  <2>1. pc[t] \notin OrphanPcs
    BY QuietPairsAreClaimed
  <2>2. collection.session \in Sessions \cup {NoSession}
    BY DEF IInv, Typed, Collections
  <2> QED
    BY <1>1, <1>2, <2>1, <2>2 DEF IInv, SessionInv, FinalizerIsAlone
<1>11. ExecutionsAreOwned'
  <2>1. \A u \in Threads, s \in Sessions : Owns(u, s)' <=> Owns(u, s)
    BY <1>1, QuietPairsAreClaimed DEF Owns
  <2>2. \A s \in Sessions : FinalizerOwns(s)' <=> FinalizerOwns(s)
    BY DEF FinalizerOwns
  <2> QED
    BY <2>1, <2>2 DEF IInv, SessionInv, ExecutionsAreOwned
<1> QED
  BY <1>5, <1>6, <1>7, <1>8, <1>9, <1>10, <1>11 DEF SessionInv

-----------------------------------------------------------------------------
(* Steps of an operation that change a session.                            *)

LEMMA NoOrphans ==
  ASSUME IInv, NEW t \in Threads, pc[t] \in Claimed
  PROVE  /\ \A u \in Threads : pc[u] \notin OrphanPcs
         /\ \A u \in Threads : sess[u] \in Sessions => collection.session # sess[u]
<1>1. pc[Main] \notin PostDrainPcs
  BY ClaimIsActive
<1>2. \A u \in Threads : pc[u] \notin OrphanPcs
  BY <1>1, PcSets DEF IInv, MainIsInOrder, PostDrainPcs
<1> QED
  BY <1>2, AccelRuntimeAssumption DEF IInv, SessionInv, FinalizerIsAlone

LEMMA BuilderIsAlone ==
  ASSUME IInv, NEW t \in Threads, pc[t] \in BuilderPcs
  PROVE  /\ sess[t] \in Sessions /\ \A u \in Threads \ {t} : sess[u] # sess[t]
         /\ session[sess[t]].state # "free" /\ ~session[sess[t]].installed
         /\ collection.session # sess[t] /\ pc[t] \in Claimed
<1>1. pc[t] \in Claimed
  BY PcSets DEF BuilderPcs
<1> QED
  BY <1>1, NoOrphans DEF IInv, SessionInv, SessionsArePinned

(* A thread that makes a session gives it up.                              *)
LEMMA BuilderCloses ==
  ASSUME IInv, NEW t \in Threads, NEW s, s = sess[t],
         pc[t] \in {"create_execution", "publish", "discard"},
         NEW to \in {"undo_exec", "discard_exec", "discard_free"},
         to \in {"undo_exec", "discard_exec"} <=> exec[s],
         CloseSession(s, "failed"),
         pc' = [pc EXCEPT ![t] = to], UNCHANGED <<exec, sess, collection>>
  PROVE  SessionInv' /\ session' \in [Sessions -> SessionRecords] /\ live' \in Seq(Sessions)
<1>1. /\ s \in Sessions /\ \A u \in Threads \ {t} : sess[u] # s
      /\ session[s].state # "free" /\ ~session[s].installed /\ collection.session # s
  BY BuilderIsAlone DEF BuilderPcs
<1>2. /\ live' \in Seq(Sessions) /\ session' \in [Sessions -> SessionRecords]
      /\ \A u \in Sessions : Linked(u)' <=> Linked(u) /\ u # s
      /\ \A i, j \in 1 .. Len(live') : live'[i] = live'[j] => i = j
      /\ \A u \in Sessions \ {s} : session'[u] = session[u]
      /\ session'[s].state = "failed" /\ ~session'[s].context /\ ~session'[s].execution
      /\ session'[s].program = NoProgram /\ session'[s].installed = session[s].installed
      /\ session'[s].next_kernel = session[s].next_kernel
  BY <1>1, CloseEffect DEF IInv, SessionInv, Terminal
<1>3. /\ \A u \in Threads : pc'[u] = IF u = t THEN to ELSE pc[u]
      /\ sess \in [Threads -> Sessions \cup {NoSession}]
      /\ collection.session \in Sessions \cup {NoSession}
  BY DEF IInv, Typed, Collections
<1>4. /\ \A u \in Sessions \ {s} : Holds(u, "creating")' <=> Holds(u, "creating")
      /\ \A u \in Sessions \ {s} : \A st : HoldsExecution(u, st)' <=> HoldsExecution(u, st)
  BY <1>2 DEF Holds, HoldsExecution
<1>5. SessionsArePinned'
  BY <1>1, <1>2, <1>3
  DEF IInv, SessionInv, SessionsArePinned, BuilderPcs, UserPcs, PinningPcs, OrphanPcs
<1>6. SessionsAreAccounted'
  BY <1>1, <1>2, <1>3 DEF IInv, SessionInv, SessionsAreAccounted, BuilderPcs
<1>7. BuildersAreInOrder'
  BY <1>1, <1>2, <1>3
  DEF IInv, SessionInv, SessionsArePinned, BuildersAreInOrder, BuilderPcs
<1>8. LiveListIsExact'
  BY <1>1, <1>2, <1>3 DEF IInv, SessionInv, LiveListIsExact
<1>9. WorkersAreAlone'
  BY <1>3 DEF IInv, SessionInv, WorkersAreAlone, WorkPcs
<1>10. ClaimsHold'
  <2>1. \A u \in Threads \ {t} : pc[u] \in BuilderPcs \cup UserPcs => sess[u] \in Sessions \ {s}
    BY <1>1 DEF IInv, SessionInv, SessionsArePinned
  <2> QED
    BY <1>3, <1>4, <2>1 DEF IInv, SessionInv, ClaimsHold, BuilderPcs, UserPcs
<1>11. FinalizerIsAlone'
  <2>1. pc[t] \notin OrphanPcs
    BY DEF OrphanPcs
  <2> QED
    BY <1>1, <1>2, <1>3, <2>1 DEF IInv, SessionInv, FinalizerIsAlone
<1>12. ExecutionsAreOwned'
  <2>1. \A u \in Threads, v \in Sessions \ {s} : Owns(u, v)' <=> Owns(u, v)
    BY <1>3 DEF Owns
  <2>2. \A v \in Sessions : FinalizerOwns(v)' <=> FinalizerOwns(v)
    BY DEF FinalizerOwns
  <2>3. /\ \A u \in Threads : Owns(u, s)' <=> u = t /\ exec[s]
        /\ ~FinalizerOwns(s)
    BY <1>1, <1>3 DEF Owns, OwningPcs, FinalizerOwns
  <2>4. exec[s] <=> \E u \in Threads : Owns(u, s)'
    BY <2>3
  <2> QED
    BY <1>1, <1>2, <2>1, <2>2, <2>3, <2>4 DEF IInv, SessionInv, ExecutionsAreOwned
<1> QED
  BY <1>2, <1>5, <1>6, <1>7, <1>8, <1>9, <1>10, <1>11, <1>12 DEF SessionInv

(* The thread that works with a session closes it.                         *)
LEMMA UserCloses ==
  ASSUME IInv, NEW t \in Threads, NEW s, s = sess[t], pc[t] \in WorkPcs,
         NEW to \in {"fail_exec", "close_exec"}, NEW st \in Terminal, CloseSession(s, st),
         pc' = [pc EXCEPT ![t] = to], UNCHANGED <<exec, sess, collection>>
  PROVE  SessionInv' /\ session' \in [Sessions -> SessionRecords] /\ live' \in Seq(Sessions)
<1>1. /\ s \in Sessions /\ session[s].installed /\ session[s].execution /\ Linked(s)
      /\ collection.session # s
      /\ \A u \in Threads : sess[u] = s => pc[u] \notin BuilderPcs
  <2>1. s \in Sessions /\ session[s].installed
    BY AccelRuntimeAssumption DEF IInv, SessionInv, SessionsArePinned, WorkPcs, UserPcs
  <2>2. pc[t] \in Claimed
    BY PcSets DEF WorkPcs
  <2>3. session[s].execution /\ Linked(s)
    BY DEF IInv, SessionInv, ClaimsHold, WorkPcs, HoldsExecution, Holds
  <2> QED
    BY <2>1, <2>2, <2>3, NoOrphans DEF IInv, SessionInv, SessionsArePinned
<1>2. /\ live' \in Seq(Sessions) /\ session' \in [Sessions -> SessionRecords]
      /\ \A u \in Sessions : Linked(u)' <=> Linked(u) /\ u # s
      /\ \A i, j \in 1 .. Len(live') : live'[i] = live'[j] => i = j
      /\ \A u \in Sessions \ {s} : session'[u] = session[u]
      /\ session'[s].state = st /\ ~session'[s].context /\ ~session'[s].execution
      /\ session'[s].program = NoProgram /\ session'[s].installed = session[s].installed
      /\ session'[s].next_kernel = session[s].next_kernel
  BY <1>1, CloseEffect DEF IInv, SessionInv
<1>3. /\ \A u \in Threads : pc'[u] = IF u = t THEN to ELSE pc[u]
      /\ sess \in [Threads -> Sessions \cup {NoSession}]
      /\ collection.session \in Sessions \cup {NoSession}
  BY DEF IInv, Typed, Collections
<1>4. /\ \A u \in Sessions \ {s} : Holds(u, "creating")' <=> Holds(u, "creating")
      /\ \A u \in Sessions \ {s} : \A x : HoldsExecution(u, x)' <=> HoldsExecution(u, x)
  BY <1>2 DEF Holds, HoldsExecution
<1>5. SessionsArePinned'
  <2>1. to \in UserPcs /\ to \notin BuilderPcs /\ to \in PinningPcs
    BY DEF UserPcs, BuilderPcs, PinningPcs
  <2>2. \A v \in Sessions : session'[v].installed = session[v].installed
    BY <1>2
  <2>3. \A u \in Threads \ {t} : pc[u] \in BuilderPcs => sess[u] \in Sessions \ {s}
    BY <1>1 DEF IInv, SessionInv, SessionsArePinned
  <2> QED
    BY <1>1, <1>2, <1>3, <2>1, <2>2, <2>3 DEF IInv, SessionInv, SessionsArePinned
<1>6. SessionsAreAccounted'
  <2>1. st # "free" /\ st # "dispatching"
    BY DEF Terminal
  <2>2. pc[t] \notin BuilderPcs
    BY DEF BuilderPcs, WorkPcs
  <2>3. \A v \in Sessions : session'[v].installed = session[v].installed
    BY <1>2
  <2>4. \A v \in Sessions : (\E u \in Threads : pc[u] \in BuilderPcs /\ sess[u] = v)
                           => \E u \in Threads : pc'[u] \in BuilderPcs /\ sess'[u] = v
    BY <1>3, <2>2
  <2> QED
    BY <1>1, <1>2, <2>1, <2>3, <2>4 DEF IInv, SessionInv, SessionsAreAccounted
<1>7. BuildersAreInOrder'
  BY <1>1, <1>2, <1>3
  DEF IInv, SessionInv, SessionsArePinned, BuildersAreInOrder, BuilderPcs
<1>8. LiveListIsExact'
  BY <1>1, <1>2, <1>3 DEF IInv, SessionInv, LiveListIsExact, WorkPcs
<1>9. WorkersAreAlone'
  BY <1>3 DEF IInv, SessionInv, WorkersAreAlone, WorkPcs
<1>10. ClaimsHold'
  <2>1. \A u \in Threads \ {t} :
          pc[u] \in WorkPcs \cup {"create_execution", "publish"} => sess[u] \in Sessions \ {s}
    BY <1>1 DEF IInv, SessionInv, SessionsArePinned, WorkersAreAlone, BuilderPcs, UserPcs, WorkPcs
  <2> QED
    BY <1>3, <1>4, <2>1 DEF IInv, SessionInv, ClaimsHold, WorkPcs
<1>11. FinalizerIsAlone'
  <2>1. pc[t] \notin OrphanPcs
    BY DEF OrphanPcs, WorkPcs
  <2> QED
    BY <1>1, <1>2, <1>3, <2>1 DEF IInv, SessionInv, FinalizerIsAlone
<1>12. ExecutionsAreOwned'
  <2>1. \A u \in Threads, v \in Sessions \ {s} : Owns(u, v)' <=> Owns(u, v)
    BY <1>3 DEF Owns, OwningPcs, WorkPcs
  <2>2. \A v \in Sessions : FinalizerOwns(v)' <=> FinalizerOwns(v)
    BY DEF FinalizerOwns
  <2>3. exec[s] /\ ~FinalizerOwns(s) /\ \A u \in Threads : ~Owns(u, s)
    BY <1>1 DEF IInv, SessionInv, ExecutionsAreOwned
  <2>4. \A u \in Threads : Owns(u, s)' <=> u = t
    BY <1>3, <2>3 DEF Owns, OwningPcs
  <2> QED
    BY <1>1, <1>2, <2>1, <2>2, <2>3, <2>4 DEF IInv, SessionInv, ExecutionsAreOwned
<1> QED
  BY <1>2, <1>5, <1>6, <1>7, <1>8, <1>9, <1>10, <1>11, <1>12 DEF SessionInv

LEMMA UserIsCounted ==
  ASSUME IInv, NEW t \in Threads, pc[t] \in UserPcs \ {"claim_dispatch", "claim_finish"}
  PROVE  /\ sess[t] \in Sessions /\ session[sess[t]].installed
         /\ collection.session # sess[t] /\ pc[t] \in Claimed
         /\ \A u \in Threads : sess[u] = sess[t] => pc[u] \notin BuilderPcs
<1>1. sess[t] \in Sessions /\ session[sess[t]].installed
  BY AccelRuntimeAssumption DEF IInv, SessionInv, SessionsArePinned
<1>2. pc[t] \in Claimed
  BY PcSets DEF UserPcs
<1> QED
  BY <1>1, <1>2, NoOrphans DEF IInv, SessionInv, SessionsArePinned

(* A dispatch or a finish begins, or the backend's call succeeds.          *)
StateMoves ==
  {<<"dispatch", "recording", "dispatching", "dispatching">>,
   <<"finish", "recording", "finishing", "submitting">>,
   <<"dispatching", "dispatching", "end_operation", "recording">>,
   <<"finishing", "submitting", "copy", "copy_ready">>}

LEMMA UserSetsState ==
  ASSUME IInv, NEW t \in Threads, NEW s, s = sess[t], NEW to, NEW st,
         <<pc[t], session[s].state, to, st>> \in StateMoves,
         session[s].context, session[s].execution, Linked(s),
         NEW k \in 0 .. Kernels, k < Kernels \/ st # "dispatching",
         session' = [session EXCEPT ![s] = [session[s] EXCEPT !.state = st, !.next_kernel = k]],
         pc' = [pc EXCEPT ![t] = to], UNCHANGED <<exec, sess, live, collection>>
  PROVE  SessionInv' /\ session' \in [Sessions -> SessionRecords]
<1>0. \/ pc[t] = "dispatch" /\ session[s].state = "recording"
           /\ to = "dispatching" /\ st = "dispatching"
      \/ pc[t] = "finish" /\ session[s].state = "recording"
           /\ to = "finishing" /\ st = "submitting"
      \/ pc[t] = "dispatching" /\ session[s].state = "dispatching"
           /\ to = "end_operation" /\ st = "recording"
      \/ pc[t] = "finishing" /\ session[s].state = "submitting"
           /\ to = "copy" /\ st = "copy_ready"
  BY DEF StateMoves
<1>1. /\ s \in Sessions /\ session[s].installed /\ collection.session # s
      /\ \A u \in Threads : sess[u] = s => pc[u] \notin BuilderPcs
  BY <1>0, UserIsCounted DEF UserPcs
<1>2. /\ session' \in [Sessions -> SessionRecords]
      /\ \A u \in Sessions \ {s} : session'[u] = session[u]
      /\ session'[s].state = st /\ session'[s].next_kernel = k
      /\ session'[s].context /\ session'[s].execution /\ session'[s].installed
      /\ session'[s].program = session[s].program
  <2>1. session[s] \in SessionRecords /\ st \in States
    BY <1>0, <1>1 DEF IInv, Typed, States, Terminal
  <2>2. [session[s] EXCEPT !.state = st, !.next_kernel = k] \in SessionRecords
    BY <2>1 DEF SessionRecords
  <2> QED
    BY <1>0, <1>1, <2>1, <2>2 DEF IInv, Typed, SessionRecords
<1>3. /\ \A u \in Threads : pc'[u] = IF u = t THEN to ELSE pc[u]
      /\ sess \in [Threads -> Sessions \cup {NoSession}]
      /\ collection.session \in Sessions \cup {NoSession}
      /\ \A u \in Sessions \cup {NoSession} : Linked(u)' <=> Linked(u)
  BY DEF IInv, Typed, Collections, Linked
<1>4. /\ \A u \in Sessions \ {s} : Holds(u, "creating")' <=> Holds(u, "creating")
      /\ \A u \in Sessions \ {s} : \A x : HoldsExecution(u, x)' <=> HoldsExecution(u, x)
      /\ HoldsExecution(s, st)'
  BY <1>0, <1>1, <1>2, <1>3 DEF Holds, HoldsExecution
<1>5. \A u \in Threads \ {t} : pc[u] \in WorkPcs => sess[u] # s
  BY <1>0, <1>1 DEF IInv, SessionInv, WorkersAreAlone, ClaimsHold, WorkPcs, Holds, HoldsExecution
<1>6. /\ pc[t] \notin BuilderPcs /\ to \notin BuilderPcs
      /\ pc[t] \notin OwningPcs /\ to \notin OwningPcs
      /\ to \in PinningPcs /\ to \notin OrphanPcs
      /\ st # "free"
  BY <1>0 DEF BuilderPcs, OwningPcs, UserPcs, PinningPcs, OrphanPcs
<1>7. \A v \in Sessions : session'[v].installed = session[v].installed
  BY <1>0, <1>1, <1>2
<1>8. SessionsArePinned'
  <2>1. \A u \in Threads \ {t} : pc[u] \in BuilderPcs => sess[u] \in Sessions \ {s}
    BY <1>1 DEF IInv, SessionInv, SessionsArePinned
  <2> QED
    BY <1>0, <1>1, <1>2, <1>3, <1>6, <1>7, <2>1 DEF IInv, SessionInv, SessionsArePinned
<1>9. SessionsAreAccounted'
  <2>1. \A v \in Sessions : (\E u \in Threads : pc[u] \in BuilderPcs /\ sess[u] = v)
                           => \E u \in Threads : pc'[u] \in BuilderPcs /\ sess'[u] = v
    BY <1>0, <1>3, <1>6
  <2> QED
    BY <1>0, <1>1, <1>2, <1>6, <1>7, <2>1 DEF IInv, SessionInv, SessionsAreAccounted
<1>10. BuildersAreInOrder'
  BY <1>0, <1>1, <1>2, <1>3, <1>6
  DEF IInv, SessionInv, SessionsArePinned, BuildersAreInOrder, BuilderPcs
<1>11. LiveListIsExact'
  BY <1>0, <1>1, <1>2, <1>3, <1>6 DEF IInv, SessionInv, LiveListIsExact, BuilderPcs
<1>12. WorkersAreAlone'
  BY <1>0, <1>3, <1>5 DEF IInv, SessionInv, WorkersAreAlone
<1>13. ClaimsHold'
  <2>1. \A u \in Threads \ {t} :
          pc[u] \in WorkPcs \cup {"create_execution", "publish"} => sess[u] \in Sessions \ {s}
    BY <1>0, <1>1, <1>5 DEF IInv, SessionInv, SessionsArePinned, BuilderPcs, UserPcs, WorkPcs
  <2>2. /\ to \notin {"create_execution", "publish", "copy_failed", "close"}
        /\ to = "dispatching" => st = "dispatching"
        /\ to = "finishing" => st = "submitting"
        /\ to = "copy" => st = "copy_ready"
    BY <1>0
  <2> QED
    BY <1>0, <1>3, <1>4, <2>1, <2>2 DEF IInv, SessionInv, ClaimsHold, WorkPcs
<1>14. FinalizerIsAlone'
  <2>1. pc[t] \notin OrphanPcs
    BY <1>0 DEF OrphanPcs
  <2> QED
    BY <1>0, <1>1, <1>2, <1>3, <1>6, <2>1 DEF IInv, SessionInv, FinalizerIsAlone
<1>15. ExecutionsAreOwned'
  <2>1. \A u \in Threads, v \in Sessions : Owns(u, v)' <=> Owns(u, v)
    BY <1>0, <1>3, <1>6 DEF Owns
  <2>2. \A v \in Sessions : FinalizerOwns(v)' <=> FinalizerOwns(v)
    BY DEF FinalizerOwns
  <2> QED
    BY <1>0, <1>1, <1>2, <2>1, <2>2 DEF IInv, SessionInv, ExecutionsAreOwned
<1> QED
  BY <1>2, <1>8, <1>9, <1>10, <1>11, <1>12, <1>13, <1>14, <1>15 DEF SessionInv

(* A new wrapper.                                                          *)
LEMMA BuilderAllocates ==
  ASSUME IInv, NEW t \in Threads, pc[t] = "retain", NEW s \in Sessions, session[s] = Unused,
         NEW r \in SessionRecords, r.state = "creating", r.context, ~r.execution, ~r.installed,
         session' = [session EXCEPT ![s] = r],
         pc' = [pc EXCEPT ![t] = "metadata"], sess' = [sess EXCEPT ![t] = s],
         UNCHANGED <<exec, live, collection>>
  PROVE  SessionInv' /\ session' \in [Sessions -> SessionRecords]
<1>1. /\ session[s].state = "free" /\ ~session[s].context /\ ~session[s].execution
      /\ ~session[s].installed
  BY DEF Unused
<1>2. /\ session' \in [Sessions -> SessionRecords] /\ session'[s] = r
      /\ \A u \in Sessions \ {s} : session'[u] = session[u]
  BY DEF IInv, Typed
<1>3. /\ \A u \in Threads : pc'[u] = IF u = t THEN "metadata" ELSE pc[u]
      /\ \A u \in Threads : sess'[u] = IF u = t THEN s ELSE sess[u]
      /\ sess \in [Threads -> Sessions \cup {NoSession}]
      /\ collection.session \in Sessions \cup {NoSession}
      /\ \A u \in Sessions \cup {NoSession} : Linked(u)' <=> Linked(u)
      /\ NoSession \notin Sessions
  BY AccelRuntimeAssumption DEF IInv, Typed, Collections, Linked
<1>4. pc[t] \in Claimed /\ \A u \in Threads : pc[u] \notin OrphanPcs
  BY PcSets, NoOrphans
<1>5. \A u \in Threads : sess[u] # s
  BY <1>1, <1>3, <1>4 DEF IInv, SessionInv, SessionsArePinned, PinningPcs
<1>6. collection.session # s
  BY <1>1, <1>3 DEF IInv, SessionInv, FinalizerIsAlone
<1>7. ~Linked(s) /\ ~exec[s]
  BY <1>1, <1>5, <1>6
  DEF IInv, SessionInv, LiveListIsExact, ExecutionsAreOwned, Owns, FinalizerOwns, Typed
<1>8. /\ \A u \in Sessions \ {s} : Holds(u, "creating")' <=> Holds(u, "creating")
      /\ \A u \in Sessions \ {s} : \A x : HoldsExecution(u, x)' <=> HoldsExecution(u, x)
  BY <1>2, <1>3 DEF Holds, HoldsExecution
<1>9. SessionsArePinned'
  <2>1. "metadata" \in BuilderPcs \cap PinningPcs
        /\ "metadata" \notin UserPcs \cup {"end_operation"}
    BY DEF BuilderPcs, PinningPcs, UserPcs
  <2>2. \A u \in Threads \ {t} : sess[u] \in Sessions => session'[sess[u]] = session[sess[u]]
    BY <1>2, <1>5
  <2> QED
    BY <1>2, <1>3, <1>5, <2>1, <2>2 DEF IInv, SessionInv, SessionsArePinned
<1>10. SessionsAreAccounted'
  <2>1. "metadata" \in BuilderPcs /\ pc[t] \notin BuilderPcs
    BY DEF BuilderPcs
  <2>2. \A v \in Sessions : (\E u \in Threads : pc[u] \in BuilderPcs /\ sess[u] = v) \/ v = s
                           => \E u \in Threads : pc'[u] \in BuilderPcs /\ sess'[u] = v
    BY <1>3, <2>1
  <2> QED
    BY <1>2, <2>2 DEF IInv, SessionInv, SessionsAreAccounted
<1>11. BuildersAreInOrder'
  BY <1>2, <1>3, <1>5, <1>7
  DEF IInv, SessionInv, SessionsArePinned, BuildersAreInOrder, BuilderPcs
<1>12. LiveListIsExact'
  BY <1>2, <1>3, <1>7 DEF IInv, SessionInv, LiveListIsExact
<1>13. WorkersAreAlone'
  BY <1>3 DEF IInv, SessionInv, WorkersAreAlone, WorkPcs
<1>14. ClaimsHold'
  <2>1. \A u \in Threads \ {t} :
          pc[u] \in WorkPcs \cup {"create_execution", "publish"} => sess[u] \in Sessions \ {s}
    BY <1>5 DEF IInv, SessionInv, SessionsArePinned, BuilderPcs, UserPcs, WorkPcs
  <2> QED
    BY <1>3, <1>8, <2>1 DEF IInv, SessionInv, ClaimsHold, WorkPcs
<1>15. FinalizerIsAlone'
  BY <1>2, <1>3, <1>4, <1>6 DEF IInv, SessionInv, FinalizerIsAlone
<1>16. ExecutionsAreOwned'
  <2>1. \A u \in Threads, v \in Sessions : Owns(u, v)' <=> Owns(u, v)
    BY <1>3 DEF Owns, OwningPcs
  <2>2. \A v \in Sessions : FinalizerOwns(v)' <=> FinalizerOwns(v)
    BY DEF FinalizerOwns
  <2> QED
    BY <1>1, <1>2, <2>1, <2>2 DEF IInv, SessionInv, ExecutionsAreOwned
<1> QED
  BY <1>2, <1>9, <1>10, <1>11, <1>12, <1>13, <1>14, <1>15, <1>16 DEF SessionInv

(* The session is linked and gets an execution: no session changes.        *)
LEMMA BuilderLinks ==
  ASSUME IInv, NEW t \in Threads, NEW s, s = sess[t], pc[t] = "link", Link(s),
         pc' = [pc EXCEPT ![t] = "create_execution"],
         UNCHANGED <<session, exec, sess, collection>>
  PROVE  SessionInv' /\ live' \in Seq(Sessions)
<1>1. /\ s \in Sessions /\ \A u \in Threads \ {t} : sess[u] # s
      /\ ~session[s].installed /\ session[s].state # "free" /\ collection.session # s
      /\ session[s].state = "creating" /\ session[s].context
      /\ ~Linked(s) /\ ~session[s].execution
  BY BuilderIsAlone DEF IInv, SessionInv, BuildersAreInOrder, BuilderPcs
<1>2. /\ live' \in Seq(Sessions)
      /\ \A u \in Sessions : Linked(u)' <=> Linked(u) \/ u = s
      /\ \A i, j \in 1 .. Len(live') : live'[i] = live'[j] => i = j
  BY <1>1, LinkEffect DEF IInv, Typed, SessionInv, LiveListIsExact
<1>3. /\ \A u \in Threads : pc'[u] = IF u = t THEN "create_execution" ELSE pc[u]
      /\ sess \in [Threads -> Sessions \cup {NoSession}]
      /\ collection.session \in Sessions \cup {NoSession} /\ NoSession \notin Sessions
      /\ pc[t] \notin OrphanPcs
  BY AccelRuntimeAssumption DEF IInv, Typed, Collections, OrphanPcs
<1>4. \A u \in Threads : pc[u] \in BuilderPcs \cup UserPcs => sess[u] \in Sessions
  BY DEF IInv, SessionInv, SessionsArePinned
<1>5. SessionsArePinned' /\ SessionsAreAccounted'
  <2>1. SessionsArePinned'
    BY <1>3 DEF IInv, SessionInv, SessionsArePinned, BuilderPcs, UserPcs, PinningPcs, OrphanPcs
  <2>2. SessionsAreAccounted'
    BY <1>3 DEF IInv, SessionInv, SessionsAreAccounted, BuilderPcs
  <2> QED
    BY <2>1, <2>2
<1>6. BuildersAreInOrder'
  BY <1>1, <1>2, <1>3, <1>4 DEF IInv, SessionInv, BuildersAreInOrder, BuilderPcs
<1>7. LiveListIsExact'
  BY <1>1, <1>2, <1>3 DEF IInv, SessionInv, LiveListIsExact
<1>8. WorkersAreAlone' /\ ClaimsHold'
  <2>1. /\ \A u \in Sessions : \A x : Holds(u, x) => Holds(u, x)'
        /\ Holds(s, "creating")'
    BY <1>1, <1>2 DEF Holds
  <2>0. \A u \in Sessions : \A x : HoldsExecution(u, x) => HoldsExecution(u, x)'
    BY <2>1 DEF HoldsExecution
  <2>2. ClaimsHold'
    BY <1>3, <1>4, <2>0, <2>1 DEF IInv, SessionInv, ClaimsHold, BuilderPcs, UserPcs
  <2> QED
    BY <1>3, <2>2 DEF IInv, SessionInv, WorkersAreAlone, WorkPcs
<1>9. FinalizerIsAlone'
  BY <1>1, <1>2, <1>3 DEF IInv, SessionInv, FinalizerIsAlone
<1>10. ExecutionsAreOwned'
  <2>1. \A u \in Threads, v \in Sessions : Owns(u, v)' <=> Owns(u, v)
    BY <1>3 DEF Owns, OwningPcs
  <2>2. \A v \in Sessions : FinalizerOwns(v)' <=> FinalizerOwns(v)
    BY DEF FinalizerOwns
  <2> QED
    BY <2>1, <2>2 DEF IInv, SessionInv, ExecutionsAreOwned
<1> QED
  BY <1>2, <1>5, <1>6, <1>7, <1>8, <1>9, <1>10 DEF SessionInv

LEMMA BuilderCreates ==
  ASSUME IInv, NEW t \in Threads, NEW s, s = sess[t], pc[t] = "create_execution",
         exec' = [exec EXCEPT ![s] = TRUE], pc' = [pc EXCEPT ![t] = "publish"],
         UNCHANGED <<session, live, sess, collection>>
  PROVE  SessionInv' /\ exec' \in [Sessions -> BOOLEAN]
<1>1. /\ s \in Sessions /\ \A u \in Threads \ {t} : sess[u] # s
      /\ ~session[s].installed /\ session[s].state # "free" /\ collection.session # s
      /\ Holds(s, "creating") /\ ~session[s].execution
  BY BuilderIsAlone DEF IInv, SessionInv, BuildersAreInOrder, ClaimsHold, BuilderPcs
<1>2. /\ exec' \in [Sessions -> BOOLEAN]
      /\ \A u \in Sessions : exec'[u] = IF u = s THEN TRUE ELSE exec[u]
  BY <1>1 DEF IInv, Typed
<1>3. /\ \A u \in Threads : pc'[u] = IF u = t THEN "publish" ELSE pc[u]
      /\ sess \in [Threads -> Sessions \cup {NoSession}]
      /\ collection.session \in Sessions \cup {NoSession} /\ NoSession \notin Sessions
      /\ pc[t] \notin OrphanPcs
  BY AccelRuntimeAssumption DEF IInv, Typed, Collections, OrphanPcs
<1>4. \A u : /\ Linked(u)' <=> Linked(u)
             /\ Holds(u, "creating")' <=> Holds(u, "creating")
             /\ \A x : HoldsExecution(u, x)' <=> HoldsExecution(u, x)
  BY DEF Linked, Holds, HoldsExecution
<1>5. SessionsArePinned'
  BY <1>3 DEF IInv, SessionInv, SessionsArePinned, BuilderPcs, UserPcs, PinningPcs, OrphanPcs
<1>6. SessionsAreAccounted'
  BY <1>3 DEF IInv, SessionInv, SessionsAreAccounted, BuilderPcs
<1>7. BuildersAreInOrder' /\ LiveListIsExact'
  BY <1>1, <1>3, <1>4 DEF IInv, SessionInv, BuildersAreInOrder, LiveListIsExact
<1>8. WorkersAreAlone' /\ ClaimsHold'
  BY <1>1, <1>3, <1>4 DEF IInv, SessionInv, WorkersAreAlone, ClaimsHold, WorkPcs
<1>9. FinalizerIsAlone'
  BY <1>3, <1>4 DEF IInv, SessionInv, FinalizerIsAlone
<1>10. ExecutionsAreOwned'
  <2>1. \A u \in Threads, v \in Sessions \ {s} : Owns(u, v)' <=> Owns(u, v)
    BY <1>3 DEF Owns
  <2>2. \A v \in Sessions : FinalizerOwns(v)' <=> FinalizerOwns(v)
    BY DEF FinalizerOwns
  <2>3. /\ \A u \in Threads : Owns(u, s)' <=> u = t
        /\ ~FinalizerOwns(s)
    BY <1>1, <1>3 DEF Owns, OwningPcs, FinalizerOwns
  <2>4. exec'[s] /\ Owns(t, s)' /\ \A v \in Sessions \ {s} : exec'[v] = exec[v]
    BY <1>1, <1>2, <2>3
  <2> QED
    BY <1>1, <2>1, <2>2, <2>3, <2>4 DEF IInv, SessionInv, ExecutionsAreOwned
<1> QED
  BY <1>2, <1>5, <1>6, <1>7, <1>8, <1>9, <1>10 DEF SessionInv

(* The session takes over the execution, then the dictionary the session.  *)
LEMMA BuilderPublishes ==
  ASSUME IInv, NEW t \in Threads, NEW s, s = sess[t], NEW to, NEW r \in SessionRecords,
         \/ /\ pc[t] = "publish" /\ to = "install"
            /\ r.state = "recording" /\ r.execution /\ ~r.installed
         \/ /\ pc[t] = "install" /\ to = "end_operation"
            /\ r.state = session[s].state /\ r.execution = session[s].execution /\ r.installed,
         r.context = session[s].context, r.program = session[s].program,
         r.next_kernel = session[s].next_kernel,
         session' = [session EXCEPT ![s] = r], pc' = [pc EXCEPT ![t] = to],
         UNCHANGED <<exec, sess, live, collection>>
  PROVE  SessionInv' /\ session' \in [Sessions -> SessionRecords]
<1>1. /\ s \in Sessions /\ \A u \in Threads \ {t} : sess[u] # s
      /\ ~session[s].installed /\ session[s].state # "free" /\ collection.session # s
  BY BuilderIsAlone DEF BuilderPcs
<1>2. /\ session' \in [Sessions -> SessionRecords] /\ session'[s] = r
      /\ \A u \in Sessions \ {s} : session'[u] = session[u]
      /\ r.state # "free" /\ (r.state = "dispatching" => r.next_kernel < Kernels)
  BY <1>1 DEF IInv, Typed, SessionInv, SessionsAreAccounted
<1>3. /\ \A u \in Threads : pc'[u] = IF u = t THEN to ELSE pc[u]
      /\ sess \in [Threads -> Sessions \cup {NoSession}]
      /\ collection.session \in Sessions \cup {NoSession} /\ NoSession \notin Sessions
      /\ pc[t] \notin OrphanPcs
  BY AccelRuntimeAssumption DEF IInv, Typed, Collections, OrphanPcs
<1>4. /\ \A u : Linked(u)' <=> Linked(u)
      /\ \A u \in Sessions \ {s} : Holds(u, "creating")' <=> Holds(u, "creating")
      /\ \A u \in Sessions \ {s} : \A x : HoldsExecution(u, x)' <=> HoldsExecution(u, x)
  BY <1>2 DEF Linked, Holds, HoldsExecution
<1>5. SessionsArePinned'
  <2>1. \A u \in Threads \ {t} : sess[u] \in Sessions => session'[sess[u]] = session[sess[u]]
    BY <1>1, <1>2
  <2> QED
    BY <1>1, <1>2, <1>3, <2>1
    DEF IInv, SessionInv, SessionsArePinned, BuilderPcs, UserPcs, PinningPcs, OrphanPcs
<1>6. SessionsAreAccounted'
  <2>1. \A v \in Sessions \ {s} :
          (\E u \in Threads : pc[u] \in BuilderPcs /\ sess[u] = v)
            => \E u \in Threads : pc'[u] \in BuilderPcs /\ sess'[u] = v
    BY <1>3
  <2>2. r.installed \/ \E u \in Threads : pc'[u] \in BuilderPcs /\ sess'[u] = s
    BY <1>3 DEF BuilderPcs
  <2> QED
    BY <1>1, <1>2, <2>1, <2>2 DEF IInv, SessionInv, SessionsAreAccounted
<1>7. BuildersAreInOrder'
  BY <1>1, <1>2, <1>3, <1>4
  DEF IInv, SessionInv, SessionsArePinned, BuildersAreInOrder, BuilderPcs
<1>8. LiveListIsExact'
  <2>1. pc[t] = "publish" => Linked(s)
    BY DEF IInv, SessionInv, ClaimsHold, Holds
  <2> QED
    BY <1>1, <1>2, <1>3, <1>4, <2>1 DEF IInv, SessionInv, LiveListIsExact
<1>9. WorkersAreAlone'
  BY <1>3 DEF IInv, SessionInv, WorkersAreAlone, WorkPcs
<1>10. ClaimsHold'
  <2>1. \A u \in Threads \ {t} :
          pc[u] \in WorkPcs \cup {"create_execution", "publish"} => sess[u] \in Sessions \ {s}
    BY <1>1 DEF IInv, SessionInv, SessionsArePinned, BuilderPcs, UserPcs, WorkPcs
  <2> QED
    BY <1>3, <1>4, <2>1 DEF IInv, SessionInv, ClaimsHold, WorkPcs
<1>11. FinalizerIsAlone'
  BY <1>1, <1>2, <1>3, <1>4 DEF IInv, SessionInv, FinalizerIsAlone
<1>12. ExecutionsAreOwned'
  <2>1. \A u \in Threads, v \in Sessions \ {s} : Owns(u, v)' <=> Owns(u, v)
    BY <1>3 DEF Owns
  <2>2. \A v \in Sessions : FinalizerOwns(v)' <=> FinalizerOwns(v)
    BY DEF FinalizerOwns
  <2>3. (\A u \in Threads : ~Owns(u, s)') /\ ~FinalizerOwns(s)
    BY <1>1, <1>3 DEF Owns, OwningPcs, FinalizerOwns
  <2>4. exec[s] <=> r.execution
    BY <1>1, <2>3 DEF IInv, SessionInv, ExecutionsAreOwned, Owns, OwningPcs
  <2> QED
    BY <1>1, <1>2, <2>1, <2>2, <2>3, <2>4 DEF IInv, SessionInv, ExecutionsAreOwned
<1> QED
  BY <1>2, <1>5, <1>6, <1>7, <1>8, <1>9, <1>10, <1>11, <1>12 DEF SessionInv

(* A thread destroys the execution that it owns.                           *)
DestroyPairs == {<<"undo_exec", "discard_free">>, <<"discard_exec", "discard_free">>,
                 <<"fail_exec", "end_operation">>, <<"close_exec", "end_operation">>}

LEMMA ThreadDestroys ==
  ASSUME IInv, NEW t \in Threads, NEW s, s = sess[t], NEW to, <<pc[t], to>> \in DestroyPairs,
         exec' = [exec EXCEPT ![s] = FALSE], pc' = [pc EXCEPT ![t] = to],
         UNCHANGED <<session, live, sess, collection>>
  PROVE  SessionInv' /\ exec' \in [Sessions -> BOOLEAN]
<1>1. /\ s \in Sessions /\ Owns(t, s) /\ pc[t] \in Claimed
      /\ pc[t] \in UserPcs => session[s].installed
      /\ to \notin WorkPcs /\ to \notin OwningPcs /\ pc[t] \notin OrphanPcs
  BY PcSets, AccelRuntimeAssumption
  DEF IInv, SessionInv, SessionsArePinned, BuilderPcs, UserPcs, Owns, OwningPcs, OrphanPcs, WorkPcs,
      DestroyPairs
<1>2. /\ exec' \in [Sessions -> BOOLEAN] /\ ~exec'[s]
      /\ \A u \in Sessions \ {s} : exec'[u] = exec[u]
  BY <1>1 DEF IInv, Typed
<1>3. /\ \A u \in Threads : pc'[u] = IF u = t THEN to ELSE pc[u]
      /\ sess \in [Threads -> Sessions \cup {NoSession}]
      /\ collection.session \in Sessions \cup {NoSession} /\ NoSession \notin Sessions
  BY AccelRuntimeAssumption DEF IInv, Typed, Collections
<1>4. \A u : /\ Linked(u)' <=> Linked(u)
             /\ Holds(u, "creating")' <=> Holds(u, "creating")
             /\ \A x : HoldsExecution(u, x)' <=> HoldsExecution(u, x)
  BY DEF Linked, Holds, HoldsExecution
<1>5. SessionsArePinned'
  BY <1>1, <1>3
  DEF IInv, SessionInv, SessionsArePinned, BuilderPcs, UserPcs, PinningPcs, OrphanPcs,
      DestroyPairs
<1>6. SessionsAreAccounted'
  BY <1>1, <1>3 DEF IInv, SessionInv, SessionsAreAccounted, BuilderPcs, DestroyPairs
<1>7. BuildersAreInOrder' /\ LiveListIsExact'
  BY <1>1, <1>3, <1>4 DEF IInv, SessionInv, BuildersAreInOrder, LiveListIsExact, DestroyPairs
<1>8. WorkersAreAlone' /\ ClaimsHold'
  BY <1>1, <1>3, <1>4 DEF IInv, SessionInv, WorkersAreAlone, ClaimsHold, WorkPcs, DestroyPairs
<1>9. FinalizerIsAlone'
  BY <1>1, <1>3, <1>4 DEF IInv, SessionInv, FinalizerIsAlone
<1>10. ExecutionsAreOwned'
  <2>1. \A u \in Threads, v \in Sessions \ {s} : Owns(u, v)' <=> Owns(u, v)
    BY <1>3 DEF Owns
  <2>2. \A v \in Sessions : FinalizerOwns(v)' <=> FinalizerOwns(v)
    BY DEF FinalizerOwns
  <2>3. /\ ~session[s].execution /\ ~FinalizerOwns(s)
        /\ \A u \in Threads : Owns(u, s) => u = t
    BY <1>1 DEF IInv, SessionInv, ExecutionsAreOwned
  <2>4. \A u \in Threads : ~Owns(u, s)'
    BY <1>1, <1>3, <2>3 DEF Owns
  <2> QED
    BY <1>2, <2>1, <2>2, <2>3, <2>4 DEF IInv, SessionInv, ExecutionsAreOwned
<1> QED
  BY <1>2, <1>5, <1>6, <1>7, <1>8, <1>9, <1>10 DEF SessionInv

(* The wrapper of a session that was given up is freed.                    *)
LEMMA BuilderFrees ==
  ASSUME IInv, NEW t \in Threads, NEW s, s = sess[t], pc[t] = "discard_free",
         session' = [session EXCEPT ![s] = Unused],
         pc' = [pc EXCEPT ![t] = "end_operation"], sess' = [sess EXCEPT ![t] = NoSession],
         UNCHANGED <<exec, live, collection>>
  PROVE  /\ SessionInv' /\ session' \in [Sessions -> SessionRecords]
         /\ s \in Sessions /\ session[s].state # "free"
<1>1. /\ s \in Sessions /\ \A u \in Threads \ {t} : sess[u] # s
      /\ ~session[s].installed /\ session[s].state # "free" /\ collection.session # s
      /\ ~Linked(s)
  BY BuilderIsAlone DEF IInv, SessionInv, BuildersAreInOrder, BuilderPcs
<1>2. /\ session' \in [Sessions -> SessionRecords] /\ session'[s] = Unused
      /\ \A u \in Sessions \ {s} : session'[u] = session[u]
  <2>1. Unused \in SessionRecords
    BY AccelRuntimeAssumption DEF Unused, SessionRecords, States
  <2> QED
    BY <1>1, <2>1 DEF IInv, Typed
<1>3. /\ \A u \in Threads : pc'[u] = IF u = t THEN "end_operation" ELSE pc[u]
      /\ \A u \in Threads : sess'[u] = IF u = t THEN NoSession ELSE sess[u]
      /\ sess \in [Threads -> Sessions \cup {NoSession}]
      /\ collection.session \in Sessions \cup {NoSession} /\ NoSession \notin Sessions
      /\ pc[t] \notin OrphanPcs
  BY AccelRuntimeAssumption DEF IInv, Typed, Collections, OrphanPcs
<1>4. /\ \A u : Linked(u)' <=> Linked(u)
      /\ \A u \in Sessions \ {s} : Holds(u, "creating")' <=> Holds(u, "creating")
      /\ \A u \in Sessions \ {s} : \A x : HoldsExecution(u, x)' <=> HoldsExecution(u, x)
  BY <1>2 DEF Linked, Holds, HoldsExecution
<1>5. /\ Unused.state = "free" /\ ~Unused.context /\ ~Unused.execution
      /\ Unused.program = NoProgram /\ ~Unused.installed
  BY DEF Unused
<1>6. SessionsArePinned'
  <2>1. \A u \in Threads \ {t} : sess[u] \in Sessions => session'[sess[u]] = session[sess[u]]
    BY <1>1, <1>2
  <2> QED
    BY <1>1, <1>2, <1>3, <2>1
    DEF IInv, SessionInv, SessionsArePinned, BuilderPcs, UserPcs, PinningPcs, OrphanPcs
<1>7. SessionsAreAccounted'
  <2>1. \A v \in Sessions \ {s} :
          (\E u \in Threads : pc[u] \in BuilderPcs /\ sess[u] = v)
            => \E u \in Threads : pc'[u] \in BuilderPcs /\ sess'[u] = v
    BY <1>3
  <2> QED
    BY <1>2, <1>5, <2>1 DEF IInv, SessionInv, SessionsAreAccounted
<1>8. BuildersAreInOrder'
  BY <1>1, <1>2, <1>3, <1>4
  DEF IInv, SessionInv, SessionsArePinned, BuildersAreInOrder, BuilderPcs
<1>9. LiveListIsExact'
  BY <1>1, <1>2, <1>3, <1>4, <1>5 DEF IInv, SessionInv, LiveListIsExact
<1>10. WorkersAreAlone'
  BY <1>3 DEF IInv, SessionInv, WorkersAreAlone, WorkPcs
<1>11. ClaimsHold'
  <2>1. \A u \in Threads \ {t} :
          pc[u] \in WorkPcs \cup {"create_execution", "publish"} => sess[u] \in Sessions \ {s}
    BY <1>1 DEF IInv, SessionInv, SessionsArePinned, BuilderPcs, UserPcs, WorkPcs
  <2> QED
    BY <1>3, <1>4, <2>1 DEF IInv, SessionInv, ClaimsHold, WorkPcs
<1>12. FinalizerIsAlone'
  BY <1>1, <1>2, <1>3, <1>4 DEF IInv, SessionInv, FinalizerIsAlone
<1>13. ExecutionsAreOwned'
  <2>1. \A u \in Threads, v \in Sessions : Owns(u, v)' <=> Owns(u, v)
    BY <1>3 DEF Owns, OwningPcs
  <2>2. \A v \in Sessions : FinalizerOwns(v)' <=> FinalizerOwns(v)
    BY DEF FinalizerOwns
  <2>3. \A v \in Sessions : session'[v].execution = session[v].execution
    BY <1>1, <1>2, <1>5 DEF IInv, Typed, SessionRecords, SessionInv, LiveListIsExact
  <2> QED
    BY <2>1, <2>2, <2>3 DEF IInv, SessionInv, ExecutionsAreOwned
<1> QED
  BY <1>1, <1>2, <1>6, <1>7, <1>8, <1>9, <1>10, <1>11, <1>12, <1>13 DEF SessionInv

(* A thread enters or leaves an operation, or is the main thread.          *)
LEMMA OutsideMove ==
  ASSUME IInv, NEW t \in Threads, NEW to, NEW x \in Sessions \cup {NoSession},
         pc[t] \notin BuilderPcs \cup WorkPcs \cup OwningPcs,
         to \notin BuilderPcs \cup WorkPcs \cup OwningPcs,
         to \notin PinningPcs => x = NoSession,
         to \in UserPcs => x \in Sessions,
         x \in Sessions => session[x].installed /\ x # collection.session,
         pc' = [pc EXCEPT ![t] = to], sess' = [sess EXCEPT ![t] = x],
         UNCHANGED <<session, exec, live, collection>>
  PROVE  SessionInv'
<1>1. /\ \A u \in Threads : pc'[u] = IF u = t THEN to ELSE pc[u]
      /\ \A u \in Threads : sess'[u] = IF u = t THEN x ELSE sess[u]
      /\ sess \in [Threads -> Sessions \cup {NoSession}]
      /\ collection.session \in Sessions \cup {NoSession} /\ NoSession \notin Sessions
  BY AccelRuntimeAssumption DEF IInv, Typed, Collections
<1>2. \A u : /\ Linked(u)' <=> Linked(u)
             /\ Holds(u, "creating")' <=> Holds(u, "creating")
             /\ \A y : HoldsExecution(u, y)' <=> HoldsExecution(u, y)
  BY DEF Linked, Holds, HoldsExecution
<1>3. SessionsArePinned'
  <2>1. to # "orphan_exec"
    BY DEF OwningPcs
  <2>2. \A u \in Threads : pc[u] \in BuilderPcs => sess[u] # x
    BY <1>1 DEF IInv, SessionInv, SessionsArePinned
  <2> QED
    BY <1>1, <2>1, <2>2 DEF IInv, SessionInv, SessionsArePinned
<1>4. SessionsAreAccounted'
  <2>1. \A v \in Sessions : (\E u \in Threads : pc[u] \in BuilderPcs /\ sess[u] = v)
                           => \E u \in Threads : pc'[u] \in BuilderPcs /\ sess'[u] = v
    BY <1>1
  <2> QED
    BY <2>1 DEF IInv, SessionInv, SessionsAreAccounted
<1>5. BuildersAreInOrder' /\ LiveListIsExact'
  <2>1. BuildersAreInOrder'
    BY <1>1, <1>2 DEF IInv, SessionInv, BuildersAreInOrder, BuilderPcs
  <2>2. LiveListIsExact'
    BY <1>1, <1>2 DEF IInv, SessionInv, LiveListIsExact, BuilderPcs
  <2> QED
    BY <2>1, <2>2
<1>6. WorkersAreAlone' /\ ClaimsHold'
  BY <1>1, <1>2 DEF IInv, SessionInv, WorkersAreAlone, ClaimsHold, WorkPcs, BuilderPcs
<1>7. FinalizerIsAlone'
  BY <1>1, <1>2 DEF IInv, SessionInv, FinalizerIsAlone
<1>8. ExecutionsAreOwned'
  <2>1. \A u \in Threads, v \in Sessions : Owns(u, v)' <=> Owns(u, v)
    BY <1>1 DEF Owns
  <2>2. \A v \in Sessions : FinalizerOwns(v)' <=> FinalizerOwns(v)
    BY DEF FinalizerOwns
  <2> QED
    BY <2>1, <2>2 DEF IInv, SessionInv, ExecutionsAreOwned
<1> QED
  BY <1>3, <1>4, <1>5, <1>6, <1>7, <1>8 DEF SessionInv

-----------------------------------------------------------------------------
(* The main thread's orphans.                                              *)

LEMMA NoClaims ==
  ASSUME IInv, pc[Main] \in PostDrainPcs
  PROVE  (\A t \in Threads : pc[t] \notin Claimed) /\ ~FinalizerClaims
BY NothingActive DEF IInv, MainIsInOrder

LEMMA MainOrphans ==
  ASSUME IInv, OrphanNext
  PROVE  /\ SessionInv' /\ session' \in [Sessions -> SessionRecords] /\ live' \in Seq(Sessions)
         /\ sess' \in [Threads -> Sessions \cup {NoSession}]
         /\ pc'[Main] \in OrphanPcs
         /\ \A s \in Sessions : session'[s].state = "free" <=> session[s].state = "free"
<1> DEFINE s == Head(live)
           to == IF session[s].execution THEN "orphan_exec" ELSE "orphan_next"
<1>1. /\ pc[Main] = "orphan_next" /\ s \in Sessions /\ Linked(s) /\ CloseSession(s, "orphaned")
      /\ pc' = [pc EXCEPT ![Main] = to] /\ sess' = [sess EXCEPT ![Main] = s]
      /\ UNCHANGED <<exec, collection>>
  BY DEF OrphanNext, Goto, gcVars, IInv, Typed, Linked
<1> HIDE DEF s
<1>2. /\ live' \in Seq(Sessions) /\ session' \in [Sessions -> SessionRecords]
      /\ \A u \in Sessions : Linked(u)' <=> Linked(u) /\ u # s
      /\ \A i, j \in 1 .. Len(live') : live'[i] = live'[j] => i = j
      /\ \A u \in Sessions \ {s} : session'[u] = session[u]
      /\ session'[s].state = "orphaned" /\ ~session'[s].context /\ ~session'[s].execution
      /\ session'[s].program = NoProgram /\ session'[s].installed = session[s].installed
      /\ session'[s].next_kernel = session[s].next_kernel
  BY <1>1, CloseEffect DEF IInv, SessionInv, Terminal
<1>3. /\ \A u \in Threads : pc'[u] = IF u = Main THEN to ELSE pc[u]
      /\ \A u \in Threads : sess'[u] = IF u = Main THEN s ELSE sess[u]
      /\ collection.session \in Sessions \cup {NoSession} /\ NoSession \notin Sessions
      /\ Main \in Threads
  BY <1>1, AccelRuntimeAssumption DEF IInv, Typed, Collections
<1>4. /\ \A u \in Threads : pc[u] \notin Claimed
      /\ \A u \in Threads \ {Main} : pc[u] \notin OrphanPcs
      /\ collection.step \notin {"detach", "exec", "end"}
  BY <1>1, NoClaims, PcSets
  DEF PostDrainPcs, OrphanPcs, FinalizerClaims, IInv, MainIsInOrder, MainPcs
<1>5. /\ BuilderPcs \subseteq Claimed /\ WorkPcs \subseteq Claimed
      /\ to \notin Claimed /\ to \in OrphanPcs /\ to \in PinningPcs
      /\ OwningPcs \subseteq Claimed \cup {"orphan_exec"}
  BY PcSets DEF BuilderPcs, WorkPcs, OrphanPcs, PinningPcs, OwningPcs
<1>6. session[s].state # "free" /\ session[s].installed
  BY <1>1, <1>4, <1>5 DEF IInv, SessionInv, LiveListIsExact, SessionsAreAccounted, Unused
<1>7. SessionsArePinned'
  <2>1. \A u \in Sessions : session'[u].installed = session[u].installed
    BY <1>2
  <2>2. to \notin BuilderPcs \cup UserPcs \cup {"end_operation"}
    BY DEF BuilderPcs, UserPcs
  <2>3. sess \in [Threads -> Sessions \cup {NoSession}]
    BY DEF IInv, Typed
  <2>4. \A u \in Threads : pc'[u] \notin BuilderPcs
    BY <1>3, <1>4, <1>5, <2>2
  <2> HIDE DEF to
  <2> QED
    BY <1>1, <1>3, <1>5, <2>1, <2>2, <2>3, <2>4 DEF IInv, SessionInv, SessionsArePinned
<1>8. SessionsAreAccounted'
  <2>1. \A v \in Sessions : session[v].state = "free" \/ session[v].installed
    BY <1>4, <1>5 DEF IInv, SessionInv, SessionsAreAccounted
  <2> QED
    BY <1>2, <1>6, <2>1 DEF IInv, SessionInv, SessionsAreAccounted
<1>9. BuildersAreInOrder' /\ WorkersAreAlone' /\ ClaimsHold'
  BY <1>3, <1>4, <1>5, PcSets DEF BuildersAreInOrder, WorkersAreAlone, ClaimsHold, WorkPcs
<1>10. LiveListIsExact'
  <2>1. \A v \in Sessions : session[v].context => Linked(v)
    BY <1>4, PcSets DEF IInv, SessionInv, LiveListIsExact
  <2> QED
    BY <1>2, <2>1 DEF IInv, SessionInv, LiveListIsExact
<1>11. FinalizerIsAlone'
  <2>1. collection.session = s => session'[s].installed
    BY <1>2, <1>6
  <2> QED
    BY <1>1, <1>2, <1>3, <1>4, <1>5, <2>1 DEF IInv, SessionInv, FinalizerIsAlone
<1>12. ExecutionsAreOwned'
  <2>1. \A u \in Threads, v \in Sessions : ~Owns(u, v)
    BY <1>1, <1>4, <1>5 DEF Owns, OwningPcs, IInv, MainIsInOrder, MainPcs
  <2>2. \A v \in Sessions : ~FinalizerOwns(v) /\ ~FinalizerOwns(v)'
    BY <1>1, <1>4 DEF FinalizerOwns
  <2>3. \A u \in Threads, v \in Sessions :
          Owns(u, v)' <=> u = Main /\ v = s /\ session[s].execution
    BY <1>1, <1>3, <2>1 DEF Owns, OwningPcs
  <2>4. \A v \in Sessions : exec'[v] <=> session[v].execution
    BY <1>1, <2>1, <2>2 DEF IInv, SessionInv, ExecutionsAreOwned
  <2> QED
    BY <1>2, <1>3, <2>2, <2>3, <2>4 DEF ExecutionsAreOwned
<1>13. sess' \in [Threads -> Sessions \cup {NoSession}]
  BY <1>1 DEF IInv, Typed
<1> QED
  BY <1>2, <1>3, <1>5, <1>6, <1>7, <1>8, <1>9, <1>10, <1>11, <1>12, <1>13 DEF SessionInv

LEMMA MainDestroysOrphan ==
  ASSUME IInv, OrphanExec
  PROVE  SessionInv' /\ exec' \in [Sessions -> BOOLEAN]
<1>1. /\ pc[Main] = "orphan_exec" /\ pc' = [pc EXCEPT ![Main] = "orphan_next"]
      /\ sess' = [sess EXCEPT ![Main] = NoSession]
      /\ exec' = [exec EXCEPT ![sess[Main]] = FALSE]
      /\ UNCHANGED <<session, live, collection>>
  BY DEF OrphanExec, Goto, gcVars, contextVars
<1>2. PICK s \in Sessions : s = sess[Main]
  BY <1>1, AccelRuntimeAssumption DEF IInv, SessionInv, SessionsArePinned
<1>3. /\ \A u \in Threads : pc'[u] = IF u = Main THEN "orphan_next" ELSE pc[u]
      /\ \A u \in Threads : sess'[u] = IF u = Main THEN NoSession ELSE sess[u]
      /\ collection.session \in Sessions \cup {NoSession} /\ NoSession \notin Sessions
      /\ Main \in Threads
      /\ exec' \in [Sessions -> BOOLEAN] /\ ~exec'[s]
      /\ \A v \in Sessions \ {s} : exec'[v] = exec[v]
  BY <1>1, <1>2, AccelRuntimeAssumption DEF IInv, Typed, Collections
<1>4. /\ \A u \in Threads : pc[u] \notin Claimed
      /\ \A u \in Threads \ {Main} : pc[u] \notin OrphanPcs
  BY <1>1, NoClaims, PcSets DEF PostDrainPcs, OrphanPcs, IInv, MainIsInOrder, MainPcs
<1>5. /\ BuilderPcs \subseteq Claimed /\ WorkPcs \subseteq Claimed
      /\ OwningPcs \subseteq Claimed \cup {"orphan_exec"}
  BY PcSets DEF BuilderPcs, WorkPcs, OwningPcs
<1>6. \A u : Linked(u)' <=> Linked(u)
  BY <1>1 DEF Linked
<1>7. SessionsArePinned'
  BY <1>1, <1>3, <1>4, <1>5
  DEF IInv, SessionInv, SessionsArePinned, BuilderPcs, UserPcs, OrphanPcs
<1>8. SessionsAreAccounted'
  <2>1. \A v \in Sessions : session[v].state = "free" \/ session[v].installed
    BY <1>4, <1>5 DEF IInv, SessionInv, SessionsAreAccounted
  <2> QED
    BY <1>1, <2>1 DEF IInv, SessionInv, SessionsAreAccounted
<1>9. BuildersAreInOrder' /\ WorkersAreAlone' /\ ClaimsHold'
  BY <1>3, <1>4, <1>5, PcSets DEF BuildersAreInOrder, WorkersAreAlone, ClaimsHold, WorkPcs
<1>10. LiveListIsExact'
  <2>1. \A v \in Sessions : session[v].context => Linked(v)
    BY <1>4, PcSets DEF IInv, SessionInv, LiveListIsExact
  <2> QED
    BY <1>1, <1>6, <2>1 DEF IInv, SessionInv, LiveListIsExact
<1>11. FinalizerIsAlone'
  BY <1>1, <1>3, <1>6 DEF IInv, SessionInv, FinalizerIsAlone
<1>12. ExecutionsAreOwned'
  <2>1. \A u \in Threads, v \in Sessions : Owns(u, v) <=> u = Main /\ v = s
    BY <1>1, <1>2, <1>4, <1>5 DEF Owns, OwningPcs, IInv, MainIsInOrder, MainPcs
  <2>2. \A u \in Threads, v \in Sessions : ~Owns(u, v)'
    BY <1>3, <2>1 DEF Owns, OwningPcs
  <2>3. \A v \in Sessions : FinalizerOwns(v)' <=> FinalizerOwns(v)
    BY <1>1 DEF FinalizerOwns
  <2> QED
    BY <1>1, <1>3, <2>1, <2>2, <2>3 DEF IInv, SessionInv, ExecutionsAreOwned
<1> QED
  BY <1>3, <1>7, <1>8, <1>9, <1>10, <1>11, <1>12 DEF SessionInv

-----------------------------------------------------------------------------
(* The collections and the finalizer.                                      *)

LEMMA CollectionMove ==
  ASSUME IInv, FinalizerIsAlone', \A s \in Sessions : FinalizerOwns(s)' <=> FinalizerOwns(s),
         UNCHANGED <<session, exec, live, pc, sess>>
  PROVE  SessionInv'
<1>1. \A u : /\ Linked(u)' <=> Linked(u)
             /\ Holds(u, "creating")' <=> Holds(u, "creating")
             /\ \A y : HoldsExecution(u, y)' <=> HoldsExecution(u, y)
  BY DEF Linked, Holds, HoldsExecution
<1>2. SessionsArePinned' /\ SessionsAreAccounted'
  BY DEF IInv, SessionInv, SessionsArePinned, SessionsAreAccounted
<1>3. BuildersAreInOrder' /\ LiveListIsExact'
  BY <1>1 DEF IInv, SessionInv, BuildersAreInOrder, LiveListIsExact
<1>4. WorkersAreAlone' /\ ClaimsHold'
  BY <1>1 DEF IInv, SessionInv, WorkersAreAlone, ClaimsHold
<1>5. \A u \in Threads, v \in Sessions : Owns(u, v)' <=> Owns(u, v)
  BY DEF Owns
<1>6. ExecutionsAreOwned'
  BY <1>5 DEF IInv, SessionInv, ExecutionsAreOwned
<1> QED
  BY <1>2, <1>3, <1>4, <1>6 DEF SessionInv

(* The session that the finalizer works on.                                *)
LEMMA FinalizedSession ==
  ASSUME IInv, NEW c, c = collection.session,
         collection.step \in {"claim", "detach", "exec", "end", "free"}
  PROVE  /\ c \in Sessions /\ session[c].installed /\ session[c].state # "free"
         /\ \A t \in Threads : sess[t] = c => pc[t] \in OrphanPcs
         /\ collection.step \in {"detach", "exec", "end"} => \A t \in Threads : sess[t] # c
<1>1. c \in Sessions /\ session[c].installed
  BY DEF IInv, Typed, Collections, SessionInv, FinalizerIsAlone
<1>2. session[c].state # "free"
  BY <1>1 DEF IInv, SessionInv, SessionsAreAccounted, Unused
<1>3. \A t \in Threads : sess[t] = c => pc[t] \in OrphanPcs
  BY <1>1, AccelRuntimeAssumption DEF IInv, SessionInv, FinalizerIsAlone
<1>4. collection.step \in {"detach", "exec", "end"} => \A t \in Threads : pc[t] \notin OrphanPcs
  BY ClaimIsActive DEF FinalizerClaims, IInv, MainIsInOrder, OrphanPcs, PostDrainPcs, MainPcs
<1> QED
  BY <1>1, <1>2, <1>3, <1>4

LEMMA FinalizerCloses ==
  ASSUME IInv, NEW c, c = collection.session, collection.step = "detach", Linked(c),
         CloseSession(c, "orphaned"),
         collection' = [collection EXCEPT
                          !.step = IF session[c].execution THEN "exec" ELSE "end"],
         UNCHANGED <<exec, pc, sess>>
  PROVE  /\ SessionInv' /\ session' \in [Sessions -> SessionRecords] /\ live' \in Seq(Sessions)
         /\ \A s \in Sessions : session'[s].state = "free" <=> session[s].state = "free"
<1>1. /\ c \in Sessions /\ session[c].installed /\ session[c].state # "free"
      /\ \A t \in Threads : sess[t] # c
  BY FinalizedSession
<1>2. /\ live' \in Seq(Sessions) /\ session' \in [Sessions -> SessionRecords]
      /\ \A u \in Sessions : Linked(u)' <=> Linked(u) /\ u # c
      /\ \A i, j \in 1 .. Len(live') : live'[i] = live'[j] => i = j
      /\ \A u \in Sessions \ {c} : session'[u] = session[u]
      /\ session'[c].state = "orphaned" /\ ~session'[c].context /\ ~session'[c].execution
      /\ session'[c].program = NoProgram /\ session'[c].installed
      /\ session'[c].next_kernel = session[c].next_kernel
  BY <1>1, CloseEffect DEF IInv, SessionInv, Terminal
<1>3. /\ \A u \in Threads : pc'[u] = pc[u] /\ sess'[u] = sess[u]
      /\ sess \in [Threads -> Sessions \cup {NoSession}] /\ NoSession \notin Sessions
      /\ collection'.session = c /\ collection'.by \in Threads
      /\ collection'.step = IF session[c].execution THEN "exec" ELSE "end"
  BY <1>1, AccelRuntimeAssumption DEF IInv, Typed, Collections, SessionInv, FinalizerIsAlone
<1>4. /\ \A u \in Sessions \ {c} : Holds(u, "creating")' <=> Holds(u, "creating")
      /\ \A u \in Sessions \ {c} : \A x : HoldsExecution(u, x)' <=> HoldsExecution(u, x)
  BY <1>2 DEF Holds, HoldsExecution
<1>5. SessionsArePinned'
  <2>1. \A u \in Threads : sess[u] \in Sessions => session'[sess[u]] = session[sess[u]]
    BY <1>1, <1>2
  <2> QED
    BY <1>3, <2>1 DEF IInv, SessionInv, SessionsArePinned
<1>6. SessionsAreAccounted'
  BY <1>1, <1>2, <1>3 DEF IInv, SessionInv, SessionsAreAccounted
<1>7. BuildersAreInOrder'
  BY <1>1, <1>2, <1>3
  DEF IInv, SessionInv, SessionsArePinned, BuildersAreInOrder, BuilderPcs
<1>8. LiveListIsExact'
  BY <1>1, <1>2, <1>3 DEF IInv, SessionInv, LiveListIsExact
<1>9. WorkersAreAlone'
  BY <1>3 DEF IInv, SessionInv, WorkersAreAlone
<1>10. ClaimsHold'
  <2>1. \A u \in Threads :
          pc[u] \in WorkPcs \cup {"create_execution", "publish"} => sess[u] \in Sessions \ {c}
    BY <1>1 DEF IInv, SessionInv, SessionsArePinned, BuilderPcs, UserPcs, WorkPcs
  <2> QED
    BY <1>3, <1>4, <2>1 DEF IInv, SessionInv, ClaimsHold, WorkPcs
<1>11. FinalizerIsAlone'
  BY <1>1, <1>2, <1>3 DEF FinalizerIsAlone
<1>12. ExecutionsAreOwned'
  <2>1. \A u \in Threads, v \in Sessions : Owns(u, v)' <=> Owns(u, v)
    BY <1>3 DEF Owns
  <2>2. /\ \A v \in Sessions : ~FinalizerOwns(v)
        /\ \A v \in Sessions : FinalizerOwns(v)' <=> v = c /\ session[c].execution
    BY <1>3 DEF FinalizerOwns
  <2>3. \A u \in Threads : ~Owns(u, c)
    BY <1>1 DEF Owns
  <2> QED
    BY <1>1, <1>2, <2>1, <2>2, <2>3 DEF IInv, SessionInv, ExecutionsAreOwned
<1>13. \A s \in Sessions : session'[s].state = "free" <=> session[s].state = "free"
  BY <1>1, <1>2
<1> QED
  BY <1>2, <1>5, <1>6, <1>7, <1>8, <1>9, <1>10, <1>11, <1>12, <1>13 DEF SessionInv

LEMMA FinalizerDestroys ==
  ASSUME IInv, NEW c, c = collection.session, collection.step = "exec",
         exec' = [exec EXCEPT ![c] = FALSE], collection' = [collection EXCEPT !.step = "end"],
         UNCHANGED <<session, live, pc, sess>>
  PROVE  SessionInv' /\ exec' \in [Sessions -> BOOLEAN]
<1>1. c \in Sessions
  BY FinalizedSession
<1>2. /\ exec' \in [Sessions -> BOOLEAN] /\ ~exec'[c]
      /\ \A u \in Sessions \ {c} : exec'[u] = exec[u]
  BY <1>1 DEF IInv, Typed
<1>3. /\ \A u : /\ Linked(u)' <=> Linked(u)
                /\ Holds(u, "creating")' <=> Holds(u, "creating")
                /\ \A y : HoldsExecution(u, y)' <=> HoldsExecution(u, y)
      /\ collection'.session = c /\ collection'.step = "end"
  BY DEF Linked, Holds, HoldsExecution, IInv, Typed, Collections
<1>4. SessionsArePinned' /\ SessionsAreAccounted'
  BY DEF IInv, SessionInv, SessionsArePinned, SessionsAreAccounted
<1>5. BuildersAreInOrder' /\ LiveListIsExact'
  BY <1>3 DEF IInv, SessionInv, BuildersAreInOrder, LiveListIsExact
<1>6. WorkersAreAlone' /\ ClaimsHold'
  BY <1>3 DEF IInv, SessionInv, WorkersAreAlone, ClaimsHold
<1>7. FinalizerIsAlone'
  BY <1>3 DEF IInv, SessionInv, FinalizerIsAlone
<1>8. ExecutionsAreOwned'
  <2>1. \A u \in Threads, v \in Sessions : Owns(u, v)' <=> Owns(u, v)
    BY DEF Owns
  <2>2. /\ \A v \in Sessions : FinalizerOwns(v) <=> v = c
        /\ \A v \in Sessions : ~FinalizerOwns(v)'
    BY <1>3 DEF FinalizerOwns
  <2> QED
    BY <1>1, <1>2, <2>1, <2>2 DEF IInv, SessionInv, ExecutionsAreOwned
<1> QED
  BY <1>2, <1>4, <1>5, <1>6, <1>7, <1>8 DEF SessionInv

LEMMA FinalizerFrees ==
  ASSUME IInv, NEW c, c = collection.session, collection.step = "free",
         session' = [session EXCEPT ![c] = Unused],
         collection'.step \notin {"claim", "detach", "exec", "end", "free"},
         collection'.session = NoSession,
         UNCHANGED <<exec, live, pc, sess>>
  PROVE  /\ SessionInv' /\ session' \in [Sessions -> SessionRecords]
         /\ c \in Sessions /\ session[c].state # "free"
<1>1. /\ c \in Sessions /\ session[c].installed /\ session[c].state # "free"
      /\ \A u \in Threads : sess[u] = c => pc[u] \in OrphanPcs
      /\ ~Linked(c)
  BY FinalizedSession DEF IInv, SessionInv, FinalizerIsAlone
<1>2. /\ session' \in [Sessions -> SessionRecords] /\ session'[c] = Unused
      /\ \A u \in Sessions \ {c} : session'[u] = session[u]
  <2>1. Unused \in SessionRecords
    BY AccelRuntimeAssumption DEF Unused, SessionRecords, States
  <2> QED
    BY <1>1, <2>1 DEF IInv, Typed
<1>3. /\ \A u \in Threads : pc'[u] = pc[u] /\ sess'[u] = sess[u]
      /\ sess \in [Threads -> Sessions \cup {NoSession}] /\ NoSession \notin Sessions
  BY AccelRuntimeAssumption DEF IInv, Typed
<1>4. /\ \A u : Linked(u)' <=> Linked(u)
      /\ \A u \in Sessions \ {c} : Holds(u, "creating")' <=> Holds(u, "creating")
      /\ \A u \in Sessions \ {c} : \A x : HoldsExecution(u, x)' <=> HoldsExecution(u, x)
  BY <1>2 DEF Linked, Holds, HoldsExecution
<1>5. /\ Unused.state = "free" /\ ~Unused.context /\ ~Unused.execution
      /\ Unused.program = NoProgram /\ ~Unused.installed
  BY DEF Unused
<1>6. \A u \in Threads : pc[u] \in BuilderPcs \cup UserPcs \cup {"end_operation"} => sess[u] # c
  BY <1>1 DEF OrphanPcs, BuilderPcs, UserPcs
<1>7. SessionsArePinned'
  <2>1. \A u \in Threads : sess[u] \in Sessions \ {c} => session'[sess[u]] = session[sess[u]]
    BY <1>2
  <2> QED
    BY <1>3, <1>6, <2>1 DEF IInv, SessionInv, SessionsArePinned
<1>8. SessionsAreAccounted'
  BY <1>2, <1>3, <1>5 DEF IInv, SessionInv, SessionsAreAccounted
<1>9. BuildersAreInOrder'
  BY <1>2, <1>3, <1>4, <1>6
  DEF IInv, SessionInv, SessionsArePinned, BuildersAreInOrder, BuilderPcs
<1>10. LiveListIsExact'
  BY <1>1, <1>2, <1>3, <1>4, <1>5 DEF IInv, SessionInv, LiveListIsExact
<1>11. WorkersAreAlone'
  BY <1>3 DEF IInv, SessionInv, WorkersAreAlone
<1>12. ClaimsHold'
  <2>1. \A u \in Threads :
          pc[u] \in WorkPcs \cup {"create_execution", "publish"} => sess[u] \in Sessions \ {c}
    BY <1>6 DEF IInv, SessionInv, SessionsArePinned, BuilderPcs, UserPcs, WorkPcs
  <2> QED
    BY <1>3, <1>4, <2>1 DEF IInv, SessionInv, ClaimsHold, WorkPcs
<1>13. FinalizerIsAlone'
  BY DEF FinalizerIsAlone
<1>14. ExecutionsAreOwned'
  <2>1. \A u \in Threads, v \in Sessions : Owns(u, v)' <=> Owns(u, v)
    BY <1>3 DEF Owns
  <2>2. \A v \in Sessions : ~FinalizerOwns(v) /\ ~FinalizerOwns(v)'
    BY DEF FinalizerOwns
  <2>3. \A v \in Sessions : session'[v].execution = session[v].execution
    BY <1>1, <1>2, <1>5 DEF IInv, Typed, SessionRecords, SessionInv, LiveListIsExact
  <2> QED
    BY <2>1, <2>2, <2>3 DEF IInv, SessionInv, ExecutionsAreOwned
<1> QED
  BY <1>1, <1>2, <1>7, <1>8, <1>9, <1>10, <1>11, <1>12, <1>13, <1>14 DEF SessionInv

-----------------------------------------------------------------------------
(* The programs.                                                           *)

(* No program is prepared, published or destroyed.                         *)
LEMMA ProgramsStay ==
  ASSUME IInv, UNCHANGED <<registry, program>>,
         \A t \in Threads : /\ pc'[t] \in PreparePcs <=> pc[t] \in PreparePcs
                            /\ pc'[t] \in PreparePcs => prog'[t] = prog[t]
                            /\ pc'[t] = "commit" => arg'[t] \in ProgramIds
                            /\ pc'[t] = "retain" =>
                                 prog'[t] \in Programs /\ program[prog'[t]] = "published",
         pc[Main] \in {"destroy_backend", "publish_teardown"} =>
           pc'[Main] \in {"destroy_backend", "publish_teardown"},
         \A s \in Sessions :
           \/ session'[s].program \in {session[s].program, NoProgram}
           \/ session'[s].program \in Programs /\ program[session'[s].program] = "published"
  PROVE  ProgramsAreKept'
<1>1. \A p \in Programs :
        /\ program'[p] = "published" => \E i \in ProgramIds : registry'[i] = p
        /\ program'[p] = "prepared" =>
             \E t \in Threads : pc'[t] \in PreparePcs /\ prog'[t] = p
  BY DEF IInv, ProgramsAreKept
<1>2. \A t \in Threads :
        /\ pc'[t] \in PreparePcs => prog'[t] \in Programs /\ program'[prog'[t]] = "prepared"
        /\ pc'[t] = "commit" => arg'[t] \in ProgramIds
        /\ pc'[t] = "retain" => prog'[t] \in Programs /\ program'[prog'[t]] = "published"
  BY DEF IInv, ProgramsAreKept
<1>3. \A t, u \in Threads :
        pc'[t] \in PreparePcs /\ pc'[u] \in PreparePcs /\ prog'[t] = prog'[u] => t = u
  BY DEF IInv, ProgramsAreKept
<1>4. pc'[Main] \notin {"destroy_backend", "publish_teardown"} =>
        \A i \in ProgramIds : registry'[i] # NoProgram => program'[registry'[i]] = "published"
  BY DEF IInv, ProgramsAreKept
<1>5. \A s \in Sessions : session'[s].program # NoProgram =>
        program'[session'[s].program] = "published"
  BY DEF IInv, ProgramsAreKept
<1> QED
  BY <1>1, <1>2, <1>3, <1>4, <1>5 DEF ProgramsAreKept

(* A step of an operation that takes no reference and no program.          *)
LEMMA OperationKept ==
  ASSUME IInv, NEW t \in Threads, NEW to \in Claimed \ (PreparePcs \cup {"retain"}),
         pc[t] \in Claimed \ PreparePcs, Move(t, to), ListOnly,
         SessionInv', live' \in Seq(Sessions), session' \in [Sessions -> SessionRecords],
         exec' \in [Sessions -> BOOLEAN],
         \A s \in Sessions : /\ session'[s].state = "free" <=> session[s].state = "free"
                             /\ session'[s].program \in {session[s].program, NoProgram}
  PROVE  IInv'
<1>1. /\ pc' = [pc EXCEPT ![t] = to] /\ UNCHANGED <<sess, prog, arg>>
      /\ UNCHANGED <<shell, reference_count, active_operation_count, gateVars, registry,
                     next_program_id, program, backend, binding, wants_gc, collection>>
  BY DEF Move, Goto, Keep, ListOnly, gcVars, registryVars
<1>2. \A u \in Threads : pc'[u] = IF u = t THEN to ELSE pc[u]
  BY <1>1 DEF IInv, Typed
<1>3. Typed'
  <2>1. pc' \in [Threads -> Pcs]
    BY <1>1, PcSets DEF IInv, Typed
  <2> QED
    BY <1>1, <2>1 DEF IInv, Typed, gateVars
<1>4. MainIsInOrder' /\ OperationsAreCounted' /\ HasOwner' /\ pc'[Main] # "end"
  BY <1>1, ClaimedMove
<1>5. ReferencesAreCounted'
  <2>1. HasOwner
    BY ClaimIsActive
  <2> QED
    BY <1>1, <1>4, <2>1, ReferencesKept DEF IInv
<1>6. ProgramsAreKept'
  <2>1. \A u \in Threads :
          /\ pc'[u] \in PreparePcs <=> pc[u] \in PreparePcs
          /\ pc'[u] = "commit" => arg'[u] \in ProgramIds
          /\ pc'[u] = "retain" => prog'[u] \in Programs /\ program[prog'[u]] = "published"
    BY <1>1, <1>2 DEF IInv, ProgramsAreKept, PreparePcs
  <2>2. pc[Main] \notin {"destroy_backend", "publish_teardown"}
    BY ClaimIsActive DEF PostDrainPcs
  <2> QED
    BY <1>1, <2>1, <2>2, ProgramsStay
<1> QED
  BY <1>3, <1>4, <1>5, <1>6 DEF IInv

LEMMA QuietKept ==
  ASSUME IInv, NEW t \in Threads, NEW to, <<pc[t], to>> \in QuietPairs,
         pc[t] \notin PreparePcs, to \notin PreparePcs \cup {"retain"},
         Move(t, to), ContextKept, UNCHANGED <<session, exec>>
  PROVE  IInv'
<1>1. /\ pc' = [pc EXCEPT ![t] = to] /\ UNCHANGED <<session, exec, live, collection, sess>>
      /\ ListOnly
  BY DEF Move, Goto, Keep, ContextKept, contextVars, gcVars, ListOnly
<1>2. SessionInv' /\ pc[t] \in Claimed /\ to \in Claimed
  BY <1>1, QuietMove, QuietPairsAreClaimed
<1> QED
  BY <1>1, <1>2, OperationKept DEF IInv, Typed

-----------------------------------------------------------------------------
(* The steps of begin, dispatch and finish.                                *)

LEMMA ReadMetadataKeeps ==
  ASSUME IInv, NEW t \in Threads, ReadMetadata(t) \/ CopyResults(t)
  PROVE  IInv'
<1>1. PICK to : Move(t, to) /\ <<pc[t], to>> \in {<<"metadata", "link">>,
          <<"metadata", "discard">>, <<"copy", "close">>, <<"copy", "copy_failed">>}
  BY DEF ReadMetadata, CopyResults
<1>2. ContextKept /\ UNCHANGED <<session, exec>>
  BY DEF ReadMetadata, CopyResults
<1> QED
  BY <1>1, <1>2, QuietKept DEF QuietPairs, PreparePcs

LEMMA LinkKeeps ==
  ASSUME IInv, NEW t \in Threads, LinkSession(t)
  PROVE  IInv'
<1>1. pc[t] = "link" /\ ListOnly /\ UNCHANGED <<session, exec>>
  BY DEF LinkSession
<1>2. CASE Move(t, "create_execution") /\ Link(sess[t])
  <2>1. /\ pc' = [pc EXCEPT ![t] = "create_execution"]
        /\ UNCHANGED <<session, exec, sess, collection>>
    BY <1>1, <1>2 DEF Move, Goto, Keep, ListOnly, gcVars
  <2>2. SessionInv' /\ live' \in Seq(Sessions)
    BY <1>1, <1>2, <2>1, BuilderLinks
  <2> QED
    BY <1>1, <1>2, <2>2, OperationKept, PcSets DEF IInv, Typed, PreparePcs
<1>3. CASE Move(t, "discard") /\ UNCHANGED live
  BY <1>1, <1>3, QuietKept
  DEF QuietPairs, PreparePcs, ContextKept, ListOnly, contextVars
<1> QED
  BY <1>2, <1>3 DEF LinkSession

(* While a thread makes a session, its claim on the context is intact.     *)
LEMMA CreateKeeps ==
  ASSUME IInv, NEW t \in Threads, CreateExecution(t)
  PROVE  IInv'
<1> PICK s \in Sessions : s = sess[t]
  BY BuilderIsAlone DEF CreateExecution, BuilderPcs
<1>1. pc[t] = "create_execution" /\ Holds(s, "creating") /\ ~exec[s]
  <2>1. pc[t] = "create_execution" /\ Holds(s, "creating")
    BY DEF CreateExecution, IInv, SessionInv, ClaimsHold
  <2>2. ~session[s].execution /\ ~FinalizerOwns(s) /\ \A u \in Threads : ~Owns(u, s)
    BY <2>1, BuilderIsAlone
    DEF BuilderPcs, FinalizerOwns, Owns, OwningPcs, IInv, SessionInv, BuildersAreInOrder
  <2> QED
    BY <2>1, <2>2 DEF IInv, SessionInv, ExecutionsAreOwned
<1>2. CASE Move(t, "publish") /\ exec' = [exec EXCEPT ![s] = TRUE] /\ ContextKept
             /\ UNCHANGED session
  <2>1. /\ pc' = [pc EXCEPT ![t] = "publish"] /\ ListOnly
        /\ UNCHANGED <<session, live, sess, collection>>
    BY <1>2 DEF Move, Goto, Keep, ListOnly, gcVars, ContextKept, contextVars
  <2>2. SessionInv' /\ exec' \in [Sessions -> BOOLEAN]
    BY <1>1, <1>2, <2>1, BuilderCreates
  <2> QED
    BY <1>1, <1>2, <2>1, <2>2, OperationKept, PcSets DEF IInv, Typed, PreparePcs
<1>3. CASE CloseSession(s, "failed") /\ Move(t, "discard_free") /\ ListOnly /\ UNCHANGED exec
  <2>1. /\ pc' = [pc EXCEPT ![t] = "discard_free"] /\ UNCHANGED <<exec, sess, collection>>
    BY <1>3 DEF Move, Goto, Keep, ListOnly, gcVars
  <2>2. SessionInv' /\ session' \in [Sessions -> SessionRecords] /\ live' \in Seq(Sessions)
    BY <1>1, <1>3, <2>1, BuilderCloses
  <2>3. \A u \in Sessions : /\ session'[u].state = "free" <=> session[u].state = "free"
                            /\ session'[u].program \in {session[u].program, NoProgram}
    BY <1>1, <1>3, CloseEffect DEF IInv, SessionInv, Terminal, Holds
  <2> QED
    BY <1>1, <1>3, <2>1, <2>2, <2>3, OperationKept, PcSets DEF IInv, Typed, PreparePcs
<1> QED
  BY <1>1, <1>2, <1>3 DEF CreateExecution

LEMMA PublishKeeps ==
  ASSUME IInv, NEW t \in Threads, PublishExecution(t)
  PROVE  IInv'
<1> PICK s \in Sessions : s = sess[t]
  BY BuilderIsAlone DEF PublishExecution, BuilderPcs
<1>1. pc[t] = "publish" /\ Holds(s, "creating") /\ exec[s]
  BY DEF PublishExecution, IInv, SessionInv, ClaimsHold, ExecutionsAreOwned, Owns, OwningPcs
<1>2. CASE Move(t, "install") /\ UNCHANGED <<live, exec>> /\ ListOnly
             /\ session' = [session EXCEPT ![s].execution = TRUE, ![s].state = "recording"]
  <2> DEFINE r == [session[s] EXCEPT !.execution = TRUE, !.state = "recording"]
  <2>1. /\ session[s] \in SessionRecords /\ r \in SessionRecords /\ r.state = "recording"
        /\ r.execution /\ r.installed = session[s].installed /\ r.context = session[s].context
        /\ r.program = session[s].program /\ r.next_kernel = session[s].next_kernel
        /\ session' = [session EXCEPT ![s] = r] /\ session[s].state = "creating"
    BY ZenonT(30), <1>1, <1>2 DEF IInv, Typed, SessionRecords, States, Holds
  <2> HIDE DEF r
  <2>2. /\ pc' = [pc EXCEPT ![t] = "install"] /\ UNCHANGED <<exec, sess, live, collection>>
    BY <1>2 DEF Move, Goto, Keep, ListOnly, gcVars
  <2>3. ~session[s].installed
    BY <1>1, BuilderIsAlone DEF BuilderPcs
  <2>4. SessionInv' /\ session' \in [Sessions -> SessionRecords]
    BY <1>1, <2>1, <2>2, <2>3, BuilderPublishes
  <2>5. \A u \in Sessions : /\ session'[u].state = "free" <=> session[u].state = "free"
                            /\ session'[u].program \in {session[u].program, NoProgram}
    BY <2>1 DEF IInv, Typed
  <2>6. pc[t] \in Claimed \ PreparePcs /\ "install" \in Claimed \ (PreparePcs \cup {"retain"})
    BY <1>1, PcSets DEF PreparePcs
  <2>7. exec' \in [Sessions -> BOOLEAN] /\ live' \in Seq(Sessions)
    BY <1>2 DEF IInv, Typed
  <2> QED
    BY <1>2, <2>4, <2>5, <2>6, <2>7, OperationKept
<1>3. CASE CloseSession(s, "failed") /\ Move(t, "undo_exec") /\ ListOnly /\ UNCHANGED exec
  <2>1. /\ pc' = [pc EXCEPT ![t] = "undo_exec"] /\ UNCHANGED <<exec, sess, collection>>
    BY <1>3 DEF Move, Goto, Keep, ListOnly, gcVars
  <2>2. SessionInv' /\ session' \in [Sessions -> SessionRecords] /\ live' \in Seq(Sessions)
    BY <1>1, <1>3, <2>1, BuilderCloses
  <2>3. \A u \in Sessions : /\ session'[u].state = "free" <=> session[u].state = "free"
                            /\ session'[u].program \in {session[u].program, NoProgram}
    BY <1>1, <1>3, CloseEffect DEF IInv, SessionInv, Terminal, Holds
  <2> QED
    BY <1>1, <1>3, <2>1, <2>2, <2>3, OperationKept, PcSets DEF IInv, Typed, PreparePcs
<1> QED
  BY <1>1, <1>2, <1>3 DEF PublishExecution

LEMMA InstallKeeps ==
  ASSUME IInv, NEW t \in Threads, InstallSession(t)
  PROVE  IInv'
<1> PICK s \in Sessions : s = sess[t]
  BY BuilderIsAlone DEF InstallSession, BuilderPcs
<1>1. pc[t] = "install" /\ ContextKept /\ UNCHANGED exec
  BY DEF InstallSession
<1>2. CASE Move(t, "end_operation") /\ session' = [session EXCEPT ![s].installed = TRUE]
  <2> DEFINE r == [session[s] EXCEPT !.installed = TRUE]
  <2>1. /\ session[s] \in SessionRecords /\ r \in SessionRecords /\ r.state = session[s].state
        /\ r.execution = session[s].execution /\ r.installed /\ r.context = session[s].context
        /\ r.program = session[s].program /\ r.next_kernel = session[s].next_kernel
        /\ session' = [session EXCEPT ![s] = r]
    BY ZenonT(30), <1>1, <1>2 DEF IInv, Typed, SessionRecords
  <2> HIDE DEF r
  <2>2. /\ pc' = [pc EXCEPT ![t] = "end_operation"] /\ ListOnly
        /\ UNCHANGED <<exec, sess, live, collection>>
    BY <1>1, <1>2 DEF Move, Goto, Keep, ListOnly, gcVars, ContextKept, contextVars
  <2>3. SessionInv' /\ session' \in [Sessions -> SessionRecords]
    BY <1>1, <2>1, <2>2, BuilderPublishes
  <2>4. \A u \in Sessions : /\ session'[u].state = "free" <=> session[u].state = "free"
                            /\ session'[u].program \in {session[u].program, NoProgram}
    BY <2>1 DEF IInv, Typed
  <2> QED
    BY ZenonT(30), <1>1, <1>2, <2>2, <2>3, <2>4, OperationKept, PcSets DEF IInv, Typed, PreparePcs
<1>3. CASE Move(t, "discard") /\ UNCHANGED session
  BY <1>1, <1>3, QuietKept DEF QuietPairs, PreparePcs
<1> QED
  BY <1>2, <1>3 DEF InstallSession

LEMMA DiscardKeeps ==
  ASSUME IInv, NEW t \in Threads, DiscardSession(t)
  PROVE  IInv'
<1> PICK s \in Sessions : s = sess[t]
  BY BuilderIsAlone DEF DiscardSession, BuilderPcs
<1> PICK to : to = IF session[s].execution THEN "discard_exec" ELSE "discard_free"
  OBVIOUS
<1>1. /\ pc[t] = "discard" /\ CloseSession(s, "failed") /\ Move(t, to) /\ ListOnly
      /\ UNCHANGED exec
  BY DEF DiscardSession
<1>2. session[s].execution <=> exec[s]
  <2>1. ~FinalizerOwns(s) /\ \A u \in Threads : ~Owns(u, s)
    BY <1>1, BuilderIsAlone DEF BuilderPcs, FinalizerOwns, Owns, OwningPcs
  <2> QED
    BY <2>1 DEF IInv, SessionInv, ExecutionsAreOwned
<1>3. /\ pc' = [pc EXCEPT ![t] = to] /\ UNCHANGED <<exec, sess, collection>>
  BY <1>1 DEF Move, Goto, Keep, ListOnly, gcVars
<1>4. SessionInv' /\ session' \in [Sessions -> SessionRecords] /\ live' \in Seq(Sessions)
  BY <1>1, <1>2, <1>3, BuilderCloses
<1>5. \A u \in Sessions : /\ session'[u].state = "free" <=> session[u].state = "free"
                          /\ session'[u].program \in {session[u].program, NoProgram}
  <2>1. session[s].state # "free"
    BY <1>1, BuilderIsAlone DEF BuilderPcs
  <2> QED
    BY <1>1, <2>1, CloseEffect DEF IInv, SessionInv, Terminal
<1> QED
  BY <1>1, <1>4, <1>5, OperationKept, PcSets DEF IInv, Typed, PreparePcs

LEMMA DestroyExecutionKeeps ==
  ASSUME IInv, NEW t \in Threads, DestroysExecution(t)
  PROVE  IInv'
<1> PICK s : s = sess[t]
  OBVIOUS
<1>1. PICK to : /\ <<pc[t], to>> \in DestroyPairs
                /\ Move(t, to) /\ exec' = [exec EXCEPT ![s] = FALSE]
                /\ ContextKept /\ UNCHANGED session
  BY DEF DestroysExecution, DestroyExecution, DestroyPairs
<1>2. /\ pc' = [pc EXCEPT ![t] = to] /\ ListOnly /\ UNCHANGED <<session, live, sess, collection>>
  BY <1>1 DEF Move, Goto, Keep, ListOnly, gcVars, ContextKept, contextVars
<1>3. SessionInv' /\ exec' \in [Sessions -> BOOLEAN]
  BY <1>1, <1>2, ThreadDestroys
<1>4. pc[t] \in Claimed \ PreparePcs /\ to \in Claimed \ (PreparePcs \cup {"retain"})
  BY <1>1, PcSets DEF PreparePcs, DestroyPairs
<1> QED
  BY <1>1, <1>2, <1>3, <1>4, OperationKept DEF IInv, Typed

LEMMA SetStateKeeps ==
  ASSUME IInv, NEW t \in Threads, NEW s, s = sess[t], NEW to, NEW st,
         <<pc[t], session[s].state, to, st>> \in StateMoves,
         session[s].context, session[s].execution, Linked(s),
         NEW k \in 0 .. Kernels, k < Kernels \/ st # "dispatching",
         session' = [session EXCEPT ![s] = [session[s] EXCEPT !.state = st, !.next_kernel = k]],
         Move(t, to), ContextKept, UNCHANGED exec
  PROVE  IInv'
<1>1. /\ pc' = [pc EXCEPT ![t] = to] /\ ListOnly /\ UNCHANGED <<exec, sess, live, collection>>
  BY DEF Move, Goto, Keep, ListOnly, gcVars, ContextKept, contextVars
<1>2. SessionInv' /\ session' \in [Sessions -> SessionRecords]
  BY <1>1, UserSetsState
<1>3. pc[t] \in Claimed \ PreparePcs /\ to \in Claimed \ (PreparePcs \cup {"retain"})
  BY PcSets DEF PreparePcs, StateMoves
<1>4. session[s].state # "free" /\ st # "free"
  BY DEF StateMoves
<1>5. \A u \in Sessions : /\ session'[u].state = "free" <=> session[u].state = "free"
                          /\ session'[u].program \in {session[u].program, NoProgram}
  BY <1>4 DEF IInv, Typed, SessionRecords
<1>6. exec' \in [Sessions -> BOOLEAN] /\ live' \in Seq(Sessions)
  BY <1>1 DEF IInv, Typed
<1> QED
  BY <1>1, <1>2, <1>3, <1>5, <1>6, OperationKept

LEMMA UserCloseKeeps ==
  ASSUME IInv, NEW t \in Threads, NEW s, s = sess[t], pc[t] \in WorkPcs,
         NEW to \in {"fail_exec", "close_exec"}, NEW st \in Terminal, CloseSession(s, st),
         Move(t, to), ListOnly, UNCHANGED exec
  PROVE  IInv'
<1>1. /\ pc' = [pc EXCEPT ![t] = to] /\ UNCHANGED <<exec, sess, collection>>
  BY DEF Move, Goto, Keep, ListOnly, gcVars
<1>2. SessionInv' /\ session' \in [Sessions -> SessionRecords] /\ live' \in Seq(Sessions)
  BY <1>1, UserCloses
<1>3. s \in Sessions /\ session[s].state # "free"
  <2>1. s \in Sessions /\ session[s].installed
    BY UserIsCounted DEF WorkPcs, UserPcs
  <2> QED
    BY <2>1 DEF IInv, SessionInv, SessionsAreAccounted, Unused
<1>4. st # "free"
  BY DEF Terminal
<1>5. \A u \in Sessions : /\ session'[u].state = "free" <=> session[u].state = "free"
                          /\ session'[u].program \in {session[u].program, NoProgram}
  BY <1>3, <1>4, CloseEffect DEF IInv, SessionInv
<1>6. pc[t] \in Claimed \ PreparePcs /\ to \in Claimed \ (PreparePcs \cup {"retain"})
  BY PcSets DEF PreparePcs, WorkPcs
<1>7. exec' \in [Sessions -> BOOLEAN]
  BY <1>1 DEF IInv, Typed
<1> QED
  BY <1>1, <1>2, <1>5, <1>6, <1>7, OperationKept

LEMMA FailKeeps ==
  ASSUME IInv, NEW t \in Threads, pc[t] \in WorkPcs, FailSession(t)
  PROVE  IInv'
<1> PICK s : s = sess[t]
  OBVIOUS
<1>1. session[s].execution
  BY DEF IInv, SessionInv, ClaimsHold, WorkPcs, HoldsExecution
<1>2. CloseSession(s, "failed") /\ Move(t, "fail_exec") /\ ListOnly /\ UNCHANGED exec
  BY <1>1 DEF FailSession
<1> QED
  BY <1>2, UserCloseKeeps DEF Terminal

LEMMA DispatchKeeps ==
  ASSUME IInv, NEW t \in Threads, DispatchSession(t) \/ FinishSession(t)
  PROVE  IInv'
<1> PICK s \in Sessions : s = sess[t]
  BY UserIsCounted DEF DispatchSession, FinishSession, UserPcs
<1>0. session[s] \in SessionRecords
  BY DEF IInv, Typed
<1>1. CASE /\ pc[t] = "dispatch" /\ HoldsExecution(s, "recording")
           /\ session[s].next_kernel < Kernels
           /\ Move(t, "dispatching") /\ SetState(s, "dispatching")
           /\ ContextKept /\ UNCHANGED exec
  <2>1. session' = [session EXCEPT ![s] = [session[s] EXCEPT
                      !.state = "dispatching", !.next_kernel = session[s].next_kernel]]
    BY <1>0, <1>1 DEF SetState, SessionRecords
  <2>2. <<pc[t], session[s].state, "dispatching", "dispatching">> \in StateMoves
    BY <1>1 DEF StateMoves, HoldsExecution, Holds
  <2>3. /\ session[s].context /\ session[s].execution /\ Linked(s)
        /\ session[s].next_kernel \in 0 .. Kernels
    BY <1>0, <1>1 DEF HoldsExecution, Holds, SessionRecords
  <2> QED
    BY <1>1, <2>1, <2>2, <2>3, SetStateKeeps
<1>2. CASE /\ pc[t] = "finish" /\ HoldsExecution(s, "recording")
           /\ Move(t, "finishing") /\ SetState(s, "submitting")
           /\ ContextKept /\ UNCHANGED exec
  <2>1. session' = [session EXCEPT ![s] = [session[s] EXCEPT
                      !.state = "submitting", !.next_kernel = session[s].next_kernel]]
    BY <1>0, <1>2 DEF SetState, SessionRecords
  <2>2. <<pc[t], session[s].state, "finishing", "submitting">> \in StateMoves
    BY <1>2 DEF StateMoves, HoldsExecution, Holds
  <2>3. /\ session[s].context /\ session[s].execution /\ Linked(s)
        /\ session[s].next_kernel \in 0 .. Kernels
    BY <1>0, <1>2 DEF HoldsExecution, Holds, SessionRecords
  <2>4. PICK to, st : to = "finishing" /\ st = "submitting" /\ st # "dispatching"
    OBVIOUS
  <2> QED
    BY <1>2, <2>1, <2>2, <2>3, <2>4, SetStateKeeps
<1>3. CASE /\ pc[t] \in {"dispatch", "finish"} /\ Move(t, "end_operation")
           /\ ContextKept /\ UNCHANGED <<session, exec>>
  BY <1>3, QuietKept DEF QuietPairs, PreparePcs
<1> QED
  BY <1>1, <1>2, <1>3 DEF DispatchSession, FinishSession

(* "session changed" cannot happen when the backend returns.               *)
LEMMA DispatchReturnsKeeps ==
  ASSUME IInv, NEW t \in Threads, DispatchReturns(t) \/ FinishReturns(t)
  PROVE  IInv'
<1> PICK s \in Sessions : s = sess[t]
  BY UserIsCounted DEF DispatchReturns, FinishReturns, UserPcs
<1>0. session[s] \in SessionRecords /\ pc[t] \in {"dispatching", "finishing"}
  BY DEF IInv, Typed, DispatchReturns, FinishReturns
<1>1. /\ pc[t] = "dispatching" => HoldsExecution(s, "dispatching")
      /\ pc[t] = "finishing" => HoldsExecution(s, "submitting")
  BY DEF IInv, SessionInv, ClaimsHold
<1>2. CASE /\ pc[t] = "dispatching" /\ Move(t, "end_operation")
           /\ session' = [session EXCEPT ![s].state = "recording", ![s].next_kernel = @ + 1]
           /\ ContextKept /\ UNCHANGED exec
  <2>1. PICK k \in 0 .. Kernels : k = session[s].next_kernel + 1
    BY <1>0, <1>1, <1>2, AccelRuntimeAssumption
    DEF IInv, SessionInv, SessionsAreAccounted, HoldsExecution, Holds, SessionRecords
  <2>2. session' = [session EXCEPT ![s] = [session[s] EXCEPT
                      !.state = "recording", !.next_kernel = k]]
    BY <1>0, <1>2, <2>1 DEF SessionRecords, IInv, Typed
  <2>3. <<pc[t], session[s].state, "end_operation", "recording">> \in StateMoves
    BY <1>1, <1>2 DEF StateMoves, HoldsExecution, Holds
  <2>4. session[s].context /\ session[s].execution /\ Linked(s)
    BY <1>1, <1>2 DEF HoldsExecution, Holds
  <2>5. PICK to, st : to = "end_operation" /\ st = "recording" /\ st # "dispatching"
    OBVIOUS
  <2> QED
    <3>1. /\ <<pc[t], session[s].state, to, st>> \in StateMoves
          /\ session' = [session EXCEPT ![s] = [session[s] EXCEPT
                                                 !.state = st, !.next_kernel = k]]
      BY <2>2, <2>3, <2>5
    <3>2. Move(t, to) /\ ContextKept /\ UNCHANGED exec
      BY <1>2, <2>5
    <3>3. k \in 0 .. Kernels /\ st # "dispatching"
      BY <2>1, <2>5
    <3> QED
      BY <2>4, <3>1, <3>2, <3>3, SetStateKeeps
<1>3. CASE /\ pc[t] = "finishing" /\ Move(t, "copy") /\ SetState(s, "copy_ready")
           /\ ContextKept /\ UNCHANGED exec
  <2>1. session' = [session EXCEPT ![s] = [session[s] EXCEPT
                      !.state = "copy_ready", !.next_kernel = session[s].next_kernel]]
    BY <1>0, <1>3 DEF SetState, SessionRecords
  <2>2. <<pc[t], session[s].state, "copy", "copy_ready">> \in StateMoves
    BY <1>1, <1>3 DEF StateMoves, HoldsExecution, Holds
  <2>3. /\ session[s].context /\ session[s].execution /\ Linked(s)
        /\ session[s].next_kernel \in 0 .. Kernels
    BY <1>0, <1>1, <1>3 DEF HoldsExecution, Holds, SessionRecords
  <2>4. PICK to, st : to = "copy" /\ st = "copy_ready" /\ st # "dispatching"
    OBVIOUS
  <2> QED
    BY <1>3, <2>1, <2>2, <2>3, <2>4, SetStateKeeps
<1>4. CASE FailSession(t)
  BY <1>0, <1>4, FailKeeps DEF WorkPcs
<1> QED
  BY <1>1, <1>2, <1>3, <1>4 DEF DispatchReturns, FinishReturns

LEMMA FinishCloseKeeps ==
  ASSUME IInv, NEW t \in Threads, FinishClose(t) \/ CopyFailed(t)
  PROVE  IInv'
<1>1. pc[t] \in {"close", "copy_failed"} /\ HoldsExecution(sess[t], "copy_ready")
  BY DEF FinishClose, CopyFailed, IInv, SessionInv, ClaimsHold
<1>2. CASE FinishClose(t)
  <2>1. /\ CloseSession(sess[t], "finished") /\ Move(t, "close_exec")
        /\ ListOnly /\ UNCHANGED exec
    BY <1>1, <1>2 DEF FinishClose
  <2> QED
    BY <1>1, <2>1, UserCloseKeeps DEF Terminal, WorkPcs
<1>3. CASE CopyFailed(t)
  BY <1>1, <1>3, FailKeeps DEF CopyFailed, WorkPcs
<1> QED
  BY <1>2, <1>3

-----------------------------------------------------------------------------
(* The steps that take or give back a reference, and the optimizer's.      *)

LEMMA LookupKeeps ==
  ASSUME IInv, NEW t \in Threads, LookupProgram(t)
  PROVE  IInv'
<1>1. pc[t] = "lookup" /\ ContextKept /\ UNCHANGED <<session, exec, sess, arg>>
  BY DEF LookupProgram
<1>2. CASE Goto(t, "end_operation") /\ UNCHANGED prog
  BY <1>1, <1>2, QuietKept DEF QuietPairs, PreparePcs, Move, Keep
<1>3. ASSUME NEW id \in ProgramIds, registry[id] # NoProgram, attached,
             prog' = [prog EXCEPT ![t] = registry[id]], Goto(t, "retain")
      PROVE  IInv'
  <2>1. /\ pc' = [pc EXCEPT ![t] = "retain"]
        /\ UNCHANGED <<sess, arg, session, exec, shell, reference_count,
                       active_operation_count, gateVars, live, registry, next_program_id,
                       program, backend, binding, wants_gc, collection>>
    BY <1>1, <1>3 DEF Goto, ContextKept, contextVars, gcVars, registryVars
  <2>2. /\ \A u \in Threads : pc'[u] = IF u = t THEN "retain" ELSE pc[u]
        /\ \A u \in Threads : prog'[u] = IF u = t THEN registry[id] ELSE prog[u]
        /\ registry[id] \in Programs
    BY <1>3, <2>1 DEF IInv, Typed
  <2>3. /\ pc[Main] \notin {"destroy_backend", "publish_teardown"}
        /\ program[registry[id]] = "published" /\ pc[t] \in Claimed /\ "retain" \in Claimed
    BY <1>1, <1>3, PcSets DEF IInv, MainIsInOrder, ProgramsAreKept, MainPcs
  <2>4. Typed'
    BY <1>3, <2>1, <2>2, <2>3, PcSets DEF IInv, Typed, gateVars
  <2>5. MainIsInOrder' /\ OperationsAreCounted' /\ HasOwner' /\ pc'[Main] # "end"
    BY <2>1, <2>3, ClaimedMove
  <2>6. HasOwner
    BY <2>3, ClaimIsActive
  <2>7. ReferencesAreCounted'
    BY <2>1, <2>5, <2>6, ReferencesKept DEF IInv
  <2>8. SessionInv'
    <3>1. <<pc[t], "retain">> \in QuietPairs
      BY <1>1 DEF QuietPairs
    <3> QED
      BY <2>1, <3>1, QuietMove
  <2>9. ProgramsAreKept'
    <3>1. \A u \in Threads :
            /\ pc'[u] \in PreparePcs <=> pc[u] \in PreparePcs
            /\ pc'[u] \in PreparePcs => prog'[u] = prog[u]
            /\ pc'[u] = "commit" => arg'[u] \in ProgramIds
            /\ pc'[u] = "retain" => prog'[u] \in Programs /\ program[prog'[u]] = "published"
      BY <1>1, <2>1, <2>2, <2>3 DEF IInv, ProgramsAreKept, PreparePcs
    <3> QED
      BY <2>1, <2>3, <3>1, ProgramsStay
  <2> QED
    BY <2>4, <2>5, <2>7, <2>8, <2>9 DEF IInv
<1> QED
  BY <1>1, <1>2, <1>3 DEF LookupProgram, Lookup

(* A wrapper takes its reference, or gives it back.                        *)
LEMMA WrapperIsCounted ==
  ASSUME ReferencesAreCounted, IsFiniteSet(Wrapped), NEW s \in Sessions,
         session[s].state = "free", session'[s].state # "free",
         \A u \in Sessions \ {s} : session'[u].state = "free" <=> session[u].state = "free",
         reference_count' = reference_count + 1, UNCHANGED <<shell, binding>>,
         HasOwner, HasOwner', pc'[Main] # "end"
  PROVE  ReferencesAreCounted'
<1>1. Wrapped' = Wrapped \cup {s} /\ s \notin Wrapped
  BY DEF Wrapped
<1>2. Cardinality(Wrapped') = Cardinality(Wrapped) + 1
  BY <1>1, FS_AddElement
<1>3. /\ Count(HasOwner)' = Count(HasOwner) /\ Count(HasOwner) = 1
      /\ Count(binding = "live")' = Count(binding = "live")
  BY DEF Count
<1>4. /\ reference_count = Count(HasOwner) + Count(binding = "live") + Cardinality(Wrapped)
      /\ shell = "live" <=> reference_count > 0
  BY References
<1>5. Count(binding = "live") \in {0, 1} /\ Cardinality(Wrapped) \in Nat
  BY CountersAreNat DEF Count
<1>6. reference_count' = Count(HasOwner)' + Count(binding = "live")' + Cardinality(Wrapped')
  <2>1. PICK b \in {0, 1}, n \in Nat : b = Count(binding = "live") /\ n = Cardinality(Wrapped)
    BY <1>5
  <2>2. reference_count = 1 + b + n
    BY <1>3, <1>4, <2>1
  <2>3. reference_count' = 1 + b + (n + 1)
    BY <2>1, <2>2
  <2> QED
    BY <1>2, <1>3, <2>1, <2>3
<1>7. shell' = "live" <=> reference_count' > 0
  BY <1>3, <1>4, <1>5
<1> QED
  BY <1>6, <1>7 DEF ReferencesAreCounted, HasOwner, Wrapped

LEMMA WrapperIsReleased ==
  ASSUME ReferencesAreCounted, NEW s \in Sessions, ContextRelease,
         session[s].state # "free", session'[s].state = "free",
         \A u \in Sessions \ {s} : session'[u].state = "free" <=> session[u].state = "free",
         UNCHANGED <<binding, pc>> \/ (HasOwner /\ HasOwner' /\ pc'[Main] # "end"
                                       /\ UNCHANGED binding),
         shell # "none", pc[Main] # "end"
  PROVE  ReferencesAreCounted' /\ shell' # "none" /\ (HasOwner => shell' = shell)
<1>1. Wrapped' = Wrapped \ {s} /\ s \in Wrapped
  BY DEF Wrapped
<1>2. Cardinality(Wrapped') = Cardinality(Wrapped) - 1 /\ Cardinality(Wrapped') \in Nat
  BY <1>1, CountersAreNat, FS_RemoveElement, FS_CardinalityType, FS_Subset
<1>3. /\ Count(HasOwner)' = Count(HasOwner) /\ Count(HasOwner) \in {0, 1}
      /\ HasOwner => Count(HasOwner) = 1
      /\ Count(binding = "live")' = Count(binding = "live")
      /\ Count(binding = "live") \in {0, 1}
  BY DEF Count, HasOwner
<1>4. /\ reference_count = Count(HasOwner) + Count(binding = "live") + Cardinality(Wrapped)
      /\ shell = "live" <=> reference_count > 0
  BY References
<1>5. Cardinality(Wrapped) \in Nat /\ Cardinality(Wrapped) >= 1
  BY <1>2, CountersAreNat
<1>6. reference_count' = Count(HasOwner)' + Count(binding = "live")' + Cardinality(Wrapped')
  BY <1>2, <1>3, <1>4, <1>5 DEF ContextRelease
<1>7. /\ shell' = "live" <=> reference_count' > 0
      /\ shell' # "none" /\ (HasOwner => shell' = shell)
  BY <1>2, <1>3, <1>4, <1>5 DEF ContextRelease
<1>8. pc'[Main] # "end"
  OBVIOUS
<1> QED
  BY <1>6, <1>7, <1>8 DEF ReferencesAreCounted, HasOwner, Wrapped

LEMMA AllocateKeeps ==
  ASSUME IInv, NEW t \in Threads, AllocateSession(t)
  PROVE  IInv'
<1>1. /\ pc[t] = "retain"
      /\ UNCHANGED <<shell, active_operation_count, gateVars, live, registry, next_program_id,
                     program, backend, binding, exec, prog, arg, wants_gc, collection>>
  BY DEF AllocateSession, registryVars, gcVars
<1>2. /\ pc[t] \in Claimed /\ "metadata" \in Claimed /\ HasOwner
      /\ pc[Main] \notin {"destroy_backend", "publish_teardown"}
  BY <1>1, PcSets, ClaimIsActive DEF PostDrainPcs
<1>3. ASSUME NEW s \in Sessions, session[s] = Unused, ContextRetain,
             session' = [session EXCEPT ![s].state = "creating", ![s].context = TRUE,
                                        ![s].program = prog[t]],
             sess' = [sess EXCEPT ![t] = s], Goto(t, "metadata")
      PROVE  IInv'
  <2> DEFINE r == [session[s] EXCEPT !.state = "creating", !.context = TRUE,
                                     !.program = prog[t]]
  <2>1. /\ session[s] \in SessionRecords /\ prog[t] \in Programs
        /\ program[prog[t]] = "published"
    BY <1>1 DEF IInv, Typed, ProgramsAreKept
  <2>2. /\ r \in SessionRecords /\ r.state = "creating" /\ r.context /\ ~r.execution
        /\ ~r.installed /\ r.program = prog[t] /\ session' = [session EXCEPT ![s] = r]
    <3>1. ~session[s].execution /\ ~session[s].installed
      BY <1>3 DEF Unused
    <3>2. session' = [session EXCEPT ![s] = r]
      BY <1>3 DEF IInv, Typed
    <3> QED
      BY <2>1, <3>1, <3>2 DEF SessionRecords, States
  <2> HIDE DEF r
  <2>3. pc' = [pc EXCEPT ![t] = "metadata"] /\ reference_count' = reference_count + 1
    BY <1>3 DEF Goto, ContextRetain
  <2>4. /\ \A u \in Threads : pc'[u] = IF u = t THEN "metadata" ELSE pc[u]
        /\ \A u \in Sessions \ {s} : session'[u] = session[u]
        /\ session'[s] = r /\ session[s].state = "free"
    <3>1. session[s].state = "free"
      BY <1>3 DEF Unused
    <3> QED
      BY <2>2, <2>3, <3>1 DEF IInv, Typed
  <2>5. SessionInv' /\ session' \in [Sessions -> SessionRecords]
    BY <1>1, <1>3, <2>2, <2>3, BuilderAllocates
  <2>6. Typed'
    BY <1>1, <1>2, <1>3, <2>3, <2>5, PcSets DEF IInv, Typed, gateVars
  <2>7. MainIsInOrder' /\ OperationsAreCounted' /\ HasOwner' /\ pc'[Main] # "end"
    BY <1>1, <1>2, <2>3, ClaimedMove
  <2>8. ReferencesAreCounted'
    BY <1>1, <1>2, <2>2, <2>3, <2>4, <2>7, WrapperIsCounted, CountersAreNat DEF IInv
  <2>9. ProgramsAreKept'
    <3>1. \A u \in Threads :
            /\ pc'[u] \in PreparePcs <=> pc[u] \in PreparePcs
            /\ pc'[u] = "commit" => arg'[u] \in ProgramIds
            /\ pc'[u] = "retain" => prog'[u] \in Programs /\ program[prog'[u]] = "published"
      BY <1>1, <2>4 DEF IInv, ProgramsAreKept, PreparePcs
    <3> QED
      BY <1>1, <1>2, <2>1, <2>2, <2>4, <3>1, ProgramsStay
  <2> QED
    BY <2>5, <2>6, <2>7, <2>8, <2>9 DEF IInv
<1>4. CASE Goto(t, "end_operation") /\ UNCHANGED <<reference_count, session, sess>>
  BY <1>1, <1>4, QuietKept
  DEF QuietPairs, PreparePcs, Move, Keep, ContextKept, contextVars, registryVars, gcVars
<1> QED
  BY <1>3, <1>4 DEF AllocateSession

LEMMA DiscardFreeKeeps ==
  ASSUME IInv, NEW t \in Threads, DiscardFree(t)
  PROVE  IInv'
<1> PICK s \in Sessions : s = sess[t]
  BY BuilderIsAlone DEF DiscardFree, BuilderPcs
<1>1. /\ pc[t] = "discard_free" /\ session' = [session EXCEPT ![s] = Unused]
      /\ pc' = [pc EXCEPT ![t] = "end_operation"] /\ sess' = [sess EXCEPT ![t] = NoSession]
      /\ ContextRelease
      /\ UNCHANGED <<active_operation_count, gateVars, live, registry, next_program_id,
                     program, backend, binding, exec, prog, arg, wants_gc, collection>>
  BY DEF DiscardFree, FreeSession, Goto, registryVars, gcVars
<1>2. /\ pc[t] \in Claimed /\ "end_operation" \in Claimed /\ HasOwner
      /\ pc[Main] \notin {"destroy_backend", "publish_teardown", "create", "end"}
      /\ shell # "none"
  BY <1>1, PcSets, ClaimIsActive DEF PostDrainPcs, IInv, MainIsInOrder
<1>3. SessionInv' /\ session' \in [Sessions -> SessionRecords] /\ session[s].state # "free"
  BY <1>1, BuilderFrees
<1>4. /\ \A u \in Threads : pc'[u] = IF u = t THEN "end_operation" ELSE pc[u]
      /\ \A u \in Sessions \ {s} : session'[u] = session[u]
      /\ session'[s] = Unused /\ Unused.state = "free" /\ Unused.program = NoProgram
  BY <1>1 DEF IInv, Typed, Unused
<1>5. HasOwner' /\ pc'[Main] # "end"
  BY <1>2, <1>4, AccelRuntimeAssumption DEF HasOwner
<1>6. ReferencesAreCounted' /\ shell' = shell
  BY <1>1, <1>2, <1>3, <1>4, <1>5, WrapperIsReleased DEF IInv
<1>7. MainIsInOrder' /\ OperationsAreCounted'
  BY <1>1, <1>2, <1>6, ClaimedMove
<1>8. Typed'
  BY <1>1, <1>2, <1>3, <1>6, PcSets DEF IInv, Typed, gateVars
<1>9. ProgramsAreKept'
  <2>1. \A u \in Threads :
          /\ pc'[u] \in PreparePcs <=> pc[u] \in PreparePcs
          /\ pc'[u] = "commit" => arg'[u] \in ProgramIds
          /\ pc'[u] = "retain" => prog'[u] \in Programs /\ program[prog'[u]] = "published"
    BY <1>1, <1>4 DEF IInv, ProgramsAreKept, PreparePcs
  <2> QED
    BY <1>1, <1>2, <1>4, <2>1, ProgramsStay
<1> QED
  BY <1>3, <1>6, <1>7, <1>8, <1>9 DEF IInv

(* Entering and leaving an operation.                                      *)
LEMMA ClaimIsCounted ==
  ASSUME OperationsAreCounted, NEW t \in Threads, pc[t] \notin Claimed, pc'[t] \in Claimed,
         \A u \in Threads \ {t} : pc'[u] = pc[u],
         active_operation_count' = active_operation_count + 1, UNCHANGED collection
  PROVE  OperationsAreCounted'
<1>1. ClaimedThreads' = ClaimedThreads \cup {t} /\ t \notin ClaimedThreads
  BY DEF ClaimedThreads
<1>2. Cardinality(ClaimedThreads') = Cardinality(ClaimedThreads) + 1
  BY <1>1, CountersAreNat, FS_AddElement
<1>3. Count(FinalizerClaims)' = Count(FinalizerClaims) /\ Count(FinalizerClaims) \in {0, 1}
  BY DEF Count, FinalizerClaims
<1> QED
  BY <1>2, <1>3, CountersAreNat DEF OperationsAreCounted

LEMMA ClaimIsEnded ==
  ASSUME OperationsAreCounted, NEW t \in Threads, pc[t] \in Claimed, pc'[t] \notin Claimed,
         \A u \in Threads \ {t} : pc'[u] = pc[u],
         active_operation_count' = active_operation_count - 1, UNCHANGED collection
  PROVE  OperationsAreCounted'
<1>1. ClaimedThreads' = ClaimedThreads \ {t} /\ t \in ClaimedThreads
  BY DEF ClaimedThreads
<1>2. Cardinality(ClaimedThreads') = Cardinality(ClaimedThreads) - 1
  BY <1>1, CountersAreNat, FS_RemoveElement
<1>3. Count(FinalizerClaims)' = Count(FinalizerClaims) /\ Count(FinalizerClaims) \in {0, 1}
  BY DEF Count, FinalizerClaims
<1> QED
  BY <1>2, <1>3, CountersAreNat DEF OperationsAreCounted

(* A thread outside of the operations that is not the main thread at its   *)
(* work moves: what there is does not change.                              *)
LEMMA CallerMove ==
  ASSUME IInv, NEW t \in Threads, pc[t] \notin MainPcs, NEW to \in Pcs \ MainPcs,
         to \notin PreparePcs \cup {"retain"}, pc[t] \notin PreparePcs,
         to \in BuilderPcs \cup WorkPcs \cup OwningPcs => FALSE,
         pc[t] \in BuilderPcs \cup WorkPcs \cup OwningPcs => FALSE,
         NEW x \in Sessions \cup {NoSession},
         to \notin PinningPcs => x = NoSession,
         to \in UserPcs => x \in Sessions,
         x \in Sessions => session[x].installed /\ x # collection.session,
         pc' = [pc EXCEPT ![t] = to], sess' = [sess EXCEPT ![t] = x],
         prog' \in [Threads -> Programs \cup {NoProgram}], arg' \in [Threads -> 0 .. MaxProgramId],
         \A u \in Threads \ {t} : prog'[u] = prog[u] /\ arg'[u] = arg[u],
         UNCHANGED <<shell, reference_count, gateVars, live, registry, next_program_id, program,
                     backend, binding, session, exec, wants_gc, collection>>,
         OperationsAreCounted',
         pc[Main] \in {"create"} \cup PostDrainPcs =>
           active_operation_count' = active_operation_count
  PROVE  IInv'
<1>1. \A u \in Threads : pc'[u] = IF u = t THEN to ELSE pc[u]
  BY DEF IInv, Typed
<1>2. Typed'
  BY DEF IInv, Typed, gateVars
<1>3. /\ pc'[Main] \in MainPcs \/ pc[Main] \in MainPcs => pc'[Main] = pc[Main]
      /\ PostDrainPcs \subseteq MainPcs /\ PostBackend \subseteq MainPcs
      /\ {"create", "register", "drain", "destroy_backend", "publish_teardown", "vm_destroy",
          "teardown", "end"} \subseteq MainPcs
  BY <1>1, PcSets, AccelRuntimeAssumption DEF MainPcs, PostBackend
<1>4. MainIsInOrder'
  BY <1>1, <1>3 DEF IInv, MainIsInOrder, gateVars
<1>5. ReferencesAreCounted'
  <2>1. (HasOwner' <=> HasOwner) /\ (pc'[Main] = "end" => pc[Main] = "end")
    BY <1>3 DEF HasOwner
  <2> QED
    BY <2>1, ReferencesKept DEF IInv
<1>6. SessionInv'
  BY OutsideMove
<1>7. ProgramsAreKept'
  <2>1. \A u \in Threads :
          /\ pc'[u] \in PreparePcs <=> pc[u] \in PreparePcs
          /\ pc'[u] \in PreparePcs => prog'[u] = prog[u]
          /\ pc'[u] = "commit" => arg'[u] \in ProgramIds
          /\ pc'[u] = "retain" => prog'[u] \in Programs /\ program[prog'[u]] = "published"
    BY <1>1 DEF IInv, ProgramsAreKept, PreparePcs
  <2> QED
    BY <1>3, <2>1, ProgramsStay
<1> QED
  BY <1>2, <1>4, <1>5, <1>6, <1>7 DEF IInv

LEMMA CallKeeps ==
  ASSUME IInv, NEW t \in Threads, Call(t)
  PROVE  IInv'
<1>1. /\ pc[t] = "idle" /\ sess[t] = NoSession /\ NoSession \notin Sessions
      /\ UNCHANGED <<shell, reference_count, active_operation_count, gateVars, live, registry,
                     next_program_id, program, backend, binding, session, exec, prog, arg,
                     wants_gc, collection>>
  BY AccelRuntimeAssumption
  DEF Call, contextVars, registryVars, gcVars, IInv, SessionInv, SessionsArePinned, PinningPcs,
      BuilderPcs, UserPcs, OrphanPcs
<1>2. ASSUME NEW to \in ClaimPcs, NEW x \in Sessions \cup {NoSession},
             pc' = [pc EXCEPT ![t] = to], sess' = [sess EXCEPT ![t] = x],
             to \in {"claim_dispatch", "claim_finish"} <=> x \in Sessions,
             x \in Sessions => session[x].installed /\ x # collection.session
      PROVE  IInv'
  <2>1. /\ pc[t] \notin MainPcs /\ to \in Pcs \ MainPcs /\ to \notin Claimed
        /\ to \notin PreparePcs \cup {"retain"} \cup BuilderPcs \cup WorkPcs \cup OwningPcs
        /\ pc[t] \notin PreparePcs \cup BuilderPcs \cup WorkPcs \cup OwningPcs \cup Claimed
        /\ to \in UserPcs => to \in {"claim_dispatch", "claim_finish"}
        /\ to \in {"claim_dispatch", "claim_finish"} => to \in PinningPcs
    BY <1>1, <1>2, PcSets
    DEF ClaimPcs, MainPcs, Pcs, InFlight, PreparePcs, BuilderPcs, WorkPcs, OwningPcs, UserPcs,
        PinningPcs
  <2>2. OperationsAreCounted'
    <3>1. \A u \in Threads : pc'[u] \in Claimed <=> pc[u] \in Claimed
      BY <1>2, <2>1 DEF IInv, Typed
    <3> QED
      BY <1>1, <3>1, OperationsKept DEF IInv, FinalizerClaims
  <2>3. /\ \A u \in Threads \ {t} : prog'[u] = prog[u] /\ arg'[u] = arg[u]
        /\ prog' \in [Threads -> Programs \cup {NoProgram}]
        /\ arg' \in [Threads -> 0 .. MaxProgramId]
    BY <1>1 DEF IInv, Typed
  <2>4. to \notin PinningPcs => x = NoSession
    BY <1>2, <2>1
  <2> QED
    BY <1>1, <1>2, <2>1, <2>2, <2>3, <2>4, CallerMove
<1>3. CASE (Goto(t, "claim_begin") \/ Goto(t, "claim_optimize")) /\ UNCHANGED sess
  <2>1. sess' = [sess EXCEPT ![t] = NoSession]
    BY <1>1, <1>3 DEF IInv, Typed
  <2> QED
    BY <1>1, <1>2, <1>3, <2>1 DEF Goto, ClaimPcs
<1>4. ASSUME NEW s \in Sessions, session[s].installed, collection.session # s,
             sess' = [sess EXCEPT ![t] = s],
             Goto(t, "claim_dispatch") \/ Goto(t, "claim_finish")
      PROVE  IInv'
  BY <1>2, <1>4 DEF Goto, ClaimPcs
<1> QED
  BY <1>3, <1>4 DEF Call

ClaimPairs == {<<"claim_begin", "lookup">>, <<"claim_dispatch", "dispatch">>,
               <<"claim_finish", "finish">>, <<"claim_optimize", "prepare">>}

LEMMA ClaimKeeps ==
  ASSUME IInv, NEW t \in Threads, Claims(t)
  PROVE  IInv'
<1>1. PICK from, to : <<from, to>> \in ClaimPairs /\ Claim(t, from, to)
  BY DEF Claims, ClaimPairs
<1>2. /\ pc[t] = from
      /\ UNCHANGED <<shell, reference_count, gateVars, live, registry, next_program_id,
                     program, backend, binding, session, exec, prog, arg, wants_gc,
                     collection>>
  BY <1>1 DEF Claim, registryVars, gcVars
<1>3. /\ from \in ClaimPcs /\ from \notin MainPcs \cup Claimed
      /\ from \notin PreparePcs \cup BuilderPcs \cup WorkPcs \cup OwningPcs
      /\ to \in Pcs \ MainPcs /\ to \in Claimed
      /\ to \notin PreparePcs \cup {"retain"} \cup BuilderPcs \cup WorkPcs \cup OwningPcs
      /\ to \in PinningPcs <=> from \in PinningPcs
      /\ to \in UserPcs <=> from \in UserPcs
      /\ from \in PinningPcs => from \in UserPcs
      /\ "idle" \in Pcs \ MainPcs
      /\ "idle" \notin PreparePcs \cup {"retain"} \cup BuilderPcs \cup WorkPcs \cup OwningPcs
                            \cup UserPcs \cup Claimed
  BY <1>1, PcSets
  DEF ClaimPairs, ClaimPcs, MainPcs, Pcs, InFlight, PreparePcs, BuilderPcs, WorkPcs, OwningPcs,
      UserPcs, PinningPcs, OrphanPcs
<1>4. /\ \A u \in Threads \ {t} : prog'[u] = prog[u] /\ arg'[u] = arg[u]
      /\ prog' \in [Threads -> Programs \cup {NoProgram}]
      /\ arg' \in [Threads -> 0 .. MaxProgramId]
      /\ NoSession \notin Sessions
  BY <1>2, AccelRuntimeAssumption DEF IInv, Typed
<1>5. CASE /\ attached /\ active_operation_count' = active_operation_count + 1
           /\ pc' = [pc EXCEPT ![t] = to] /\ UNCHANGED sess
  <2>1. OperationsAreCounted'
    <3>1. pc'[t] = to /\ \A u \in Threads \ {t} : pc'[u] = pc[u]
      BY <1>5 DEF IInv, Typed
    <3> QED
      BY <1>2, <1>3, <1>5, <3>1, ClaimIsCounted DEF IInv
  <2>2. pc[Main] \notin {"create"} \cup PostDrainPcs
    BY <1>5, PcSets DEF IInv, MainIsInOrder, MainPcs
  <2>3. PICK x \in Sessions \cup {NoSession} : x = sess[t]
    BY DEF IInv, Typed
  <2>4. sess' = [sess EXCEPT ![t] = x]
    BY <1>5, <2>3 DEF IInv, Typed
  <2>5. /\ to \notin PinningPcs => x = NoSession
        /\ to \in UserPcs => x \in Sessions
        /\ x \in Sessions => session[x].installed
    BY <1>2, <1>3, <1>4, <2>3 DEF IInv, SessionInv, SessionsArePinned
  <2>6. x \in Sessions => x # collection.session
    <3>1. from \notin OrphanPcs
      BY <1>3 DEF ClaimPcs, OrphanPcs
    <3> QED
      BY <1>2, <1>4, <2>3, <3>1 DEF IInv, SessionInv, FinalizerIsAlone
  <2> QED
    BY <1>2, <1>3, <1>4, <1>5, <2>1, <2>2, <2>4, <2>5, <2>6, CallerMove
<1>6. CASE /\ pc' = [pc EXCEPT ![t] = "idle"] /\ sess' = [sess EXCEPT ![t] = NoSession]
           /\ UNCHANGED active_operation_count
  <2>1. OperationsAreCounted'
    <3>1. \A u \in Threads : pc'[u] \in Claimed <=> pc[u] \in Claimed
      BY <1>2, <1>3, <1>6 DEF IInv, Typed
    <3> QED
      BY <1>2, <1>6, <3>1, OperationsKept DEF IInv, FinalizerClaims
  <2> QED
    BY <1>2, <1>3, <1>4, <1>6, <2>1, CallerMove
<1> QED
  BY <1>1, <1>5, <1>6 DEF Claim, MayClaim, BeginOperation, Goto

LEMMA EndCallKeeps ==
  ASSUME IInv, NEW t \in Threads, EndCall(t)
  PROVE  IInv'
<1>1. /\ pc[t] = "end_operation" /\ pc' = [pc EXCEPT ![t] = "idle"]
      /\ sess' = [sess EXCEPT ![t] = NoSession]
      /\ prog' = [prog EXCEPT ![t] = NoProgram] /\ arg' = [arg EXCEPT ![t] = 0]
      /\ active_operation_count' = active_operation_count - 1
      /\ UNCHANGED <<shell, reference_count, gateVars, live, registry, next_program_id,
                     program, backend, binding, session, exec, wants_gc, collection>>
  BY DEF EndCall, EndOperation, Goto, registryVars, gcVars
<1>2. /\ pc[t] \in Claimed /\ pc[t] \notin MainPcs
      /\ pc[t] \notin PreparePcs \cup BuilderPcs \cup WorkPcs \cup OwningPcs
      /\ "idle" \in Pcs \ MainPcs
      /\ "idle" \notin PreparePcs \cup {"retain"} \cup BuilderPcs \cup WorkPcs \cup OwningPcs
                            \cup UserPcs \cup Claimed
  BY <1>1, PcSets
  DEF MainPcs, Pcs, InFlight, PreparePcs, BuilderPcs, WorkPcs, OwningPcs, UserPcs
<1>3. /\ \A u \in Threads \ {t} : prog'[u] = prog[u] /\ arg'[u] = arg[u]
      /\ prog' \in [Threads -> Programs \cup {NoProgram}]
      /\ arg' \in [Threads -> 0 .. MaxProgramId]
      /\ NoSession \notin Sessions
  BY <1>1, AccelRuntimeAssumption, AccelContextAssumption DEF IInv, Typed
<1>4. OperationsAreCounted'
  <2>1. pc'[t] = "idle" /\ \A u \in Threads \ {t} : pc'[u] = pc[u]
    BY <1>1 DEF IInv, Typed
  <2> QED
    BY <1>1, <1>2, <2>1, ClaimIsEnded DEF IInv
<1>5. pc[Main] \notin {"create"} \cup PostDrainPcs
  BY <1>2, ClaimIsActive
<1> QED
  BY <1>1, <1>2, <1>3, <1>4, <1>5, CallerMove

(* The optimizer, which works on programs that no other thread has.        *)
LEMMA OptimizerKept ==
  ASSUME IInv, NEW t \in Threads, NEW from, NEW to, OptimizerStep(t, from, to),
         <<from, to>> \in QuietPairs, ProgramsAreKept',
         registry' \in [ProgramIds -> Programs \cup {NoProgram}],
         next_program_id' \in 1 .. MaxProgramId + 1,
         program' \in [Programs -> {"none", "prepared", "published", "destroyed"}],
         prog' \in [Threads -> Programs \cup {NoProgram}],
         arg' \in [Threads -> 0 .. MaxProgramId]
  PROVE  IInv'
<1>1. /\ pc[t] = from /\ pc' = [pc EXCEPT ![t] = to]
      /\ UNCHANGED <<shell, reference_count, active_operation_count, gateVars, live, backend,
                     binding, session, exec, sess, wants_gc, collection>>
  BY DEF OptimizerStep, Goto, gcVars
<1>2. from \in Claimed /\ to \in Claimed /\ HasOwner
  BY <1>1, QuietPairsAreClaimed, ClaimIsActive
<1>3. Typed'
  BY <1>1, <1>2, PcSets DEF IInv, Typed, gateVars
<1>4. MainIsInOrder' /\ OperationsAreCounted' /\ HasOwner' /\ pc'[Main] # "end"
  BY <1>1, <1>2, ClaimedMove
<1>5. ReferencesAreCounted'
  BY <1>1, <1>2, <1>4, ReferencesKept DEF IInv
<1>6. SessionInv'
  BY <1>1, QuietMove
<1> QED
  BY <1>3, <1>4, <1>5, <1>6 DEF IInv

LEMMA OptimizerPc ==
  ASSUME IInv, NEW t \in Threads, NEW from \in Claimed, NEW to, OptimizerStep(t, from, to)
  PROVE  /\ pc[t] = from /\ \A u \in Threads : pc'[u] = IF u = t THEN to ELSE pc[u]
         /\ pc[Main] \notin {"destroy_backend", "publish_teardown"} /\ UNCHANGED session
BY ClaimIsActive DEF OptimizerStep, Goto, IInv, Typed, PostDrainPcs

LEMMA PrepareKeeps ==
  ASSUME IInv, NEW t \in Threads, PrepareProgram(t)
  PROVE  IInv'
<1>1. ASSUME NEW p \in Unprepared, OptimizerStep(t, "prepare", "reserve"),
             program' = [program EXCEPT ![p] = "prepared"], prog' = [prog EXCEPT ![t] = p],
             UNCHANGED <<registry, next_program_id, arg>>
      PROVE  IInv'
  <2>1. /\ p \in Programs /\ program[p] = "none"
        /\ \A q \in Programs : program'[q] = IF q = p THEN "prepared" ELSE program[q]
        /\ \A u \in Threads : prog'[u] = IF u = t THEN p ELSE prog[u]
        /\ NoProgram \notin Programs
    BY <1>1, AccelContextAssumption DEF Unprepared, IInv, Typed
  <2>2. /\ pc[t] = "prepare" /\ \A u \in Threads : pc'[u] = IF u = t THEN "reserve" ELSE pc[u]
        /\ pc[Main] \notin {"destroy_backend", "publish_teardown"} /\ UNCHANGED session
    BY <1>1, OptimizerPc, PcSets
  <2>3. ProgramsAreKept'
    <3>1. /\ \A q \in Programs : program[q] = "published" <=> program'[q] = "published"
          /\ \A q \in Programs : program[q] = "prepared" => program'[q] = "prepared"
      BY <2>1
    <3>2. \A q \in Programs : program'[q] = "published" => \E i \in ProgramIds : registry'[i] = q
      BY <1>1, <3>1 DEF IInv, ProgramsAreKept
    <3>3. \A q \in Programs : program'[q] = "prepared" =>
            \E u \in Threads : pc'[u] \in PreparePcs /\ prog'[u] = q
      <4>1. pc'[t] \in PreparePcs /\ prog'[t] = p
        BY <2>1, <2>2 DEF PreparePcs
      <4>2. ASSUME NEW q \in Programs, program[q] = "prepared"
            PROVE  \E u \in Threads : pc'[u] \in PreparePcs /\ prog'[u] = q
        BY <2>1, <2>2, <4>2 DEF IInv, ProgramsAreKept, PreparePcs
      <4> QED
        BY <2>1, <4>1, <4>2
    <3>4. \A u \in Threads :
            /\ pc'[u] \in PreparePcs => prog'[u] \in Programs /\ program'[prog'[u]] = "prepared"
            /\ pc'[u] = "commit" => arg'[u] \in ProgramIds
            /\ pc'[u] = "retain" => prog'[u] \in Programs /\ program'[prog'[u]] = "published"
      BY <1>1, <2>1, <2>2, <3>1 DEF IInv, ProgramsAreKept
    <3>5. \A u, v \in Threads :
            pc'[u] \in PreparePcs /\ pc'[v] \in PreparePcs /\ prog'[u] = prog'[v] => u = v
      BY <2>1, <2>2 DEF IInv, ProgramsAreKept
    <3>6. \A i \in ProgramIds : registry'[i] # NoProgram => program'[registry'[i]] = "published"
      BY <1>1, <2>1, <2>2 DEF IInv, ProgramsAreKept, Typed
    <3>7. \A s \in Sessions : session'[s].program # NoProgram =>
            program'[session'[s].program] = "published"
      BY <2>1, <2>2 DEF IInv, ProgramsAreKept, Typed, SessionRecords
    <3> QED
      BY <3>2, <3>3, <3>4, <3>5, <3>6, <3>7 DEF ProgramsAreKept
  <2>4. <<"prepare", "reserve">> \in QuietPairs
    BY DEF QuietPairs
  <2> QED
    BY <1>1, <2>1, <2>3, <2>4, OptimizerKept DEF IInv, Typed
<1>2. CASE OptimizerStep(t, "prepare", "end_operation") /\ UNCHANGED <<registryVars, prog, arg>>
  <2>1. Move(t, "end_operation") /\ ContextKept /\ UNCHANGED <<session, exec>>
    BY <1>2 DEF OptimizerStep, Move, Keep, ContextKept, contextVars
  <2>2. <<pc[t], "end_operation">> \in QuietPairs /\ pc[t] = "prepare"
    BY <1>2 DEF OptimizerStep, QuietPairs
  <2> QED
    BY <2>1, <2>2, QuietKept DEF PreparePcs
<1> QED
  BY <1>1, <1>2 DEF PrepareProgram

(* A step towards the commit, or away from it, that publishes nothing.     *)
ReservationPairs == {<<"reserve", "commit">>, <<"reserve", "undo_prepare">>,
                     <<"commit", "undo_prepare">>}

LEMMA ReservationMove ==
  ASSUME IInv, NEW t \in Threads, NEW from, NEW to, <<from, to>> \in ReservationPairs,
         OptimizerStep(t, from, to), UNCHANGED <<registry, program, prog>>,
         next_program_id' \in 1 .. MaxProgramId + 1,
         arg' \in [Threads -> 0 .. MaxProgramId],
         \A u \in Threads : arg'[u] = arg[u] \/ (u = t /\ arg'[u] \in ProgramIds),
         to = "commit" => arg'[t] \in ProgramIds
  PROVE  IInv'
<1>1. from \in Claimed \cap PreparePcs /\ to \in PreparePcs /\ <<from, to>> \in QuietPairs
  BY PcSets DEF PreparePcs, QuietPairs, ReservationPairs
<1>2. /\ pc[t] = from /\ \A u \in Threads : pc'[u] = IF u = t THEN to ELSE pc[u]
      /\ pc[Main] \notin {"destroy_backend", "publish_teardown"} /\ UNCHANGED session
  BY <1>1, OptimizerPc
<1>3. ProgramsAreKept'
  <2>1. \A u \in Threads :
          /\ pc'[u] \in PreparePcs <=> pc[u] \in PreparePcs
          /\ pc'[u] = "commit" => arg'[u] \in ProgramIds
          /\ pc'[u] = "retain" => prog'[u] \in Programs /\ program[prog'[u]] = "published"
    BY <1>1, <1>2 DEF IInv, ProgramsAreKept, PreparePcs, ReservationPairs
  <2> QED
    BY <1>2, <2>1, ProgramsStay
<1> QED
  BY <1>1, <1>3, OptimizerKept DEF IInv, Typed

LEMMA ReserveKeeps ==
  ASSUME IInv, NEW t \in Threads, ReserveProgram(t)
  PROVE  IInv'
<1>1. CASE /\ MayReserve /\ OptimizerStep(t, "reserve", "commit") /\ Reserve
           /\ arg' = [arg EXCEPT ![t] = next_program_id] /\ UNCHANGED prog
  <2>1. next_program_id \in ProgramIds /\ next_program_id' \in 1 .. MaxProgramId + 1
    BY <1>1, AccelContextAssumption DEF MayReserve, Reserve, ProgramIds, IInv, Typed
  <2>2. /\ arg' \in [Threads -> 0 .. MaxProgramId] /\ arg'[t] \in ProgramIds
        /\ \A u \in Threads : arg'[u] = arg[u] \/ (u = t /\ arg'[u] \in ProgramIds)
    BY <1>1, <2>1, AccelContextAssumption DEF ProgramIds, IInv, Typed
  <2>3. UNCHANGED <<registry, program, prog>>
    BY <1>1 DEF Reserve
  <2>4. <<"reserve", "commit">> \in ReservationPairs
    BY DEF ReservationPairs
  <2> QED
    BY <1>1, <2>1, <2>2, <2>3, <2>4, ReservationMove
<1>2. CASE /\ OptimizerStep(t, "reserve", "undo_prepare")
           /\ UNCHANGED <<registryVars, arg, prog>>
  <2>1. /\ UNCHANGED <<registry, program, prog>> /\ next_program_id' \in 1 .. MaxProgramId + 1
        /\ arg' \in [Threads -> 0 .. MaxProgramId] /\ \A u \in Threads : arg'[u] = arg[u]
    BY <1>2 DEF registryVars, IInv, Typed
  <2>2. <<"reserve", "undo_prepare">> \in ReservationPairs
    BY DEF ReservationPairs
  <2> QED
    BY <1>2, <2>1, <2>2, ReservationMove
<1> QED
  BY <1>1, <1>2 DEF ReserveProgram

LEMMA CommitKeeps ==
  ASSUME IInv, NEW t \in Threads, CommitPrograms(t)
  PROVE  IInv'
<1>1. CASE /\ MayCommit(arg[t]) /\ OptimizerStep(t, "commit", "end_operation")
           /\ Publish(prog[t], arg[t]) /\ UNCHANGED <<prog, arg>>
  <2> PICK p, id : p = prog[t] /\ id = arg[t]
    OBVIOUS
  <2>1. /\ pc[t] = "commit"
        /\ \A u \in Threads : pc'[u] = IF u = t THEN "end_operation" ELSE pc[u]
        /\ pc[Main] \notin {"destroy_backend", "publish_teardown"} /\ UNCHANGED session
    BY <1>1, OptimizerPc, PcSets
  <2>2. /\ p \in Programs /\ program[p] = "prepared" /\ id \in ProgramIds
        /\ registry[id] = NoProgram /\ NoProgram \notin Programs
        /\ \A u \in Threads : pc[u] \in PreparePcs /\ prog[u] = p => u = t
    BY <1>1, <2>1, AccelContextAssumption DEF MayCommit, IInv, ProgramsAreKept, PreparePcs
  <2>3. /\ \A q \in Programs : program'[q] = IF q = p THEN "published" ELSE program[q]
        /\ \A i \in ProgramIds : registry'[i] = IF i = id THEN p ELSE registry[i]
        /\ registry' \in [ProgramIds -> Programs \cup {NoProgram}]
        /\ program' \in [Programs -> {"none", "prepared", "published", "destroyed"}]
        /\ UNCHANGED <<next_program_id, prog, arg>>
    BY <1>1, <2>2 DEF Publish, IInv, Typed
  <2>4. ProgramsAreKept'
    <3>1. \A q \in Programs : program'[q] = "published" => \E i \in ProgramIds : registry'[i] = q
      BY <2>2, <2>3 DEF IInv, ProgramsAreKept
    <3>2. \A q \in Programs : program'[q] = "prepared" =>
            \E u \in Threads : pc'[u] \in PreparePcs /\ prog'[u] = q
      BY <2>1, <2>2, <2>3 DEF IInv, ProgramsAreKept
    <3>3. "end_operation" \notin PreparePcs \cup {"retain"}
      BY DEF PreparePcs
    <3>4. \A u \in Threads :
            /\ pc'[u] \in PreparePcs => prog'[u] \in Programs /\ program'[prog'[u]] = "prepared"
            /\ pc'[u] = "commit" => arg'[u] \in ProgramIds
            /\ pc'[u] = "retain" => prog'[u] \in Programs /\ program'[prog'[u]] = "published"
      BY <2>1, <2>2, <2>3, <3>3 DEF IInv, ProgramsAreKept
    <3>5. \A u, v \in Threads :
            pc'[u] \in PreparePcs /\ pc'[v] \in PreparePcs /\ prog'[u] = prog'[v] => u = v
      BY <2>1, <2>3, <3>3 DEF IInv, ProgramsAreKept
    <3>6. \A i \in ProgramIds : registry'[i] # NoProgram => program'[registry'[i]] = "published"
      BY <2>1, <2>2, <2>3 DEF IInv, ProgramsAreKept, Typed
    <3>7. \A s \in Sessions : session'[s].program # NoProgram =>
            program'[session'[s].program] = "published"
      BY <2>1, <2>2, <2>3 DEF IInv, ProgramsAreKept, Typed, SessionRecords
    <3> QED
      BY <3>1, <3>2, <3>4, <3>5, <3>6, <3>7 DEF ProgramsAreKept
  <2>5. <<"commit", "end_operation">> \in QuietPairs
    BY DEF QuietPairs
  <2> QED
    BY <1>1, <2>3, <2>4, <2>5, OptimizerKept DEF IInv, Typed
<1>2. CASE OptimizerStep(t, "commit", "undo_prepare") /\ UNCHANGED <<registryVars, prog, arg>>
  <2>1. /\ UNCHANGED <<registry, program, prog>> /\ next_program_id' \in 1 .. MaxProgramId + 1
        /\ arg' \in [Threads -> 0 .. MaxProgramId] /\ \A u \in Threads : arg'[u] = arg[u]
    BY <1>2 DEF registryVars, IInv, Typed
  <2>2. <<"commit", "undo_prepare">> \in ReservationPairs
    BY DEF ReservationPairs
  <2> QED
    BY <1>2, <2>1, <2>2, ReservationMove
<1> QED
  BY <1>1, <1>2 DEF CommitPrograms

LEMMA UndoKeeps ==
  ASSUME IInv, NEW t \in Threads, UndoPrepare(t)
  PROVE  IInv'
<1> PICK p : p = prog[t]
  OBVIOUS
<1>1. /\ OptimizerStep(t, "undo_prepare", "end_operation")
      /\ program' = [program EXCEPT ![p] = "none"]
      /\ UNCHANGED <<registry, next_program_id, prog, arg>>
  BY DEF UndoPrepare
<1>2. /\ pc[t] = "undo_prepare"
      /\ \A u \in Threads : pc'[u] = IF u = t THEN "end_operation" ELSE pc[u]
      /\ pc[Main] \notin {"destroy_backend", "publish_teardown"} /\ UNCHANGED session
  BY <1>1, OptimizerPc, PcSets
<1>3. /\ p \in Programs /\ program[p] = "prepared" /\ NoProgram \notin Programs
      /\ \A u \in Threads : pc[u] \in PreparePcs /\ prog[u] = p => u = t
  BY <1>1, <1>2, AccelContextAssumption DEF IInv, ProgramsAreKept, PreparePcs
<1>4. /\ \A q \in Programs : program'[q] = IF q = p THEN "none" ELSE program[q]
      /\ program' \in [Programs -> {"none", "prepared", "published", "destroyed"}]
  BY <1>1, <1>3 DEF IInv, Typed
<1>5. ProgramsAreKept'
  <2>1. \A q \in Programs : program'[q] = "published" => \E i \in ProgramIds : registry'[i] = q
    BY <1>1, <1>3, <1>4 DEF IInv, ProgramsAreKept
  <2>2. \A q \in Programs : program'[q] = "prepared" =>
          \E u \in Threads : pc'[u] \in PreparePcs /\ prog'[u] = q
    BY <1>1, <1>2, <1>3, <1>4 DEF IInv, ProgramsAreKept
  <2>3. "end_operation" \notin PreparePcs \cup {"retain"}
    BY DEF PreparePcs
  <2>4. \A u \in Threads :
          /\ pc'[u] \in PreparePcs => prog'[u] \in Programs /\ program'[prog'[u]] = "prepared"
          /\ pc'[u] = "commit" => arg'[u] \in ProgramIds
          /\ pc'[u] = "retain" => prog'[u] \in Programs /\ program'[prog'[u]] = "published"
    BY <1>1, <1>2, <1>3, <1>4, <2>3 DEF IInv, ProgramsAreKept
  <2>5. \A u, v \in Threads :
          pc'[u] \in PreparePcs /\ pc'[v] \in PreparePcs /\ prog'[u] = prog'[v] => u = v
    BY <1>1, <1>2, <2>3 DEF IInv, ProgramsAreKept
  <2>6. \A i \in ProgramIds : registry'[i] # NoProgram => program'[registry'[i]] = "published"
    BY <1>1, <1>2, <1>3, <1>4 DEF IInv, ProgramsAreKept, Typed
  <2>7. \A s \in Sessions : session'[s].program # NoProgram =>
          program'[session'[s].program] = "published"
    BY <1>2, <1>3, <1>4 DEF IInv, ProgramsAreKept, Typed, SessionRecords
  <2> QED
    BY <2>1, <2>2, <2>4, <2>5, <2>6, <2>7 DEF ProgramsAreKept
<1>6. <<"undo_prepare", "end_operation">> \in QuietPairs
  BY DEF QuietPairs
<1> QED
  BY <1>1, <1>4, <1>5, <1>6, OptimizerKept DEF IInv, Typed

LEMMA OperationKeeps ==
  ASSUME IInv, NEW t \in Threads, OperationStep(t)
  PROVE  IInv'
BY ClaimKeeps, EndCallKeeps, DestroyExecutionKeeps, LookupKeeps, AllocateKeeps,
   ReadMetadataKeeps, LinkKeeps, CreateKeeps, PublishKeeps, InstallKeeps, DiscardKeeps,
   DiscardFreeKeeps, DispatchKeeps, DispatchReturnsKeeps, FinishCloseKeeps, PrepareKeeps,
   ReserveKeeps, CommitKeeps, UndoKeeps
DEF OperationStep

-----------------------------------------------------------------------------
(* The steps of the main thread.                                           *)

MainSteps ==
  {<<"create", "register">>, <<"register", "attach">>, <<"register", "destroy">>,
   <<"attach", "idle">>, <<"idle", "destroy">>, <<"destroy", "drain">>,
   <<"drain", "orphan_next">>, <<"orphan_next", "destroy_programs">>,
   <<"destroy_programs", "destroy_backend">>, <<"destroy_backend", "publish_teardown">>,
   <<"publish_teardown", "release">>, <<"release", "vm_destroy">>,
   <<"vm_destroy", "teardown">>, <<"teardown", "end">>}

(* Whatever it does to the context, it leaves the sessions alone.          *)
LEMMA MainMove ==
  ASSUME IInv, NEW from, NEW to, <<from, to>> \in MainSteps, pc[Main] = from,
         pc' = [pc EXCEPT ![Main] = to],
         \/ UNCHANGED sess /\ from # "orphan_next"
         \/ sess' = [sess EXCEPT ![Main] = NoSession],
         UNCHANGED <<session, exec, live, active_operation_count, prog, arg, wants_gc,
                     collection>>
  PROVE  /\ SessionInv' /\ OperationsAreCounted'
         /\ pc' \in [Threads -> Pcs] /\ sess' \in [Threads -> Sessions \cup {NoSession}]
         /\ \A t \in Threads : pc'[t] = IF t = Main THEN to ELSE pc[t]
         /\ \A t \in Threads \ {Main} : pc'[t] \notin MainPcs
<1>1. Main \in Threads /\ NoSession \notin Sessions
  BY AccelRuntimeAssumption
<1>2. /\ from \notin Claimed \cup BuilderPcs \cup WorkPcs \cup OwningPcs \cup UserPcs
      /\ to \notin Claimed \cup BuilderPcs \cup WorkPcs \cup OwningPcs \cup UserPcs
      /\ to \in Pcs /\ (from \in PinningPcs => from = "orphan_next")
  BY PcSets DEF MainSteps, BuilderPcs, WorkPcs, OwningPcs, UserPcs, PinningPcs, OrphanPcs, Pcs,
                InFlight, MainPcs
<1>3. \A t \in Threads : pc'[t] = IF t = Main THEN to ELSE pc[t]
  BY DEF IInv, Typed
<1>4. sess' = [sess EXCEPT ![Main] = NoSession]
  <2>1. from # "orphan_next" => sess[Main] = NoSession
    BY <1>1, <1>2 DEF IInv, SessionInv, SessionsArePinned
  <2> QED
    BY <2>1 DEF IInv, Typed
<1>5. SessionInv'
  BY <1>1, <1>2, <1>4, OutsideMove
<1>6. OperationsAreCounted'
  <2>1. \A t \in Threads : pc'[t] \in Claimed <=> pc[t] \in Claimed
    BY <1>1, <1>2, <1>3
  <2> QED
    BY <2>1, OperationsKept DEF IInv, FinalizerClaims
<1>7. pc' \in [Threads -> Pcs] /\ sess' \in [Threads -> Sessions \cup {NoSession}]
  BY <1>2, <1>4 DEF IInv, Typed
<1>8. \A t \in Threads \ {Main} : pc'[t] \notin MainPcs
  BY <1>3 DEF IInv, MainIsInOrder
<1> QED
  BY <1>3, <1>5, <1>6, <1>7, <1>8

(* The programs stay too.                                                  *)
LEMMA MainProgramsStay ==
  ASSUME IInv, NEW from, NEW to, <<from, to>> \in MainSteps, pc[Main] = from,
         \A t \in Threads : pc'[t] = IF t = Main THEN to ELSE pc[t],
         from # "publish_teardown",
         UNCHANGED <<session, prog, arg, registry, program>>
  PROVE  ProgramsAreKept'
<1>1. \A t \in Threads :
        /\ pc'[t] \in PreparePcs <=> pc[t] \in PreparePcs
        /\ pc'[t] = "commit" => arg'[t] \in ProgramIds
        /\ pc'[t] = "retain" => prog'[t] \in Programs /\ program[prog'[t]] = "published"
  BY DEF IInv, ProgramsAreKept, PreparePcs, MainSteps
<1>2. pc[Main] \in {"destroy_backend", "publish_teardown"} =>
        pc'[Main] \in {"destroy_backend", "publish_teardown"}
  BY AccelRuntimeAssumption DEF MainSteps
<1> QED
  BY <1>1, <1>2, ProgramsStay

LEMMA CreateContextKeeps ==
  ASSUME IInv, Create
  PROVE  IInv'
<1>1. /\ pc[Main] = "create" /\ <<"create", "register">> \in MainSteps
      /\ pc' = [pc EXCEPT ![Main] = "register"]
      /\ shell' = "live" /\ reference_count' = 1
      /\ UNCHANGED <<active_operation_count, gateVars, live, registry, next_program_id, program,
                     backend, binding, session, exec, sess, prog, arg, wants_gc, collection>>
  BY DEF Create, ContextCreate, Goto, Keep, registryVars, gcVars, MainSteps
<1>2. /\ SessionInv' /\ OperationsAreCounted'
      /\ pc' \in [Threads -> Pcs] /\ sess' \in [Threads -> Sessions \cup {NoSession}]
      /\ \A t \in Threads : pc'[t] = IF t = Main THEN "register" ELSE pc[t]
      /\ \A t \in Threads \ {Main} : pc'[t] \notin MainPcs
  BY <1>1, MainMove
<1>3. pc'[Main] = "register"
  BY <1>2, AccelRuntimeAssumption
<1>4. Typed'
  BY <1>1, <1>2 DEF IInv, Typed, gateVars
<1>5. MainIsInOrder'
  BY <1>1, <1>2, <1>3
  DEF IInv, MainIsInOrder, gateVars, MainPcs, PostDrainPcs, PostBackend, OrphanPcs
<1>6. ReferencesAreCounted'
  <2>1. reference_count = 0 /\ binding # "live" /\ ~HasOwner /\ HasOwner'
    BY <1>1, <1>3 DEF IInv, MainIsInOrder, HasOwner
  <2>2. Cardinality(Wrapped) = 0
    BY <2>1, References, CountersAreNat DEF IInv, Count
  <2>3. Wrapped' = Wrapped
    BY <1>1 DEF Wrapped
  <2>4. Count(HasOwner)' = 1 /\ Count(binding = "live")' = 0
    BY <1>1, <2>1 DEF Count
  <2> QED
    BY <1>1, <1>3, <2>2, <2>3, <2>4 DEF ReferencesAreCounted, HasOwner, Wrapped
<1>7. ProgramsAreKept'
  BY <1>1, <1>2, MainProgramsStay
<1> QED
  BY <1>2, <1>4, <1>5, <1>6, <1>7 DEF IInv

(* The binding's reference comes and goes.                                 *)
LEMMA BindingIsCounted ==
  ASSUME ReferencesAreCounted, UNCHANGED session, HasOwner' <=> HasOwner, pc'[Main] # "end",
         \/ /\ binding # "live" /\ binding' = "live" /\ HasOwner
            /\ reference_count' = reference_count + 1 /\ UNCHANGED shell
         \/ /\ binding = "live" /\ binding' # "live" /\ ContextRelease /\ shell # "none"
  PROVE  ReferencesAreCounted' /\ (shell # "none" => shell' # "none")
<1>1. Wrapped' = Wrapped /\ Cardinality(Wrapped) \in Nat
  BY CountersAreNat DEF Wrapped
<1>2. PICK h \in {0, 1}, n \in Nat :
        /\ h = Count(HasOwner) /\ n = Cardinality(Wrapped) /\ (HasOwner => h = 1)
        /\ h = Count(HasOwner)'
  BY <1>1 DEF Count
<1>3. /\ reference_count = h + Count(binding = "live") + n
      /\ shell = "live" <=> reference_count > 0
  BY <1>2, References
<1>4. CASE binding # "live"
  <2>1. Count(binding = "live") = 0 /\ Count(binding = "live")' = 1
    BY <1>4 DEF Count
  <2>2. reference_count = h + 0 + n /\ reference_count' = h + 1 + n /\ h = 1
    BY <1>2, <1>3, <1>4, <2>1
  <2>3. shell' = "live" <=> reference_count' > 0
    BY <1>3, <1>4, <2>2
  <2> QED
    BY <1>1, <1>2, <1>4, <2>1, <2>2, <2>3 DEF ReferencesAreCounted, HasOwner, Wrapped
<1>5. CASE binding = "live"
  <2>1. Count(binding = "live") = 1 /\ Count(binding = "live")' = 0
    BY <1>5 DEF Count
  <2>2. reference_count = h + 1 + n /\ reference_count' = h + 0 + n
    BY <1>2, <1>3, <1>5, <2>1 DEF ContextRelease
  <2>3. (shell' = "live" <=> reference_count' > 0) /\ shell' # "none"
    BY <1>3, <1>5, <2>2 DEF ContextRelease
  <2> QED
    BY <1>1, <1>2, <1>5, <2>1, <2>2, <2>3 DEF ReferencesAreCounted, HasOwner, Wrapped
<1> QED
  BY <1>4, <1>5

LEMMA RegisterKeeps ==
  ASSUME IInv, Register
  PROVE  IInv'
<1>1. /\ pc[Main] = "register"
      /\ UNCHANGED <<shell, active_operation_count, gateVars, live, registry, next_program_id,
                     program, backend, session, exec, sess, prog, arg, wants_gc, collection>>
  BY DEF Register, Keep, registryVars, gcVars
<1>2. PICK to \in {"attach", "destroy"} :
        /\ pc' = [pc EXCEPT ![Main] = to] /\ <<"register", to>> \in MainSteps
        /\ \/ binding' = "live" /\ ContextRetain
           \/ UNCHANGED <<reference_count, binding>> /\ to = "destroy"
  BY DEF Register, Goto, MainSteps
<1>3. /\ SessionInv' /\ OperationsAreCounted'
      /\ pc' \in [Threads -> Pcs] /\ sess' \in [Threads -> Sessions \cup {NoSession}]
      /\ \A t \in Threads : pc'[t] = IF t = Main THEN to ELSE pc[t]
      /\ \A t \in Threads \ {Main} : pc'[t] \notin MainPcs
  BY <1>1, <1>2, MainMove
<1>4. pc'[Main] = to
  BY <1>3, AccelRuntimeAssumption
<1>5. Typed'
  BY <1>1, <1>2, <1>3 DEF IInv, Typed, gateVars
<1>6. MainIsInOrder'
  BY <1>1, <1>2, <1>3, <1>4
  DEF IInv, MainIsInOrder, gateVars, MainPcs, PostDrainPcs, PostBackend, OrphanPcs
<1>7. ReferencesAreCounted'
  <2>1. HasOwner /\ HasOwner' /\ pc'[Main] # "end" /\ binding # "live"
    BY <1>1, <1>2, <1>4 DEF IInv, MainIsInOrder, HasOwner
  <2>2. CASE binding' = "live" /\ ContextRetain
    BY <1>1, <2>1, <2>2, BindingIsCounted DEF IInv, ContextRetain
  <2>3. CASE UNCHANGED <<reference_count, binding>>
    BY <1>1, <2>1, <2>3, ReferencesKept DEF IInv
  <2> QED
    BY <1>2, <2>2, <2>3
<1>8. ProgramsAreKept'
  BY <1>1, <1>2, <1>3, MainProgramsStay
<1> QED
  BY <1>3, <1>5, <1>6, <1>7, <1>8 DEF IInv

(* The gate opens, closes and is watched.                                  *)
GateSteps == {<<"attach", "idle">>, <<"idle", "destroy">>, <<"destroy", "drain">>,
              <<"drain", "orphan_next">>, <<"orphan_next", "destroy_programs">>}

LEMMA GateKeeps ==
  ASSUME IInv, Attach \/ EndProgram \/ BeginDestroy \/ Drained \/ OrphansDone
  PROVE  IInv'
<1>1. PICK from, to :
        /\ <<from, to>> \in GateSteps /\ <<from, to>> \in MainSteps
        /\ pc[Main] = from /\ pc' = [pc EXCEPT ![Main] = to]
        /\ \/ UNCHANGED sess /\ from # "orphan_next"
           \/ sess' = [sess EXCEPT ![Main] = NoSession]
        /\ from = "drain" => active_operation_count = 0
        /\ to = "idle" \/ attached' = FALSE \/ (UNCHANGED attached /\ from # "idle")
        /\ destroying' = TRUE \/ (UNCHANGED destroying /\ from # "destroy")
        /\ from = "orphan_next" => live = <<>>
        /\ attached' \in BOOLEAN /\ shutting_down' \in BOOLEAN
        /\ destroying' \in BOOLEAN /\ resources_destroyed' \in BOOLEAN
  BY DEF Attach, EndProgram, BeginDestroy, Drained, OrphansDone, Goto, Keep, GateSteps, MainSteps,
         ContextAttach, ContextDetach, contextVars, gateVars, IInv, Typed
<1>2. UNCHANGED <<shell, reference_count, active_operation_count, live, registry,
                  next_program_id, program, backend, binding, session, exec, prog, arg,
                  wants_gc, collection>>
  BY DEF Attach, EndProgram, BeginDestroy, Drained, OrphansDone, Keep, contextVars, registryVars,
         gcVars
<1>3. /\ SessionInv' /\ OperationsAreCounted'
      /\ pc' \in [Threads -> Pcs] /\ sess' \in [Threads -> Sessions \cup {NoSession}]
      /\ \A t \in Threads : pc'[t] = IF t = Main THEN to ELSE pc[t]
      /\ \A t \in Threads \ {Main} : pc'[t] \notin MainPcs
  BY <1>1, <1>2, MainMove
<1>4. pc'[Main] = to
  BY <1>3, AccelRuntimeAssumption
<1>5. Typed'
  BY <1>1, <1>2, <1>3 DEF IInv, Typed
<1>6. MainIsInOrder'
  BY <1>1, <1>2, <1>3, <1>4
  DEF IInv, MainIsInOrder, MainPcs, PostDrainPcs, PostBackend, OrphanPcs, GateSteps
<1>7. ReferencesAreCounted'
  <2>1. HasOwner /\ HasOwner' /\ pc'[Main] # "end"
    BY <1>1, <1>4 DEF HasOwner, GateSteps
  <2> QED
    BY <1>2, <2>1, ReferencesKept DEF IInv
<1>8. ProgramsAreKept'
  <2>1. from # "publish_teardown"
    BY <1>1 DEF GateSteps
  <2> QED
    BY <1>1, <1>2, <1>3, <2>1, MainProgramsStay
<1> QED
  BY <1>3, <1>5, <1>6, <1>7, <1>8 DEF IInv

LEMMA OrphanNextKeeps ==
  ASSUME IInv, OrphanNext
  PROVE  IInv'
<1>1. /\ pc[Main] = "orphan_next"
      /\ UNCHANGED <<shell, reference_count, active_operation_count, gateVars, registry,
                     next_program_id, program, backend, binding, exec, prog, arg, wants_gc,
                     collection>>
  BY DEF OrphanNext, registryVars, gcVars
<1>2. /\ SessionInv' /\ session' \in [Sessions -> SessionRecords] /\ live' \in Seq(Sessions)
      /\ sess' \in [Threads -> Sessions \cup {NoSession}]
      /\ pc'[Main] \in OrphanPcs
      /\ \A s \in Sessions : session'[s].state = "free" <=> session[s].state = "free"
  BY MainOrphans
<1>3. PICK to \in OrphanPcs : pc' = [pc EXCEPT ![Main] = to]
  BY DEF OrphanNext, Goto, OrphanPcs
<1>4. /\ \A t \in Threads : pc'[t] = IF t = Main THEN to ELSE pc[t]
      /\ pc' \in [Threads -> Pcs]
      /\ OrphanPcs \cap (Claimed \cup PreparePcs \cup {"retain", "commit"}) = {}
  BY <1>3, PcSets DEF IInv, Typed, OrphanPcs, Pcs, InFlight, MainPcs, PreparePcs
<1>5. Typed'
  BY <1>1, <1>2, <1>4 DEF IInv, Typed, gateVars
<1>6. MainIsInOrder'
  BY <1>1, <1>2, <1>4
  DEF IInv, MainIsInOrder, gateVars, MainPcs, PostDrainPcs, PostBackend, OrphanPcs
<1>7. OperationsAreCounted'
  <2>1. \A t \in Threads : pc'[t] \in Claimed <=> pc[t] \in Claimed
    BY <1>1, <1>4 DEF OrphanPcs
  <2> QED
    BY <1>1, <2>1, OperationsKept DEF IInv, FinalizerClaims
<1>8. ReferencesAreCounted'
  <2>1. HasOwner /\ HasOwner' /\ pc'[Main] # "end"
    BY <1>1, <1>2 DEF HasOwner, OrphanPcs
  <2> QED
    BY <1>1, <1>2, <2>1, ReferencesKept DEF IInv
<1>9. ProgramsAreKept'
  <2>1. \A s \in Sessions : session'[s].program \in {session[s].program, NoProgram}
    <3>1. Head(live) \in Sessions /\ CloseSession(Head(live), "orphaned")
      BY DEF OrphanNext, IInv, Typed
    <3> QED
      BY <3>1, CloseEffect DEF IInv, SessionInv, Terminal
  <2>2. \A t \in Threads :
          /\ pc'[t] \in PreparePcs <=> pc[t] \in PreparePcs
          /\ pc'[t] = "commit" => arg'[t] \in ProgramIds
          /\ pc'[t] = "retain" => prog'[t] \in Programs /\ program[prog'[t]] = "published"
    BY <1>1, <1>4 DEF IInv, ProgramsAreKept, PreparePcs, OrphanPcs
  <2> QED
    BY <1>1, <2>1, <2>2, ProgramsStay
<1> QED
  BY <1>2, <1>5, <1>6, <1>7, <1>8, <1>9 DEF IInv

LEMMA OrphanExecKeeps ==
  ASSUME IInv, OrphanExec
  PROVE  IInv'
<1>1. /\ pc[Main] = "orphan_exec" /\ pc' = [pc EXCEPT ![Main] = "orphan_next"]
      /\ sess' = [sess EXCEPT ![Main] = NoSession]
      /\ UNCHANGED <<shell, reference_count, active_operation_count, gateVars, live, registry,
                     next_program_id, program, backend, binding, session, prog, arg, wants_gc,
                     collection>>
  BY DEF OrphanExec, Goto, contextVars, registryVars, gcVars
<1>2. SessionInv' /\ exec' \in [Sessions -> BOOLEAN]
  BY MainDestroysOrphan
<1>3. /\ \A t \in Threads : pc'[t] = IF t = Main THEN "orphan_next" ELSE pc[t]
      /\ pc' \in [Threads -> Pcs] /\ pc'[Main] = "orphan_next"
      /\ {"orphan_next", "orphan_exec"} \cap Claimed = {}
  BY <1>1, PcSets, AccelRuntimeAssumption DEF IInv, Typed, Pcs, InFlight, MainPcs
<1>4. Typed'
  BY <1>1, <1>2, <1>3 DEF IInv, Typed, gateVars
<1>5. MainIsInOrder'
  BY <1>1, <1>3
  DEF IInv, MainIsInOrder, gateVars, MainPcs, PostDrainPcs, PostBackend, OrphanPcs
<1>6. OperationsAreCounted'
  <2>1. \A t \in Threads : pc'[t] \in Claimed <=> pc[t] \in Claimed
    BY <1>1, <1>3
  <2> QED
    BY <1>1, <2>1, OperationsKept DEF IInv, FinalizerClaims
<1>7. ReferencesAreCounted'
  <2>1. HasOwner /\ HasOwner' /\ pc'[Main] # "end"
    BY <1>1, <1>3 DEF HasOwner
  <2> QED
    BY <1>1, <2>1, ReferencesKept DEF IInv
<1>8. ProgramsAreKept'
  <2>1. \A t \in Threads :
          /\ pc'[t] \in PreparePcs <=> pc[t] \in PreparePcs
          /\ pc'[t] = "commit" => arg'[t] \in ProgramIds
          /\ pc'[t] = "retain" => prog'[t] \in Programs /\ program[prog'[t]] = "published"
    BY <1>1, <1>3 DEF IInv, ProgramsAreKept, PreparePcs
  <2> QED
    BY <1>1, <2>1, ProgramsStay
<1> QED
  BY <1>2, <1>4, <1>5, <1>6, <1>7, <1>8 DEF IInv

(* After the last orphan no session names a program.                       *)
LEMMA NoSessionPrograms ==
  ASSUME IInv, pc[Main] \in PostDrainPcs \ OrphanPcs
  PROVE  /\ \A s \in Sessions : session[s].program = NoProgram
         /\ \A t \in Threads : pc[t] \notin Claimed /\ pc[t] \notin OrphanPcs
         /\ live = <<>> /\ active_operation_count = 0 /\ destroying
         /\ \A s \in Sessions : session[s].state = "free" \/ session[s].installed
<1>1. /\ \A t \in Threads : pc[t] \notin Claimed
      /\ live = <<>> /\ active_operation_count = 0 /\ destroying
  BY NoClaims DEF IInv, MainIsInOrder
<1>2. \A t \in Threads : pc[t] \notin OrphanPcs
  BY PcSets DEF IInv, MainIsInOrder, OrphanPcs, MainPcs
<1>3. \A s \in Sessions : ~Linked(s)
  BY <1>1 DEF Linked
<1>4. \A s \in Sessions : session[s].program = NoProgram
  BY <1>1, <1>3, PcSets DEF IInv, SessionInv, LiveListIsExact
<1>5. \A s \in Sessions : session[s].state = "free" \/ session[s].installed
  BY <1>1, PcSets DEF IInv, SessionInv, SessionsAreAccounted, BuilderPcs
<1> QED
  BY <1>1, <1>2, <1>4, <1>5

TeardownSteps ==
  {<<"destroy_programs", "destroy_backend">>, <<"destroy_backend", "publish_teardown">>,
   <<"publish_teardown", "release">>, <<"release", "vm_destroy">>,
   <<"vm_destroy", "teardown">>, <<"teardown", "end">>}

LEMMA TeardownMove ==
  ASSUME IInv, NEW from, NEW to, <<from, to>> \in TeardownSteps, DestroyStep(from, to),
         UNCHANGED wants_gc
  PROVE  /\ SessionInv' /\ OperationsAreCounted' /\ <<from, to>> \in MainSteps
         /\ pc' \in [Threads -> Pcs] /\ sess' \in [Threads -> Sessions \cup {NoSession}]
         /\ \A t \in Threads : pc'[t] = IF t = Main THEN to ELSE pc[t]
         /\ \A t \in Threads \ {Main} : pc'[t] \notin MainPcs
         /\ pc[Main] = from /\ pc'[Main] = to
         /\ from \in PostDrainPcs \ OrphanPcs /\ to \in PostDrainPcs \ OrphanPcs
         /\ UNCHANGED <<active_operation_count, live, binding, session, exec, prog, arg,
                        collection>>
<1>1. /\ pc[Main] = from /\ pc' = [pc EXCEPT ![Main] = to]
      /\ UNCHANGED <<active_operation_count, live, binding, session, exec, sess, prog, arg,
                     wants_gc, collection>>
  BY DEF DestroyStep, Goto, Keep, gcVars
<1>2. <<from, to>> \in MainSteps /\ from # "orphan_next"
  BY DEF TeardownSteps, MainSteps
<1>3. from \in PostDrainPcs \ OrphanPcs /\ to \in PostDrainPcs \ OrphanPcs
  BY DEF TeardownSteps, PostDrainPcs, OrphanPcs
<1> QED
  BY <1>1, <1>2, <1>3, MainMove, AccelRuntimeAssumption

LEMMA DestroyProgramsKeeps ==
  ASSUME IInv, DestroyAllPrograms
  PROVE  IInv'
<1>1. /\ DestroyStep("destroy_programs", "destroy_backend") /\ UNCHANGED wants_gc
      /\ UNCHANGED <<shell, reference_count, gateVars, backend, registry, next_program_id>>
      /\ program' = [p \in Programs |-> IF \E i \in ProgramIds : registry[i] = p
                                        THEN "destroyed" ELSE program[p]]
      /\ <<"destroy_programs", "destroy_backend">> \in TeardownSteps
  BY DEF DestroyAllPrograms, DestroyPrograms, DestroyStep, gcVars, TeardownSteps
<1>2. /\ SessionInv' /\ OperationsAreCounted'
      /\ pc' \in [Threads -> Pcs] /\ sess' \in [Threads -> Sessions \cup {NoSession}]
      /\ \A t \in Threads : pc'[t] = IF t = Main THEN "destroy_backend" ELSE pc[t]
      /\ \A t \in Threads \ {Main} : pc'[t] \notin MainPcs
      /\ pc[Main] = "destroy_programs" /\ pc'[Main] = "destroy_backend"
      /\ UNCHANGED <<active_operation_count, live, binding, session, exec, prog, arg, collection>>
  BY <1>1, TeardownMove
<1>3. /\ program' \in [Programs -> {"none", "prepared", "published", "destroyed"}]
      /\ \A p \in Programs : program'[p] # "published"
      /\ \A p \in Programs : program'[p] = "prepared" => program[p] = "prepared"
  BY <1>1 DEF IInv, Typed, ProgramsAreKept
<1>4. Typed'
  BY <1>1, <1>2, <1>3 DEF IInv, Typed, gateVars
<1>5. MainIsInOrder'
  BY <1>1, <1>2, <1>3
  DEF IInv, MainIsInOrder, gateVars, MainPcs, PostDrainPcs, PostBackend, OrphanPcs
<1>6. ReferencesAreCounted'
  <2>1. HasOwner /\ HasOwner' /\ pc'[Main] # "end"
    BY <1>2 DEF HasOwner
  <2> QED
    BY <1>1, <1>2, <2>1, ReferencesKept DEF IInv
<1>7. ProgramsAreKept'
  <2>1. /\ \A s \in Sessions : session'[s].program = NoProgram
        /\ \A t \in Threads : pc'[t] \notin PreparePcs \cup {"commit", "retain"}
        /\ \A p \in Programs : program'[p] # "prepared"
    <3>1. "destroy_programs" \in PostDrainPcs \ OrphanPcs
      BY DEF PostDrainPcs, OrphanPcs
    <3>2. \A s \in Sessions : session[s].program = NoProgram
      BY <1>2, <3>1, NoSessionPrograms
    <3>3. \A t \in Threads : pc[t] \notin PreparePcs \cup {"commit", "retain"}
      BY <1>2, <3>1, NoSessionPrograms, PcSets DEF PreparePcs
    <3>4. \A p \in Programs : program[p] # "prepared"
      BY <3>3 DEF IInv, ProgramsAreKept
    <3> QED
      BY <1>2, <1>3, <3>2, <3>3, <3>4 DEF PreparePcs
  <2> QED
    BY <1>2, <1>3, <2>1 DEF ProgramsAreKept
<1> QED
  BY <1>2, <1>4, <1>5, <1>6, <1>7 DEF IInv

LEMMA DestroyBackendKeeps ==
  ASSUME IInv, DestroyBackend \/ BeginTeardown
  PROVE  IInv'
<1>1. PICK from, to :
        /\ <<from, to>> \in {<<"destroy_backend", "publish_teardown">>,
                             <<"vm_destroy", "teardown">>}
        /\ <<from, to>> \in TeardownSteps /\ DestroyStep(from, to)
  BY DEF DestroyBackend, BeginTeardown, TeardownSteps
<1>2. /\ UNCHANGED <<shell, reference_count, gateVars, registry, next_program_id, program,
                     wants_gc>>
      /\ backend' = "destroyed" \/ UNCHANGED backend
  BY DEF DestroyBackend, BeginTeardown, DestroyStep, registryVars, gcVars
<1>3. /\ SessionInv' /\ OperationsAreCounted' /\ <<from, to>> \in MainSteps
      /\ pc' \in [Threads -> Pcs] /\ sess' \in [Threads -> Sessions \cup {NoSession}]
      /\ \A t \in Threads : pc'[t] = IF t = Main THEN to ELSE pc[t]
      /\ \A t \in Threads \ {Main} : pc'[t] \notin MainPcs
      /\ pc[Main] = from /\ pc'[Main] = to
      /\ UNCHANGED <<active_operation_count, live, binding, session, exec, prog, arg, collection>>
  BY <1>1, <1>2, TeardownMove
<1>4. Typed'
  BY <1>2, <1>3 DEF IInv, Typed, gateVars
<1>5. MainIsInOrder'
  BY <1>1, <1>2, <1>3
  DEF IInv, MainIsInOrder, gateVars, MainPcs, PostDrainPcs, PostBackend, OrphanPcs
<1>6. ReferencesAreCounted'
  <2>1. (HasOwner' <=> HasOwner) /\ pc'[Main] # "end"
    BY <1>1, <1>3 DEF HasOwner
  <2> QED
    BY <1>2, <1>3, <2>1, ReferencesKept DEF IInv
<1>7. ProgramsAreKept'
  <2>1. from # "publish_teardown"
    BY <1>1
  <2> QED
    BY <1>2, <1>3, <2>1, MainProgramsStay
<1> QED
  BY <1>3, <1>4, <1>5, <1>6, <1>7 DEF IInv

LEMMA PublishTeardownKeeps ==
  ASSUME IInv, PublishResourcesDestroyed
  PROVE  IInv'
<1>1. /\ DestroyStep("publish_teardown", "release")
      /\ <<"publish_teardown", "release">> \in TeardownSteps
      /\ registry' = [i \in ProgramIds |-> NoProgram] /\ resources_destroyed' = TRUE
      /\ UNCHANGED <<shell, reference_count, attached, shutting_down, destroying,
                     next_program_id, program, backend, wants_gc>>
  BY DEF PublishResourcesDestroyed, PublishTeardown, DestroyStep, gcVars, TeardownSteps
<1>2. /\ SessionInv' /\ OperationsAreCounted'
      /\ pc' \in [Threads -> Pcs] /\ sess' \in [Threads -> Sessions \cup {NoSession}]
      /\ \A t \in Threads : pc'[t] = IF t = Main THEN "release" ELSE pc[t]
      /\ \A t \in Threads \ {Main} : pc'[t] \notin MainPcs
      /\ pc[Main] = "publish_teardown" /\ pc'[Main] = "release"
      /\ UNCHANGED <<active_operation_count, live, binding, session, exec, prog, arg, collection>>
  BY <1>1, TeardownMove
<1>3. Typed'
  BY <1>1, <1>2 DEF IInv, Typed
<1>4. MainIsInOrder'
  BY <1>1, <1>2
  DEF IInv, MainIsInOrder, gateVars, MainPcs, PostDrainPcs, PostBackend, OrphanPcs
<1>5. ReferencesAreCounted'
  <2>1. HasOwner /\ HasOwner' /\ pc'[Main] # "end"
    BY <1>2 DEF HasOwner
  <2> QED
    BY <1>1, <1>2, <2>1, ReferencesKept DEF IInv
<1>6. ProgramsAreKept'
  <2>1. \A p \in Programs : program[p] # "published"
    BY <1>2 DEF IInv, MainIsInOrder, PostBackend
  <2>2. /\ \A t \in Threads : pc'[t] \in PreparePcs <=> pc[t] \in PreparePcs
        /\ \A t \in Threads : pc'[t] \in {"commit", "retain"} => pc'[t] = pc[t]
        /\ \A i \in ProgramIds : registry'[i] = NoProgram
    BY <1>1, <1>2 DEF PreparePcs
  <2> QED
    BY <1>1, <1>2, <2>1, <2>2 DEF IInv, ProgramsAreKept
<1> QED
  BY <1>2, <1>3, <1>4, <1>5, <1>6 DEF IInv

LEMMA ReleaseOwnerKeeps ==
  ASSUME IInv, ReleaseOwner
  PROVE  IInv'
<1>1. /\ DestroyStep("release", "vm_destroy") /\ ContextRelease
      /\ <<"release", "vm_destroy">> \in TeardownSteps
      /\ UNCHANGED <<gateVars, registry, next_program_id, program, backend, wants_gc>>
  BY DEF ReleaseOwner, DestroyStep, registryVars, gcVars, TeardownSteps
<1>2. /\ SessionInv' /\ OperationsAreCounted' /\ <<"release", "vm_destroy">> \in MainSteps
      /\ pc' \in [Threads -> Pcs] /\ sess' \in [Threads -> Sessions \cup {NoSession}]
      /\ \A t \in Threads : pc'[t] = IF t = Main THEN "vm_destroy" ELSE pc[t]
      /\ \A t \in Threads \ {Main} : pc'[t] \notin MainPcs
      /\ pc[Main] = "release" /\ pc'[Main] = "vm_destroy"
      /\ UNCHANGED <<active_operation_count, live, binding, session, exec, prog, arg, collection>>
  BY <1>1, TeardownMove
<1>3. ReferencesAreCounted' /\ shell' \in {"live", "freed"}
  <2>1. Wrapped' = Wrapped /\ Cardinality(Wrapped) \in Nat
    BY <1>2, CountersAreNat DEF Wrapped
  <2>2. PICK b \in {0, 1}, n \in Nat :
          b = Count(binding = "live") /\ n = Cardinality(Wrapped) /\ b = Count(binding = "live")'
    BY <1>2, <2>1 DEF Count
  <2>3. Count(HasOwner) = 1 /\ Count(HasOwner)' = 0
    BY <1>2 DEF Count, HasOwner
  <2>4. /\ reference_count = 1 + b + n
        /\ shell = "live" <=> reference_count > 0
    BY <2>2, <2>3, References DEF IInv
  <2>5. reference_count' = 0 + b + n /\ shell = "live"
    BY <1>1, <2>4 DEF ContextRelease
  <2>6. (shell' = "live" <=> reference_count' > 0) /\ shell' \in {"live", "freed"}
    BY <1>1, <2>4, <2>5 DEF ContextRelease
  <2> QED
    BY <1>2, <2>1, <2>2, <2>3, <2>5, <2>6 DEF ReferencesAreCounted, HasOwner, Wrapped
<1>4. Typed'
  BY <1>1, <1>2, <1>3 DEF IInv, Typed, gateVars
<1>5. MainIsInOrder'
  BY <1>1, <1>2, <1>3
  DEF IInv, MainIsInOrder, gateVars, MainPcs, PostDrainPcs, PostBackend, OrphanPcs
<1>6. ProgramsAreKept'
  BY <1>1, <1>2, MainProgramsStay
<1> QED
  BY <1>2, <1>3, <1>4, <1>5, <1>6 DEF IInv

(* The last reference goes with the virtual machine.                       *)
LEMMA FinalizeBindingKeeps ==
  ASSUME IInv, FinalizeBinding
  PROVE  IInv'
<1>1. /\ pc[Main] = "teardown" /\ binding = "live" /\ binding' = "finalized" /\ ContextRelease
      /\ UNCHANGED <<active_operation_count, gateVars, live, registry, next_program_id, program,
                     backend, session, exec, pc, sess, prog, arg, wants_gc, collection>>
  BY DEF FinalizeBinding, registryVars, threadVars, gcVars
<1>2. shell # "none"
  BY <1>1 DEF IInv, MainIsInOrder
<1>3. ReferencesAreCounted' /\ shell' # "none"
  <2>1. (HasOwner' <=> HasOwner) /\ pc'[Main] # "end" /\ binding' # "live"
    BY <1>1 DEF HasOwner
  <2> QED
    BY <1>1, <1>2, <2>1, BindingIsCounted DEF IInv
<1>4. Typed'
  BY <1>1 DEF IInv, Typed, gateVars, ContextRelease
<1>5. MainIsInOrder'
  BY <1>1, <1>2, <1>3 DEF IInv, MainIsInOrder, gateVars
<1>6. OperationsAreCounted'
  BY <1>1, OperationsKept DEF IInv, FinalizerClaims
<1>7. SessionInv'
  <2>1. \A s \in Sessions : FinalizerOwns(s)' <=> FinalizerOwns(s)
    BY <1>1 DEF FinalizerOwns
  <2>2. FinalizerIsAlone'
    BY <1>1 DEF IInv, SessionInv, FinalizerIsAlone, Linked
  <2> QED
    BY <1>1, <2>1, <2>2, CollectionMove
<1>8. ProgramsAreKept'
  BY <1>1 DEF IInv, ProgramsAreKept
<1> QED
  BY <1>3, <1>4, <1>5, <1>6, <1>7, <1>8 DEF IInv

LEMMA EndTeardownKeeps ==
  ASSUME IInv, EndTeardown
  PROVE  IInv'
<1>1. /\ DestroyStep("teardown", "end") /\ <<"teardown", "end">> \in TeardownSteps
      /\ binding # "live" /\ \A s \in Sessions : ~session[s].installed
      /\ UNCHANGED <<shell, reference_count, gateVars, registry, next_program_id, program,
                     backend, wants_gc>>
  BY DEF EndTeardown, DestroyStep, registryVars, gcVars, TeardownSteps
<1>2. /\ SessionInv' /\ OperationsAreCounted' /\ <<"teardown", "end">> \in MainSteps
      /\ pc' \in [Threads -> Pcs] /\ sess' \in [Threads -> Sessions \cup {NoSession}]
      /\ \A t \in Threads : pc'[t] = IF t = Main THEN "end" ELSE pc[t]
      /\ \A t \in Threads \ {Main} : pc'[t] \notin MainPcs
      /\ pc[Main] = "teardown" /\ pc'[Main] = "end"
      /\ "teardown" \in PostDrainPcs \ OrphanPcs
      /\ UNCHANGED <<active_operation_count, live, binding, session, exec, prog, arg, collection>>
  BY <1>1, TeardownMove
<1>3. reference_count = 0 /\ shell = "freed"
  <2>1. Wrapped = {}
    BY <1>1, <1>2, NoSessionPrograms DEF Wrapped
  <2>2. Cardinality(Wrapped) = 0
    BY <2>1, FS_EmptySet
  <2>3. Count(HasOwner) = 0 /\ Count(binding = "live") = 0
    BY <1>1, <1>2 DEF HasOwner, Count
  <2>4. reference_count = 0 /\ shell # "live"
    BY <2>2, <2>3, References DEF IInv
  <2> QED
    BY <1>2, <2>4 DEF IInv, MainIsInOrder, Typed
<1>4. ReferencesAreCounted'
  <2>1. Wrapped' = {} /\ Wrapped' = Wrapped
    BY <1>1, <1>2, NoSessionPrograms DEF Wrapped
  <2>2. Cardinality(Wrapped') = 0
    BY <2>1, FS_EmptySet
  <2>3. Count(HasOwner)' = 0 /\ Count(binding = "live")' = 0
    BY <1>1, <1>2 DEF HasOwner, Count
  <2> QED
    BY <1>1, <1>3, <2>2, <2>3 DEF ReferencesAreCounted, HasOwner, Wrapped
<1>5. Typed'
  BY <1>1, <1>2 DEF IInv, Typed, gateVars
<1>6. MainIsInOrder'
  BY <1>1, <1>2, <1>3
  DEF IInv, MainIsInOrder, gateVars, MainPcs, PostDrainPcs, PostBackend, OrphanPcs
<1>7. ProgramsAreKept'
  BY <1>1, <1>2, MainProgramsStay
<1> QED
  BY <1>2, <1>4, <1>5, <1>6, <1>7 DEF IInv

LEMMA MainKeeps ==
  ASSUME IInv, MainStep \/ EndProgram
  PROVE  IInv'
BY CreateContextKeeps, RegisterKeeps, GateKeeps, OrphanNextKeeps, OrphanExecKeeps,
   DestroyProgramsKeeps, DestroyBackendKeeps, PublishTeardownKeeps, ReleaseOwnerKeeps,
   FinalizeBindingKeeps, EndTeardownKeeps
DEF MainStep

-----------------------------------------------------------------------------
(* The steps of a collection.                                              *)

(* The threads and the context stay; so do the sessions, or their programs *)
(* are only forgotten.                                                     *)
LEMMA CollectionKept ==
  ASSUME IInv, SessionInv', OperationsAreCounted', ReferencesAreCounted',
         wants_gc' \subseteq Threads, collection' \in Collections,
         live' \in Seq(Sessions), session' \in [Sessions -> SessionRecords],
         exec' \in [Sessions -> BOOLEAN], shell' \in {"live", "freed"} \/ UNCHANGED shell,
         pc[Main] # "create" \/ UNCHANGED <<reference_count, shell>>,
         pc[Main] \in {"create"} \cup PostDrainPcs => UNCHANGED active_operation_count,
         pc[Main] \in PostDrainPcs \ OrphanPcs => UNCHANGED live,
         \A s \in Sessions : session'[s].program \in {session[s].program, NoProgram},
         UNCHANGED <<gateVars, registry, next_program_id, program, backend, binding,
                     pc, sess, prog, arg>>
  PROVE  IInv'
<1>1. Typed'
  BY DEF IInv, Typed, gateVars
<1>2. MainIsInOrder'
  BY DEF IInv, MainIsInOrder, gateVars
<1>3. ProgramsAreKept'
  BY ProgramsStay DEF IInv, ProgramsAreKept
<1> QED
  BY <1>1, <1>2, <1>3 DEF IInv

(* No session changes either.                                              *)
LEMMA CollectionOnly ==
  ASSUME IInv, FinalizerIsAlone', \A s \in Sessions : FinalizerOwns(s)' <=> FinalizerOwns(s),
         OperationsAreCounted', wants_gc' \subseteq Threads, collection' \in Collections,
         pc[Main] \in {"create"} \cup PostDrainPcs => UNCHANGED active_operation_count,
         UNCHANGED <<shell, reference_count, gateVars, live, registry, next_program_id, program,
                     backend, binding, session, exec, pc, sess, prog, arg>>
  PROVE  IInv'
<1>1. SessionInv'
  BY CollectionMove
<1>2. ReferencesAreCounted'
  BY ReferencesKept DEF IInv, HasOwner
<1> QED
  BY <1>1, <1>2, CollectionKept DEF IInv, Typed

(* A collection is requested, begins when no finalizer runs, and ends.     *)
LEMMA GCKeeps ==
  ASSUME IInv, NEW t \in Threads, RequestGC(t) \/ BeginGC(t) \/ EndGC(t)
  PROVE  IInv'
<1>1. UNCHANGED <<shell, reference_count, active_operation_count, gateVars, live, registry,
                  next_program_id, program, backend, binding, session, exec, pc, sess, prog, arg>>
  BY DEF RequestGC, BeginGC, EndGC, contextVars, registryVars, threadVars
<1>2. wants_gc' \subseteq Threads
  BY DEF RequestGC, BeginGC, EndGC, IInv, Typed
<1>3. \/ UNCHANGED collection
      \/ /\ collection' \in Collections /\ collection'.step \in {"mark", "none"}
         /\ collection'.session = NoSession /\ collection.session = NoSession
  <2>1. CASE RequestGC(t)
    BY <2>1 DEF RequestGC
  <2>2. CASE BeginGC(t)
    <3>1. collection.by \notin Threads
      BY <2>2 DEF BeginGC, STW!BeginSection, STW!WorldStoppedFor, mode
    <3>2. collection.session = NoSession
      BY <3>1 DEF IInv, SessionInv, FinalizerIsAlone
    <3>3. collection' = [by |-> t, step |-> "mark", session |-> NoSession]
      BY <2>2 DEF BeginGC
    <3> QED
      BY <3>2, <3>3 DEF Collections, Steps
  <2>3. CASE EndGC(t)
    <3>1. collection.step = "mark" /\ collection' = Quiet
      BY <2>3 DEF EndGC
    <3> QED
      BY <3>1 DEF Quiet, Collections, Steps, IInv, SessionInv, FinalizerIsAlone
  <2> QED
    BY <2>1, <2>2, <2>3
<1>4. /\ FinalizerIsAlone' /\ \A s \in Sessions : FinalizerOwns(s)' <=> FinalizerOwns(s)
      /\ FinalizerClaims' <=> FinalizerClaims
  <2>1. CASE UNCHANGED collection
    BY <1>1, <2>1
    DEF IInv, SessionInv, FinalizerIsAlone, FinalizerOwns, FinalizerClaims, Linked
  <2>2. CASE ~UNCHANGED collection
    <3>1. collection.step \notin {"claim", "detach", "exec", "end", "free"}
      BY <1>3, <2>2 DEF IInv, SessionInv, FinalizerIsAlone
    <3>2. collection'.step \notin {"claim", "detach", "exec", "end", "free"}
          /\ collection'.session = NoSession
      BY <1>3, <2>2
    <3> QED
      BY <3>1, <3>2 DEF FinalizerIsAlone, FinalizerOwns, FinalizerClaims
  <2> QED
    BY <2>1, <2>2
<1>5. OperationsAreCounted'
  BY <1>1, <1>4, OperationsKept DEF IInv
<1>6. collection' \in Collections
  BY <1>3 DEF IInv, Typed
<1> QED
  BY <1>1, <1>2, <1>4, <1>5, <1>6, CollectionOnly

LEMMA BeginFinalizerKeeps ==
  ASSUME IInv, BeginFinalizer
  PROVE  IInv'
<1>1. PICK s \in Sessions, t \in Threads :
        /\ session[s].installed /\ ~InUse(s)
        /\ collection.step = "mark" \/ collection = Quiet
        /\ collection' = [by |-> t, step |-> "claim", session |-> s]
  BY DEF BeginFinalizer
<1>2. UNCHANGED <<shell, reference_count, active_operation_count, gateVars, live, registry,
                  next_program_id, program, backend, binding, session, exec, pc, sess, prog, arg,
                  wants_gc>>
  BY DEF BeginFinalizer, contextVars, registryVars, threadVars
<1>3. collection.step \notin {"detach", "exec", "end"}
  BY <1>1 DEF Quiet
<1>4. (FinalizerClaims' <=> FinalizerClaims) /\ \A u \in Sessions : FinalizerOwns(u)' <=> FinalizerOwns(u)
  BY <1>1, <1>3 DEF FinalizerClaims, FinalizerOwns
<1>5. FinalizerIsAlone'
  BY <1>1, <1>2, AccelRuntimeAssumption DEF FinalizerIsAlone, InUse
<1>6. OperationsAreCounted'
  BY <1>2, <1>4, OperationsKept DEF IInv
<1>7. collection' \in Collections /\ wants_gc' \subseteq Threads
  BY <1>1, <1>2 DEF Collections, Steps, IInv, Typed
<1> QED
  BY <1>2, <1>4, <1>5, <1>6, <1>7, CollectionOnly

(* Nothing is wrapped before the context exists and after it has gone.     *)
LEMMA FinalizerHasContext ==
  ASSUME IInv, collection.step \in {"claim", "detach", "exec", "end", "free"}
  PROVE  /\ shell = "live" /\ pc[Main] \notin {"create", "end"}
         /\ \E c \in Sessions : c = collection.session /\ session[c].state # "free"
<1>1. PICK c \in Sessions : c = collection.session /\ session[c].state # "free"
  BY FinalizedSession
<1>2. Wrapped # {}
  BY <1>1 DEF Wrapped
<1>3. Cardinality(Wrapped) # 0 /\ Cardinality(Wrapped) \in Nat
  BY <1>2, CountersAreNat, FS_EmptySet
<1>4. reference_count > 0 /\ shell = "live"
  <2>1. PICK b \in {0, 1}, d \in {0, 1} : b = Count(binding = "live") /\ d = Count(HasOwner)
    BY DEF Count
  <2>2. PICK n \in Nat : n = Cardinality(Wrapped)
    BY <1>3
  <2> QED
    BY <1>3, <2>1, <2>2, References DEF IInv
<1>5. pc[Main] \notin {"create", "end"}
  BY <1>4, References DEF IInv, MainIsInOrder
<1> QED
  BY <1>1, <1>4, <1>5

(* The finalizer's own claim.                                              *)
LEMMA FinalizerIsCounted ==
  ASSUME OperationsAreCounted, UNCHANGED pc,
         \/ /\ ~FinalizerClaims /\ FinalizerClaims'
            /\ active_operation_count' = active_operation_count + 1
         \/ /\ FinalizerClaims /\ ~FinalizerClaims'
            /\ active_operation_count' = active_operation_count - 1
  PROVE  OperationsAreCounted'
<1>1. ClaimedThreads' = ClaimedThreads
  BY DEF ClaimedThreads
<1>2. Cardinality(ClaimedThreads') = Cardinality(ClaimedThreads)
      /\ Cardinality(ClaimedThreads) \in Nat
  BY <1>1, CountersAreNat
<1>3. /\ Count(FinalizerClaims) \in {0, 1} /\ Count(FinalizerClaims)' \in {0, 1}
      /\ active_operation_count'
           = active_operation_count + Count(FinalizerClaims)' - Count(FinalizerClaims)
  <2>1. active_operation_count = Cardinality(ClaimedThreads) + Count(FinalizerClaims)
    BY DEF OperationsAreCounted
  <2>2. Count(FinalizerClaims) \in {0, 1} /\ Count(FinalizerClaims)' \in {0, 1}
    BY DEF Count
  <2>3. active_operation_count \in Int
    BY <1>2, <2>1, <2>2
  <2> QED
    BY <2>2, <2>3 DEF Count
<1>4. active_operation_count = Cardinality(ClaimedThreads) + Count(FinalizerClaims)
  BY DEF OperationsAreCounted
<1>5. active_operation_count' = Cardinality(ClaimedThreads') + Count(FinalizerClaims)'
  BY <1>2, <1>3, <1>4
<1> QED
  BY <1>5 DEF OperationsAreCounted

(* A finalizer's step from one of its points to another.                   *)
LEMMA FinalizerGoes ==
  ASSUME IInv, NEW from, NEW to \in Steps, FinalizerStep(from, to)
  PROVE  /\ collection.step = from /\ collection' = [collection EXCEPT !.step = to]
         /\ collection'.step = to /\ collection'.session = collection.session
         /\ collection'.by = collection.by
         /\ collection' \in Collections /\ wants_gc' \subseteq Threads
         /\ UNCHANGED <<gateVars, registry, next_program_id, program, backend, binding,
                        pc, sess, prog, arg>>
<1>1. collection.step = from /\ collection' = [collection EXCEPT !.step = to]
  BY DEF FinalizerStep
<1> QED
  BY <1>1 DEF FinalizerStep, IInv, Typed, Collections, registryVars, threadVars

LEMMA FinalizerClaimKeeps ==
  ASSUME IInv, FinalizerClaim
  PROVE  IInv'
<1>1. \E to \in {"detach", "free"} : FinalizerStep("claim", to)
  BY DEF FinalizerClaim
<1>2. PICK to \in {"detach", "free"} : FinalizerStep("claim", to)
  BY <1>1
<1>3. to \in Steps /\ "claim" \in {"claim", "detach", "exec", "end", "free"}
  BY DEF Steps
<1>4. /\ collection.step = "claim" /\ collection'.step = to
      /\ collection'.session = collection.session /\ collection'.by = collection.by
      /\ collection' \in Collections /\ wants_gc' \subseteq Threads
      /\ UNCHANGED <<gateVars, registry, next_program_id, program, backend, binding,
                     pc, sess, prog, arg>>
  BY <1>2, <1>3, FinalizerGoes
<1>5. UNCHANGED <<shell, reference_count, live, session, exec>>
  BY DEF FinalizerClaim
<1>6. pc[Main] # "create"
  BY <1>4, FinalizerHasContext
<1>7. \A s \in Sessions : FinalizerOwns(s)' <=> FinalizerOwns(s)
  BY <1>4 DEF FinalizerOwns
<1>8. CASE Linked(collection.session)
  <2>1. /\ ~destroying /\ active_operation_count' = active_operation_count + 1
        /\ FinalizerStep("claim", "detach")
    BY <1>8 DEF FinalizerClaim, BeginOperation
  <2>2. collection'.step = "detach"
    BY <2>1, FinalizerGoes DEF Steps
  <2>3. pc[Main] \notin PostDrainPcs
    BY <2>1 DEF IInv, MainIsInOrder
  <2>4. FinalizerIsAlone'
    BY <1>4, <1>5, <2>2 DEF IInv, SessionInv, FinalizerIsAlone, Linked
  <2>5. OperationsAreCounted'
    BY <1>4, <2>1, <2>2, FinalizerIsCounted DEF IInv, FinalizerClaims
  <2> QED
    BY <1>4, <1>5, <1>6, <1>7, <2>3, <2>4, <2>5, CollectionOnly
<1>9. CASE ~Linked(collection.session)
  <2>1. active_operation_count' = active_operation_count /\ FinalizerStep("claim", "free")
    BY <1>9 DEF FinalizerClaim
  <2>2. collection'.step = "free"
    BY <2>1, FinalizerGoes DEF Steps
  <2>4. FinalizerIsAlone'
    BY <1>4, <1>5, <1>9, <2>2 DEF IInv, SessionInv, FinalizerIsAlone, Linked
  <2>5. OperationsAreCounted'
    BY <1>4, <2>1, <2>2, OperationsKept DEF IInv, FinalizerClaims
  <2> QED
    BY <1>4, <1>5, <1>7, <2>1, <2>4, <2>5, CollectionOnly
<1> QED
  BY <1>8, <1>9

LEMMA FinalizerEndKeeps ==
  ASSUME IInv, FinalizerEnd
  PROVE  IInv'
<1>1. /\ FinalizerStep("end", "free") /\ active_operation_count' = active_operation_count - 1
      /\ UNCHANGED <<shell, reference_count, live, session, exec>>
  BY DEF FinalizerEnd, EndOperation
<1>2. /\ collection.step = "end" /\ collection'.step = "free"
      /\ collection'.session = collection.session /\ collection'.by = collection.by
      /\ collection' \in Collections /\ wants_gc' \subseteq Threads
      /\ UNCHANGED <<gateVars, registry, next_program_id, program, backend, binding,
                     pc, sess, prog, arg>>
  BY <1>1, FinalizerGoes DEF Steps
<1>3. pc[Main] \notin {"create"} \cup PostDrainPcs
  BY <1>2, ClaimIsActive DEF FinalizerClaims
<1>4. OperationsAreCounted'
  BY <1>1, <1>2, FinalizerIsCounted DEF IInv, FinalizerClaims
<1>5. FinalizerIsAlone'
  BY <1>1, <1>2 DEF IInv, SessionInv, FinalizerIsAlone, Linked
<1>6. \A s \in Sessions : FinalizerOwns(s)' <=> FinalizerOwns(s)
  BY <1>2 DEF FinalizerOwns
<1> QED
  BY <1>1, <1>2, <1>3, <1>4, <1>5, <1>6, CollectionOnly

LEMMA FinalizerDetachKeeps ==
  ASSUME IInv, FinalizerDetach
  PROVE  IInv'
<1>1. PICK c : c = collection.session
  OBVIOUS
<1>2. /\ collection.step = "detach"
      /\ UNCHANGED <<shell, reference_count, active_operation_count, exec>>
  BY DEF FinalizerDetach
<1>3. pc[Main] \notin {"create"} \cup PostDrainPcs
  BY <1>2, ClaimIsActive DEF FinalizerClaims
<1>4. c \in Sessions
  BY <1>1, <1>2, FinalizedSession
<1>5. CASE Linked(c)
  <2>1. session[c].context
    BY <1>4, <1>5 DEF IInv, SessionInv, LiveListIsExact
  <2>2. PICK to \in {"exec", "end"} : to = IF session[c].execution THEN "exec" ELSE "end"
    OBVIOUS
  <2>3. CloseSession(c, "orphaned") /\ FinalizerStep("detach", to)
    BY <1>1, <1>5, <2>1, <2>2 DEF FinalizerDetach
  <2>4. /\ collection' = [collection EXCEPT !.step = to] /\ collection'.step = to
        /\ collection' \in Collections /\ wants_gc' \subseteq Threads
        /\ UNCHANGED <<gateVars, registry, next_program_id, program, backend, binding,
                       pc, sess, prog, arg>>
    BY <2>3, FinalizerGoes DEF Steps
  <2>5. /\ SessionInv' /\ session' \in [Sessions -> SessionRecords] /\ live' \in Seq(Sessions)
        /\ \A s \in Sessions : session'[s].state = "free" <=> session[s].state = "free"
    BY <1>1, <1>2, <1>5, <2>2, <2>3, <2>4, FinalizerCloses
  <2>6. \A s \in Sessions : session'[s].program \in {session[s].program, NoProgram}
    BY <1>4, <2>3, CloseEffect DEF IInv, SessionInv, Terminal
  <2>7. OperationsAreCounted'
    BY <1>2, <2>4, OperationsKept DEF IInv, FinalizerClaims
  <2>8. ReferencesAreCounted'
    BY <1>2, <2>4, <2>5, ReferencesKept DEF IInv, HasOwner
  <2>9. exec' \in [Sessions -> BOOLEAN]
    BY <1>2 DEF IInv, Typed
  <2> QED
    BY <1>2, <1>3, <2>4, <2>5, <2>6, <2>7, <2>8, <2>9, CollectionKept
<1>6. CASE ~Linked(c)
  <2>1. FinalizerStep("detach", "end") /\ UNCHANGED <<live, session>>
    BY <1>1, <1>6 DEF FinalizerDetach
  <2>2. /\ collection'.step = "end" /\ collection'.session = collection.session
        /\ collection'.by = collection.by
        /\ collection' \in Collections /\ wants_gc' \subseteq Threads
        /\ UNCHANGED <<gateVars, registry, next_program_id, program, backend, binding,
                       pc, sess, prog, arg>>
    BY <2>1, FinalizerGoes DEF Steps
  <2>3. FinalizerIsAlone'
    BY <1>1, <1>2, <1>6, <2>1, <2>2 DEF IInv, SessionInv, FinalizerIsAlone, Linked
  <2>4. \A s \in Sessions : FinalizerOwns(s)' <=> FinalizerOwns(s)
    BY <1>2, <2>2 DEF FinalizerOwns
  <2>5. OperationsAreCounted'
    BY <1>2, <2>2, OperationsKept DEF IInv, FinalizerClaims
  <2> QED
    BY <1>2, <2>1, <2>2, <2>3, <2>4, <2>5, CollectionOnly
<1> QED
  BY <1>5, <1>6

LEMMA FinalizerExecKeeps ==
  ASSUME IInv, FinalizerExec
  PROVE  IInv'
<1>1. PICK c : c = collection.session
  OBVIOUS
<1>2. /\ FinalizerStep("exec", "end") /\ exec' = [exec EXCEPT ![c] = FALSE]
      /\ UNCHANGED <<shell, reference_count, active_operation_count, live, session>>
  BY <1>1 DEF FinalizerExec
<1>3. /\ collection.step = "exec" /\ collection' = [collection EXCEPT !.step = "end"]
      /\ collection'.step = "end"
      /\ collection' \in Collections /\ wants_gc' \subseteq Threads
      /\ UNCHANGED <<gateVars, registry, next_program_id, program, backend, binding,
                     pc, sess, prog, arg>>
  BY <1>2, FinalizerGoes DEF Steps
<1>4. pc[Main] \notin {"create"} \cup PostDrainPcs
  BY <1>3, ClaimIsActive DEF FinalizerClaims
<1>5. SessionInv' /\ exec' \in [Sessions -> BOOLEAN]
  BY <1>1, <1>2, <1>3, FinalizerDestroys
<1>6. OperationsAreCounted'
  BY <1>2, <1>3, OperationsKept DEF IInv, FinalizerClaims
<1>7. ReferencesAreCounted'
  BY <1>2, <1>3, ReferencesKept DEF IInv, HasOwner
<1>8. session' \in [Sessions -> SessionRecords] /\ live' \in Seq(Sessions)
  BY <1>2 DEF IInv, Typed
<1> QED
  BY <1>2, <1>3, <1>4, <1>5, <1>6, <1>7, <1>8, CollectionKept

LEMMA FinalizerFreeKeeps ==
  ASSUME IInv, FinalizerFree
  PROVE  IInv'
<1>1. PICK c : c = collection.session
  OBVIOUS
<1>2. /\ collection.step = "free" /\ session' = [session EXCEPT ![c] = Unused] /\ ContextRelease
      /\ UNCHANGED <<active_operation_count, gateVars, live, registry, next_program_id, program,
                     backend, binding, exec, pc, sess, prog, arg, wants_gc>>
  BY <1>1 DEF FinalizerFree, FreeSession, registryVars, threadVars
<1>3. /\ collection' \in Collections /\ collection'.step \in {"none", "mark"}
      /\ collection'.session = NoSession
  <2>1. CASE pc[Main] = "teardown"
    BY <2>1 DEF FinalizerFree, Quiet, Collections, Steps
  <2>2. CASE pc[Main] # "teardown"
    <3>1. collection' = [collection EXCEPT !.step = "mark", !.session = NoSession]
      BY <2>2 DEF FinalizerFree
    <3> QED
      BY <3>1 DEF IInv, Typed, Collections, Steps
  <2> QED
    BY <2>1, <2>2
<1>4. /\ SessionInv' /\ session' \in [Sessions -> SessionRecords]
      /\ c \in Sessions /\ session[c].state # "free"
  BY <1>1, <1>2, <1>3, FinalizerFrees
<1>5. shell = "live" /\ pc[Main] \notin {"create", "end"}
  BY <1>2, FinalizerHasContext
<1>6. \A s \in Sessions : session'[s] = IF s = c THEN Unused ELSE session[s]
  BY <1>2, <1>4 DEF IInv, Typed
<1>7. Unused.state = "free" /\ Unused.program = NoProgram
  BY DEF Unused
<1>8. ReferencesAreCounted'
  BY <1>2, <1>4, <1>5, <1>6, <1>7, WrapperIsReleased DEF IInv
<1>9. OperationsAreCounted'
  BY <1>2, <1>3, OperationsKept DEF IInv, FinalizerClaims
<1>10. shell' \in {"live", "freed"}
  BY <1>2, <1>5 DEF ContextRelease
<1>11. live' \in Seq(Sessions) /\ exec' \in [Sessions -> BOOLEAN] /\ wants_gc' \subseteq Threads
  BY <1>2 DEF IInv, Typed
<1>12. \A s \in Sessions : session'[s].program \in {session[s].program, NoProgram}
  BY <1>6, <1>7
<1> QED
  BY <1>2, <1>3, <1>4, <1>5, <1>8, <1>9, <1>10, <1>11, <1>12, CollectionKept

-----------------------------------------------------------------------------
(* The invariant holds, and the properties with it.                        *)

LEMMA InitIInv == Init => IInv
<1> SUFFICES ASSUME Init PROVE IInv
  OBVIOUS
<1>1. /\ \A t \in Threads : pc[t] = IF t = Main THEN "create" ELSE "idle"
      /\ \A t \in Threads : sess[t] = NoSession
      /\ \A s \in Sessions : session[s] = Unused /\ ~exec[s]
      /\ \A p \in Programs : program[p] = "none"
      /\ \A i \in ProgramIds : registry[i] = NoProgram
      /\ collection = Quiet /\ pc[Main] = "create" /\ binding = "none" /\ live = <<>>
      /\ shell = "none" /\ reference_count = 0 /\ active_operation_count = 0
      /\ ~attached /\ backend = "live"
  BY AccelRuntimeAssumption DEF Init, ContextInit
<1>2. /\ Unused \in SessionRecords /\ Unused.state = "free" /\ Unused.program = NoProgram
      /\ ~Unused.context /\ ~Unused.execution /\ ~Unused.installed
  BY AccelRuntimeAssumption DEF Unused, SessionRecords, States
<1>3. /\ Quiet \in Collections /\ Quiet.step = "none" /\ Quiet.session = NoSession
  BY DEF Quiet, Collections, Steps
<1>4. {"create", "idle"} \subseteq Pcs /\ {"create", "idle"} \cap Claimed = {}
      /\ {"create", "idle"} \cap PinningPcs = {} /\ {"create", "idle"} \cap OwningPcs = {}
      /\ "idle" \notin MainPcs
  BY PcSets DEF Pcs, InFlight, MainPcs, ClaimPcs, PinningPcs, BuilderPcs, UserPcs, OrphanPcs,
                OwningPcs
<1>5. Typed
  <2>1. /\ session \in [Sessions -> SessionRecords] /\ pc \in [Threads -> Pcs]
        /\ collection \in Collections
    BY <1>1, <1>2, <1>3, <1>4 DEF Init
  <2>2. 1 \in 1 .. MaxProgramId + 1 /\ 0 \in 0 .. MaxProgramId
    BY AccelContextAssumption
  <2>3. <<>> \in Seq(Sessions)
    OBVIOUS
  <2> QED
    BY <2>1, <2>2, <2>3 DEF Typed, Init, ContextInit
<1>6. MainIsInOrder
  BY <1>1, <1>4 DEF MainIsInOrder, PostDrainPcs, PostBackend, OrphanPcs
<1>7. OperationsAreCounted
  <2>1. ClaimedThreads = {}
    BY <1>1, <1>4 DEF ClaimedThreads
  <2>2. Cardinality(ClaimedThreads) = 0
    BY <2>1, FS_EmptySet
  <2>3. Count(FinalizerClaims) = 0
    BY <1>1, <1>3 DEF Count, FinalizerClaims
  <2> QED
    BY <1>1, <2>2, <2>3 DEF OperationsAreCounted
<1>8. ReferencesAreCounted
  <2>1. Wrapped = {}
    BY <1>1, <1>2 DEF Wrapped
  <2>2. Cardinality(Wrapped) = 0
    BY <2>1, FS_EmptySet
  <2>3. Count(HasOwner) = 0 /\ Count(binding = "live") = 0
    BY <1>1 DEF Count, HasOwner
  <2> QED
    BY <1>1, <2>2, <2>3 DEF ReferencesAreCounted, HasOwner, Wrapped
<1>9. \A s \in Sessions : ~Linked(s)
  BY <1>1 DEF Linked
<1>10. SessionsArePinned /\ SessionsAreAccounted
  BY <1>1, <1>2, <1>4 DEF SessionsArePinned, SessionsAreAccounted, PinningPcs
<1>11. BuildersAreInOrder /\ WorkersAreAlone /\ ClaimsHold
  BY <1>1, <1>4 DEF BuildersAreInOrder, WorkersAreAlone, ClaimsHold, WorkPcs
<1>12. LiveListIsExact
  BY <1>1, <1>2, <1>9 DEF LiveListIsExact
<1>13. FinalizerIsAlone
  BY <1>1, <1>3 DEF FinalizerIsAlone
<1>14. ExecutionsAreOwned
  BY <1>1, <1>2, <1>3, <1>4 DEF ExecutionsAreOwned, Owns, FinalizerOwns
<1>15. ProgramsAreKept
  BY <1>1, <1>2 DEF ProgramsAreKept, PreparePcs
<1> QED
  BY <1>5, <1>6, <1>7, <1>8, <1>10, <1>11, <1>12, <1>13, <1>14, <1>15 DEF IInv, SessionInv

LEMMA StutterKeeps ==
  ASSUME IInv, UNCHANGED vars
  PROVE  IInv'
<1>1. UNCHANGED <<shell, reference_count, active_operation_count, gateVars, live, registry,
                  next_program_id, program, backend, binding, session, exec, pc, sess, prog, arg,
                  wants_gc, collection>>
  BY DEF vars, contextVars, registryVars, threadVars, gcVars
<1>2. FinalizerIsAlone' /\ \A s \in Sessions : FinalizerOwns(s)' <=> FinalizerOwns(s)
  BY <1>1 DEF IInv, SessionInv, FinalizerIsAlone, FinalizerOwns, Linked
<1>3. OperationsAreCounted'
  BY <1>1, OperationsKept DEF IInv, FinalizerClaims
<1>4. collection' \in Collections /\ wants_gc' \subseteq Threads
  BY <1>1 DEF IInv, Typed
<1> QED
  BY <1>1, <1>2, <1>3, <1>4, CollectionOnly

LEMMA NextIInv ==
  ASSUME IInv, [Next]_vars
  PROVE  IInv'
<1>1. CASE MainStep \/ EndProgram
  BY <1>1, MainKeeps
<1>2. ASSUME NEW t \in Threads, Call(t) \/ OperationStep(t) \/ RequestGC(t)
      PROVE  IInv'
  BY <1>2, CallKeeps, OperationKeeps, GCKeeps
<1>3. CASE CollectionStep
  <2>1. ASSUME NEW t \in Threads, BeginGC(t) \/ EndGC(t) PROVE IInv'
    BY <2>1, GCKeeps
  <2>2. CASE FinalizerSteps
    BY <2>2, BeginFinalizerKeeps, FinalizerClaimKeeps, FinalizerDetachKeeps, FinalizerExecKeeps,
       FinalizerEndKeeps, FinalizerFreeKeeps DEF FinalizerSteps
  <2> QED
    BY <1>3, <2>1, <2>2 DEF CollectionStep
<1>4. CASE UNCHANGED vars
  BY <1>4, StutterKeeps
<1> QED
  BY <1>1, <1>2, <1>3, <1>4 DEF Next

(* Every reachable state of the accelerator runtime satisfies the          *)
(* inductive invariant.                                                    *)
THEOREM Invariance == Spec => []IInv
<1>1. Init => IInv
  BY InitIInv
<1>2. IInv /\ [Next]_vars => IInv'
  BY NextIInv
<1> QED
  BY <1>1, <1>2, PTL DEF Spec

(* Type correctness: in particular the counters of accel_context.c never   *)
(* go below zero, and the reference count never exceeds one reference per  *)
(* session wrapper, one for the owner and one for the binding.             *)
THEOREM TypeCorrect == Spec => []TypeOK
<1>1. IInv => TypeOK
  BY CountersAreTyped DEF IInv
<1> QED
  BY <1>1, Invariance, PTL

(* The reference count of the context is exact, so the shell is freed once *)
(* and with its last user, at whatever moment finalizers run.              *)
THEOREM ReferencesStayCounted == Spec => []ReferencesAreCounted
<1>1. IInv => ReferencesAreCounted
  BY DEF IInv
<1> QED
  BY <1>1, Invariance, PTL

(* A thread that comes back from the backend finds its session as it left  *)
(* it, and the live list is exact: the defensive re-checks after a backend *)
(* call never fail and the aborts in link and unlink are never reached.    *)
THEOREM ClaimsAreKept == Spec => []ClaimIsKept
<1>1. IInv => ClaimIsKept
  BY DEF IInv, SessionInv, ClaimsHold, LiveListIsExact, ClaimIsKept
<1> QED
  BY <1>1, Invariance, PTL

LEMMA OneOwner ==
  ASSUME IInv
  PROVE  ExecutionHasOneOwner
<1> SUFFICES ASSUME NEW s \in Sessions
             PROVE  Cardinality(ExecutionOwners(s)) = IF exec[s] THEN 1 ELSE 0
  BY DEF ExecutionHasOneOwner
<1>1. PICK owners : owners = {t \in Threads : Owns(t, s)}
  OBVIOUS
<1>2. ExecutionOwners(s) = owners \cup (IF session[s].execution THEN {"session"} ELSE {})
                             \cup (IF FinalizerOwns(s) THEN {"finalizer"} ELSE {})
  BY <1>1 DEF ExecutionOwners, Owns, FinalizerOwns
<1>3. /\ exec[s] <=> owners # {} \/ session[s].execution \/ FinalizerOwns(s)
      /\ \A t, u \in owners : t = u
      /\ owners # {} => ~session[s].execution /\ ~FinalizerOwns(s)
      /\ session[s].execution => ~FinalizerOwns(s)
  BY <1>1 DEF IInv, SessionInv, ExecutionsAreOwned
<1>4. CASE exec[s]
  <2>1. PICK x : ExecutionOwners(s) = {x}
    <3>1. CASE owners # {}
      <4>1. PICK x : owners = {x}
        BY <1>3, <3>1
      <4> QED
        BY <1>2, <1>3, <3>1, <4>1
    <3>2. CASE owners = {} /\ session[s].execution
      BY <1>2, <1>3, <3>2
    <3>3. CASE owners = {} /\ FinalizerOwns(s)
      BY <1>2, <1>3, <3>3
    <3> QED
      BY <1>3, <1>4, <3>1, <3>2, <3>3
  <2> QED
    BY <1>4, <2>1, FS_Singleton
<1>5. CASE ~exec[s]
  BY <1>2, <1>3, <1>5, FS_EmptySet
<1> QED
  BY <1>4, <1>5

(* An execution of the backend is destroyed exactly once, by whichever of  *)
(* finish, failure, discard, finalizer and destruction took it.            *)
THEOREM ExecutionsHaveOneOwner == Spec => []ExecutionHasOneOwner
<1>1. IInv => ExecutionHasOneOwner
  BY OneOwner
<1> QED
  BY <1>1, Invariance, PTL

LEMMA DiesLast ==
  ASSUME IInv
  PROVE  BackendDiesLast
<1>1. ASSUME NEW s \in Sessions, session[s].program # NoProgram
      PROVE  program[session[s].program] = "published"
  BY <1>1 DEF IInv, ProgramsAreKept
<1>2. ASSUME backend = "destroyed"
      PROVE  /\ \A s \in Sessions : ~exec[s]
             /\ \A p \in Programs : program[p] \in {"none", "destroyed"}
             /\ \A t \in Threads : pc[t] \notin Claimed
  <2>1. pc[Main] \in PostBackend /\ pc[Main] \in PostDrainPcs \ OrphanPcs
    BY <1>2 DEF IInv, MainIsInOrder, PostBackend, PostDrainPcs, OrphanPcs
  <2>2. /\ \A t \in Threads : pc[t] \notin Claimed /\ pc[t] \notin OrphanPcs
        /\ live = <<>>
    BY <2>1, NoSessionPrograms
  <2>3. ~FinalizerClaims
    BY <2>1, NoClaims
  <2>4. OwningPcs \subseteq Claimed \cup OrphanPcs /\ PreparePcs \subseteq Claimed
    BY PcSets DEF OwningPcs, OrphanPcs, PreparePcs
  <2>5. ASSUME NEW s \in Sessions PROVE ~exec[s]
    <3>1. ~session[s].execution
      BY <2>2 DEF IInv, SessionInv, LiveListIsExact, Linked
    <3>2. \A t \in Threads : ~Owns(t, s)
      BY <2>2, <2>4 DEF Owns
    <3>3. ~FinalizerOwns(s)
      BY <2>3 DEF FinalizerClaims, FinalizerOwns
    <3> QED
      BY <3>1, <3>2, <3>3 DEF IInv, SessionInv, ExecutionsAreOwned
  <2>6. ASSUME NEW p \in Programs PROVE program[p] \in {"none", "destroyed"}
    <3>1. program[p] # "published"
      BY <2>1 DEF IInv, MainIsInOrder
    <3>2. program[p] # "prepared"
      BY <2>2, <2>4 DEF IInv, ProgramsAreKept
    <3>3. program[p] \in {"none", "prepared", "published", "destroyed"}
      BY DEF IInv, Typed
    <3> QED
      BY <3>1, <3>2, <3>3
  <2> QED
    BY <2>2, <2>5, <2>6
<1> QED
  BY <1>1, <1>2 DEF BackendDiesLast

(* The drain of accel_context_destroy is enough: the backend outlives      *)
(* every execution, every program and every operation.                     *)
THEOREM BackendDiesAtLast == Spec => []BackendDiesLast
<1>1. IInv => BackendDiesLast
  BY DiesLast
<1> QED
  BY <1>1, Invariance, PTL

=============================================================================
