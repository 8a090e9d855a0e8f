----------------------------- MODULE Collector -----------------------------
(***************************************************************************)
(* The generational copying collector of core/gc.c.                        *)
(*                                                                         *)
(* An object is born in the nursery, or in the tenured region if it is     *)
(* large.  A young collection evacuates the objects it reaches from the    *)
(* nursery and from one half of the graduate region to the other half, or  *)
(* promotes those that have survived long enough to the tenured region.    *)
(* An old collection marks and sweeps the tenured region; compaction       *)
(* slides it.  An expanded array or dictionary is two objects, the old one *)
(* pointing to the new by newer; every collection replaces references to   *)
(* the old one.                                                            *)
(*                                                                         *)
(* The mutator is one program whose roots are Roots: the interleavings of  *)
(* several are the subject of SharedArray.tla and SharedDict.tla, and that *)
(* nobody runs during a collection that of Safepoint.tla.  An object has   *)
(* some slots and may own a native resource, as a dictionary does.  Places *)
(* of one region are interchangeable: an object fits in any.               *)
(***************************************************************************)

EXTENDS Sequences, SequencesExt, Reachability

CONSTANTS
  Roots, Slots, Objects, Handles, Null,    \* As in ManagedHeap.
  Leaves,            \* Objects without elements: strings, packed buffers.
  Configs,           \* Sizes of the regions that a VM can be given, in objects.
  PromotionThreshold,
  MaxAllocations     \* Bound: objects made, expansions included.

Regions == {"nursery", "graduate0", "graduate1", "tenure"}

ASSUME CollectorAssumption ==
  /\ IsFiniteSet(Roots) /\ IsFiniteSet(Slots) /\ IsFiniteSet(Objects)
  /\ Handles \subseteq Objects /\ Leaves \subseteq Objects \ Handles
  /\ IsFiniteSet(Configs) /\ Configs # {}
  /\ \A c \in Configs :
       /\ c \in [Regions -> Nat \ {0}]
       /\ c["graduate0"] = c["graduate1"]
  /\ {PromotionThreshold, MaxAllocations} \subseteq Nat

VARIABLES
  config,             \* The sizes of the regions, fixed when the VM is made.
  root,               \* The reference in each root.
  heap,               \* The object at each place, or Null.
  remember_set,       \* Tenured places that may refer to younger ones.
  tenure_frontier,    \* Tenured places that have been allocated at least once.
  cur_grad_from,      \* The graduate half that is in use.
  graduate_list,      \* The objects of that half,
  graduate_new_list,  \* and those evacuated by the current collection.
  phase,              \* What the collector is doing.
  agenda,             \* Collections that will follow.
  work,               \* Slots to visit: the worklist, and under it the roots.
  promoted,           \* Objects promoted and not yet looked at again.
  resources,          \* Ghost: handles whose finalizer has not been called.
  nallocated          \* Objects made so far.

mutatorVars == <<config, root, heap, remember_set, tenure_frontier, resources, nallocated>>
listVars    == <<cur_grad_from, graduate_list, graduate_new_list>>
gcVars      == <<phase, agenda, work, promoted>>
vars        == <<mutatorVars, listVars, gcVars>>

(* The places of the largest regions that a VM can be given.               *)
Region(region) == {region} \X (1 .. Max({c[region] : c \in Configs}))
Nursery == Region("nursery")
Half    == [h \in {0, 1} |-> Region(IF h = 0 THEN "graduate0" ELSE "graduate1")]
Tenure  == Region("tenure")
Young   == Nursery \cup Half[0] \cup Half[1]
Places  == Young \cup Tenure

Refs   == Places \cup {Null}
Object == [object : Objects, slots : [Slots -> Refs], newer : Refs, native : BOOLEAN,
           promotion_count : 0 .. PromotionThreshold, is_marked : BOOLEAN, forward : Refs]

(* No object is called Null or "lost", and Null is neither a place nor     *)
(* what is at one.                                                         *)
ASSUME NullAssumption ==
  /\ Null \notin Objects \cup Places \cup Object
  /\ "lost" \notin Objects \cup {Null}

Phases      == {"mutator", "young_roots", "young_remembered"}
Collections == {"young", "old", "compact"}

Used(region) == {p \in region : heap[p] # Null}

(* The newest generation of the object at p.                               *)
Newest[p \in Places] ==
  IF heap[p] = Null \/ heap[p].newer = Null THEN p ELSE Newest[heap[p].newer]

PointsToYoung(object) == \E s \in Slots : object.slots[s] \in Young

Init ==
  /\ config \in Configs
  /\ root = [v \in Roots |-> Null]
  /\ heap = [p \in Places |-> Null]
  /\ remember_set = {}
  /\ tenure_frontier = 0
  /\ cur_grad_from = 0
  /\ graduate_list = {} /\ graduate_new_list = {}
  /\ phase = "mutator" /\ agenda = << >>
  /\ work = << >> /\ promoted = {}
  /\ resources = {}
  /\ nallocated = 0

-----------------------------------------------------------------------------
(* What the roots lead to.  A reference to an expanded object is one to    *)
(* its newest generation.                                                  *)

NewestOf(refs) == {Newest[p] : p \in refs \ {Null}}

References(places) ==
  UNION {{p} \X NewestOf({heap[p].slots[s] : s \in Slots}) : p \in places}

LivePlaces ==
  ReachableFrom(NewestOf({root[v] : v \in Roots}), References(Used(Places)))

(* The object a reference stands for; "lost" if its place holds none.      *)
Name(ref) == IF ref = Null THEN Null
             ELSE IF heap[Newest[ref]] = Null THEN "lost"
             ELSE heap[Newest[ref]].object

LiveNames == {Name(p) : p \in LivePlaces}

(* Names are given in a fixed order in each kind, which names are is       *)
(* immaterial.                                                             *)
FreshNames ==
  LET unused == Objects \ (LiveNames \cup resources)
      kinds  == {unused \cap Handles, unused \cap Leaves, unused \ (Handles \cup Leaves)} \ {{}}
  IN {CHOOSE o \in kind : TRUE : kind \in kinds}

-----------------------------------------------------------------------------
(* Allocation.                                                             *)

Free(region) == {p \in region : p[2] <= config[p[1]] /\ heap[p] = Null}

FirstFree(region) == CHOOSE p \in Free(region) : \A q \in Free(region) : p[2] <= q[2]

FrontierWith(p) ==
  IF p \in Tenure /\ p[2] > tenure_frontier THEN p[2] ELSE tenure_frontier

NewObject(o) ==
  [object |-> o, slots |-> [s \in Slots |-> Null], newer |-> Null, native |-> o \in Handles,
   promotion_count |-> 0, is_marked |-> FALSE, forward |-> Null]

-----------------------------------------------------------------------------
(* The mutator.                                                            *)

Mutating == phase = "mutator" /\ agenda = << >>

Assign(v, ref) ==
  /\ Mutating
  /\ root' = [root EXCEPT ![v] = ref]
  /\ UNCHANGED <<config, heap, remember_set, tenure_frontier, resources, nallocated, listVars, gcVars>>

(* A small object is made in the nursery, a large one in the tenured       *)
(* region.                                                                 *)
New(v, o, region) ==
  /\ Mutating
  /\ nallocated < MaxAllocations /\ nallocated' = nallocated + 1
  /\ Free(region) # {}
  /\ LET p == FirstFree(region)
     IN /\ heap' = [heap EXCEPT ![p] = NewObject(o)]
        /\ root' = [root EXCEPT ![v] = p]
        /\ tenure_frontier' = FrontierWith(p)
  /\ resources' = resources \cup ({o} \cap Handles)
  /\ UNCHANGED <<config, remember_set, listVars, gcVars>>

Container(ref) == ref # Null /\ heap[ref].object \notin Leaves

Load(v, u, s) ==
  /\ Container(root[u])
  /\ Assign(v, heap[Newest[root[u]]].slots[s])

(* rt_gc_array_write_barrier, rt_gc_dict_write_barrier.                    *)
WriteBarrier(container, ref) ==
  remember_set' = IF container \in Tenure /\ ref \in Young
                  THEN remember_set \cup {container} ELSE remember_set

Store(v, s, ref) ==
  /\ Mutating
  /\ Container(root[v])
  /\ heap' = [heap EXCEPT ![Newest[root[v]]].slots[s] = ref]
  /\ WriteBarrier(Newest[root[v]], ref)
  /\ UNCHANGED <<config, root, tenure_frontier, resources, nallocated, listVars, gcVars>>

(* Variant: the native resource stays in the old object, too.               *)
SupersededWithNative(p, new) == [heap[p] EXCEPT !.newer = new]

Superseded(p, new) == [heap[p] EXCEPT !.newer = new, !.native = FALSE]

(* expand_array, expand_dict: a larger copy supersedes the object.         *)
Expand(v, region) ==
  /\ Mutating
  /\ nallocated < MaxAllocations /\ nallocated' = nallocated + 1
  /\ Container(root[v])
  /\ Free(region) # {}
  /\ LET old == Newest[root[v]]
         new == FirstFree(region)
     IN /\ heap' = [heap EXCEPT
               ![new] = [NewObject(heap[old].object) EXCEPT
                           !.slots = heap[old].slots, !.native = heap[old].native],
               ![old] = Superseded(old, new)]
        /\ remember_set' = IF new \in Tenure /\ PointsToYoung(heap[old])
                           THEN remember_set \cup {new} ELSE remember_set
        /\ tenure_frontier' = FrontierWith(new)
  /\ UNCHANGED <<config, root, resources, listVars, gcVars>>

Mutator ==
  \/ \E v \in Roots, ref \in {Null} : Assign(v, ref)
  \/ \E v \in Roots, o \in FreshNames, region \in {Nursery, Tenure} : New(v, o, region)
  \/ \E v, u \in Roots, s \in Slots : Load(v, u, s)
  \/ \E v \in Roots, s \in Slots, ref \in {Null} \cup {root[u] : u \in Roots} : Store(v, s, ref)
  \/ \E v \in Roots, region \in {Nursery, Tenure} : Expand(v, region)

-----------------------------------------------------------------------------
(* Slots that collections visit and rewrite: a root, an element of an      *)
(* object, or a local variable that holds a member of the remember set.    *)
(* Each root slot is drained before the next is visited, which makes the   *)
(* remaining ones the bottom of the worklist.                              *)

RootSlots   == SetToSeq({<<"root", v>> : v \in {v \in Roots : root[v] # Null}})
Members(ps) == SetToSeq({<<"member", p>> : p \in ps})
Elements(p, object) ==
  SetToSeq({<<"element", p, s>> : s \in {s \in Slots : object.slots[s] # Null}})

Target(slot) ==
  LET ref == CASE slot[1] = "root"    -> root[slot[2]]
               [] slot[1] = "element" -> heap[slot[2]].slots[slot[3]]
               [] slot[1] = "member"  -> slot[2]
  IN Newest[ref]

(* The slot gets ref, in a heap that is otherwise h.                       *)
Rewrite(slot, ref, h) ==
  /\ root' = IF slot[1] = "root" THEN [root EXCEPT ![slot[2]] = ref] ELSE root
  /\ heap' = IF slot[1] = "element" THEN [h EXCEPT ![slot[2]].slots[slot[3]] = ref] ELSE h

Cleared(places) ==
  [p \in Places |->
     IF p \in places /\ heap[p] # Null
     THEN [heap[p] EXCEPT !.is_marked = FALSE, !.forward = Null]
     ELSE heap[p]]

Listed == Nursery \cup graduate_list \cup Tenure

(* A collection that an allocation, or the program, asks for, or the next  *)
(* of a series.  The program may ask for a young one at any time; the      *)
(* tenured region is otherwise collected when it is full.                  *)
Due(collection, asked) ==
  /\ phase = "mutator"
  /\ \/ agenda = << >> /\ asked
     \/ agenda # << >> /\ Head(agenda) = collection

After == IF agenda = << >> THEN << >> ELSE Tail(agenda)

-----------------------------------------------------------------------------
(* Young collection.                                                       *)

HasHeadroom ==
  config["tenure"] - tenure_frontier >= config["nursery"] + config["graduate0"]

(* The list of evacuated objects is reset, and then the marks of all       *)
(* objects in lists are cleared.                                           *)
StartYoung ==
  /\ Due("young", TRUE)
  /\ agenda # << >> \/ HasHeadroom
  /\ agenda' = After
  /\ phase' = "young_roots"
  /\ work' = RootSlots
  /\ graduate_new_list' = {}
  /\ heap' = Cleared(Listed \cup graduate_new_list')
  /\ UNCHANGED <<config, root, remember_set, tenure_frontier, resources, nallocated, cur_grad_from, graduate_list, promoted>>

InYoung == phase \in {"young_roots", "young_remembered"}

ToHalf == Half[1 - cur_grad_from]

(* Where rt_gc_copy_young_object puts the object at p: nowhere only if     *)
(* both regions are full.  Promotion fails if the tenured region is full,  *)
(* and the object is copied once more.                                     *)
Promotes(p) == heap[p].promotion_count >= PromotionThreshold /\ Free(Tenure) # {}

Destinations(p) ==
  IF Promotes(p) THEN Tenure
  ELSE IF Free(ToHalf) # {} THEN ToHalf ELSE Tenure

(* promotion_count of a tenured object is never read, and is left at 0.    *)
CountAfter(p, to) ==
  IF to \in Tenure THEN 0
  ELSE IF heap[p].promotion_count < PromotionThreshold
       THEN heap[p].promotion_count + 1 ELSE heap[p].promotion_count

(* An object that has been visited: the slot follows it where it went.     *)
VisitMarked(slot) ==
  LET p == Target(slot) IN
  /\ heap[p].is_marked
  /\ Rewrite(slot, IF p \in Young /\ heap[p].forward # Null THEN heap[p].forward ELSE p, heap)
  /\ work' = Tail(work)
  /\ UNCHANGED <<config, remember_set, tenure_frontier, resources, nallocated, listVars, phase, agenda, promoted>>

(* Variant: the object is not marked.                                       *)
VisitTenuredUnmarked(slot) ==
  LET p == Target(slot) IN
  /\ p \in Tenure
  /\ ~heap[p].is_marked
  /\ Rewrite(slot, p, heap)
  /\ work' = Elements(p, heap[p]) \o Tail(work)
  /\ UNCHANGED <<config, remember_set, tenure_frontier, resources, nallocated, listVars, phase, agenda, promoted>>

(* A tenured object stays where it is, and is descended into.              *)
VisitTenured(slot) ==
  LET p == Target(slot) IN
  /\ p \in Tenure
  /\ ~heap[p].is_marked
  /\ Rewrite(slot, p, [heap EXCEPT ![p].is_marked = TRUE])
  /\ work' = Elements(p, heap[p]) \o Tail(work)
  /\ UNCHANGED <<config, remember_set, tenure_frontier, resources, nallocated, listVars, phase, agenda, promoted>>

(* Variant: the copy is not marked.                                         *)
UnmarkedCopy(p, to) == [heap[p] EXCEPT !.promotion_count = CountAfter(p, to), !.forward = Null]

Copy(p, to) ==
  [heap[p] EXCEPT !.promotion_count = CountAfter(p, to), !.is_marked = TRUE, !.forward = Null]

Left(p, to) == [heap[p] EXCEPT !.is_marked = TRUE, !.forward = to, !.native = FALSE]

Evacuate(slot) ==
  LET p == Target(slot) IN
  /\ p \in Young
  /\ ~heap[p].is_marked
  /\ Free(Destinations(p)) # {}
  /\ LET to   == FirstFree(Destinations(p))
         copy == Copy(p, to)
     IN /\ Rewrite(slot, to, [heap EXCEPT ![to] = copy, ![p] = Left(p, to)])
        /\ work' = Elements(to, copy) \o Tail(work)
        /\ tenure_frontier' = FrontierWith(to)
        /\ graduate_new_list' = graduate_new_list \cup ({to} \cap ToHalf)
        /\ promoted' = IF Promotes(p) THEN promoted \cup {to} ELSE promoted
        /\ remember_set' = IF to \in Tenure /\ ~Promotes(p) /\ PointsToYoung(heap[p])
                           THEN remember_set \cup {to} ELSE remember_set
  /\ UNCHANGED <<config, resources, nallocated, cur_grad_from, graduate_list, phase, agenda>>

VisitYoung ==
  /\ InYoung
  /\ work # << >>
  /\ LET slot == Head(work)
     IN VisitMarked(slot) \/ VisitTenured(slot) \/ Evacuate(slot)

(* Promoted objects that still refer to young ones are remembered.  (The   *)
(* code looks after each root slot; their elements have not changed then.) *)
Noted == remember_set \cup {p \in promoted : PointsToYoung(heap[p])}

(* The members of the remember set are roots too.                          *)
StartRemembered ==
  /\ phase = "young_roots"
  /\ work = << >>
  /\ phase' = "young_remembered"
  /\ remember_set' = Noted
  /\ promoted' = {}
  /\ work' = Members(Noted)
  /\ UNCHANGED <<config, root, heap, tenure_frontier, resources, nallocated, listVars, agenda>>

(* The object at p, its references brought up to date if it is a member of *)
(* the remember set and not superseded: the slots of such a generation are *)
(* stale.                                                                  *)
Forwarded(ref) ==
  IF ref \in Young /\ heap[ref].forward # Null THEN heap[ref].forward ELSE ref

Updated(p) ==
  IF p \in Noted /\ heap[p].newer = Null
  THEN [heap[p] EXCEPT !.slots = [s \in Slots |-> Forwarded(@[s])]]
  ELSE heap[p]

(* Variant: superseded generations stay in the set.                         *)
RememberedStale == {p \in Noted : heap[p].newer # Null \/ PointsToYoung(Updated(p))}

(* Only members that still refer to young objects stay.                    *)
Remembered == {p \in Noted : heap[p].newer = Null /\ PointsToYoung(Updated(p))}

Finalize(places) == resources' = resources \ {heap[p].object : p \in places}

(* The nursery and the graduate half in use are emptied, and the halves    *)
(* change places.                                                          *)
FinishYoung ==
  /\ phase = "young_remembered"
  /\ work = << >>
  /\ heap' = [p \in Places |-> IF p \in Nursery \cup Half[cur_grad_from] THEN Null ELSE Updated(p)]
  /\ remember_set' = Remembered
  /\ Finalize({p \in Used(Nursery) : heap[p].native /\ ~heap[p].is_marked})
  /\ cur_grad_from' = 1 - cur_grad_from
  /\ graduate_list' = graduate_new_list
  /\ graduate_new_list' = {}
  /\ promoted' = {}
  /\ phase' = "mutator"
  /\ UNCHANGED <<config, root, tenure_frontier, nallocated, agenda, work>>

-----------------------------------------------------------------------------
(* Old collection.                                                         *)

(* The marks of objects in lists are cleared first; an object that is      *)
(* marked is not descended into.                                           *)
StillMarked(p) == p \notin Listed /\ heap[p].is_marked

(* Variant: the newest generation is marked, and the slot left as it is.    *)
FollowWithoutRewriting(ref) == ref

Follow(ref) == IF ref = Null THEN Null ELSE Newest[ref]

(* Everything the roots lead to is marked, every slot on the way is made   *)
(* to refer to a newest generation, and the tenured objects that were not  *)
(* reached are finalized and freed.                                        *)
MarkAndSweep ==
  LET marked == ReachableFrom(NewestOf({root[v] : v \in Roots}),
                              References({p \in Used(Places) : ~StillMarked(p)}))
      dead   == Used(Tenure) \ marked
  IN /\ heap' = [p \in Places |->
                   IF p \in dead \/ heap[p] = Null THEN Null
                   ELSE IF p \in marked /\ ~StillMarked(p)
                   THEN [heap[p] EXCEPT !.is_marked = TRUE, !.slots = [s \in Slots |-> Follow(@[s])]]
                   ELSE [heap[p] EXCEPT !.is_marked = StillMarked(p)]]
     /\ root' = [v \in Roots |-> Follow(root[v])]
     /\ remember_set' = remember_set \ dead
     /\ Finalize({p \in dead : heap[p].native})

OldCollection ==
  /\ \/ Due("old", Free(Tenure) = {}) /\ agenda' = After
     \/ Due("young", TRUE) /\ agenda = << >> /\ ~HasHeadroom /\ agenda' = <<"compact", "young">>
  /\ MarkAndSweep
  /\ UNCHANGED <<config, tenure_frontier, nallocated, listVars, phase, work, promoted>>

-----------------------------------------------------------------------------
(* Compaction.                                                             *)

(* Where a tenured object is moved: the objects slide over the free places *)
(* below them.                                                             *)
Remap(ref) ==
  IF ref \in Used(Tenure)
  THEN <<"tenure", Cardinality({q \in Used(Tenure) : q[2] <= ref[2]})>>
  ELSE ref

Remapped(object) ==
  [object EXCEPT !.slots = [s \in Slots |-> Remap(@[s])], !.newer = Remap(@)]

Compact ==
  /\ Due("compact", Free(Tenure) = {})
  /\ LET updated == [p \in Used(Places) |-> IF p \in Listed THEN Remapped(heap[p]) ELSE heap[p]]
     IN heap' = [p \in Places |->
                   IF p \in Tenure
                   THEN IF \E q \in Used(Tenure) : Remap(q) = p
                        THEN updated[CHOOSE q \in Used(Tenure) : Remap(q) = p] ELSE Null
                   ELSE IF heap[p] = Null THEN Null ELSE updated[p]]
  /\ root' = [v \in Roots |-> Remap(root[v])]
  /\ remember_set' = {Remap(p) : p \in remember_set}
  /\ tenure_frontier' = IF Used(Tenure) = {} THEN tenure_frontier ELSE Cardinality(Used(Tenure))
  /\ agenda' = After
  /\ UNCHANGED <<config, resources, nallocated, listVars, phase, work, promoted>>

-----------------------------------------------------------------------------
(* The specification.                                                      *)

Collect ==
  \/ StartYoung \/ VisitYoung \/ StartRemembered \/ FinishYoung
  \/ OldCollection \/ Compact

Next == Mutator \/ Collect

Spec == Init /\ [][Next]_vars

-----------------------------------------------------------------------------
(* Properties.                                                             *)

SlotAddress(slot) ==
  \/ slot[1] = "root" /\ slot[2] \in Roots
  \/ slot[1] = "element" /\ slot[2] \in Places /\ slot[3] \in Slots
  \/ slot[1] = "member" /\ slot[2] \in Tenure

(* The collector's lists hold objects of the right regions, and its        *)
(* worklists are empty while the program runs.                             *)
TypeOK ==
  /\ root \in [Roots -> Refs]
  /\ \A p \in Places : heap[p] \in Object \cup {Null}
  /\ remember_set \subseteq Used(Tenure)
  /\ config \in Configs
  /\ tenure_frontier \in 0 .. config["tenure"]
  /\ \A p \in Used(Tenure) : p[2] <= tenure_frontier
  /\ cur_grad_from \in {0, 1}
  /\ graduate_list = Used(Half[cur_grad_from])
  /\ graduate_new_list = Used(ToHalf)
  /\ phase \in Phases
  /\ agenda \in Seq(Collections)
  /\ \A i \in DOMAIN work : SlotAddress(work[i])
  /\ promoted \subseteq Used(Tenure)
  /\ resources \subseteq Handles
  /\ phase = "mutator" => work = << >> /\ promoted = {} /\ graduate_new_list = {}

(* No collection changes what the program sees: what the roots lead to,    *)
(* through superseded generations and through copies, is at any moment the *)
(* heap of ManagedHeap, and a finalizer runs only for a handle that nobody *)
(* can reach.                                                              *)
LiveElements ==
  UNION {{<<Name(p), s, Name(heap[p].slots[s])>> : s \in Slots} : p \in LivePlaces \cap Used(Places)}

ManagedHeap == INSTANCE ManagedHeap
  WITH root <- [v \in Roots |-> Name(root[v])], element <- LiveElements

ImplementsManagedHeap == ManagedHeap!Spec

(* An object is evacuated once: while the program runs, all references to  *)
(* it lead to one place.                                                   *)
OneLiveCopy ==
  phase = "mutator" => \A p, q \in LivePlaces : Name(p) = Name(q) => p = q

(* The remember set is scanned whether or not the program can still reach  *)
(* its members, so what they refer to must still be there.                 *)
RememberedAreSound ==
  phase = "mutator" =>
    \A p \in remember_set :
      LET q == Newest[p] IN
      /\ heap[q] # Null
      /\ \A s \in Slots : heap[q].slots[s] # Null => Name(heap[q].slots[s]) # "lost"

(* A handle that the program can reach and that has not been finalized has *)
(* its native resource in the copy that the program sees, and no other     *)
(* copy, live or dead, would have it finalized again.                      *)
HandleKeepsItsResource ==
  phase = "mutator" =>
    \A o \in Handles \cap LiveNames :
      \A p \in Used(Places) : heap[p].object = o => (heap[p].native <=> p \in LivePlaces)

(* The traversal ends, also when tenured objects form a cycle: a visit     *)
(* that does not mark one more object leaves less work.                    *)
Marked == {p \in Used(Places) : heap[p].is_marked}

VisitEnds ==
  \/ Marked \subseteq Marked' /\ Marked # Marked'
  \/ Marked = Marked' /\ Len(work') < Len(work)

TraversalEnds == [][InYoung /\ phase' = phase => VisitEnds]_vars

=============================================================================
