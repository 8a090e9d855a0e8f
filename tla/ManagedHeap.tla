---------------------------- MODULE ManagedHeap ----------------------------
(***************************************************************************)
(* What the collector of core/gc.c promises to programs: objects that stay *)
(* where they are, for as long as they can be reached.                     *)
(*                                                                         *)
(* An object exists while a root leads to it, and a collection is not a    *)
(* step of this module: it changes nothing here, except that it may        *)
(* finalize handles that nobody can reach any more, each of them once.     *)
(* Collector.tla is shown to implement this module.                        *)
(***************************************************************************)

EXTENDS Reachability

CONSTANTS
  Roots,      \* Variables of frames, globals and pinned locals.
  Slots,      \* Elements of an object.
  Objects,    \* Names of objects,
  Handles,    \* those of objects that own a native resource,
  Null        \* and no object.

VARIABLES
  root,       \* The object in each root.
  element,    \* Triples: an object that exists, a slot of it, and what is there.
  resources   \* Handles whose finalizer has not been called.

vars == <<root, element, resources>>

Existing == {e[1] : e \in element}

(* The elements that remain if the roots are r: those of the objects that  *)
(* r leads to.                                                             *)
Reachable(r, elements) ==
  LET edges == {<<e[1], e[3]>> : e \in {e \in elements : e[3] # Null}}
      live  == ReachableFrom({r[v] : v \in Roots}, edges)
  IN {e \in elements : e[1] \in live}

-----------------------------------------------------------------------------

Init ==
  /\ root = [v \in Roots |-> Null]
  /\ element = {}
  /\ resources = {}

(* A new object, whose name is not in use.                                 *)
New(v, o) ==
  /\ root' = [root EXCEPT ![v] = o]
  /\ o \notin Existing \cup resources
  /\ resources' = resources \cup ({o} \cap Handles)
  /\ element' = Reachable(root', element \cup {<<o, s, Null>> : s \in Slots})

Assign(v, value) ==
  /\ root' = [root EXCEPT ![v] = value]
  /\ element' = Reachable(root', element)
  /\ UNCHANGED resources

Load(v, u) == \E e \in element : e[1] = root[u] /\ Assign(v, e[3])

Store(v, s, value) ==
  /\ root[v] # Null
  /\ UNCHANGED <<root, resources>>
  /\ LET others == {e \in element : ~(e[1] = root[v] /\ e[2] = s)}
     IN element' = Reachable(root, others \cup {<<root[v], s, value>>})

(* Finalizers are called, for handles that do not exist any more.          *)
Finalize(handles) ==
  /\ resources' = resources \ handles
  /\ handles \cap Existing = {}
  /\ UNCHANGED <<root, element>>

Values == {Null} \cup {root[v] : v \in Roots}

(* A step changes a root, or an element, or finalizes.                     *)
Next ==
  \/ /\ root' # root
     /\ \/ \E v \in Roots, o \in Objects : New(v, o)
        \/ \E v \in Roots, value \in Values : Assign(v, value)
        \/ \E v, u \in Roots : Load(v, u)
  \/ /\ root' = root /\ element' # element
     /\ \E v \in Roots, s \in Slots, value \in Values : Store(v, s, value)
  \/ \E handles \in (SUBSET resources) \ {{}} : Finalize(handles)

Spec == Init /\ [][Next]_vars

=============================================================================
