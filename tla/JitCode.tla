------------------------------- MODULE JitCode -------------------------------
(***************************************************************************)
(* Where native code lives (core/jit.c, core/jit-x86_64.c) and when it can *)
(* be entered (core/runtime.c).                                            *)
(*                                                                         *)
(* A unit's functions are registered one by one.  Each is published as a   *)
(* global and then compiled into the current slab, a writable mapping; a   *)
(* function that does not fit is generated again in a new slab, and one    *)
(* that cannot be generated is left to the interpreter.  When the whole    *)
(* unit is registered, every slab's new pages are made executable; when    *)
(* that fails, all native code is dropped.  A unit may fail midway: the    *)
(* functions registered so far stay.                                       *)
(*                                                                         *)
(* One environment registers at a time, as the compiler's static state     *)
(* requires.                                                               *)
(***************************************************************************)

EXTENDS Integers, Sequences, FiniteSets

CONSTANTS
  Funcs,       \* Functions: each is registered once.
  CodeLength,  \* CodeLength[f]: the cells of native code f needs.
  CodeSize,    \* rt_jit_get_code_size
  PageSize,
  None

ASSUME JitCodeAssumption ==
  /\ None \notin Funcs
  /\ CodeLength \in [Funcs -> Nat \ {0}]
  /\ CodeSize \in Nat \ {0}
  /\ PageSize \in Nat \ {0}

VARIABLES
  slabs,         \* The list from jit_slab_head to jit_slab_tail,
  slab_current,  \* and the place in it of jit_slab_current, or 0.
  jit_code,      \* jit_code[f]: where the code of f begins, or None.
  func_list,
  is_jit_dirty,
  phase,         \* Control point of the registration,
  building,      \* the function it generates code for,
  code,          \* the next cell to write
  attempt,
  cursor         \* and the slab that jit_commit is at.

vars == <<slabs, slab_current, jit_code, func_list, is_jit_dirty, phase,
          building, code, attempt, cursor>>

slabVars  == <<slabs, slab_current>>
buildVars == <<building, code, attempt>>

Phases == {"idle", "registering", "acquire", "emit", "failed_build", "commit"}

AlignUp(n) == ((n + PageSize - 1) \div PageSize) * PageSize

SlabSize == AlignUp(IF CodeSize < PageSize THEN PageSize ELSE CodeSize)
Cells    == 0 .. SlabSize - 1
Page(i)  == i \div PageSize

(* rt_jit_map_memory_region: zero-filled, writable, not executable.        *)
NewSlab == [current |-> 0, committed |-> 0,
            cells |-> [i \in Cells |-> None], exec |-> {}]

Goto(from, to) == phase = from /\ phase' = to

-----------------------------------------------------------------------------

Init ==
  /\ slabs = <<>>
  /\ slab_current = 0
  /\ jit_code = [f \in Funcs |-> None]
  /\ func_list = {}
  /\ is_jit_dirty = FALSE
  /\ phase = "idle"
  /\ building = None
  /\ code = 0
  /\ attempt = 0
  /\ cursor = 0

(* rt_register_source, rt_register_bytecode: the unit is valid.            *)
BeginUnit ==
  /\ Goto("idle", "registering")
  /\ UNCHANGED <<slabVars, jit_code, func_list, is_jit_dirty, buildVars, cursor>>

(* rt_register_lir publishes the global, and jit_build begins.             *)
RegisterLir ==
  /\ Goto("registering", "acquire")
  /\ building' \in Funcs \ func_list
  /\ attempt' = 0
  /\ UNCHANGED <<slabVars, jit_code, func_list, is_jit_dirty, code, cursor>>

(* A function's memory or its global cannot be had: the unit fails.        *)
FailUnit ==
  /\ Goto("registering", "idle")
  /\ UNCHANGED <<slabVars, jit_code, func_list, is_jit_dirty, buildVars, cursor>>

(* rt_jit_slab_acquire                                                     *)
Acquire ==
  LET full == slab_current # 0 => slabs[slab_current].current >= SlabSize IN
  /\ phase = "acquire"
  /\ \/ /\ full
        /\ slabs' = Append(slabs, NewSlab)
        /\ slab_current' = Len(slabs')
        /\ phase' = "emit"
        /\ code' = 0
     \/ /\ full
        /\ phase' = "failed_build"
        /\ UNCHANGED <<slabVars, code>>
     \/ /\ ~full
        /\ phase' = "emit"
        /\ code' = slabs[slab_current].current
        /\ UNCHANGED slabVars
  /\ UNCHANGED <<jit_code, func_list, is_jit_dirty, building, attempt, cursor>>

Generated == code - slabs[slab_current].current

Emit ==
  /\ phase = "emit"
  /\ Generated < CodeLength[building]
  /\ code < SlabSize
  /\ slabs' = [slabs EXCEPT ![slab_current].cells[code] = building]
  /\ code' = code + 1
  /\ UNCHANGED <<slab_current, jit_code, func_list, is_jit_dirty, phase,
                 building, attempt, cursor>>

(* rt_jit_slab_abandon                                                     *)
Abandoned == 0

(* The code reaches the end of the slab.  (The other reason to try again,  *)
(* a slab smaller than CodeSize, does not occur: only rt_jit_slab_reserve  *)
(* makes one, and nothing calls it.)                                       *)
Overflow ==
  /\ phase = "emit"
  /\ Generated < CodeLength[building]
  /\ code >= SlabSize
  /\ IF attempt = 0 /\ slabs[slab_current].current # 0
     THEN /\ slab_current' = Abandoned
          /\ attempt' = 1
          /\ phase' = "acquire"
     ELSE /\ phase' = "failed_build"
          /\ UNCHANGED <<slab_current, attempt>>
  /\ UNCHANGED <<slabs, jit_code, func_list, is_jit_dirty, building, code, cursor>>

(* A table cannot be allocated, a bytecode is not supported or a branch    *)
(* cannot be patched.                                                      *)
FailBuild ==
  /\ Goto("emit", "failed_build")
  /\ UNCHANGED <<slabVars, jit_code, func_list, is_jit_dirty, buildVars, cursor>>

(* rt_jit_slab_finish                                                      *)
Finish(s) == [s EXCEPT !.current = code]

(* The function is linked into func_list, whatever jit_build returned.     *)
Link(f) ==
  /\ func_list' = func_list \cup {f}
  /\ building' = None
  /\ phase' = "registering"

BuildSucceeds ==
  /\ phase = "emit"
  /\ Generated = CodeLength[building]
  /\ slabs' = [slabs EXCEPT ![slab_current] = Finish(slabs[slab_current])]
  /\ jit_code' = [jit_code EXCEPT
                    ![building] = [slab |-> slab_current, at |-> slabs[slab_current].current]]
  /\ is_jit_dirty' = TRUE
  /\ Link(building)
  /\ UNCHANGED <<slab_current, code, attempt, cursor>>

BuildFails ==
  /\ phase = "failed_build"
  /\ Link(building)
  /\ jit_code' = [jit_code EXCEPT ![building] = None]
  /\ UNCHANGED <<slabVars, is_jit_dirty, code, attempt, cursor>>

-----------------------------------------------------------------------------
(* rt_commit_jit.                                                          *)

Commit ==
  /\ phase = "registering"
  /\ IF is_jit_dirty
     THEN phase' = "commit" /\ cursor' = 1
     ELSE phase' = "idle" /\ UNCHANGED cursor
  /\ UNCHANGED <<slabVars, jit_code, func_list, is_jit_dirty, buildVars>>

(* Variant: the rest of the last page is left for the next function.       *)
CommitSlabUnaligned(s) ==
  [s EXCEPT !.exec = @ \cup {Page(i) : i \in s.committed .. s.current - 1},
            !.committed = s.current]

(* The pages from committed on become executable and read-only, and the    *)
(* rest of the last one is given up.                                       *)
CommitSlab(s) ==
  LET end == AlignUp(s.current) IN
  [s EXCEPT !.exec = @ \cup {Page(i) : i \in s.committed .. end - 1},
            !.committed = end,
            !.current = end]

(* Variant: only the slab in use is looked at.                             *)
NeedsCommitCurrent(i) == i = slab_current /\ slabs[i].committed < slabs[i].current

NeedsCommit(i) == slabs[i].committed < slabs[i].current

CommitNext ==
  /\ phase = "commit"
  /\ cursor <= Len(slabs)
  /\ slabs' = IF NeedsCommit(cursor)
              THEN [slabs EXCEPT ![cursor] = CommitSlab(slabs[cursor])]
              ELSE slabs
  /\ cursor' = cursor + 1
  /\ UNCHANGED <<slab_current, jit_code, func_list, is_jit_dirty, phase, buildVars>>

(* The unit is published and its initializers run.                         *)
CommitDone ==
  /\ Goto("commit", "idle")
  /\ cursor > Len(slabs)
  /\ is_jit_dirty' = FALSE
  /\ UNCHANGED <<slabVars, jit_code, func_list, buildVars, cursor>>

(* Variant: only the entries of the slab that failed are dropped.          *)
InvalidateSlab(f) == jit_code[f] # None /\ jit_code[f].slab = cursor

(* rt_invalidate_jit_entries                                               *)
Invalidates(f) == f \in func_list

(* Protection fails: rt_invalidate_jit_entries, then jit_free.             *)
CommitFails ==
  /\ Goto("commit", "idle")
  /\ cursor <= Len(slabs)
  /\ NeedsCommit(cursor)
  /\ jit_code' = [f \in Funcs |-> IF Invalidates(f) THEN None ELSE jit_code[f]]
  /\ slabs' = <<>>
  /\ slab_current' = 0
  /\ is_jit_dirty' = FALSE
  /\ UNCHANGED <<func_list, buildVars, cursor>>

Next ==
  \/ BeginUnit \/ RegisterLir \/ FailUnit
  \/ Acquire \/ Emit \/ Overflow \/ FailBuild \/ BuildSucceeds \/ BuildFails
  \/ Commit \/ CommitNext \/ CommitDone \/ CommitFails

Spec == Init /\ [][Next]_vars

-----------------------------------------------------------------------------
(* Properties.                                                             *)

(* Every variable has its type.                                            *)
TypeOK ==
  /\ slabs \in Seq([current : 0 .. SlabSize, committed : 0 .. SlabSize,
                    cells : [Cells -> Funcs \cup {None}],
                    exec : SUBSET {Page(i) : i \in Cells}])
  /\ slab_current \in 0 .. Len(slabs)
  /\ jit_code \in [Funcs -> [slab : Nat, at : Cells] \cup {None}]
  /\ func_list \subseteq Funcs
  /\ is_jit_dirty \in BOOLEAN
  /\ phase \in Phases
  /\ building \in Funcs \cup {None}
  /\ code \in 0 .. SlabSize
  /\ attempt \in {0, 1}
  /\ cursor \in Nat

CodeOf(f) == {jit_code[f].at + k : k \in 0 .. CodeLength[f] - 1}

(* Wherever jit_code points, the whole code of that function is there, in  *)
(* a mapped slab: no later function, no attempt that was given up and no   *)
(* failed commit takes its place.                                          *)
EntriesAreWhole ==
  \A f \in Funcs : jit_code[f] # None =>
    /\ jit_code[f].slab \in DOMAIN slabs
    /\ \A i \in CodeOf(f) : i \in Cells /\ slabs[jit_code[f].slab].cells[i] = f

(* While nothing awaits a commit, all native code can be executed, the     *)
(* code that an earlier unit which failed midway left in a slab that was   *)
(* abandoned since included.                                               *)
SettledCodeIsExecutable ==
  ~is_jit_dirty =>
    \A f \in Funcs : jit_code[f] # None =>
      \A i \in CodeOf(f) : Page(i) \in slabs[jit_code[f].slab].exec

(* "Published pages are never made writable again" (runtime.h:457), and    *)
(* none is written: the next function starts on a page of its own.         *)
ExecutablePagesAreFinal ==
  [][\A s \in DOMAIN slabs \cap DOMAIN slabs' : slabs' # <<>> =>
       \A i \in Cells : Page(i) \in slabs[s].exec =>
         /\ Page(i) \in slabs'[s].exec
         /\ slabs'[s].cells[i] = slabs[s].cells[i]]_vars

=============================================================================
