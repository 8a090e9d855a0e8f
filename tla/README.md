# TLA+ models of the Noct virtual machine

Noct is a scripting language with a bytecode interpreter, JIT back ends, a
generational copying collector and native threads that share one heap.  This
directory holds a formal model of the parts of the virtual machine in which
several threads, or a thread and the collector, meet: TLA+ modules written from
the C code under `src/`, TLC configurations that check them on small instances,
and proofs that TLAPS checks for every number of threads.  Around that core it
also models how native code is published and how the accelerator is shared.

Paths below are relative to the root of the repository (`src/core/...`,
`docs/...`); `objectmodel-mt.c`, `gc.c`, `runtime.c` are in `src/core`, and
`api-thread.c` is in `src/api`; `accel_*.c` are in `src/accel`.

## The system

| Component | State it keeps | Operations | Modelled in |
|---|---|---|---|
| Stop-the-world safepoints (`objectmodel-mt.c` 831-1200, 1561-1600, 3784-3940) | `in_flight_counter`, `stw_request_counter`, `stw_executor_lock`, `gc_in_progress_counter`, `gc_level`, and three flags in each environment | attach, detach, enter and leave blocking, poll, park, raise, promote to executor, collect, publish a shared object, demote | `StopTheWorld`, `Safepoint`, `SafepointProofs` |
| Shared arrays (`objectmodel-mt.c` 1400-1700, 1860-2000, 2240-2490) | generations linked by `newer`: table, size, capacity, `shared_flag`, creator, `write_lock`, SeqLock counter | read, write, expand, promote to shared | `SharedArray`, `SharedArrayProofs` |
| Shared dictionaries (`objectmodel-mt.c` 2000-2180, 2565-3560, 3984-4030) | the same, plus an open addressing table with tombstones, `is_frozen`, the native control block of a handle | look up, write, erase, expand and rehash, promote, freeze, use as a handle | `SharedDict`, `SharedDictProofs` |
| Thread library (`api-thread.c`) | the control block of a handle (platform thread, `joined`), the keys `result` and `error`, the mutex and the value of a synchronized handle | `createThread`, the child's `thread_entry`, `joinThread`, finalizer; `updateShared`, `snapshotShared`, `withLock` | `ThreadApi`, `SyncHandle`, `ThreadApiProofs` |
| Environment pool (`runtime.c` 213-331) | `env_list`, `env_free_list` | create, attach, release, detach | `ThreadApi`, `Safepoint` |
| Garbage collector (`gc.c`) | nursery, two graduate halves, tenured blocks, remember set, marks, forwarding pointers, worklist | allocate, young, old and compacting collection, write barrier | `ManagedHeap`, `Reachability`, `Collector`, `CollectorProofs` |
| Single-threaded object model (`objectmodel-st.c`) | arrays and dictionaries with `newer` links | read, write, expand | the program's steps in `Collector` |
| Tenure allocator (`gc.c` 3183-3331) | blocks, free blocks by size class, frontier | allocate, free | planned; `Collector` has places of one size |
| Global variables (`runtime.c` 2040-2370, `intrinsics.c` 2205-2240) | an open addressing table that only grows, and a counter used as a spin lock | set, get, check, mark constant, expand | `GlobalMap`, `GlobalTable`, `GlobalMarkConst`, `GlobalTableProofs` |
| JIT code publication (`runtime.c` 340-620, 2600-2825, `jit.c` 1430-1730) | the list of code slabs, what is committed of each, the entry point of every function, `is_jit_dirty` | register a unit, generate, retry in a new slab, fall back, commit, drop all code | `JitCode`, `JitCodeProofs` |
| Accelerator sessions (`accel_context.c`, `accel_runtime.c`, `accel_callback.c`, `accel.c`) | the context: references, accepted operations, live sessions, published programs; the state, execution and program of each session | create, attach, claim, begin, dispatch, finish, fail, finalize, optimize, detach, destroy | `AccelContext`, `AccelRuntime`, `AccelRuntimeProofs` |
| Module loader, intrinsics | search order, in-progress marks | import; push, pop | not modelled |
| Front end, interpreter, JIT code generators, accelerator compiler and back ends, file, regex, process, HTTP and console libraries, command line | no state that two actors share | | not modelled |

The parts that are not modelled are sequential translations (of text, of trees,
of instructions), generated code, or calls of an operating system or graphics
library.  Their correctness is a relation between an input and an output, which
the repository's tests exercise, and there is no interleaving to explore.

### How the parts interact

* Every access to a shared object begins at a safepoint and must end before the
  next one.  The collector, and the promotion of an object to shared, run in a
  *stop-the-world section*, when nobody is between two safepoints.
* An array or a dictionary belongs to its creator, who reads and writes it
  without a lock, until another thread touches it.  That thread promotes it to
  shared in a section.  From then on writers take a per-object lock, readers
  use a SeqLock, and expansion publishes a copy through the link `newer`.
* An allocation anywhere may start a collection and move every object; a
  pointer taken before it is stale.
* A blocking call (join, mutex, sleep) takes its thread out of the count of
  running threads and must not touch the heap until it is back.
* Collections follow one another in one allocation: an old collection and a
  compaction come before a young one that the tenured region could not absorb,
  and after a failed attempt to allocate.
* Registering a unit publishes each function as a global and then generates its
  native code; the code can be executed once the whole unit is committed.
* The globals are one table for all threads.  Its spin lock is held for short
  sections that neither block nor collect.
* A thread that works on the accelerator claims the context, so that destruction
  waits for it, and leaves the heap around the backend's calls; in between it
  allocates managed objects.  Sessions are native pointers of dictionaries, so
  that any collection may finalize one, and main destroys the context while
  other threads still run.
* A thread's environment is a root of the collector from the moment its creator
  has linked it; it is recycled when the thread ends.

### What is hard about it

Interleavings of lock-free accesses; the same counter touched by threads in four
roles; a value read before an allocation and used after it; every retry,
superseded-generation and out-of-memory exit of a function that holds a lock;
weak memory ordering; and two-step publication of compound state (key and value,
table and size, new generation and control block); destruction that waits for users
which may themselves wait for the world to stop.  `hazards` in `PROJECT.json`
lists these at their lines, with the properties that would catch each of them
going wrong, or the reason why none does yet.

## The modules

Variables and actions have the names of the C fields and functions where TLA+
allows it.  `map` in `PROJECT.json` gives the lines of every definition.  An
operator marked *Variant* is never part of a specification: it is the definition
after it with a plausible mistake, with which TLC shows that the property it
is paired with can fail.

### StopTheWorld: what safepoints promise

`mode[t]` is `out`, `running` or `exclusive`.  A thread becomes exclusive only
when all others are out, and nobody resumes while someone is exclusive.  The
module is the specification `Safepoint` implements, and the interface on which
the other modules are built: they INSTANCE it and use its `Resume`, `Yield` and
`WorldStoppedFor`.

### Safepoint: the counters

One action per atomic operation.  `pc` names the control points of
`synchronize_safepoints`, `promote_to_stw_executor`, `om_enter_gc`,
`promote_array_to_shared` / `promote_dict_to_shared` and
`demote_from_stw_executor`; a spin loop is an action that is enabled when the
loop's condition lets the thread out.  `Threads` are environments: a detached
one is parked or in the free list.  `caller` says which of the two functions
promoted the thread, since `om_enter_gc` waits twice before its section and a
promotion waits once before and once after.  Nested collections
(`EnterNestedGC`) only raise the level, which bounds their depth by the number of
levels.  Abstracted: the backoff inside spin loops, the assertions, what a
collection does.

### SharedArray

`gen[g]` is the generation stored at place `g` of the heap, `ref` the one that
references point to.  `Gens` is deliberately small, so that storage a collection
reclaims is reused at once and a stale pointer shows.  `Chain`, what
`follow_array_pointer` can come across, is the least set that contains `ref` and is
closed under links, and `Newest` is its member without a link.  A read is four steps
(SeqLock, two words, SeqLock), a write stores its two words separately, and
`check_newer`, `alloc`, `publish`, `unlock_old` are the steps of `expand_array`.
A stop-the-world section is one step: by the refinement of `Safepoint` nobody runs
during it.  `history` is a ghost, the order in which writes took effect.

A collection leaves the newest generation where it is or slides it as it is (the old
collection and the compaction), or it copies it to another region: `Moved` is what
`rt_gc_promote_array` and `rt_gc_copy_array_to_graduate` make, an array with room for
`size` elements, into which only these are copied; the spare capacity, and whatever
`size` does not cover, is lost.  Hence a write can be lost to a collection: when `size`
lags behind, or when an expansion that was stopped in its allocation goes on with an
array smaller than the one it measured.  `new_size[t]` is the capacity that
`om_write_array` computed before it took the lock, and `NoLostUpdate` also asks that
every index written stays in range.

### SharedDict

The same protocol on a hash table.  A slot's key has two words (type and
string), loaded in two steps; the value, which `SharedArray` shows to be read
atomically, is one.  `Stops`, `Targets` and `Vacancies` are the probing sequences of a lookup, a
store and the rehash, as set comprehensions; `Rehash` copies slot by slot, as a
recursive function, and drops an entry that finds no vacancy, as the code would.  `entries` is a ghost, the mapping the
dictionary stands for.  The dictionary is also a handle: `native` says which
generation holds the control block, and `ReadNative` is a native function that
looks for it.

### ThreadApi, SyncHandle

`ThreadApi` follows handles: `refs[c]` is the set of threads whose frame, or
environment, refers to the handle of child `c`; a collection may finalize any
handle that nobody refers to.  Creation is one step, because nothing between the
making of the handle and the return can collect; the child's life is
`start`, `run`, `publish`, `detach`, `push_env`, `done`.  The outcome may fail to be
stored for lack of memory (`PublishFails`), which the child ignores and a join answers
with the zeroed value; a join may itself run out of memory after the flag is set
(`ReadFails`).  Two threads may be in `joinThread` with one handle: `raced` is a ghost,
the handles for which that has happened, and the platform may then let both joins
succeed, or refuse one at any time (`JoinRejected`); a platform that crashes, or joins a
later thread that got the same identity, is beyond the model.

`SyncHandle` is a value of two fields under a mutex, replaced by `updateShared`,
modified in place by a callback of `withLock` and copied field by field by
`snapshotShared`, with collections anywhere.  Every call may fail wherever it owns the mutex
(`Fail`), a callback between its two writes too, in which case the first one stays.  The ghost
`expected` is the value that the calls leave when they are run one after another, failed
ones included.  Counters (one atomic instruction each) and sleep are left out.

### ManagedHeap, Collector

`ManagedHeap` is what a program may assume: variables, the elements of the objects
they lead to, and finalizers that run only for handles nobody can reach.  It has
no places, no generations and no collections.  `Collector` is `gc.c`: `heap[p]` is the
object at a place of the nursery, of one of the two graduate halves or of the
tenured region, with its mark, its forwarding pointer, its promotion count, its link
`newer` and its native resource.

The young collection goes slot by slot, as its explicit worklist does: `VisitMarked`,
`VisitTenured` and `Evacuate` are the ways through one iteration of
`rt_gc_copy_young_object`, and `Evacuate` includes the choice of a region with all its
fallbacks.  `StartRemembered` is the scan of the remember set; `FinishYoung` updates
its members, prunes it, finalizes, empties the regions and swaps the halves.  The
order of the pending root slots is part of `work`.  Nobody runs during a
collection (`Safepoint`), and the old collection and the compaction neither copy
into a limited region nor allocate objects, so each is one step, its traversal a
closure (`Reachability`).  `agenda` holds the collections that the caller has still to
start.  The program is `Mutator`: it drops a variable, makes a small or a large
object, loads, stores with the write barrier, and expands.

The refinement maps a place to the name of the object in its newest generation;
the name is a ghost that every copy keeps.  Objects fill one place each, so
fragmentation is left out, as are failures to allocate the collector's own
tables.

### GlobalMap, GlobalTable, GlobalMarkConst

`GlobalMap` is what callers may assume: each call of `rt_set_global`,
`rt_get_global`, `rt_check_global` and `rt_mark_global_const` takes effect at
once, somewhere between its beginning and its end, on one map.  `GlobalTable` has
the counter, whose increments and decrements are actions of their own, and the
table: `Stops(tbl, n)` is where the code's probe for `n` may end, the home slot being the
hash modulo the size.  A set is two steps, since the expansion and the search
after it read the table's pointer anew; failure to expand (`SetFails`) leaves the
table as it was.  Which names are constants and what they may be set to is in
`Lets` and `Values`.  `GlobalMarkConst` adds the native function behind a
top-level `let`, which does not take the lock: one step per slot it looks at,
and one for the flag it writes.

### JitCode

A slab is a sequence of cells; `cells[i]` names the function that the code at
cell `i` belongs to and `exec` is the set of pages that are executable, hence
read-only.  `phase` follows one registration: `registering` (between two functions),
`acquire`, `emit`, `failed_build`, `commit`.  `Emit` writes one cell, so that a
generation given up half way leaves its cells behind, as it does in the code.
`Overflow` is the retry in a new slab, at most once and only if the slab had other code
in it (the code also retries when the slab is smaller than usual, but the one function that
makes such slabs, `rt_jit_slab_reserve`, has no caller); every other failure makes the function one for the interpreter.
`CommitNext` protects one slab and `CommitFails` may come in front of any: the slabs
before it are executable already when all code is dropped.  A unit that fails
half way (`FailUnit`) commits nothing; what it compiled waits for the next unit.
Instructions are cells of one size and the generators of the five architectures
are alike in what they ask of a slab (the lines are those of x86-64).  One
environment registers at a time, because the front end and the code generators
have static state.  Calls, and the destruction of the machine, are left out.

### AccelContext, AccelRuntime

`AccelContext` has the context's fields and, for each function of
`accel_context.c`, what it does while it holds `state_mutex`, as an operator.
`AccelRuntime` has the threads: `pc[t]` names the place between two critical sections
or backend calls, and the `Terminal` states, `creating`, `recording`, `dispatching`, `submitting` and
`copy_ready` are those of `struct accel_runtime_session`.  A thread in the set
`InFlight` counts as running for `StopTheWorld`, one in `Blocking` has left the heap by
`noct_enter_blocking`; `GCPoints` are the places where it allocates managed objects.
A collection, and the final destruction of the heap, finalize any installed
session that no thread works on, one step per critical section of the finalizer.
Main is the command line tool's: it creates, registers, attaches, runs the
program, detaches, destroys the context and then the virtual machine.  The
backend is external: a call succeeds or fails, an execution exists from its
creation to its destruction.  Kernels are dispatched in order; arguments,
residency of arrays on the device, device limits and the contents of results
are left out.  The virtual machine is destroyed when no other environment is in
use (`BeginTeardown`), which the code requires of its caller.

### Memory order

The models are sequentially consistent.  On x86 every atomic read-modify-write
of this code is a full barrier, and plain stores are seen in their order, so that
nothing is lost.  On AArch64 and PowerPC two places depend on more than the
code asks for: `raise_stw_request` (`objectmodel-mt.c:861`) increments with acquire
ordering, where the argument in the comment at line 966 needs the increment to be
visible before `in_flight_counter` is loaded; and the writer of a SeqLock (1305)
makes the counter odd with a release operation followed by plain stores, which may
become visible before it.  No run covers them.

## The runs

| Run | Instance | What it shows |
|---|---|---|
| `safepoint` | 3 threads, fair; 18 thousand states | the counters count, sections exclude everybody, allocators see no collection, a thread resumes after every request, every request is served, nobody stays parked unless sections go on for ever, and the refinement of `StopTheWorld` |
| `shared_array` | 2 writers, one the creator, and a reader; 3 places, 2 writes; 717 thousand states | no lost update, also by copies of `size` elements, no torn or stale read, no access to reclaimed storage, the fast path only for the owner, no size without its elements |
| `shared_dict` | owner, writer and eraser, reader; 3 keys of which 2 collide; 442 thousand states | no entry lost, lookups right, locks balanced on every exit, freezes kept, one holder of the control block |
| `shared_dict_erase` | the same; violation | a visible key without its value |
| `thread_api` | 3 threads, 2 environments, 2 joiners of one handle; 253 thousand states | platform threads released once, handles outlive their users, outcomes delivered or, if not stored, zero, environments used by one thread |
| `sync_handle` | 3 threads, 4 writing calls, fair; 71 thousand states | every snapshot is a value between two calls, updates and callbacks are serial even if they fail half-way, no collection stalled |
| `collector` | 2 variables, 3 objects (a container, a leaf, a handle), two heap sizes; 801 thousand states | the refinement of `ManagedHeap`, one copy of each object, a sound remember set, one owner of each native resource, traversals that end |
| `accel_runtime` | main and 2 threads, 2 sessions, 1 program of 2 kernels, 2 program ids; 738 thousand states | every execution destroyed once, the backend after everything that uses it, the shell with its last reference, a claim kept across the backend's calls |
| `accel_drain` | main and 1 thread, 1 session, fair; violation | destruction and a collection wait for each other |
| `global_table` | 2 threads, 4 names, a table that grows from 2 slots to 8; 765 thousand states | one owner of the lock, probe sequences without gaps, and the refinement of `GlobalMap` |
| `global_mark_const` | 2 threads, 3 names; violation | a name that was marked constant and is not |
| `jit_code` | 5 functions of 1 to 5 cells, slabs of 2 pages of 2 cells; 280 thousand states | an entry leads to the whole code of its function, settled code is executable, executable pages never change |

Where a module defines `TypeOK`, it says what the variables stand for.  It is
part of `IInv` in `Safepoint`, which is checked and proved, and checked in
`AccelRuntime`, where the range of `next_program_id` is a promise of the code.  The
other runs spend their time on properties that say more; there `TypeOK` is proved.

### Bounds, and why they are enough

* **Threads.** Three in `safepoint`: an executor, a competitor and a thread that
  parks or returns from a blocking call.  Three elsewhere: the owner, a
  thread that makes the object shared, and a reader or a second competitor.  Each
  shared object has one lock, so a third writer repeats what the second does.
  The proofs remove this bound, and those on places, calls, code and sessions, for the
  properties they are about (see below).
* **Places.** Three generations: an expansion of an expansion, or an expansion
  while a superseded generation is still held, with storage reused after it.
* **Capacity.** `StartSize` is 2 or 4 where the code starts with 16; the rules
  (doubling, three quarters full) are those of the code.  The dictionary starts
  one insertion short of its expansion, with two keys in one probe sequence.
* **Calls.** Two writes to the array are enough to expand twice and to race with
  an expansion; four operations on the dictionary include two that are preloaded.
* **Control blocks.** One handle, since handles share nothing.
* **Heap.** Three allocations.  In the first size, a nursery of 2 places with halves
  of 1 and a tenured region of 2: the half fills up, promotions fail and are undone
  by demotion, old collections and compactions that move something precede young
  ones.  In the second, 1, 1 and 3: the tenured region can absorb a young collection
  while it holds an object, so superseded generations get into the remember set and
  members of it lead to objects younger than themselves.  `PromotionThreshold` is 1
  where the code has 2, which saves one collection per promotion.  Three live objects
  fit into either heap whatever the collector does, and that no state is a deadlock
  shows that a traversal always finds a place.

* **Globals.** Two names that collide in every table, one that collides with them only
  in a table of four slots, and one whose probe wraps around: growing takes
  entries apart and puts others together.  A third thread would only add
  to those that back off.
* **Code.** A function of one cell shares a page with what follows, one of three
  leaves a cell of a slab unused, one of five fits nowhere.  Five
  functions fill two slabs and reach a third, with every division into units.
* **Accelerator.** Two sessions in the live list and two threads besides main: one inside an
  operation while another drops its session and a third destroys.  Two ids
  for one program: a cancelled reservation uses up one.

### Fairness

`Advance(t)` is weakly fair for each thread: the operating system schedules every
thread that can run, compiled code polls at loop back edges and calls, and a
section ends.  Nothing is assumed of what the program may or may not do (`Request`,
`Choose`): a blocking call need not return, a thread need not end.  No fairness is
assumed among the threads that compete for `stw_executor_lock`; the losers get
their turn because a thread that has been served parks until all other requests
are.  `CollectionNeverStalls` holds even if the owner of the mutex never runs out of
calls, because `lock_wait` is out of the heap.  Writers of one object that meet on
its write lock retry without a queue, so nothing is claimed of their progress.
In `accel_drain` the fairness is stronger than what is refuted: threads inside
an operation go on, the backend answers, a collection that can begin begins and
ends.  Even so destruction does not end.

### Disagreements between the code and what is written about it

Shown by a run (`findings` in `PROJECT.json` quotes both sides):

1. `om_erase_dict_entry` clears the value before it hides the key, and lookups
   take no lock (`shared_dict_erase`).
2. `accel_context_destroy` waits in flight for operations that may have to collect
   (`accel_drain`).
3. `Global.markConst` scans the table of globals without taking it
   (`global_mark_const`).

Read in the code, without a run:

4. The two uses of memory order above.
5. `om_resize_array` (`objectmodel-mt.c:2464`) ignores that `expand_array` asks it to
   start again, and then stores the size into a generation that was never
   enlarged.
6. `expand_dict` (2155) clears the control block of the old generation after it has
   published the new one, so that a native function that uses the handle in
   between finds the block in neither place it looks at.
7. `joinThread` (`api-thread.c:838`) tests `joined` before it blocks and sets it
   afterwards: two joiners of one handle both reach `pthread_join`, whose result is
   ignored (849).  A creation that fails (795) leaves a handle whose finalizer detaches
   a thread that never was.  And `thread_entry` ignores that the outcome could not be
   stored (633, 640): `joinThread` then returns zero and reports success, where
   `docs/library.md:211` promises the function's value or its error.
8. `rt_gc_young_gc_body` (`gc.c:1406`) resets the list of evacuated objects before it
   clears their marks when a collection was aborted; and a handle that dies in a
   graduate half is swapped away without its finalizer (1417).
9. A unit that fails after some of its functions were compiled
   (`runtime.c:490`) leaves entry points into pages that only the next commit makes
   executable, while the functions are globals already.  Likewise, another thread may
   call a function of a unit that is still being registered.  And a commit that
   fails frees every slab, the one of a caller that registers a nested unit
   (`api-system.c:472`) included.
10. `om_freeze_dict` (3984) does not promote.  Another thread that freezes a dictionary
   which its creator has not shared yet stores `is_frozen` into a generation that
   the creator may be replacing; if the flag was copied before (2132), the freeze is lost.
11. `withLock` gives up the mutex after either outcome of the callback
   (`api-thread.c:1308`) and undoes nothing: what a callback wrote before it failed is
   what the next call finds, and what `snapshotShared` copies, whereas
   `docs/library.md:234` says that a reader never observes a half-written update.

The passing runs are stated around these: `ReadReturnsCurrent` of the dictionary
exempts lookups during which their own key is erased, `accel_runtime` does not ask
that destruction ends, marking a constant is `rt_mark_global_const` in
`GlobalTable`, only the creator freezes in `MCSharedDict` (and in the hypothesis of
`FreezesStay`), `SharedArray` has no resize, a use of a handle that finds no
block is an ordinary step of `SharedDict`, `ThreadIsReleasedOnce` and
`JoinDeliversOutcome` exempt a handle that two threads joined at the same time, and the
first of them one whose thread was never created, an outcome that was not stored is
delivered as zero in `JoinDeliversOutcome`, a callback's half-written value is an
`expected` one in `SyncHandle`, in `Collector` the worklist always grows,
and `SettledCodeIsExecutable` is stated for the times when no commit is pending.

The run `collector` also says what is *not* needed.  A young collection descends into
every tenured object it reaches from a root, so a live object keeps its young
elements alive with or without the write barrier: a variant without any
barrier violates no property.  The remember set adds only members that nobody can
reach, which is why `RememberedAreSound` is stated for them.

## What is proved

`SafepointProofs.tla`, for every finite set of threads (`ThreadsAssumption`, the
only assumption):

| Theorem | States |
|---|---|
| `Invariance` | `Spec => []IInv` |
| `TypeCorrect`, `CountersCorrect` | the counters are natural numbers and count what their comments say |
| `WorldIsStopped` | a section excludes every running thread and every other section |
| `NoGCSeenByMutators` | a running thread reads 0 from `gc_in_progress_counter` |
| `ResumeAfterRequests` | a thread gets back to the heap only when no request is pending |
| `Refinement` | `Safepoint` implements `StopTheWorld` |

`SectionExcludesMutators` is not inductive.  That the executor's loop ends when
`in_flight_counter` is 0 says something about threads only if the counter is the
number of threads that are in flight, which needs `CountersMatchThreads` and, to
tell who these threads are, `FlagsFollowPc`.  And a thread that is *entering* must not
get past `CheckRequests` while a section is under way: it reads
`stw_request_counter`, which is positive because the executor's own request is
counted until after the section.  Two sections exclude each other through
`stw_executor_lock`, which counts its holder and those that have not backed off
yet, hence `OneHolder` and the set `Contenders`.  `CollectionHasExecutor` connects the
collection counter to the section.  `IInv` is the conjunction; TLC checks it as an
invariant of `safepoint`.  The proof has one step per action, and in each a step for
the cardinalities, by the lemmas on adding and removing one element of a finite
set, and a step for the facts about control points.

`GlobalTableProofs.tla`, for every finite set of threads and names, every hash
function and every size to start with (`GlobalTableAssumption`, which also keeps
`Undefined` and the marker "pending" out of the values):

| Theorem | States |
|---|---|
| `LockIsExclusive` | `OneHolder` |
| `Invariance`, `TypeCorrect` | `Spec => []TableInv`, and `TypeOK` |
| `ProbesStayUnbroken` | `ProbesAreUnbroken` |
| `Refinement` | `GlobalTable` implements `GlobalMap` |

The counter of `ACQUIRE_GLOBAL` is the number of threads that own the table, at most
one, plus those that found it taken and have not taken their increment back yet.  With
the control points' types this is inductive (`LockInv`): a thread that reads 0 knows
that both sets are empty, and one that leaves subtracts its own unit whatever the
others added meanwhile.

`ProbesAreUnbroken` is not inductive: that a name is found says nothing of the slots
in front of it.  `TableIsGood` does: each entry is at a slot that its probe reaches,
and no slot in front of it is a gap or has the same name.  Storing into a gap keeps this,
because a gap is in front of no entry (`InsertionKeepsTable`).  `RoomIsLeft` is the
arithmetic: the names are at most three quarters of the slots, and fewer when a thread
is about to insert, hence fewer than the slots less one; a search tries that
many slots, all different (`ProbesDiffer`), and by the pigeonhole principle meets a gap.  Growth keeps the set of
entries (`RehashKeepsTable`); since a function with the equations of the recursive one
in `Rehash` exists (`IterationExists`), its results can be followed step by step.  For the refinement,
`View(global)` is the map: a table with the same entries has the same view, and a store
changes it at one name; `CallsMatch` relates calls and answers to control points.

`SharedArrayProofs.tla`, for any threads, places, indices, capacities and number of
writes (`ArrayAssumption`: the sets of threads and places are finite, an array starts with
at least two elements):

| Theorem | States |
|---|---|
| `Invariance`, `TypeCorrect` | `Spec => []IInv`, and types: no lock count drops below zero, no pointer leaves the heap |
| `FastPathIsSafe` | `FastPathIsExclusive` |
| `PointersStayLive` | `NoFreedAccess` |
| `WritesAreScanned` | `SizeCoversWrites` |
| `UpdatesAreKept` | `NoLostUpdate` |
| `ReadsAreCurrent` | `ReadReturnsCurrent` |

None of the five properties is inductive.  `ChainIsWhole` says that every generation a
thread can find lies on the chain from `ref`, and that exactly one of them ends it; an
unpublished copy is found by nobody.  `ThreadsAreInOrder` says, of each control point,
what its pointers lead to, what operation is under way, and that only the
creator is between two safepoints with an array that is not shared.  `LocksAreHeld` is
about lock counts: `Owns(t, g)` is at most one thread, which may sit in the
allocator with the world stopped and its generation moved, and then owns whatever
is newest; those that back off are counted with it.  Exclusive ownership gives
`SeqLocksMatch` (odd means that a writer is inside) and `ElementsAreWhole` (only its
element may be torn), and these give `ReadersSeeWrites`: a reader whose counter
has not changed holds both words of one write, and what is in the generation it
reads, superseded or not, was current at some moment since its read began.
`ValuesAreStored` and `SizesCover` connect the newest generation with `history`.
A collection copies `size` elements, and keeps every write (`MoveKeepsWrites`), because
all threads are out, when no write is between its store and its element count: then
`size` covers `history`, and the capacity that remains still does.  The array that an
expansion finds after its allocation may have shrunk to fewer elements of room, but not to more
elements than the capacity asked for; that is `RequestsFit`, a second invariant beside
`IInv`, without which `Expanded` might drop elements.
Two operators are recursive in the code, the doubling of the capacity and the search of
the last write.  The first is characterised by the least number of a set, the second
by the greatest, both of which exist because `<` on natural numbers is
well-founded: `NewSizeGrows`, `LastOfAppend`.

`SharedDictProofs.tla`, for any threads, keys, hash function, places, capacities and number
of operations (`DictAssumption`: the sets of threads and places are finite, and the
preloaded keys fill at most three quarters of the first table):

| Theorem | States |
|---|---|
| `Invariance`, `TypeCorrect` | `Spec => []Protocol`, and types: `size` never drops below zero |
| `LocksCountHolders` | `LocksMatchHolders` |
| `BlockHasOneHolder` | `ControlBlockHasOneHolder` |
| `FreezesStay` | `FreezeIsKept`, if only the creator freezes what is not shared (`OwnerFreezes`) |
| `EntriesStay` | `NoEntryLost` |
| `ReadsStayCurrent` | `ReadReturnsCurrent` |

`Protocol` is the counterpart of what `SharedArrayProofs` says of chains, control
points and locks (`ChainIsWhole`, `ThreadsAreInOrder`, `LocksAreHeld`), with the handle's
control block (`BlockIsKept`): it moves with the newest generation, except between the
publication of a copy and the clearing of the old one, where its owner is not at a
safepoint.  Freezes need `FreezesAreKept` besides: the copy an expansion publishes is frozen
like its origin, because whoever else could freeze that has to own its lock.

`EntriesAreKept` is the part about tables.  `TableIsGood`: every key in the table is at a
slot that the probe for it reaches, with no empty slot before, and no key is there
twice.  `StoreIsAimed`: a writer between its search and its last store still has the slot
that the search gave it.  `CopiesAreWhole`: an unpublished copy binds its keys as its
origin does, since the lock, or sole ownership, keeps the origin as it is.  That a table
has room is arithmetic: the keys in it are at most `size`, `size` is at most three
quarters of the capacity, and so a rehash, whose loop tries
one slot less than there are, finds a vacancy for each of at most capacity - 1 entries
(`RehashKeepsEntries`, by the cardinality of the slots already taken).  `Rehash` and the
preloading in `Init` are recursive; the proofs use that a function with the equations of the iteration
exists, and run through it with the principle of the least counterexample.

`ReadsAreCurrent` is about lookups, which take no lock and probe a table that changes under
them, or was superseded when they began.  It says of a reader that has
tried n slots: what the key is bound to in the table it probes is among `seen`, the bindings
it may return; unless it may return that the key is absent, the key is still ahead
of it, at its n-th slot or later; and when it has compared a key equal, the value behind that key is
published or about to be.  It is kept by every store because a store into a table is
made by one thread at a time, into the newest generation only, so that a superseded table keeps
its bindings (the copy had them all when it was published); because an
insertion goes to the first slot the probe reaches that has no key; and because no collection
runs while a probe is under way.  An erasure of the
key itself sets `raced`, and what such a lookup returns is left open, as in the code.

`ThreadApiProofs.tla`, for any finite sets of children and environments with enough
environments to go round, and any program (`ThreadApiAssumption`):
`HandlesOutliveTheirUsers`, `JoinsDeliverOutcomes`, `EnvsHaveOneUser` and
`ThreadsAreReleasedOnce`, whatever handles two threads join at the same time (the second and
the last except those handles themselves, disagreement 7 above).  The invariant follows a
handle from its creation on: the environment of the child refers to it before the child exists, a joiner's
frame refers to it during the whole call, and a handle that is not live has no
references; so that a collection, which takes any subset of the garbage, takes none
in use.  The outcome is in the handle, unless it could not be stored, before the platform thread exits,
hence before a join ends that is alone.  `ReleasesAreCounted` adds that a platform thread was
released as often as it was joined or finalized unjoined, and `JoinComesFirst` that only a
thread that joins alone finds the flag still clear when it is back.

Its second part is about `SyncHandle`, instantiated with constants and variables of its
own (`Sync!Spec`), for every set of threads and any number of calls, without any
assumption: `SnapshotsAreWhole` states `SnapshotIsWhole`, `NoUpdateIsLost` states
`NoLockedUpdateLost`.  The mutex has one owner (`MutexIsExclusive`), also while that
owner is stopped by a collection; what it has copied is still the value (`CopyIsCurrent`),
and the value is what the ended calls left except between the two writes of a callback
(`ValueIsExpected`), which a failure there turns into the first write alone (`FailKeeps`).

`CollectorProofs.tla`, for any finite sets of roots, slots, objects and configurations
(`CollectorAssumption`: a virtual machine's memory is finite) and any promotion threshold.
`NullAssumption` says that `Null` is the name of nothing else.  `MaxAllocations` only bounds
runs: it is any natural number.

| Theorem | States |
|---|---|
| `Invariance`, `TypeCorrect` | `Spec => []IInv`; `TypeOK`: each of the collector's lists is exactly what it lists |
| `CopiesAreSingle` | `OneLiveCopy` |
| `RememberedStaySound` | `RememberedAreSound` |
| `HandlesKeepResources` | `HandleKeepsItsResource` |
| `TraversalsEnd` | `TraversalEnds` |
| `Refinement` | `Collector` implements `ManagedHeap` |

None of these properties is inductive, and the invariant is not about reachability alone.
A collection also comes to what is *not* reachable: to superseded generations, whose
`newer` it follows, and to whatever the remember set holds, dead or not.  So `Sound`
says that there is a set G of objects, none of them superseded, that holds everything the
roots and the remember set lead to, that no reference leaves, and that holds all a
collection in progress has marked; it is `Sound`, and not that live objects are safe, that
every step keeps.  `Ranked` says that chains of generations are not cyclic, so that each has an end
(`Newest`); it is what an expansion, a collection and the reuse of a place must not break.
While a young collection runs, three more parts hold.  `Forwarding`: an
object was evacuated exactly if it is marked and in a region that will be emptied, and
its elements and those of its copy lead to the same places.  `TriColor`: each slot of
a visited object, each root and each member of the remember set either refers to a
visited object or is on the worklist.  `WorkIsGood`: the worklist has nothing else.  When
the worklist is empty, `TriColor` therefore leaves nothing to visit, and the regions can be
emptied.  `AgendaIsClean` carries over from an old collection to the compaction after it that no
superseded object is left in the tenured region, on which the compaction relies.

The *home* of a reachable object is the place of its newest generation, or of that one's
copy.  `Names` says that no two homes hold one object and that the home of a handle has its
native resource.  What the program sees (`LiveElements`) depends on nothing but the homes, and the
homes are the least set closed under the references in them (`HomesAreLeast`), so that a step
of a collection, which renames homes one to one, is a stutter of `ManagedHeap`
(`UnseenSteps`), except that `FinishYoung` and the old collection may be its `Finalize`: the
resources that go are those of objects without a home.  For a
step of the program the proof gives a set that contains the homes after it, and which is
found to be what `ManagedHeap` makes live.  There is one lemma per
action, which shows that it keeps `IInv` and is a step or a stutter of the abstract specification.

`ReachableFrom` and `Newest` are recursive functions.  The proofs build the function with
each one's equations step by step and run through it with the principle of the least
counterexample: `ReachableIsLeast`, for every finite graph, and `NewestFacts`, for every
heap that is `Ranked`.

`JitCodeProofs.tla`, for any functions, code lengths, page and slab sizes and any number
of slabs (`JitCodeAssumption`): `EntriesStayWhole`, `SettledCodeCanRun`, and the action property
`ExecutablePagesStay`.  A slab consists of committed pages, of whole functions up to
`current`, and of free cells of which the function under construction has the first ones
(`EmittedSoFar`).  The executable pages are exactly those below `committed`, a multiple of
the page size (`CommittedIsExecutable`); this is where rounding `current` up after a commit
is needed, and the proof rests on four lemmas on pages, `AlignUp` and the size of a slab.
`CommitsAreComplete` says which slabs a commit under way has done.

`AccelRuntimeProofs.tla`, for any finite sets of threads and sessions, any programs and
kernels (`AccelContextAssumption`, `AccelRuntimeAssumption`):

| Theorem | States |
|---|---|
| `Invariance`, `TypeCorrect` | the inductive invariant, and `TypeOK` with the bounds of both counters |
| `ReferencesStayCounted` | `ReferencesAreCounted` |
| `ClaimsAreKept` | `ClaimIsKept` |
| `ExecutionsHaveOneOwner` | `ExecutionHasOneOwner` |
| `BackendDiesAtLast` | `BackendDiesLast` |

Its invariant has a part for each kind of actor.  `MainIsInOrder`: what main has drained
and destroyed so far.  `OperationsAreCounted`: the drain's counter is the number of
threads with a claim, plus the finalizer's.  `SessionsArePinned`, `FinalizerIsAlone`: a
collection finalizes no session that a thread is working on, except one that main takes
from the live list, which may be the same at the same time.  `WorkersAreAlone`,
`ClaimsHold`: a session claimed for a backend call is in the state it was claimed in.
`ExecutionsAreOwned`: an execution exists exactly when a thread, its session or the finalizer
owns it, and these exclude one another; main and the finalizer of the same session
are kept apart by that alone.  `LiveListIsExact`: no session is in the list
twice, and who is not in it has no execution.  `ProgramsAreKept`: a program is published as long as the registry
or a session refers to it.

### Only model-checked

* `EveryRequestServed`, `ParkedOnlyWhileSectionsRun`, `CollectionNeverStalls`, `DestructionEnds`: liveness
  under fairness, which is out of the prover's reach, as is ENABLED.

## Not modelled

* Front end, interpreter, code generators, accelerator compiler, library modules
  and tools: sequential translations and calls of an operating system, see above.
  They are most of the lines of the repository.  What could be stated of them
  (that a compiled function computes what its source says) relates programs to
  their results over an unbounded language.
* The accelerator backends: what a driver does is not in the source.  Their
  interface is in `AccelRuntime`.
* Copies, traversal by index, resize, and the push and pop of the intrinsics: operations
  on shared objects whose steps are those of `SharedArray` and
  `SharedDict` in long sequences; planned below.
* The module loader runs while one environment registers; its search order is file
  input and output.
* Destruction of the virtual machine, except for what it does to the accelerator: it
  requires that no other environment is in use.

## Plan

In this order:

1. `om_copy_array`, `om_copy_dict`, `om_merge_dict` and traversal by index, whose
   abstraction needs long reads; the composition of `freeze`'s spin with
   safepoints; the tenure allocator's blocks and size classes.

## Running the checks

`tlc -config MCSafepoint.cfg MCSafepoint` and so on for each run of
`PROJECT.json`, which names module and configuration; `tlapm SafepointProofs.tla`
and so on for each module whose name ends in `Proofs`.  The longest
are `AccelRuntimeProofs` and `SharedArrayProofs`, with three to five minutes each,
`CollectorProofs`, with six, and `SharedDictProofs`, with about ten.
