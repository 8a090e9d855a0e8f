SPECIFICATION Spec
CONSTANTS
  c = c
  t1 = t1
  t2 = t2
  Threads = {c, t1, t2}
  Creator = c
  Readers = {t2}
  Writers = {c, t1}
  Erasers = {t1}
  Freezers = {c}
  HandleUsers = {t2}
  Keys <- MCKeys
  Hash <- MCHash
  Preloaded <- MCPreloaded
  Gens = {1, 2, 3}
  StartSize = 4
  MaxSize = 8
  MaxOps = 4
INVARIANT NoEntryLost
INVARIANT ReadReturnsCurrent
INVARIANT LocksMatchHolders
INVARIANT ControlBlockHasOneHolder
PROPERTY FreezeIsKept
