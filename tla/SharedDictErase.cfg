SPECIFICATION Spec
CONSTANTS
  c = c
  t1 = t1
  t2 = t2
  Threads = {c, t1}
  Creator = c
  Readers = {c}
  Writers = {}
  Erasers = {t1}
  Freezers = {}
  HandleUsers = {}
  Keys <- MCKeys
  Hash <- MCHash
  Preloaded <- MCPreloaded
  Gens = {1, 2, 3}
  StartSize = 4
  MaxSize = 8
  MaxOps = 4
INVARIANT VisibleKeyHasValue
