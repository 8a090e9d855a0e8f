SPECIFICATION Spec
CONSTANTS
  c = c
  t1 = t1
  t2 = t2
  Threads = {c, t1, t2}
  Creator = c
  Readers = {t2}
  Writers = {c, t1}
  Gens = {1, 2, 3}
  StartSize = 2
  Indices = {0, 4}
  MaxWrites = 2
INVARIANT FastPathIsExclusive
INVARIANT NoFreedAccess
INVARIANT SizeCoversWrites
INVARIANT NoLostUpdate
INVARIANT ReadReturnsCurrent
