SPECIFICATION Spec
CONSTANTS
  m = m
  w1 = w1
  w2 = w2
  s1 = s1
  s2 = s2
  p1 = p1
  Main = m
  Threads = {m, w1, w2}
  Sessions = {s1, s2}
  Programs = {p1}
  MaxProgramId = 2
  Kernels = 2
  NoProgram = NoProgram
  NoSession = NoSession
  NoThread = NoThread
SYMMETRY Symmetry
CHECK_DEADLOCK FALSE
INVARIANT TypeOK
INVARIANT ExecutionHasOneOwner
INVARIANT BackendDiesLast
INVARIANT ReferencesAreCounted
INVARIANT ClaimIsKept
