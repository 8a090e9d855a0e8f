SPECIFICATION Spec
CONSTANTS
  a = a
  b = b
  c = c
  d = d
  t1 = t1
  t2 = t2
  Threads = {t1, t2}
  Names = {a, b, c, d}
  Lets = {a}
  Values = {"v", "w"}
  Undefined = "NULL"
  Hash <- MCHash
  StartSize = 2
INVARIANT ProbesAreUnbroken
INVARIANT OneHolder
PROPERTY ImplementsGlobals
SYMMETRY Symmetry
