SPECIFICATION ScanSpec
CONSTANTS
  Threads = {"t1", "t2"}
  Names = {"a", "b", "c"}
  Lets = {"a"}
  Values = {"v"}
  Undefined = "NULL"
  Hash <- MCHash
  StartSize = 2
INVARIANT MarkedIsConstant
