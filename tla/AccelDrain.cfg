SPECIFICATION FairSpec
CONSTANTS
  Main = "main"
  Threads = {"main", "worker"}
  Sessions = {"s"}
  Programs = {"p"}
  MaxProgramId = 1
  Kernels = 1
  NoProgram = "NULL"
  NoSession = "NULL"
  NoThread = "none"
CHECK_DEADLOCK FALSE
PROPERTY DestructionEnds
