SPECIFICATION Spec
CONSTANTS
  Funcs = {"small", "other", "medium", "large", "huge"}
  CodeLength <- MCLength
  CodeSize = 4
  PageSize = 2
  None = none
INVARIANT EntriesAreWhole
INVARIANT SettledCodeIsExecutable
PROPERTY ExecutablePagesAreFinal
