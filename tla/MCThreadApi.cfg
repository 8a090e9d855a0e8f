SPECIFICATION Spec
CONSTANTS
  m = m
  c1 = c1
  c2 = c2
  Main = m
  Children = {c1, c2}
  Envs = {"e1", "e2"}
  Joins <- MCJoins
INVARIANT ThreadIsReleasedOnce
INVARIANT HandleOutlivesItsUsers
INVARIANT JoinDeliversOutcome
INVARIANT EnvHasOneUser
