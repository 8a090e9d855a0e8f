SPECIFICATION Spec
CONSTANTS
  Roots = {r1, r2}
  Slots = {s1}
  Objects = {a, b, h}
  Handles = {h}
  Leaves = {b}
  Null = Null
  Configs <- MCConfigs
  PromotionThreshold = 1
  MaxAllocations = 3
PROPERTIES ImplementsManagedHeap TraversalEnds
INVARIANTS  OneLiveCopy RememberedAreSound HandleKeepsItsResource
