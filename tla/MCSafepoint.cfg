CONSTANT Threads = {t1, t2, t3}
SPECIFICATION FairSpec
INVARIANTS
  IInv
  SectionExcludesMutators
  MutatorSeesNoGC
PROPERTIES
  ResumesAfterEveryRequest
  EveryRequestServed
  ParkedOnlyWhileSectionsRun
  ImplementsStopTheWorld
