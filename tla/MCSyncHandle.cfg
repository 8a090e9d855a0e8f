SPECIFICATION FairSpec
CONSTANTS
  t1 = t1
  t2 = t2
  t3 = t3
  Threads = {t1, t2, t3}
  Lockers = {t1, t2}
  Updaters = {t2, t3}
  Snapshotters = {t1, t3}
  MaxCalls = 4
INVARIANT SnapshotIsWhole
INVARIANT NoLockedUpdateLost
PROPERTY CollectionNeverStalls
