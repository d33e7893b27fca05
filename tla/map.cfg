SPECIFICATION FairSpec
CONSTANTS
  Threads = {t1, t2}
  k1 = k1
  k2 = k2
  k3 = k3
  Keys = {k1, k2, k3}
  Listeners = {l1, l2}
  Hash <- ThreeKeys
  NumberOfBuckets = 2
  Absent = Absent
  Null = Null
  Nobody = Nobody
  NoRequest = NoRequest
CHECK_DEADLOCK FALSE
INVARIANT IInv
INVARIANT WritersAlone
PROPERTY ImplementsAtomicMap
PROPERTY EntriesKeep
PROPERTY CallsReturn
