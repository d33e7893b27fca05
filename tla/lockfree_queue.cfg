SPECIFICATION TaggedSpec
CONSTANTS
  Threads = {t1, t2}
  Capacity = 2
  TagModulus = 4
  MaxCalls = 3
  NoValue = NoValue
CHECK_DEADLOCK FALSE
INVARIANT TypeOK
INVARIANT NoLap
INVARIANT ListInv
INVARIANT NullNeverFollowed
INVARIANT NodesAccounted
INVARIANT TailLagsByOne
PROPERTY ImplementsBoundedQueue
PROPERTY LockFree
