SPECIFICATION Spec
CONSTANTS
  Producers = {p1, p2}
  Consumer = consumer
  Owner = owner
  Keys = {k1}
  Listeners = {l1}
  QueueTraits = "lockfree"
  MapTraits = "safe"
  Capacity = 1
  MaxEnqueues = 1
  Absent = Absent
  Null = Null
  NoMsg = NoMsg
  NoThread = NoThread
SYMMETRY ProducerSymmetry
CHECK_DEADLOCK FALSE
INVARIANT IInv
INVARIANT OverflowConfined
INVARIANT SleepHasCause
PROPERTY QuietAfterStop
PROPERTY UsesBoundedQueue
