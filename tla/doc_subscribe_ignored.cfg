SPECIFICATION Spec
CONSTANTS
  Producers = {p1}
  Consumer = consumer
  Owner = owner
  Keys = {k1}
  Listeners = {l1}
  QueueTraits = "mutex"
  MapTraits = "safe"
  Capacity = 1
  MaxEnqueues = 2
  Absent = Absent
  Null = Null
  NoMsg = NoMsg
  NoThread = NoThread
CHECK_DEADLOCK FALSE
INVARIANT SubscribedNeverUnknown
