SPECIFICATION Spec
CONSTANTS
  Producers = {p1}
  Consumer = consumer
  Owner = owner
  Keys = {k1, k2}
  Listeners = {l1}
  QueueTraits = "lockfree"
  MapTraits = "mutex"
  Capacity = 2
  MaxEnqueues = 3
  Absent = Absent
  Null = Null
  NoMsg = NoMsg
  NoThread = NoThread
CHECK_DEADLOCK FALSE
INVARIANT RoutedToSubscriber
PROPERTY DeliveryOrder
