SPECIFICATION Spec
CONSTANTS
  Producers = {p1, p2}
  Consumer = consumer
  Owner = owner
  Keys = {k1}
  Listeners = {l1}
  QueueTraits = "mutex"
  MapTraits = "mutex"
  Capacity = 1
  MaxEnqueues = 2
  Absent = Absent
  Null = Null
  NoMsg = NoMsg
  NoThread = NoThread
SYMMETRY ProducerSymmetry
CHECK_DEADLOCK FALSE
INVARIANT TypeOK
INVARIANT ExactlyOnce
INVARIANT SubscribedNeverUnknown
INVARIANT AtMostOneStopDrop
INVARIANT NeverDispatchesEmptyNode
INVARIANT StopWakesConsumer
INVARIANT FinishWakesOwner
INVARIANT ConsumerNeverOutlivesPool
