SPECIFICATION FairSpec
CONSTANTS
  Producers = {p1}
  Consumer = consumer
  Owner = owner
  Keys = {k1}
  Listeners = {l1}
  QueueTraits = "mutex"
  MapTraits = "mutex"
  Capacity = 1
  MaxEnqueues = 1
  Absent = Absent
  Null = Null
  NoMsg = NoMsg
  NoThread = NoThread
CHECK_DEADLOCK FALSE
PROPERTY WorkWakesConsumer
