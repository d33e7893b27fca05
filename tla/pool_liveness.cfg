SPECIFICATION FairSpec
CONSTANTS
  Producers = {p1, p2}
  Consumer = consumer
  Owner = owner
  Keys = {k1}
  Listeners = {l1}
  QueueTraits = "mutex"
  MapTraits = "safe"
  Capacity = 1
  MaxEnqueues = 1
  Absent = Absent
  Null = Null
  NoMsg = NoMsg
  NoThread = NoThread
CHECK_DEADLOCK FALSE
PROPERTY QueuedIsTaken
PROPERTY StopEndsConsumer
PROPERTY StopReturnsOrStalls
