SPECIFICATION FairTestSpec
CONSTANTS
  p1 = p1
  p2 = p2
  k1 = k1
  k2 = k2
  l1 = l1
  l2 = l2
  Producers = {p1, p2}
  Consumer = consumer
  Owner = owner
  Keys = {k1, k2}
  Listeners = {l1, l2}
  Tests = {"Test000", "Test004", "Test008"}
  ThreadSeq <- TwoThreads
  KeySeq <- TwoKeys
  ListenerSeq <- TwoListeners
  QueueTraits = "mutex"
  MapTraits = "safe"
  Capacity = 1
  MaxEnqueues = 2
  Absent = Absent
  Null = Null
  NoMsg = NoMsg
  NoThread = NoThread
CHECK_DEADLOCK FALSE
INVARIANT ListenerGetsOwnId
INVARIANT StopEventMeansAllConsumed
INVARIANT OnlyLastStepsOutlive
PROPERTY TestEnds
