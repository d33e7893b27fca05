SPECIFICATION FairSpec
CONSTANTS
  Consumers = {c1, c2, c3}
  Waiters = {w1, w2}
  NoThread = NoThread
CHECK_DEADLOCK FALSE
INVARIANT IInv
INVARIANT WaitCoversCohort
INVARIANT LastRaisesFlag
INVARIANT FlagWakesWaiters
PROPERTY FinishReleasesWaiters
