SPECIFICATION FairSpec
CONSTANTS
  p1 = p1
  p2 = p2
  p3 = p3
  Pid <- ThreePids
  RingSize = 2
  Permits = 2
  MaxEntries = 2
  MaxGuiEntries = 2
  MaxEvents = 4
  MaxDeaths = 1
PROPERTY QueuedIsRecorded
INVARIANT ListedOnce
INVARIANT ListsSignalled
CHECK_DEADLOCK FALSE
