SPECIFICATION FairSpec
CONSTANTS
  editor = editor
  editorBin = editorBin
  game = game
  e1 = e1
  e2 = e2
  c1 = c1
  c2 = c2
  NoDesktop = NoDesktop
  None = None
  App <- TwoBinaries
  DesktopOf <- SameDesktop
  Evaluator <- TwoEvaluators
  Caller <- TwoCallers
  QueueSize = 1
  MaxEvals = 2
  MaxCalls = 2
  MaxFaults = 1
  MaxStops = 1
INVARIANT AllowedByUser
INVARIANT KnownAppsCached
INVARIANT OneRowPerDesktopFile
INVARIANT AnnouncedAreStored
PROPERTY ImplementsStore
PROPERTY DiscoveryEnds
CHECK_DEADLOCK FALSE
