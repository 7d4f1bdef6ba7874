SPECIFICATION Spec
CONSTANTS
  editor = editor
  editorBin = editorBin
  game = game
  e1 = e1
  e2 = e2
  c1 = c1
  c2 = c2
  NoDesktop = NoDesktop
  None = None
  App <- OneGame
  DesktopOf <- SteamGame
  Evaluator <- TwoEvaluators
  Caller = {c1}
  QueueSize = 100
  MaxEvals = 2
  MaxCalls = 1
  MaxFaults = 0
  MaxStops = 0
INVARIANT CacheMirrorsDatabase
CHECK_DEADLOCK FALSE
