SPECIFICATION Spec
CONSTANTS
  shell = shell
  game = game
  forcing = forcing
  p1 = p1
  p2 = p2
  c1 = c1
  Absent = Absent
  AllGpus = AllGpus
  Reaper = reaper
  Pid <- TwoPids
  Image <- Images
  Env <- MCEnv
  AppAllowed <- MCAppAllowed
  Whitelist = {shell}
  OffloadGpu = 1
  Modes = {"smart", "manual"}
  Callers = {c1}
  RingSize = 1
  MaxLate = 1
  MaxExecs = 2
  MaxRequests = 1
  MaxFaults = 1
SYMMETRY Symmetry
INVARIANT SeesOnlyWithCause
INVARIANT GrantsMatchImage
INVARIANT DueIsGranted
