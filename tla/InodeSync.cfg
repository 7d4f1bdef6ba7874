SPECIFICATION Spec
CONSTANTS
  udev = udev
  client = client
  Device <- ThreeGpus
  Bridged <- Behind
  Nvidia <- Last
  Bridge = Bridge
  Refresher <- TwoTasks
  Monitor = udev
  User = User
  Nobody = Nobody
  NoGpu = NoGpu
  MaxHotplugs = 2
  MaxRequests = 1
  MaxFaults = 1
INVARIANT KeysOwned
INVARIANT ModeFitsBus
INVARIANT MapFollowsHotplug
INVARIANT NvidiaFollowsList
INVARIANT NoDeadlock
CHECK_DEADLOCK FALSE
