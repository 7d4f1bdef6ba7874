SPECIFICATION Spec
CONSTANTS
  c1 = c1
  Absent = Absent
  AllGpus = AllGpus
  Clients <- OneClient
  Gpu <- LaptopGpus
  Available <- LaptopGpus
  Discrete <- LaptopDiscrete
  AutoApply = FALSE
  DisplaySwitch = TRUE
  BatterySwitch = TRUE
  AcMode = "smart"
  MaxRequests = 2
  MaxFaults = 1
  MaxStops = 1
  MaxPlugs = 1
INVARIANT KernelMatchesReported
INVARIANT DefaultOpens
INVARIANT OffloadHiddenAsReported
INVARIANT GrantDecides
INVARIANT LaunchReachesGpu
INVARIANT LaunchIsolates
PROPERTY OverrideNotPersisted
PROPERTY ImplementsRegister
