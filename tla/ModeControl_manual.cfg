SPECIFICATION Spec
CONSTANTS
  c1 = c1
  Absent = Absent
  AllGpus = AllGpus
  Clients <- OneClient
  Gpu <- ManualGpus
  Available <- ManualGpus
  Discrete <- ManualGpus
  AutoApply = TRUE
  DisplaySwitch = TRUE
  BatterySwitch = FALSE
  AcMode = "smart"
  MaxRequests = 2
  MaxFaults = 1
  MaxStops = 1
  MaxPlugs = 1
INVARIANT DefaultNeverBlocked
INVARIANT SavedStatesComplete
