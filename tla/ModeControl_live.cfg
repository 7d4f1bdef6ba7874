SPECIFICATION FairSpec
CONSTANTS
  c1 = c1
  Absent = Absent
  AllGpus = AllGpus
  Clients <- OneClient
  Gpu <- LaptopGpus
  Available <- LaptopGpus
  Discrete <- LaptopDiscrete
  AutoApply = FALSE
  DisplaySwitch = TRUE
  BatterySwitch = FALSE
  AcMode = "smart"
  MaxRequests = 1
  MaxFaults = 1
  MaxStops = 0
  MaxPlugs = 1
PROPERTY DisplayServed
PROPERTY RequestsReturn
PROPERTY OffloadEventuallyHidden
PROPERTY EventuallyServing
