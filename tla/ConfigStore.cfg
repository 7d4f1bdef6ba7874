SPECIFICATION Spec
CONSTANTS
  nvidia = nvidia
  battery_mode = battery_mode
  c1 = c1
  c2 = c2
  Setting <- TwoSettings
  Nvidia = nvidia
  BatteryMode = battery_mode
  Call <- TwoCalls
  Save = Save
  BadMode = BadMode
  Broken = Broken
  MaxWrites = 3
  MaxFaults = 2
  MaxCrashes = 1
SYMMETRY Symmetry
INVARIANT AnsweredIsSaved
INVARIANT SettledAgree
INVARIANT ShowsDaemon
CHECK_DEADLOCK FALSE
