SPECIFICATION Spec
CONSTANTS
  D0 = D0
  D3cold = D3cold
  Power <- Powers
  Unknown = Unknown
  Watched = {0}
  MaxGpus = 2
  MaxHotplug = 1
  MaxBlocks = 1
  MaxPower = 1
CHECK_DEADLOCK FALSE
SYMMETRY Symmetry
INVARIANT ListsBus
INVARIANT ShowsBlock
INVARIANT ShowsPower
