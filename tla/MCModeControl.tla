--------------------------- MODULE MCModeControl ---------------------------
(* Instances of ModeControl and GpuVisibility for TLC. *)
EXTENDS GpuVisibility

CONSTANT c1

OneClient       == {c1}
LaptopGpus      == {0, 1}
LaptopDiscrete  == {1}
ManualGpus      == {0, 1, 2}
=============================================================================
