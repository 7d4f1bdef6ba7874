---------------------------- MODULE MCConfigStore ----------------------------
(* An instance of ConfigStore for TLC. *)
EXTENDS ConfigStore, TLC

CONSTANTS nvidia, battery_mode, c1, c2

TwoSettings == {nvidia, battery_mode}
TwoCalls    == {c1, c2}
Symmetry    == Permutations(TwoCalls)
=============================================================================
