----------------------------- MODULE MCGuiMirror -----------------------------
(* An instance of GuiMirror for TLC. *)
EXTENDS GuiMirror, TLC

CONSTANTS D0, D3cold

Powers   == {D0, D3cold}
Symmetry == Permutations(Powers)
=============================================================================
