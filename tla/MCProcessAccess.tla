-------------------------- MODULE MCProcessAccess --------------------------
(* Instances of ProcessAccess for TLC. *)
EXTENDS ProcessAccess, TLC

CONSTANTS shell, game, forcing, p1, p2, c1

(* shell has no variable; game's policy is Allowed; forcing sets             *)
(* CARDWIRE_FORCE_DGPU=1.                                                     *)
Images == {shell, game, forcing}
MCEnv == [i \in Images |-> IF i = forcing THEN [NoEnv EXCEPT !.forceDgpu = 1] ELSE NoEnv]
MCAppAllowed == {game}

TwoPids  == {p1, p2}
Symmetry == Permutations(TwoPids)
=============================================================================
