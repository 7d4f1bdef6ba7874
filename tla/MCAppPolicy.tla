---------------------------- MODULE MCAppPolicy ----------------------------
(* Instances of AppPolicy for TLC. *)
EXTENDS AppPolicy

CONSTANTS editor, editorBin, game, e1, e2, c1, c2

(* Two binaries of one desktop file. *)
TwoBinaries == {editor, editorBin}
SameDesktop == [n \in TwoBinaries |-> "editor.desktop"]
OneGame     == {game}
SteamGame   == [n \in OneGame |-> NoDesktop]

TwoEvaluators == {e1, e2}
TwoCallers    == {c1, c2}
=============================================================================
