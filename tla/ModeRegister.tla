---------------------------- MODULE ModeRegister ----------------------------
(***************************************************************************)
(* What mode switching promises: a register with two faces.  The kernel     *)
(* enforces a mode before the daemon publishes it, and nothing else is      *)
(* enforced until it has been published, so that a client that reads the    *)
(* Mode property reads the mode in force or the one it has just replaced,   *)
(* and never one that was refused or given up half way.                     *)
(***************************************************************************)
CONSTANT Offered  \* the modes the system supports

None == "none"    \* the daemon does not serve

VARIABLES enforced, published

vars == <<enforced, published>>

TypeOK == {enforced, published} \subseteq Offered \cup {None}

Init == enforced = None /\ published = None

Start(m) ==
  /\ published = None
  /\ enforced' = m /\ published' = m

Enforce(m) ==
  /\ published # None
  /\ published = enforced
  /\ enforced' = m
  /\ UNCHANGED published

Publish ==
  /\ published # None
  /\ published' = enforced
  /\ UNCHANGED enforced

Stop == enforced' = None /\ published' = None

Next == (\E m \in Offered : Start(m) \/ Enforce(m)) \/ Publish \/ Stop

Spec == Init /\ [][Next]_vars
=============================================================================
