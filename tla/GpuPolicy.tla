----------------------------- MODULE GpuPolicy -----------------------------
(***************************************************************************)
(* The pure part of mode handling: what kind of system a GPU list makes,    *)
(* which modes it supports, and which GPUs each mode hides.                 *)
(*                                                                          *)
(* A GPU is its key in gpu_list: the default GPU has key 0 and the others   *)
(* follow by PCI address (check_default_drm_class).  A GPU bound to another *)
(* driver (vfio) stays in the list but is not available.                    *)
(***************************************************************************)
EXTENDS Naturals, FiniteSets

CONSTANTS
  Gpu,        \* the keys of gpu_list
  Available,  \* GPUs whose device.is_available() holds
  Discrete    \* GPUs whose device.is_discrete() holds

ASSUME GpuAssumption ==
  /\ Gpu \subseteq Nat
  /\ IsFiniteSet(Gpu)
  /\ Available \subseteq Gpu
  /\ Discrete \subseteq Gpu
  /\ Available # {} => 0 \in Available

Mode == {"integrated", "hybrid", "manual", "smart"}

(* The D-Bus and eBPF encoding of a mode (impl From<Modes> for u32). *)
ModeNumber ==
  [m \in Mode |-> CASE m = "integrated" -> 0
                    [] m = "hybrid"     -> 1
                    [] m = "manual"     -> 2
                    [] m = "smart"      -> 3]

(* The mode the eBPF programs take a number of CW_MODE for: their constants *)
(* INTEGRATED, HYBRID, MANUAL and SMART are declared on their own.          *)
KernelMode ==
  [n \in 0..3 |-> CASE n = 0 -> "integrated"
                    [] n = 1 -> "hybrid"
                    [] n = 2 -> "manual"
                    [] n = 3 -> "smart"]

IsDefault(g) == g = 0 /\ g \in Available

(* set_block and the Manual arm of apply_mode never block the default GPU.    *)
Blockable_Any(g) == TRUE
Blockable(g) == ~IsDefault(g)

(* The GPUs Integrated and Smart modes hide. *)
Offload == {g \in Available : g \in Discrete /\ ~IsDefault(g)}

SystemType ==
  IF Cardinality(Available) # 2 THEN "Manual"
  ELSE IF /\ \E g \in Available : IsDefault(g) /\ g \in Discrete
          /\ \E g \in Available : ~IsDefault(g) /\ g \notin Discrete
       THEN "Desktop"
  ELSE IF /\ \E g \in Available : ~IsDefault(g) /\ g \in Discrete
          /\ \E g \in Available : IsDefault(g) /\ g \notin Discrete
       THEN "Laptop"
  ELSE "Manual"

(* The modes apply_mode does not refuse with NotSupported. *)
Supported(m) ==
  CASE m \in {"integrated", "smart"} -> SystemType = "Laptop"
    [] m = "hybrid"                  -> TRUE
    [] m = "manual"                  -> SystemType \in {"Manual", "Desktop"}

(* What the AvailableModes method answers. *)
AvailableModes ==
  IF SystemType = "Laptop" THEN {"integrated", "hybrid", "smart"}
                           ELSE {"hybrid", "manual"}

(* The GPUs a transition to m touches, in the order of their keys: Smart     *)
(* also pushes the default integrated GPU, unblocked, so that the kernel     *)
(* can tell it apart.                                                        *)
Touched(m) ==
  CASE m = "integrated" -> Offload
    [] m = "smart"      -> Offload \cup {g \in Available : IsDefault(g) /\ g \notin Discrete}
    [] OTHER            -> Available

(* Those of them it blocks; the others it unblocks.  saved is the content of *)
(* gpu_state, autoApply the auto_apply_gpu_state setting.                    *)
Hidden(m, saved, autoApply) ==
  CASE m \in {"integrated", "smart"} -> Offload
    [] m = "hybrid"                  -> {}
    [] m = "manual"                  -> {g \in Available : autoApply /\ saved[g] /\ Blockable(g)}

(* Launchable: may an offload launch target g, given its Block property. *)
Launchable_Blocked(g, blocked, m) == g \in Available
Launchable(g, blocked, m) == g \in Available /\ (~blocked \/ m = "smart")
=============================================================================
