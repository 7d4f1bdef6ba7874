---------------------------- MODULE AccessPolicy ----------------------------
(***************************************************************************)
(* The decision the eBPF programs take when a process opens, stats, checks   *)
(* or lists an inode, and the verdict the daemon reaches about a program it  *)
(* has just seen start.                                                      *)
(*                                                                          *)
(* A process is its pid; an inode is its entry in CW_BLOCKED_INO or          *)
(* CW_EXP_BLK_INO, a record [gpu, blocked].                                  *)
(***************************************************************************)
EXTENDS Naturals

CONSTANTS
  Absent,  \* an environment variable that is not set, or not a number
  AllGpus  \* the verdict that lets a process use every GPU

ASSUME VerdictAssumption == {Absent, AllGpus} \cap Nat = {}

(* The entry of a key: none, the one of CW_BLOCKED_INO or, with the NVIDIA   *)
(* setting on, the one of CW_EXP_BLK_INO, which counts as blocked.           *)
EntryOf(key, blockedIno, expIno, nvidiaSetting) ==
  IF key \in DOMAIN blockedIno THEN {blockedIno[key]}
  ELSE IF nvidiaSetting /\ key \in DOMAIN expIno
       THEN {[gpu |-> expIno[key], blocked |-> TRUE]}
       ELSE {}

(* The GPU a process is forced to, by its own entry of CW_FORCED_PID or else  *)
(* by its parent's.                                                          *)
ForcedGpu(forced, pid, ppid) ==
  IF pid \in DOMAIN forced THEN {forced[pid]}
                           ELSE {forced[p] : p \in DOMAIN forced \cap {ppid}}

(* CW_ALLOWED_PID counts for the process and for its children.               *)
Lets_OwnOnly(allowed, pid, ppid) == pid \in allowed
Lets(allowed, pid, ppid)         == {pid, ppid} \cap allowed # {}

(* Without a grant Smart mode hides every GPU but the default one.            *)
SmartHides_Every(gpu) == TRUE
SmartHides(gpu)       == gpu # 0

(* is_inode_blocked for a tracked inode.                                     *)
IsInodeBlocked(mode, entry, allowed, forced, pid, ppid) ==
  LET gpus == ForcedGpu(forced, pid, ppid)
      elsewhere == gpus # {} /\ entry.gpu \notin gpus
  IN  CASE mode = "integrated" -> entry.blocked
        [] mode = "manual" -> elsewhere \/ (gpus = {} /\ entry.blocked)
        [] mode = "smart"  -> /\ ~Lets(allowed, pid, ppid)
                              /\ elsewhere \/ (gpus = {} /\ SmartHides(entry.gpu))
        [] OTHER           -> FALSE

(* What file_open, inode_permission and inode_getattr answer ENOENT for, given *)
(* the entries of the key.  The daemon and whitelisted programs are exempt.   *)
HookBlocks(mode, exempt, entries, allowed, forced, pid, ppid) ==
  /\ ~exempt
  /\ mode # "hybrid"
  /\ \E entry \in entries : IsInodeBlocked(mode, entry, allowed, forced, pid, ppid)

-----------------------------------------------------------------------------
(* The daemon's verdict: AllGpus, the GPU to force, or none.                  *)

(* evaluate_app on the variables of the environment and the policy of the    *)
(* app.  A CARDWIRE_ALLOW or CARDWIRE_FORCE_DGPU other than 1 ends the        *)
(* evaluation without a verdict; Manual mode does not consult policies.      *)
Verdict(env, appAllowed, smart) ==
  IF env.allow # Absent          THEN IF env.allow = 1 THEN {AllGpus} ELSE {}
  ELSE IF env.forceDgpu # Absent THEN IF env.forceDgpu = 1 THEN {1} ELSE {}
  ELSE IF env.forceGpu # Absent  THEN {env.forceGpu}
  ELSE IF smart /\ appAllowed    THEN {AllGpus}
  ELSE {}

NoEnv == [allow |-> Absent, forceDgpu |-> Absent, forceGpu |-> Absent]
=============================================================================
