--------------------------- MODULE GpuVisibility ---------------------------
(***************************************************************************)
(* What a process sees: the mode and the inode states that ModeControl      *)
(* writes, read by the access decision of the eBPF programs, for a process   *)
(* with or without a grant and for one launched through the switcheroo shim  *)
(* on a GPU of the list it advertises.                                       *)
(***************************************************************************)
EXTENDS ModeControl, AccessPolicy

(* The process and its parent. *)
Self   == 1
Parent == 2
Nobody == <<>>
SelfForced(g) == [p \in {Self} |-> g]

(* The entries that different keys of g have. *)
Entries(g) == {[gpu |-> g, blocked |-> s = "blocked"] : s \in nodes[g] \ {"untracked"}}

HookHides(e, allowed, forced) ==
  LET blockedIno == [key \in {"node"} |-> e]
  IN  HookBlocks(KernelMode[modeMap], FALSE, EntryOf("node", blockedIno, Nobody, FALSE),
                 allowed, forced, Self, Parent)
Opens(g, allowed, forced) == \A e \in Entries(g) : ~HookHides(e, allowed, forced)
Hides(g, allowed, forced) == Entries(g) # {} /\ \A e \in Entries(g) : HookHides(e, allowed, forced)

(* The GPUs the shim advertises. *)
Advertised == {g \in Gpu : \E blocked \in GpuBlocked(g) : Launchable(g, blocked, reported)}

(* compute_switcheroo_env; gpus_locked passes it the number of advertised GPUs. *)
LaunchEnv_AllowOnly(g, count) == [NoEnv EXCEPT !.allow = IF g \in Discrete THEN 1 ELSE 0]
LaunchEnv(g, count) ==
  CASE IsDefault(g)                                -> [NoEnv EXCEPT !.allow = IF g \in Discrete THEN 1 ELSE 0]
    [] ~IsDefault(g) /\ count = 2 /\ g \in Discrete -> [NoEnv EXCEPT !.forceDgpu = 1]
    [] OTHER                                       -> [NoEnv EXCEPT !.forceGpu = g]

(* The grant a process launched on g ends up with: an exec is announced in    *)
(* Smart and Manual mode only.                                               *)
LaunchGrant(g) ==
  IF reported \in {"smart", "manual"}
  THEN Verdict(LaunchEnv(g, Cardinality(Advertised)), FALSE, reported = "smart")
  ELSE {}
LaunchAllowed(g) == IF AllGpus \in LaunchGrant(g) THEN {Self} ELSE {}
LaunchForced(g)  == [p \in {q \in {Self} : LaunchGrant(g) \ {AllGpus} # {}} |->
                       CHOOSE v \in LaunchGrant(g) : v # AllGpus]

-----------------------------------------------------------------------------
(* A process that is not forced elsewhere always opens the GPU that drives    *)
(* the desktop, in the middle of a transition, after failures, crashes and    *)
(* restarts (apply_mode, set_block, is_inode_blocked).                        *)
DefaultOpens ==
  \A g \in Gpu, allowed \in SUBSET {Self, Parent} : IsDefault(g) => Opens(g, allowed, Nobody)

(* Until something fails, in a settled Smart mode the offload GPU is hidden   *)
(* from a process without a grant and open to one with a grant of its own or  *)
(* of its parent; in Integrated mode it is hidden whatever was granted.       *)
GrantDecides ==
  Unfailed /\ Settled /\ reported \in {"smart", "integrated"} =>
    \A g \in Offload :
      /\ Hides(g, {}, Nobody)
      /\ \A p \in {Self, Parent} :
           IF reported = "smart" THEN Opens(g, {p}, Nobody) /\ Opens(g, {}, [q \in {p} |-> g])
                                 ELSE Hides(g, {p}, Nobody) /\ Hides(g, {}, [q \in {p} |-> g])

(* Until something fails a process launched on a GPU that the shim advertises *)
(* opens that GPU, and in Smart mode one launched on an offload GPU sees no   *)
(* other (compute_switcheroo_env, evaluate_app, is_inode_blocked).            *)
LaunchReachesGpu ==
  Unfailed /\ Settled => \A g \in Advertised : Opens(g, LaunchAllowed(g), LaunchForced(g))
LaunchIsolates ==
  Unfailed /\ Settled /\ reported = "smart" =>
    \A g \in Advertised : ~IsDefault(g) =>
      \A h \in Available \ {g} : Hides(h, LaunchAllowed(g), LaunchForced(g))

(* A failure half way has left keys of g open in a mode that still hides g:    *)
(* gpu_blocked answers FALSE and no arm of reconcile_gpu is for a GPU that is   *)
(* active and not blocked, so nothing makes the mode Hybrid any more.          *)
LeftHalfOpen(g) == ~Unfailed /\ Settled /\ nodes[g] # {"blocked"}

(* A display connected to a GPU is eventually lit: a process without a grant,  *)
(* as the one that draws the desktop is, opens the GPU in the mode in force,   *)
(* or the cable is pulled, or the daemon goes down (reconcile_gpu).  Exempt is *)
(* a GPU whose keys a failure has left open or half open: in Smart mode it     *)
(* stays hidden for good.                                                      *)
DisplayServed ==
  \A g \in Available :
    (phase = "serving" /\ g \in displays) ~>
      (g \notin displays \/ phase # "serving" \/ Opens(g, {}, Nobody) \/ LeftHalfOpen(g))

=============================================================================
