---------------------------- MODULE ModeControl ----------------------------
(***************************************************************************)
(* ModeInterface and the tasks that drive it: D-Bus clients, the battery    *)
(* and display monitors, the start-up of the daemon, and the per-GPU Block  *)
(* property, which writes the same GPU state without the transition lock.   *)
(*                                                                          *)
(* A task loses the processor at every await, so a handler is a sequence of *)
(* steps and a step ends where the code next awaits something that another  *)
(* task can delay.  The inodes of one GPU are one entry of nodes: the set   *)
(* of states its keys are in, a singleton unless sync_inodes failed half    *)
(* way.                                                                     *)
(***************************************************************************)
EXTENDS GpuPolicy

CONSTANTS
  Clients,        \* D-Bus callers of the Mode property
  AutoApply,      \* auto_apply_gpu_state
  DisplaySwitch,  \* external_display_auto_switch
  BatterySwitch,  \* battery_auto_switch
  AcMode,         \* battery_auto_switch_mode
  MaxRequests,    \* bound: mode and Block requests, power source changes
  MaxFaults,      \* bound: failing map updates, file writes, service calls
  MaxStops,       \* bound: crashes of the daemon
  MaxPlugs        \* bound: displays connected or disconnected

NoCaller == "none"
Caller == Clients \cup {"startup", "battery", "display"}

ASSUME CallerAssumption ==
  /\ Clients \cap {"startup", "battery", "display", NoCaller} = {}
  /\ {AutoApply, DisplaySwitch, BatterySwitch} \subseteq BOOLEAN
  /\ AcMode \in Mode
  /\ {MaxRequests, MaxFaults, MaxStops, MaxPlugs} \subseteq Nat

VARIABLES
  phase,       \* life of the daemon process
  transition,  \* the caller that holds ModeInterface.transition
  task,        \* task[c]: how far the internal_set_mode call of c is
  reported,    \* CardwireModeState.mode, what the Mode property answers
  modeFile,    \* mode.json
  modeMap,     \* CW_MODE, what the eBPF programs read
  nodes,       \* nodes[g]: the states of g's keys in CW_BLOCKED_INO
  gpuSaved,    \* CardwireGpuState
  gpuFile,     \* gpu_state.json
  blk,         \* blk[g]: the set_block call in progress on g
  mon,         \* the display monitor
  displays,    \* GPUs with a connected display
  powerd,      \* the nvidia-powerd service
  spawned,     \* start/stop tasks of nvidia-powerd not yet run
  left         \* what is left of the bounds

vars == <<phase, transition, task, reported, modeFile, modeMap, nodes, gpuSaved,
          gpuFile, blk, mon, displays, powerd, spawned, left>>

modeVars  == <<reported, modeFile, modeMap>>
gpuVars   == <<gpuSaved, gpuFile>>
worldVars == <<displays, powerd>>

-----------------------------------------------------------------------------
NodeState == {"untracked", "open", "blocked"}
NodeStateOf(block) == IF block THEN "blocked" ELSE "open"

Idle == [pc |-> "idle", mode |-> "hybrid", save |-> FALSE, todo |-> {}, hide |-> {}]
Call(m, save) == [Idle EXCEPT !.pc = "waiting", !.mode = m, !.save = save]
NoneSaved == [g \in Gpu |-> FALSE]
BlkIdle == [pc |-> "idle", block |-> FALSE, text |-> NoneSaved]
MonIdle == [pc |-> "idle", gpu |-> 0, active |-> FALSE, mode |-> "hybrid"]

TaskState ==
  [pc: {"idle", "waiting", "applying", "commit", "saving", "notifying"},
   mode: Mode, save: BOOLEAN, todo: SUBSET Available, hide: SUBSET Available]
BlkState ==
  [pc: {"idle", "probe", "sync", "save", "saving"}, block: BOOLEAN,
   text: [Gpu -> BOOLEAN]]
MonState ==
  [pc: {"idle", "mode", "gpu", "restore", "unblock"}, gpu: Nat, active: BOOLEAN, mode: Mode]

TypeOK ==
  /\ phase \in {"down", "boot", "fallback", "serving", "failed"}
  /\ transition \in Caller \cup {NoCaller}
  /\ task \in [Caller -> TaskState]
  /\ reported \in Mode
  /\ modeFile \in Mode \cup {"corrupt"}
  /\ modeMap \in 0..3
  /\ nodes \in [Gpu -> SUBSET NodeState]
  /\ gpuSaved \in [Gpu -> BOOLEAN]
  /\ gpuFile \in [Gpu -> BOOLEAN] \cup {<<"corrupt">>}
  /\ blk \in [Gpu -> BlkState]
  /\ mon \in MonState
  /\ displays \subseteq Gpu
  /\ powerd \in {"started", "stopped"}
  /\ spawned \subseteq {"started", "stopped"}
  /\ left \in [request: Nat, fault: Nat, stop: Nat, plug: Nat]

Spend(budget) == left[budget] > 0 /\ left' = [left EXCEPT ![budget] = @ - 1]

(* mode_state is write-locked while save_state writes mode.json, gpu_state   *)
(* while it writes gpu_state.json; gpu_state is read-locked for the whole of *)
(* apply_mode's Manual arm.                                                  *)
ModeStateFree == \A c \in Caller : task[c].pc # "saving"
GpuStateUnwritten_Unlocked == TRUE
GpuStateUnwritten == \A g \in Gpu : blk[g].pc # "saving"
GpuStateFree ==
  /\ GpuStateUnwritten
  /\ \A c \in Caller : ~(task[c].pc = "applying" /\ task[c].mode = "manual" /\ task[c].todo # {})

(* sync_inodes: all keys of g get the wanted state, or it fails before the   *)
(* first insertion or between two of them.                                   *)
SyncInodes(g, block) == nodes' = [nodes EXCEPT ![g] = {NodeStateOf(block)}]
SyncInodesFails(g, block) ==
  /\ Spend("fault")
  /\ nodes' \in {nodes, [nodes EXCEPT ![g] = @ \cup {NodeStateOf(block)}]}

(* gpu_blocked answers TRUE when the keys it looks at are all blocked.        *)
GpuBlocked(g) == {b \in BOOLEAN : IF b THEN "blocked" \in nodes[g] ELSE nodes[g] # {"blocked"}}

-----------------------------------------------------------------------------
(* The process: maps and locks vanish with it, the two files stay.           *)

Init ==
  /\ phase = "down"
  /\ transition = NoCaller
  /\ task = [c \in Caller |-> Idle]
  /\ reported = "hybrid"
  /\ modeFile \in Mode \cup {"corrupt"}
  /\ modeMap = ModeNumber["integrated"]
  /\ nodes = [g \in Gpu |-> {"untracked"}]
  /\ gpuSaved = NoneSaved
  /\ gpuFile = NoneSaved
  /\ blk = [g \in Gpu |-> BlkIdle]
  /\ mon = MonIdle
  /\ displays = {}
  /\ powerd = "started"
  /\ spawned = {}
  /\ left = [request |-> MaxRequests, fault |-> MaxFaults, stop |-> MaxStops, plug |-> MaxPlugs]

Parsed(file) == IF file = "corrupt" THEN "hybrid" ELSE file

(* DaemonManager::new reads both files, replacing one it cannot parse, and    *)
(* pre_daemon_tasks applies the persisted mode without saving it.            *)
Boot ==
  /\ phase = "down"
  /\ phase' = "boot"
  /\ reported' = Parsed(modeFile)
  /\ modeFile' = Parsed(modeFile)
  /\ gpuSaved' = IF gpuFile = <<"corrupt">> THEN NoneSaved ELSE gpuFile
  /\ gpuFile' = gpuSaved'
  /\ task' = [task EXCEPT !["startup"] = Call(reported', FALSE)]
  /\ UNCHANGED <<transition, modeMap, nodes, blk, mon, worldVars, spawned, left>>

Vanish ==
  /\ phase' = "down"
  /\ transition' = NoCaller
  /\ task' = [c \in Caller |-> Idle]
  /\ modeMap' = ModeNumber["integrated"]
  /\ nodes' = [g \in Gpu |-> {"untracked"}]
  /\ blk' = [g \in Gpu |-> BlkIdle]
  /\ mon' = MonIdle
  /\ spawned' = {}
  /\ UNCHANGED <<reported, modeFile, gpuVars, worldVars>>

Crash == phase # "down" /\ Spend("stop") /\ Vanish

(* main returns the error of a fallback that failed as well.                 *)
Exit == phase = "failed" /\ Vanish /\ UNCHANGED left

-----------------------------------------------------------------------------
(* internal_set_mode                                                         *)

TransitionFree_Ignored == TRUE
TransitionFree == transition = NoCaller

(* At start-up a failure falls back to Hybrid, persisted so that the broken   *)
(* mode is not tried again, and a second one is fatal.                       *)
Fallback_Retry == Call(reported, TRUE)
Fallback       == Call("hybrid", TRUE)

Return(c, ok) ==
  IF c # "startup" THEN /\ task' = [task EXCEPT ![c] = Idle]
                        /\ UNCHANGED phase
  ELSE IF ok       THEN /\ task' = [task EXCEPT ![c] = Idle]
                        /\ phase' = "serving"
  ELSE IF phase = "boot"
                   THEN /\ task' = [task EXCEPT ![c] = Fallback]
                        /\ phase' = "fallback"
  ELSE                  /\ task' = [task EXCEPT ![c] = Idle]
                        /\ phase' = "failed"

(* A transition that fails half way drops its lock guard as it returns.       *)
GiveUp_Locked(c) == Return(c, FALSE) /\ UNCHANGED transition
GiveUp(c)        == Return(c, FALSE) /\ transition' = NoCaller

Request(c, m, save) ==
  /\ phase = "serving"
  /\ task[c].pc = "idle"
  /\ task' = [task EXCEPT ![c] = Call(m, save)]

ClientSetsMode(c, m) ==
  /\ Spend("request")
  /\ Request(c, m, TRUE)
  /\ UNCHANGED <<phase, transition, modeVars, nodes, gpuVars, blk, mon, worldVars, spawned>>

BatteryChanged(onBattery) ==
  /\ BatterySwitch
  /\ Spend("request")
  /\ Request("battery", IF onBattery THEN "integrated" ELSE AcMode, TRUE)
  /\ UNCHANGED <<phase, transition, modeVars, nodes, gpuVars, blk, mon, worldVars, spawned>>

(* Take the transition lock; an unsupported mode is refused at once.         *)
BeginTransition(c) ==
  /\ task[c].pc = "waiting"
  /\ TransitionFree
  /\ task[c].mode = "manual" => GpuStateUnwritten
  /\ \/ /\ Supported(task[c].mode)
        /\ transition' = c
        /\ task' = [task EXCEPT ![c].pc   = "applying",
                                ![c].todo = Touched(task[c].mode),
                                ![c].hide = Hidden(task[c].mode, gpuSaved, AutoApply)]
        /\ UNCHANGED phase
     \/ /\ ~Supported(task[c].mode)
        /\ Return(c, FALSE)
        /\ UNCHANGED transition
  /\ UNCHANGED <<modeVars, nodes, gpuVars, blk, mon, worldVars, spawned, left>>

(* block_gpu or unblock_gpu for the next GPU in key order.                    *)
ApplyGpu(c) ==
  /\ task[c].pc = "applying"
  /\ \E g \in task[c].todo :
       /\ \A h \in task[c].todo : g <= h
       /\ \/ /\ SyncInodes(g, g \in task[c].hide)
             /\ task' = [task EXCEPT ![c].todo = @ \ {g}]
             /\ UNCHANGED <<phase, transition, left>>
          \/ /\ SyncInodesFails(g, g \in task[c].hide)
             /\ GiveUp(c)
  /\ UNCHANGED <<modeVars, gpuVars, blk, mon, worldVars, spawned>>

WriteModeMap(c) ==
  /\ task[c].pc = "applying"
  /\ task[c].todo = {}
  /\ \/ /\ modeMap' = ModeNumber[task[c].mode]
        /\ task' = [task EXCEPT ![c].pc = "commit"]
        /\ UNCHANGED <<phase, transition, left>>
     \/ /\ Spend("fault")
        /\ GiveUp(c)
        /\ UNCHANGED modeMap
  /\ UNCHANGED <<reported, modeFile, nodes, gpuVars, blk, mon, worldVars, spawned>>

(* save_state: memory first; tokio::fs::write then truncates mode.json, if it *)
(* can open it, before it writes the new content.                            *)
Commit(c) ==
  /\ task[c].pc = "commit"
  /\ reported' = task[c].mode
  /\ \/ /\ task[c].save
        /\ modeFile' = "corrupt"
        /\ task' = [task EXCEPT ![c].pc = "saving"]
        /\ UNCHANGED left
     \/ /\ task[c].save => Spend("fault")
        /\ ~task[c].save => UNCHANGED left
        /\ task' = [task EXCEPT ![c].pc = "notifying"]
        /\ UNCHANGED modeFile
  /\ UNCHANGED <<phase, transition, modeMap, nodes, gpuVars, blk, mon, worldVars, spawned>>

(* The content lands at offset 0.  Should the display monitor have repaired   *)
(* the truncated file meanwhile, "smart" is shorter than the "hybrid" it put  *)
(* there and leaves a tail that does not parse.                              *)
FinishSave(c) ==
  /\ task[c].pc = "saving"
  /\ \/ /\ modeFile' = IF task[c].mode = "smart" /\ modeFile # "corrupt"
                       THEN "corrupt" ELSE task[c].mode
        /\ UNCHANGED left
     \/ /\ Spend("fault")
        /\ UNCHANGED modeFile
  /\ task' = [task EXCEPT ![c].pc = "notifying"]
  /\ UNCHANGED <<phase, transition, reported, modeMap, nodes, gpuVars, blk, mon, worldVars, spawned>>

(* Signals, uevents, then a detached task for nvidia-powerd; the lock guard   *)
(* is dropped on return.                                                      *)
Notify(c) ==
  /\ task[c].pc = "notifying"
  /\ spawned' = spawned \cup {IF task[c].mode \in {"hybrid", "manual"} THEN "started" ELSE "stopped"}
  /\ Return(c, TRUE)
  /\ transition' = NoCaller
  /\ UNCHANGED <<modeVars, nodes, gpuVars, blk, mon, worldVars, left>>

(* The spawned tasks are serialised by nvidia_powerd_lock, in the order in    *)
(* which the runtime polls them; two of a kind are one.                       *)
RunPowerd(kind) ==
  /\ kind \in spawned
  /\ spawned' = spawned \ {kind}
  /\ \/ powerd' = kind /\ UNCHANGED left
     \/ Spend("fault") /\ UNCHANGED powerd
  /\ UNCHANGED <<phase, transition, task, modeVars, nodes, gpuVars, blk, mon, displays>>

-----------------------------------------------------------------------------
(* GpuInterface::set_block takes &mut self, so one call at a time per GPU.    *)

SetBlock(g, block) ==
  /\ phase = "serving"
  /\ blk[g].pc = "idle"
  /\ ModeStateFree
  /\ reported = "manual"
  /\ g \in Available
  /\ block => Blockable(g)
  /\ Spend("request")
  /\ blk' = [blk EXCEPT ![g] = [BlkIdle EXCEPT !.pc = IF block THEN "probe" ELSE "sync", !.block = block]]
  /\ UNCHANGED <<phase, transition, task, modeVars, nodes, gpuVars, mon, worldVars, spawned>>

(* is_gpu_active: a GPU that drives a display is not blocked, nor one whose   *)
(* connectors cannot be read.                                                *)
ProbeBlock(g) ==
  /\ blk[g].pc = "probe"
  /\ \/ /\ blk' = [blk EXCEPT ![g] = IF g \in displays THEN BlkIdle ELSE [@ EXCEPT !.pc = "sync"]]
        /\ UNCHANGED left
     \/ Spend("fault") /\ blk' = [blk EXCEPT ![g] = BlkIdle]
  /\ UNCHANGED <<phase, transition, task, modeVars, nodes, gpuVars, mon, worldVars, spawned>>

SyncBlock(g) ==
  /\ blk[g].pc = "sync"
  /\ \/ /\ SyncInodes(g, blk[g].block)
        /\ blk' = [blk EXCEPT ![g].pc = "save"]
        /\ UNCHANGED left
     \/ /\ SyncInodesFails(g, blk[g].block)
        /\ blk' = [blk EXCEPT ![g] = BlkIdle]
  /\ UNCHANGED <<phase, transition, task, modeVars, gpuVars, mon, worldVars, spawned>>

SaveBlock(g) ==
  /\ blk[g].pc = "save"
  /\ GpuStateFree
  /\ gpuSaved' = [gpuSaved EXCEPT ![g] = blk[g].block]
  /\ \/ /\ gpuFile' = <<"corrupt">>
        /\ blk' = [blk EXCEPT ![g].pc = "saving", ![g].text = gpuSaved']
        /\ UNCHANGED left
     \/ /\ Spend("fault")
        /\ blk' = [blk EXCEPT ![g] = BlkIdle]
        /\ UNCHANGED gpuFile
  /\ UNCHANGED <<phase, transition, task, modeVars, nodes, mon, worldVars, spawned>>

FinishSaveBlock(g) ==
  /\ blk[g].pc = "saving"
  /\ \/ gpuFile' = blk[g].text /\ UNCHANGED left
     \/ Spend("fault") /\ UNCHANGED gpuFile
  /\ blk' = [blk EXCEPT ![g] = BlkIdle]
  /\ UNCHANGED <<phase, transition, task, modeVars, nodes, gpuSaved, mon, worldVars, spawned>>

-----------------------------------------------------------------------------
(* The display monitor: reconcile_gpu for one card at a time, on a uevent or  *)
(* on the periodic retry.  A round whose probe fails is given up.             *)

MonProbe(g) ==
  /\ DisplaySwitch
  /\ phase = "serving"
  /\ mon.pc = "idle"
  /\ task["display"].pc = "idle"
  /\ \/ /\ mon' = [pc |-> "mode", gpu |-> g, active |-> g \in displays, mode |-> "hybrid"]
        /\ UNCHANGED left
     \/ Spend("fault") /\ UNCHANGED mon
  /\ UNCHANGED <<phase, transition, task, modeVars, nodes, gpuVars, blk, worldVars, spawned>>

MonMode ==
  /\ mon.pc = "mode"
  /\ ModeStateFree
  /\ mon' = IF reported = "hybrid" THEN MonIdle ELSE [mon EXCEPT !.pc = "gpu", !.mode = reported]
  /\ UNCHANGED <<phase, transition, task, modeVars, nodes, gpuVars, blk, worldVars, spawned, left>>

(* The modes an override applies to, and when it is over.                     *)
Overridable_NotSmart == {"integrated"}
Overridable          == {"integrated", "smart"}
OverrideOver_Never(active, blocked) == FALSE
OverrideOver(active, blocked)       == ~active /\ ~blocked
OverrideSaves_Always == TRUE
OverrideSaves        == FALSE

(* A gpu_blocked that fails counts as not blocked.                            *)
MonDecide ==
  /\ mon.pc = "gpu"
  /\ \E blocked \in BOOLEAN :
     /\ \/ blocked \in GpuBlocked(mon.gpu) /\ UNCHANGED left
        \/ ~blocked /\ Spend("fault")
     /\ LET offload  == mon.mode \in Overridable /\ mon.gpu \in Discrete /\ ~IsDefault(mon.gpu)
           override == offload /\ mon.active /\ blocked
           restore  == offload /\ OverrideOver(mon.active, blocked)
           unblock  == mon.mode = "manual" /\ mon.active /\ blocked
       IN  \/ override /\ Request("display", "hybrid", OverrideSaves) /\ mon' = MonIdle
           \/ restore  /\ mon' = [mon EXCEPT !.pc = "restore"] /\ UNCHANGED task
           \/ unblock  /\ mon' = [mon EXCEPT !.pc = "unblock"] /\ UNCHANGED task
           \/ ~override /\ ~restore /\ ~unblock /\ mon' = MonIdle /\ UNCHANGED task
  /\ UNCHANGED <<phase, transition, modeVars, nodes, gpuVars, blk, worldVars, spawned>>

(* CardwireModeState::build replaces a file it cannot parse by the default.   *)
MonRestore ==
  /\ mon.pc = "restore"
  /\ modeFile' = Parsed(modeFile)
  /\ Request("display", Parsed(modeFile), FALSE)
  /\ mon' = MonIdle
  /\ UNCHANGED <<phase, transition, reported, modeMap, nodes, gpuVars, blk, worldVars, spawned, left>>

MonUnblock ==
  /\ mon.pc = "unblock"
  /\ \/ SyncInodes(mon.gpu, FALSE) /\ UNCHANGED left
     \/ SyncInodesFails(mon.gpu, FALSE)
  /\ mon' = MonIdle
  /\ UNCHANGED <<phase, transition, task, modeVars, gpuVars, blk, worldVars, spawned>>

(* The user's cable: external.                                                *)
Plug(g) ==
  /\ Spend("plug")
  /\ displays' = IF g \in displays THEN displays \ {g} ELSE displays \cup {g}
  /\ UNCHANGED <<phase, transition, task, modeVars, nodes, gpuVars, blk, mon, powerd, spawned>>

-----------------------------------------------------------------------------
Transition(c) == \/ BeginTransition(c) \/ ApplyGpu(c) \/ WriteModeMap(c)
                 \/ Commit(c) \/ FinishSave(c) \/ Notify(c)
BlockCall(g)  == ProbeBlock(g) \/ SyncBlock(g) \/ SaveBlock(g) \/ FinishSaveBlock(g)
Monitor       == MonMode \/ MonDecide \/ MonRestore \/ MonUnblock

(* main waits for ever: nothing to do until something calls.                  *)
Rest ==
  /\ phase = "serving" /\ mon.pc = "idle"
  /\ \A c \in Caller : task[c].pc = "idle"
  /\ \A g \in Gpu : blk[g].pc = "idle"
  /\ UNCHANGED vars

Next ==
  \/ Rest
  \/ Boot \/ Crash \/ Exit
  \/ \E c \in Clients, m \in Mode : ClientSetsMode(c, m)
  \/ \E onBattery \in BOOLEAN : BatteryChanged(onBattery)
  \/ \E c \in Caller : Transition(c)
  \/ \E kind \in {"started", "stopped"} : RunPowerd(kind)
  \/ \E g \in Gpu, block \in BOOLEAN : SetBlock(g, block)
  \/ \E g \in Gpu : BlockCall(g)
  \/ \E g \in Gpu : MonProbe(g)
  \/ Monitor
  \/ \E g \in Available : Plug(g)

Spec == Init /\ [][Next]_vars

(* Every started handler goes on: the runtime polls each ready task, systemd  *)
(* restarts the daemon (Restart=on-failure) and the retry timer makes the     *)
(* monitor look at each card again.  The transition mutex and the locks of     *)
(* mode_state and gpu_state are FIFO, so a waiter gets them even if others     *)
(* keep taking them.                                                          *)
Fairness ==
  /\ WF_vars(Boot) /\ WF_vars(Exit)
  /\ \A c \in Caller : /\ SF_vars(BeginTransition(c))
                       /\ WF_vars(Transition(c))
  /\ \A g \in Gpu : WF_vars(BlockCall(g)) /\ SF_vars(SaveBlock(g))
  /\ \A g \in Gpu : SF_vars(MonProbe(g))
  /\ WF_vars(Monitor) /\ SF_vars(MonMode)
  /\ \A kind \in {"started", "stopped"} : WF_vars(RunPowerd(kind))

FairSpec == Spec /\ Fairness

-----------------------------------------------------------------------------
(* Properties                                                                *)

Settled  == phase = "serving" /\ transition = NoCaller
Unfailed == left.fault = MaxFaults

(* Between transitions the mode the eBPF programs enforce is the mode the     *)
(* Mode property reports, whatever failed before (internal_set_mode leaves    *)
(* both alone or changes both).                                               *)
KernelMatchesReported == Settled => KernelMode[modeMap] = reported

(* Mode switching implements the two-faced register: what a step leaves in    *)
(* mode_state is always what the kernel already enforces, and a transition    *)
(* that is refused or fails shows in neither.                                 *)
Register == INSTANCE ModeRegister WITH
  Offered   <- AvailableModes,
  published <- IF phase = "serving" THEN reported ELSE "none",
  enforced  <- IF phase = "serving" THEN KernelMode[modeMap] ELSE "none"
ImplementsRegister == Register!Spec

(* No request, saved state, failure half way, restart or race ever hides the  *)
(* GPU that drives the desktop (set_block, apply_mode).                        *)
DefaultNeverBlocked == \A g \in Gpu : IsDefault(g) => "blocked" \notin nodes[g]

(* The mode in force is one that AvailableModes offers, even after a start    *)
(* from a file written on other hardware (apply_mode_at_startup).             *)
ReportedIsOffered == phase = "serving" => reported \in AvailableModes

(* Until something fails, on a laptop the offload GPU is hidden exactly in    *)
(* the modes that hide it, however requests overlap (the transition lock      *)
(* spans the GPU loop, the mode map and mode_state).                          *)
OffloadHiddenAsReported ==
  Unfailed /\ Settled /\ SystemType = "Laptop" =>
    \A g \in Offload : nodes[g] = {NodeStateOf(reported # "hybrid")}

(* The display override never changes the mode a restart would apply          *)
(* (reconcile_gpu passes save = false).                                       *)
OverrideNotPersisted == [][transition = "display" => UNCHANGED modeFile]_vars

(* Until something fails gpu_state.json holds the saved state of every GPU as *)
(* soon as no call is writing it: calls on different GPUs that overlap never  *)
(* write a file that misses the other's change (save_state, under the         *)
(* gpu_state lock).                                                           *)
SavedStatesComplete ==
  Unfailed /\ Settled /\ (\A g \in Gpu : blk[g].pc # "saving") => gpuFile = gpuSaved

(* Every mode request is answered, and the daemon always comes back to serve. *)
RequestsReturn == \A c \in Caller : task[c].pc # "idle" ~> task[c].pc = "idle"
EventuallyServing == phase = "down" ~> phase = "serving"

(* A transition that failed half way does not leave the offload GPU visible   *)
(* for good: with the display switch on and no display connected, the retry   *)
(* of the monitor applies the persisted mode again (reconcile_gpu), unless     *)
(* saving the mode failed too and the file still holds one that this hardware  *)
(* refuses.  A GPU with one key blocked counts as hidden: the monitor acts     *)
(* on what gpu_blocked answers, which looks at some of the keys only.          *)
OffloadEventuallyHidden ==
  \A g \in Offload :
    (phase = "serving" /\ reported \in {"integrated", "smart"} /\ nodes[g] = {"open"}) ~>
      (\/ phase # "serving" \/ reported = "hybrid" \/ displays # {} \/ "blocked" \in nodes[g]
       \/ ~Supported(Parsed(modeFile)))

-----------------------------------------------------------------------------
(* What the proofs of the properties above need to be inductive.              *)

InTransition == {"applying", "commit", "saving", "notifying"}

(* Exactly the call that holds the transition lock is inside a transition,    *)
(* also after a failure has dropped its guard (internal_set_mode), and before *)
(* the daemon serves only the start-up call runs.                             *)
LockDiscipline ==
  /\ \A c \in Caller : transition = c <=> task[c].pc \in InTransition
  /\ phase \in {"boot", "fallback"} <=> task["startup"].pc # "idle"
  /\ phase # "serving" => \A c \in Caller \ {"startup"} : task[c].pc = "idle"

(* Kernel and mode_state differ only between the two writes of one call.       *)
FacesAgree ==
  /\ \A c \in Caller : /\ task[c].pc \in {"commit", "saving", "notifying"} =>
                           KernelMode[modeMap] = task[c].mode
                       /\ task[c].pc \in {"saving", "notifying"} => reported = task[c].mode
  /\ phase = "serving" /\ (\A c \in Caller : task[c].pc # "commit") =>
       KernelMode[modeMap] = reported

(* What a call has decided to do and not done yet is allowed.                  *)
IntentsAllowed ==
  /\ \A c \in Caller : \A g \in task[c].hide : ~IsDefault(g)
  /\ \A c \in Caller : task[c].pc \in InTransition => Supported(task[c].mode)
  /\ \A g \in Gpu : blk[g].block => ~IsDefault(g)

IInv == /\ TypeOK /\ LockDiscipline /\ FacesAgree /\ IntentsAllowed
        /\ DefaultNeverBlocked /\ ReportedIsOffered

-----------------------------------------------------------------------------
(* Claims of the documentation and the comments that the code does not keep.  *)

(* "It restores the requested mode after the display is disconnected"         *)
(* (usage.md): but under an override the mode is Hybrid, and reconcile_gpu's  *)
(* Hybrid arm does nothing.                                                   *)
RequestedModeRestored ==
  (phase = "serving" /\ displays = {}) ~>
    (phase # "serving" \/ displays # {} \/ reported = modeFile)
=============================================================================
