------------------------ MODULE GpuVisibilityProofs ------------------------
(* What TLAPS proves of the mode tables, of the mode control and of what it    *)
(* lets a process see, for every set of GPUs and clients and every bound: no   *)
(* fault, crash or interleaving is limited to an instance.                    *)
EXTENDS GpuVisibility, FiniteSetTheorems, WellFoundedInduction, TLAPS

(***************************************************************************)
(* The mode tables (GpuPolicy)                                             *)
(***************************************************************************)

(* The daemon and the eBPF programs declare the mode numbers on their own;    *)
(* the two tables agree (From<Modes> for u32, main.rs constants).             *)
THEOREM ModeEncoding ==
  \A m \in Mode : ModeNumber[m] \in 0..3 /\ KernelMode[ModeNumber[m]] = m
BY DEF Mode, ModeNumber, KernelMode

(* A client may request exactly the modes it is offered: available_modes and  *)
(* the refusals of apply_mode decide alike on every system.                   *)
THEOREM OffersWhatItSupports == AvailableModes = {m \in Mode : Supported(m)}
<1>1. SystemType \in {"Manual", "Desktop", "Laptop"}
  BY DEF SystemType
<1>2. QED
  BY <1>1 DEF AvailableModes, Supported, Mode

(* A transition touches GPUs that are available, and hides some of these, but *)
(* never the default one.                                                     *)
THEOREM HidesOnlyOffloadGpus ==
  ASSUME NEW m \in Mode, NEW saved, NEW autoApply
  PROVE  /\ Touched(m) \subseteq Available
         /\ Hidden(m, saved, autoApply) \subseteq Touched(m)
         /\ \A g \in Hidden(m, saved, autoApply) : ~IsDefault(g)
BY DEF Mode, Touched, Hidden, Offload, Blockable

(* A system that offers Integrated and Smart has one GPU to hide, and it is   *)
(* not the one that drives the desktop.                                       *)
THEOREM LaptopHidesTheOther ==
  ASSUME SystemType = "Laptop"
  PROVE  /\ Offload = Available \ {0}
         /\ 0 \in Available \ Discrete
<1>1. Cardinality(Available) = 2
  BY DEF SystemType
<1>2. PICK d \in Available : IsDefault(d) /\ d \notin Discrete
  BY DEF SystemType
<1>3. PICK o \in Available : ~IsDefault(o) /\ o \in Discrete
  BY DEF SystemType
<1>4. /\ IsFiniteSet(Available \ {0})
      /\ Cardinality(Available \ {0}) = 1
  <2>1. IsFiniteSet(Available)
    BY GpuAssumption, FS_Subset
  <2>2. 0 \in Available
    BY <1>2 DEF IsDefault
  <2>3. QED
    BY <1>1, <2>1, <2>2, FS_RemoveElement
<1>5. Available \ {0} = {o}
  BY <1>3, <1>4, FS_Singleton DEF IsDefault
<1>6. QED
  BY <1>2, <1>3, <1>5 DEF Offload, IsDefault

(***************************************************************************)
(* Mode control (ModeControl): type correctness                             *)
(***************************************************************************)

LEMMA SyncTypes ==
  ASSUME TypeOK, NEW g, NEW block,
         SyncInodes(g, block) \/ SyncInodesFails(g, block)
  PROVE  nodes' \in [Gpu -> SUBSET NodeState]
<1>1. NodeStateOf(block) \in NodeState
  BY DEF NodeStateOf, NodeState
<1>2. QED
  BY <1>1 DEF TypeOK, SyncInodes, SyncInodesFails

LEMMA SpendTypes ==
  ASSUME TypeOK, NEW b \in {"request", "fault", "stop", "plug"}, Spend(b)
  PROVE  left' \in [request: Nat, fault: Nat, stop: Nat, plug: Nat]
BY DEF TypeOK, Spend

(* The state of a call after it returned or gave up. *)
LEMMA ReturnTypes ==
  ASSUME TypeOK, NEW c \in Caller, NEW ok \in BOOLEAN, Return(c, ok)
  PROVE  /\ phase' \in {"down", "boot", "fallback", "serving", "failed"}
         /\ task' \in [Caller -> TaskState]
<1>1. Fallback \in TaskState /\ Idle \in TaskState
  BY DEF Fallback, Call, Idle, TaskState, Mode
<1>2. QED
  BY <1>1 DEF TypeOK, Return

THEOREM TypeCorrect == Spec => []TypeOK
<1>1. Init => TypeOK
  BY CallerAssumption, ModeEncoding
     DEF Init, TypeOK, Idle, BlkIdle, NoneSaved, MonIdle, Mode, NodeState, TaskState, BlkState, MonState
<1>2. TypeOK /\ [Next]_vars => TypeOK'
  <2> SUFFICES ASSUME TypeOK, [Next]_vars PROVE TypeOK'
    OBVIOUS
  <2> USE DEF TypeOK
  <2>1. CASE Boot
    BY <2>1 DEF Boot, Parsed, NoneSaved, Call, Idle, TaskState, Mode, worldVars
  <2>2. CASE Crash
    BY <2>2, SpendTypes, ModeEncoding DEF Crash, Vanish, Idle, BlkIdle, NoneSaved,
       MonIdle, gpuVars, worldVars, TaskState, BlkState, MonState, NodeState,
       Mode
  <2>3. CASE Exit
    BY <2>3, ModeEncoding DEF Exit, Vanish, Idle, BlkIdle, NoneSaved, MonIdle, gpuVars,
       worldVars, TaskState, BlkState, MonState, NodeState, Mode
  <2>4. ASSUME NEW c \in Clients, NEW m \in Mode, ClientSetsMode(c, m) PROVE TypeOK'
    BY <2>4, SpendTypes DEF ClientSetsMode, Request, Call, Idle, Caller,
       TaskState, modeVars, gpuVars, worldVars
  <2>5. ASSUME NEW onBattery \in BOOLEAN, BatteryChanged(onBattery) PROVE TypeOK'
    <3>1. "battery" \in Caller
      BY DEF Caller
    <3>2. \E m \in Mode : Call(m, TRUE) \in TaskState /\ task' = [task EXCEPT !["battery"] = Call(m, TRUE)]
      BY <2>5, CallerAssumption DEF BatteryChanged, Request, Call, Idle, TaskState, Mode
    <3>3. QED
      BY <2>5, <3>1, <3>2, SpendTypes DEF BatteryChanged, modeVars, gpuVars, worldVars
  <2>6. ASSUME NEW c \in Caller, BeginTransition(c) PROVE TypeOK'
    <3>1. CASE Supported(task[c].mode)
      <4>1. task[c].mode \in Mode
        BY DEF TaskState
      <4>2. /\ Touched(task[c].mode) \subseteq Available
            /\ Hidden(task[c].mode, gpuSaved, AutoApply) \subseteq Available
        BY <4>1, HidesOnlyOffloadGpus
      <4>3. task' \in [Caller -> TaskState]
        BY <2>6, <3>1, <4>2 DEF BeginTransition, TaskState
      <4>4. QED
        BY <2>6, <3>1, <4>3 DEF BeginTransition, modeVars, gpuVars, worldVars
    <3>2. CASE ~Supported(task[c].mode)
      BY <2>6, <3>2, ReturnTypes DEF BeginTransition, modeVars, gpuVars, worldVars
    <3>3. QED
      BY <3>1, <3>2
  <2>7. ASSUME NEW c \in Caller, ApplyGpu(c) PROVE TypeOK'
    <3>1. PICK g \in task[c].todo :
            \/ /\ SyncInodes(g, g \in task[c].hide)
               /\ task' = [task EXCEPT ![c].todo = @ \ {g}]
               /\ UNCHANGED <<phase, transition, left>>
            \/ /\ SyncInodesFails(g, g \in task[c].hide)
               /\ GiveUp(c)
      BY <2>7 DEF ApplyGpu
    <3>2. nodes' \in [Gpu -> SUBSET NodeState]
      <4> DEFINE block == g \in task[c].hide
      <4>1. SyncInodes(g, block) \/ SyncInodesFails(g, block)
        BY <3>1
      <4> HIDE DEF block
      <4>2. QED
        BY <4>1, SyncTypes
    <3>3. CASE task' = [task EXCEPT ![c].todo = @ \ {g}] /\ UNCHANGED <<phase, transition, left>>
      <4>1. task' \in [Caller -> TaskState]
        BY <3>3 DEF TaskState
      <4>2. QED
        BY <2>7, <3>2, <3>3, <4>1 DEF ApplyGpu, modeVars, gpuVars, worldVars
    <3>4. CASE Spend("fault") /\ GiveUp(c)
      BY <2>7, <3>2, <3>4, ReturnTypes, SpendTypes DEF ApplyGpu, GiveUp, modeVars, gpuVars, worldVars
    <3>5. QED
      BY <3>1, <3>3, <3>4 DEF SyncInodesFails
  <2>8. ASSUME NEW c \in Caller, WriteModeMap(c) PROVE TypeOK'
    <3>1. modeMap' \in 0..3
      BY <2>8, ModeEncoding DEF WriteModeMap, TaskState
    <3>2. CASE task' = [task EXCEPT ![c].pc = "commit"] /\ UNCHANGED <<phase, transition, left>>
      <4>1. task' \in [Caller -> TaskState]
        BY <3>2 DEF TaskState
      <4>2. QED
        BY <2>8, <3>1, <3>2, <4>1 DEF WriteModeMap, gpuVars, worldVars
    <3>3. CASE Spend("fault") /\ GiveUp(c)
      BY <2>8, <3>1, <3>3, ReturnTypes, SpendTypes DEF WriteModeMap, GiveUp, gpuVars, worldVars
    <3>4. QED
      BY <2>8, <3>2, <3>3 DEF WriteModeMap
  <2>9. ASSUME NEW c \in Caller, Commit(c) PROVE TypeOK'
    BY <2>9, SpendTypes DEF Commit, TaskState, gpuVars, worldVars
  <2>10. ASSUME NEW c \in Caller, FinishSave(c) PROVE TypeOK'
    BY <2>10, SpendTypes DEF FinishSave, TaskState, gpuVars, worldVars
  <2>11. ASSUME NEW c \in Caller, Notify(c) PROVE TypeOK'
    BY <2>11, ReturnTypes DEF Notify, modeVars, gpuVars, worldVars
  <2>12. ASSUME NEW kind \in {"started", "stopped"}, RunPowerd(kind) PROVE TypeOK'
    BY <2>12, SpendTypes DEF RunPowerd, modeVars, gpuVars
  <2>13. ASSUME NEW g \in Gpu, NEW block \in BOOLEAN, SetBlock(g, block) PROVE TypeOK'
    BY <2>13, SpendTypes DEF SetBlock, BlkIdle, NoneSaved, BlkState, modeVars, gpuVars,
       worldVars
  <2>14. ASSUME NEW g \in Gpu, ProbeBlock(g) PROVE TypeOK'
    <3>1. /\ BlkIdle \in BlkState
          /\ [blk[g] EXCEPT !.pc = "sync"] \in BlkState
      BY <2>14 DEF BlkIdle, NoneSaved, BlkState
    <3>2. \/ blk' = [blk EXCEPT ![g] = BlkIdle]
          \/ blk' = [blk EXCEPT ![g] = [blk[g] EXCEPT !.pc = "sync"]]
      BY <2>14 DEF ProbeBlock
    <3>3. blk' \in [Gpu -> BlkState]
      BY <3>1, <3>2
    <3>4. UNCHANGED left \/ Spend("fault")
      BY <2>14 DEF ProbeBlock
    <3>5. QED
      BY <2>14, <3>3, <3>4, SpendTypes DEF ProbeBlock, modeVars, gpuVars, worldVars
  <2>15. ASSUME NEW g \in Gpu, SyncBlock(g) PROVE TypeOK'
    <3>1. nodes' \in [Gpu -> SUBSET NodeState]
      BY <2>15, SyncTypes DEF SyncBlock, BlkState
    <3>2. CASE blk' = [blk EXCEPT ![g].pc = "save"] /\ UNCHANGED left
      <4>1. blk' \in [Gpu -> BlkState]
        BY <3>2 DEF BlkState
      <4>2. QED
        BY <2>15, <3>1, <3>2, <4>1 DEF SyncBlock, modeVars, gpuVars, worldVars
    <3>3. CASE blk' = [blk EXCEPT ![g] = BlkIdle] /\ Spend("fault")
      <4>1. blk' \in [Gpu -> BlkState]
        BY <3>3 DEF BlkIdle, NoneSaved, BlkState
      <4>2. QED
        BY <2>15, <3>1, <3>3, <4>1, SpendTypes DEF SyncBlock, modeVars, gpuVars, worldVars
    <3>4. QED
      BY <2>15, <3>2, <3>3 DEF SyncBlock, SyncInodesFails
  <2>16. ASSUME NEW g \in Gpu, SaveBlock(g) PROVE TypeOK'
    <3>1. gpuSaved' \in [Gpu -> BOOLEAN]
      BY <2>16 DEF SaveBlock, BlkState
    <3>2. CASE blk' = [blk EXCEPT ![g].pc = "saving", ![g].text = gpuSaved']
      <4> DEFINE b == [blk[g] EXCEPT !.pc = "saving", !.text = gpuSaved']
      <4>0. b \in BlkState /\ blk' = [blk EXCEPT ![g] = b]
        BY <3>1, <3>2 DEF BlkState
      <4>1. blk' \in [Gpu -> BlkState]
        BY <4>0
      <4>2. QED
        BY <2>16, <3>1, <4>1, SpendTypes DEF SaveBlock, modeVars, worldVars
    <3>3. CASE blk' = [blk EXCEPT ![g] = BlkIdle]
      <4>1. blk' \in [Gpu -> BlkState]
        BY <3>3 DEF BlkIdle, NoneSaved, BlkState
      <4>2. QED
        BY <2>16, <3>1, <4>1, SpendTypes DEF SaveBlock, modeVars, worldVars
    <3>4. QED
      BY <2>16, <3>2, <3>3 DEF SaveBlock
  <2>17. ASSUME NEW g \in Gpu, FinishSaveBlock(g) PROVE TypeOK'
    BY <2>17, SpendTypes DEF FinishSaveBlock, BlkIdle, NoneSaved, BlkState, modeVars,
       worldVars
  <2>18. ASSUME NEW g \in Gpu, MonProbe(g) PROVE TypeOK'
    <3>1. mon' \in MonState
      <4>1. [pc |-> "mode", gpu |-> g, active |-> g \in displays, mode |-> "hybrid"] \in MonState
        BY GpuAssumption DEF MonState, Mode
      <4>2. QED
        BY <2>18, <4>1 DEF MonProbe
    <3>2. UNCHANGED left \/ Spend("fault")
      BY <2>18 DEF MonProbe
    <3>3. QED
      BY <2>18, <3>1, <3>2, SpendTypes DEF MonProbe, modeVars, gpuVars, worldVars
  <2>19. CASE MonMode
    BY <2>19 DEF MonMode, MonIdle, MonState, Mode, modeVars, gpuVars,
       worldVars
  <2>20. CASE MonDecide
    <3>1. "display" \in Caller /\ Call("hybrid", FALSE) \in TaskState
      BY DEF Caller, Call, Idle, TaskState, Mode
    <3>2. task' \in [Caller -> TaskState]
      BY <2>20, <3>1 DEF MonDecide, Request, OverrideSaves
    <3>3. mon' = MonIdle \/ mon' = [mon EXCEPT !.pc = "restore"] \/ mon' = [mon EXCEPT !.pc = "unblock"]
      BY <2>20 DEF MonDecide
    <3>4. mon' \in MonState
      <4>1. MonIdle \in MonState
        BY DEF MonIdle, MonState, Mode
      <4>2. [mon EXCEPT !.pc = "restore"] \in MonState
        BY DEF MonState
      <4>3. [mon EXCEPT !.pc = "unblock"] \in MonState
        BY DEF MonState
      <4>4. QED
        BY <3>3, <4>1, <4>2, <4>3
    <3>5. UNCHANGED left \/ Spend("fault")
      BY <2>20 DEF MonDecide
    <3>6. QED
      BY <2>20, <3>2, <3>4, <3>5, SpendTypes DEF MonDecide, modeVars, gpuVars, worldVars
  <2>21. CASE MonRestore
    BY <2>21 DEF MonRestore, MonIdle, MonState, Request, Call, Idle, Parsed,
       TaskState, Mode, gpuVars, worldVars
  <2>22. CASE MonUnblock
    <3>1. nodes' \in [Gpu -> SUBSET NodeState]
      BY <2>22, SyncTypes DEF MonUnblock
    <3>2. mon' \in MonState /\ left' \in [request: Nat, fault: Nat, stop: Nat, plug: Nat]
      BY <2>22, SpendTypes DEF MonUnblock, SyncInodesFails, MonIdle, MonState, Mode
    <3>3. QED
      BY <2>22, <3>1, <3>2 DEF MonUnblock, modeVars, gpuVars, worldVars
  <2>23. ASSUME NEW g \in Available, Plug(g) PROVE TypeOK'
    BY <2>23, SpendTypes, GpuAssumption DEF Plug, modeVars, gpuVars
  <2>24. CASE UNCHANGED vars
    BY <2>24 DEF vars
  <2>25. QED
    BY <2>1, <2>2, <2>3, <2>4, <2>5, <2>6, <2>7, <2>8, <2>9, <2>10, <2>11, <2>12,
       <2>13, <2>14, <2>15, <2>16, <2>17, <2>18, <2>19, <2>20, <2>21, <2>22, <2>23, <2>24
       DEF Next, Rest, Transition, BlockCall, Monitor
<1>3. QED
  BY <1>1, <1>2, PTL DEF Spec

(***************************************************************************)
(* The transition lock                                                     *)
(***************************************************************************)

LEMMA CallerFacts ==
  /\ NoCaller \notin Caller
  /\ {"startup", "battery", "display"} \subseteq Caller
  /\ Clients \subseteq Caller \ {"startup"}
BY CallerAssumption DEF Caller, NoCaller

(* The steps of Block calls, of the monitor and of the surroundings leave the *)
(* transition alone.                                                          *)
LEMMA OtherSteps ==
  ASSUME [Next]_vars
  PROVE  \/ Boot \/ Crash \/ Exit
         \/ \E c \in Clients, m \in Mode : ClientSetsMode(c, m)
         \/ \E onBattery \in BOOLEAN : BatteryChanged(onBattery)
         \/ \E c \in Caller : Transition(c)
         \/ MonDecide \/ MonRestore
         \/ UNCHANGED <<phase, transition, task, reported, modeFile, modeMap>>
<1>1. CASE \E g \in Gpu : BlockCall(g)
  BY <1>1 DEF BlockCall, ProbeBlock, SyncBlock, SaveBlock, FinishSaveBlock, modeVars
<1>2. CASE \E g \in Gpu, block \in BOOLEAN : SetBlock(g, block)
  BY <1>2 DEF SetBlock, modeVars
<1>3. CASE \E g \in Gpu : MonProbe(g)
  BY <1>3 DEF MonProbe, modeVars
<1>4. CASE MonMode \/ MonUnblock
  BY <1>4 DEF MonMode, MonUnblock, modeVars
<1>5. CASE \E kind \in {"started", "stopped"} : RunPowerd(kind)
  BY <1>5 DEF RunPowerd, modeVars
<1>6. CASE \E g \in Available : Plug(g)
  BY <1>6 DEF Plug, modeVars
<1>7. CASE Rest \/ UNCHANGED vars
  BY <1>7 DEF Rest, vars
<1>8. QED
  BY <1>1, <1>2, <1>3, <1>4, <1>5, <1>6, <1>7 DEF Next, Monitor

LEMMA IdleFallback == Idle.pc = "idle" /\ Fallback.pc = "waiting"
BY DEF Idle, Fallback, Call

(* A call enters and leaves the transition together with the lock, whether it *)
(* succeeds or gives up, and until the daemon serves only start-up has one    *)
(* (internal_set_mode, apply_mode_at_startup).                                *)
THEOREM LockDisciplineHolds == Spec => []LockDiscipline
<1>1. Init => LockDiscipline
  BY CallerFacts DEF Init, LockDiscipline, InTransition, Idle
<1>2. TypeOK /\ LockDiscipline /\ [Next]_vars => LockDiscipline'
  <2> SUFFICES ASSUME TypeOK, LockDiscipline, [Next]_vars PROVE LockDiscipline'
    OBVIOUS
  <2> USE CallerFacts DEF TypeOK, LockDiscipline, InTransition
  <2>1. CASE Boot
    BY <2>1 DEF Boot, Call, Idle
  <2>2. CASE Crash \/ Exit
    BY <2>2 DEF Crash, Exit, Vanish, Idle
  <2>3. ASSUME NEW c \in Caller \ {"startup"}, NEW m \in Mode, NEW save, Request(c, m, save),
               UNCHANGED <<phase, transition>>
        PROVE  LockDiscipline'
    BY <2>3 DEF Request, Call, Idle
  <2>4. ASSUME NEW c \in Caller, Return(c, FALSE), task[c].pc # "idle",
               \/ transition = c /\ transition' = NoCaller
               \/ transition # c /\ UNCHANGED transition
        PROVE  LockDiscipline'
    <3>1. CASE task' = [task EXCEPT ![c] = Idle] /\ (c # "startup" => phase' = phase)
                                               /\ (c = "startup" => phase' = "failed")
      BY <2>4, <3>1, IdleFallback
    <3>2. CASE c = "startup" /\ task' = [task EXCEPT ![c] = Fallback] /\ phase' = "fallback"
      BY <2>4, <3>2, IdleFallback
    <3>3. QED
      BY <2>4, <3>1, <3>2 DEF Return
  <2>5. ASSUME NEW c \in Caller, BeginTransition(c) PROVE LockDiscipline'
    <3>1. CASE Supported(task[c].mode)
      BY <2>5, <3>1 DEF BeginTransition, TransitionFree, TaskState
    <3>2. CASE ~Supported(task[c].mode)
      BY <2>4, <2>5, <3>2 DEF BeginTransition
    <3>3. QED
      BY <3>1, <3>2
  <2>6. ASSUME NEW c \in Caller, ApplyGpu(c) PROVE LockDiscipline'
    <3>1. CASE GiveUp(c)
      BY <2>4, <2>6, <3>1 DEF ApplyGpu, GiveUp
    <3>2. CASE \E g \in task[c].todo : task' = [task EXCEPT ![c].todo = @ \ {g}] /\ UNCHANGED <<phase, transition>>
      BY <2>6, <3>2 DEF TaskState
    <3>3. QED
      BY <2>6, <3>1, <3>2 DEF ApplyGpu
  <2>7. ASSUME NEW c \in Caller, WriteModeMap(c) PROVE LockDiscipline'
    <3>1. CASE GiveUp(c)
      BY <2>4, <2>7, <3>1 DEF WriteModeMap, GiveUp
    <3>2. CASE task' = [task EXCEPT ![c].pc = "commit"] /\ UNCHANGED <<phase, transition>>
      BY <2>7, <3>2 DEF WriteModeMap, TaskState
    <3>3. QED
      BY <2>7, <3>1, <3>2 DEF WriteModeMap
  <2>8. ASSUME NEW c \in Caller, Commit(c) \/ FinishSave(c) PROVE LockDiscipline'
    BY <2>8 DEF Commit, FinishSave, TaskState
  <2>9. ASSUME NEW c \in Caller, Notify(c) PROVE LockDiscipline'
    BY <2>9 DEF Notify, Return, Idle
  <2>10. CASE UNCHANGED <<phase, transition, task>>
    BY <2>10
  <2>11. CASE MonDecide \/ MonRestore
    <3>1. \/ UNCHANGED <<phase, transition, task>>
          \/ \E m \in Mode, save \in BOOLEAN :
               Request("display", m, save) /\ UNCHANGED <<phase, transition>>
      BY <2>11 DEF MonDecide, MonRestore, OverrideSaves, Parsed, Mode
    <3>2. QED
      BY <2>3, <2>10, <3>1
  <2>12. CASE \E c \in Clients, m \in Mode : ClientSetsMode(c, m)
    BY <2>3, <2>12 DEF ClientSetsMode
  <2>13. CASE \E onBattery \in BOOLEAN : BatteryChanged(onBattery)
    <3>1. \E m \in Mode : Request("battery", m, TRUE)
      BY <2>13, CallerAssumption DEF BatteryChanged, Mode
    <3>2. QED
      BY <2>3, <2>13, <3>1 DEF BatteryChanged
  <2>14. QED
    BY <2>1, <2>2, <2>5, <2>6, <2>7, <2>8, <2>9, <2>10, <2>11, <2>12, <2>13, OtherSteps DEF Transition
<1>3. QED
  BY <1>1, <1>2, TypeCorrect, PTL DEF Spec

(***************************************************************************)
(* The kernel and mode_state                                               *)
(***************************************************************************)

(* Only the call that is committing can hold them apart, and what it is going *)
(* to write is what the kernel has (update_mode_bpf_map, then save_state).     *)
THEOREM FacesAgreeHolds == Spec => []FacesAgree
<1>1. Init => FacesAgree
  BY DEF Init, FacesAgree, Idle
<1>2. TypeOK /\ LockDiscipline /\ FacesAgree /\ [Next]_vars => FacesAgree'
  <2> SUFFICES ASSUME TypeOK, LockDiscipline, FacesAgree, [Next]_vars PROVE FacesAgree'
    OBVIOUS
  <2> USE CallerFacts DEF TypeOK, LockDiscipline, FacesAgree, InTransition
  <2>1. CASE Boot
    BY <2>1 DEF Boot, Call, Idle
  <2>2. CASE Crash \/ Exit
    BY <2>2 DEF Crash, Exit, Vanish, Idle
  <2>3. ASSUME NEW c \in Caller, NEW m \in Mode, NEW save, Request(c, m, save),
               UNCHANGED <<phase, reported, modeMap>>
        PROVE  FacesAgree'
    BY <2>3 DEF Request, Call, Idle
  <2>4. ASSUME NEW c \in Caller, Return(c, FALSE), task[c].pc \in {"waiting", "applying"},
               UNCHANGED <<reported, modeMap>>
        PROVE  FacesAgree'
    <3>1. CASE task' = [task EXCEPT ![c] = Idle] /\ (phase' = phase \/ phase' = "failed")
      BY <2>4, <3>1, IdleFallback
    <3>2. CASE task' = [task EXCEPT ![c] = Fallback] /\ phase' = "fallback"
      BY <2>4, <3>2, IdleFallback
    <3>3. QED
      BY <2>4, <3>1, <3>2 DEF Return
  <2>5. ASSUME NEW c \in Caller, BeginTransition(c) PROVE FacesAgree'
    <3>1. CASE Supported(task[c].mode)
      BY <2>5, <3>1 DEF BeginTransition, TransitionFree, TaskState, modeVars
    <3>2. CASE ~Supported(task[c].mode)
      BY <2>4, <2>5, <3>2 DEF BeginTransition, modeVars
    <3>3. QED
      BY <3>1, <3>2
  <2>6. ASSUME NEW c \in Caller, ApplyGpu(c) PROVE FacesAgree'
    <3>1. CASE GiveUp(c)
      BY <2>4, <2>6, <3>1 DEF ApplyGpu, GiveUp, modeVars
    <3>2. CASE \E g \in task[c].todo : task' = [task EXCEPT ![c].todo = @ \ {g}] /\ UNCHANGED phase
      BY <2>6, <3>2 DEF ApplyGpu, TaskState, modeVars
    <3>3. QED
      BY <2>6, <3>1, <3>2 DEF ApplyGpu
  <2>7. ASSUME NEW c \in Caller, WriteModeMap(c) PROVE FacesAgree'
    <3>1. CASE GiveUp(c) /\ UNCHANGED modeMap
      BY <2>4, <2>7, <3>1 DEF WriteModeMap, GiveUp
    <3>2. CASE task' = [task EXCEPT ![c].pc = "commit"] /\ modeMap' = ModeNumber[task[c].mode]
      <4>1. KernelMode[modeMap'] = task[c].mode
        BY <3>2, ModeEncoding DEF TaskState
      <4>2. QED
        BY <2>7, <3>2, <4>1 DEF WriteModeMap, TaskState
    <3>3. QED
      BY <2>7, <3>1, <3>2 DEF WriteModeMap
  <2>8. ASSUME NEW c \in Caller, Commit(c) PROVE FacesAgree'
    BY <2>8 DEF Commit, TaskState
  <2>9. ASSUME NEW c \in Caller, FinishSave(c) PROVE FacesAgree'
    BY <2>9 DEF FinishSave, TaskState
  <2>10. ASSUME NEW c \in Caller, Notify(c) PROVE FacesAgree'
    BY <2>10, IdleFallback DEF Notify, Return, modeVars
  <2>11. CASE UNCHANGED <<phase, transition, task, reported, modeMap>>
    BY <2>11
  <2>12. CASE MonDecide \/ MonRestore
    <3>1. /\ UNCHANGED <<phase, reported, modeMap>>
          /\ \/ UNCHANGED <<transition, task>>
             \/ \E m \in Mode, save \in BOOLEAN : Request("display", m, save)
      BY ZenonT(30), <2>12 DEF MonDecide, MonRestore, OverrideSaves, Parsed, Mode, modeVars
    <3>2. QED
      BY <2>3, <2>11, <3>1
  <2>13. CASE \E c \in Clients, m \in Mode : ClientSetsMode(c, m)
    BY <2>3, <2>13 DEF ClientSetsMode, modeVars
  <2>14. CASE \E onBattery \in BOOLEAN : BatteryChanged(onBattery)
    <3>1. \E m \in Mode : Request("battery", m, TRUE)
      BY <2>14, CallerAssumption DEF BatteryChanged, Mode
    <3>2. QED
      BY <2>3, <2>14, <3>1 DEF BatteryChanged, modeVars
  <2>15. QED
    BY <2>1, <2>2, <2>5, <2>6, <2>7, <2>8, <2>9, <2>10, <2>11, <2>12, <2>13, <2>14, OtherSteps
       DEF Transition
<1>3. QED
  BY <1>1, <1>2, TypeCorrect, LockDisciplineHolds, PTL DEF Spec

(* Whatever fails, crashes or overlaps: when no transition is in progress the *)
(* eBPF programs enforce the mode the Mode property reports.                  *)
THEOREM KernelAlwaysMatches == Spec => []KernelMatchesReported
<1>1. TypeOK /\ LockDiscipline /\ FacesAgree => KernelMatchesReported
  BY CallerFacts DEF TypeOK, LockDiscipline, InTransition, FacesAgree, KernelMatchesReported, Settled
<1>2. QED
  BY <1>1, TypeCorrect, LockDisciplineHolds, FacesAgreeHolds, PTL

(***************************************************************************)
(* What a call may do                                                      *)
(***************************************************************************)

(* Every transition under way is to a supported mode and will not hide the    *)
(* default GPU, nor will a Block call under way (apply_mode, set_block).       *)
THEOREM IntentsAllowedHold == Spec => []IntentsAllowed
<1>1. Init => IntentsAllowed
  BY DEF Init, IntentsAllowed, Idle, BlkIdle, InTransition
<1>2. TypeOK /\ IntentsAllowed /\ [Next]_vars => IntentsAllowed'
  <2> SUFFICES ASSUME TypeOK, IntentsAllowed, [Next]_vars PROVE IntentsAllowed'
    OBVIOUS
  <2> USE CallerFacts DEF TypeOK, IntentsAllowed, InTransition
  <2> DEFINE Harmless(t) == t.hide = {} /\ t.pc \notin InTransition
  <2>1. /\ Harmless(Idle) /\ Harmless(Fallback)
        /\ \A m \in Mode, save \in BOOLEAN : Harmless(Call(m, save))
    BY DEF Idle, Fallback, Call
  <2>2. ASSUME NEW c \in Caller, NEW t, Harmless(t), task' = [task EXCEPT ![c] = t], UNCHANGED blk
        PROVE  IntentsAllowed'
    BY <2>2
  <2>3. ASSUME NEW c \in Caller, NEW ok \in BOOLEAN, Return(c, ok), UNCHANGED blk
        PROVE  IntentsAllowed'
    <3>1. task' = [task EXCEPT ![c] = Idle] \/ task' = [task EXCEPT ![c] = Fallback]
      BY <2>3 DEF Return
    <3>2. QED
      BY <2>1, <2>2, <2>3, <3>1
  <2>4. CASE Boot
    BY <2>1, <2>2, <2>4 DEF Boot, Parsed, Mode
  <2>5. CASE Crash \/ Exit
    BY <2>5 DEF Crash, Exit, Vanish, Idle, BlkIdle
  <2>6. ASSUME NEW c \in Caller, BeginTransition(c) PROVE IntentsAllowed'
    <3>1. CASE Supported(task[c].mode)
      <4> DEFINE hide == Hidden(task[c].mode, gpuSaved, AutoApply)
      <4>1. \A g \in hide : ~IsDefault(g)
        BY HidesOnlyOffloadGpus DEF TaskState
      <4> HIDE DEF hide
      <4>2. /\ task' = [task EXCEPT ![c].pc = "applying", ![c].todo = Touched(task[c].mode), ![c].hide = hide]
            /\ UNCHANGED blk
        BY <2>6, <3>1 DEF BeginTransition, hide
      <4>3. task'[c].hide = hide /\ task'[c].mode = task[c].mode
        BY <4>2 DEF TaskState
      <4>4. \A d \in Caller \ {c} : task'[d] = task[d]
        BY <4>2
      <4>5. QED
        BY <3>1, <4>1, <4>2, <4>3, <4>4
    <3>2. CASE ~Supported(task[c].mode)
      BY <2>3, <2>6, <3>2 DEF BeginTransition
    <3>3. QED
      BY <3>1, <3>2
  <2>7. ASSUME NEW c \in Caller, ApplyGpu(c) PROVE IntentsAllowed'
    <3>1. CASE GiveUp(c)
      BY <2>3, <2>7, <3>1 DEF ApplyGpu, GiveUp
    <3>2. CASE \E g \in task[c].todo : task' = [task EXCEPT ![c].todo = @ \ {g}]
      BY <2>7, <3>2 DEF ApplyGpu, TaskState
    <3>3. QED
      BY <2>7, <3>1, <3>2 DEF ApplyGpu
  <2>8. ASSUME NEW c \in Caller, WriteModeMap(c) PROVE IntentsAllowed'
    <3>1. CASE GiveUp(c)
      BY <2>3, <2>8, <3>1 DEF WriteModeMap, GiveUp
    <3>2. CASE task' = [task EXCEPT ![c].pc = "commit"]
      BY <2>8, <3>2 DEF WriteModeMap, TaskState
    <3>3. QED
      BY <2>8, <3>1, <3>2 DEF WriteModeMap
  <2>9. ASSUME NEW c \in Caller, Commit(c) \/ FinishSave(c) PROVE IntentsAllowed'
    <3>1. /\ task[c].pc \in {"commit", "saving"} /\ UNCHANGED blk
          /\ \E pc \in {"saving", "notifying"} : task' = [task EXCEPT ![c].pc = pc]
      BY <2>9 DEF Commit, FinishSave
    <3>2. QED
      BY <3>1 DEF TaskState
  <2>10. ASSUME NEW c \in Caller, Notify(c) PROVE IntentsAllowed'
    BY <2>3, <2>10 DEF Notify
  <2>11. ASSUME NEW g \in Gpu, BlockCall(g) PROVE IntentsAllowed'
    <3>1. UNCHANGED task
      BY <2>11 DEF BlockCall, ProbeBlock, SyncBlock, SaveBlock, FinishSaveBlock
    <3>2. \/ blk' = [blk EXCEPT ![g] = BlkIdle]
          \/ \E pc : blk' = [blk EXCEPT ![g].pc = pc]
          \/ \E pc, text : blk' = [blk EXCEPT ![g].pc = pc, ![g].text = text]
      BY <2>11 DEF BlockCall, ProbeBlock, SyncBlock, SaveBlock, FinishSaveBlock
    <3>3. \A h \in Gpu : blk'[h].block => blk[h].block
      <4>1. CASE blk' = [blk EXCEPT ![g] = BlkIdle]
        BY <4>1 DEF BlkIdle
      <4>2. CASE \E pc : blk' = [blk EXCEPT ![g].pc = pc]
        BY <4>2 DEF BlkState
      <4>3. CASE \E pc, text : blk' = [blk EXCEPT ![g].pc = pc, ![g].text = text]
        BY <4>3 DEF BlkState
      <4>4. QED
        BY <3>2, <4>1, <4>2, <4>3
    <3>4. QED
      BY <3>1, <3>3
  <2>12. ASSUME NEW g \in Gpu, NEW block \in BOOLEAN, SetBlock(g, block) PROVE IntentsAllowed'
    BY <2>12 DEF SetBlock, Blockable, BlkIdle
  <2>13. CASE UNCHANGED <<task, blk>>
    BY <2>13
  <2>14. CASE \E c \in Caller, m \in Mode, save \in BOOLEAN : Request(c, m, save) /\ UNCHANGED blk
    BY <2>1, <2>2, <2>14 DEF Request
  <2>15. CASE MonDecide \/ MonRestore
    <3>1. \/ UNCHANGED <<task, blk>>
          \/ \E m \in Mode, save \in BOOLEAN : Request("display", m, save) /\ UNCHANGED blk
      BY <2>15 DEF MonDecide, MonRestore, OverrideSaves, Parsed, Mode
    <3>2. QED
      BY <2>13, <2>14, <3>1
  <2>16. CASE \E onBattery \in BOOLEAN : BatteryChanged(onBattery)
    <3>1. \E m \in Mode : Request("battery", m, TRUE) /\ UNCHANGED blk
      BY <2>16, CallerAssumption DEF BatteryChanged, Mode
    <3>2. QED
      BY <2>14, <3>1
  <2>17. CASE \E c \in Clients, m \in Mode : ClientSetsMode(c, m)
    BY <2>14, <2>17 DEF ClientSetsMode
  <2>18. CASE MonMode \/ MonUnblock \/ \E g \in Gpu : MonProbe(g)
    BY <2>13, <2>18 DEF MonMode, MonUnblock, MonProbe
  <2>19. CASE \/ \E kind \in {"started", "stopped"} : RunPowerd(kind)
              \/ \E g \in Available : Plug(g)
              \/ Rest \/ UNCHANGED vars
    BY <2>13, <2>19 DEF RunPowerd, Plug, Rest, vars
  <2>20. QED
    BY <2>4, <2>5, <2>6, <2>7, <2>8, <2>9, <2>10, <2>11, <2>12, <2>15, <2>16, <2>17, <2>18, <2>19
       DEF Next, Transition, Monitor
<1>3. QED
  BY <1>1, <1>2, TypeCorrect, PTL DEF Spec

(* No request, saved state, failure half way, restart or race hides the GPU   *)
(* that drives the desktop (sync_inodes under apply_mode, set_block and the   *)
(* display monitor).                                                          *)
THEOREM DefaultStaysVisible == Spec => []DefaultNeverBlocked
<1>1. Init => DefaultNeverBlocked
  BY DEF Init, DefaultNeverBlocked
<1>2. TypeOK /\ IntentsAllowed /\ DefaultNeverBlocked /\ [Next]_vars => DefaultNeverBlocked'
  <2> SUFFICES ASSUME TypeOK, IntentsAllowed, DefaultNeverBlocked, [Next]_vars
               PROVE  DefaultNeverBlocked'
    OBVIOUS
  <2> USE DEF TypeOK, DefaultNeverBlocked
  <2>1. ASSUME NEW g, NEW block, block => ~IsDefault(g),
               SyncInodes(g, block) \/ SyncInodesFails(g, block)
        PROVE  DefaultNeverBlocked'
    <3>1. IsDefault(g) => NodeStateOf(block) # "blocked"
      BY <2>1 DEF NodeStateOf
    <3>2. \A h \in Gpu : nodes'[h] \subseteq nodes[h] \cup (IF h = g THEN {NodeStateOf(block)} ELSE {})
      BY <2>1 DEF SyncInodes, SyncInodesFails
    <3>3. QED
      BY <3>1, <3>2
  <2>2. ASSUME NEW c \in Caller, ApplyGpu(c) PROVE DefaultNeverBlocked'
    <3>1. PICK g \in task[c].todo : \/ SyncInodes(g, g \in task[c].hide)
                                    \/ SyncInodesFails(g, g \in task[c].hide)
      BY <2>2 DEF ApplyGpu
    <3> DEFINE block == g \in task[c].hide
    <3>2. block => ~IsDefault(g)
      BY DEF IntentsAllowed
    <3>3. SyncInodes(g, block) \/ SyncInodesFails(g, block)
      BY <3>1
    <3> HIDE DEF block
    <3>4. QED
      BY <2>1, <3>2, <3>3
  <2>3. ASSUME NEW g \in Gpu, SyncBlock(g) PROVE DefaultNeverBlocked'
    BY <2>1, <2>3 DEF SyncBlock, IntentsAllowed
  <2>4. CASE MonUnblock
    BY <2>1, <2>4 DEF MonUnblock
  <2>5. CASE Crash \/ Exit
    BY <2>5 DEF Crash, Exit, Vanish
  <2>6. CASE UNCHANGED nodes
    BY <2>6
  <2>7. CASE Boot \/ MonMode \/ MonDecide \/ MonRestore \/ Rest \/ UNCHANGED vars
    BY <2>6, <2>7 DEF Boot, MonMode, MonDecide, MonRestore, Rest, vars
  <2>8. CASE \E c \in Caller : BeginTransition(c) \/ WriteModeMap(c) \/ Commit(c) \/ FinishSave(c) \/ Notify(c)
    BY <2>6, <2>8 DEF BeginTransition, WriteModeMap, Commit, FinishSave, Notify
  <2>9. CASE \/ \E c \in Clients, m \in Mode : ClientSetsMode(c, m)
             \/ \E onBattery \in BOOLEAN : BatteryChanged(onBattery)
             \/ \E kind \in {"started", "stopped"} : RunPowerd(kind)
             \/ \E g \in Available : Plug(g)
    BY <2>6, <2>9 DEF ClientSetsMode, BatteryChanged, RunPowerd, Plug
  <2>10. CASE \E g \in Gpu : \/ MonProbe(g) \/ ProbeBlock(g) \/ SaveBlock(g) \/ FinishSaveBlock(g)
                            \/ \E block \in BOOLEAN : SetBlock(g, block)
    BY <2>6, <2>10 DEF MonProbe, ProbeBlock, SaveBlock, FinishSaveBlock, SetBlock
  <2>11. QED
    BY <2>2, <2>3, <2>4, <2>5, <2>7, <2>8, <2>9, <2>10 DEF Next, Transition, BlockCall, Monitor
<1>3. QED
  BY <1>1, <1>2, TypeCorrect, IntentsAllowedHold, PTL DEF Spec

(* The mode in force is one the daemon offers on this system, whatever        *)
(* mode.json held when it started (apply_mode refuses the others).             *)
THEOREM ReportedAlwaysOffered == Spec => []ReportedIsOffered
<1>1. Init => ReportedIsOffered
  BY DEF Init, ReportedIsOffered
<1>2. /\ TypeOK /\ LockDiscipline /\ FacesAgree /\ IntentsAllowed
      /\ ReportedIsOffered /\ [Next]_vars
      => ReportedIsOffered'
  <2> SUFFICES ASSUME TypeOK, LockDiscipline, FacesAgree, IntentsAllowed, ReportedIsOffered, [Next]_vars
               PROVE  ReportedIsOffered'
    OBVIOUS
  <2> USE CallerFacts DEF TypeOK, ReportedIsOffered
  <2>1. CASE Boot \/ Crash \/ Exit
    BY <2>1 DEF Boot, Crash, Exit, Vanish
  <2>2. CASE UNCHANGED <<phase, reported>>
    BY <2>2
  <2>3. ASSUME NEW c, Return(c, FALSE), UNCHANGED reported PROVE ReportedIsOffered'
    BY <2>3 DEF Return
  <2>4. ASSUME NEW c \in Caller, Commit(c) PROVE ReportedIsOffered'
    BY <2>4, OffersWhatItSupports DEF Commit, IntentsAllowed, InTransition, TaskState
  <2>5. ASSUME NEW c \in Caller, Notify(c) PROVE ReportedIsOffered'
    <3>1. reported = task[c].mode /\ Supported(task[c].mode) /\ UNCHANGED reported
      BY <2>5 DEF Notify, FacesAgree, IntentsAllowed, InTransition, modeVars
    <3>2. QED
      BY <3>1, OffersWhatItSupports
  <2>6. ASSUME NEW c \in Caller, BeginTransition(c) \/ ApplyGpu(c) \/ WriteModeMap(c) \/ FinishSave(c)
        PROVE  ReportedIsOffered'
    BY <2>2, <2>3, <2>6 DEF BeginTransition, ApplyGpu, WriteModeMap, FinishSave, GiveUp, modeVars
  <2>7. CASE MonDecide \/ MonRestore
    BY <2>2, <2>7 DEF MonDecide, MonRestore, modeVars
  <2>8. CASE \/ \E c \in Clients, m \in Mode : ClientSetsMode(c, m)
             \/ \E onBattery \in BOOLEAN : BatteryChanged(onBattery)
    BY <2>2, <2>8 DEF ClientSetsMode, BatteryChanged, modeVars
  <2>9. QED
    BY <2>1, <2>2, <2>4, <2>5, <2>6, <2>7, <2>8, OtherSteps DEF Transition
<1>3. QED
  BY <1>1, <1>2, TypeCorrect, LockDisciplineHolds, FacesAgreeHolds, IntentsAllowedHold, PTL DEF Spec

(* The inductive invariant the runs check is the conjunction of the above.    *)
THEOREM InvariantHolds == Spec => []IInv
BY TypeCorrect, LockDisciplineHolds, FacesAgreeHolds, IntentsAllowedHold, DefaultStaysVisible,
   ReportedAlwaysOffered, PTL DEF IInv

(***************************************************************************)
(* The display override                                                    *)
(***************************************************************************)

DisplayNeverSaves == ~task["display"].save /\ task["display"].pc # "saving"

(* The display monitor asks for transitions that are not saved, whatever it   *)
(* decides (reconcile_gpu).                                                   *)
THEOREM DisplayNeverAsksToSave == Spec => []DisplayNeverSaves
<1>1. Init => DisplayNeverSaves
  BY CallerFacts DEF Init, DisplayNeverSaves, Idle
<1>2. TypeOK /\ DisplayNeverSaves /\ [Next]_vars => DisplayNeverSaves'
  <2> SUFFICES ASSUME TypeOK, DisplayNeverSaves, [Next]_vars PROVE DisplayNeverSaves'
    OBVIOUS
  <2> USE CallerFacts DEF TypeOK, DisplayNeverSaves
  <2>1. CASE Boot
    BY <2>1 DEF Boot
  <2>2. CASE Crash \/ Exit
    BY <2>2 DEF Crash, Exit, Vanish, Idle
  <2>3. CASE UNCHANGED task
    BY <2>3
  <2>4. ASSUME NEW c \in Caller, NEW ok, Return(c, ok) PROVE DisplayNeverSaves'
    BY <2>4, IdleFallback DEF Return, Idle
  <2>5. ASSUME NEW c \in Caller, Transition(c) PROVE DisplayNeverSaves'
    <3>1. CASE BeginTransition(c)
      <4>1. CASE Return(c, FALSE)
        BY <2>4, <4>1
      <4>2. CASE task' = [task EXCEPT ![c].pc   = "applying",
                                      ![c].todo = Touched(task[c].mode),
                                      ![c].hide = Hidden(task[c].mode, gpuSaved, AutoApply)]
        BY <4>2 DEF TaskState
      <4>3. QED
        BY <3>1, <4>1, <4>2 DEF BeginTransition
    <3>2. CASE ApplyGpu(c)
      <4>1. CASE Return(c, FALSE)
        BY <2>4, <4>1
      <4>2. ASSUME NEW g, task' = [task EXCEPT ![c].todo = @ \ {g}] PROVE DisplayNeverSaves'
        BY <4>2 DEF TaskState
      <4>3. QED
        BY <3>2, <4>1, <4>2 DEF ApplyGpu, GiveUp
    <3>3. CASE WriteModeMap(c)
      <4>1. CASE Return(c, FALSE)
        BY <2>4, <4>1
      <4>2. CASE task' = [task EXCEPT ![c].pc = "commit"]
        BY <4>2 DEF TaskState
      <4>3. QED
        BY <3>3, <4>1, <4>2 DEF WriteModeMap, GiveUp
    <3>4. CASE Commit(c)
      BY <3>4 DEF Commit, TaskState
    <3>5. CASE FinishSave(c)
      BY <3>5 DEF FinishSave, TaskState
    <3>6. CASE Notify(c)
      BY <2>4, <3>6 DEF Notify
    <3>7. QED
      BY <2>5, <3>1, <3>2, <3>3, <3>4, <3>5, <3>6 DEF Transition
  <2>6. CASE MonDecide \/ MonRestore
    <3>1. UNCHANGED task \/ \E m : Request("display", m, FALSE)
      BY <2>6 DEF MonDecide, MonRestore, OverrideSaves
    <3>2. CASE UNCHANGED task
      BY <2>3, <3>2
    <3>3. ASSUME NEW m, Request("display", m, FALSE) PROVE DisplayNeverSaves'
      <4>1. task' = [task EXCEPT !["display"] = Call(m, FALSE)]
        BY <3>3 DEF Request
      <4>2. task'["display"] = Call(m, FALSE)
        BY <4>1
      <4>3. ~Call(m, FALSE).save /\ Call(m, FALSE).pc # "saving"
        BY DEF Call, Idle
      <4>4. QED
        BY <4>2, <4>3
    <3>4. QED
      BY <3>1, <3>2, <3>3
  <2>7. CASE \/ \E c \in Clients, m \in Mode : ClientSetsMode(c, m)
             \/ \E onBattery \in BOOLEAN : BatteryChanged(onBattery)
    BY <2>7, CallerAssumption DEF ClientSetsMode, BatteryChanged, Request
  <2>8. QED
    BY <2>1, <2>2, <2>3, <2>5, <2>6, <2>7, OtherSteps
<1>3. QED
  BY <1>1, <1>2, TypeCorrect, PTL DEF Spec

(* No step taken while the display monitor holds the transition lock touches  *)
(* mode.json, so a restart applies the mode the user asked for, not the       *)
(* override (internal_set_mode with save = false).                            *)
THEOREM OverrideStaysTemporary == Spec => OverrideNotPersisted
<1>1. /\ TypeOK /\ LockDiscipline /\ DisplayNeverSaves /\ [Next]_vars
      => [transition = "display" => UNCHANGED modeFile]_vars
  <2> SUFFICES ASSUME TypeOK, LockDiscipline, DisplayNeverSaves, [Next]_vars, transition = "display"
               PROVE  UNCHANGED modeFile
    OBVIOUS
  <2>1. \A c \in Caller : c = "display" <=> task[c].pc \in InTransition
    BY DEF LockDiscipline
  <2>2. task["display"].pc # "idle"
    BY <2>1, CallerFacts DEF InTransition
  <2>3. phase = "serving"
    BY <2>2, CallerFacts DEF LockDiscipline
  <2>4. CASE Boot \/ Crash \/ Exit
    BY <2>3, <2>4 DEF Boot, Crash, Exit, Vanish
  <2>5. ASSUME NEW c \in Caller, Commit(c) PROVE UNCHANGED modeFile
    BY <2>1, <2>5 DEF Commit, InTransition, DisplayNeverSaves
  <2>6. ASSUME NEW c \in Caller, FinishSave(c) PROVE UNCHANGED modeFile
    BY <2>1, <2>6 DEF FinishSave, InTransition, DisplayNeverSaves
  <2>7. ASSUME NEW c \in Caller, BeginTransition(c) \/ ApplyGpu(c) \/ WriteModeMap(c) \/ Notify(c)
        PROVE  UNCHANGED modeFile
    BY <2>7 DEF BeginTransition, ApplyGpu, WriteModeMap, Notify, modeVars
  <2>8. CASE MonDecide \/ MonRestore
    BY <2>2, <2>8 DEF MonDecide, MonRestore, Request, modeVars
  <2>9. CASE \/ \E c \in Clients, m \in Mode : ClientSetsMode(c, m)
             \/ \E onBattery \in BOOLEAN : BatteryChanged(onBattery)
    BY <2>9 DEF ClientSetsMode, BatteryChanged, modeVars
  <2>10. QED
    BY <2>4, <2>5, <2>6, <2>7, <2>8, <2>9, OtherSteps DEF Transition
<1>2. QED
  BY <1>1, TypeCorrect, LockDisciplineHolds, DisplayNeverAsksToSave, PTL DEF Spec, OverrideNotPersisted

(***************************************************************************)
(* Until something fails                                                   *)
(***************************************************************************)

(* Faults are only spent: what has no fault now had none before.              *)
FaultsSpent == left.fault <= MaxFaults

LEMMA FaultsOnlySpent ==
  ASSUME TypeOK, FaultsSpent, [Next]_vars
  PROVE  FaultsSpent' /\ (Unfailed' => Unfailed)
<1>1. left \in [request: Nat, fault: Nat, stop: Nat, plug: Nat] /\ MaxFaults \in Nat
  BY CallerAssumption DEF TypeOK
<1> DEFINE Kept == left'.fault = left.fault \/ (left.fault > 0 /\ left'.fault = left.fault - 1)
<1>2. Kept
  <2>1. CASE UNCHANGED left
    BY <2>1
  <2>2. CASE Spend("fault")
    BY <2>2, <1>1 DEF Spend
  <2>3. CASE Spend("request") \/ Spend("stop") \/ Spend("plug")
    <3>1. \E k \in {"request", "stop", "plug"} : left' = [left EXCEPT ![k] = @ - 1]
      BY <2>3 DEF Spend
    <3>2. QED
      BY <3>1, <1>1
  <2> HIDE DEF Kept
  <2>4. CASE Boot \/ Crash \/ Exit \/ Rest \/ UNCHANGED vars
    BY <2>1, <2>3, <2>4 DEF Boot, Crash, Exit, Rest, vars
  <2>5. CASE \/ \E c \in Clients, m \in Mode : ClientSetsMode(c, m)
             \/ \E onBattery \in BOOLEAN : BatteryChanged(onBattery)
             \/ \E g \in Gpu, block \in BOOLEAN : SetBlock(g, block)
             \/ \E g \in Available : Plug(g)
    BY <2>3, <2>5 DEF ClientSetsMode, BatteryChanged, SetBlock, Plug
  <2>6. ASSUME NEW c \in Caller, Transition(c) PROVE Kept
    <3>1. CASE BeginTransition(c) \/ Notify(c)
      BY <2>1, <3>1 DEF BeginTransition, Notify
    <3>2. CASE ApplyGpu(c)
      BY <2>1, <2>2, <3>2 DEF ApplyGpu, SyncInodesFails
    <3>3. CASE WriteModeMap(c) \/ Commit(c) \/ FinishSave(c)
      BY <2>1, <2>2, <3>3 DEF WriteModeMap, Commit, FinishSave
    <3>4. QED
      BY <2>6, <3>1, <3>2, <3>3 DEF Transition
  <2>7. ASSUME NEW g \in Gpu, BlockCall(g) PROVE Kept
    BY <2>1, <2>2, <2>7 DEF BlockCall, ProbeBlock, SyncBlock, SyncInodesFails, SaveBlock, FinishSaveBlock
  <2>8. CASE \/ \E kind \in {"started", "stopped"} : RunPowerd(kind)
             \/ \E g \in Gpu : MonProbe(g)
             \/ Monitor
    BY <2>1, <2>2, <2>8
       DEF RunPowerd, MonProbe, Monitor, MonMode, MonDecide, MonRestore, MonUnblock, SyncInodesFails
  <2>9. QED
    BY <2>4, <2>5, <2>6, <2>7, <2>8 DEF Next
<1>3. QED
  BY <1>1, <1>2 DEF FaultsSpent, Unfailed

LEMMA FailureShows ==
  ASSUME TypeOK, FaultsSpent, Spend("fault")
  PROVE  ~Unfailed'
BY CallerAssumption DEF TypeOK, FaultsSpent, Spend, Unfailed

(* While the daemon runs, gpu_state.json is what is in memory or what the one *)
(* call that is writing it writes.                                            *)
SavedConsistent ==
  Unfailed /\ phase # "down" =>
    /\ (\A g \in Gpu : blk[g].pc # "saving") => gpuFile = gpuSaved
    /\ \A g \in Gpu : blk[g].pc = "saving" =>
         /\ blk[g].text = gpuSaved
         /\ \A h \in Gpu \ {g} : blk[h].pc # "saving"

(* A Block call is made to a daemon that serves and does not outlive it.       *)
THEOREM NoBlockCallWhileDown == Spec => [](phase = "down" => \A g \in Gpu : blk[g].pc = "idle")
<1> DEFINE Quiet == phase = "down" => \A g \in Gpu : blk[g].pc = "idle"
<1>1. Init => Quiet
  BY DEF Init, BlkIdle
<1>2. TypeOK /\ LockDiscipline /\ Quiet /\ [Next]_vars => Quiet'
  <2> SUFFICES ASSUME TypeOK, LockDiscipline, Quiet, [Next]_vars PROVE Quiet'
    OBVIOUS
  <2>1. CASE Boot
    BY <2>1 DEF Boot
  <2>2. CASE Crash \/ Exit
    BY <2>2 DEF Crash, Exit, Vanish, BlkIdle
  <2>3. CASE UNCHANGED <<phase, blk>>
    BY <2>3
  <2>4. ASSUME NEW c \in Caller, Transition(c) PROVE Quiet'
    <3>1. UNCHANGED blk /\ (UNCHANGED phase \/ Return(c, TRUE) \/ Return(c, FALSE))
      BY <2>4 DEF Transition, BeginTransition, ApplyGpu, WriteModeMap, GiveUp, Commit, FinishSave, Notify
    <3>2. phase' = phase \/ phase' # "down"
      BY <3>1 DEF Return
    <3>3. QED
      BY <3>1, <3>2
  <2>5. ASSUME NEW g \in Gpu, BlockCall(g) PROVE Quiet'
    BY <2>5 DEF BlockCall, ProbeBlock, SyncBlock, SaveBlock, FinishSaveBlock
  <2>6. CASE \E g \in Gpu, block \in BOOLEAN : SetBlock(g, block)
    BY <2>6 DEF SetBlock
  <2>7. CASE \/ \E c \in Clients, m \in Mode : ClientSetsMode(c, m)
             \/ \E onBattery \in BOOLEAN : BatteryChanged(onBattery)
             \/ \E kind \in {"started", "stopped"} : RunPowerd(kind)
             \/ \E g \in Gpu : MonProbe(g)
             \/ \E g \in Available : Plug(g)
    BY <2>3, <2>7 DEF ClientSetsMode, BatteryChanged, RunPowerd, MonProbe, Plug
  <2>8. CASE Monitor \/ Rest \/ UNCHANGED vars
    BY <2>3, <2>8 DEF Monitor, MonMode, MonDecide, MonRestore, MonUnblock, Rest, vars
  <2>9. QED
    BY <2>1, <2>2, <2>4, <2>5, <2>6, <2>7, <2>8 DEF Next
<1>3. QED
  BY <1>1, <1>2, TypeCorrect, LockDisciplineHolds, PTL DEF Spec

(* Until something fails gpu_state.json has what is in memory as soon as no   *)
(* call is writing it: the gpu_state lock spans the change and the write      *)
(* (save_state), so overlapping calls do not lose each other's change.        *)
THEOREM SavedStatesHold == Spec => []SavedStatesComplete
<1>1. Init => FaultsSpent /\ SavedConsistent
  BY CallerAssumption DEF Init, FaultsSpent, SavedConsistent
<1> DEFINE Quiet == phase = "down" => \A g \in Gpu : blk[g].pc = "idle"
<1>2. /\ TypeOK /\ LockDiscipline /\ Quiet /\ FaultsSpent /\ SavedConsistent /\ [Next]_vars
      => FaultsSpent' /\ SavedConsistent'
  <2> SUFFICES ASSUME TypeOK, LockDiscipline, Quiet, FaultsSpent, SavedConsistent, [Next]_vars
               PROVE  FaultsSpent' /\ SavedConsistent'
    OBVIOUS
  <2>1. FaultsSpent' /\ (Unfailed' => Unfailed)
    BY FaultsOnlySpent
  <2> USE DEF SavedConsistent
  <2>2. CASE Boot
    BY <2>1, <2>2 DEF Boot, TypeOK
  <2>3. CASE Crash \/ Exit
    BY <2>1, <2>3 DEF Crash, Exit, Vanish
  <2>4. ASSUME UNCHANGED gpuVars, phase' # "down" => phase # "down",
               \A g \in Gpu : /\ blk'[g].pc = "saving" <=> blk[g].pc = "saving"
                              /\ blk'[g].pc = "saving" => blk'[g].text = blk[g].text
        PROVE  SavedConsistent'
    BY <2>1, <2>4 DEF gpuVars
  <2>6. ASSUME NEW c \in Caller, Transition(c) PROVE SavedConsistent'
    <3>1. UNCHANGED <<gpuVars, blk>>
      BY <2>6 DEF Transition, BeginTransition, ApplyGpu, WriteModeMap, Commit, FinishSave, Notify
    <3>2. UNCHANGED phase \/ Return(c, TRUE) \/ Return(c, FALSE)
      BY <2>6 DEF Transition, BeginTransition, ApplyGpu, WriteModeMap, GiveUp, Commit, FinishSave, Notify
    <3>3. task[c].pc # "idle"
      BY <2>6 DEF Transition, BeginTransition, ApplyGpu, WriteModeMap, Commit, FinishSave, Notify
    <3>4. phase' # "down" => phase # "down"
      BY <3>2, <3>3, CallerFacts DEF Return, LockDiscipline
    <3>5. QED
      BY <2>4, <3>1, <3>4
  <2>7. ASSUME NEW g \in Gpu, SaveBlock(g) PROVE SavedConsistent'
    <3>1. UNCHANGED phase /\ \A h \in Gpu : blk[h].pc # "saving"
      BY <2>7 DEF SaveBlock, GpuStateFree, GpuStateUnwritten
    <3>2. CASE blk' = [blk EXCEPT ![g].pc = "saving", ![g].text = gpuSaved']
      <4>1. blk'[g].pc = "saving" /\ blk'[g].text = gpuSaved'
        BY <3>2 DEF TypeOK, BlkState
      <4>2. \A h \in Gpu \ {g} : blk'[h].pc # "saving"
        BY <3>1, <3>2 DEF TypeOK
      <4>3. QED
        BY <4>1, <4>2
    <3>3. CASE Spend("fault")
      BY <3>3, FailureShows
    <3>4. QED
      BY <2>7, <3>2, <3>3 DEF SaveBlock
  <2>8. ASSUME NEW g \in Gpu, FinishSaveBlock(g) PROVE SavedConsistent'
    <3>1. CASE Spend("fault")
      BY <3>1, FailureShows
    <3>2. CASE gpuFile' = blk[g].text
      <4>1. \A h \in Gpu : blk'[h].pc = "saving" => h # g /\ blk[h].pc = "saving"
        BY <2>8 DEF FinishSaveBlock, BlkIdle, TypeOK
      <4>2. QED
        BY <2>1, <2>8, <3>2, <4>1 DEF FinishSaveBlock
    <3>3. QED
      BY <2>8, <3>1, <3>2 DEF FinishSaveBlock
  <2>9. ASSUME NEW g \in Gpu, ProbeBlock(g) \/ SyncBlock(g) PROVE SavedConsistent'
    <3>1. UNCHANGED <<gpuVars, phase>> /\ blk[g].pc # "saving"
      BY <2>9 DEF ProbeBlock, SyncBlock
    <3>2. \/ blk' = [blk EXCEPT ![g] = BlkIdle]
          \/ \E pc \in {"sync", "save"} : blk' = [blk EXCEPT ![g].pc = pc]
      BY <2>9 DEF ProbeBlock, SyncBlock
    <3>3. \A h \in Gpu \ {g} : blk'[h] = blk[h]
      BY <3>2 DEF TypeOK
    <3>4. blk'[g].pc # "saving"
      BY <3>2 DEF TypeOK, BlkState, BlkIdle
    <3>5. QED
      BY <2>4, <3>1, <3>3, <3>4
  <2>10. ASSUME NEW g \in Gpu, NEW block \in BOOLEAN, SetBlock(g, block) PROVE SavedConsistent'
    <3>1. UNCHANGED <<gpuVars, phase>> /\ blk[g].pc # "saving"
      BY <2>10 DEF SetBlock
    <3>2. \A h \in Gpu \ {g} : blk'[h] = blk[h]
      BY <2>10 DEF SetBlock
    <3>3. blk'[g].pc # "saving"
      BY <2>10 DEF SetBlock, TypeOK, BlkIdle
    <3>4. QED
      BY <2>4, <3>1, <3>2, <3>3
  <2>11. CASE UNCHANGED <<gpuVars, blk, phase>>
    BY <2>1, <2>11 DEF gpuVars
  <2>12. CASE \/ \E c \in Clients, m \in Mode : ClientSetsMode(c, m)
              \/ \E onBattery \in BOOLEAN : BatteryChanged(onBattery)
              \/ \E kind \in {"started", "stopped"} : RunPowerd(kind)
              \/ \E g \in Gpu : MonProbe(g)
              \/ \E g \in Available : Plug(g)
    BY <2>11, <2>12 DEF ClientSetsMode, BatteryChanged, RunPowerd, MonProbe, Plug
  <2>13. CASE Monitor \/ Rest \/ UNCHANGED vars
    BY <2>11, <2>13 DEF Monitor, MonMode, MonDecide, MonRestore, MonUnblock, Rest, vars, gpuVars
  <2>14. QED
    BY <2>1, <2>2, <2>3, <2>6, <2>7, <2>8, <2>9, <2>10, <2>12, <2>13 DEF Next, BlockCall
<1>3. FaultsSpent /\ SavedConsistent => SavedStatesComplete
  BY DEF SavedConsistent, SavedStatesComplete, Settled
<1>4. QED
  BY <1>1, <1>2, <1>3, TypeCorrect, LockDisciplineHolds, NoBlockCallWhileDown, PTL DEF Spec

(* On a laptop Manual mode is not offered, so no Block call is made and the   *)
(* monitor, which works only while the daemon serves, unblocks nothing.       *)
OnlyTransitionsTouch ==
  /\ mon.pc # "idle" => phase = "serving"
  /\ SystemType = "Laptop" =>
       /\ \A g \in Gpu : blk[g].pc = "idle"
       /\ mon.pc \in {"gpu", "restore", "unblock"} => mon.mode # "manual"
       /\ mon.pc # "unblock"

THEOREM OnlyTransitionsTouchHolds == Spec => []OnlyTransitionsTouch
<1>1. Init => OnlyTransitionsTouch
  BY DEF Init, OnlyTransitionsTouch, BlkIdle, MonIdle
<1>2. TypeOK /\ LockDiscipline /\ ReportedIsOffered /\ OnlyTransitionsTouch /\ [Next]_vars
      => OnlyTransitionsTouch'
  <2> SUFFICES ASSUME TypeOK, LockDiscipline, ReportedIsOffered, OnlyTransitionsTouch, [Next]_vars
               PROVE  OnlyTransitionsTouch'
    OBVIOUS
  <2> USE DEF OnlyTransitionsTouch
  <2>1. SystemType = "Laptop" /\ phase = "serving" => reported # "manual"
    BY DEF ReportedIsOffered, AvailableModes
  <2>2. CASE Boot
    BY <2>2 DEF Boot
  <2>3. CASE Crash \/ Exit
    BY <2>3 DEF Crash, Exit, Vanish, BlkIdle, MonIdle
  <2>4. CASE UNCHANGED <<phase, blk, mon>>
    BY <2>4
  <2>5. ASSUME NEW c \in Caller, Transition(c) PROVE OnlyTransitionsTouch'
    <3>1. UNCHANGED <<blk, mon>> /\ (UNCHANGED phase \/ Return(c, TRUE) \/ Return(c, FALSE))
      BY <2>5 DEF Transition, BeginTransition, ApplyGpu, WriteModeMap, GiveUp, Commit, FinishSave, Notify
    <3>2. task[c].pc # "idle"
      BY <2>5 DEF Transition, BeginTransition, ApplyGpu, WriteModeMap, Commit, FinishSave, Notify
    <3>3. phase = "serving" => phase' = "serving"
      BY <3>1, <3>2, CallerFacts DEF Return, LockDiscipline
    <3>4. QED
      BY <3>1, <3>3
  <2>6. ASSUME NEW g \in Gpu, BlockCall(g) PROVE OnlyTransitionsTouch'
    <3>1. SystemType # "Laptop" /\ UNCHANGED <<phase, mon>>
      BY <2>6 DEF BlockCall, ProbeBlock, SyncBlock, SaveBlock, FinishSaveBlock
    <3>2. QED
      BY <3>1
  <2>7. ASSUME NEW g \in Gpu, NEW block \in BOOLEAN, SetBlock(g, block) PROVE OnlyTransitionsTouch'
    <3>1. SystemType # "Laptop" /\ UNCHANGED <<phase, mon>>
      BY <2>1, <2>7 DEF SetBlock
    <3>2. QED
      BY <3>1
  <2>8. ASSUME NEW g \in Gpu, MonProbe(g) PROVE OnlyTransitionsTouch'
    BY <2>8 DEF MonProbe
  <2>9. CASE MonMode
    <3>1. UNCHANGED <<phase, blk>> /\ phase = "serving"
      BY <2>9 DEF MonMode
    <3>2. CASE mon' = MonIdle
      BY <3>1, <3>2 DEF MonIdle
    <3>3. CASE mon' = [mon EXCEPT !.pc = "gpu", !.mode = reported]
      <4>1. mon'.pc = "gpu" /\ mon'.mode = reported
        BY <3>3 DEF TypeOK, MonState
      <4>2. QED
        BY <2>1, <3>1, <4>1
    <3>4. QED
      BY <2>9, <3>2, <3>3 DEF MonMode
  <2>10. CASE MonDecide
    <3>1. UNCHANGED <<phase, blk>> /\ phase = "serving" /\ mon.pc = "gpu"
      BY <2>10 DEF MonDecide
    <3>2. \/ mon' = MonIdle
          \/ mon' = [mon EXCEPT !.pc = "restore"]
          \/ mon.mode = "manual" /\ mon' = [mon EXCEPT !.pc = "unblock"]
      BY <2>10 DEF MonDecide
    <3>3. CASE mon' = [mon EXCEPT !.pc = "restore"]
      <4>1. mon'.pc = "restore" /\ mon'.mode = mon.mode
        BY <3>3 DEF TypeOK, MonState
      <4>2. QED
        BY <3>1, <4>1
    <3>4. CASE mon' = MonIdle
      BY <3>1, <3>4 DEF MonIdle
    <3>5. CASE mon.mode = "manual"
      BY <3>1, <3>5
    <3>6. QED
      BY <3>2, <3>3, <3>4, <3>5
  <2>11. CASE MonRestore \/ MonUnblock
    <3>1. UNCHANGED <<phase, blk>> /\ mon' = MonIdle
      BY <2>11 DEF MonRestore, MonUnblock
    <3>2. QED
      BY <3>1 DEF MonIdle
  <2>12. CASE \/ \E c \in Clients, m \in Mode : ClientSetsMode(c, m)
              \/ \E onBattery \in BOOLEAN : BatteryChanged(onBattery)
              \/ \E kind \in {"started", "stopped"} : RunPowerd(kind)
              \/ \E g \in Available : Plug(g)
              \/ Rest \/ UNCHANGED vars
    BY <2>4, <2>12 DEF ClientSetsMode, BatteryChanged, RunPowerd, Plug, Rest, vars
  <2>13. QED
    BY <2>2, <2>3, <2>5, <2>6, <2>7, <2>8, <2>9, <2>10, <2>11, <2>12 DEF Next, Monitor
<1>3. QED
  BY <1>1, <1>2, TypeCorrect, LockDisciplineHolds, ReportedAlwaysOffered, PTL DEF Spec

(* The offload GPUs are as mode m wants them, except those of todo.           *)
HiddenFor(m, todo) == \A g \in Offload \ todo : nodes[g] = {NodeStateOf(m # "hybrid")}

HidesAsDecided ==
  Unfailed /\ SystemType = "Laptop" =>
    /\ \A c \in Caller :
         /\ task[c].pc = "applying" =>
              /\ task[c].hide = IF task[c].mode = "hybrid" THEN {} ELSE Offload
              /\ HiddenFor(task[c].mode, task[c].todo)
         /\ task[c].pc \in {"commit", "saving", "notifying"} => HiddenFor(task[c].mode, {})
    /\ Settled => HiddenFor(reported, {})

(* What a transition is about to do with the offload GPUs of a laptop.        *)
LEMMA DecisionOnLaptop ==
  ASSUME SystemType = "Laptop", NEW m \in Mode, Supported(m), NEW saved, NEW autoApply
  PROVE  /\ Hidden(m, saved, autoApply) = IF m = "hybrid" THEN {} ELSE Offload
         /\ Offload \subseteq Touched(m)
BY DEF Mode, Supported, Hidden, Touched, Offload

(* Until something fails the offload GPU of a laptop is hidden exactly in the *)
(* modes that hide it, however requests, the display override and restarts    *)
(* overlap (internal_set_mode).                                               *)
THEOREM OffloadStaysAsReported == Spec => []OffloadHiddenAsReported
<1>1. Init => FaultsSpent /\ HidesAsDecided
  BY CallerAssumption DEF Init, FaultsSpent, HidesAsDecided, Settled, Idle
<1> DEFINE Known == TypeOK /\ LockDiscipline /\ FacesAgree /\ IntentsAllowed /\ OnlyTransitionsTouch
<1>2. Known /\ FaultsSpent /\ HidesAsDecided /\ [Next]_vars => FaultsSpent' /\ HidesAsDecided'
  <2> SUFFICES ASSUME Known, FaultsSpent, HidesAsDecided, [Next]_vars, SystemType = "Laptop"
               PROVE  FaultsSpent' /\ HidesAsDecided'
    BY FaultsOnlySpent DEF HidesAsDecided
  <2>1. FaultsSpent' /\ (Unfailed' => Unfailed)
    BY FaultsOnlySpent
  <2>2. CASE Spend("fault")
    BY <2>1, <2>2, FailureShows DEF HidesAsDecided
  <2> DEFINE Kept(c) == task'[c] = task[c] \/ task'[c].pc \in {"idle", "waiting"}
  <2>3. ASSUME UNCHANGED <<nodes, reported>>, phase' = "serving" => phase = "serving",
               transition' = NoCaller => transition = NoCaller, \A c \in Caller : Kept(c)
        PROVE  HidesAsDecided'
    BY <2>1, <2>3 DEF HidesAsDecided, HiddenFor, Settled
  <2>4. CASE Boot \/ Crash \/ Exit
    <3>1. phase' # "serving"
      BY <2>4 DEF Boot, Crash, Exit, Vanish
    <3>2. CASE Boot
      <4>1. task' = [task EXCEPT !["startup"] = Call(reported', FALSE)] /\ phase = "down"
        BY <3>2 DEF Boot
      <4>2. \A c \in Caller : task[c].pc = "idle"
        BY <4>1, CallerFacts DEF Known, LockDiscipline
      <4>3. \A c \in Caller : task'[c].pc \in {"idle", "waiting"}
        BY <4>1, <4>2 DEF Call, Idle, Known, TypeOK
      <4>4. QED
        BY <2>1, <3>1, <4>3 DEF HidesAsDecided, Settled
    <3>3. CASE Crash \/ Exit
      <4>1. \A c \in Caller : task'[c].pc = "idle"
        BY <3>3 DEF Crash, Exit, Vanish, Idle
      <4>2. QED
        BY <2>1, <3>1, <4>1 DEF HidesAsDecided, Settled
    <3>4. QED
      BY <2>4, <3>2, <3>3
  <2>5. ASSUME NEW c \in Caller, NEW m, NEW save, Request(c, m, save), UNCHANGED <<nodes, reported, phase, transition>>
        PROVE  HidesAsDecided'
    <3>1. task' = [task EXCEPT ![c] = Call(m, save)] /\ Call(m, save).pc = "waiting"
      BY <2>5 DEF Request, Call, Idle
    <3>2. QED
      BY <2>3, <2>5, <3>1 DEF Known, TypeOK
  <2>6. \A c, d \in Caller : task[c].pc \in InTransition /\ task[d].pc \in InTransition => c = d
    BY DEF Known, LockDiscipline
  <2>7. ASSUME NEW c \in Caller, BeginTransition(c) PROVE HidesAsDecided'
    <3>1. CASE Supported(task[c].mode)
      <4> DEFINE m == task[c].mode
      <4>1. m \in Mode /\ transition' = c /\ c # NoCaller
        BY <2>7, <3>1, CallerFacts DEF BeginTransition, Known, TypeOK, TaskState
      <4>2. /\ task'[c].pc = "applying" /\ task'[c].mode = m
            /\ task'[c].todo = Touched(m) /\ task'[c].hide = Hidden(m, gpuSaved, AutoApply)
        BY <2>7, <3>1 DEF BeginTransition, Known, TypeOK, TaskState
      <4>3. \A d \in Caller \ {c} : task'[d] = task[d] /\ task[d].pc \notin InTransition
        BY <2>7, <3>1, CallerFacts DEF BeginTransition, TransitionFree, Known, TypeOK, LockDiscipline
      <4> HIDE DEF m
      <4>4. /\ Hidden(m, gpuSaved, AutoApply) = IF m = "hybrid" THEN {} ELSE Offload
            /\ Offload \subseteq Touched(m)
        BY <3>1, <4>1, DecisionOnLaptop DEF m
      <4>5. QED
        BY <4>1, <4>2, <4>3, <4>4 DEF HidesAsDecided, HiddenFor, Settled, InTransition
    <3>2. CASE ~Supported(task[c].mode)
      <4>1. Return(c, FALSE) /\ UNCHANGED <<nodes, reported, transition>>
        BY <2>7, <3>2 DEF BeginTransition, modeVars
      <4>2. phase' = "serving" => phase = "serving"
        BY <4>1 DEF Return
      <4>3. \A d \in Caller : Kept(d)
        BY <4>1, IdleFallback DEF Return, Known, TypeOK
      <4>4. QED
        BY <2>3, <4>1, <4>2, <4>3
    <3>3. QED
      BY <3>1, <3>2
  <2>8. ASSUME NEW c \in Caller, ApplyGpu(c) PROVE HidesAsDecided'
    <3>1. PICK g \in task[c].todo :
            \/ /\ SyncInodes(g, g \in task[c].hide)
               /\ task' = [task EXCEPT ![c].todo = @ \ {g}]
               /\ UNCHANGED <<phase, transition>>
            \/ Spend("fault")
      BY <2>8 DEF ApplyGpu, SyncInodesFails
    <3>2. CASE /\ SyncInodes(g, g \in task[c].hide)
               /\ task' = [task EXCEPT ![c].todo = @ \ {g}]
               /\ UNCHANGED <<phase, transition>>
      <4> DEFINE m == task[c].mode
      <4>1. /\ task'[c].pc = "applying" /\ task'[c].mode = m /\ task'[c].hide = task[c].hide
            /\ task'[c].todo = task[c].todo \ {g}
        BY <2>8, <3>2 DEF ApplyGpu, Known, TypeOK, TaskState
      <4>2. transition = c /\ transition' # NoCaller
        BY <2>8, <3>2, CallerFacts DEF ApplyGpu, Known, LockDiscipline, InTransition
      <4>3. \A d \in Caller \ {c} : task'[d] = task[d] /\ task[d].pc \notin InTransition
        BY <2>6, <2>8, <3>2 DEF ApplyGpu, InTransition, Known, TypeOK
      <4>4. g \in Gpu
        BY GpuAssumption DEF Known, TypeOK, TaskState
      <4>5. nodes'[g] = {NodeStateOf(g \in task[c].hide)} /\ \A h \in Gpu \ {g} : nodes'[h] = nodes[h]
        BY <3>2, <4>4 DEF SyncInodes, Known, TypeOK
      <4>6. Offload \subseteq Gpu
        BY GpuAssumption DEF Offload
      <4>7. ASSUME Unfailed'
            PROVE  /\ task[c].hide = IF m = "hybrid" THEN {} ELSE Offload
                   /\ HiddenFor(m, task[c].todo)
        BY <2>1, <2>8, <4>7 DEF HidesAsDecided, ApplyGpu
      <4>8. ASSUME Unfailed' PROVE \A h \in Offload \ (task[c].todo \ {g}) : nodes'[h] = {NodeStateOf(m # "hybrid")}
        <5>1. TAKE h \in Offload \ (task[c].todo \ {g})
        <5>2. CASE h = g
          <6>1. (g \in task[c].hide) = (m # "hybrid")
            BY <4>7, <4>8, <5>2
          <6>2. QED
            BY <4>5, <5>2, <6>1
        <5>3. CASE h # g
          BY <4>5, <4>6, <4>7, <4>8, <5>3 DEF HiddenFor
        <5>4. QED
          BY <5>2, <5>3
      <4> HIDE DEF m
      <4>9. QED
        BY <4>1, <4>2, <4>3, <4>7, <4>8 DEF HidesAsDecided, HiddenFor, Settled, InTransition
    <3>3. QED
      BY <2>2, <3>1, <3>2
  <2>9. ASSUME NEW c \in Caller, WriteModeMap(c) \/ Commit(c) \/ FinishSave(c) PROVE HidesAsDecided'
    <3>1. \/ Spend("fault") /\ WriteModeMap(c)
          \/ /\ UNCHANGED <<nodes, transition>>
             /\ \E pc \in {"commit", "saving", "notifying"} : task' = [task EXCEPT ![c].pc = pc]
      BY <2>9 DEF WriteModeMap, Commit, FinishSave
    <3>2. CASE \E pc \in {"commit", "saving", "notifying"} : task' = [task EXCEPT ![c].pc = pc]
      <4>1. task'[c].pc \in {"commit", "saving", "notifying"} /\ task'[c].mode = task[c].mode
        BY <3>2 DEF Known, TypeOK, TaskState
      <4>2. task[c].pc \in InTransition /\ (task[c].pc = "applying" => task[c].todo = {})
        BY <2>9 DEF WriteModeMap, Commit, FinishSave, InTransition
      <4>3. \A d \in Caller \ {c} : task'[d] = task[d] /\ task[d].pc \notin InTransition
        BY <2>6, <3>2, <4>2 DEF Known, TypeOK
      <4>4. Unfailed' => HiddenFor(task[c].mode, {})
        BY <2>1, <4>2 DEF HidesAsDecided, InTransition
      <4>5. CASE UNCHANGED <<nodes, transition>>
        <5>1. transition' # NoCaller
          BY <4>2, <4>5, CallerFacts DEF Known, LockDiscipline
        <5>2. QED
          BY <4>1, <4>3, <4>4, <4>5, <5>1 DEF HidesAsDecided, HiddenFor, Settled, InTransition
      <4>6. QED
        BY <2>2, <3>1, <4>5
    <3>3. QED
      BY <2>2, <3>1, <3>2
  <2>10. ASSUME NEW c \in Caller, Notify(c) PROVE HidesAsDecided'
    <3>1. UNCHANGED <<nodes, reported>> /\ reported = task[c].mode /\ task[c].pc = "notifying"
      BY <2>10 DEF Notify, modeVars, Known, FacesAgree
    <3>2. task' = [task EXCEPT ![c] = Idle]
      BY <2>10 DEF Notify, Return
    <3>3. \A d \in Caller : task'[d].pc \notin InTransition
      BY <2>6, <3>1, <3>2, IdleFallback DEF InTransition, Known, TypeOK
    <3>4. Unfailed' => HiddenFor(reported, {})
      BY <2>1, <3>1 DEF HidesAsDecided
    <3>5. QED
      BY <3>1, <3>3, <3>4 DEF HidesAsDecided, HiddenFor, InTransition
  <2>11. CASE MonDecide \/ MonRestore
    <3>1. UNCHANGED <<nodes, reported, phase, transition>>
      BY <2>11 DEF MonDecide, MonRestore, modeVars
    <3>2. UNCHANGED task \/ \E m : Request("display", m, FALSE)
      BY <2>11 DEF MonDecide, MonRestore, OverrideSaves
    <3>3. CASE UNCHANGED task
      BY <2>1, <2>3, <3>1, <3>3
    <3>4. QED
      BY <2>1, <2>5, <3>1, <3>2, <3>3, CallerFacts
  <2>12. CASE \/ \E c \in Clients, m \in Mode : ClientSetsMode(c, m)
              \/ \E onBattery \in BOOLEAN : BatteryChanged(onBattery)
    <3>1. UNCHANGED <<nodes, reported, phase, transition>>
      BY <2>12 DEF ClientSetsMode, BatteryChanged, modeVars
    <3>2. \E c \in Caller : \E m, save : Request(c, m, save)
      BY <2>12, CallerFacts DEF ClientSetsMode, BatteryChanged
    <3>3. QED
      BY <2>1, <2>5, <3>1, <3>2
  <2>13. CASE (\E g \in Gpu : BlockCall(g)) \/ MonUnblock
    BY <2>13 DEF BlockCall, ProbeBlock, SyncBlock, SaveBlock, FinishSaveBlock, MonUnblock, Known,
       OnlyTransitionsTouch
  <2>14. CASE UNCHANGED <<phase, transition, task, reported, nodes>>
    <3>1. \A c \in Caller : Kept(c)
      BY <2>14
    <3>2. QED
      BY <2>1, <2>3, <2>14, <3>1
  <2>15. CASE \/ \E g \in Gpu, block \in BOOLEAN : SetBlock(g, block)
              \/ \E g \in Gpu : MonProbe(g)
              \/ \E kind \in {"started", "stopped"} : RunPowerd(kind)
              \/ \E g \in Available : Plug(g)
              \/ MonMode \/ Rest \/ UNCHANGED vars
    BY <2>14, <2>15 DEF SetBlock, MonProbe, RunPowerd, Plug, MonMode, Rest, vars, modeVars
  <2>16. HidesAsDecided'
    BY <2>4, <2>7, <2>8, <2>9, <2>10, <2>11, <2>12, <2>13, <2>15 DEF Next, Transition, Monitor
  <2>17. QED
    BY <2>1, <2>16
<1>3. HidesAsDecided => OffloadHiddenAsReported
  BY DEF HidesAsDecided, HiddenFor, OffloadHiddenAsReported
<1>4. QED
  BY <1>1, <1>2, <1>3, TypeCorrect, LockDisciplineHolds, FacesAgreeHolds, IntentsAllowedHold,
     OnlyTransitionsTouchHolds, PTL DEF Spec

(***************************************************************************)
(* Refinement                                                              *)
(***************************************************************************)

(* Mode switching implements the two-faced register: the kernel's write is    *)
(* Enforce, the write of mode_state Publish, the end of a successful start    *)
(* Start, and nothing else shows.                                             *)
THEOREM RegisterImplemented == Spec => ImplementsRegister
<1> DEFINE published == IF phase = "serving" THEN reported ELSE "none"
           enforced  == IF phase = "serving" THEN KernelMode[modeMap] ELSE "none"
<1>1. Init => Register!Init
  BY DEF Init, Register!Init, Register!None
<1>2. /\ TypeOK /\ LockDiscipline /\ FacesAgree /\ IntentsAllowed /\ [Next]_vars
      => [Register!Next]_(Register!vars)
  <2> SUFFICES ASSUME TypeOK, LockDiscipline, FacesAgree, IntentsAllowed, [Next]_vars
               PROVE  Register!Next \/ UNCHANGED <<enforced, published>>
    BY DEF Register!vars
  <2> USE CallerFacts DEF TypeOK, Register!None
  <2>1. CASE UNCHANGED <<phase, reported, modeMap>>
    BY <2>1
  <2>2. CASE Boot \/ Exit
    BY <2>2 DEF Boot, Exit, Vanish
  <2>3. CASE Crash
    BY <2>3 DEF Crash, Vanish, Register!Next, Register!Stop
  <2>4. ASSUME NEW c \in Caller, Return(c, FALSE), task[c].pc # "idle", UNCHANGED <<reported, modeMap>>
        PROVE  UNCHANGED <<enforced, published>>
    BY <2>4 DEF Return, LockDiscipline
  <2>5. ASSUME NEW c \in Caller, BeginTransition(c) \/ ApplyGpu(c) \/ FinishSave(c)
        PROVE  UNCHANGED <<enforced, published>>
    <3>1. \/ UNCHANGED <<phase, reported, modeMap>>
          \/ Return(c, FALSE) /\ task[c].pc # "idle" /\ UNCHANGED <<reported, modeMap>>
      BY <2>5 DEF BeginTransition, ApplyGpu, FinishSave, GiveUp, modeVars
    <3>2. QED
      BY <2>4, <3>1
  <2>6. ASSUME NEW c \in Caller, WriteModeMap(c)
        PROVE  Register!Next \/ UNCHANGED <<enforced, published>>
    <3>1. CASE GiveUp(c) /\ UNCHANGED modeMap
      BY <2>4, <2>6, <3>1 DEF WriteModeMap, GiveUp
    <3>2. CASE modeMap' = ModeNumber[task[c].mode] /\ UNCHANGED <<phase, reported>>
      <4>1. CASE phase = "serving"
        <5>1. published = enforced
          BY <2>6 DEF WriteModeMap, LockDiscipline, FacesAgree, InTransition
        <5>2. enforced' = task[c].mode
          BY <3>2, <4>1, ModeEncoding DEF TaskState
        <5>3. task[c].mode \in AvailableModes
          BY <2>6, OffersWhatItSupports DEF WriteModeMap, IntentsAllowed, InTransition, TaskState
        <5>4. Register!Enforce(task[c].mode)
          BY <3>2, <4>1, <5>1, <5>2 DEF Register!Enforce, Mode
        <5>5. QED
          BY <5>3, <5>4 DEF Register!Next
      <4>2. CASE phase # "serving"
        BY <3>2, <4>2
      <4>3. QED
        BY <4>1, <4>2
    <3>3. QED
      BY <2>6, <3>1, <3>2 DEF WriteModeMap
  <2>7. ASSUME NEW c \in Caller, Commit(c)
        PROVE  Register!Next \/ UNCHANGED <<enforced, published>>
    <3>1. reported' = KernelMode[modeMap] /\ UNCHANGED <<phase, modeMap>>
      BY <2>7 DEF Commit, FacesAgree
    <3>2. QED
      BY <3>1 DEF Register!Next, Register!Publish, Mode
  <2>8. ASSUME NEW c \in Caller, Notify(c)
        PROVE  Register!Next \/ UNCHANGED <<enforced, published>>
    <3>1. UNCHANGED <<reported, modeMap>> /\ Return(c, TRUE)
      BY <2>8 DEF Notify, modeVars
    <3>2. CASE c = "startup"
      <4>1. reported = KernelMode[modeMap] /\ reported \in AvailableModes
        BY <2>8, OffersWhatItSupports DEF Notify, FacesAgree, IntentsAllowed, InTransition, TaskState
      <4>2. phase # "serving" /\ phase' = "serving"
        BY <2>8, <3>1, <3>2 DEF Notify, Return, LockDiscipline
      <4>3. Register!Start(reported)
        BY <3>1, <4>1, <4>2 DEF Register!Start
      <4>4. QED
        BY <4>1, <4>3 DEF Register!Next
    <3>3. CASE c # "startup"
      BY <3>1, <3>3 DEF Return
    <3>4. QED
      BY <3>2, <3>3
  <2>9. CASE MonDecide \/ MonRestore
    BY <2>1, <2>9 DEF MonDecide, MonRestore, modeVars
  <2>10. CASE \/ \E c \in Clients, m \in Mode : ClientSetsMode(c, m)
              \/ \E onBattery \in BOOLEAN : BatteryChanged(onBattery)
    BY <2>1, <2>10 DEF ClientSetsMode, BatteryChanged, modeVars
  <2>11. QED
    BY <2>1, <2>2, <2>3, <2>5, <2>6, <2>7, <2>8, <2>9, <2>10, OtherSteps DEF Transition
<1>3. QED
  BY <1>1, <1>2, TypeCorrect, LockDisciplineHolds, FacesAgreeHolds, IntentsAllowedHold, PTL
     DEF Spec, ImplementsRegister, Register!Spec

(***************************************************************************)
(* What a process sees (GpuVisibility)                                     *)
(***************************************************************************)

(* The eBPF decision never hides an entry of GPU 0 that is not marked blocked *)
(* from a process without a forced GPU, in any mode and with any grants.      *)
LEMMA OpenEntryOfDefault ==
  ASSUME NEW mode, NEW exempt, NEW allowed, NEW pid, NEW ppid, NEW entries,
         \A e \in entries : e.gpu = 0 /\ ~e.blocked
  PROVE  ~HookBlocks(mode, exempt, entries, allowed, Nobody, pid, ppid)
<1>1. ForcedGpu(Nobody, pid, ppid) = {}
  BY DEF ForcedGpu, Nobody
<1>2. QED
  BY <1>1 DEF HookBlocks, IsInodeBlocked, SmartHides

(* In the middle of a transition, after failures, crashes and restarts, a      *)
(* process that is not forced elsewhere opens the default GPU.                *)
THEOREM DefaultAlwaysOpens == Spec => []DefaultOpens
<1>1. DefaultNeverBlocked => DefaultOpens
  <2> SUFFICES ASSUME DefaultNeverBlocked, NEW g \in Gpu, NEW allowed \in SUBSET {Self, Parent},
                      IsDefault(g), NEW e \in Entries(g)
               PROVE  ~HookHides(e, allowed, Nobody)
    BY DEF DefaultOpens, Opens
  <2>1. e.gpu = 0 /\ ~e.blocked
    <3>1. PICK s \in nodes[g] \ {"untracked"} : e = [gpu |-> g, blocked |-> s = "blocked"]
      BY Zenon DEF Entries
    <3>2. g = 0 /\ s # "blocked"
      BY DEF DefaultNeverBlocked, IsDefault
    <3>3. e.gpu = g /\ e.blocked = (s = "blocked")
      BY Zenon, <3>1
    <3>4. QED
      BY <3>2, <3>3
  <2> DEFINE blockedIno == [key \in {"node"} |-> e]
  <2>2. EntryOf("node", blockedIno, Nobody, FALSE) = {e}
    BY DEF EntryOf
  <2>3. ~HookBlocks(KernelMode[modeMap], FALSE, EntryOf("node", blockedIno, Nobody, FALSE),
                    allowed, Nobody, Self, Parent)
    BY <2>1, <2>2, OpenEntryOfDefault
  <2>4. QED
    BY <2>3 DEF HookHides
<1>2. QED
  BY <1>1, DefaultStaysVisible, PTL

(* A GPU whose keys are all blocked has one kind of entry.                    *)
LEMMA EntriesOfHidden ==
  ASSUME NEW g, nodes[g] = {"blocked"}
  PROVE  Entries(g) = {[gpu |-> g, blocked |-> TRUE]}
<1>1. nodes[g] \ {"untracked"} = {"blocked"}
  OBVIOUS
<1>2. QED
  BY <1>1 DEF Entries

(* The hook looks at the one entry of the key.                                *)
LEMMA HookOnEntry ==
  ASSUME NEW e, NEW allowed, NEW forced
  PROVE  HookHides(e, allowed, forced) <=>
           /\ KernelMode[modeMap] # "hybrid"
           /\ IsInodeBlocked(KernelMode[modeMap], e, allowed, forced, Self, Parent)
<1> DEFINE blockedIno == [key \in {"node"} |-> e]
<1>1. EntryOf("node", blockedIno, Nobody, FALSE) = {e}
  BY DEF EntryOf
<1>2. HookHides(e, allowed, forced) <=>
        HookBlocks(KernelMode[modeMap], FALSE, EntryOf("node", blockedIno, Nobody, FALSE),
                   allowed, forced, Self, Parent)
  BY DEF HookHides
<1> HIDE DEF blockedIno
<1>3. QED
  BY <1>1, <1>2 DEF HookBlocks

(* Until something fails, Smart mode hides the offload GPU from a process     *)
(* without a grant and opens it to one with a grant of its own or of its      *)
(* parent, and Integrated mode hides it from all (apply_mode,                 *)
(* is_inode_blocked, and no one else in between).                             *)
THEOREM GrantsDecide == Spec => []GrantDecides
<1>1. OffloadHiddenAsReported /\ KernelMatchesReported /\ ReportedIsOffered => GrantDecides
  <2> SUFFICES ASSUME OffloadHiddenAsReported, KernelMatchesReported, ReportedIsOffered,
                      Unfailed, Settled, reported \in {"smart", "integrated"},
                      NEW g \in Offload
               PROVE  /\ Hides(g, {}, Nobody)
                      /\ \A p \in {Self, Parent} :
                           IF reported = "smart"
                           THEN Opens(g, {p}, Nobody) /\ Opens(g, {}, [q \in {p} |-> g])
                           ELSE Hides(g, {p}, Nobody) /\ Hides(g, {}, [q \in {p} |-> g])
    BY DEF GrantDecides
  <2>1. SystemType = "Laptop"
    BY DEF ReportedIsOffered, AvailableModes, Settled
  <2>2. nodes[g] = {"blocked"} /\ KernelMode[modeMap] = reported
    BY <2>1 DEF OffloadHiddenAsReported, KernelMatchesReported, NodeStateOf
  <2>3. g # 0
    BY DEF Offload, IsDefault
  <2> DEFINE e == [gpu |-> g, blocked |-> TRUE]
  <2>4. Entries(g) = {e}
    BY <2>2, EntriesOfHidden
  <2>5. e.gpu = g /\ e.blocked
    OBVIOUS
  <2> HIDE DEF e
  <2> DEFINE Decides(allowed, forced) == IsInodeBlocked(reported, e, allowed, forced, Self, Parent)
  <2>6. ASSUME NEW allowed, NEW forced
        PROVE  /\ Hides(g, allowed, forced) <=> Decides(allowed, forced)
               /\ Opens(g, allowed, forced) <=> ~Decides(allowed, forced)
    BY <2>2, <2>4, HookOnEntry DEF Hides, Opens
  <2>7. ForcedGpu(Nobody, Self, Parent) = {}
    BY DEF ForcedGpu, Nobody
  <2>8. ASSUME NEW p \in {Self, Parent}
        PROVE  ForcedGpu([q \in {p} |-> g], Self, Parent) = {g}
    <3> DEFINE forced == [q \in {p} |-> g]
    <3>1. DOMAIN forced = {p} /\ forced[p] = g
      OBVIOUS
    <3> HIDE DEF forced
    <3>2. CASE p = Self
      BY <3>1, <3>2 DEF ForcedGpu, forced
    <3>3. CASE p = Parent /\ p # Self
      <4>1. DOMAIN forced \cap {Parent} = {p} /\ Self \notin DOMAIN forced
        BY <3>1, <3>3
      <4>2. {forced[q] : q \in {p}} = {g}
        BY <3>1
      <4>3. ForcedGpu(forced, Self, Parent) = {g}
        BY <4>1, <4>2 DEF ForcedGpu
      <4>4. QED
        BY <4>3 DEF forced
    <3>4. QED
      BY <3>2, <3>3
  <2>9. Decides({}, Nobody)
    BY <2>3, <2>5, <2>7 DEF IsInodeBlocked, Lets, SmartHides
  <2>10. ASSUME NEW p \in {Self, Parent}, reported = "smart"
         PROVE  ~Decides({p}, Nobody) /\ ~Decides({}, [q \in {p} |-> g])
    <3>1. Lets({p}, Self, Parent)
      BY DEF Lets
    <3>2. QED
      BY <2>5, <2>8, <2>10, <3>1 DEF IsInodeBlocked
  <2>11. ASSUME NEW allowed, NEW forced, reported = "integrated"
         PROVE  Decides(allowed, forced)
    BY <2>5, <2>11 DEF IsInodeBlocked
  <2> HIDE DEF Decides
  <2>12. QED
    BY <2>6, <2>9, <2>10, <2>11
<1>2. QED
  BY <1>1, OffloadStaysAsReported, KernelAlwaysMatches, ReportedAlwaysOffered, PTL

(***************************************************************************)
(* Launches through the switcheroo shim                                    *)
(***************************************************************************)

(* Smart mode pushes the default integrated GPU as well, so that the kernel   *)
(* can hide it from a process forced to another: once a transition to Smart   *)
(* has passed it, some key of it is known until the daemon goes down.         *)
Tracked(g) == nodes[g] \ {"untracked"} # {}
SmartTracksDefault ==
  \A g \in Available : IsDefault(g) /\ g \notin Discrete =>
    /\ \A c \in Caller : task[c].mode = "smart" =>
         /\ task[c].pc = "applying" /\ g \notin task[c].todo => Tracked(g)
         /\ task[c].pc \in {"commit", "saving", "notifying"} => Tracked(g)
    /\ phase = "serving" /\ reported = "smart" => Tracked(g)

LEMMA SyncTracks ==
  ASSUME TypeOK, NEW h, NEW block, SyncInodes(h, block)
  PROVE  \A g \in Gpu : Tracked(g) \/ g = h => Tracked(g)'
<1>1. NodeStateOf(block) # "untracked"
  BY DEF NodeStateOf
<1>2. \A g \in Gpu : nodes'[g] = IF g = h THEN {NodeStateOf(block)} ELSE nodes[g]
  BY DEF SyncInodes, TypeOK
<1>3. QED
  BY <1>1, <1>2 DEF Tracked

LEMMA FailedSyncKeeps ==
  ASSUME TypeOK, NEW h, NEW block, SyncInodesFails(h, block)
  PROVE  \A g \in Gpu : Tracked(g) => Tracked(g)'
<1>1. \A g \in Gpu : nodes[g] \subseteq nodes'[g]
  BY DEF SyncInodesFails, TypeOK
<1>2. QED
  BY <1>1 DEF Tracked

(* Only the end of the process forgets a key.                                 *)
LEMMA TrackedStays ==
  ASSUME TypeOK, [Next]_vars, ~Crash, ~Exit
  PROVE  \A g \in Gpu : Tracked(g) => Tracked(g)'
<1>1. UNCHANGED nodes => \A g \in Gpu : Tracked(g) => Tracked(g)'
  BY DEF Tracked
<1>2. ASSUME NEW c \in Caller, ApplyGpu(c)
      PROVE  \A g \in Gpu : Tracked(g) => Tracked(g)'
  <2>1. PICK h \in task[c].todo : \/ SyncInodes(h, h \in task[c].hide)
                                  \/ SyncInodesFails(h, h \in task[c].hide)
    BY <1>2 DEF ApplyGpu
  <2>2. QED
    BY <2>1, SyncTracks, FailedSyncKeeps
<1>3. ASSUME NEW h \in Gpu, SyncBlock(h)
      PROVE  \A g \in Gpu : Tracked(g) => Tracked(g)'
  BY <1>3, SyncTracks, FailedSyncKeeps DEF SyncBlock
<1>4. MonUnblock => \A g \in Gpu : Tracked(g) => Tracked(g)'
  BY SyncTracks, FailedSyncKeeps DEF MonUnblock
<1>5. ASSUME NEW c \in Caller, Transition(c), ~ApplyGpu(c) PROVE UNCHANGED nodes
  BY <1>5 DEF Transition, BeginTransition, WriteModeMap, Commit, FinishSave, Notify
<1>6. ASSUME NEW g \in Gpu, BlockCall(g), ~SyncBlock(g) PROVE UNCHANGED nodes
  BY <1>6 DEF BlockCall, ProbeBlock, SaveBlock, FinishSaveBlock
<1>7. Boot \/ MonMode \/ MonDecide \/ MonRestore \/ Rest \/ UNCHANGED vars => UNCHANGED nodes
  BY DEF Boot, MonMode, MonDecide, MonRestore, Rest, vars
<1>8. ASSUME \/ \E c \in Clients, m \in Mode : ClientSetsMode(c, m)
             \/ \E onBattery \in BOOLEAN : BatteryChanged(onBattery)
             \/ \E kind \in {"started", "stopped"} : RunPowerd(kind)
             \/ \E g \in Gpu, block \in BOOLEAN : SetBlock(g, block)
             \/ \E g \in Gpu : MonProbe(g)
             \/ \E g \in Available : Plug(g)
      PROVE  UNCHANGED nodes
  BY <1>8 DEF ClientSetsMode, BatteryChanged, RunPowerd, SetBlock, MonProbe, Plug
<1>9. QED
  BY <1>1, <1>2, <1>3, <1>4, <1>5, <1>6, <1>7, <1>8 DEF Next, Monitor

LEMMA SmartTracks == Spec => []SmartTracksDefault
<1>1. Init => SmartTracksDefault
  BY DEF Init, SmartTracksDefault, Idle
<1> DEFINE Known == TypeOK /\ LockDiscipline /\ FacesAgree
<1>2. Known /\ SmartTracksDefault /\ [Next]_vars => SmartTracksDefault'
  <2> SUFFICES ASSUME Known, SmartTracksDefault, [Next]_vars,
                      NEW g \in Available, IsDefault(g), g \notin Discrete
               PROVE  /\ \A c \in Caller : task'[c].mode = "smart" =>
                           /\ task'[c].pc = "applying" /\ g \notin task'[c].todo => Tracked(g)'
                           /\ task'[c].pc \in {"commit", "saving", "notifying"} => Tracked(g)'
                      /\ phase' = "serving" /\ reported' = "smart" => Tracked(g)'
    BY DEF SmartTracksDefault
  <2> DEFINE Passed(c)  == task[c].mode = "smart" =>
                             /\ task[c].pc = "applying" /\ g \notin task[c].todo => Tracked(g)
                             /\ task[c].pc \in {"commit", "saving", "notifying"} => Tracked(g)
             Settles    == phase = "serving" /\ reported = "smart" => Tracked(g)
             Resting(c) == task'[c].pc \in {"idle", "waiting"}
  <2>a. (\A c \in Caller : Passed(c)) /\ Settles
    BY DEF SmartTracksDefault
  <2>b. SUFFICES (\A c \in Caller : Passed(c)') /\ Settles'
    OBVIOUS
  <2>c. g \in Gpu
    BY GpuAssumption
  <2>d. \A c \in Caller : Resting(c) => Passed(c)'
    OBVIOUS
  <2>e. ASSUME NEW c \in Caller, task'[c] = task[c], Tracked(g) => Tracked(g)' PROVE Passed(c)'
    BY <2>a, <2>e
  <2>1. CASE Crash \/ Exit
    <3>1. phase' = "down" /\ \A c \in Caller : task'[c].pc = "idle"
      BY <2>1 DEF Crash, Exit, Vanish, Idle
    <3>2. QED
      BY <3>1
  <2>2. CASE Boot
    <3>1. task' = [task EXCEPT !["startup"] = Call(reported', FALSE)] /\ phase = "down" /\ phase' = "boot"
      BY <2>2 DEF Boot
    <3>2. \A c \in Caller : task[c].pc = "idle"
      BY <3>1, CallerFacts DEF Known, LockDiscipline
    <3>3. \A c \in Caller : Resting(c)
      BY <3>1, <3>2 DEF Call, Idle, Known, TypeOK
    <3> HIDE DEF Passed, Resting
    <3>4. QED
      BY <2>d, <3>1, <3>3
  <2>3. ASSUME ~Crash, ~Exit PROVE Tracked(g) => Tracked(g)'
    BY <2>3, <2>c, TrackedStays DEF Known
  <2>4. ASSUME ~Crash, ~Exit, UNCHANGED reported, phase' = "serving" => phase = "serving",
               \A c \in Caller : task'[c] = task[c] \/ Resting(c)
        PROVE  (\A c \in Caller : Passed(c)') /\ Settles'
    <3>1. Settles'
      BY <2>a, <2>3, <2>4
    <3> HIDE DEF Passed, Resting, Settles
    <3>2. QED
      BY <2>d, <2>e, <2>3, <2>4, <3>1
  <2>5. ASSUME ~Crash, ~Exit, NEW c \in Caller, NEW m, NEW save, Request(c, m, save), UNCHANGED <<reported, phase>>
        PROVE  (\A d \in Caller : Passed(d)') /\ Settles'
    <3>1. task' = [task EXCEPT ![c] = Call(m, save)] /\ Call(m, save).pc = "waiting"
      BY <2>5 DEF Request, Call, Idle
    <3>2. \A d \in Caller : task'[d] = task[d] \/ Resting(d)
      BY <3>1 DEF Known, TypeOK
    <3>3. QED
      BY <2>4, <2>5, <3>2
  <2>6. ASSUME ~Crash, ~Exit, NEW c \in Caller, NEW ok \in BOOLEAN, Return(c, ok), UNCHANGED reported,
               ok => Settles'
        PROVE  (\A d \in Caller : Passed(d)') /\ Settles'
    <3>1. \A d \in Caller : task'[d] = task[d] \/ Resting(d)
      BY <2>6, IdleFallback DEF Return, Known, TypeOK
    <3>2. ~ok => (phase' = "serving" => phase = "serving")
      BY <2>6 DEF Return
    <3>3. QED
      <4>1. CASE ok
        <5> HIDE DEF Passed, Resting, Settles
        <5>1. QED
          BY <2>d, <2>e, <2>3, <2>6, <3>1, <4>1
      <4>2. CASE ~ok
        BY <2>4, <2>6, <3>1, <3>2, <4>2
      <4>3. QED
        BY <4>1, <4>2
  <2>7. ASSUME ~Crash, ~Exit, NEW c \in Caller, BeginTransition(c)
        PROVE  (\A d \in Caller : Passed(d)') /\ Settles'
    <3>1. CASE ~Supported(task[c].mode)
      BY <2>6, <2>7, <3>1 DEF BeginTransition, modeVars
    <3>2. CASE Supported(task[c].mode)
      <4>1. /\ task'[c].mode = task[c].mode /\ task'[c].pc = "applying"
            /\ task'[c].todo = Touched(task[c].mode)
            /\ \A d \in Caller \ {c} : task'[d] = task[d]
            /\ UNCHANGED <<phase, reported>>
        BY <2>7, <3>2 DEF BeginTransition, Known, TypeOK, TaskState, modeVars
      <4>2. task[c].mode = "smart" => g \in Touched(task[c].mode)
        BY DEF Touched
      <4>3. Passed(c)' /\ Settles'
        BY <2>a, <2>3, <2>7, <4>1, <4>2
      <4> HIDE DEF Passed, Settles
      <4>4. QED
        BY <2>e, <2>3, <2>7, <4>1, <4>3
    <3>3. QED
      BY <3>1, <3>2
  <2>8. ASSUME ~Crash, ~Exit, NEW c \in Caller, ApplyGpu(c)
        PROVE  (\A d \in Caller : Passed(d)') /\ Settles'
    <3>1. UNCHANGED reported /\ task[c].pc = "applying"
      BY <2>8 DEF ApplyGpu, modeVars
    <3>2. PICK h \in task[c].todo :
            \/ /\ SyncInodes(h, h \in task[c].hide)
               /\ task' = [task EXCEPT ![c].todo = @ \ {h}]
               /\ UNCHANGED phase
            \/ Return(c, FALSE)
      BY <2>8 DEF ApplyGpu, GiveUp
    <3>3. CASE Return(c, FALSE)
      BY <2>6, <2>8, <3>1, <3>3
    <3>4. CASE /\ SyncInodes(h, h \in task[c].hide)
               /\ task' = [task EXCEPT ![c].todo = @ \ {h}]
               /\ UNCHANGED phase
      <4>1. /\ task'[c].mode = task[c].mode /\ task'[c].pc = "applying"
            /\ task'[c].todo = task[c].todo \ {h}
            /\ \A d \in Caller \ {c} : task'[d] = task[d]
        BY <3>1, <3>4 DEF Known, TypeOK, TaskState
      <4>2. h = g => Tracked(g)'
        BY <2>c, <3>4, SyncTracks DEF Known
      <4>3. Passed(c)' /\ Settles'
        BY <2>a, <2>3, <2>8, <3>1, <3>4, <4>1, <4>2
      <4> HIDE DEF Passed, Settles
      <4>4. QED
        BY <2>e, <2>3, <2>8, <4>1, <4>3
    <3>5. QED
      BY <3>2, <3>3, <3>4
  <2>9. ASSUME ~Crash, ~Exit, NEW c \in Caller, WriteModeMap(c) \/ Commit(c) \/ FinishSave(c)
        PROVE  (\A d \in Caller : Passed(d)') /\ Settles'
    <3>1. CASE Return(c, FALSE)
      <4>1. UNCHANGED reported
        BY <2>9, <3>1, CallerFacts, IdleFallback DEF WriteModeMap, Commit, FinishSave, Return, Known, TypeOK, TaskState
      <4>2. QED
        BY <2>6, <2>9, <3>1, <4>1
    <3>2. CASE /\ UNCHANGED phase
               /\ \E pc \in {"commit", "saving", "notifying"} : task' = [task EXCEPT ![c].pc = pc]
      <4>1. /\ task'[c].mode = task[c].mode /\ task'[c].pc \in {"commit", "saving", "notifying"}
            /\ \A d \in Caller \ {c} : task'[d] = task[d]
        BY <3>2 DEF Known, TypeOK, TaskState
      <4>2. task[c].mode = "smart" => Tracked(g)
        BY <2>9, <2>a DEF WriteModeMap, Commit, FinishSave
      <4>3. reported' = reported \/ reported' = task[c].mode
        BY <2>9 DEF WriteModeMap, Commit, FinishSave
      <4>4. Passed(c)' /\ Settles'
        BY <2>a, <2>3, <2>9, <3>2, <4>1, <4>2, <4>3
      <4> HIDE DEF Passed, Settles
      <4>5. QED
        BY <2>e, <2>3, <2>9, <4>1, <4>4
    <3>3. QED
      BY <2>9, <3>1, <3>2 DEF WriteModeMap, Commit, FinishSave, GiveUp
  <2>10. ASSUME ~Crash, ~Exit, NEW c \in Caller, Notify(c)
         PROVE  (\A d \in Caller : Passed(d)') /\ Settles'
    <3>1. task[c].pc = "notifying" /\ Return(c, TRUE) /\ UNCHANGED reported
      BY <2>10 DEF Notify, modeVars
    <3>2. reported = task[c].mode
      BY <3>1 DEF Known, FacesAgree
    <3>3. Settles'
      BY <2>a, <2>3, <2>10, <3>1, <3>2
    <3>4. QED
      BY <2>6, <2>10, <3>1, <3>3
  <2>11. ASSUME ~Crash, ~Exit,
                \/ MonDecide \/ MonRestore
                \/ \E c \in Clients, m \in Mode : ClientSetsMode(c, m)
                \/ \E onBattery \in BOOLEAN : BatteryChanged(onBattery)
         PROVE  (\A d \in Caller : Passed(d)') /\ Settles'
    <3>1. UNCHANGED <<reported, phase>>
      BY <2>11 DEF MonDecide, MonRestore, ClientSetsMode, BatteryChanged, modeVars
    <3>2. UNCHANGED task \/ \E c \in Caller : \E m, save : Request(c, m, save)
      BY <2>11, CallerFacts DEF MonDecide, MonRestore, ClientSetsMode, BatteryChanged
    <3>3. CASE UNCHANGED task
      BY <2>4, <2>11, <3>1, <3>3
    <3>4. QED
      BY <2>5, <2>11, <3>1, <3>2, <3>3
  <2>12. CASE ~Crash /\ ~Exit /\ UNCHANGED <<phase, transition, task, reported, modeFile, modeMap>>
    BY <2>4, <2>12
  <2> HIDE DEF Passed, Settles
  <2>13. QED
    BY <2>1, <2>2, <2>7, <2>8, <2>9, <2>10, <2>11, <2>12, OtherSteps DEF Transition
<1>3. QED
  BY <1>1, <1>2, TypeCorrect, LockDisciplineHolds, FacesAgreeHolds, PTL DEF Spec

(* compute_switcheroo_env asks for GPU 1 by name (CARDWIRE_FORCE_DGPU) when   *)
(* two GPUs are advertised; that is the GPU it was asked for.                 *)
OffloadIsOne ==
  \A g \in Advertised : ~IsDefault(g) /\ Cardinality(Advertised) = 2 /\ g \in Discrete => g = 1

(* What a launch on a GPU other than the default one is granted.              *)
LEMMA ForcedByLaunch ==
  ASSUME NEW g \in Available, ~IsDefault(g), reported \in {"smart", "manual"}
  PROVE  /\ LaunchAllowed(g) = {}
         /\ \E v \in Nat : /\ ForcedGpu(LaunchForced(g), Self, Parent) = {v}
                           /\ v \in {1, g}
                           /\ v # g => Cardinality(Advertised) = 2 /\ g \in Discrete
<1>1. g \in Nat /\ Absent \notin Nat /\ AllGpus \notin Nat
  BY GpuAssumption, VerdictAssumption
<1> DEFINE grant == Verdict(LaunchEnv(g, Cardinality(Advertised)), FALSE, reported = "smart")
           v == IF Cardinality(Advertised) = 2 /\ g \in Discrete THEN 1 ELSE g
<1>2. LaunchGrant(g) = grant
  BY DEF LaunchGrant
<1>3. grant = {v}
  <2>1. CASE Cardinality(Advertised) = 2 /\ g \in Discrete
    <3>1. LaunchEnv(g, Cardinality(Advertised)) = [NoEnv EXCEPT !.forceDgpu = 1]
      BY <2>1 DEF LaunchEnv
    <3>2. 1 # Absent
      BY <1>1
    <3>3. QED
      BY <2>1, <3>1, <3>2 DEF Verdict, NoEnv
  <2>2. CASE ~(Cardinality(Advertised) = 2 /\ g \in Discrete)
    <3>1. LaunchEnv(g, Cardinality(Advertised)) = [NoEnv EXCEPT !.forceGpu = g]
      BY <2>2 DEF LaunchEnv
    <3>2. g # Absent
      BY <1>1
    <3>3. QED
      BY <2>2, <3>1, <3>2 DEF Verdict, NoEnv
  <2>3. QED
    BY <2>1, <2>2
<1>4. v \in Nat /\ v # AllGpus /\ v \in {1, g}
  BY <1>1
<1>5. v # g => Cardinality(Advertised) = 2 /\ g \in Discrete
  OBVIOUS
<1> HIDE DEF grant, v
<1>6. LaunchAllowed(g) = {}
  BY <1>2, <1>3, <1>4 DEF LaunchAllowed
<1>7. LaunchForced(g) = [p \in {Self} |-> v]
  <2>1. {q \in {Self} : LaunchGrant(g) \ {AllGpus} # {}} = {Self}
    BY <1>2, <1>3, <1>4
  <2>2. (CHOOSE w \in LaunchGrant(g) : w # AllGpus) = v
    BY <1>2, <1>3, <1>4
  <2>3. QED
    BY <2>1, <2>2 DEF LaunchForced
<1>8. ForcedGpu(LaunchForced(g), Self, Parent) = {v}
  BY <1>7 DEF ForcedGpu
<1>9. QED
  BY <1>4, <1>5, <1>6, <1>8

(* No launch forces the default GPU's process anywhere.                       *)
LEMMA DefaultUnforced ==
  ASSUME NEW g, IsDefault(g)
  PROVE  ForcedGpu(LaunchForced(g), Self, Parent) = {}
<1>1. LaunchGrant(g) \subseteq {AllGpus}
  <2> DEFINE a == IF g \in Discrete THEN 1 ELSE 0
  <2>1. LaunchEnv(g, Cardinality(Advertised)) = [NoEnv EXCEPT !.allow = a]
    BY DEF LaunchEnv
  <2>2. a # Absent
    BY VerdictAssumption
  <2> HIDE DEF a
  <2>3. Verdict(LaunchEnv(g, Cardinality(Advertised)), FALSE, reported = "smart") \subseteq {AllGpus}
    BY <2>1, <2>2 DEF Verdict, NoEnv
  <2>4. QED
    BY <2>3 DEF LaunchGrant
<1>2. {q \in {Self} : LaunchGrant(g) \ {AllGpus} # {}} = {}
  BY <1>1
<1>3. DOMAIN LaunchForced(g) = {}
  BY <1>2 DEF LaunchForced
<1>4. QED
  BY <1>3 DEF ForcedGpu

LEMMA EntryIsOf ==
  ASSUME NEW g, NEW e \in Entries(g)
  PROVE  e.gpu = g /\ e.blocked = ("blocked" \in nodes[g] /\ e.blocked)
<1>1. PICK s \in nodes[g] \ {"untracked"} : e = [gpu |-> g, blocked |-> s = "blocked"]
  BY Zenon DEF Entries
<1>2. e.gpu = g /\ e.blocked = (s = "blocked")
  BY <1>1
<1>3. QED
  BY <1>1, <1>2

(* Until something fails a process launched on a GPU that the shim advertises *)
(* opens it, in every mode and on every system where the GPU that the shim    *)
(* names 1 is the one that was chosen; on any system with two keys it is.     *)
THEOREM LaunchesReach == Spec => [](OffloadIsOne => LaunchReachesGpu)
<1> DEFINE Facts == /\ TypeOK /\ DefaultNeverBlocked /\ OffloadHiddenAsReported
                    /\ KernelMatchesReported /\ ReportedIsOffered
<1>1. Facts => (OffloadIsOne => LaunchReachesGpu)
  <2> SUFFICES ASSUME Facts, OffloadIsOne, Unfailed, Settled, NEW g \in Advertised, NEW e \in Entries(g)
               PROVE  ~HookHides(e, LaunchAllowed(g), LaunchForced(g))
    BY DEF LaunchReachesGpu, Opens
  <2>1. KernelMode[modeMap] = reported /\ reported \in AvailableModes
    BY DEF Facts, Settled, KernelMatchesReported, ReportedIsOffered
  <2>2. PICK b \in GpuBlocked(g) : Launchable(g, b, reported)
    BY DEF Advertised
  <2>3. g \in Available /\ g \in Gpu
    BY <2>2 DEF Launchable, Advertised
  <2>4. e.gpu = g /\ (e.blocked => "blocked" \in nodes[g])
    BY EntryIsOf
  <2>5. SUFFICES ASSUME reported # "hybrid"
                 PROVE  ~IsInodeBlocked(reported, e, LaunchAllowed(g), LaunchForced(g), Self, Parent)
    BY <2>1, HookOnEntry
  <2>6. reported \in {"integrated", "smart", "manual"}
    BY <2>1, <2>5 DEF AvailableModes
  <2>7. CASE IsDefault(g)
    <3>1. ForcedGpu(LaunchForced(g), Self, Parent) = {}
      BY <2>7, DefaultUnforced
    <3>2. ~e.blocked /\ e.gpu = 0
      BY <2>3, <2>4, <2>7 DEF Facts, DefaultNeverBlocked, IsDefault
    <3>3. QED
      BY <2>6, <3>1, <3>2 DEF IsInodeBlocked, SmartHides
  <2>8. CASE ~IsDefault(g) /\ reported \in {"smart", "manual"}
    <3>1. ForcedGpu(LaunchForced(g), Self, Parent) = {g}
      BY <2>3, <2>8, ForcedByLaunch DEF OffloadIsOne
    <3>2. QED
      BY <2>4, <2>8, <3>1 DEF IsInodeBlocked
  <2>9. CASE ~IsDefault(g) /\ reported = "integrated"
    <3>1. SystemType = "Laptop"
      BY <2>1, <2>9 DEF AvailableModes
    <3>2. g \in Offload
      BY <2>3, <2>9, <3>1, LaptopHidesTheOther DEF IsDefault
    <3>3. nodes[g] = {"blocked"}
      BY <2>9, <3>1, <3>2 DEF Facts, OffloadHiddenAsReported, NodeStateOf
    <3>4. b
      BY <2>2, <3>3 DEF GpuBlocked
    <3>5. QED
      BY <2>2, <2>9, <3>4 DEF Launchable
  <2>10. QED
    BY <2>6, <2>7, <2>8, <2>9
<1>2. QED
  BY <1>1, TypeCorrect, DefaultStaysVisible, OffloadStaysAsReported, KernelAlwaysMatches,
     ReportedAlwaysOffered, PTL

(* With no GPU but 0 and 1 in use the shim names the right one, and every     *)
(* launch reaches its GPU.                                                    *)
COROLLARY LaunchesReachOnTwo ==
  ASSUME Available \subseteq {0, 1}
  PROVE  Spec => []LaunchReachesGpu
<1>1. OffloadIsOne
  BY DEF OffloadIsOne, Advertised, Launchable, IsDefault
<1>2. QED
  BY <1>1, LaunchesReach, PTL

(* Until something fails, in Smart mode a process launched on the offload GPU *)
(* does not see the GPU that drives the desktop.                              *)
THEOREM LaunchesIsolate == Spec => []LaunchIsolates
<1> DEFINE Facts == TypeOK /\ KernelMatchesReported /\ ReportedIsOffered /\ SmartTracksDefault
<1>1. Facts => LaunchIsolates
  <2> SUFFICES ASSUME Facts, Settled, reported = "smart",
                      NEW g \in Advertised, ~IsDefault(g), NEW h \in Available \ {g}
               PROVE  Hides(h, LaunchAllowed(g), LaunchForced(g))
    BY DEF LaunchIsolates
  <2>1. KernelMode[modeMap] = "smart" /\ SystemType = "Laptop"
    BY DEF Facts, Settled, KernelMatchesReported, ReportedIsOffered, AvailableModes
  <2>2. g \in Available
    BY DEF Advertised, Launchable
  <2>3. /\ Offload = Available \ {0}
        /\ 0 \in Available \ Discrete
        /\ Cardinality(Available) = 2 /\ IsFiniteSet(Available)
    BY <2>1, LaptopHidesTheOther, GpuAssumption, FS_Subset DEF SystemType
  <2>4. h = 0
    <3>1. Cardinality(Available \ {0}) = 1 /\ IsFiniteSet(Available \ {0})
      BY <2>3, FS_RemoveElement
    <3>2. PICK x : Available \ {0} = {x}
      BY <3>1, FS_Singleton
    <3>3. g # 0
      BY <2>2 DEF IsDefault
    <3>4. g = x
      BY <2>2, <3>2, <3>3
    <3>5. QED
      BY <3>2, <3>4
  <2>5. Entries(h) # {}
    <3>1. Tracked(h)
      BY <2>3, <2>4 DEF Facts, Settled, SmartTracksDefault, IsDefault
    <3>2. PICK s \in nodes[h] \ {"untracked"} : TRUE
      BY <3>1 DEF Tracked
    <3>3. QED
      BY <3>2 DEF Entries
  <2>6. ASSUME NEW e \in Entries(h) PROVE HookHides(e, LaunchAllowed(g), LaunchForced(g))
    <3>1. e.gpu = 0
      BY <2>4, EntryIsOf
    <3>2. LaunchAllowed(g) = {} /\ \E v \in Nat \ {0} : ForcedGpu(LaunchForced(g), Self, Parent) = {v}
      <4>1. g \in Nat \ {0}
        BY <2>2, GpuAssumption DEF IsDefault
      <4>2. QED
        BY <2>2, <4>1, ForcedByLaunch
    <3>3. IsInodeBlocked("smart", e, LaunchAllowed(g), LaunchForced(g), Self, Parent)
      BY <3>1, <3>2 DEF IsInodeBlocked, Lets
    <3>4. QED
      BY <2>1, <3>3, HookOnEntry
  <2>7. QED
    BY <2>5, <2>6 DEF Hides
<1>2. QED
  BY <1>1, TypeCorrect, KernelAlwaysMatches, ReportedAlwaysOffered, SmartTracks, PTL

(***************************************************************************)
(* Progress                                                                *)
(***************************************************************************)

(* What FairSpec assumes of the calls, the monitor and the restarts, with the  *)
(* guards of the actions in place of ENABLED.                                 *)
CanBegin(c) == /\ task[c].pc = "waiting" /\ TransitionFree
               /\ task[c].mode = "manual" => GpuStateUnwritten
CanStep(c)  == task[c].pc \in InTransition \/ CanBegin(c)
CanProbe    == DisplaySwitch /\ phase = "serving" /\ mon.pc = "idle" /\ task["display"].pc = "idle"
CanLook     == mon.pc = "mode" /\ ModeStateFree
CanMonitor  == mon.pc \in {"gpu", "restore", "unblock"} \/ CanLook

CanBlock(g) == blk[g].pc \in {"probe", "sync", "saving"} \/ (blk[g].pc = "save" /\ GpuStateFree)

BeginsOn(c) == <>[](~CanBegin(c)) \/ []<><<BeginTransition(c)>>_vars
StepsOn(c)  == []<>(~CanStep(c)) \/ []<><<Transition(c)>>_vars
ProbesOn(g) == <>[](~CanProbe) \/ []<><<MonProbe(g)>>_vars
BlocksOn(g) == []<>(~CanBlock(g)) \/ []<><<BlockCall(g)>>_vars
CallFairness  == \A c \in Caller : BeginsOn(c) /\ StepsOn(c)
ProbeFairness == \A g \in Gpu : ProbesOn(g)
BlockFairness == \A g \in Gpu : BlocksOn(g)
GuardFairness ==
  /\ []<>(phase # "down") \/ []<><<Boot>>_vars
  /\ []<>(phase # "failed") \/ []<><<Exit>>_vars
  /\ []<>(~CanMonitor) \/ []<><<Monitor>>_vars
  /\ <>[](~CanLook) \/ []<><<MonMode>>_vars
  /\ []CallFairness /\ []ProbeFairness /\ []BlockFairness

(* Nobody writes gpu_state.json before the daemon serves, and on a laptop      *)
(* nobody ever does.                                                          *)
BlkQuiet == (phase # "serving" \/ SystemType = "Laptop") => \A g \in Gpu : blk[g].pc = "idle"

LEMMA BlkQuietHolds == Spec => []BlkQuiet
<1>1. Init => BlkQuiet
  BY DEF Init, BlkQuiet, BlkIdle
<1>2. IInv /\ OnlyTransitionsTouch' /\ BlkQuiet /\ [Next]_vars => BlkQuiet'
  <2> SUFFICES ASSUME IInv, OnlyTransitionsTouch', BlkQuiet, [Next]_vars PROVE BlkQuiet'
    OBVIOUS
  <2>0. CASE SystemType = "Laptop"
    BY <2>0 DEF OnlyTransitionsTouch, BlkQuiet
  <2> SUFFICES ASSUME phase' # "serving" PROVE \A g \in Gpu : blk'[g].pc = "idle"
    BY <2>0 DEF BlkQuiet
  <2>1. CASE Boot
    BY <2>1 DEF Boot, BlkQuiet
  <2>2. CASE Crash \/ Exit
    BY <2>2 DEF Crash, Exit, Vanish, BlkIdle
  <2>3. CASE UNCHANGED <<phase, blk>>
    BY <2>3 DEF BlkQuiet
  <2>4. ASSUME NEW c \in Caller, Transition(c) PROVE \A g \in Gpu : blk'[g].pc = "idle"
    <3>1. UNCHANGED blk /\ (UNCHANGED phase \/ Return(c, TRUE) \/ Return(c, FALSE)) /\ task[c].pc # "idle"
      BY <2>4 DEF Transition, BeginTransition, ApplyGpu, WriteModeMap, GiveUp, Commit, FinishSave, Notify
    <3>2. phase # "serving"
      BY <3>1, CallerFacts DEF Return, IInv, LockDiscipline
    <3>3. QED
      BY <3>1, <3>2 DEF BlkQuiet
  <2>5. CASE \E g \in Gpu : BlockCall(g)
    BY <2>5 DEF BlockCall, ProbeBlock, SyncBlock, SaveBlock, FinishSaveBlock, BlkQuiet
  <2>6. CASE \E g \in Gpu, block \in BOOLEAN : SetBlock(g, block)
    BY <2>6 DEF SetBlock
  <2>7. CASE \/ \E c \in Clients, m \in Mode : ClientSetsMode(c, m)
             \/ \E onBattery \in BOOLEAN : BatteryChanged(onBattery)
             \/ \E kind \in {"started", "stopped"} : RunPowerd(kind)
             \/ \E g \in Gpu : MonProbe(g)
             \/ \E g \in Available : Plug(g)
    BY <2>3, <2>7 DEF ClientSetsMode, BatteryChanged, RunPowerd, MonProbe, Plug
  <2>8. CASE Monitor \/ Rest \/ UNCHANGED vars
    BY <2>3, <2>8 DEF Monitor, MonMode, MonDecide, MonRestore, MonUnblock, Rest, vars
  <2>9. QED
    BY <2>1, <2>2, <2>4, <2>5, <2>6, <2>7, <2>8 DEF Next
<1>3. QED
  BY <1>1, <1>2, InvariantHolds, OnlyTransitionsTouchHolds, PTL DEF Spec

(* A step of another caller leaves a call alone, and the phase with it. *)
LEMMA OtherCallsApart ==
  ASSUME TypeOK, LockDiscipline, NEW c \in Caller, task[c].pc # "idle",
         NEW d \in Caller \ {c}, Transition(d)
  PROVE  task'[c] = task[c] /\ phase' = phase
<1>1. d # "startup"
  <2>1. task[d].pc # "idle"
    BY DEF Transition, BeginTransition, ApplyGpu, WriteModeMap, Commit, FinishSave, Notify
  <2>2. QED
    BY <2>1, CallerFacts DEF LockDiscipline
<1>2. ASSUME NEW ok, Return(d, ok) PROVE task'[c] = task[c] /\ phase' = phase
  BY <1>1, <1>2 DEF TypeOK, Return
<1>3. CASE BeginTransition(d)
  BY <1>2, <1>3 DEF TypeOK, BeginTransition
<1>4. CASE ApplyGpu(d) \/ WriteModeMap(d)
  BY <1>2, <1>4 DEF TypeOK, ApplyGpu, WriteModeMap, GiveUp
<1>5. CASE Commit(d) \/ FinishSave(d) \/ Notify(d)
  BY <1>2, <1>5 DEF TypeOK, Commit, FinishSave, Notify
<1>6. QED
  BY <1>3, <1>4, <1>5 DEF Transition

(* What a step does to a call that has not returned. *)
LEMMA CallMoves ==
  ASSUME TypeOK, LockDiscipline, NEW c \in Caller, task[c].pc # "idle", [Next]_vars
  PROVE  \/ task'[c] = task[c] /\ phase' = phase
         \/ Transition(c)
         \/ task'[c].pc = "idle" /\ phase' = "down" /\ transition' = NoCaller
<1>1. CASE Boot
  BY <1>1, CallerFacts DEF Boot, LockDiscipline
<1>2. CASE Crash \/ Exit
  BY <1>2 DEF Crash, Exit, Vanish, Idle
<1>3. ASSUME NEW d \in Caller, NEW m, NEW save, Request(d, m, save), UNCHANGED phase
      PROVE  task'[c] = task[c] /\ phase' = phase
  BY <1>3 DEF TypeOK, Request
<1>4. CASE \/ \E d \in Clients, m \in Mode : ClientSetsMode(d, m)
           \/ \E onBattery \in BOOLEAN : BatteryChanged(onBattery)
  BY <1>3, <1>4, CallerFacts DEF ClientSetsMode, BatteryChanged
<1>5. CASE MonDecide \/ MonRestore
  BY <1>3, <1>5, CallerFacts DEF MonDecide, MonRestore
<1>6. CASE \E d \in Caller : Transition(d)
  BY <1>6, OtherCallsApart
<1>7. QED
  BY <1>1, <1>2, <1>4, <1>5, <1>6, OtherSteps

(***************************************************************************)
(* A call in its transition                                                 *)
(***************************************************************************)

At(c, pc) == task[c].pc = pc
Inside(c) == task[c].pc \in InTransition
Outside(c) == task[c].pc \notin InTransition
Left(c, i) == At(c, "applying") /\ Cardinality(task[c].todo) = i

LEMMA TodoFinite ==
  ASSUME TypeOK, NEW c \in Caller
  PROVE  IsFiniteSet(task[c].todo) /\ Cardinality(task[c].todo) \in Nat /\ task[c].todo \subseteq Available
<1>1. task[c].todo \subseteq Available
  BY DEF TypeOK, TaskState
<1>2. IsFiniteSet(task[c].todo)
  BY <1>1, GpuAssumption, FS_Subset
<1>3. QED
  BY <1>1, <1>2, FS_CardinalityType

(* The GPU loop. *)
LEMMA ApplyingStep ==
  ASSUME TypeOK, LockDiscipline, NEW c \in Caller, NEW i \in Nat, Left(c, i), [Next]_vars
  PROVE  \/ ~Transition(c) /\ Left(c, i)'
         \/ i > 0 /\ Left(c, i - 1)'
         \/ i = 0 /\ At(c, "commit")'
         \/ Outside(c)'
<1>1. task[c].pc = "applying" /\ task[c] \in TaskState /\ IsFiniteSet(task[c].todo)
  BY TodoFinite DEF Left, At, TypeOK
<1>2. ASSUME Return(c, FALSE) PROVE Outside(c)'
  BY <1>2, IdleFallback DEF TypeOK, Return, Outside, InTransition
<1>3. CASE ApplyGpu(c)
  <2>1. CASE GiveUp(c)
    BY <1>2, <2>1 DEF GiveUp
  <2>2. ASSUME NEW g \in task[c].todo, task' = [task EXCEPT ![c].todo = @ \ {g}]
        PROVE  i > 0 /\ Left(c, i - 1)'
    <3>1. task'[c].pc = "applying" /\ task'[c].todo = task[c].todo \ {g}
      BY <1>1, <2>2 DEF TypeOK, TaskState
    <3>2. Cardinality(task[c].todo \ {g}) = Cardinality(task[c].todo) - 1
          /\ Cardinality(task[c].todo \ {g}) \in Nat
      <4>1. IsFiniteSet(task[c].todo \ {g})
        BY <1>1, FS_Subset
      <4>2. QED
        BY <1>1, <4>1, FS_RemoveElement, FS_CardinalityType
    <3>3. QED
      BY <3>1, <3>2 DEF Left, At
  <2>3. QED
    BY <1>3, <2>1, <2>2 DEF ApplyGpu
<1>4. CASE WriteModeMap(c)
  <2>1. CASE GiveUp(c)
    BY <1>2, <2>1 DEF GiveUp
  <2>2. CASE task' = [task EXCEPT ![c].pc = "commit"]
    <3>1. At(c, "commit")'
      BY <1>1, <2>2 DEF TypeOK, TaskState, At
    <3>2. i = 0
      BY <1>4, FS_EmptySet DEF WriteModeMap, Left
    <3>3. QED
      BY <3>1, <3>2
  <2>3. QED
    BY <1>4, <2>1, <2>2 DEF WriteModeMap
<1>5. CASE ~Transition(c)
  <2>1. task'[c] = task[c] \/ task'[c].pc = "idle"
    BY <1>1, <1>5, CallMoves
  <2>2. QED
    BY <1>5, <2>1 DEF Left, At, Outside, InTransition
<1>6. QED
  BY <1>1, <1>3, <1>4, <1>5 DEF Transition, BeginTransition, Commit, FinishSave, Notify

(* The writes and signals after it. *)
LEMMA CommittedStep ==
  ASSUME TypeOK, LockDiscipline, NEW c \in Caller, [Next]_vars
  PROVE  /\ At(c, "commit") => \/ ~Transition(c) /\ At(c, "commit")'
                               \/ At(c, "saving")' \/ At(c, "notifying")' \/ Outside(c)'
         /\ At(c, "saving") => (~Transition(c) /\ At(c, "saving")') \/ At(c, "notifying")' \/ Outside(c)'
         /\ At(c, "notifying") => (~Transition(c) /\ At(c, "notifying")') \/ Outside(c)'
<1>1. ASSUME task[c].pc \in {"commit", "saving", "notifying"}, ~Transition(c)
      PROVE  task'[c].pc = task[c].pc \/ Outside(c)'
  BY <1>1, CallMoves DEF Outside, InTransition
<1>2. CASE Transition(c) /\ At(c, "commit")
  <2>1. Commit(c)
    BY <1>2 DEF At, Transition, BeginTransition, ApplyGpu, WriteModeMap, FinishSave, Notify
  <2>2. QED
    BY <1>2, <2>1 DEF Commit, At, TypeOK, TaskState
<1>3. CASE Transition(c) /\ At(c, "saving")
  <2>1. FinishSave(c)
    BY <1>3 DEF At, Transition, BeginTransition, ApplyGpu, WriteModeMap, Commit, Notify
  <2>2. QED
    BY <1>3, <2>1 DEF FinishSave, At, TypeOK, TaskState
<1>4. CASE Transition(c) /\ At(c, "notifying")
  <2>1. Return(c, TRUE)
    BY <1>4 DEF At, Transition, BeginTransition, ApplyGpu, WriteModeMap, Commit, FinishSave, Notify
  <2>2. Outside(c)'
    BY <2>1 DEF Return, Idle, Outside, InTransition, TypeOK
  <2>3. QED
    BY <1>4, <2>2 DEF At
<1>5. CASE ~Transition(c)
  BY <1>1, <1>5 DEF At
<1>6. QED
  BY <1>2, <1>3, <1>4, <1>5 DEF At

LoopEnds(c) == At(c, "applying") ~> (At(c, "commit") \/ Outside(c))
Leaves(c)   == Inside(c) ~> Outside(c)
Shrinks(c, i) == Left(c, i) ~> (Left(c, i - 1) \/ At(c, "commit") \/ Outside(c))

LEMMA StepFacts ==
  ASSUME NEW c \in Caller
  PROVE  /\ <<Transition(c)>>_vars => Transition(c) /\ [Next]_vars
         /\ <<BeginTransition(c)>>_vars => BeginTransition(c) /\ Transition(c) /\ [Next]_vars
BY DEF Next, Transition

LEMMA CallIsFair ==
  ASSUME NEW c \in Caller
  PROVE  CallFairness => BeginsOn(c) /\ StepsOn(c)
BY DEF CallFairness

LEMMA LoopShrinks ==
  ASSUME NEW c \in Caller, NEW i \in Nat
  PROVE  []IInv /\ [][Next]_vars /\ GuardFairness => Shrinks(c, i)
<1> SUFFICES ASSUME []IInv, [][Next]_vars, []GuardFairness
             PROVE  Left(c, i) ~> (Left(c, i - 1) \/ At(c, "commit") \/ Outside(c))
  BY PTL DEF GuardFairness, Shrinks
<1> DEFINE Gone == Left(c, i - 1) \/ At(c, "commit") \/ Outside(c)
<1>1. IInv /\ Left(c, i) /\ [Next]_vars => Left(c, i)' \/ Gone'
  BY ApplyingStep DEF IInv
<1>2. IInv /\ Left(c, i) /\ <<Transition(c)>>_vars => Gone'
  BY ApplyingStep, StepFacts DEF IInv
<1>3. Left(c, i) => CanStep(c)
  BY DEF Left, At, CanStep, InTransition
<1>4. CallFairness => StepsOn(c)
  BY CallIsFair
<1>5. Gone <=> Left(c, i - 1) \/ At(c, "commit") \/ Outside(c)
  OBVIOUS
<1> HIDE DEF Gone
<1>6. Left(c, i) ~> Gone
  BY <1>1, <1>2, <1>3, <1>4, PTL DEF GuardFairness, StepsOn
<1>7. QED
  BY <1>6 DEF Gone

LEMMA NothingLeft ==
  ASSUME NEW c \in Caller, TypeOK
  PROVE  /\ ~Left(c, 0 - 1)
         /\ At(c, "applying") => \E i \in Nat : Left(c, i)
BY TodoFinite DEF Left

(* On a laptop a transition touches at most two GPUs. *)
LEMMA LaptopLoopEnds ==
  ASSUME NEW c \in Caller, SystemType = "Laptop"
  PROVE  []IInv /\ [][Next]_vars /\ GuardFairness => LoopEnds(c)
<1> SUFFICES ASSUME []IInv, [][Next]_vars, []GuardFairness
             PROVE  At(c, "applying") ~> (At(c, "commit") \/ Outside(c))
  BY PTL DEF GuardFairness, LoopEnds
<1>1. []IInv /\ [][Next]_vars /\ GuardFairness => Shrinks(c, 0)
  BY LoopShrinks
<1>2. []IInv /\ [][Next]_vars /\ GuardFairness => Shrinks(c, 1)
  BY LoopShrinks
<1>3. []IInv /\ [][Next]_vars /\ GuardFairness => Shrinks(c, 2)
  BY LoopShrinks
<1>4. IInv => ~Left(c, 0 - 1)
  BY NothingLeft DEF IInv
<1>5. Left(c, 1 - 1) => Left(c, 0)
  OBVIOUS
<1>6. Left(c, 2 - 1) => Left(c, 1)
  OBVIOUS
<1>7. IInv /\ At(c, "applying") => Left(c, 0) \/ Left(c, 1) \/ Left(c, 2)
  <2> SUFFICES ASSUME TypeOK, At(c, "applying") PROVE Left(c, 0) \/ Left(c, 1) \/ Left(c, 2)
    BY DEF IInv
  <2>1. Cardinality(Available) = 2 /\ IsFiniteSet(Available)
    BY GpuAssumption, FS_Subset DEF SystemType
  <2>2. Cardinality(task[c].todo) <= 2 /\ Cardinality(task[c].todo) \in Nat
    BY <2>1, TodoFinite, FS_Subset
  <2>3. QED
    BY <2>2 DEF Left
<1>8. QED
  BY <1>1, <1>2, <1>3, <1>4, <1>5, <1>6, <1>7, PTL DEF GuardFairness, Shrinks

(* A set of numbers that is not empty has a least one.                        *)
LEMMA LeastNumber ==
  ASSUME NEW V \in SUBSET Nat, V # {}
  PROVE  \E k \in V : \A m \in V : k <= m
<1> DEFINE R == OpToRel(<, Nat)
<1>1. IsWellFoundedOn(R, Nat)
  BY NatLessThanWellFounded
<1>2. \A a, b \in Nat : a < b => <<a, b>> \in R
  BY DEF OpToRel
<1> HIDE DEF R
<1>3. PICK k \in V : \A m \in V : ~(<<m, k>> \in R)
  BY <1>1, WFMin
<1>4. ASSUME NEW m \in V PROVE k <= m
  <2>1. m \in Nat /\ k \in Nat
    OBVIOUS
  <2>2. ~(<<m, k>> \in R)
    BY <1>3
  <2>3. ~(m < k)
    BY <1>2, <2>1, <2>2
  <2>4. QED
    BY <2>1, <2>3
<1>5. QED
  BY <1>4

(* Every behaviour has, for each call, a set of the numbers of GPUs that the   *)
(* loop will ever have left, and one of the bounds that the faults and stops   *)
(* ever keep.  TLA+ builds no set from a temporal formula, so that they exist  *)
(* is a hypothesis where a least number is needed, in the place of an           *)
(* induction.                                                                 *)
EverLeft(c, i) == <>Left(c, i)
SizesOf(c, V) == \A i \in Nat : i \in V <=> EverLeft(c, i)
SizesFormSets == \A c \in Caller : \E V \in SUBSET Nat : SizesOf(c, V)

LEMMA AnyLoopEnds ==
  ASSUME NEW c \in Caller
  PROVE  []IInv /\ [][Next]_vars /\ GuardFairness /\ []SizesFormSets => LoopEnds(c)
<1> SUFFICES ASSUME []IInv, [][Next]_vars, []GuardFairness, []SizesFormSets
             PROVE  At(c, "applying") ~> (At(c, "commit") \/ Outside(c))
  BY PTL DEF GuardFairness, LoopEnds
<1> DEFINE Gone == At(c, "commit") \/ Outside(c)
<1>1. ASSUME NEW i \in Nat PROVE Shrinks(c, i)
  <2>1. []IInv /\ [][Next]_vars /\ GuardFairness => Shrinks(c, i)
    BY LoopShrinks
  <2>2. QED
    BY <2>1, PTL
<1>2. ~EverLeft(c, 0 - 1)
  <2>1. IInv => ~Left(c, 0 - 1)
    BY NothingLeft DEF IInv
  <2>2. QED
    BY <2>1, PTL DEF EverLeft
<1>3. ASSUME NEW V \in SUBSET Nat, SizesOf(c, V), NEW i \in Nat, Left(c, i)
      PROVE  <>Gone
  <2>1. EverLeft(c, i)
    BY <1>3, PTL DEF EverLeft
  <2>2. V # {}
    BY <1>3, <2>1 DEF SizesOf
  <2>3. PICK k \in V : \A m \in V : k <= m
    BY <2>2, LeastNumber
  <2>4. k \in Nat /\ EverLeft(c, k)
    BY <1>3 DEF SizesOf
  <2>5. Shrinks(c, k)
    BY <1>1, <2>4
  <2>6. ~EverLeft(c, k - 1)
    <3>1. CASE k = 0
      BY <1>2, <3>1
    <3>2. CASE k # 0
      <4>1. k - 1 \in Nat /\ k - 1 \notin V
        BY <2>3, <2>4, <3>2
      <4>2. QED
        BY <1>3, <4>1 DEF SizesOf
    <3>3. QED
      BY <3>1, <3>2
  <2>7. Gone <=> At(c, "commit") \/ Outside(c)
    OBVIOUS
  <2> HIDE DEF Gone
  <2>8. QED
    BY <2>4, <2>5, <2>6, PTL DEF EverLeft, Shrinks, Gone
<1>4. IInv /\ SizesFormSets /\ At(c, "applying") => <>Gone
  <2>1. IInv /\ At(c, "applying") => \E i \in Nat : Left(c, i)
    BY NothingLeft DEF IInv
  <2>2. SizesFormSets => \E V \in SUBSET Nat : SizesOf(c, V)
    BY DEF SizesFormSets
  <2> HIDE DEF Gone
  <2>3. QED
    BY <1>3, <2>1, <2>2
<1>5. QED
  BY <1>4, PTL

(* Who holds the transition lock gives it back. *)
LEMMA HolderLeaves ==
  ASSUME NEW c \in Caller
  PROVE  []IInv /\ [][Next]_vars /\ GuardFairness /\ LoopEnds(c) => Leaves(c)
<1> SUFFICES ASSUME []IInv, [][Next]_vars, []GuardFairness, []LoopEnds(c)
             PROVE  Inside(c) ~> Outside(c)
  BY PTL DEF GuardFairness, Leaves, LoopEnds
<1>1. IInv /\ At(c, "commit") /\ [Next]_vars
        => At(c, "commit")' \/ At(c, "saving")' \/ At(c, "notifying")' \/ Outside(c)'
  BY CommittedStep DEF IInv
<1>2. IInv /\ At(c, "saving") /\ [Next]_vars => At(c, "saving")' \/ At(c, "notifying")' \/ Outside(c)'
  BY CommittedStep DEF IInv
<1>3. IInv /\ At(c, "notifying") /\ [Next]_vars => At(c, "notifying")' \/ Outside(c)'
  BY CommittedStep DEF IInv
<1>4. IInv /\ At(c, "commit") /\ <<Transition(c)>>_vars => At(c, "saving")' \/ At(c, "notifying")' \/ Outside(c)'
  BY CommittedStep, StepFacts DEF IInv
<1>5. IInv /\ At(c, "saving") /\ <<Transition(c)>>_vars => At(c, "notifying")' \/ Outside(c)'
  BY CommittedStep, StepFacts DEF IInv
<1>6. IInv /\ At(c, "notifying") /\ <<Transition(c)>>_vars => Outside(c)'
  BY CommittedStep, StepFacts DEF IInv
<1>7. At(c, "commit") \/ At(c, "saving") \/ At(c, "notifying") => CanStep(c)
  BY DEF At, CanStep, InTransition
<1>8. CallFairness => StepsOn(c)
  BY CallIsFair
<1>9. Inside(c) => At(c, "applying") \/ At(c, "commit") \/ At(c, "saving") \/ At(c, "notifying")
  BY DEF Inside, At, InTransition
<1>10. QED
  BY <1>1, <1>2, <1>3, <1>4, <1>5, <1>6, <1>7, <1>8, <1>9, PTL DEF GuardFairness, LoopEnds, StepsOn

(***************************************************************************)
(* A call that waits for its transition                                     *)
(***************************************************************************)

(* A call for Manual mode also waits for who writes gpu_state.json; the others *)
(* wait for the transition lock alone.                                        *)
Easy(c) == SystemType = "Laptop" \/ task[c].mode # "manual" \/ phase # "serving"
Booting(b) == b <=> phase = "boot"
Waits(c, b) == At(c, "waiting") /\ Easy(c) /\ Booting(b)
Holds(c, b) == Inside(c) /\ Booting(b)
Done(c) == task[c].pc = "idle"

(* At start-up the first failure starts a second call, in any other case a     *)
(* call that returns is done.                                                 *)
LEMMA AfterReturn ==
  ASSUME TypeOK, LockDiscipline, NEW c \in Caller, NEW ok \in BOOLEAN, Return(c, ok), task[c].pc # "idle"
  PROVE  \/ Done(c)'
         \/ phase = "boot" /\ phase' = "fallback" /\ Waits(c, FALSE)' /\ ~ok
<1>1. CASE task' = [task EXCEPT ![c] = Idle]
  BY <1>1 DEF TypeOK, Idle, Done
<1>2. CASE c = "startup" /\ ~ok /\ phase = "boot" /\ task' = [task EXCEPT ![c] = Fallback] /\ phase' = "fallback"
  <2>1. task'[c].pc = "waiting" /\ phase' # "boot" /\ phase' # "serving"
    BY <1>2, IdleFallback DEF TypeOK
  <2>2. QED
    BY <1>2, <2>1 DEF Waits, Easy, At, Booting
<1>3. QED
  BY <1>1, <1>2 DEF Return

LEMMA WaitingStep ==
  ASSUME TypeOK, LockDiscipline, NEW c \in Caller, NEW b \in BOOLEAN, Waits(c, b), [Next]_vars
  PROVE  \/ ~BeginTransition(c) /\ Waits(c, b)'
         \/ Holds(c, b)' \/ Done(c)' \/ (b /\ Waits(c, FALSE)')
<1>1. CASE BeginTransition(c)
  <2>1. CASE Return(c, FALSE)
    BY <2>1, AfterReturn DEF Waits, At, Booting
  <2>2. CASE task' = [task EXCEPT ![c].pc   = "applying",
                                  ![c].todo = Touched(task[c].mode),
                                  ![c].hide = Hidden(task[c].mode, gpuSaved, AutoApply)] /\ UNCHANGED phase
    <3>1. task'[c].pc = "applying"
      BY <2>2 DEF TypeOK, TaskState
    <3>2. QED
      BY <2>2, <3>1 DEF Waits, Holds, Inside, InTransition, Booting
  <2>3. QED
    BY <1>1, <2>1, <2>2 DEF BeginTransition
<1>2. CASE ~BeginTransition(c)
  <2>1. ~Transition(c)
    BY <1>2 DEF Transition, ApplyGpu, WriteModeMap, Commit, FinishSave, Notify, Waits, At
  <2>2. (task'[c] = task[c] /\ phase' = phase) \/ Done(c)'
    BY <2>1, CallMoves DEF Waits, At, Done
  <2>3. QED
    BY <1>2, <2>2 DEF Waits, At, Easy, Booting
<1>3. QED
  BY <1>1, <1>2

LEMMA HoldingStep ==
  ASSUME TypeOK, LockDiscipline, NEW c \in Caller, NEW b \in BOOLEAN, Holds(c, b), [Next]_vars
  PROVE  Holds(c, b)' \/ Done(c)' \/ (b /\ Waits(c, FALSE)')
<1>1. task[c].pc # "idle"
  BY DEF Holds, Inside, InTransition
<1>2. ASSUME NEW ok \in BOOLEAN, Return(c, ok) PROVE Done(c)' \/ (b /\ Waits(c, FALSE)')
  BY <1>1, <1>2, AfterReturn DEF Holds, Booting
<1>3. ASSUME UNCHANGED phase, task'[c].pc \in InTransition PROVE Holds(c, b)'
  BY <1>3 DEF Holds, Inside, Booting
<1>4. CASE ApplyGpu(c)
  <2>1. ASSUME NEW g, task' = [task EXCEPT ![c].todo = @ \ {g}], UNCHANGED phase PROVE Holds(c, b)'
    <3>1. task'[c].pc = "applying"
      BY <1>4, <2>1 DEF ApplyGpu, TypeOK, TaskState
    <3>2. QED
      BY <1>3, <2>1, <3>1 DEF InTransition
  <2>2. QED
    BY <1>2, <1>4, <2>1 DEF ApplyGpu, GiveUp
<1>5. CASE WriteModeMap(c)
  <2>1. CASE task' = [task EXCEPT ![c].pc = "commit"] /\ UNCHANGED phase
    BY <1>3, <2>1 DEF TypeOK, TaskState, InTransition
  <2>2. QED
    BY <1>2, <1>5, <2>1 DEF WriteModeMap, GiveUp
<1>6. CASE Commit(c)
  <2>1. task'[c].pc \in {"saving", "notifying"} /\ UNCHANGED phase
    BY <1>6 DEF Commit, TypeOK, TaskState
  <2>2. QED
    BY <1>3, <2>1 DEF InTransition
<1>7. CASE FinishSave(c)
  BY <1>3, <1>7 DEF FinishSave, TypeOK, TaskState, InTransition
<1>8. CASE Notify(c)
  BY <1>2, <1>8 DEF Notify
<1>9. CASE ~Transition(c)
  <2>1. (task'[c] = task[c] /\ phase' = phase) \/ Done(c)'
    BY <1>1, <1>9, CallMoves DEF Done
  <2>2. QED
    BY <2>1 DEF Holds, Inside, Booting
<1>10. CASE BeginTransition(c)
  BY <1>10 DEF BeginTransition, Holds, Inside, InTransition
<1>11. QED
  BY <1>4, <1>5, <1>6, <1>7, <1>8, <1>9, <1>10 DEF Transition

(* The lock is given to one call at a time. *)
LEMMA LockMoves ==
  ASSUME TypeOK, LockDiscipline, LockDiscipline', NEW c \in Caller, Inside(c), [Next]_vars
  PROVE  Inside(c)' \/ TransitionFree'
<1>1. transition = c /\ task[c].pc # "idle" /\ c # NoCaller
  BY CallerFacts DEF Inside, InTransition, LockDiscipline
<1>2. CASE Transition(c)
  <2>1. ASSUME NEW ok, Return(c, ok), transition' = NoCaller PROVE TransitionFree'
    BY <2>1 DEF TransitionFree
  <2>2. CASE ~TransitionFree'
    <3>1. UNCHANGED transition
      BY <1>1, <1>2, <2>2 DEF TransitionFree, Transition, BeginTransition, ApplyGpu, WriteModeMap, GiveUp, Commit,
                         FinishSave, Notify
    <3>2. QED
      BY <1>1, <3>1 DEF LockDiscipline, Inside
  <2>3. QED
    BY <2>2
<1>3. CASE ~Transition(c)
  <2>1. task'[c] = task[c] \/ TransitionFree'
    BY <1>1, <1>3, CallMoves DEF TransitionFree
  <2>2. QED
    BY <2>1 DEF Inside
<1>4. QED
  BY <1>2, <1>3

AllLoopsEnd == \A c \in Caller : LoopEnds(c)
FreedAgain == []<>TransitionFree

LEMMA LockFrees ==
  []IInv /\ [][Next]_vars /\ GuardFairness /\ []AllLoopsEnd => FreedAgain
<1> SUFFICES ASSUME []IInv, [][Next]_vars, []GuardFairness, []AllLoopsEnd
             PROVE  []<>TransitionFree
  BY PTL DEF GuardFairness, FreedAgain
<1>1. ASSUME NEW c \in Caller PROVE Inside(c) => <>TransitionFree
  <2>1. AllLoopsEnd => LoopEnds(c)
    BY DEF AllLoopsEnd
  <2>2. []IInv /\ [][Next]_vars /\ GuardFairness /\ LoopEnds(c) => Leaves(c)
    BY HolderLeaves
  <2>3. IInv /\ IInv' /\ Inside(c) /\ [Next]_vars => Inside(c)' \/ TransitionFree'
    BY LockMoves DEF IInv
  <2>4. Outside(c) => ~Inside(c)
    BY DEF Outside, Inside
  <2>5. QED
    BY <2>1, <2>2, <2>3, <2>4, PTL DEF Leaves
<1>2. IInv => TransitionFree \/ \E c \in Caller : Inside(c)
  BY DEF IInv, TypeOK, LockDiscipline, TransitionFree, Inside
<1>3. TransitionFree => <>TransitionFree
  BY PTL
<1>4. IInv => <>TransitionFree
  BY <1>1, <1>2, <1>3
<1>5. QED
  BY <1>4, PTL

Returns(c) == (~Done(c) /\ Easy(c)) ~> Done(c)

LEMMA CallReturns ==
  ASSUME NEW c \in Caller
  PROVE  []IInv /\ []BlkQuiet /\ [][Next]_vars /\ GuardFairness /\ []AllLoopsEnd => Returns(c)
<1> SUFFICES ASSUME []IInv, []BlkQuiet, [][Next]_vars, []GuardFairness, []AllLoopsEnd
             PROVE  (~Done(c) /\ Easy(c)) ~> Done(c)
  BY PTL DEF GuardFairness, Returns
<1>1. []IInv /\ [][Next]_vars /\ GuardFairness /\ []AllLoopsEnd => FreedAgain
  BY LockFrees
<1>2. AllLoopsEnd => LoopEnds(c)
  BY DEF AllLoopsEnd
<1>3. []IInv /\ [][Next]_vars /\ GuardFairness /\ LoopEnds(c) => Leaves(c)
  BY HolderLeaves
<1>4. IInv /\ Waits(c, TRUE) /\ [Next]_vars => Waits(c, TRUE)' \/ Holds(c, TRUE)' \/ Done(c)' \/ Waits(c, FALSE)'
  BY WaitingStep DEF IInv
<1>5. IInv /\ Waits(c, TRUE) /\ <<BeginTransition(c)>>_vars => Holds(c, TRUE)' \/ Done(c)' \/ Waits(c, FALSE)'
  BY WaitingStep, StepFacts DEF IInv
<1>6. IInv /\ Waits(c, FALSE) /\ [Next]_vars => Waits(c, FALSE)' \/ Holds(c, FALSE)' \/ Done(c)'
  BY WaitingStep DEF IInv
<1>7. IInv /\ Waits(c, FALSE) /\ <<BeginTransition(c)>>_vars => Holds(c, FALSE)' \/ Done(c)'
  BY WaitingStep, StepFacts DEF IInv
<1>8. IInv /\ Holds(c, TRUE) /\ [Next]_vars => Holds(c, TRUE)' \/ Done(c)' \/ Waits(c, FALSE)'
  BY HoldingStep DEF IInv
<1>9. IInv /\ Holds(c, FALSE) /\ [Next]_vars => Holds(c, FALSE)' \/ Done(c)'
  BY HoldingStep DEF IInv
<1>10. BlkQuiet /\ TransitionFree /\ (Waits(c, TRUE) \/ Waits(c, FALSE)) => CanBegin(c)
  BY DEF BlkQuiet, Waits, At, Easy, CanBegin, GpuStateUnwritten
<1>11. CallFairness => BeginsOn(c)
  BY CallIsFair
<1>12. Holds(c, TRUE) \/ Holds(c, FALSE) => Inside(c)
  BY DEF Holds
<1>13. Outside(c) => ~Inside(c)
  BY DEF Outside, Inside
<1>14. IInv /\ ~Done(c) /\ Easy(c) => Waits(c, TRUE) \/ Waits(c, FALSE) \/ Holds(c, TRUE) \/ Holds(c, FALSE)
  BY DEF IInv, TypeOK, TaskState, Done, Waits, Holds, At, Inside, InTransition, Booting
<1>15. QED
  BY <1>1, <1>2, <1>3, <1>4, <1>5, <1>6, <1>7, <1>8, <1>9, <1>10, <1>11, <1>12, <1>13, <1>14, PTL
     DEF GuardFairness, FreedAgain, Leaves, BeginsOn

(* Every mode request is answered on a laptop: no holder keeps the transition  *)
(* lock, whatever fails, overlaps or crashes, and a call that waits for it     *)
(* gets it (internal_set_mode).                                               *)
THEOREM LaptopRequestsReturn ==
  ASSUME SystemType = "Laptop"
  PROVE  Spec /\ GuardFairness => RequestsReturn
<1>1. ASSUME NEW c \in Caller
      PROVE  Spec /\ GuardFairness => (task[c].pc # "idle" ~> task[c].pc = "idle")
  <2> SUFFICES ASSUME []IInv, []BlkQuiet, [][Next]_vars, []GuardFairness
               PROVE  task[c].pc # "idle" ~> task[c].pc = "idle"
    BY InvariantHolds, BlkQuietHolds, PTL DEF Spec, GuardFairness
  <2>1. AllLoopsEnd
    <3>1. ASSUME NEW d \in Caller PROVE LoopEnds(d)
      <4>1. []IInv /\ [][Next]_vars /\ GuardFairness => LoopEnds(d)
        BY LaptopLoopEnds
      <4>2. QED
        BY <4>1, PTL
    <3>2. QED
      BY <3>1 DEF AllLoopsEnd
  <2>2. []IInv /\ []BlkQuiet /\ [][Next]_vars /\ GuardFairness /\ []AllLoopsEnd => Returns(c)
    BY CallReturns
  <2>3. Easy(c)
    BY DEF Easy
  <2>4. QED
    BY <2>1, <2>2, <2>3, PTL DEF Returns, Done
<1>2. QED
  BY <1>1 DEF RequestsReturn

(* On every system a call for another mode than Manual, and the start-up       *)
(* whatever its mode, returns; a call for Manual mode also waits for the calls *)
(* on single GPUs that write gpu_state.json.                                   *)
EasyRequestsReturn == \A c \in Caller : Returns(c)
THEOREM EasyReturn == Spec /\ GuardFairness /\ []SizesFormSets => EasyRequestsReturn
<1>1. ASSUME NEW c \in Caller PROVE Spec /\ GuardFairness /\ []SizesFormSets => Returns(c)
  <2> SUFFICES ASSUME []IInv, []BlkQuiet, [][Next]_vars, []GuardFairness, []SizesFormSets PROVE Returns(c)
    BY InvariantHolds, BlkQuietHolds, PTL DEF Spec, GuardFairness
  <2>1. AllLoopsEnd
    <3>1. ASSUME NEW d \in Caller PROVE LoopEnds(d)
      <4>1. []IInv /\ [][Next]_vars /\ GuardFairness /\ []SizesFormSets => LoopEnds(d)
        BY AnyLoopEnds
      <4>2. QED
        BY <4>1, PTL
    <3>2. QED
      BY <3>1 DEF AllLoopsEnd
  <2>2. []IInv /\ []BlkQuiet /\ [][Next]_vars /\ GuardFairness /\ []AllLoopsEnd => Returns(c)
    BY CallReturns
  <2>3. QED
    BY <2>1, <2>2, PTL
<1>2. QED
  BY <1>1 DEF EasyRequestsReturn

(***************************************************************************)
(* The daemon comes back                                                    *)
(***************************************************************************)

(* The calls on single GPUs that have not begun to write gpu_state.json.      *)
Pending == {g \in Gpu : blk[g].pc \notin {"idle", "saving"}}

Budget == left.fault + left.stop + 2 * left.request + Cardinality(Pending)
Exactly(k) == Budget = k
AtMost(k)  == Budget <= k
EverAtMost(k) == <>AtMost(k)
BoundsOf(V) == \A k \in Nat : k \in V <=> EverAtMost(k)
BoundsFormSet == \E V \in SUBSET Nat : BoundsOf(V)

SettlesAt(k) == <>[]Exactly(k)
Settles == \E k \in Nat : SettlesAt(k)

LEMMA GpusFinite ==
  ASSUME NEW S \in SUBSET Gpu
  PROVE  IsFiniteSet(S) /\ Cardinality(S) \in Nat
BY GpuAssumption, FS_Subset, FS_CardinalityType

LEMMA BudgetIsNat == (TypeOK => Budget \in Nat) /\ (TypeOK' => Budget' \in Nat)
<1>1. TypeOK => Budget \in Nat
  <2>1. Pending \in SUBSET Gpu
    BY DEF Pending
  <2>2. QED
    BY <2>1, GpusFinite DEF TypeOK, Budget
<1>2. TypeOK' => Budget' \in Nat
  <2>1. Pending' \in SUBSET Gpu
    BY DEF Pending
  <2>2. QED
    BY <2>1, GpusFinite DEF TypeOK, Budget
<1>3. QED
  BY <1>1, <1>2

(* Only a new call on a GPU adds to them. *)
LEMMA PendingMoves ==
  ASSUME TypeOK, [Next]_vars
  PROVE  Pending' \subseteq Pending \/ (Spend("request") /\ \E g \in Gpu : Pending' \subseteq Pending \cup {g})
<1>1. CASE UNCHANGED blk
  BY <1>1 DEF Pending
<1>2. CASE Crash \/ Exit
  BY <1>2 DEF Crash, Exit, Vanish, BlkIdle, Pending
<1>3. ASSUME NEW g \in Gpu, NEW block \in BOOLEAN, SetBlock(g, block)
      PROVE  Spend("request") /\ Pending' \subseteq Pending \cup {g}
  BY <1>3 DEF TypeOK, SetBlock, Pending
<1>4. ASSUME NEW g \in Gpu, BlockCall(g) PROVE Pending' \subseteq Pending
  <2>1. blk[g].pc # "idle" /\ \A h \in Gpu \ {g} : blk'[h] = blk[h]
    BY <1>4 DEF TypeOK, BlockCall, ProbeBlock, SyncBlock, SaveBlock, FinishSaveBlock
  <2>2. CASE blk[g].pc # "saving"
    BY <2>1, <2>2 DEF Pending
  <2>3. CASE FinishSaveBlock(g)
    BY <2>3 DEF TypeOK, FinishSaveBlock, BlkIdle, Pending
  <2>4. QED
    BY <1>4, <2>2, <2>3 DEF BlockCall, ProbeBlock, SyncBlock, SaveBlock
<1>5. CASE \/ \E c \in Clients, m \in Mode : ClientSetsMode(c, m)
           \/ \E onBattery \in BOOLEAN : BatteryChanged(onBattery)
           \/ \E kind \in {"started", "stopped"} : RunPowerd(kind)
           \/ \E g \in Gpu : MonProbe(g)
           \/ \E g \in Available : Plug(g)
           \/ Boot \/ Monitor \/ Rest \/ UNCHANGED vars
  <2>1. UNCHANGED blk
    BY <1>5 DEF ClientSetsMode, BatteryChanged, RunPowerd, MonProbe, Plug, Boot, Monitor, MonMode, MonDecide,
       MonRestore, MonUnblock, Rest, vars
  <2>2. QED
    BY <1>1, <2>1
<1>6. CASE \E c \in Caller : Transition(c)
  <2>1. UNCHANGED blk
    BY <1>6 DEF Transition, BeginTransition, ApplyGpu, WriteModeMap, Commit, FinishSave, Notify
  <2>2. QED
    BY <1>1, <2>1
<1>7. QED
  BY <1>2, <1>3, <1>4, <1>5, <1>6 DEF Next

LEMMA LeftMoves ==
  ASSUME [Next]_vars
  PROVE  UNCHANGED left \/ Spend("fault") \/ Spend("stop") \/ Spend("request") \/ Spend("plug")
<1>1. CASE Boot \/ Crash \/ Exit \/ Rest \/ UNCHANGED vars
  BY <1>1 DEF Boot, Crash, Exit, Rest, vars
<1>2. CASE \/ \E c \in Clients, m \in Mode : ClientSetsMode(c, m)
           \/ \E onBattery \in BOOLEAN : BatteryChanged(onBattery)
           \/ \E g \in Gpu, block \in BOOLEAN : SetBlock(g, block)
           \/ \E g \in Available : Plug(g)
  BY <1>2 DEF ClientSetsMode, BatteryChanged, SetBlock, Plug
<1>3. ASSUME NEW c \in Caller, Transition(c) PROVE UNCHANGED left \/ Spend("fault")
  BY <1>3 DEF Transition, BeginTransition, ApplyGpu, SyncInodesFails, WriteModeMap, Commit, FinishSave, Notify
<1>4. ASSUME NEW g \in Gpu, BlockCall(g) PROVE UNCHANGED left \/ Spend("fault")
  BY <1>4 DEF BlockCall, ProbeBlock, SyncBlock, SyncInodesFails, SaveBlock, FinishSaveBlock
<1>5. CASE \/ \E kind \in {"started", "stopped"} : RunPowerd(kind)
           \/ \E g \in Gpu : MonProbe(g)
           \/ Monitor
  BY <1>5 DEF RunPowerd, MonProbe, Monitor, MonMode, MonDecide, MonRestore, MonUnblock, SyncInodesFails
<1>6. QED
  BY <1>1, <1>2, <1>3, <1>4, <1>5 DEF Next

LEMMA BudgetFalls ==
  ASSUME TypeOK, [Next]_vars
  PROVE  /\ Budget' <= Budget
         /\ \A x \in {"fault", "stop", "request"} : Spend(x) => Budget' < Budget
<1>1. Pending \in SUBSET Gpu /\ Pending' \in SUBSET Gpu /\ IsFiniteSet(Pending)
      /\ Cardinality(Pending) \in Nat /\ Cardinality(Pending') \in Nat
  <2>1. Pending \in SUBSET Gpu /\ Pending' \in SUBSET Gpu
    BY DEF Pending
  <2>2. QED
    BY <2>1, GpusFinite
<1>2. left \in [request: Nat, fault: Nat, stop: Nat, plug: Nat]
  BY DEF TypeOK
<1>3. CASE Pending' \subseteq Pending
  <2>1. Cardinality(Pending') <= Cardinality(Pending)
    BY <1>1, <1>3, FS_Subset
  <2>2. QED
    BY <1>1, <1>2, <2>1, LeftMoves DEF Spend, Budget
<1>4. ASSUME NEW g \in Gpu, Spend("request"), Pending' \subseteq Pending \cup {g} PROVE Budget' < Budget
  <2>1. IsFiniteSet(Pending \cup {g}) /\ Cardinality(Pending \cup {g}) <= Cardinality(Pending) + 1
    BY <1>1, FS_AddElement
  <2>2. Cardinality(Pending') <= Cardinality(Pending \cup {g}) /\ Cardinality(Pending \cup {g}) \in Nat
    BY <1>4, <2>1, FS_Subset, FS_CardinalityType
  <2>3. QED
    BY <1>1, <1>2, <1>4, <2>1, <2>2 DEF Spend, Budget
<1>5. QED
  <2>1. Budget' < Budget => Budget' <= Budget
    <3>1. left' \in [request: Nat, fault: Nat, stop: Nat, plug: Nat]
      BY <1>2, LeftMoves, SpendTypes
    <3>2. Budget \in Nat /\ Budget' \in Nat
      BY <1>1, <1>2, <3>1 DEF Budget
    <3>3. QED
      BY <3>2
  <2>2. QED
    BY <1>3, <1>4, <2>1, PendingMoves

Stays(k) == [](AtMost(k) => []AtMost(k))
Pins(k)  == [](AtMost(k) => AtMost(k - 1) \/ Exactly(k))

LEMMA BudgetSettles ==
  []TypeOK /\ [][Next]_vars /\ []BoundsFormSet => Settles
<1> SUFFICES ASSUME []TypeOK, [][Next]_vars, []BoundsFormSet PROVE Settles
  BY PTL
<1>1. ASSUME NEW i \in Nat PROVE Stays(i)
  <2>1. TypeOK /\ TypeOK' /\ AtMost(i) /\ [Next]_vars => AtMost(i)'
    <3> SUFFICES ASSUME TypeOK, TypeOK', AtMost(i), [Next]_vars PROVE AtMost(i)'
      OBVIOUS
    <3>1. Budget \in Nat /\ Budget' \in Nat /\ Budget' <= Budget
      BY BudgetFalls, BudgetIsNat
    <3>2. QED
      BY <3>1 DEF AtMost
  <2>2. QED
    BY <2>1, PTL DEF Stays
<1>2. ASSUME NEW i \in Nat PROVE Pins(i)
  <2>1. TypeOK /\ AtMost(i) => AtMost(i - 1) \/ Exactly(i)
    BY BudgetIsNat DEF AtMost, Exactly
  <2>2. QED
    BY <2>1, PTL DEF Pins
<1>3. ~EverAtMost(0 - 1)
  <2>1. TypeOK => ~AtMost(0 - 1)
    BY BudgetIsNat DEF AtMost
  <2>2. QED
    BY <2>1, PTL DEF EverAtMost
<1>4. TypeOK => \E i \in Nat : AtMost(i)
  BY BudgetIsNat DEF AtMost
<1>5. ASSUME NEW V \in SUBSET Nat, BoundsOf(V), NEW i \in Nat, AtMost(i) PROVE Settles
  <2>1. EverAtMost(i)
    BY <1>5, PTL DEF EverAtMost
  <2>2. V # {}
    BY <1>5, <2>1 DEF BoundsOf
  <2>3. PICK k \in V : \A m \in V : k <= m
    BY <2>2, LeastNumber
  <2>4. k \in Nat /\ EverAtMost(k)
    BY <1>5 DEF BoundsOf
  <2>5. ~EverAtMost(k - 1)
    <3>1. CASE k = 0
      BY <1>3, <3>1
    <3>2. CASE k # 0
      <4>1. k - 1 \in Nat /\ k - 1 \notin V
        BY <2>3, <2>4, <3>2
      <4>2. QED
        BY <1>5, <4>1 DEF BoundsOf
    <3>3. QED
      BY <3>1, <3>2
  <2>6. Stays(k) /\ Pins(k)
    BY <1>1, <1>2, <2>4
  <2>7. SettlesAt(k)
    BY <2>4, <2>5, <2>6, PTL DEF EverAtMost, SettlesAt, Stays, Pins
  <2>8. QED
    BY <2>4, <2>7 DEF Settles
<1>6. TypeOK /\ BoundsFormSet => Settles
  <2>1. BoundsFormSet => \E V \in SUBSET Nat : BoundsOf(V)
    BY DEF BoundsFormSet
  <2>2. QED
    BY <1>4, <1>5, <2>1
<1>7. QED
  BY <1>6, PTL

(* While the budget stands still nothing is spent. *)
LEMMA CalmSpendsNothing ==
  ASSUME NEW k, TypeOK, [Next]_vars, Exactly(k), Exactly(k)'
  PROVE  ~Spend("fault") /\ ~Spend("stop") /\ ~Spend("request")
<1>1. Budget' = Budget /\ Budget \in Nat
  BY BudgetIsNat DEF Exactly
<1>2. ~(Budget' < Budget)
  BY <1>1
<1>3. QED
  BY <1>2, BudgetFalls

(* The second attempt of the start-up is for Hybrid, which every system        *)
(* supports, so only a fault makes it fail.                                   *)
SecondIsHybrid == phase = "fallback" => task["startup"].mode = "hybrid"
Coming == phase \in {"boot", "fallback"}

LEMMA TransitionPhases ==
  ASSUME TypeOK, LockDiscipline, SecondIsHybrid, NEW c \in Caller, Transition(c)
  PROVE  /\ SecondIsHybrid'
         /\ Coming => Coming' \/ phase' = "serving" \/ Spend("fault")
         /\ phase = "serving" => phase' = "serving"
         /\ Coming \/ phase = "serving"
<1>1. task[c].pc # "idle" /\ (c = "startup" \/ phase = "serving") /\ (c = "startup" <=> Coming)
  <2>1. task[c].pc # "idle"
    BY DEF Transition, BeginTransition, ApplyGpu, WriteModeMap, Commit, FinishSave, Notify
  <2>2. QED
    BY <2>1, CallerFacts DEF LockDiscipline, Coming
<1>2. Fallback.mode = "hybrid"
  BY DEF Fallback, Call
<1>3. ASSUME Return(c, FALSE), ~Spend("fault") => phase = "boot"
      PROVE  /\ SecondIsHybrid'
             /\ Coming => Coming' \/ Spend("fault")
             /\ phase = "serving" => phase' = "serving"
  BY <1>1, <1>2, <1>3 DEF TypeOK, Return, SecondIsHybrid, Coming
<1>4. ASSUME Return(c, TRUE)
      PROVE  SecondIsHybrid' /\ (Coming => phase' = "serving") /\ (phase = "serving" => phase' = "serving")
  BY <1>1, <1>4 DEF Return, SecondIsHybrid
<1>5. ASSUME UNCHANGED phase, task'["startup"].mode = task["startup"].mode
      PROVE  /\ SecondIsHybrid' /\ (Coming => Coming') /\ (phase = "serving" => phase' = "serving")
  BY <1>5 DEF SecondIsHybrid, Coming
<1>6. CASE BeginTransition(c)
  <2>1. CASE Supported(task[c].mode)
    <3>1. UNCHANGED phase /\ task'["startup"].mode = task["startup"].mode
      BY <1>6, <2>1, CallerFacts DEF BeginTransition, TypeOK, TaskState
    <3>2. QED
      BY <1>1, <1>5, <3>1
  <2>2. CASE ~Supported(task[c].mode)
    <3>1. Return(c, FALSE)
      BY <1>6, <2>2 DEF BeginTransition
    <3>2. CASE c = "startup"
      <4>1. phase = "boot"
        BY <1>1, <2>2, <3>2 DEF SecondIsHybrid, Supported, Coming
      <4>2. QED
        BY <1>1, <1>3, <3>1, <4>1
    <3>3. CASE c # "startup"
      <4>1. UNCHANGED phase /\ task'["startup"] = task["startup"]
        BY <3>1, <3>3, CallerFacts DEF Return, TypeOK
      <4>2. QED
        BY <1>1, <1>5, <4>1
    <3>4. QED
      BY <3>2, <3>3
  <2>3. QED
    BY <2>1, <2>2
<1>7. CASE ApplyGpu(c)
  <2>1. CASE Spend("fault") /\ Return(c, FALSE)
    BY <1>1, <1>3, <2>1
  <2>2. ASSUME NEW g, task' = [task EXCEPT ![c].todo = @ \ {g}], UNCHANGED phase
        PROVE  task'["startup"].mode = task["startup"].mode
    BY <2>2, CallerFacts DEF TypeOK, TaskState
  <2>3. QED
    BY <1>1, <1>5, <1>7, <2>1, <2>2 DEF ApplyGpu, SyncInodesFails, GiveUp
<1>8. CASE WriteModeMap(c)
  <2>1. CASE Spend("fault") /\ Return(c, FALSE)
    BY <1>1, <1>3, <2>1
  <2>2. CASE task' = [task EXCEPT ![c].pc = "commit"] /\ UNCHANGED phase
    <3>1. task'["startup"].mode = task["startup"].mode
      BY <2>2, CallerFacts DEF TypeOK, TaskState
    <3>2. QED
      BY <1>1, <1>5, <2>2, <3>1
  <2>3. QED
    BY <1>8, <2>1, <2>2 DEF WriteModeMap, GiveUp
<1>9. CASE Commit(c) \/ FinishSave(c)
  <2>1. UNCHANGED phase /\ \E pc \in {"saving", "notifying"} : task' = [task EXCEPT ![c].pc = pc]
    BY <1>9 DEF Commit, FinishSave
  <2>2. task'["startup"].mode = task["startup"].mode
    BY <2>1, CallerFacts DEF TypeOK, TaskState
  <2>3. QED
    BY <1>1, <1>5, <2>1, <2>2
<1>10. CASE Notify(c)
  BY <1>1, <1>4, <1>10 DEF Notify
<1>11. QED
  BY <1>6, <1>7, <1>8, <1>9, <1>10 DEF Transition

LEMMA PhaseMoves ==
  ASSUME TypeOK, LockDiscipline, SecondIsHybrid, [Next]_vars
  PROVE  /\ SecondIsHybrid'
         /\ phase = "down" => phase' \in {"down", "boot"}
         /\ phase = "failed" => phase' \in {"failed", "down"}
         /\ Coming => Coming' \/ phase' = "serving" \/ Spend("fault") \/ Spend("stop")
         /\ phase = "serving" => phase' = "serving" \/ Spend("stop")
<1>1. CASE Boot
  BY <1>1 DEF Boot, SecondIsHybrid, Coming
<1>2. CASE Crash \/ Exit
  BY <1>2 DEF Crash, Exit, Vanish, SecondIsHybrid, Coming
<1>3. ASSUME NEW c \in Caller, Transition(c)
      PROVE  /\ SecondIsHybrid' /\ (Coming \/ phase = "serving")
             /\ Coming => Coming' \/ phase' = "serving" \/ Spend("fault")
             /\ phase = "serving" => phase' = "serving"
  BY <1>3, TransitionPhases
<1>4. CASE \E c \in Caller : Transition(c)
  <2>1. /\ SecondIsHybrid' /\ (Coming \/ phase = "serving")
        /\ Coming => Coming' \/ phase' = "serving" \/ Spend("fault")
        /\ phase = "serving" => phase' = "serving"
    BY <1>3, <1>4
  <2>2. QED
    BY <2>1 DEF Coming
<1>5. ASSUME UNCHANGED phase, phase # "serving" => UNCHANGED task
      PROVE  SecondIsHybrid' /\ (Coming => Coming')
  BY <1>5 DEF SecondIsHybrid, Coming
<1>6. CASE \/ \E c \in Clients, m \in Mode : ClientSetsMode(c, m)
           \/ \E onBattery \in BOOLEAN : BatteryChanged(onBattery)
           \/ MonDecide \/ MonRestore
           \/ UNCHANGED <<phase, transition, task, reported, modeFile, modeMap>>
  <2>1. UNCHANGED phase /\ (phase # "serving" => UNCHANGED task)
    BY <1>6 DEF ClientSetsMode, BatteryChanged, MonDecide, MonRestore, Request
  <2>2. QED
    BY <1>5, <2>1
<1>7. QED
  BY <1>1, <1>2, <1>4, <1>6, OtherSteps

LEMMA SecondIsHybridHolds == Spec => []SecondIsHybrid
<1>1. Init => SecondIsHybrid
  BY DEF Init, SecondIsHybrid
<1>2. TypeOK /\ LockDiscipline /\ SecondIsHybrid /\ [Next]_vars => SecondIsHybrid'
  BY PhaseMoves
<1>3. QED
  BY <1>1, <1>2, TypeCorrect, LockDisciplineHolds, PTL DEF Spec

InPhase(p) == phase = p
Serves == <>InPhase("serving")

(* Once faults and crashes are over. *)
LEMMA CalmServes ==
  ASSUME NEW k \in Nat
  PROVE  []IInv /\ []SecondIsHybrid /\ [][Next]_vars /\ GuardFairness /\ []Returns("startup") /\ SettlesAt(k)
           => Serves
<1> SUFFICES ASSUME []IInv, []SecondIsHybrid, [][Next]_vars, []GuardFairness, []Returns("startup"), []SettlesAt(k)
             PROVE  <>InPhase("serving")
  BY PTL DEF GuardFairness, Serves, SettlesAt
<1> DEFINE Ready == IInv /\ SecondIsHybrid
<1>1. ASSUME TypeOK, [Next]_vars, Exactly(k), Exactly(k)' PROVE ~Spend("fault") /\ ~Spend("stop")
  BY <1>1, CalmSpendsNothing
<1>2. Ready /\ InPhase("down") /\ [Next]_vars => InPhase("down")' \/ InPhase("boot")'
  BY PhaseMoves DEF IInv, InPhase
<1>3. Ready /\ InPhase("down") /\ <<Boot>>_vars => InPhase("boot")'
  BY DEF Boot, InPhase
<1>4. Ready /\ InPhase("failed") /\ [Next]_vars => InPhase("failed")' \/ InPhase("down")'
  BY PhaseMoves DEF IInv, InPhase
<1>5. Ready /\ InPhase("failed") /\ <<Exit>>_vars => InPhase("down")'
  BY DEF Exit, Vanish, InPhase
<1>6. Ready /\ Coming /\ Exactly(k) /\ Exactly(k)' /\ [Next]_vars => Coming' \/ InPhase("serving")'
  BY <1>1, PhaseMoves DEF IInv, InPhase
<1>7. Ready /\ Coming => ~Done("startup") /\ Easy("startup")
  BY DEF IInv, LockDiscipline, Coming, Done, Easy
<1>8. Ready /\ Done("startup") => ~Coming
  BY DEF IInv, LockDiscipline, Coming, Done
<1>9. Ready => InPhase("down") \/ Coming \/ InPhase("serving") \/ InPhase("failed")
  BY DEF IInv, TypeOK, InPhase, Coming
<1>10. InPhase("boot") => Coming
  BY DEF InPhase, Coming
<1>11. InPhase("down") => ~(phase # "down")
  BY DEF InPhase
<1>12. InPhase("failed") => ~(phase # "failed")
  BY DEF InPhase
<1>13. []Ready
  BY PTL
<1> HIDE DEF Ready
<1>14. QED
  BY <1>2, <1>3, <1>4, <1>5, <1>6, <1>7, <1>8, <1>9, <1>10, <1>11, <1>12, <1>13, PTL
     DEF GuardFairness, Returns, SettlesAt

(* The daemon comes back to serve after every crash and every failed start,    *)
(* as faults and crashes are finite: the start-up's call returns, its second   *)
(* attempt fails by a fault only, and a start that failed twice is restarted   *)
(* (pre_daemon_tasks, apply_mode_at_startup, Restart=on-failure).              *)
THEOREM AlwaysServesAgain ==
  Spec /\ GuardFairness /\ []SizesFormSets /\ []BoundsFormSet => EventuallyServing
<1>1. EasyRequestsReturn => Returns("startup")
  BY CallerFacts DEF EasyRequestsReturn
<1> SUFFICES ASSUME []IInv, []SecondIsHybrid, [][Next]_vars, []GuardFairness, []BoundsFormSet, []Returns("startup")
             PROVE  EventuallyServing
  BY <1>1, InvariantHolds, SecondIsHybridHolds, EasyReturn, PTL DEF Spec, GuardFairness, Returns
<1>2. IInv => TypeOK
  BY DEF IInv
<1>3. []TypeOK /\ [][Next]_vars /\ []BoundsFormSet => Settles
  BY BudgetSettles
<1>4. Settles
  BY <1>2, <1>3, PTL
<1>5. ASSUME NEW k \in Nat, SettlesAt(k) PROVE Serves
  <2>1. []IInv /\ []SecondIsHybrid /\ [][Next]_vars /\ GuardFairness /\ []Returns("startup") /\ SettlesAt(k) => Serves
    BY CalmServes
  <2>2. QED
    BY <1>5, <2>1, PTL
<1>6. Settles => Serves
  BY <1>5 DEF Settles
<1>7. QED
  BY <1>4, <1>6, PTL DEF Serves, InPhase, EventuallyServing

(***************************************************************************)
(* The display monitor                                                      *)
(***************************************************************************)

(* The monitor runs no second reconcile_gpu while its own request is under     *)
(* way, and asks for a mode on a laptop only.                                 *)
MonitorAlone ==
  /\ mon.pc # "idle" => Done("display")
  /\ mon.pc = "gpu" => mon.mode \in AvailableModes
  /\ mon.pc = "restore" \/ ~Done("display") => SystemType = "Laptop"

(* The steps that change what the monitor does. *)
LEMMA MonitorSteps ==
  ASSUME [Next]_vars
  PROVE  UNCHANGED mon \/ Crash \/ Exit \/ (\E g \in Gpu : MonProbe(g)) \/ Monitor
<1>1. CASE \/ \E c \in Clients, m \in Mode : ClientSetsMode(c, m)
           \/ \E onBattery \in BOOLEAN : BatteryChanged(onBattery)
           \/ \E kind \in {"started", "stopped"} : RunPowerd(kind)
           \/ \E g \in Gpu, block \in BOOLEAN : SetBlock(g, block)
           \/ \E g \in Available : Plug(g)
           \/ Boot \/ Rest \/ UNCHANGED vars
  BY <1>1 DEF ClientSetsMode, BatteryChanged, RunPowerd, SetBlock, Plug, Boot, Rest, vars
<1>2. CASE \E c \in Caller : Transition(c)
  BY <1>2 DEF Transition, BeginTransition, ApplyGpu, WriteModeMap, Commit, FinishSave, Notify
<1>3. CASE \E g \in Gpu : BlockCall(g)
  BY <1>3 DEF BlockCall, ProbeBlock, SyncBlock, SaveBlock, FinishSaveBlock
<1>4. QED
  BY <1>1, <1>2, <1>3 DEF Next

LEMMA OverridesOnLaptop ==
  ASSUME NEW m \in AvailableModes, m \in Overridable
  PROVE  SystemType = "Laptop"
BY DEF AvailableModes, Overridable

(* What the monitor decides to do next. *)
LEMMA MonitorMoves ==
  ASSUME TypeOK, MonitorAlone, ReportedIsOffered, OnlyTransitionsTouch, Monitor
  PROVE  /\ phase = "serving" /\ phase' = "serving"
         /\ \/ mon' = MonIdle /\ UNCHANGED task
            \/ mon' = MonIdle /\ SystemType = "Laptop" /\ \E m : Request("display", m, FALSE)
            \/ /\ mon.pc = "mode" /\ mon'.pc = "gpu" /\ mon'.mode = reported
               /\ reported \in AvailableModes /\ UNCHANGED task
            \/ mon.pc = "gpu" /\ mon'.pc = "restore" /\ SystemType = "Laptop" /\ UNCHANGED task
            \/ mon.pc = "gpu" /\ mon'.pc = "unblock" /\ UNCHANGED task
<1>1. phase = "serving" /\ UNCHANGED phase
  BY DEF Monitor, MonMode, MonDecide, MonRestore, MonUnblock, OnlyTransitionsTouch
<1>2. reported \in AvailableModes
  BY <1>1 DEF ReportedIsOffered
<1>3. CASE MonMode
  <2>1. CASE mon' = [mon EXCEPT !.pc = "gpu", !.mode = reported]
    <3>1. mon'.pc = "gpu" /\ mon'.mode = reported
      BY <2>1 DEF TypeOK, MonState
    <3>2. QED
      BY <1>1, <1>2, <1>3, <3>1 DEF MonMode
  <2>2. QED
    BY <1>1, <1>3, <2>1 DEF MonMode
<1>4. CASE MonDecide
  <2>1. mon.pc = "gpu" /\ mon.mode \in AvailableModes
    BY <1>4 DEF MonDecide, MonitorAlone
  <2>2. \/ mon' = MonIdle /\ UNCHANGED task
        \/ mon.mode \in Overridable /\ mon' = MonIdle /\ Request("display", "hybrid", FALSE)
        \/ mon.mode \in Overridable /\ mon' = [mon EXCEPT !.pc = "restore"] /\ UNCHANGED task
        \/ mon' = [mon EXCEPT !.pc = "unblock"] /\ UNCHANGED task
    BY <1>4 DEF MonDecide, OverrideSaves
  <2>3. mon' = [mon EXCEPT !.pc = "restore"] => mon'.pc = "restore"
    BY DEF TypeOK, MonState
  <2>4. mon' = [mon EXCEPT !.pc = "unblock"] => mon'.pc = "unblock"
    BY DEF TypeOK, MonState
  <2>5. QED
    BY <1>1, <2>1, <2>2, <2>3, <2>4, OverridesOnLaptop
<1>5. CASE MonRestore
  BY <1>1, <1>5 DEF MonRestore, MonitorAlone
<1>6. CASE MonUnblock
  BY <1>1, <1>6 DEF MonUnblock
<1>7. QED
  BY <1>3, <1>4, <1>5, <1>6 DEF Monitor

(* Who changes whether the monitor's request is under way. *)
LEMMA DisplayTask ==
  ASSUME TypeOK, [Next]_vars
  PROVE  \/ Done("display")' <=> Done("display")
         \/ ~Done("display")
         \/ Monitor
<1> SUFFICES ASSUME Done("display"), ~Monitor PROVE Done("display")'
  OBVIOUS
<1> USE CallerFacts DEF Done
<1>1. CASE Boot
  BY <1>1 DEF Boot, TypeOK
<1>2. CASE Crash \/ Exit
  BY <1>2 DEF Crash, Exit, Vanish, Idle
<1>3. CASE \/ \E c \in Clients, m \in Mode : ClientSetsMode(c, m)
           \/ \E onBattery \in BOOLEAN : BatteryChanged(onBattery)
  BY <1>3, CallerAssumption DEF ClientSetsMode, BatteryChanged, Request, TypeOK
<1>4. ASSUME NEW c \in Caller, Transition(c) PROVE Done("display")'
  <2>1. c # "display"
    BY <1>4 DEF Transition, BeginTransition, ApplyGpu, WriteModeMap, Commit, FinishSave, Notify
  <2>2. ASSUME NEW ok, Return(c, ok) PROVE task'["display"] = task["display"]
    BY <2>1, <2>2 DEF TypeOK, Return
  <2>3. CASE BeginTransition(c)
    BY <2>1, <2>2, <2>3 DEF TypeOK, BeginTransition
  <2>4. CASE ApplyGpu(c) \/ WriteModeMap(c)
    BY <2>1, <2>2, <2>4 DEF TypeOK, ApplyGpu, WriteModeMap, GiveUp
  <2>5. CASE Commit(c) \/ FinishSave(c) \/ Notify(c)
    BY <2>1, <2>2, <2>5 DEF TypeOK, Commit, FinishSave, Notify
  <2>6. QED
    BY <1>4, <2>3, <2>4, <2>5 DEF Transition
<1>5. QED
  BY <1>1, <1>2, <1>3, <1>4, OtherSteps DEF Monitor

LEMMA MonitorAloneHolds == Spec => []MonitorAlone
<1>1. Init => MonitorAlone
  BY CallerFacts DEF Init, MonitorAlone, MonIdle, Idle, Done
<1>2. TypeOK /\ ReportedIsOffered /\ OnlyTransitionsTouch /\ MonitorAlone /\ [Next]_vars => MonitorAlone'
  <2> SUFFICES ASSUME TypeOK, ReportedIsOffered, OnlyTransitionsTouch, MonitorAlone, [Next]_vars
               PROVE  MonitorAlone'
    OBVIOUS
  <2> USE DEF MonitorAlone
  <2>1. CASE Crash \/ Exit
    BY <2>1, CallerFacts DEF Crash, Exit, Vanish, MonIdle, Idle, Done
  <2>2. CASE Monitor
    <3>1. CASE mon' = MonIdle /\ UNCHANGED task
      BY <3>1 DEF MonIdle, Done
    <3>2. CASE mon' = MonIdle /\ SystemType = "Laptop"
      BY <3>2 DEF MonIdle
    <3>3. CASE mon.pc # "idle" /\ UNCHANGED task /\ mon'.pc = "gpu" /\ mon'.mode \in AvailableModes
      BY <3>3 DEF Done
    <3>4. CASE mon.pc # "idle" /\ UNCHANGED task /\ mon'.pc = "restore" /\ SystemType = "Laptop"
      BY <3>4 DEF Done
    <3>5. CASE mon.pc # "idle" /\ UNCHANGED task /\ mon'.pc = "unblock"
      BY <3>5 DEF Done
    <3>6. QED
      BY <2>2, <3>1, <3>2, <3>3, <3>4, <3>5, MonitorMoves
  <2>3. CASE \E g \in Gpu : MonProbe(g)
    BY <2>3 DEF MonProbe, Done
  <2>4. CASE UNCHANGED mon /\ ~Monitor
    BY <2>4, DisplayTask
  <2>5. QED
    BY <2>1, <2>2, <2>3, <2>4, MonitorSteps
<1>3. QED
  BY <1>1, <1>2, TypeCorrect, ReportedAlwaysOffered, OnlyTransitionsTouchHolds, PTL DEF Spec

MonAt(pc) == mon.pc = pc

LEMMA MonitorLeaves ==
  ASSUME TypeOK, MonitorAlone, ReportedIsOffered, OnlyTransitionsTouch, [Next]_vars
  PROVE  /\ MonAt("idle") /\ ~Done("display") => MonAt("idle")'
         /\ MonAt("mode") => (~MonMode /\ MonAt("mode")') \/ MonAt("gpu")' \/ MonAt("idle")'
         /\ MonAt("gpu") => \/ ~Monitor /\ MonAt("gpu")'
                            \/ MonAt("restore")' \/ MonAt("unblock")' \/ MonAt("idle")'
         /\ MonAt("restore") => (~Monitor /\ MonAt("restore")') \/ MonAt("idle")'
         /\ MonAt("unblock") => (~Monitor /\ MonAt("unblock")') \/ MonAt("idle")'
<1> USE DEF MonAt
<1>1. CASE Crash \/ Exit
  BY <1>1 DEF Crash, Exit, Vanish, MonIdle
<1>2. CASE Monitor
  <2>1. mon.pc # "idle"
    BY <1>2 DEF Monitor, MonMode, MonDecide, MonRestore, MonUnblock
  <2>2. mon.pc = "restore" \/ mon.pc = "unblock" => mon' = MonIdle
    BY <1>2 DEF Monitor, MonMode, MonDecide, MonRestore, MonUnblock
  <2>3. MonIdle.pc = "idle"
    BY DEF MonIdle
  <2>4. \/ mon'.pc = "idle"
        \/ mon.pc = "mode" /\ mon'.pc = "gpu"
        \/ mon.pc = "gpu" /\ mon'.pc \in {"restore", "unblock"}
    BY <1>2, <2>3, MonitorMoves
  <2>5. QED
    BY <2>1, <2>2, <2>3, <2>4
<1>3. CASE \E g \in Gpu : MonProbe(g)
  BY <1>3 DEF MonProbe, Done
<1>4. CASE UNCHANGED mon /\ ~Monitor
  BY <1>4 DEF Monitor
<1>5. QED
  BY <1>1, <1>2, <1>3, <1>4, MonitorSteps

MonitorFacts == IInv /\ OnlyTransitionsTouch /\ MonitorAlone
LEMMA MonitorFactsHold == Spec => []MonitorFacts
BY InvariantHolds, OnlyTransitionsTouchHolds, MonitorAloneHolds, PTL DEF MonitorFacts

LEMMA LooksAndDecides ==
  /\ <<MonMode>>_vars => MonMode /\ [Next]_vars
  /\ <<Monitor>>_vars => Monitor /\ [Next]_vars
BY DEF Next, Monitor

Rests == []<>MonAt("idle")

(* Whatever the monitor does ends: it waits for mode_state only, and that is   *)
(* free whenever the transition lock is (reconcile_gpu).                       *)
LEMMA MonitorEnds ==
  []MonitorFacts /\ [][Next]_vars /\ GuardFairness /\ FreedAgain => Rests
<1> SUFFICES ASSUME []MonitorFacts, [][Next]_vars, []GuardFairness, []FreedAgain PROVE Rests
  BY PTL DEF GuardFairness, FreedAgain
<1>0. MonitorFacts => TypeOK /\ MonitorAlone /\ ReportedIsOffered /\ OnlyTransitionsTouch
  BY DEF MonitorFacts, IInv
<1>1. MonitorFacts /\ MonAt("mode") /\ [Next]_vars => MonAt("mode")' \/ MonAt("gpu")' \/ MonAt("idle")'
  BY <1>0, MonitorLeaves
<1>2. MonitorFacts /\ MonAt("mode") /\ <<MonMode>>_vars => MonAt("gpu")' \/ MonAt("idle")'
  BY <1>0, MonitorLeaves, LooksAndDecides
<1>3. MonitorFacts /\ MonAt("gpu") /\ [Next]_vars
        => MonAt("gpu")' \/ MonAt("restore")' \/ MonAt("unblock")' \/ MonAt("idle")'
  BY <1>0, MonitorLeaves
<1>4. MonitorFacts /\ MonAt("gpu") /\ <<Monitor>>_vars => MonAt("restore")' \/ MonAt("unblock")' \/ MonAt("idle")'
  BY <1>0, MonitorLeaves, LooksAndDecides
<1>5. MonitorFacts /\ MonAt("restore") /\ [Next]_vars => MonAt("restore")' \/ MonAt("idle")'
  BY <1>0, MonitorLeaves
<1>6. MonitorFacts /\ MonAt("restore") /\ <<Monitor>>_vars => MonAt("idle")'
  BY <1>0, MonitorLeaves, LooksAndDecides
<1>7. MonitorFacts /\ MonAt("unblock") /\ [Next]_vars => MonAt("unblock")' \/ MonAt("idle")'
  BY <1>0, MonitorLeaves
<1>8. MonitorFacts /\ MonAt("unblock") /\ <<Monitor>>_vars => MonAt("idle")'
  BY <1>0, MonitorLeaves, LooksAndDecides
<1>9. MonitorFacts /\ TransitionFree /\ MonAt("mode") => CanLook
  BY CallerFacts DEF MonitorFacts, IInv, LockDiscipline, TransitionFree, MonAt, CanLook, ModeStateFree, InTransition
<1>10. MonAt("gpu") \/ MonAt("restore") \/ MonAt("unblock") => CanMonitor
  BY DEF MonAt, CanMonitor
<1>11. MonitorFacts => MonAt("idle") \/ MonAt("mode") \/ MonAt("gpu") \/ MonAt("restore") \/ MonAt("unblock")
  BY DEF MonitorFacts, IInv, TypeOK, MonState, MonAt
<1>12. QED
  BY <1>1, <1>2, <1>3, <1>4, <1>5, <1>6, <1>7, <1>8, <1>9, <1>10, <1>11, PTL DEF GuardFairness, FreedAgain, Rests

(* So long as the daemon serves, the retry timer makes the monitor look at     *)
(* every card again and again.                                                *)
Probes(g) == []<><<MonProbe(g)>>_vars
ProbesAgain(g) == Probes(g) \/ []<>(~InPhase("serving"))

LEMMA MonitorProbes ==
  ASSUME NEW g \in Gpu, DisplaySwitch
  PROVE  []MonitorFacts /\ [][Next]_vars /\ GuardFairness /\ FreedAgain /\ []Returns("display") => ProbesAgain(g)
<1> SUFFICES ASSUME []MonitorFacts, [][Next]_vars, []GuardFairness, []FreedAgain, []Returns("display")
             PROVE  ProbesAgain(g)
  BY PTL DEF GuardFairness, FreedAgain
<1>1. []MonitorFacts /\ [][Next]_vars /\ GuardFairness /\ FreedAgain => Rests
  BY MonitorEnds
<1>2. MonitorFacts /\ MonAt("idle") /\ ~Done("display") /\ [Next]_vars => MonAt("idle")'
  BY MonitorLeaves DEF MonitorFacts, IInv
<1>3. MonitorFacts /\ ~Done("display") => Easy("display")
  BY DEF MonitorFacts, MonitorAlone, Easy
<1>4. InPhase("serving") /\ MonAt("idle") /\ Done("display") => CanProbe
  BY DEF InPhase, MonAt, Done, CanProbe
<1>5. ProbeFairness => ProbesOn(g)
  BY DEF ProbeFairness
<1>6. QED
  BY <1>1, <1>2, <1>3, <1>4, <1>5, PTL DEF GuardFairness, Rests, Returns, ProbesOn, Probes, ProbesAgain

(* A call for Hybrid mode that nothing makes fail ends by committing Hybrid    *)
(* mode: every system supports it (apply_mode).                               *)
Asks(c, m) == ~Done(c) /\ task[c].mode = m

LEMMA HybridProceeds ==
  ASSUME TypeOK, LockDiscipline, FacesAgree, NEW c \in Caller \ {"startup"}, Asks(c, "hybrid"), [Next]_vars,
         phase' = "serving", ~Spend("fault")
  PROVE  Asks(c, "hybrid")' \/ (reported = "hybrid" /\ KernelMode[modeMap] = "hybrid")
<1> USE DEF Asks, Done
<1>1. CASE BeginTransition(c)
  <2>1. task' = [task EXCEPT ![c].pc   = "applying",
                             ![c].todo = Touched(task[c].mode),
                             ![c].hide = Hidden(task[c].mode, gpuSaved, AutoApply)]
    BY <1>1 DEF BeginTransition, Supported
  <2>2. task'[c].pc = "applying" /\ task'[c].mode = task[c].mode
    BY <2>1 DEF TypeOK, TaskState
  <2>3. QED
    BY <2>2
<1>2. CASE ApplyGpu(c)
  <2>1. PICK g : task' = [task EXCEPT ![c].todo = @ \ {g}]
    BY <1>2 DEF ApplyGpu, SyncInodesFails
  <2>2. task'[c].pc = task[c].pc /\ task'[c].mode = task[c].mode
    BY <2>1 DEF TypeOK, TaskState
  <2>3. QED
    BY <2>2
<1>3. CASE WriteModeMap(c) \/ Commit(c) \/ FinishSave(c)
  <2>1. PICK pc \in {"commit", "saving", "notifying"} : task' = [task EXCEPT ![c].pc = pc]
    BY <1>3 DEF WriteModeMap, Commit, FinishSave
  <2>2. task'[c].pc = pc /\ task'[c].mode = task[c].mode
    BY <2>1 DEF TypeOK, TaskState
  <2>3. QED
    BY <2>2
<1>4. CASE Notify(c)
  BY <1>4 DEF Notify, FacesAgree
<1>5. CASE ~Transition(c)
  BY <1>5, CallMoves
<1>6. QED
  BY <1>1, <1>2, <1>3, <1>4, <1>5 DEF Transition

(* A display is connected to g, and g is hidden.                              *)
Dark(g) == phase = "serving" /\ g \in displays /\ KernelMode[modeMap] # "hybrid" /\ nodes[g] = {"blocked"}
(* mode_state agrees with the kernel that the mode is not Hybrid.             *)
KnownDark(g) == Dark(g) /\ reported # "hybrid"

LEMMA DarkGpu ==
  ASSUME NEW g \in Gpu, IInv, Dark(g)
  PROVE  ~IsDefault(g)
BY DEF IInv, DefaultNeverBlocked, Dark, TypeOK

LEMMA DarkBecomesKnown ==
  ASSUME NEW g \in Gpu, IInv, Dark(g)
  PROVE  /\ TransitionFree => KnownDark(g)
         /\ KnownDark(g) /\ Dark(g)' /\ [Next]_vars => KnownDark(g)'
<1>1. TransitionFree => reported = KernelMode[modeMap]
  BY CallerFacts DEF IInv, LockDiscipline, FacesAgree, TransitionFree, InTransition, Dark
<1>2. ASSUME KnownDark(g), Dark(g)', [Next]_vars PROVE reported' # "hybrid"
  <2>1. CASE Boot \/ Crash \/ Exit
    BY <1>2, <2>1 DEF Boot, Crash, Exit, Vanish, Dark
  <2>2. CASE UNCHANGED reported
    BY <1>2, <2>2 DEF KnownDark
  <2>3. ASSUME NEW c \in Caller, Transition(c) PROVE reported' # "hybrid"
    <3>1. CASE Commit(c)
      BY <1>2, <3>1 DEF Commit, IInv, FacesAgree, Dark
    <3>2. QED
      BY <2>2, <2>3, <3>1 DEF Transition, BeginTransition, ApplyGpu, WriteModeMap, FinishSave, Notify, modeVars
  <2>4. CASE \/ \E c \in Clients, m \in Mode : ClientSetsMode(c, m)
             \/ \E onBattery \in BOOLEAN : BatteryChanged(onBattery)
             \/ MonDecide \/ MonRestore
    BY <2>2, <2>4 DEF ClientSetsMode, BatteryChanged, MonDecide, MonRestore, modeVars
  <2>5. QED
    BY <1>2, <2>1, <2>2, <2>3, <2>4, OtherSteps
<1>3. QED
  BY <1>1, <1>2 DEF KnownDark, Dark

(* What the monitor found out about g.                                        *)
Watches(g, active, pc) == mon.pc = pc /\ mon.gpu = g /\ mon.active = active
Judges(g, active) == Watches(g, active, "gpu") /\ mon.mode \in AvailableModes \ {"hybrid"}

LEMMA ProbeSees ==
  ASSUME NEW g \in Gpu, NEW a \in BOOLEAN, a <=> g \in displays, MonProbe(g), ~Spend("fault")
  PROVE  Watches(g, a, "mode")'
<1>1. mon' = [pc |-> "mode", gpu |-> g, active |-> g \in displays, mode |-> "hybrid"]
  BY DEF MonProbe
<1>2. (g \in displays) = a
  OBVIOUS
<1>3. QED
  BY <1>1, <1>2 DEF Watches

(* The decision the monitor takes when it finds g blocked or not.             *)
LEMMA DecisionOf ==
  ASSUME NEW g \in Gpu, NEW a \in BOOLEAN, NEW b \in BOOLEAN, Watches(g, a, "gpu"), GpuBlocked(g) = {b}, MonDecide,
         ~Spend("fault")
  PROVE  LET offload == mon.mode \in Overridable /\ g \in Discrete /\ ~IsDefault(g)
         IN  /\ offload /\ a /\ b   => Request("display", "hybrid", FALSE)
             /\ offload /\ ~a /\ ~b => mon' = [mon EXCEPT !.pc = "restore"]
             /\ mon.mode = "manual" /\ a /\ b => mon' = [mon EXCEPT !.pc = "unblock"]
<1>1. mon.gpu = g /\ mon.active = a
  BY DEF Watches
<1>2. GpuBlocked(mon.gpu) = {b}
  BY <1>1
<1>3. "manual" \notin Overridable
  BY DEF Overridable
<1>4. mon.active <=> a
  BY <1>1
<1>5. QED
  BY <1>1, <1>2, <1>3, <1>4 DEF MonDecide, OverrideSaves, OverrideOver

LEMMA WatchGoesOn ==
  ASSUME MonitorFacts, NEW g \in Gpu, NEW a \in BOOLEAN, Watches(g, a, "mode"), reported # "hybrid", [Next]_vars,
         phase' = "serving"
  PROVE  (~MonMode /\ Watches(g, a, "mode")') \/ Judges(g, a)'
<1>1. phase = "serving" /\ reported \in AvailableModes /\ TypeOK
  BY DEF MonitorFacts, IInv, OnlyTransitionsTouch, ReportedIsOffered, Watches
<1>2. CASE MonMode
  <2>1. mon' = [mon EXCEPT !.pc = "gpu", !.mode = reported]
    BY <1>2 DEF MonMode
  <2>2. mon'.pc = "gpu" /\ mon'.mode = reported /\ mon'.gpu = mon.gpu /\ mon'.active = mon.active
    BY <1>1, <2>1 DEF TypeOK, MonState
  <2>3. QED
    BY <1>1, <2>2 DEF Watches, Judges
<1>3. CASE ~MonMode
  <2>1. UNCHANGED mon
    BY <1>1, <1>3, MonitorSteps
       DEF Crash, Exit, Vanish, MonProbe, Monitor, MonDecide, MonRestore, MonUnblock, Watches
  <2>2. QED
    BY <1>3, <2>1 DEF Watches
<1>4. QED
  BY <1>2, <1>3

(* The monitor's own request, made of a step of it. *)
LEMMA RequestIsMade ==
  ASSUME TypeOK, NEW m \in Mode, Request("display", m, FALSE)
  PROVE  task'["display"].pc = "waiting" /\ task'["display"].mode = m
<1>1. task' = [task EXCEPT !["display"] = Call(m, FALSE)]
  BY DEF Request
<1>2. task'["display"] = Call(m, FALSE)
  BY <1>1, CallerFacts DEF TypeOK
<1>3. Call(m, FALSE).pc = "waiting" /\ Call(m, FALSE).mode = m
  BY DEF Call, Idle
<1>4. QED
  BY <1>2, <1>3

(* On a GPU it found dark the monitor overrides the mode, on a laptop, or      *)
(* opens the GPU, elsewhere.                                                  *)
Opening(g) == MonAt("unblock") /\ mon.gpu = g

LEMMA DarkIsActedUpon ==
  ASSUME MonitorFacts, NEW g \in Available, Judges(g, TRUE), Dark(g), [Next]_vars, phase' = "serving",
         ~Spend("fault")
  PROVE  (~Monitor /\ Judges(g, TRUE)') \/ Asks("display", "hybrid")' \/ Opening(g)'
<1>1. g \in Gpu /\ ~IsDefault(g) /\ TypeOK
  BY DarkGpu, GpuAssumption DEF MonitorFacts, IInv
<1>2. mon.pc = "gpu" /\ Watches(g, TRUE, "gpu") /\ mon.mode \in AvailableModes \ {"hybrid"}
  BY DEF Judges, Watches
<1>3. CASE Monitor
  <2>1. MonDecide
    BY <1>2, <1>3 DEF Monitor, MonMode, MonRestore, MonUnblock
  <2>2. GpuBlocked(g) = {TRUE}
    BY DEF GpuBlocked, Dark
  <2>3. CASE SystemType = "Laptop"
    <3>1. g \in Discrete /\ mon.mode \in Overridable
      <4>1. g \in Offload
        BY <1>1, <2>3, LaptopHidesTheOther DEF IsDefault
      <4>2. QED
        BY <1>2, <2>3, <4>1 DEF Offload, AvailableModes, Overridable
    <3>2. Request("display", "hybrid", FALSE)
      BY <1>1, <1>2, <2>1, <2>2, <3>1, DecisionOf
    <3>3. QED
      BY <1>1, <3>2, RequestIsMade DEF Mode, Asks, Done
  <2>4. CASE SystemType # "Laptop"
    <3>1. mon.mode = "manual" /\ mon.mode \notin Overridable
      BY <1>2, <2>4 DEF AvailableModes, Overridable
    <3>2. mon' = [mon EXCEPT !.pc = "unblock"]
      BY <1>1, <1>2, <2>1, <2>2, <3>1, DecisionOf
    <3>3. mon'.pc = "unblock" /\ mon'.gpu = g
      BY <1>1, <1>2, <3>2 DEF TypeOK, MonState, Watches
    <3>4. QED
      BY <3>3 DEF Opening, MonAt
  <2>5. QED
    BY <2>3, <2>4
<1>4. CASE ~Monitor
  <2>1. UNCHANGED mon
    BY <1>2, <1>4, MonitorSteps DEF Crash, Exit, Vanish, MonProbe
  <2>2. QED
    BY <1>4, <2>1 DEF Judges, Watches
<1>5. QED
  BY <1>3, <1>4

LEMMA OpeningOpens ==
  ASSUME MonitorFacts, NEW g \in Gpu, Opening(g), [Next]_vars, phase' = "serving", ~Spend("fault")
  PROVE  (~Monitor /\ Opening(g)') \/ ~Dark(g)'
<1>1. mon.pc = "unblock" /\ mon.gpu = g /\ TypeOK
  BY DEF Opening, MonAt, MonitorFacts, IInv
<1>2. CASE Monitor
  <2>1. SyncInodes(g, FALSE)
    BY <1>1, <1>2 DEF Monitor, MonMode, MonDecide, MonRestore, MonUnblock, SyncInodesFails
  <2>2. nodes'[g] = {"open"}
    BY <1>1, <2>1 DEF SyncInodes, NodeStateOf, TypeOK
  <2>3. QED
    BY <2>2 DEF Dark
<1>3. CASE ~Monitor
  <2>1. UNCHANGED mon
    BY <1>1, <1>3, MonitorSteps DEF Crash, Exit, Vanish, MonProbe
  <2>2. QED
    BY <1>3, <2>1 DEF Opening, MonAt
<1>4. QED
  BY <1>2, <1>3

Lit(g) == []<>~Dark(g)

(* A round that spends no fault sees what is plugged in. *)
LEMMA CalmProbeSees ==
  ASSUME NEW g \in Gpu, NEW a \in BOOLEAN, a <=> g \in displays, NEW k,
         MonitorFacts, Exactly(k), Exactly(k)', <<MonProbe(g)>>_vars
  PROVE  Watches(g, a, "mode")'
<1>1. [Next]_vars /\ MonProbe(g)
  BY DEF Next
<1>2. ~Spend("fault")
  BY <1>1, CalmSpendsNothing DEF MonitorFacts, IInv
<1>3. QED
  BY <1>1, <1>2, ProbeSees

LEMMA LightsUp ==
  ASSUME NEW g \in Available, NEW k \in Nat
  PROVE  []MonitorFacts /\ [][Next]_vars /\ GuardFairness /\ FreedAgain /\ []Returns("display") /\ ProbesAgain(g)
           /\ SettlesAt(k) => Lit(g)
<1> SUFFICES ASSUME []MonitorFacts, [][Next]_vars, []GuardFairness, []FreedAgain, []Returns("display"),
                    []ProbesAgain(g), []SettlesAt(k)
             PROVE  Lit(g)
  BY PTL DEF GuardFairness, FreedAgain, ProbesAgain, Probes, SettlesAt
<1>1. MonitorFacts /\ Dark(g) /\ TransitionFree => KnownDark(g)
  BY DarkBecomesKnown, GpuAssumption DEF MonitorFacts
<1>2. MonitorFacts /\ KnownDark(g) /\ Dark(g)' /\ [Next]_vars => KnownDark(g)'
  BY DarkBecomesKnown, GpuAssumption DEF MonitorFacts, KnownDark
<1>3. MonitorFacts /\ Dark(g) /\ Exactly(k) /\ Exactly(k)' /\ <<MonProbe(g)>>_vars => Watches(g, TRUE, "mode")'
  BY CalmProbeSees, GpuAssumption DEF Dark
<1>4. Dark(g) => InPhase("serving")
  BY DEF Dark, InPhase
<1>5. MonitorFacts /\ Watches(g, TRUE, "mode") /\ KnownDark(g) /\ Dark(g)' /\ [Next]_vars
        => Watches(g, TRUE, "mode")' \/ Judges(g, TRUE)'
  BY WatchGoesOn, GpuAssumption DEF KnownDark, Dark
<1>6. MonitorFacts /\ Watches(g, TRUE, "mode") /\ KnownDark(g) /\ Dark(g)' /\ <<MonMode>>_vars => Judges(g, TRUE)'
  BY WatchGoesOn, LooksAndDecides, GpuAssumption DEF KnownDark, Dark
<1>7. MonitorFacts /\ [Next]_vars /\ Exactly(k) /\ Exactly(k)' => ~Spend("fault")
  BY CalmSpendsNothing DEF MonitorFacts, IInv
<1>8. MonitorFacts /\ Judges(g, TRUE) /\ Exactly(k) /\ Exactly(k)' /\ Dark(g) /\ Dark(g)' /\ [Next]_vars
        => Judges(g, TRUE)' \/ Asks("display", "hybrid")' \/ Opening(g)'
  BY <1>7, DarkIsActedUpon DEF Dark
<1>9. MonitorFacts /\ Judges(g, TRUE) /\ Exactly(k) /\ Exactly(k)' /\ Dark(g) /\ Dark(g)' /\ <<Monitor>>_vars
        => Asks("display", "hybrid")' \/ Opening(g)'
  BY <1>7, DarkIsActedUpon, LooksAndDecides DEF Dark
<1>10. MonitorFacts /\ Opening(g) /\ Exactly(k) /\ Exactly(k)' /\ Dark(g)' /\ [Next]_vars => Opening(g)'
  BY <1>7, OpeningOpens, GpuAssumption DEF Dark
<1>11. MonitorFacts /\ Opening(g) /\ Exactly(k) /\ Exactly(k)' /\ Dark(g)' /\ <<Monitor>>_vars => FALSE
  BY <1>7, OpeningOpens, LooksAndDecides, GpuAssumption DEF Dark
<1>12. MonitorFacts /\ Asks("display", "hybrid") /\ Exactly(k) /\ Exactly(k)' /\ Dark(g) /\ Dark(g)' /\ [Next]_vars
         => Asks("display", "hybrid")'
  BY <1>7, HybridProceeds, CallerFacts DEF MonitorFacts, IInv, Dark
<1>13. MonitorFacts /\ Asks("display", "hybrid") => ~Done("display") /\ Easy("display")
  BY DEF MonitorFacts, MonitorAlone, Asks, Easy
<1>14. MonitorFacts /\ Watches(g, TRUE, "mode") /\ TransitionFree => CanLook
  BY CallerFacts DEF MonitorFacts, IInv, LockDiscipline, TransitionFree, Watches, CanLook, ModeStateFree, InTransition
<1>15. Judges(g, TRUE) \/ Opening(g) => CanMonitor
  BY DEF Judges, Watches, Opening, MonAt, CanMonitor
<1>16. QED
  BY <1>1, <1>2, <1>3, <1>4, <1>5, <1>6, <1>7, <1>8, <1>9, <1>10, <1>11, <1>12, <1>13, <1>14, <1>15, PTL
     DEF GuardFairness, FreedAgain, Returns, ProbesAgain, Probes, SettlesAt, Lit

(* What the fairness and the finite faults give the monitor. *)
MonitorGoals == /\ FreedAgain
                /\ []Returns("display")
                /\ []Settles

LEMMA MonitorMeetsGoals ==
  Spec /\ GuardFairness /\ []SizesFormSets /\ []BoundsFormSet => MonitorGoals
<1>1. EasyRequestsReturn => Returns("display")
  BY CallerFacts DEF EasyRequestsReturn
<1> SUFFICES ASSUME []IInv, [][Next]_vars, []GuardFairness, []SizesFormSets, []BoundsFormSet, []Returns("display")
             PROVE  MonitorGoals
  BY <1>1, InvariantHolds, EasyReturn, PTL DEF Spec, GuardFairness, Returns
<1>2. AllLoopsEnd
  <2>1. ASSUME NEW d \in Caller PROVE LoopEnds(d)
    <3>1. []IInv /\ [][Next]_vars /\ GuardFairness /\ []SizesFormSets => LoopEnds(d)
      BY AnyLoopEnds
    <3>2. QED
      BY <3>1, PTL
  <2>2. QED
    BY <2>1 DEF AllLoopsEnd
<1>3. []IInv /\ [][Next]_vars /\ GuardFairness /\ []AllLoopsEnd => FreedAgain
  BY LockFrees
<1>4. IInv => TypeOK
  BY DEF IInv
<1>5. []TypeOK /\ [][Next]_vars /\ []BoundsFormSet => Settles
  BY BudgetSettles
<1>6. QED
  BY <1>2, <1>3, <1>4, <1>5, PTL DEF MonitorGoals

(* What the mode in force and the keys of g hide from a process without a      *)
(* grant: nothing in Hybrid mode, no open key in Manual mode.                  *)
Veiled(g) == /\ phase = "serving" /\ g \in displays /\ KernelMode[modeMap] # "hybrid"
             /\ KernelMode[modeMap] = "manual" => "blocked" \in nodes[g]
(* The display on g is not lit, and it is no failure that keeps it so.         *)
Unseen(g) == phase = "serving" /\ g \in displays /\ ~Opens(g, {}, Nobody) /\ ~LeftHalfOpen(g)

LEMMA UnseenIsVeiled ==
  ASSUME NEW g, Unseen(g)
  PROVE  Veiled(g)
<1>1. PICK e \in Entries(g) : HookHides(e, {}, Nobody)
  BY DEF Unseen, Opens
<1>2. /\ KernelMode[modeMap] # "hybrid"
      /\ IsInodeBlocked(KernelMode[modeMap], e, {}, Nobody, Self, Parent)
  BY <1>1, HookOnEntry
<1>3. ForcedGpu(Nobody, Self, Parent) = {}
  BY DEF ForcedGpu, Nobody
<1>4. PICK s \in nodes[g] \ {"untracked"} : e = [gpu |-> g, blocked |-> s = "blocked"]
  BY Zenon, <1>1 DEF Entries
<1>5. e.blocked => s = "blocked"
  BY Zenon, <1>4
<1>6. KernelMode[modeMap] = "manual" => e.blocked
  BY <1>2, <1>3 DEF IsInodeBlocked
<1>7. QED
  BY <1>2, <1>4, <1>5, <1>6 DEF Veiled, Unseen

(* Who changes the states of keys. *)
LEMMA NodesMove ==
  ASSUME TypeOK, [Next]_vars
  PROVE  \/ UNCHANGED nodes
         \/ nodes' = [g \in Gpu |-> {"untracked"}] /\ phase' = "down"
         \/ Spend("fault")
         \/ \E c \in Caller : \E h \in task[c].todo :
              /\ ApplyGpu(c) /\ SyncInodes(h, h \in task[c].hide)
              /\ task' = [task EXCEPT ![c].todo = @ \ {h}]
         \/ \E h \in Gpu : SyncBlock(h) /\ SyncInodes(h, blk[h].block)
         \/ MonUnblock /\ SyncInodes(mon.gpu, FALSE)
<1>1. CASE Crash \/ Exit
  BY <1>1 DEF Crash, Exit, Vanish
<1>2. ASSUME NEW c \in Caller, ApplyGpu(c), ~Spend("fault")
      PROVE  \E h \in task[c].todo : /\ ApplyGpu(c) /\ SyncInodes(h, h \in task[c].hide)
                                     /\ task' = [task EXCEPT ![c].todo = @ \ {h}]
  BY <1>2 DEF ApplyGpu, SyncInodesFails
<1>3. ASSUME NEW c \in Caller, Transition(c), ~ApplyGpu(c) PROVE UNCHANGED nodes
  BY <1>3 DEF Transition, BeginTransition, WriteModeMap, Commit, FinishSave, Notify
<1>4. ASSUME NEW h \in Gpu, BlockCall(h) PROVE UNCHANGED nodes \/ Spend("fault") \/ (SyncBlock(h) /\ SyncInodes(h, blk[h].block))
  BY <1>4 DEF BlockCall, ProbeBlock, SyncBlock, SyncInodesFails, SaveBlock, FinishSaveBlock
<1>5. MonUnblock => Spend("fault") \/ SyncInodes(mon.gpu, FALSE)
  BY DEF MonUnblock, SyncInodesFails
<1>6. Boot \/ MonMode \/ MonDecide \/ MonRestore \/ Rest \/ UNCHANGED vars => UNCHANGED nodes
  BY DEF Boot, MonMode, MonDecide, MonRestore, Rest, vars
<1>7. ASSUME \/ \E c \in Clients, m \in Mode : ClientSetsMode(c, m)
             \/ \E onBattery \in BOOLEAN : BatteryChanged(onBattery)
             \/ \E kind \in {"started", "stopped"} : RunPowerd(kind)
             \/ \E g \in Gpu, block \in BOOLEAN : SetBlock(g, block)
             \/ \E g \in Gpu : MonProbe(g)
             \/ \E g \in Available : Plug(g)
      PROVE  UNCHANGED nodes
  BY <1>7 DEF ClientSetsMode, BatteryChanged, RunPowerd, SetBlock, MonProbe, Plug
<1>8. QED
  BY <1>1, <1>2, <1>3, <1>4, <1>5, <1>6, <1>7 DEF Next, Monitor

(* Until something fails all keys of a GPU are in one state (sync_inodes). *)
OneState == Unfailed => \A g \in Gpu : \E s \in NodeState : nodes[g] = {s}

LEMMA OneStateHolds == Spec => []OneState
<1>1. Init => FaultsSpent /\ OneState
  BY CallerAssumption DEF Init, FaultsSpent, OneState, NodeState
<1>2. TypeOK /\ FaultsSpent /\ OneState /\ [Next]_vars => FaultsSpent' /\ OneState'
  <2> SUFFICES ASSUME TypeOK, FaultsSpent, OneState, [Next]_vars, Unfailed', NEW g \in Gpu
               PROVE  \E s \in NodeState : nodes'[g] = {s}
    BY FaultsOnlySpent DEF OneState
  <2>1. ~Spend("fault") /\ \E s \in NodeState : nodes[g] = {s}
    BY FailureShows, FaultsOnlySpent DEF OneState
  <2>2. ASSUME NEW h, NEW block, SyncInodes(h, block) PROVE \E s \in NodeState : nodes'[g] = {s}
    <3>1. NodeStateOf(block) \in NodeState
      BY DEF NodeStateOf, NodeState
    <3>2. nodes'[g] = IF g = h THEN {NodeStateOf(block)} ELSE nodes[g]
      BY <2>2 DEF SyncInodes, TypeOK
    <3>3. QED
      BY <2>1, <3>1, <3>2
  <2>3. nodes' = [h \in Gpu |-> {"untracked"}] => \E s \in NodeState : nodes'[g] = {s}
    BY DEF NodeState
  <2>4. QED
    BY <2>1, <2>2, <2>3, NodesMove
<1>3. QED
  BY <1>1, <1>2, TypeCorrect, PTL DEF Spec

(* On a laptop a transition to a mode that hides the offload GPU opens none. *)
LoopHides == SystemType = "Laptop" =>
  \A c \in Caller : At(c, "applying") /\ task[c].mode # "hybrid" => Offload \subseteq task[c].hide

LEMMA LoopHidesHolds == Spec => []LoopHides
<1>1. Init => LoopHides
  BY DEF Init, LoopHides, At, Idle
<1>2. TypeOK /\ LockDiscipline /\ LoopHides /\ [Next]_vars => LoopHides'
  <2> SUFFICES ASSUME TypeOK, LockDiscipline, LoopHides, [Next]_vars, SystemType = "Laptop",
                      NEW c \in Caller, task'[c].pc = "applying", task'[c].mode # "hybrid"
               PROVE  Offload \subseteq task'[c].hide
    BY DEF LoopHides, At
  <2>1. CASE task'[c] = task[c]
    BY <2>1 DEF LoopHides, At
  <2>2. ~Return(c, FALSE) /\ ~Return(c, TRUE)
    BY IdleFallback DEF Return, TypeOK
  <2>3. CASE BeginTransition(c)
    <3>1. /\ Supported(task[c].mode)
          /\ task' = [task EXCEPT ![c].pc   = "applying",
                                  ![c].todo = Touched(task[c].mode),
                                  ![c].hide = Hidden(task[c].mode, gpuSaved, AutoApply)]
      BY <2>2, <2>3 DEF BeginTransition
    <3>2. task[c].mode \in Mode /\ task'[c].mode = task[c].mode
          /\ task'[c].hide = Hidden(task[c].mode, gpuSaved, AutoApply)
      BY <3>1 DEF TypeOK, TaskState
    <3>3. QED
      BY <3>1, <3>2, DecisionOnLaptop
  <2>4. CASE ApplyGpu(c)
    <3>1. PICK g : task' = [task EXCEPT ![c].todo = @ \ {g}]
      BY <2>2, <2>4 DEF ApplyGpu, GiveUp
    <3>2. /\ task'[c].mode = task[c].mode /\ task'[c].hide = task[c].hide
          /\ task[c].pc = "applying"
      BY <2>4, <3>1 DEF ApplyGpu, TypeOK, TaskState
    <3>3. QED
      BY <3>2 DEF LoopHides, At
  <2>5. ~WriteModeMap(c) /\ ~Commit(c) /\ ~FinishSave(c) /\ ~Notify(c)
    <3>1. ASSUME NEW pc, pc # "applying" PROVE task' # [task EXCEPT ![c].pc = pc]
      <4>1. task' = [task EXCEPT ![c].pc = pc] => task'[c].pc = pc
        BY DEF TypeOK, TaskState
      <4>2. QED
        BY <3>1, <4>1
    <3>2. QED
      BY <2>2, <3>1 DEF WriteModeMap, GiveUp, Commit, FinishSave, Notify
  <2>6. CASE task[c].pc # "idle"
    BY <2>1, <2>3, <2>4, <2>5, <2>6, CallMoves DEF Transition
  <2>7. CASE task[c].pc = "idle"
    <3>1. ASSUME NEW d, NEW m, NEW save, task' = [task EXCEPT ![d] = Call(m, save)] PROVE FALSE
      <4>1. Call(m, save).pc = "waiting"
        BY DEF Call, Idle
      <4>2. QED
        BY <2>7, <3>1, <4>1 DEF TypeOK
    <3>2. task'[c] # task[c]
      BY <2>7
    <3>3. ~Transition(c)
      BY <2>7 DEF Transition, BeginTransition, ApplyGpu, WriteModeMap, Commit, FinishSave, Notify
    <3>4. ASSUME NEW d \in Caller \ {c}, Transition(d) PROVE task'[c] = task[c]
      <4>1. ASSUME NEW ok, Return(d, ok) PROVE task'[c] = task[c]
        BY <3>4, <4>1 DEF Return, TypeOK
      <4>2. CASE BeginTransition(d)
        BY <3>4, <4>1, <4>2 DEF TypeOK, BeginTransition
      <4>3. CASE ApplyGpu(d) \/ WriteModeMap(d)
        BY <3>4, <4>1, <4>3 DEF TypeOK, ApplyGpu, WriteModeMap, GiveUp
      <4>4. CASE Commit(d) \/ FinishSave(d) \/ Notify(d)
        BY <3>4, <4>1, <4>4 DEF TypeOK, Commit, FinishSave, Notify
      <4>5. QED
        BY <3>4, <4>2, <4>3, <4>4 DEF Transition
    <3>5. ASSUME NEW d, NEW m, NEW save, Request(d, m, save) PROVE FALSE
      BY <3>1, <3>5 DEF Request
    <3>6. CASE \/ Boot \/ MonDecide \/ MonRestore
               \/ \E d \in Clients, m \in Mode : ClientSetsMode(d, m)
               \/ \E onBattery \in BOOLEAN : BatteryChanged(onBattery)
      <4>1. ~Boot
        <5>1. Call(reported', FALSE).pc = "waiting"
          BY DEF Call, Idle
        <5>2. QED
          BY <2>7, <5>1 DEF Boot, TypeOK
      <4>2. ~MonDecide
        BY <3>2, <3>5 DEF MonDecide
      <4>3. QED
        BY <3>5, <3>6, <4>1, <4>2 DEF MonRestore, ClientSetsMode, BatteryChanged
    <3>7. CASE Crash \/ Exit
      BY <3>7 DEF Crash, Exit, Vanish, Idle
    <3>8. QED
      BY <3>2, <3>3, <3>4, <3>6, <3>7, OtherSteps
  <2>8. QED
    BY <2>6, <2>7
<1>3. QED
  BY <1>1, <1>2, TypeCorrect, LockDisciplineHolds, PTL DEF Spec

(* Off a laptop the kernel is in Hybrid or in Manual mode. *)
LEMMA KernelOffLaptop ==
  ASSUME IInv, phase = "serving", SystemType # "Laptop"
  PROVE  KernelMode[modeMap] \in {"hybrid", "manual"}
<1>1. ASSUME NEW c \in Caller, task[c].pc = "commit" PROVE KernelMode[modeMap] \in {"hybrid", "manual"}
  <2>1. KernelMode[modeMap] = task[c].mode /\ Supported(task[c].mode) /\ task[c].mode \in Mode
    BY <1>1 DEF IInv, FacesAgree, IntentsAllowed, InTransition, TypeOK, TaskState
  <2>2. QED
    BY <2>1 DEF Supported, Mode
<1>2. CASE \A c \in Caller : task[c].pc # "commit"
  BY <1>2 DEF IInv, FacesAgree, ReportedIsOffered, AvailableModes
<1>3. QED
  BY <1>1, <1>2

(* Between transitions a display that is not lit is on a GPU whose keys are    *)
(* all blocked.                                                               *)
LEMMA UnseenIsDark ==
  ASSUME IInv, OffloadHiddenAsReported, DefaultOpens, OneState, NEW g \in Available, Unseen(g), TransitionFree
  PROVE  Dark(g)
<1>1. g \in Gpu /\ Settled
  BY GpuAssumption DEF Unseen, TransitionFree, Settled
<1>2. Veiled(g)
  BY UnseenIsVeiled
<1>3. ~IsDefault(g)
  BY <1>1 DEF Unseen, DefaultOpens
<1>4. ASSUME Unfailed PROVE nodes[g] = {"blocked"}
  <2>1. CASE SystemType = "Laptop"
    <3>1. g \in Offload
      BY <1>3, <2>1, LaptopHidesTheOther DEF IsDefault
    <3>2. reported = KernelMode[modeMap]
      BY <1>1, CallerFacts DEF IInv, LockDiscipline, FacesAgree, Settled, InTransition
    <3>3. QED
      BY <1>1, <1>2, <1>4, <2>1, <3>1, <3>2 DEF OffloadHiddenAsReported, NodeStateOf, Veiled
  <2>2. CASE SystemType # "Laptop"
    <3>1. "blocked" \in nodes[g]
      BY <1>2, <2>2, KernelOffLaptop DEF Veiled
    <3>2. QED
      BY <1>1, <1>4, <3>1 DEF OneState
  <2>3. QED
    BY <2>1, <2>2
<1>5. QED
  BY <1>1, <1>2, <1>4 DEF Unseen, LeftHalfOpen, Veiled, Dark

(* A transition that has begun to open the GPUs on its way to Hybrid mode.     *)
Unveils(c) == At(c, "applying") /\ task[c].mode = "hybrid"
Unveiling == \E c \in Caller : Unveils(c)

(* Without a fault only such a transition opens the keys of a dark GPU in a    *)
(* mode that hides it all the same.                                           *)
LEMMA DarkOpens ==
  ASSUME MonitorFacts, LoopHides, NEW g \in Available, Dark(g), [Next]_vars, ~Spend("fault"), Veiled(g)'
  PROVE  Dark(g)' \/ Unveiling'
<1>1. g \in Gpu /\ ~IsDefault(g) /\ TypeOK /\ IInv /\ nodes[g] = {"blocked"} /\ phase = "serving"
  BY DarkGpu, GpuAssumption DEF MonitorFacts, IInv, Dark
<1>2. CASE nodes'[g] = nodes[g]
  BY <1>1, <1>2 DEF Dark, Veiled
<1>3. ASSUME NEW h, NEW block, SyncInodes(h, block), nodes'[g] # nodes[g]
      PROVE  h = g /\ ~block /\ "blocked" \notin nodes'[g]
  <2>1. nodes'[g] = IF h = g THEN {NodeStateOf(block)} ELSE nodes[g]
    BY <1>1, <1>3 DEF SyncInodes, TypeOK
  <2>2. QED
    BY <1>1, <1>3, <2>1 DEF NodeStateOf
<1>4. ASSUME SystemType # "Laptop", "blocked" \notin nodes'[g], UNCHANGED modeMap PROVE FALSE
  BY <1>1, <1>4, KernelOffLaptop DEF Veiled
<1>5. ASSUME NEW c \in Caller, NEW h \in task[c].todo, ApplyGpu(c), SyncInodes(h, h \in task[c].hide),
             task' = [task EXCEPT ![c].todo = @ \ {h}], nodes'[g] # nodes[g]
      PROVE  Unveiling'
  <2>1. h = g /\ g \notin task[c].hide /\ "blocked" \notin nodes'[g] /\ UNCHANGED modeMap
    <3>1. h = g /\ ~(h \in task[c].hide) /\ "blocked" \notin nodes'[g]
      BY <1>3, <1>5
    <3>2. UNCHANGED modeMap
      BY <1>5 DEF ApplyGpu, modeVars
    <3>3. QED
      BY <3>1, <3>2
  <2>2. SystemType = "Laptop"
    BY <1>4, <2>1
  <2>3. g \in Offload
    BY <1>1, <2>2, LaptopHidesTheOther DEF IsDefault
  <2>4. Unveils(c)
    BY <1>5, <2>1, <2>2, <2>3 DEF LoopHides, At, ApplyGpu, Unveils
  <2>5. task'[c].pc = task[c].pc /\ task'[c].mode = task[c].mode
    BY <1>1, <1>5 DEF TypeOK, TaskState
  <2>6. QED
    BY <2>4, <2>5 DEF Unveils, Unveiling, At
<1>6. ASSUME NEW h \in Gpu, SyncBlock(h), SyncInodes(h, blk[h].block), nodes'[g] # nodes[g] PROVE FALSE
  <2>1. SystemType # "Laptop" /\ UNCHANGED modeMap
    BY <1>6 DEF SyncBlock, MonitorFacts, OnlyTransitionsTouch, modeVars
  <2>2. QED
    BY <1>3, <1>4, <1>6, <2>1
<1>7. ASSUME MonUnblock, SyncInodes(mon.gpu, FALSE), nodes'[g] # nodes[g] PROVE FALSE
  <2>1. SystemType # "Laptop" /\ UNCHANGED modeMap
    BY <1>7 DEF MonUnblock, MonitorFacts, OnlyTransitionsTouch, modeVars
  <2>2. QED
    BY <1>3, <1>4, <1>7, <2>1
<1>8. phase' = "serving"
  BY DEF Veiled
<1>9. QED
  BY <1>1, <1>2, <1>5, <1>6, <1>7, <1>8, NodesMove

(* It goes on to write the mode map, which lights the display. *)
LEMMA UnveilingGoesOn ==
  ASSUME IInv, [Next]_vars, ~Spend("fault"), NEW g, Unveiling, Veiled(g)'
  PROVE  Unveiling'
<1>1. PICK c \in Caller : Unveils(c)
  BY DEF Unveiling
<1>2. TypeOK /\ LockDiscipline /\ task[c].pc = "applying" /\ task[c].mode = "hybrid"
  BY <1>1 DEF IInv, Unveils, At
<1>3. CASE task'[c] = task[c]
  BY <1>1, <1>3 DEF Unveiling, Unveils, At
<1>4. CASE ApplyGpu(c)
  <2>1. PICK h : task' = [task EXCEPT ![c].todo = @ \ {h}]
    BY <1>4 DEF ApplyGpu, SyncInodesFails
  <2>2. task'[c].pc = task[c].pc /\ task'[c].mode = task[c].mode
    BY <1>2, <2>1 DEF TypeOK, TaskState
  <2>3. QED
    BY <1>2, <2>2 DEF Unveiling, Unveils, At
<1>5. ~WriteModeMap(c)
  <2>1. WriteModeMap(c) => modeMap' = ModeNumber["hybrid"]
    BY <1>2 DEF WriteModeMap
  <2>2. KernelMode[ModeNumber["hybrid"]] = "hybrid"
    BY ModeEncoding DEF Mode
  <2>3. QED
    BY <2>1, <2>2 DEF Veiled
<1>6. phase' = "serving"
  BY DEF Veiled
<1>7. Transition(c) => ApplyGpu(c) \/ WriteModeMap(c)
  BY <1>2 DEF Transition, BeginTransition, Commit, FinishSave, Notify
<1>8. QED
  BY <1>2, <1>3, <1>4, <1>5, <1>6, <1>7, CallMoves

VisibilityFacts == MonitorFacts /\ OffloadHiddenAsReported /\ DefaultOpens /\ OneState /\ LoopHides
LEMMA VisibilityFactsHold == Spec => []VisibilityFacts
BY MonitorFactsHold, OffloadStaysAsReported, DefaultAlwaysOpens, OneStateHolds, LoopHidesHolds, PTL
   DEF VisibilityFacts

Seen(g) == []<>~Unseen(g)

LEMMA DisplaySeen ==
  ASSUME NEW g \in Available, NEW k \in Nat
  PROVE  []VisibilityFacts /\ [][Next]_vars /\ FreedAgain /\ Lit(g) /\ SettlesAt(k) => Seen(g)
<1> SUFFICES ASSUME []VisibilityFacts, [][Next]_vars, []FreedAgain, []Lit(g), []SettlesAt(k) PROVE Seen(g)
  BY PTL DEF FreedAgain, Lit, SettlesAt
<1>1. Unseen(g) => Veiled(g)
  BY UnseenIsVeiled
<1>2. VisibilityFacts /\ Unseen(g) /\ TransitionFree => Dark(g)
  BY UnseenIsDark DEF VisibilityFacts, MonitorFacts
<1>3. VisibilityFacts /\ [Next]_vars /\ Exactly(k) /\ Exactly(k)' => ~Spend("fault")
  BY CalmSpendsNothing DEF VisibilityFacts, MonitorFacts, IInv
<1>4. VisibilityFacts /\ Dark(g) /\ Exactly(k) /\ Exactly(k)' /\ Veiled(g)' /\ [Next]_vars => Dark(g)' \/ Unveiling'
  BY <1>3, DarkOpens DEF VisibilityFacts
<1>5. VisibilityFacts /\ Unveiling /\ Exactly(k) /\ Exactly(k)' /\ Veiled(g)' /\ [Next]_vars => Unveiling'
  BY <1>3, UnveilingGoesOn DEF VisibilityFacts, MonitorFacts
<1>6. VisibilityFacts /\ Unveiling => ~TransitionFree
  BY CallerFacts
     DEF VisibilityFacts, MonitorFacts, IInv, LockDiscipline, Unveiling, Unveils, At, InTransition, TransitionFree
<1>7. QED
  BY <1>1, <1>2, <1>4, <1>5, <1>6, PTL DEF FreedAgain, Lit, SettlesAt, Seen

(* A display connected to a hidden GPU is lit, in the mode in force and for a  *)
(* process without a grant: the monitor looks at the card again and again, and *)
(* once the faults are spent its override reaches Hybrid mode, or in Manual    *)
(* mode it opens the GPU, unless a failure has left keys of the GPU open or     *)
(* half open in a mode that still hides it (reconcile_gpu).                    *)
THEOREM DisplaysGetLight ==
  ASSUME DisplaySwitch
  PROVE  Spec /\ GuardFairness /\ []SizesFormSets /\ []BoundsFormSet => DisplayServed
<1>1. ASSUME NEW g \in Available, []VisibilityFacts, [][Next]_vars, []GuardFairness, []FreedAgain,
             []Returns("display"), []Settles
      PROVE  Seen(g)
  <2>0. VisibilityFacts => MonitorFacts
    BY DEF VisibilityFacts
  <2>1. g \in Gpu
    BY GpuAssumption
  <2>2. []MonitorFacts /\ [][Next]_vars /\ GuardFairness /\ FreedAgain /\ []Returns("display") => ProbesAgain(g)
    BY <2>1, MonitorProbes
  <2>3. ASSUME NEW k \in Nat, SettlesAt(k) PROVE Seen(g)
    <3>1. []MonitorFacts /\ [][Next]_vars /\ GuardFairness /\ FreedAgain /\ []Returns("display") /\ ProbesAgain(g)
            /\ SettlesAt(k) => Lit(g)
      BY LightsUp
    <3>2. []VisibilityFacts /\ [][Next]_vars /\ FreedAgain /\ Lit(g) /\ SettlesAt(k) => Seen(g)
      BY DisplaySeen
    <3>3. QED
      BY <1>1, <2>0, <2>2, <2>3, <3>1, <3>2, PTL
  <2>4. Settles => Seen(g)
    BY <2>3 DEF Settles
  <2>5. QED
    BY <1>1, <2>4, PTL
<1>2. ASSUME NEW g \in Available
      PROVE  Spec /\ GuardFairness /\ []SizesFormSets /\ []BoundsFormSet
               => ((phase = "serving" /\ g \in displays) ~>
                    (g \notin displays \/ phase # "serving" \/ Opens(g, {}, Nobody) \/ LeftHalfOpen(g)))
  <2>1. ~Unseen(g) <=> (g \notin displays \/ phase # "serving" \/ Opens(g, {}, Nobody) \/ LeftHalfOpen(g))
    BY DEF Unseen
  <2>2. Spec /\ GuardFairness /\ []SizesFormSets /\ []BoundsFormSet => MonitorGoals
    BY MonitorMeetsGoals
  <2>3. []VisibilityFacts /\ [][Next]_vars /\ []GuardFairness /\ []FreedAgain /\ []Returns("display") /\ []Settles
          => Seen(g)
    BY <1>1
  <2>4. QED
    BY <2>1, <2>2, <2>3, VisibilityFactsHold, PTL DEF Spec, GuardFairness, MonitorGoals, FreedAgain, Seen
<1>3. QED
  BY <1>2 DEF DisplayServed

(***************************************************************************)
(* The offload GPU is hidden again                                          *)
(***************************************************************************)

(* g is open in a mode that hides it, with no display to serve, and the mode   *)
(* a restart would apply is one that this system has.                         *)
Exposed(g) == /\ phase = "serving" /\ reported # "hybrid" /\ displays = {} /\ "blocked" \notin nodes[g]
              /\ Supported(Parsed(modeFile))
(* The monitor's request is under way: for Hybrid mode, or for a mode that     *)
(* hides g and has not done so yet.                                           *)
WillHide(g) == /\ task["display"].mode \in {"integrated", "smart"}
               /\ \/ At("display", "waiting")
                  \/ At("display", "applying") /\ g \in task["display"].todo /\ g \in task["display"].hide
Heals(g) == Asks("display", "hybrid") \/ WillHide(g)

LEMMA LaptopModes ==
  ASSUME SystemType = "Laptop", NEW m \in Mode, Supported(m)
  PROVE  m \in {"integrated", "smart", "hybrid"}
BY DEF Mode, Supported

LEMMA ExposedIsActedUpon ==
  ASSUME MonitorFacts, SystemType = "Laptop", NEW g \in Offload, Judges(g, FALSE), Exposed(g), [Next]_vars,
         phase' = "serving", ~Spend("fault")
  PROVE  (~Monitor /\ Judges(g, FALSE)') \/ MonAt("restore")'
<1>1. g \in Gpu /\ g \in Discrete /\ ~IsDefault(g) /\ TypeOK
  BY GpuAssumption DEF Offload, MonitorFacts, IInv
<1>2. mon.pc = "gpu" /\ Watches(g, FALSE, "gpu") /\ mon.mode \in Overridable
  BY DEF Judges, Watches, AvailableModes, Overridable
<1>3. CASE Monitor
  <2>1. MonDecide
    BY <1>2, <1>3 DEF Monitor, MonMode, MonRestore, MonUnblock
  <2>2. GpuBlocked(g) = {FALSE}
    <3>1. nodes[g] # {"blocked"}
      BY DEF Exposed
    <3>2. QED
      BY <3>1 DEF GpuBlocked, Exposed
  <2>3. mon' = [mon EXCEPT !.pc = "restore"]
    BY <1>1, <1>2, <2>1, <2>2, DecisionOf
  <2>4. QED
    BY <1>1, <2>3 DEF TypeOK, MonState, MonAt
<1>4. CASE ~Monitor
  <2>1. UNCHANGED mon
    BY <1>2, <1>4, MonitorSteps DEF Crash, Exit, Vanish, MonProbe
  <2>2. QED
    BY <1>4, <2>1 DEF Judges, Watches
<1>5. QED
  BY <1>3, <1>4

LEMMA RestoreAsks ==
  ASSUME MonitorFacts, SystemType = "Laptop", NEW g \in Offload, MonAt("restore"), Exposed(g), [Next]_vars,
         phase' = "serving"
  PROVE  (~Monitor /\ MonAt("restore")') \/ Heals(g)'
<1>1. CASE Monitor
  <2>1. MonRestore
    BY <1>1 DEF Monitor, MonMode, MonDecide, MonUnblock, MonAt
  <2>2. Parsed(modeFile) \in Mode
    BY DEF Parsed, Mode, MonitorFacts, IInv, TypeOK
  <2>3. Parsed(modeFile) \in {"integrated", "smart", "hybrid"}
    BY <2>2, LaptopModes DEF Exposed
  <2>4. task'["display"].pc = "waiting" /\ task'["display"].mode = Parsed(modeFile)
    BY <2>1, <2>2, RequestIsMade DEF MonRestore, MonitorFacts, IInv
  <2>5. QED
    BY <2>3, <2>4 DEF Heals, Asks, Done, WillHide, At
<1>2. CASE ~Monitor
  <2>1. UNCHANGED mon
    BY <1>2, MonitorSteps DEF Crash, Exit, Vanish, MonProbe, MonAt
  <2>2. QED
    BY <1>2, <2>1 DEF MonAt
<1>3. QED
  BY <1>1, <1>2

LEMMA HidingProceeds ==
  ASSUME MonitorFacts, SystemType = "Laptop", NEW g \in Offload, WillHide(g), [Next]_vars,
         phase' = "serving", ~Spend("fault")
  PROVE  WillHide(g)' \/ "blocked" \in nodes'[g]
<1> DEFINE d == "display"
<1>0. /\ TypeOK /\ LockDiscipline /\ d \in Caller \ {"startup"} /\ task[d].pc # "idle"
      /\ g \in Gpu /\ task[d].mode \in {"integrated", "smart"} /\ d \in Caller
  BY GpuAssumption, CallerFacts DEF MonitorFacts, IInv, WillHide, At, Offload
<1>1. CASE BeginTransition(d)
  <2>1. task' = [task EXCEPT ![d].pc   = "applying",
                             ![d].todo = Touched(task[d].mode),
                             ![d].hide = Hidden(task[d].mode, gpuSaved, AutoApply)]
    BY <1>0, <1>1 DEF BeginTransition, Supported
  <2>2. task'[d].pc = "applying" /\ task'[d].mode = task[d].mode
    BY <1>0, <2>1 DEF TypeOK, TaskState
  <2>3. task'[d].todo = Touched(task[d].mode) /\ task'[d].hide = Hidden(task[d].mode, gpuSaved, AutoApply)
    BY <1>0, <2>1 DEF TypeOK, TaskState
  <2>4. g \in Touched(task[d].mode) /\ g \in Hidden(task[d].mode, gpuSaved, AutoApply)
    BY <1>0 DEF Touched, Hidden
  <2>5. QED
    BY <1>0, <2>2, <2>3, <2>4 DEF WillHide, At
<1>2. CASE ApplyGpu(d)
  <2>1. PICK h \in task[d].todo : SyncInodes(h, h \in task[d].hide) /\ task' = [task EXCEPT ![d].todo = @ \ {h}]
    BY <1>2 DEF ApplyGpu, SyncInodesFails
  <2>2. At(d, "applying") /\ g \in task[d].todo /\ g \in task[d].hide
    BY <1>2 DEF WillHide, ApplyGpu, At
  <2>3. CASE h = g
    <3>1. nodes' = [nodes EXCEPT ![g] = {"blocked"}]
      BY <2>1, <2>2, <2>3 DEF SyncInodes, NodeStateOf
    <3>2. QED
      BY <1>0, <3>1 DEF TypeOK
  <2>4. CASE h # g
    <3>1. task'[d].pc = task[d].pc /\ task'[d].mode = task[d].mode /\ task'[d].hide = task[d].hide
      BY <1>0, <2>1 DEF TypeOK, TaskState
    <3>2. task'[d].todo = task[d].todo \ {h}
      BY <1>0, <2>1 DEF TypeOK, TaskState
    <3>3. QED
      BY <1>0, <2>2, <2>4, <3>1, <3>2 DEF WillHide, At
  <2>5. QED
    BY <2>3, <2>4
<1>3. CASE WriteModeMap(d) \/ Commit(d) \/ FinishSave(d) \/ Notify(d)
  BY <1>3 DEF WillHide, At, WriteModeMap, Commit, FinishSave, Notify
<1>4. CASE ~Transition(d)
  <2>1. task'[d] = task[d]
    BY <1>0, <1>4, CallMoves
  <2>2. QED
    BY <2>1 DEF WillHide, At
<1>5. QED
  BY <1>1, <1>2, <1>3, <1>4 DEF Transition

LEMMA HealingGoesOn ==
  ASSUME MonitorFacts, SystemType = "Laptop", NEW g \in Offload, Heals(g), Exposed(g), Exposed(g)', [Next]_vars,
         ~Spend("fault")
  PROVE  Heals(g)'
<1>1. CASE Asks("display", "hybrid")
  <2>1. Asks("display", "hybrid")' \/ reported = "hybrid"
    BY <1>1, HybridProceeds, CallerFacts DEF MonitorFacts, IInv, Exposed
  <2>2. QED
    BY <2>1 DEF Heals, Exposed
<1>2. CASE WillHide(g)
  <2>1. WillHide(g)' \/ "blocked" \in nodes'[g]
    BY <1>2, HidingProceeds DEF Exposed
  <2>2. QED
    BY <2>1 DEF Heals, Exposed
<1>3. QED
  BY <1>1, <1>2 DEF Heals

Covered(g) == []<>~Exposed(g)

LEMMA CoversUp ==
  ASSUME NEW g \in Offload, NEW k \in Nat, SystemType = "Laptop"
  PROVE  []MonitorFacts /\ [][Next]_vars /\ GuardFairness /\ FreedAgain /\ []Returns("display") /\ ProbesAgain(g)
           /\ SettlesAt(k) => Covered(g)
<1> SUFFICES ASSUME []MonitorFacts, [][Next]_vars, []GuardFairness, []FreedAgain, []Returns("display"),
                    []ProbesAgain(g), []SettlesAt(k)
             PROVE  Covered(g)
  BY PTL DEF GuardFairness, FreedAgain, ProbesAgain, Probes, SettlesAt
<1>0. g \in Gpu
  BY GpuAssumption DEF Offload
<1>1. Exposed(g) => InPhase("serving")
  BY DEF Exposed, InPhase
<1>2. MonitorFacts /\ Exposed(g) /\ Exactly(k) /\ Exactly(k)' /\ <<MonProbe(g)>>_vars => Watches(g, FALSE, "mode")'
  BY <1>0, CalmProbeSees DEF Exposed
<1>3. MonitorFacts /\ Watches(g, FALSE, "mode") /\ Exposed(g) /\ Exposed(g)' /\ [Next]_vars
        => Watches(g, FALSE, "mode")' \/ Judges(g, FALSE)'
  BY <1>0, WatchGoesOn DEF Exposed
<1>4. MonitorFacts /\ Watches(g, FALSE, "mode") /\ Exposed(g) /\ Exposed(g)' /\ <<MonMode>>_vars => Judges(g, FALSE)'
  BY <1>0, WatchGoesOn, LooksAndDecides DEF Exposed
<1>5. MonitorFacts /\ [Next]_vars /\ Exactly(k) /\ Exactly(k)' => ~Spend("fault")
  BY CalmSpendsNothing DEF MonitorFacts, IInv
<1>6. MonitorFacts /\ Judges(g, FALSE) /\ Exactly(k) /\ Exactly(k)' /\ Exposed(g) /\ Exposed(g)' /\ [Next]_vars
        => Judges(g, FALSE)' \/ MonAt("restore")'
  BY <1>5, ExposedIsActedUpon DEF Exposed
<1>7. MonitorFacts /\ Judges(g, FALSE) /\ Exactly(k) /\ Exactly(k)' /\ Exposed(g) /\ Exposed(g)' /\ <<Monitor>>_vars
        => MonAt("restore")'
  BY <1>5, ExposedIsActedUpon, LooksAndDecides DEF Exposed
<1>8. MonitorFacts /\ MonAt("restore") /\ Exposed(g) /\ Exposed(g)' /\ [Next]_vars => MonAt("restore")' \/ Heals(g)'
  BY RestoreAsks DEF Exposed
<1>9. MonitorFacts /\ MonAt("restore") /\ Exposed(g) /\ Exposed(g)' /\ <<Monitor>>_vars => Heals(g)'
  BY RestoreAsks, LooksAndDecides DEF Exposed
<1>10. MonitorFacts /\ Heals(g) /\ Exactly(k) /\ Exactly(k)' /\ Exposed(g) /\ Exposed(g)' /\ [Next]_vars => Heals(g)'
  BY <1>5, HealingGoesOn
<1>11. Heals(g) => ~Done("display") /\ Easy("display")
  BY DEF Heals, Asks, WillHide, At, Done, Easy
<1>12. MonitorFacts /\ Watches(g, FALSE, "mode") /\ TransitionFree => CanLook
  BY CallerFacts DEF MonitorFacts, IInv, LockDiscipline, TransitionFree, Watches, CanLook, ModeStateFree, InTransition
<1>13. Judges(g, FALSE) \/ MonAt("restore") => CanMonitor
  BY DEF Judges, Watches, MonAt, CanMonitor
<1>14. QED
  BY <1>1, <1>2, <1>3, <1>4, <1>5, <1>6, <1>7, <1>8, <1>9, <1>10, <1>11, <1>12, <1>13, PTL
     DEF GuardFairness, FreedAgain, Returns, ProbesAgain, Probes, SettlesAt, Covered

(* A transition that failed half way leaves the offload GPU visible for a      *)
(* while only: once the faults are spent the retry of the monitor applies the  *)
(* persisted mode, and that hides the GPU or is Hybrid (reconcile_gpu).        *)
THEOREM OffloadIsHiddenAgain ==
  ASSUME DisplaySwitch
  PROVE  Spec /\ GuardFairness /\ []SizesFormSets /\ []BoundsFormSet => OffloadEventuallyHidden
<1>1. ASSUME NEW g \in Offload, SystemType = "Laptop", []MonitorFacts, [][Next]_vars, []GuardFairness, []FreedAgain,
             []Returns("display"), []Settles
      PROVE  Covered(g)
  <2>1. g \in Gpu
    BY GpuAssumption DEF Offload
  <2>2. []MonitorFacts /\ [][Next]_vars /\ GuardFairness /\ FreedAgain /\ []Returns("display") => ProbesAgain(g)
    BY <2>1, MonitorProbes
  <2>3. ASSUME NEW k \in Nat, SettlesAt(k) PROVE Covered(g)
    <3>1. []MonitorFacts /\ [][Next]_vars /\ GuardFairness /\ FreedAgain /\ []Returns("display") /\ ProbesAgain(g)
            /\ SettlesAt(k) => Covered(g)
      BY <1>1, CoversUp
    <3>2. QED
      BY <1>1, <2>2, <2>3, <3>1, PTL
  <2>4. Settles => Covered(g)
    BY <2>3 DEF Settles
  <2>5. QED
    BY <1>1, <2>4, PTL
<1>2. ASSUME NEW g \in Offload
      PROVE  Spec /\ GuardFairness /\ []SizesFormSets /\ []BoundsFormSet
               => ((phase = "serving" /\ reported \in {"integrated", "smart"} /\ nodes[g] = {"open"}) ~>
                    (\/ phase # "serving" \/ reported = "hybrid" \/ displays # {} \/ "blocked" \in nodes[g]
                     \/ ~Supported(Parsed(modeFile))))
  <2>1. ~Exposed(g) <=> (\/ phase # "serving" \/ reported = "hybrid" \/ displays # {} \/ "blocked" \in nodes[g]
                         \/ ~Supported(Parsed(modeFile)))
    BY DEF Exposed
  <2>2. Spec /\ GuardFairness /\ []SizesFormSets /\ []BoundsFormSet => MonitorGoals
    BY MonitorMeetsGoals
  <2>3. CASE SystemType = "Laptop"
    <3>1. []MonitorFacts /\ [][Next]_vars /\ []GuardFairness /\ []FreedAgain /\ []Returns("display") /\ []Settles
            => Covered(g)
      BY <1>1, <2>3
    <3>2. QED
      BY <2>1, <2>2, <3>1, MonitorFactsHold, PTL DEF Spec, GuardFairness, MonitorGoals, FreedAgain, Covered
  <2>4. CASE SystemType # "Laptop"
    <3>1. MonitorFacts => ~(phase = "serving" /\ reported \in {"integrated", "smart"} /\ nodes[g] = {"open"})
      BY <2>4 DEF MonitorFacts, IInv, ReportedIsOffered, AvailableModes
    <3>2. QED
      BY <3>1, MonitorFactsHold, PTL
  <2>5. QED
    BY <2>3, <2>4
<1>3. QED
  BY <1>2 DEF OffloadEventuallyHidden

(***************************************************************************)
(* Calls for Manual mode                                                    *)
(***************************************************************************)

BlkAt(g, pc) == blk[g].pc = pc

(* Only SaveBlock begins to write gpu_state.json. *)
LEMMA BecomesWriter ==
  ASSUME TypeOK, NEW g \in Gpu, [Next]_vars, BlkAt(g, "saving")'
  PROVE  BlkAt(g, "saving") \/ SaveBlock(g)
<1> USE DEF BlkAt
<1>1. CASE UNCHANGED blk
  BY <1>1
<1>2. CASE Crash \/ Exit
  BY <1>2 DEF Crash, Exit, Vanish, BlkIdle
<1>3. ASSUME NEW h \in Gpu, NEW block \in BOOLEAN, SetBlock(h, block) PROVE BlkAt(g, "saving")
  <2>1. blk' = [blk EXCEPT ![h] = [BlkIdle EXCEPT !.pc = IF block THEN "probe" ELSE "sync", !.block = block]]
    BY <1>3 DEF SetBlock
  <2>2. [BlkIdle EXCEPT !.pc = IF block THEN "probe" ELSE "sync", !.block = block].pc # "saving"
    BY DEF BlkIdle
  <2>3. h # g
    BY <2>1, <2>2 DEF TypeOK
  <2>4. QED
    BY <2>1, <2>3 DEF TypeOK
<1>4. ASSUME NEW h \in Gpu, BlockCall(h) PROVE BlkAt(g, "saving") \/ SaveBlock(g)
  <2>1. CASE h # g
    BY <1>4, <2>1 DEF TypeOK, BlockCall, ProbeBlock, SyncBlock, SaveBlock, FinishSaveBlock
  <2>2. CASE ProbeBlock(g) \/ SyncBlock(g)
    <3>1. \/ blk' = [blk EXCEPT ![g] = BlkIdle]
          \/ blk' = [blk EXCEPT ![g].pc = "sync"]
          \/ blk' = [blk EXCEPT ![g].pc = "save"]
      BY <2>2 DEF ProbeBlock, SyncBlock
    <3>2. QED
      BY <3>1 DEF TypeOK, BlkState, BlkIdle
  <2>3. CASE FinishSaveBlock(g)
    BY <2>3 DEF FinishSaveBlock, BlkAt
  <2>4. QED
    BY <1>4, <2>1, <2>2, <2>3 DEF BlockCall
<1>5. CASE \/ \E c \in Clients, m \in Mode : ClientSetsMode(c, m)
           \/ \E onBattery \in BOOLEAN : BatteryChanged(onBattery)
           \/ \E kind \in {"started", "stopped"} : RunPowerd(kind)
           \/ \E h \in Gpu : MonProbe(h)
           \/ \E h \in Available : Plug(h)
           \/ Boot \/ Monitor \/ Rest \/ UNCHANGED vars
  <2>1. UNCHANGED blk
    BY <1>5 DEF ClientSetsMode, BatteryChanged, RunPowerd, MonProbe, Plug, Boot, Monitor, MonMode, MonDecide,
       MonRestore, MonUnblock, Rest, vars
  <2>2. QED
    BY <1>1, <2>1
<1>6. CASE \E c \in Caller : Transition(c)
  <2>1. UNCHANGED blk
    BY <1>6 DEF Transition, BeginTransition, ApplyGpu, WriteModeMap, Commit, FinishSave, Notify
  <2>2. QED
    BY <1>1, <2>1
<1>7. QED
  BY <1>2, <1>3, <1>4, <1>5, <1>6 DEF Next

(* gpu_state.json has one writer at a time (the gpu_state lock of set_block). *)
OneWriter == \A g, h \in Gpu : BlkAt(g, "saving") /\ BlkAt(h, "saving") => g = h

THEOREM OneWriterHolds == Spec => []OneWriter
<1>1. Init => OneWriter
  BY DEF Init, OneWriter, BlkAt, BlkIdle
<1>2. TypeOK /\ OneWriter /\ [Next]_vars => OneWriter'
  <2> SUFFICES ASSUME TypeOK, OneWriter, [Next]_vars, NEW g \in Gpu, NEW h \in Gpu,
                      BlkAt(g, "saving")', BlkAt(h, "saving")'
               PROVE  g = h
    BY DEF OneWriter
  <2>1. (BlkAt(g, "saving") \/ SaveBlock(g)) /\ (BlkAt(h, "saving") \/ SaveBlock(h))
    BY BecomesWriter
  <2>2. ASSUME NEW a \in Gpu, NEW b \in Gpu, SaveBlock(a), BlkAt(b, "saving")', a # b PROVE FALSE
    BY <2>2 DEF TypeOK, SaveBlock, GpuStateFree, GpuStateUnwritten, BlkAt
  <2>3. QED
    BY <2>1, <2>2 DEF OneWriter
<1>3. QED
  BY <1>1, <1>2, TypeCorrect, PTL DEF Spec

LEMMA WritingStep ==
  ASSUME TypeOK, OneWriter, NEW g \in Gpu, BlkAt(g, "saving"), [Next]_vars
  PROVE  (~BlockCall(g) /\ BlkAt(g, "saving")') \/ GpuStateUnwritten'
<1> SUFFICES ASSUME ~GpuStateUnwritten' PROVE ~BlockCall(g) /\ BlkAt(g, "saving")'
  OBVIOUS
<1>1. PICK h \in Gpu : BlkAt(h, "saving")'
  BY DEF GpuStateUnwritten, BlkAt
<1>2. ~SaveBlock(h)
  BY DEF SaveBlock, GpuStateFree, GpuStateUnwritten, BlkAt
<1>3. h = g
  BY <1>1, <1>2, BecomesWriter DEF OneWriter
<1>4. ~BlockCall(g)
  BY <1>1, <1>3 DEF TypeOK, BlockCall, ProbeBlock, SyncBlock, SaveBlock, FinishSaveBlock, BlkAt, BlkIdle
<1>5. QED
  BY <1>1, <1>3, <1>4

(* A write of gpu_state.json ends a call that a request began. *)
LEMMA WriteIsSpent ==
  ASSUME TypeOK, NEW g \in Gpu, SaveBlock(g), [Next]_vars
  PROVE  Budget' < Budget
<1>1. blk[g].pc = "save" /\ blk'[g].pc \in {"saving", "idle"}
  <2>1. \/ blk' = [blk EXCEPT ![g].pc = "saving", ![g].text = gpuSaved']
        \/ blk' = [blk EXCEPT ![g] = BlkIdle]
    BY DEF SaveBlock
  <2>2. blk[g].pc = "save"
    BY DEF SaveBlock
  <2>3. QED
    BY <2>1, <2>2 DEF TypeOK, BlkState, BlkIdle
<1>2. g \in Pending /\ g \notin Pending'
  BY <1>1 DEF Pending
<1>3. UNCHANGED left \/ Spend("fault")
  BY DEF SaveBlock
<1>4. CASE Spend("fault")
  BY <1>4, BudgetFalls
<1>5. CASE UNCHANGED left
  <2>1. Pending \in SUBSET Gpu /\ Pending' \in SUBSET Gpu
    BY DEF Pending
  <2>2. Pending' \in SUBSET Pending
    BY <1>5, PendingMoves DEF TypeOK, Spend
  <2>3. IsFiniteSet(Pending) /\ Cardinality(Pending) \in Nat /\ Cardinality(Pending') \in Nat
    BY <2>1, GpusFinite
  <2>4. Cardinality(Pending') < Cardinality(Pending)
    BY <1>2, <2>2, <2>3, FS_Subset
  <2>5. QED
    BY <1>5, <2>3, <2>4 DEF TypeOK, Budget
<1>6. QED
  BY <1>3, <1>4, <1>5

Quiets == <>[]GpuStateUnwritten

LEMMA WritesEnd ==
  ASSUME NEW k \in Nat
  PROVE  []IInv /\ []OneWriter /\ [][Next]_vars /\ GuardFairness /\ SettlesAt(k) => Quiets
<1> SUFFICES ASSUME []IInv, []OneWriter, [][Next]_vars, []GuardFairness, []SettlesAt(k) PROVE <>[]GpuStateUnwritten
  BY PTL DEF GuardFairness, SettlesAt, Quiets
<1>0. IInv => TypeOK
  BY DEF IInv
<1>1. ASSUME NEW g \in Gpu PROVE BlkAt(g, "saving") => <>GpuStateUnwritten
  <2>1. TypeOK /\ OneWriter /\ BlkAt(g, "saving") /\ [Next]_vars => BlkAt(g, "saving")' \/ GpuStateUnwritten'
    BY WritingStep
  <2>2. <<BlockCall(g)>>_vars => BlockCall(g) /\ [Next]_vars
    BY DEF Next
  <2>3. TypeOK /\ OneWriter /\ BlkAt(g, "saving") /\ <<BlockCall(g)>>_vars => GpuStateUnwritten'
    BY <2>2, WritingStep
  <2>4. BlkAt(g, "saving") => CanBlock(g)
    BY DEF BlkAt, CanBlock
  <2>5. BlockFairness => BlocksOn(g)
    BY DEF BlockFairness
  <2>6. QED
    BY <1>0, <2>1, <2>3, <2>4, <2>5, PTL DEF GuardFairness, BlocksOn
<1>2. GpuStateUnwritten \/ \E g \in Gpu : BlkAt(g, "saving")
  BY DEF GpuStateUnwritten, BlkAt
<1>3. GpuStateUnwritten => <>GpuStateUnwritten
  BY PTL
<1>4. <>GpuStateUnwritten
  BY <1>1, <1>2, <1>3
<1>5. TypeOK /\ Exactly(k) /\ Exactly(k)' /\ GpuStateUnwritten /\ [Next]_vars => GpuStateUnwritten'
  <2> SUFFICES ASSUME TypeOK, Exactly(k), Exactly(k)', GpuStateUnwritten, [Next]_vars, NEW g \in Gpu,
                      BlkAt(g, "saving")'
               PROVE  FALSE
    BY DEF GpuStateUnwritten, BlkAt
  <2>1. SaveBlock(g)
    BY BecomesWriter DEF GpuStateUnwritten, BlkAt
  <2>2. Budget' < Budget /\ Budget' = Budget /\ Budget \in Nat
    BY <2>1, WriteIsSpent, BudgetIsNat DEF Exactly
  <2>3. QED
    BY <2>2
<1>6. QED
  BY <1>0, <1>4, <1>5, PTL DEF SettlesAt

(* A call of whatever mode that waits, once the daemon serves. *)
Queues(c) == At(c, "waiting") /\ Booting(FALSE)

LEMMA QueueStep ==
  ASSUME TypeOK, LockDiscipline, NEW c \in Caller, Queues(c), [Next]_vars
  PROVE  (~BeginTransition(c) /\ Queues(c)') \/ Holds(c, FALSE)' \/ Done(c)'
<1>1. task[c].pc = "waiting" /\ phase # "boot"
  BY DEF Queues, At, Booting
<1>2. CASE BeginTransition(c)
  <2>1. CASE Return(c, FALSE)
    BY <1>1, <2>1, AfterReturn
  <2>2. CASE task' = [task EXCEPT ![c].pc   = "applying",
                                  ![c].todo = Touched(task[c].mode),
                                  ![c].hide = Hidden(task[c].mode, gpuSaved, AutoApply)] /\ UNCHANGED phase
    <3>1. task'[c].pc = "applying"
      BY <2>2 DEF TypeOK, TaskState
    <3>2. QED
      BY <1>1, <2>2, <3>1 DEF Holds, Inside, InTransition, Booting
  <2>3. QED
    BY <1>2, <2>1, <2>2 DEF BeginTransition
<1>3. CASE ~BeginTransition(c)
  <2>1. ~Transition(c)
    BY <1>1, <1>3 DEF Transition, ApplyGpu, WriteModeMap, Commit, FinishSave, Notify
  <2>2. (task'[c] = task[c] /\ phase' = phase) \/ Done(c)'
    BY <1>1, <2>1, CallMoves DEF Done
  <2>3. QED
    BY <1>3, <2>2 DEF Queues, At, Booting
<1>4. QED
  BY <1>2, <1>3

Answers(c) == ~Done(c) ~> Done(c)

LEMMA EveryCallReturns ==
  ASSUME NEW c \in Caller
  PROVE  []IInv /\ [][Next]_vars /\ GuardFairness /\ FreedAgain /\ Quiets /\ Leaves(c) /\ []Returns(c) => Answers(c)
<1> SUFFICES ASSUME []IInv, [][Next]_vars, []GuardFairness, []FreedAgain, []Quiets, []Leaves(c), []Returns(c)
             PROVE  ~Done(c) ~> Done(c)
  BY PTL DEF GuardFairness, FreedAgain, Quiets, Leaves, Answers
<1>1. IInv /\ Queues(c) /\ [Next]_vars => Queues(c)' \/ Holds(c, FALSE)' \/ Done(c)'
  BY QueueStep DEF IInv
<1>2. IInv /\ Queues(c) /\ <<BeginTransition(c)>>_vars => Holds(c, FALSE)' \/ Done(c)'
  BY QueueStep, StepFacts DEF IInv
<1>3. IInv /\ Holds(c, FALSE) /\ [Next]_vars => Holds(c, FALSE)' \/ Done(c)'
  BY HoldingStep DEF IInv
<1>4. Queues(c) /\ TransitionFree /\ GpuStateUnwritten => CanBegin(c)
  BY DEF Queues, At, CanBegin
<1>5. CallFairness => BeginsOn(c)
  BY CallIsFair
<1>6. Holds(c, FALSE) => Inside(c)
  BY DEF Holds
<1>7. Outside(c) => ~Inside(c)
  BY DEF Outside, Inside
<1>8. IInv /\ ~Done(c) => Queues(c) \/ Holds(c, FALSE) \/ Easy(c)
  BY DEF IInv, TypeOK, TaskState, Done, Queues, Holds, At, Inside, InTransition, Booting, Easy
<1>9. QED
  BY <1>1, <1>2, <1>3, <1>4, <1>5, <1>6, <1>7, <1>8, PTL
     DEF GuardFairness, FreedAgain, Quiets, Leaves, Returns, BeginsOn

(* Every mode request is answered on every system: a call for Manual mode,     *)
(* which also needs gpu_state.json at rest, gets in between the calls on       *)
(* single GPUs, that are finitely many (internal_set_mode, set_block).         *)
THEOREM EveryRequestReturns ==
  Spec /\ GuardFairness /\ []SizesFormSets /\ []BoundsFormSet => RequestsReturn
<1>1. ASSUME NEW c \in Caller
      PROVE  Spec /\ GuardFairness /\ []SizesFormSets /\ []BoundsFormSet
               => (task[c].pc # "idle" ~> task[c].pc = "idle")
  <2>1. EasyRequestsReturn => Returns(c)
    BY DEF EasyRequestsReturn
  <2> SUFFICES ASSUME []IInv, []OneWriter, [][Next]_vars, []GuardFairness, []SizesFormSets, []MonitorGoals, []Returns(c)
               PROVE  task[c].pc # "idle" ~> task[c].pc = "idle"
    BY <2>1, InvariantHolds, OneWriterHolds, EasyReturn, MonitorMeetsGoals, PTL
       DEF Spec, GuardFairness, Returns, MonitorGoals, FreedAgain
  <2>2. []IInv /\ [][Next]_vars /\ GuardFairness /\ []SizesFormSets => LoopEnds(c)
    BY AnyLoopEnds
  <2>3. []IInv /\ [][Next]_vars /\ GuardFairness /\ LoopEnds(c) => Leaves(c)
    BY HolderLeaves
  <2>4. ASSUME NEW k \in Nat, SettlesAt(k) PROVE Quiets
    <3>1. []IInv /\ []OneWriter /\ [][Next]_vars /\ GuardFairness /\ SettlesAt(k) => Quiets
      BY WritesEnd
    <3>2. QED
      BY <2>4, <3>1, PTL
  <2>5. Settles => Quiets
    BY <2>4 DEF Settles
  <2>6. []IInv /\ [][Next]_vars /\ GuardFairness /\ FreedAgain /\ Quiets /\ Leaves(c) /\ []Returns(c) => Answers(c)
    BY EveryCallReturns
  <2>7. QED
    BY <2>2, <2>3, <2>5, <2>6, PTL DEF MonitorGoals, Answers, Done
<1>2. QED
  BY <1>1 DEF RequestsReturn
=============================================================================
