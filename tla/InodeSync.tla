----------------------------- MODULE InodeSync -----------------------------
(***************************************************************************)
(* The keys of CW_BLOCKED_INO and the GPU list they belong to.              *)
(*                                                                          *)
(* sync_inodes puts the inodes of one GPU into the map and remembers them   *)
(* in the GPU's pushed list; transitions and set_block call it.  When a     *)
(* driver is bound or unbound refresh_gpu reads the PCI devices again,      *)
(* replaces the list, applies the persisted mode to the new one and drops   *)
(* the keys of the old one that nobody has pushed since.  Every await is a  *)
(* step of its own, so devices, transitions, set_block calls and other      *)
(* refreshes come in between.                                               *)
(*                                                                          *)
(* Inodes: a device gets new ones whenever a driver binds to it (its card   *)
(* and render nodes; one key stands for them), the parent bridge keeps its  *)
(* own and is a key of every device behind it.                              *)
(***************************************************************************)
EXTENDS Naturals, FiniteSets

CONSTANTS
  Device,      \* display controllers by PCI address; 0 is the integrated GPU
  Bridged,     \* those behind one PCI bridge
  Nvidia,      \* those of vendor NVIDIA
  Bridge,      \* the key of that bridge
  Refresher,   \* callers of refresh_gpu: the udev monitor, D-Bus clients
  Monitor,     \* the udev monitor
  User,        \* the caller of set_mode, battery and display monitors included
  Nobody,
  NoGpu,       \* in place of a GPU's id
  MaxHotplugs, MaxRequests, MaxFaults

ASSUME SyncAssumption ==
  /\ Device \subseteq Nat /\ IsFiniteSet(Device) /\ 0 \in Device
  /\ Bridged \subseteq Device \ {0} /\ Nvidia \subseteq Device \ {0}
  /\ Monitor \in Refresher /\ User \notin Refresher /\ Nobody \notin Refresher \cup {User}
  /\ NoGpu \notin Nat
  /\ {MaxHotplugs, MaxRequests, MaxFaults} \subseteq Nat
  /\ Bridge \notin Device \X Nat

VARIABLES
  bus,      \* each device: gone from the bus, without a driver, or bound
  gen,      \* how often a driver has been bound to it
  events,   \* udev bind and unbind events not handled yet
  pci,      \* pci_list; with the generations of the devices it was read at
  list,     \* gpu_list: each device absent, unavailable or available
  pushed,   \* pushed_inodes of the listed GPUs
  map,      \* CW_BLOCKED_INO
  exp,      \* the GPU that the keys of CW_EXP_BLK_INO are for
  mode,     \* mode_state
  saved,    \* mode.json
  tx,       \* the transition that holds the lock
  user,     \* the set_mode call that waits for the lock
  ref,      \* each caller of refresh_gpu
  call,     \* a set_block call
  overlap,  \* history: two refreshes have run at the same time
  strays,   \* history: keys that a failure or a call beside a transition left in the map
  left      \* how much more may happen

vars == <<bus, gen, events, pci, list, pushed, map, exp, mode, saved, tx, user, ref, call,
          overlap, strays, left>>
worldVars == <<bus, gen, events>>
listVars  == <<pci, list>>
modeVars  == <<mode, saved>>

Generation == 0..(MaxHotplugs + 1)
Key        == (Device \X Generation) \cup {Bridge}
Status     == {"gone", "idle", "bound"}
Mode       == {"integrated", "hybrid", "manual", "smart"}
Id         == 0..(Cardinality(Device) - 1)
Entry      == [id : Id \cup {NoGpu}, blocked : BOOLEAN]
NoEntry    == [id |-> NoGpu, blocked |-> FALSE]

NoTx   == [by |-> Nobody, pc |-> "read", mode |-> "hybrid", save |-> FALSE,
           todo |-> {}, dev |-> 0, keys |-> {}]
NoRef  == [pc |-> "idle", snap |-> [d \in Device |-> "gone"], gen |-> [d \in Device |-> 0],
           mode |-> "hybrid", previous |-> {}, claimed |-> {}, target |-> NoGpu]
NoCall == [pc |-> "idle", dev |-> 0, id |-> 0, block |-> FALSE, keys |-> {}, beside |-> "nothing"]

Held(k)   == map[k].id # NoGpu
Listed    == {d \in Device : list[d] # "absent"}
Present   == {d \in Device : list[d] = "available"}
Pushed    == UNION {pushed[d] : d \in Device}

(* The id of a listed GPU: the default one is 0, the rest follow by address. *)
IdOf(d) == Cardinality({e \in Listed : e < d})

(* The modes and GPUs by id, for the list as it is; auto_apply_gpu_state off. *)
Policy == INSTANCE GpuPolicy WITH
            Gpu <- {IdOf(d) : d \in Listed}, Available <- {IdOf(d) : d \in Present},
            Discrete <- {IdOf(d) : d \in Listed \ {0}}

Touched(m) == {d \in Present : IdOf(d) \in Policy!Touched(m)}
Hides(m, d) == IdOf(d) \in Policy!Hidden(m, [g \in Id |-> FALSE], FALSE)

(* get_inodes: an interface finds the inodes its device has now. *)
KeysOf(d) == {<<d, gen[d]>>} \cup (IF d \in Bridged THEN {Bridge} ELSE {})

First(d, S) == \A e \in S : d <= e

(* sync_nvidia_inodes: the first listed NVIDIA GPU that is not the default. *)
NvidiaTarget ==
  IF \E d \in Listed \cap Nvidia : First(d, Listed \cap Nvidia)
  THEN IdOf(CHOOSE d \in Listed \cap Nvidia : First(d, Listed \cap Nvidia)) ELSE NoGpu

(* Map writes. *)
Enter(m, ks, id, blocked) ==
  [k \in Key |-> IF k \in ks THEN [id |-> id, blocked |-> blocked] ELSE m[k]]
Remove(m, ks) == [k \in Key |-> IF k \in ks THEN NoEntry ELSE m[k]]

Fault == left.fault > 0 /\ left' = [left EXCEPT !.fault = @ - 1]

-----------------------------------------------------------------------------
(* A shared key is as the last GPU that pushed it says. *)
PushedLast(d, k) == k \in pushed[d] /\ \A e \in Device : k \in pushed[e] => e <= d

(* The daemon starts on any hardware and applies a supported mode. *)
Init ==
  /\ bus \in [Device -> {"gone", "bound"}] /\ bus[0] = "bound"
  /\ gen = [d \in Device |-> IF bus[d] = "bound" THEN 1 ELSE 0]
  /\ events = 0
  /\ pci = [st |-> bus, gen |-> gen]
  /\ list = [d \in Device |-> IF bus[d] = "bound" THEN "available" ELSE "absent"]
  /\ mode \in {m \in Mode : Policy!Supported(m)}
  /\ saved = mode
  /\ pushed = [d \in Device |-> IF d \in Touched(mode) THEN KeysOf(d) ELSE {}]
  /\ map = [k \in Key |-> IF \E d \in Device : PushedLast(d, k)
                         THEN LET d == CHOOSE d \in Device : PushedLast(d, k)
                              IN  [id |-> IdOf(d), blocked |-> Hides(mode, d)]
                         ELSE NoEntry]
  /\ exp = NvidiaTarget
  /\ tx = NoTx
  /\ user = [pc |-> "idle", mode |-> "hybrid", save |-> FALSE]
  /\ ref = [r \in Refresher |-> NoRef]
  /\ call = NoCall
  /\ overlap = FALSE
  /\ strays = {}
  /\ left = [hotplug |-> MaxHotplugs, request |-> MaxRequests, fault |-> MaxFaults]

-----------------------------------------------------------------------------
(* Devices come and go; the integrated GPU stays.  udev reports add and      *)
(* remove as well, the monitor acts on bind and unbind only.                 *)
Hotplug(d, from, to) ==
  /\ d # 0 /\ bus[d] = from
  /\ left.hotplug > 0 /\ left' = [left EXCEPT !.hotplug = @ - 1]
  /\ bus' = [bus EXCEPT ![d] = to]
  /\ UNCHANGED <<listVars, pushed, map, exp, modeVars, tx, user, ref, call, overlap, strays>>

Add(d)    == Hotplug(d, "gone", "idle") /\ UNCHANGED <<gen, events>>
RemoveDevice(d) == Hotplug(d, "idle", "gone") /\ UNCHANGED <<gen, events>>
Bind(d)   == /\ Hotplug(d, "idle", "bound")
             /\ gen' = [gen EXCEPT ![d] = @ + 1] /\ events' = events + 1
Unbind(d) == Hotplug(d, "bound", "idle") /\ events' = events + 1 /\ UNCHANGED gen

-----------------------------------------------------------------------------
(* refresh_gpu.  The monitor calls it for one event after the other.  It     *)
(* reads the devices before it takes the lock of pci_list.                   *)
Snapshot(r) ==
  /\ ref[r].pc = "idle"
  /\ \/ /\ ref' = [ref EXCEPT ![r].pc = "compare", ![r].snap = bus, ![r].gen = gen]
        /\ left' = IF r = Monitor THEN left ELSE [left EXCEPT !.request = @ - 1]
     \/ Fault /\ UNCHANGED ref
  /\ IF r = Monitor THEN events > 0 /\ events' = events - 1
                    ELSE left.request > 0 /\ UNCHANGED events
  /\ overlap' = (overlap \/ \E q \in Refresher \ {r} : ref[q].pc # "idle")
  /\ UNCHANGED <<bus, gen, listVars, pushed, map, exp, modeVars, tx, user, call, strays>>

(* Nothing to do if the list is the one that is there; the driver's name is  *)
(* part of it, the inodes are not.                                           *)
Compare(r) ==
  /\ ref[r].pc = "compare"
  /\ IF ref[r].snap = pci.st
     THEN ref' = [ref EXCEPT ![r] = NoRef] /\ UNCHANGED pci
     ELSE /\ ref' = [ref EXCEPT ![r].pc = "replace"]
          /\ pci' = [st |-> ref[r].snap, gen |-> ref[r].gen]
  /\ UNCHANGED <<worldVars, list, pushed, map, exp, modeVars, tx, user, call, overlap, strays,
                 left>>

(* Under the lock of gpu_list, which a transition reads until CW_MODE is     *)
(* written: the devices of the snapshot, available if they have DRM      *)
(* nodes now.  An object that cannot be served ends the refresh.             *)
Replace(r) ==
  /\ ref[r].pc = "replace" /\ (tx.by = Nobody \/ tx.pc = "commit")
  /\ list' = [d \in Device |-> IF ref[r].snap[d] = "gone" THEN "absent"
                               ELSE IF bus[d] = "bound" THEN "available" ELSE "unavailable"]
  /\ pushed' = [d \in Device |-> {}]
  /\ call' = IF call.pc = "idle" THEN call ELSE [call EXCEPT !.beside = "refresh"]
  /\ \/ /\ ref' = [ref EXCEPT ![r] = [NoRef EXCEPT !.pc = "mode", !.previous = Pushed]]
        /\ UNCHANGED <<strays, left>>
     \/ /\ Fault /\ strays' = strays \cup Pushed
        /\ ref' = [ref EXCEPT ![r] = NoRef]
  /\ UNCHANGED <<worldVars, pci, map, exp, modeVars, tx, user, overlap>>

(* The persisted mode, read before the wait for the transition lock; Hybrid  *)
(* if it cannot be read.                                                     *)
ReadMode(r) ==
  /\ ref[r].pc = "mode"
  /\ \/ ref' = [ref EXCEPT ![r].pc = "apply", ![r].mode = saved] /\ UNCHANGED left
     \/ ref' = [ref EXCEPT ![r].pc = "apply", ![r].mode = "hybrid"] /\ Fault
  /\ UNCHANGED <<worldVars, listVars, pushed, map, exp, modeVars, tx, user, call, overlap, strays>>

(* drop_unclaimed_inodes: first what the present list has pushed, ... *)
Collect(r) ==
  /\ ref[r].pc = "collect"
  /\ ref' = [ref EXCEPT ![r].pc = "drop", ![r].claimed = Pushed]
  /\ UNCHANGED <<worldVars, listVars, pushed, map, exp, modeVars, tx, user, call, overlap,
                 strays, left>>

(* ... then, under the blocker's lock, the others go.  A removal that fails  *)
(* is only logged.                                                           *)
Drop_All(r) ==
  /\ ref[r].pc = "drop"
  /\ map' = Remove(map, ref[r].previous)
  /\ ref' = [ref EXCEPT ![r].pc = "target", ![r].previous = {}, ![r].claimed = {}]
  /\ UNCHANGED <<worldVars, listVars, pushed, exp, modeVars, tx, user, call, overlap, strays, left>>

Drop(r) ==
  /\ ref[r].pc = "drop"
  /\ LET stale == ref[r].previous \ ref[r].claimed
     IN  \/ map' = Remove(map, stale) /\ UNCHANGED <<strays, left>>
         \/ \E k \in stale : Fault /\ map' = Remove(map, stale \ {k}) /\ strays' = strays \cup {k}
  /\ ref' = [ref EXCEPT ![r].pc = "target", ![r].previous = {}, ![r].claimed = {}]
  /\ UNCHANGED <<worldVars, listVars, pushed, exp, modeVars, tx, user, call, overlap>>

(* sync_nvidia_inodes: the target from the list, then the map; a failure is  *)
(* only logged.                                                              *)
ReadTarget(r) ==
  /\ ref[r].pc = "target"
  /\ ref' = [ref EXCEPT ![r].pc = "nvidia", ![r].target = NvidiaTarget]
  /\ UNCHANGED <<worldVars, listVars, pushed, map, exp, modeVars, tx, user, call, overlap,
                 strays, left>>

SyncNvidia_NoneIgnored(r) ==
  /\ ref[r].pc = "nvidia"
  /\ exp' = IF ref[r].target = NoGpu THEN exp ELSE ref[r].target
  /\ ref' = [ref EXCEPT ![r] = NoRef]
  /\ UNCHANGED <<worldVars, listVars, pushed, map, modeVars, tx, user, call, overlap, strays, left>>

SyncNvidia(r) ==
  /\ ref[r].pc = "nvidia"
  /\ \/ exp' = ref[r].target /\ UNCHANGED left
     \/ Fault /\ UNCHANGED exp
  /\ ref' = [ref EXCEPT ![r] = NoRef]
  /\ UNCHANGED <<worldVars, listVars, pushed, map, modeVars, tx, user, call, overlap, strays>>

-----------------------------------------------------------------------------
(* set_mode of a client (saved) or of a monitor (not saved). *)
Ask(m, save) ==
  /\ user.pc = "idle" /\ left.request > 0
  /\ user' = [pc |-> "wait", mode |-> m, save |-> save]
  /\ left' = [left EXCEPT !.request = @ - 1]
  /\ UNCHANGED <<worldVars, listVars, pushed, map, exp, modeVars, tx, ref, call, overlap, strays>>

(* internal_set_mode takes the transition lock and reads the list; the mode  *)
(* of a refresh is the persisted one, then Hybrid if that fails.             *)
Begin(c, m, save) ==
  /\ tx.by = Nobody
  /\ tx' = [NoTx EXCEPT !.by = c, !.mode = m, !.save = save, !.todo = Touched(m)]
  /\ call' = IF call.pc = "idle" \/ call.beside = "refresh" THEN call
             ELSE [call EXCEPT !.beside = "transition"]
  /\ UNCHANGED <<worldVars, listVars, pushed, map, exp, modeVars, user, ref, overlap, strays,
                 left>>

BeginRefresh_ListHeld(r) ==
  /\ ref[r].pc \in {"apply", "fallback"} /\ \A q \in Refresher : ref[q].pc # "apply"
  /\ Begin(r, "hybrid", FALSE)

BeginUser == user.pc = "wait" /\ Begin(User, user.mode, user.save)
BeginRefresh(r) == /\ ref[r].pc \in {"apply", "fallback"}
                   /\ Begin(r, IF ref[r].pc = "apply" THEN ref[r].mode ELSE "hybrid", FALSE)

(* How the caller goes on: a refresh tries Hybrid once. *)
Return_NoFallback(ok) ==
  /\ tx' = NoTx
  /\ IF tx.by = User
     THEN user' = [user EXCEPT !.pc = "idle", !.mode = "hybrid", !.save = FALSE] /\ UNCHANGED ref
     ELSE ref' = [ref EXCEPT ![tx.by].pc = "collect", ![tx.by].mode = "hybrid"] /\ UNCHANGED user

Return(ok) ==
  /\ tx' = NoTx
  /\ IF tx.by = User
     THEN user' = [user EXCEPT !.pc = "idle", !.mode = "hybrid", !.save = FALSE] /\ UNCHANGED ref
     ELSE /\ ref' = [ref EXCEPT ![tx.by].pc = IF ~ok /\ @ = "apply" THEN "fallback" ELSE "collect",
                                  ![tx.by].mode = "hybrid"]
          /\ UNCHANGED user

(* NotSupported, before anything is written. *)
Refuse ==
  /\ tx.by # Nobody /\ tx.pc = "read" /\ ~Policy!Supported(tx.mode)
  /\ Return(FALSE)
  /\ UNCHANGED <<worldVars, listVars, pushed, map, exp, modeVars, call, overlap, strays, left>>

(* current_inodes of the next GPU; there are none when its driver is gone.   *)
TxRead ==
  /\ tx.by # Nobody /\ tx.pc = "read" /\ Policy!Supported(tx.mode)
  /\ \E d \in tx.todo :
       /\ First(d, tx.todo)
       /\ IF bus[d] = "bound"
          THEN /\ tx' = [tx EXCEPT !.pc = "write", !.dev = d, !.keys = KeysOf(d)]
               /\ UNCHANGED <<user, ref>>
          ELSE Return(FALSE)
  /\ UNCHANGED <<worldVars, listVars, pushed, map, exp, modeVars, call, overlap, strays, left>>

(* sync_inodes under the blocker's lock: old is what the GPU pushed before.  *)
(* Stale keys go, the new ones are recorded, then entered; a failing map     *)
(* write stops it.  The bridge comes after the card and before the files in  *)
(* sysfs, which are one key here, so either may be left without the other.   *)
Cut(ks) == (SUBSET ks) \ {ks}

Outcomes_RecordLast(old, keys, id, blocked) ==
  LET kept == Remove(map, old \ keys)
  IN  {[ok |-> TRUE, map |-> Enter(kept, keys, id, blocked), own |-> keys]}
      \cup {[ok |-> FALSE, map |-> Enter(kept, s, id, blocked), own |-> old] : s \in Cut(keys)}

Outcomes(old, keys, id, blocked) ==
  LET stale == old \ keys
      kept  == Remove(map, stale)
  IN  {[ok |-> TRUE, map |-> Enter(kept, keys, id, blocked), own |-> keys]}
      \cup {[ok |-> FALSE, map |-> Remove(map, s), own |-> old] : s \in Cut(stale)}
      \cup {[ok |-> FALSE, map |-> Enter(kept, s, id, blocked), own |-> keys] : s \in Cut(keys)}

TxWrite ==
  /\ tx.by # Nobody /\ tx.pc = "write"
  /\ \E o \in Outcomes(pushed[tx.dev], tx.keys, IdOf(tx.dev), Hides(tx.mode, tx.dev)) :
       /\ map' = o.map
       /\ pushed' = [pushed EXCEPT ![tx.dev] = o.own]
       /\ IF o.ok
          THEN /\ tx' = [tx EXCEPT !.pc = "read", !.todo = @ \ {tx.dev}, !.dev = 0, !.keys = {}]
               /\ strays' = strays \ tx.keys
               /\ UNCHANGED <<user, ref, left>>
          ELSE Fault /\ Return(FALSE) /\ UNCHANGED strays
  /\ UNCHANGED <<worldVars, listVars, exp, modeVars, call, overlap>>

(* After the last GPU CW_MODE is written and the list is let go, ...        *)
WriteMode ==
  /\ tx.by # Nobody /\ tx.pc = "read" /\ tx.todo = {} /\ Policy!Supported(tx.mode)
  /\ \/ tx' = [tx EXCEPT !.pc = "commit"] /\ UNCHANGED <<user, ref, left>>
     \/ Fault /\ Return(FALSE)
  /\ UNCHANGED <<worldVars, listVars, pushed, map, exp, modeVars, call, overlap, strays>>

(* ... then the mode is committed; mode.json may fail to be written.         *)
Commit ==
  /\ tx.by # Nobody /\ tx.pc = "commit"
  /\ mode' = tx.mode
  /\ \/ saved' = (IF tx.save THEN tx.mode ELSE saved) /\ UNCHANGED left
     \/ tx.save /\ Fault /\ UNCHANGED saved
  /\ Return(TRUE)
  /\ UNCHANGED <<worldVars, listVars, pushed, map, exp, call, overlap, strays>>

-----------------------------------------------------------------------------
(* set_block checks the mode and the GPU, then lets both locks go.  Its      *)
(* interface outlives the list that a refresh replaces.                      *)
SetBlock(d, block) ==
  /\ call.pc = "idle" /\ left.request > 0
  /\ mode = "manual" /\ d \in Present /\ (block => d # 0)
  /\ call' = [pc |-> "read", dev |-> d, id |-> IdOf(d), block |-> block, keys |-> {},
              beside |-> IF tx.by = Nobody THEN "nothing" ELSE "transition"]
  /\ left' = [left EXCEPT !.request = @ - 1]
  /\ UNCHANGED <<worldVars, listVars, pushed, map, exp, modeVars, tx, user, ref, overlap, strays>>

CallRead ==
  /\ call.pc = "read"
  /\ call' = IF bus[call.dev] = "bound"
             THEN [call EXCEPT !.pc = "write", !.keys = KeysOf(call.dev)] ELSE NoCall
  /\ UNCHANGED <<worldVars, listVars, pushed, map, exp, modeVars, tx, user, ref, overlap,
                 strays, left>>

CallWrite ==
  /\ call.pc = "write"
  /\ LET d       == call.dev
         retired == call.beside = "refresh"
     IN  \E o \in Outcomes(IF retired THEN {} ELSE pushed[d], call.keys, call.id, call.block) :
           /\ map' = o.map
           /\ pushed' = IF retired THEN pushed ELSE [pushed EXCEPT ![d] = o.own]
           /\ IF o.ok THEN UNCHANGED left ELSE Fault
  /\ strays' = IF call.beside = "nothing" THEN strays ELSE strays \cup call.keys
  /\ call' = NoCall
  /\ UNCHANGED <<worldVars, listVars, exp, modeVars, tx, user, ref, overlap>>

-----------------------------------------------------------------------------
(* What the daemon does by itself, and what the rest of the world does. *)
RefreshStep(r) == \/ Compare(r) \/ Replace(r) \/ ReadMode(r) \/ BeginRefresh(r) \/ Collect(r)
                  \/ Drop(r) \/ ReadTarget(r) \/ SyncNvidia(r)
TxStep   == BeginUser \/ Refuse \/ TxRead \/ TxWrite \/ WriteMode \/ Commit
CallStep == CallRead \/ CallWrite

Daemon == Snapshot(Monitor) \/ TxStep \/ CallStep \/ \E r \in Refresher : RefreshStep(r)

World ==
  \/ \E d \in Device : Add(d) \/ RemoveDevice(d) \/ Bind(d) \/ Unbind(d)
  \/ \E r \in Refresher \ {Monitor} : Snapshot(r)
  \/ \E m \in Mode, save \in BOOLEAN : Ask(m, save)
  \/ \E d \in Device, block \in BOOLEAN : SetBlock(d, block)

Next == Daemon \/ World
Spec == Init /\ [][Next]_vars

-----------------------------------------------------------------------------
RefState  == [pc : {"idle", "compare", "replace", "mode", "apply", "fallback", "collect", "drop",
                    "target", "nvidia"},
              snap : [Device -> Status], gen : [Device -> Nat], mode : Mode,
              previous : SUBSET Key, claimed : SUBSET Key, target : Id \cup {NoGpu}]
TxState   == [by : Refresher \cup {User, Nobody}, pc : {"read", "write", "commit"}, mode : Mode,
              save : BOOLEAN, todo : SUBSET Device, dev : Device, keys : SUBSET Key]
CallState == [pc : {"idle", "read", "write"}, dev : Device, id : Id, block : BOOLEAN,
              keys : SUBSET Key, beside : {"nothing", "transition", "refresh"}]
UserState == [pc : {"idle", "wait"}, mode : Mode, save : BOOLEAN]
LeftState == [hotplug : Nat, request : Nat, fault : Nat]

(* Every variable holds a value of its type. *)
TypeOK ==
  /\ bus \in [Device -> Status] /\ gen \in [Device -> Generation] /\ events \in Nat
  /\ pci \in [st : [Device -> Status], gen : [Device -> Nat]]
  /\ list \in [Device -> {"absent", "unavailable", "available"}]
  /\ pushed \in [Device -> SUBSET Key] /\ map \in [Key -> Entry] /\ exp \in Id \cup {NoGpu}
  /\ mode \in Mode /\ saved \in Mode
  /\ tx \in TxState /\ user \in UserState /\ ref \in [Refresher -> RefState] /\ call \in CallState
  /\ overlap \in BOOLEAN /\ strays \subseteq Key /\ left \in LeftState

(* A refresh still has k to drop, or to look whether it is claimed. *)
WillJudge(r, k) == k \in ref[r].previous /\ ~(ref[r].pc = "drop" /\ k \in ref[r].claimed)

(* No key is forgotten: one that is in the map is in the pushed list of a    *)
(* listed GPU or will be judged by a refresh, unless a failed removal, an    *)
(* aborted refresh or a set_block call on a retired interface left it there  *)
(* (sync_inodes records before it enters, take_pushed_inodes).               *)
KeysOwned ==
  \A k \in Key : Held(k) => k \in Pushed \cup strays \/ \E r \in Refresher : WillJudge(r, k)

(* What makes that inductive: a refresh that has nothing to drop yet or any  *)
(* more holds no old keys; and generations stay within their bound.          *)
NothingHeld ==
  \A r \in Refresher :
    ref[r].pc \in {"idle", "compare", "replace", "target", "nvidia"} => ref[r].previous = {}
BindsBounded == \A d \in Device : gen[d] + left.hotplug <= MaxHotplugs + 1

SyncInv == TypeOK /\ BindsBounded /\ NothingHeld /\ KeysOwned

(* Nothing is going on, nothing has failed, refreshes have not overlapped.   *)
(* Noticed: no driver was bound after the snapshot of the list and unbound   *)
(* again, or the other way round, before the next one: a refresh cannot see  *)
(* that.                                                                     *)
Quiet   == /\ events = 0 /\ tx.by = Nobody /\ user.pc = "idle" /\ call.pc = "idle"
           /\ \A r \in Refresher : ref[r].pc = "idle"
Settled == Quiet /\ left.fault = MaxFaults /\ ~overlap
Noticed == pci.gen = gen

(* Once hotplug events are handled the available GPUs are the bound ones and *)
(* the reported mode is one they support (refresh_gpu and its fallback).     *)
ModeFitsBus ==
  Settled /\ Noticed => Present = {d \in Device : bus[d] = "bound"} /\ Policy!Supported(mode)

(* Then also the present inodes of every GPU but the default are in the map, *)
(* under the GPU's present id, blocked as the mode says (in Manual mode the  *)
(* user says), and the shared bridge of a GPU is there too: dropping the     *)
(* keys of the old list takes none that the new one needs.                   *)
MapFollowsHotplug ==
  Settled /\ Noticed =>
    \A d \in Present \ {0} :
      LET k == <<d, gen[d]>>
      IN  /\ k \notin strays =>
               map[k].id = IdOf(d) /\ (mode # "manual" => map[k].blocked = Hides(mode, d))
          /\ d \in Bridged => Held(Bridge)

(* And the experimental NVIDIA block is for the GPU that has that id now.    *)
NvidiaFollowsList == Settled => exp = NvidiaTarget

(* Nobody waits for ever: until nothing is going on the daemon can take a    *)
(* step (a refresh waits for the lock of gpu_list, callers of                *)
(* internal_set_mode for the transition lock, and every error path gives     *)
(* them back).                                                               *)
NoDeadlock == ENABLED Daemon \/ Quiet
=============================================================================
