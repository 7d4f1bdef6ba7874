-------------------------- MODULE InodeSyncProofs --------------------------
(* What TLAPS proves of InodeSync, for every set of devices and refreshers. *)
EXTENDS InodeSync, FiniteSetTheorems, TLAPS

(***************************************************************************)
(* Lemmas about keys, ids and the map                                       *)
(***************************************************************************)

(* Ids are counts of other GPUs, so they are smaller than the number of GPUs. *)
LEMMA IdTyped == ASSUME NEW d \in Device PROVE IdOf(d) \in Id
<1> DEFINE before == {e \in Listed : e < d}
<1>1. IsFiniteSet(Device) /\ Device \subseteq Nat
  BY SyncAssumption DEF SyncAssumption
<1>2. /\ IsFiniteSet(Device \ {d}) /\ Cardinality(Device \ {d}) = Cardinality(Device) - 1
  BY <1>1, FS_RemoveElement
<1>3. before \in SUBSET (Device \ {d})
  BY <1>1 DEF Listed
<1>4. Cardinality(before) <= Cardinality(Device) - 1 /\ IsFiniteSet(before)
  BY <1>2, <1>3, FS_Subset
<1>5. Cardinality(before) \in Nat /\ Cardinality(Device) \in Nat
  BY <1>1, <1>4, FS_CardinalityType
<1>6. QED
  BY <1>4, <1>5 DEF IdOf, Id

LEMMA IdFacts == NoGpu \notin Id /\ 0 \in Id /\ 0 \in Device
<1>1. IsFiniteSet(Device) /\ 0 \in Device /\ NoGpu \notin Nat
  BY SyncAssumption DEF SyncAssumption
<1>2. Cardinality(Device) \in Nat /\ Cardinality(Device) # 0
  BY <1>1, FS_CardinalityType, FS_EmptySet
<1>3. QED
  BY <1>1, <1>2 DEF Id

LEMMA TargetTyped == NvidiaTarget \in Id \cup {NoGpu}
<1>1. CASE \E d \in Listed \cap Nvidia : First(d, Listed \cap Nvidia)
  <2>1. PICK d \in Listed \cap Nvidia :
          d = CHOOSE e \in Listed \cap Nvidia : First(e, Listed \cap Nvidia)
    BY <1>1
  <2>2. d \in Device
    BY <2>1 DEF Listed
  <2>3. QED
    BY <1>1, <2>1, <2>2, IdTyped DEF NvidiaTarget
<1>2. CASE ~\E d \in Listed \cap Nvidia : First(d, Listed \cap Nvidia)
  BY <1>2 DEF NvidiaTarget
<1>3. QED
  BY <1>1, <1>2

LEMMA KeysTyped ==
  ASSUME TypeOK, NEW d \in Device
  PROVE  KeysOf(d) \in SUBSET Key
<1>1. gen[d] \in Generation
  BY DEF TypeOK
<1>2. QED
  BY <1>1 DEF KeysOf, Key

LEMMA EnterTyped ==
  ASSUME NEW m \in [Key -> Entry], NEW ks, NEW id \in Id, NEW b \in BOOLEAN
  PROVE  Enter(m, ks, id, b) \in [Key -> Entry]
BY DEF Enter, Entry

LEMMA RemoveTyped ==
  ASSUME NEW m \in [Key -> Entry], NEW ks
  PROVE  Remove(m, ks) \in [Key -> Entry]
BY DEF Remove, Entry, NoEntry

(* What a sync leaves behind: a key of the map is recorded, or it was there  *)
(* before and is none of the GPU's old keys.                                 *)
SyncResult(o, old, keys) ==
  /\ o.map \in [Key -> Entry] /\ o.own \in SUBSET Key
  /\ o.ok => o.own = keys
  /\ o.own \subseteq old \cup keys
  /\ \A k \in Key : o.map[k].id # NoGpu => k \in o.own \/ (Held(k) /\ k \notin old)

LEMMA OutcomeFacts ==
  ASSUME TypeOK, NEW old \in SUBSET Key, NEW keys \in SUBSET Key, NEW id \in Id,
         NEW b \in BOOLEAN, NEW o \in Outcomes(old, keys, id, b)
  PROVE  SyncResult(o, old, keys)
<1> DEFINE stale == old \ keys
           kept  == Remove(map, stale)
<1>1. map \in [Key -> Entry] /\ kept \in [Key -> Entry]
  BY RemoveTyped DEF TypeOK
<1>2. \A k \in Key : kept[k].id # NoGpu => Held(k) /\ k \notin stale
  BY DEF Remove, NoEntry, Held
<1> HIDE DEF kept
<1>3. CASE o = [ok |-> TRUE, map |-> Enter(kept, keys, id, b), own |-> keys]
  <2>1. o.map = Enter(kept, keys, id, b) /\ o.own = keys
    BY <1>3
  <2>2. \A k \in Key : o.map[k].id # NoGpu => k \in keys \/ kept[k].id # NoGpu
    BY <2>1 DEF Enter
  <2>3. o.map \in [Key -> Entry]
    BY <1>1, <2>1, EnterTyped
  <2>4. QED
    BY <1>2, <2>1, <2>2, <2>3 DEF SyncResult
<1>4. ASSUME NEW s \in Cut(stale), o = [ok |-> FALSE, map |-> Remove(map, s), own |-> old]
      PROVE  /\ o.map \in [Key -> Entry] /\ o.own = old /\ ~o.ok
             /\ \A k \in Key : o.map[k].id # NoGpu => Held(k)
  <2>1. o.map = Remove(map, s) /\ o.own = old /\ ~o.ok
    BY <1>4
  <2>2. \A k \in Key : o.map[k].id # NoGpu => Held(k)
    BY <2>1 DEF Remove, NoEntry, Held
  <2>3. QED
    BY <1>1, <2>1, <2>2, RemoveTyped
<1>5. ASSUME NEW s \in Cut(keys), o = [ok |-> FALSE, map |-> Enter(kept, s, id, b), own |-> keys]
      PROVE  /\ o.map \in [Key -> Entry] /\ o.own = keys
             /\ \A k \in Key : o.map[k].id # NoGpu => k \in keys \/ kept[k].id # NoGpu
  <2>1. o.map = Enter(kept, s, id, b) /\ o.own = keys /\ s \subseteq keys
    BY <1>5 DEF Cut
  <2>2. \A k \in Key : o.map[k].id # NoGpu => k \in keys \/ kept[k].id # NoGpu
    BY <2>1 DEF Enter
  <2>3. o.map \in [Key -> Entry]
    BY <1>1, <2>1, EnterTyped
  <2>4. QED
    BY <1>5, <2>1, <2>2, <2>3
<1>6. QED
  BY <1>2, <1>3, <1>4, <1>5 DEF Outcomes, kept, SyncResult

(* Records that the steps write. *)
LEMMA NoneTyped == NoRef \in RefState /\ NoTx \in TxState /\ NoCall \in CallState
<1>1. [d \in Device |-> "gone"] \in [Device -> Status] /\ [d \in Device |-> 0] \in [Device -> Nat]
  BY DEF Status
<1>2. NoRef \in RefState
  BY <1>1 DEF NoRef, RefState, Mode
<1>3. NoTx \in TxState
  BY IdFacts DEF NoTx, TxState, Mode
<1>4. NoCall \in CallState
  BY IdFacts DEF NoCall, CallState
<1>5. QED
  BY <1>2, <1>3, <1>4

LEMMA RefEdits ==
  ASSUME NEW r \in RefState, NEW m \in Mode, NEW ks \in SUBSET Key, NEW t \in Id \cup {NoGpu},
         NEW snap \in [Device -> Status], NEW g \in [Device -> Nat]
  PROVE  /\ [r EXCEPT !.pc = "compare", !.snap = snap, !.gen = g] \in RefState
         /\ [r EXCEPT !.pc = "replace"] \in RefState
         /\ [r EXCEPT !.pc = "apply", !.mode = m] \in RefState
         /\ [r EXCEPT !.pc = "fallback", !.mode = "hybrid"] \in RefState
         /\ [r EXCEPT !.pc = "collect", !.mode = "hybrid"] \in RefState
         /\ [r EXCEPT !.pc = "drop", !.claimed = ks] \in RefState
         /\ [r EXCEPT !.pc = "nvidia", !.target = t] \in RefState
BY NoneTyped DEF RefState, Mode

LEMMA HoldingEdits ==
  ASSUME NEW r \in RefState, NEW ks \in SUBSET Key
  PROVE  /\ [NoRef EXCEPT !.pc = "mode", !.previous = ks] \in RefState
         /\ [r EXCEPT !.pc = "target", !.previous = {}, !.claimed = {}] \in RefState
BY NoneTyped DEF RefState

LEMMA TxEdits ==
  ASSUME NEW t \in TxState, NEW c \in Refresher \cup {User}, NEW m \in Mode, NEW b \in BOOLEAN,
         NEW S \in SUBSET Device, NEW d \in Device, NEW ks \in SUBSET Key
  PROVE  /\ [NoTx EXCEPT !.by = c, !.mode = m, !.save = b, !.todo = S] \in TxState
         /\ [t EXCEPT !.pc = "write", !.dev = d, !.keys = ks] \in TxState
         /\ [t EXCEPT !.pc = "read", !.todo = @ \ {t.dev}, !.dev = 0, !.keys = {}] \in TxState
         /\ [t EXCEPT !.pc = "commit"] \in TxState
BY NoneTyped, IdFacts DEF TxState

LEMMA CallEdits ==
  ASSUME NEW c \in CallState, NEW ks \in SUBSET Key
  PROVE  /\ [c EXCEPT !.beside = "refresh"] \in CallState
         /\ [c EXCEPT !.beside = "transition"] \in CallState
         /\ [c EXCEPT !.pc = "write", !.keys = ks] \in CallState
BY DEF CallState

LEMMA LeftEdits ==
  ASSUME NEW l \in LeftState
  PROVE  /\ l.hotplug > 0 => [l EXCEPT !.hotplug = @ - 1] \in LeftState
         /\ l.request > 0 => [l EXCEPT !.request = @ - 1] \in LeftState
         /\ l.fault > 0 => [l EXCEPT !.fault = @ - 1] \in LeftState
BY DEF LeftState

LEMMA FaultTyped ==
  ASSUME TypeOK, Fault
  PROVE  left' \in LeftState /\ left'.hotplug = left.hotplug
<1>1. left \in LeftState
  BY DEF TypeOK
<1>2. QED
  BY <1>1, LeftEdits DEF Fault, LeftState

(* Judging refreshes that keep what they hold keep judging. *)
LEMMA OwnersKept ==
  ASSUME KeysOwned, UNCHANGED <<map, pushed, strays>>,
         \A r \in Refresher : /\ ref[r].previous \subseteq ref'[r].previous
                              /\ ref'[r].pc = "drop" => /\ ref[r].pc = "drop"
                                                        /\ ref'[r].claimed = ref[r].claimed
  PROVE  KeysOwned'
<1>1. \A r \in Refresher, k \in Key : WillJudge(r, k) => WillJudge(r, k)'
  BY DEF WillJudge
<1>2. QED
  BY <1>1 DEF KeysOwned, Held, Pushed

(* The end of a transition: a waiting refresh goes on with what it holds. *)
LEMMA ReturnFacts ==
  ASSUME TypeOK, tx.by # Nobody, NEW ok \in BOOLEAN, Return(ok)
  PROVE  /\ tx' \in TxState /\ user' \in UserState /\ ref' \in [Refresher -> RefState]
         /\ \A r \in Refresher : /\ ref'[r].previous = ref[r].previous
                                 /\ ref'[r].pc \in {"fallback", "collect"} \/ ref'[r] = ref[r]
<1>1. tx' \in TxState
  BY NoneTyped DEF Return
<1>2. CASE tx.by = User
  <2>1. user' = [user EXCEPT !.pc = "idle", !.mode = "hybrid", !.save = FALSE] /\ ref' = ref
    BY <1>2 DEF Return
  <2>2. user' \in UserState
    BY <2>1 DEF TypeOK, UserState, Mode
  <2>3. QED
    BY <1>1, <2>1, <2>2 DEF TypeOK
<1>3. CASE tx.by # User
  <2>1. tx.by \in Refresher
    BY <1>3 DEF TypeOK, TxState
  <2>2. PICK pc \in {"fallback", "collect"} :
          ref' = [ref EXCEPT ![tx.by] = [ref[tx.by] EXCEPT !.pc = pc, !.mode = "hybrid"]]
    BY <1>3, <2>1 DEF Return, TypeOK
  <2>3. ref[tx.by] \in RefState
    BY <2>1 DEF TypeOK
  <2>4. [ref[tx.by] EXCEPT !.pc = pc, !.mode = "hybrid"] \in RefState
    BY <2>3 DEF RefState, Mode
  <2>5. ref' \in [Refresher -> RefState] /\ user' = user
    BY <1>3, <2>2, <2>4 DEF Return, TypeOK
  <2>6. \A r \in Refresher : /\ ref'[r].previous = ref[r].previous
                             /\ ref'[r].pc \in {"fallback", "collect"} \/ ref'[r] = ref[r]
    BY <2>1, <2>2, <2>3 DEF TypeOK, RefState
  <2>7. QED
    BY <1>1, <2>5, <2>6 DEF TypeOK
<1>4. QED
  BY <1>2, <1>3

(***************************************************************************)
(* The invariant                                                            *)
(***************************************************************************)
LEMMA InitInv == Init => SyncInv
<1> SUFFICES ASSUME Init PROVE SyncInv
  OBVIOUS
<1>1. /\ bus \in [Device -> Status] /\ gen \in [Device -> Generation] /\ gen \in [Device -> Nat]
      /\ \A d \in Device : gen[d] <= 1
  BY SyncAssumption DEF Init, Status, Generation, SyncAssumption
<1>2. pushed \in [Device -> SUBSET Key]
  <2>1. \A d \in Device : KeysOf(d) \in SUBSET Key
    BY <1>1 DEF KeysOf, Key
  <2>2. QED
    BY <2>1 DEF Init
<1>3. map \in [Key -> Entry] /\ \A k \in Key : Held(k) => k \in Pushed
  <2>1. ASSUME NEW k \in Key
        PROVE  map[k] \in Entry /\ (Held(k) => k \in Pushed)
    <3>1. CASE \E d \in Device : PushedLast(d, k)
      <4>1. PICK d \in Device : PushedLast(d, k) /\ d = CHOOSE e \in Device : PushedLast(e, k)
        BY <3>1
      <4>2. map[k] = [id |-> IdOf(d), blocked |-> Hides(mode, d)]
        BY <3>1, <4>1 DEF Init
      <4>3. Hides(mode, d) \in BOOLEAN
        BY DEF Hides
      <4>4. QED
        BY <4>1, <4>2, <4>3, IdTyped DEF Entry, PushedLast, Pushed
    <3>2. CASE ~\E d \in Device : PushedLast(d, k)
      <4>1. map[k] = NoEntry
        BY <3>2 DEF Init
      <4>2. QED
        BY <4>1 DEF NoEntry, Entry, Held
    <3>3. QED
      BY <3>1, <3>2
  <2>2. QED
    BY <2>1 DEF Init
<1>4. TypeOK
  <2>1. pci \in [st : [Device -> Status], gen : [Device -> Nat]]
    BY <1>1 DEF Init
  <2>2. list \in [Device -> {"absent", "unavailable", "available"}] /\ exp \in Id \cup {NoGpu}
    BY TargetTyped DEF Init
  <2>3. tx \in TxState /\ call \in CallState /\ ref \in [Refresher -> RefState]
    BY NoneTyped DEF Init
  <2>4. user \in UserState /\ left \in LeftState /\ mode \in Mode /\ saved \in Mode
    BY SyncAssumption DEF Init, UserState, LeftState, Mode, SyncAssumption
  <2>5. QED
    BY <1>1, <1>2, <1>3, <2>1, <2>2, <2>3, <2>4 DEF TypeOK, Init
<1>5. BindsBounded
  BY <1>1, SyncAssumption DEF BindsBounded, Init, SyncAssumption
<1>6. NothingHeld
  BY DEF NothingHeld, Init, NoRef
<1>7. QED
  BY <1>3, <1>4, <1>5, <1>6 DEF SyncInv, KeysOwned

(* The devices: generations stay within what the hotplugs left allow. *)
LEMMA HotplugInv ==
  ASSUME SyncInv, NEW d \in Device, Add(d) \/ RemoveDevice(d) \/ Bind(d) \/ Unbind(d)
  PROVE  SyncInv'
<1>1. TypeOK /\ BindsBounded /\ NothingHeld /\ KeysOwned
  BY DEF SyncInv
<1>2. PICK to \in Status : \E from \in Status : Hotplug(d, from, to)
  BY DEF Add, RemoveDevice, Bind, Unbind, Status
<1>3. /\ bus' \in [Device -> Status] /\ left' \in LeftState
      /\ left'.hotplug = left.hotplug - 1 /\ left.hotplug \in Nat /\ left.hotplug > 0
  <2>1. left \in LeftState /\ left.hotplug > 0 /\ left' = [left EXCEPT !.hotplug = @ - 1]
    BY <1>1, <1>2 DEF Hotplug, TypeOK
  <2>2. bus' \in [Device -> Status]
    BY <1>1, <1>2 DEF Hotplug, TypeOK
  <2>3. QED
    BY <2>1, <2>2, LeftEdits DEF LeftState
<1>4. \A e \in Device : gen[e] \in Nat /\ gen[e] + left.hotplug <= MaxHotplugs + 1
  BY <1>1 DEF TypeOK, BindsBounded, Generation
<1>5. /\ gen' \in [Device -> Generation] /\ events' \in Nat
      /\ \A e \in Device : gen'[e] + left'.hotplug <= MaxHotplugs + 1
  <2>1. CASE Bind(d)
    <3>1. gen' = [gen EXCEPT ![d] = @ + 1] /\ events' = events + 1
      BY <2>1 DEF Bind
    <3>2. \A e \in Device : gen'[e] \in Nat /\ gen'[e] + left'.hotplug <= MaxHotplugs + 1
      <4>1. gen \in [Device -> Generation] /\ MaxHotplugs \in Nat
        BY <1>1, SyncAssumption DEF TypeOK, SyncAssumption
      <4>2. gen'[d] = gen[d] + 1 /\ \A e \in Device \ {d} : gen'[e] = gen[e]
        BY <4>1, <3>1
      <4>3. QED
        BY <4>1, <4>2, <1>3, <1>4
    <3>3. gen' \in [Device -> Generation]
      BY <1>1, <1>3, <1>4, <3>1, SyncAssumption DEF TypeOK, Generation, SyncAssumption
    <3>4. QED
      BY <1>1, <3>1, <3>2, <3>3 DEF TypeOK
  <2>2. CASE ~Bind(d)
    <3>1. gen' = gen /\ events' \in Nat
      BY <1>1, <2>2 DEF Add, RemoveDevice, Unbind, TypeOK
    <3>2. QED
      BY <1>1, <1>3, <1>4, <3>1, SyncAssumption DEF TypeOK, SyncAssumption
  <2>3. QED
    BY <2>1, <2>2
<1>6. UNCHANGED <<listVars, pushed, map, exp, modeVars, tx, user, ref, call, overlap, strays>>
  BY <1>2 DEF Hotplug
<1>7. TypeOK' /\ BindsBounded' /\ NothingHeld'
  BY <1>1, <1>3, <1>5, <1>6 DEF TypeOK, BindsBounded, NothingHeld, listVars, modeVars
<1>8. KeysOwned'
  BY <1>1, <1>6, OwnersKept
<1>9. QED
  BY <1>7, <1>8 DEF SyncInv

(* One step of a refresh that only moves ref, and the NVIDIA map. *)
LEMMA RefreshInv ==
  ASSUME SyncInv, NEW r \in Refresher,
         \/ Snapshot(r) \/ Compare(r) \/ ReadMode(r) \/ Collect(r) \/ ReadTarget(r)
         \/ SyncNvidia(r)
  PROVE  SyncInv'
<1>1. TypeOK /\ BindsBounded /\ NothingHeld /\ KeysOwned
  BY DEF SyncInv
<1>2. /\ UNCHANGED <<bus, gen, list, pushed, map, modeVars, tx, user, call, strays>>
      /\ events' \in Nat /\ overlap' \in BOOLEAN
  <2>1. UNCHANGED <<bus, gen, list, pushed, map, modeVars, tx, user, call, strays>>
    BY DEF Snapshot, Compare, ReadMode, Collect, ReadTarget, SyncNvidia, worldVars, listVars
  <2>2. events \in Nat /\ overlap \in BOOLEAN
    BY <1>1 DEF TypeOK
  <2>3. events' \in Nat
    <3>1. events' = events \/ (events > 0 /\ events' = events - 1)
      BY DEF Snapshot, Compare, ReadMode, Collect, ReadTarget, SyncNvidia, worldVars
    <3>2. QED
      BY <2>2, <3>1
  <2>4. overlap' \in BOOLEAN
    <3>1. \/ overlap' = overlap
          \/ overlap' = (overlap \/ \E q \in Refresher \ {r} : ref[q].pc # "idle")
      BY DEF Snapshot, Compare, ReadMode, Collect, ReadTarget, SyncNvidia
    <3>2. (overlap \/ \E q \in Refresher \ {r} : ref[q].pc # "idle") \in BOOLEAN
      OBVIOUS
    <3>3. QED
      BY <2>2, <3>1, <3>2
  <2>5. QED
    BY <2>1, <2>3, <2>4
<1>3. left' \in LeftState /\ left'.hotplug = left.hotplug
  <2>1. CASE Snapshot(r)
    <3>1. CASE Fault
      BY <1>1, <3>1, FaultTyped
    <3>2. CASE left' = left
      BY <1>1, <3>2 DEF TypeOK
    <3>3. CASE left.request > 0 /\ left' = [left EXCEPT !.request = @ - 1]
      BY <1>1, <3>3, LeftEdits DEF TypeOK, LeftState
    <3>4. QED
      BY <2>1, <3>1, <3>2, <3>3 DEF Snapshot
  <2>2. CASE ~Snapshot(r)
    <3>1. Fault \/ left' = left
      BY <2>2 DEF Compare, ReadMode, Collect, ReadTarget, SyncNvidia
    <3>2. QED
      BY <1>1, <3>1, FaultTyped DEF TypeOK
  <2>3. QED
    BY <2>1, <2>2
<1>4. ref[r] \in RefState /\ bus \in [Device -> Status] /\ gen \in [Device -> Nat] /\ saved \in Mode
      /\ Pushed \in SUBSET Key
  BY <1>1, SyncAssumption DEF TypeOK, Generation, SyncAssumption, Pushed
<1>5. pci' \in [st : [Device -> Status], gen : [Device -> Nat]] /\ exp' \in Id \cup {NoGpu}
  <2>1. ref[r].snap \in [Device -> Status] /\ ref[r].gen \in [Device -> Nat]
        /\ ref[r].target \in Id \cup {NoGpu}
    BY <1>4 DEF RefState
  <2>2. QED
    BY <1>1, <2>1 DEF Snapshot, Compare, ReadMode, Collect, ReadTarget, SyncNvidia, listVars, TypeOK
<1>6. PICK v \in RefState :
        /\ ref' = [ref EXCEPT ![r] = v]
        /\ v.previous = ref[r].previous
        /\ v.pc \in {"idle", "compare", "replace", "target", "nvidia"} => ref[r].previous = {}
        /\ v.pc = "drop" => v.claimed = Pushed
  <2>1. CASE Snapshot(r)
    <3>1. PICK v \in {ref[r], [ref[r] EXCEPT !.pc = "compare", !.snap = bus, !.gen = gen]} :
            ref' = [ref EXCEPT ![r] = v]
      BY <1>1, <2>1 DEF Snapshot, TypeOK
    <3>2. v \in RefState /\ v.previous = ref[r].previous /\ v.pc \in {"idle", "compare"}
      <4>1. CASE v = ref[r]
        BY <1>4, <2>1, <4>1 DEF Snapshot
      <4>2. CASE v = [ref[r] EXCEPT !.pc = "compare", !.snap = bus, !.gen = gen]
        <5>1. v \in RefState
          BY <1>4, <4>2, RefEdits
        <5>2. QED
          BY <1>4, <4>2, <5>1 DEF RefState
      <4>3. QED
        BY <3>1, <4>1, <4>2
    <3>3. ref[r].previous = {}
      BY <1>1, <2>1 DEF Snapshot, NothingHeld
    <3>4. QED
      BY <3>1, <3>2, <3>3
  <2>2. CASE Compare(r)
    <3>1. PICK v \in {NoRef, [ref[r] EXCEPT !.pc = "replace"]} : ref' = [ref EXCEPT ![r] = v]
      BY <1>1, <2>2 DEF Compare, TypeOK
    <3>2. ref[r].previous = {}
      BY <1>1, <2>2 DEF Compare, NothingHeld
    <3>3. v \in RefState /\ v.previous = ref[r].previous /\ v.pc \in {"idle", "replace"}
      <4>1. CASE v = NoRef
        BY <3>2, <4>1, NoneTyped DEF NoRef
      <4>2. CASE v = [ref[r] EXCEPT !.pc = "replace"]
        <5>1. v \in RefState
          BY <1>4, <4>2, RefEdits
        <5>2. QED
          BY <1>4, <4>2, <5>1 DEF RefState
      <4>3. QED
        BY <3>1, <4>1, <4>2
    <3>4. QED
      BY <3>1, <3>2, <3>3
  <2>3. CASE ReadMode(r)
    <3>1. PICK m \in Mode : ref' = [ref EXCEPT ![r] = [ref[r] EXCEPT !.pc = "apply", !.mode = m]]
      BY <1>1, <1>4, <2>3 DEF ReadMode, TypeOK, Mode
    <3>2. [ref[r] EXCEPT !.pc = "apply", !.mode = m] \in RefState
      BY <1>4, RefEdits
    <3>3. QED
      BY <1>4, <3>1, <3>2 DEF RefState
  <2>4. CASE Collect(r)
    <3>1. ref' = [ref EXCEPT ![r] = [ref[r] EXCEPT !.pc = "drop", !.claimed = Pushed]]
      BY <1>1, <2>4 DEF Collect, TypeOK
    <3>2. [ref[r] EXCEPT !.pc = "drop", !.claimed = Pushed] \in RefState
      BY <1>4, RefEdits
    <3>3. QED
      BY <1>4, <3>1, <3>2 DEF RefState
  <2>5. CASE ReadTarget(r)
    <3>1. ref' = [ref EXCEPT ![r] = [ref[r] EXCEPT !.pc = "nvidia", !.target = NvidiaTarget]]
      BY <1>1, <2>5 DEF ReadTarget, TypeOK
    <3>2. [ref[r] EXCEPT !.pc = "nvidia", !.target = NvidiaTarget] \in RefState
      BY <1>4, RefEdits, TargetTyped
    <3>3. ref[r].previous = {}
      BY <1>1, <2>5 DEF ReadTarget, NothingHeld
    <3>4. QED
      BY <1>4, <3>1, <3>2, <3>3 DEF RefState
  <2>6. CASE SyncNvidia(r)
    <3>1. ref' = [ref EXCEPT ![r] = NoRef] /\ ref[r].previous = {}
      BY <1>1, <2>6 DEF SyncNvidia, NothingHeld
    <3>2. QED
      BY <3>1, NoneTyped DEF NoRef
  <2>7. QED
    BY <2>1, <2>2, <2>3, <2>4, <2>5, <2>6
<1>7. TypeOK'
  BY <1>1, <1>2, <1>3, <1>5, <1>6 DEF TypeOK, modeVars
<1>8. BindsBounded'
  BY <1>1, <1>2, <1>3 DEF BindsBounded
<1>9. NothingHeld'
  BY <1>1, <1>6 DEF NothingHeld, TypeOK
<1>10. KeysOwned'
  <2>1. ASSUME NEW k \in Key, Held(k)', k \notin (Pushed \cup strays)'
        PROVE  \E q \in Refresher : WillJudge(q, k)'
    <3>1. Held(k) /\ k \notin Pushed \cup strays
      BY <1>2, <2>1 DEF Held, Pushed
    <3>2. PICK q \in Refresher : WillJudge(q, k)
      BY <1>1, <3>1 DEF KeysOwned
    <3>3. WillJudge(q, k)'
      BY <1>1, <1>6, <3>1, <3>2 DEF WillJudge, TypeOK
    <3>4. QED
      BY <3>3
  <2>2. QED
    BY <2>1 DEF KeysOwned
<1>11. QED
  BY <1>7, <1>8, <1>9, <1>10 DEF SyncInv

(* A new list: what the old one pushed is now the refresh's, or stays behind. *)
LEMMA ReplaceInv ==
  ASSUME SyncInv, NEW r \in Refresher, Replace(r)
  PROVE  SyncInv'
<1>1. TypeOK /\ BindsBounded /\ NothingHeld /\ KeysOwned
  BY DEF SyncInv
<1>2. /\ UNCHANGED <<worldVars, pci, map, exp, modeVars, tx, user, overlap>>
      /\ pushed' = [d \in Device |-> {}] /\ Pushed' = {}
      /\ list' \in [Device -> {"absent", "unavailable", "available"}]
  BY DEF Replace, Pushed
<1>3. call' \in CallState
  BY <1>1, CallEdits DEF Replace, TypeOK
<1>4. Pushed \in SUBSET Key /\ ref[r].previous = {} /\ ref[r] \in RefState
  BY <1>1 DEF Replace, NothingHeld, TypeOK, Pushed
<1>5. \/ /\ ref' = [ref EXCEPT ![r] = [NoRef EXCEPT !.pc = "mode", !.previous = Pushed]]
         /\ UNCHANGED <<strays, left>>
      \/ Fault /\ strays' = strays \cup Pushed /\ ref' = [ref EXCEPT ![r] = NoRef]
  BY DEF Replace
<1>6. ASSUME NEW v \in RefState, ref' = [ref EXCEPT ![r] = v],
             left' \in LeftState, left'.hotplug = left.hotplug, strays' \subseteq Key,
             v.pc = "idle" => v.previous = {}, v.pc \in {"idle", "mode"},
             \A k \in Pushed \cup strays : k \in v.previous \cup strays'
      PROVE  SyncInv'
  <2>1. TypeOK'
    BY <1>1, <1>2, <1>3, <1>6 DEF TypeOK, worldVars, modeVars
  <2>2. BindsBounded' /\ NothingHeld'
    BY <1>1, <1>2, <1>6 DEF BindsBounded, NothingHeld, worldVars, TypeOK
  <2>3. ASSUME NEW k \in Key, Held(k)', k \notin strays'
        PROVE  \E q \in Refresher : WillJudge(q, k)'
    <3>1. Held(k)
      BY <1>2, <2>3 DEF Held
    <3>2. CASE k \in Pushed \cup strays
      BY <1>1, <1>6, <2>3, <3>2 DEF WillJudge, TypeOK
    <3>3. CASE k \notin Pushed \cup strays
      <4>1. PICK q \in Refresher : WillJudge(q, k)
        BY <1>1, <3>1, <3>3 DEF KeysOwned
      <4>2. q # r
        BY <1>4, <4>1 DEF WillJudge
      <4>3. QED
        BY <1>1, <1>6, <4>1, <4>2 DEF WillJudge, TypeOK
    <3>4. QED
      BY <3>2, <3>3
  <2>4. QED
    BY <2>1, <2>2, <2>3 DEF SyncInv, KeysOwned
<1>7. [NoRef EXCEPT !.pc = "mode", !.previous = Pushed] \in RefState
  BY <1>4, HoldingEdits
<1>8. CASE ref' = [ref EXCEPT ![r] = [NoRef EXCEPT !.pc = "mode", !.previous = Pushed]]
           /\ UNCHANGED <<strays, left>>
  <2>1. [NoRef EXCEPT !.pc = "mode", !.previous = Pushed].previous = Pushed
        /\ [NoRef EXCEPT !.pc = "mode", !.previous = Pushed].pc = "mode"
    BY DEF NoRef
  <2>2. QED
    BY <1>1, <1>6, <1>7, <1>8, <2>1 DEF TypeOK
<1>9. CASE Fault /\ strays' = strays \cup Pushed /\ ref' = [ref EXCEPT ![r] = NoRef]
  <2>1. left' \in LeftState /\ left'.hotplug = left.hotplug /\ strays' \subseteq Key
    BY <1>1, <1>4, <1>9, FaultTyped DEF TypeOK
  <2>2. NoRef \in RefState /\ NoRef.previous = {} /\ NoRef.pc = "idle"
    BY NoneTyped DEF NoRef
  <2>3. QED
    BY <1>6, <1>9, <2>1, <2>2
<1>10. QED
  BY <1>5, <1>8, <1>9

(* What goes is what nobody claimed; what a failure leaves is a stray. *)
LEMMA DropInv ==
  ASSUME SyncInv, NEW r \in Refresher, Drop(r)
  PROVE  SyncInv'
<1> DEFINE stale == ref[r].previous \ ref[r].claimed
           v == [ref[r] EXCEPT !.pc = "target", !.previous = {}, !.claimed = {}]
<1>1. TypeOK /\ BindsBounded /\ NothingHeld /\ KeysOwned
  BY DEF SyncInv
<1>2. /\ UNCHANGED <<worldVars, listVars, pushed, exp, modeVars, tx, user, call, overlap>>
      /\ ref' = [ref EXCEPT ![r] = v] /\ ref[r].pc = "drop"
  BY <1>1 DEF Drop, TypeOK
<1>3. ref[r] \in RefState
  BY <1>1 DEF TypeOK
<1>4. v \in RefState /\ v.previous = {} /\ v.pc = "target" /\ stale \in SUBSET Key
  <2>1. v \in RefState
    BY <1>3, HoldingEdits
  <2>2. QED
    BY <1>3, <2>1 DEF RefState
<1>5. PICK kept \in SUBSET stale :
        /\ map' = Remove(map, stale \ kept) /\ strays' = strays \cup kept
        /\ Fault \/ left' = left
  <2>1. CASE map' = Remove(map, stale) /\ UNCHANGED <<strays, left>>
    <3>1. stale \ {} = stale /\ strays \cup {} = strays
      OBVIOUS
    <3>2. QED
      BY <2>1, <3>1
  <2>2. CASE \E k \in stale : Fault /\ map' = Remove(map, stale \ {k}) /\ strays' = strays \cup {k}
    BY <2>2
  <2>3. QED
    BY <2>1, <2>2 DEF Drop
<1> HIDE DEF v, stale
<1>6. map' \in [Key -> Entry] /\ left' \in LeftState /\ left'.hotplug = left.hotplug
      /\ strays' \subseteq Key
  <2>1. map' \in [Key -> Entry]
    BY <1>1, <1>5, RemoveTyped DEF TypeOK
  <2>2. QED
    BY <1>1, <1>4, <1>5, <2>1, FaultTyped DEF TypeOK
<1>7. TypeOK'
  BY <1>1, <1>2, <1>4, <1>6 DEF TypeOK, worldVars, listVars, modeVars
<1>8. BindsBounded' /\ NothingHeld'
  BY <1>1, <1>2, <1>4, <1>6 DEF BindsBounded, NothingHeld, worldVars, TypeOK
<1>9. ASSUME NEW k \in Key, Held(k)', k \notin (Pushed \cup strays)'
      PROVE  \E q \in Refresher : WillJudge(q, k)'
  <2>1. Held(k) /\ k \notin stale /\ k \notin Pushed \cup strays
    BY <1>2, <1>5, <1>9 DEF Held, Remove, NoEntry, Pushed
  <2>2. PICK q \in Refresher : WillJudge(q, k)
    BY <1>1, <2>1 DEF KeysOwned
  <2>3. q # r
    BY <1>2, <2>1, <2>2 DEF WillJudge, stale
  <2>4. QED
    BY <1>1, <1>2, <2>2, <2>3 DEF WillJudge, TypeOK
<1>10. QED
  BY <1>7, <1>8, <1>9 DEF SyncInv, KeysOwned

(* Steps of a transition that write neither map nor lists. *)
LEMMA TransitionInv ==
  ASSUME SyncInv, BeginUser \/ (\E r \in Refresher : BeginRefresh(r)) \/ Refuse \/ TxRead
                  \/ WriteMode \/ Commit
  PROVE  SyncInv'
<1> DEFINE Ends == \E ok \in BOOLEAN : tx.by # Nobody /\ Return(ok)
           Goes == tx' \in TxState /\ UNCHANGED <<user, ref>>
<1>1. TypeOK /\ BindsBounded /\ NothingHeld /\ KeysOwned
  BY DEF SyncInv
<1>2. /\ UNCHANGED <<bus, gen, events, pci, list, pushed, map, exp, overlap, strays>>
      /\ left' = left \/ Fault
  BY DEF BeginUser, BeginRefresh, Begin, Refuse, TxRead, WriteMode, Commit, worldVars, listVars
<1>3. mode' \in Mode /\ saved' \in Mode
  <2>1. mode \in Mode /\ saved \in Mode /\ tx.mode \in Mode
    BY <1>1 DEF TypeOK, TxState
  <2>2. QED
    BY <2>1 DEF BeginUser, BeginRefresh, Begin, Refuse, TxRead, WriteMode, Commit, modeVars
<1>4. call' \in CallState
  <2>1. call \in CallState /\ [call EXCEPT !.beside = "transition"] \in CallState
    BY <1>1 DEF TypeOK, CallState
  <2>2. QED
    BY <2>1 DEF BeginUser, BeginRefresh, Begin, Refuse, TxRead, WriteMode, Commit
<1>5. Ends \/ Goes
  <2>1. ASSUME NEW c \in Refresher \cup {User}, NEW m \in Mode, NEW save \in BOOLEAN,
               Begin(c, m, save)
        PROVE  tx' \in TxState /\ UNCHANGED <<user, ref>>
    <3>1. Touched(m) \in SUBSET Device /\ tx \in TxState
      BY <1>1 DEF Touched, Present, TypeOK
    <3>2. [NoTx EXCEPT !.by = c, !.mode = m, !.save = save, !.todo = Touched(m)] \in TxState
      BY <3>1, NoneTyped DEF TxState
    <3>3. QED
      BY <2>1, <3>2 DEF Begin
  <2>2. CASE BeginUser
    <3>1. user.mode \in Mode /\ user.save \in BOOLEAN
      BY <1>1 DEF TypeOK, UserState
    <3>2. QED
      BY <2>1, <2>2, <3>1 DEF BeginUser
  <2>3. ASSUME NEW r \in Refresher, BeginRefresh(r)
        PROVE  Goes
    <3>1. ref[r].mode \in Mode /\ "hybrid" \in Mode
      BY <1>1 DEF TypeOK, RefState, Mode
    <3>2. PICK m \in Mode : Begin(r, m, FALSE)
      BY <2>3, <3>1 DEF BeginRefresh
    <3>3. QED
      BY <2>1, <3>2
  <2>4. CASE Refuse
    BY <2>4 DEF Refuse
  <2>5. CASE TxRead
    <3>1. PICK d \in tx.todo :
            \/ /\ tx' = [tx EXCEPT !.pc = "write", !.dev = d, !.keys = KeysOf(d)]
               /\ UNCHANGED <<user, ref>>
            \/ Return(FALSE)
      BY <2>5 DEF TxRead
    <3>2. d \in Device /\ tx \in TxState
      BY <1>1 DEF TypeOK, TxState
    <3>3. [tx EXCEPT !.pc = "write", !.dev = d, !.keys = KeysOf(d)] \in TxState
      BY <1>1, <3>2, KeysTyped DEF TxState
    <3>4. tx.by # Nobody
      BY <2>5 DEF TxRead
    <3>5. QED
      BY <3>1, <3>3, <3>4
  <2>6. CASE WriteMode
    <3>1. [tx EXCEPT !.pc = "commit"] \in TxState
      BY <1>1 DEF TypeOK, TxState
    <3>2. QED
      BY <2>6, <3>1 DEF WriteMode
  <2>7. CASE Commit
    BY <2>7 DEF Commit
  <2>8. QED
    BY <2>2, <2>3, <2>4, <2>5, <2>6, <2>7
<1>6. /\ tx' \in TxState /\ user' \in UserState /\ ref' \in [Refresher -> RefState]
      /\ \A r \in Refresher : /\ ref'[r].previous = ref[r].previous
                              /\ ref'[r].pc \in {"fallback", "collect"} \/ ref'[r] = ref[r]
  <2>1. CASE Ends
    BY <1>1, <2>1, ReturnFacts
  <2>2. CASE Goes
    BY <1>1, <2>2 DEF TypeOK
  <2>3. QED
    BY <1>5, <2>1, <2>2
<1>7. left' \in LeftState /\ left'.hotplug = left.hotplug
  BY <1>1, <1>2, FaultTyped DEF TypeOK
<1>8. TypeOK'
  BY <1>1, <1>2, <1>3, <1>4, <1>6, <1>7 DEF TypeOK
<1>9. BindsBounded' /\ NothingHeld'
  BY <1>1, <1>2, <1>6, <1>7 DEF BindsBounded, NothingHeld
<1>10. KeysOwned'
  BY <1>1, <1>2, <1>6, OwnersKept
<1>11. QED
  BY <1>8, <1>9, <1>10 DEF SyncInv

(* Requests and the reading half of a set_block call. *)
LEMMA RequestInv ==
  ASSUME SyncInv, \/ \E m \in Mode, save \in BOOLEAN : Ask(m, save)
                  \/ \E d \in Device, block \in BOOLEAN : SetBlock(d, block)
                  \/ CallRead
  PROVE  SyncInv'
<1>1. TypeOK /\ BindsBounded /\ NothingHeld /\ KeysOwned
  BY DEF SyncInv
<1>2. /\ UNCHANGED <<bus, gen, events, pci, list, pushed, map, exp, mode, saved, tx, ref, overlap,
                     strays>>
      /\ \/ left' = left
         \/ left.request > 0 /\ left' = [left EXCEPT !.request = @ - 1]
  BY DEF Ask, SetBlock, CallRead, worldVars, listVars, modeVars
<1>3. left' \in LeftState /\ left'.hotplug = left.hotplug
  <2>1. left \in LeftState
    BY <1>1 DEF TypeOK
  <2>2. QED
    BY <1>2, <2>1, LeftEdits DEF LeftState
<1>4. user' \in UserState
  BY <1>1 DEF Ask, SetBlock, CallRead, TypeOK, UserState
<1>5. call' \in CallState
  <2>1. call \in CallState /\ call.dev \in Device
    BY <1>1 DEF TypeOK, CallState
  <2>2. CASE CallRead
    <3>1. [call EXCEPT !.pc = "write", !.keys = KeysOf(call.dev)] \in CallState
      BY <1>1, <2>1, KeysTyped DEF CallState
    <3>2. QED
      BY <2>2, <3>1, NoneTyped DEF CallRead
  <2>3. ASSUME NEW d \in Device, NEW block \in BOOLEAN, SetBlock(d, block)
        PROVE  call' \in CallState
    BY <2>3, IdTyped DEF SetBlock, CallState
  <2>4. CASE \E m \in Mode, save \in BOOLEAN : Ask(m, save)
    BY <2>1, <2>4 DEF Ask
  <2>5. QED
    BY <2>2, <2>3, <2>4
<1>6. TypeOK'
  BY <1>1, <1>2, <1>3, <1>4, <1>5 DEF TypeOK
<1>7. BindsBounded' /\ NothingHeld'
  BY <1>1, <1>2, <1>3 DEF BindsBounded, NothingHeld
<1>8. KeysOwned'
  BY <1>1, <1>2, OwnersKept
<1>9. QED
  BY <1>6, <1>7, <1>8 DEF SyncInv

(* A sync that records: what it leaves in the map it owns, or others did.    *)
LEMMA OwnersAfterSync ==
  ASSUME SyncInv, NEW d \in Device, NEW keys \in SUBSET Key, NEW id \in Id, NEW b \in BOOLEAN,
         NEW o \in Outcomes(pushed[d], keys, id, b),
         map' = o.map, pushed' = [pushed EXCEPT ![d] = o.own],
         \A k \in strays : k \in strays' \/ k \in o.own,
         \A r \in Refresher : /\ ref'[r].previous = ref[r].previous
                              /\ ref'[r].pc \in {"fallback", "collect"} \/ ref'[r] = ref[r]
  PROVE  KeysOwned'
<1>1. TypeOK /\ KeysOwned
  BY DEF SyncInv
<1>2. pushed[d] \in SUBSET Key /\ pushed'[d] = o.own
      /\ \A e \in Device \ {d} : pushed'[e] = pushed[e]
  BY <1>1 DEF TypeOK
<1>3. \A k \in Key : o.map[k].id # NoGpu => k \in o.own \/ (Held(k) /\ k \notin pushed[d])
  <2>1. SyncResult(o, pushed[d], keys)
    BY <1>1, <1>2, OutcomeFacts
  <2>2. QED
    BY <2>1 DEF SyncResult
<1>4. ASSUME NEW k \in Key, Held(k)', k \notin (Pushed \cup strays)'
      PROVE  \E r \in Refresher : WillJudge(r, k)'
  <2>1. k \notin o.own
    BY <1>2, <1>4 DEF Pushed
  <2>2. Held(k) /\ k \notin pushed[d]
    BY <1>3, <1>4, <2>1 DEF Held
  <2>3. k \notin Pushed \cup strays
    BY <1>2, <1>4, <2>1, <2>2 DEF Pushed
  <2>4. PICK r \in Refresher : WillJudge(r, k)
    BY <1>1, <2>2, <2>3 DEF KeysOwned
  <2>5. WillJudge(r, k)'
    BY <2>4 DEF WillJudge
  <2>6. QED
    BY <2>5
<1>5. QED
  BY <1>4 DEF KeysOwned

LEMMA TxWriteInv == ASSUME SyncInv, TxWrite PROVE SyncInv'
<1>1. TypeOK /\ BindsBounded /\ NothingHeld /\ KeysOwned
  BY DEF SyncInv
<1>2. tx.dev \in Device /\ tx.keys \in SUBSET Key /\ tx \in TxState
      /\ pushed \in [Device -> SUBSET Key] /\ tx.todo \in SUBSET Device
  BY <1>1 DEF TypeOK, TxState
<1>3. IdOf(tx.dev) \in Id /\ Hides(tx.mode, tx.dev) \in BOOLEAN /\ pushed[tx.dev] \in SUBSET Key
  BY <1>2, IdTyped DEF Hides
<1>4. PICK o \in Outcomes(pushed[tx.dev], tx.keys, IdOf(tx.dev), Hides(tx.mode, tx.dev)) :
        /\ map' = o.map
        /\ pushed' = [pushed EXCEPT ![tx.dev] = o.own]
        /\ IF o.ok
           THEN /\ tx' = [tx EXCEPT !.pc = "read", !.todo = @ \ {tx.dev}, !.dev = 0, !.keys = {}]
                /\ strays' = strays \ tx.keys
                /\ UNCHANGED <<user, ref, left>>
           ELSE Fault /\ Return(FALSE) /\ UNCHANGED strays
  BY DEF TxWrite
<1>5. UNCHANGED <<bus, gen, events, pci, list, exp, mode, saved, call, overlap>> /\ tx.by # Nobody
  BY DEF TxWrite, worldVars, listVars, modeVars
<1>6. o.map \in [Key -> Entry] /\ o.own \in SUBSET Key /\ (o.ok => o.own = tx.keys)
  <2>1. SyncResult(o, pushed[tx.dev], tx.keys)
    BY <1>1, <1>2, <1>3, <1>4, OutcomeFacts
  <2>2. QED
    BY <2>1 DEF SyncResult
<1>7. /\ tx' \in TxState /\ user' \in UserState /\ ref' \in [Refresher -> RefState]
      /\ \A r \in Refresher : /\ ref'[r].previous = ref[r].previous
                              /\ ref'[r].pc \in {"fallback", "collect"} \/ ref'[r] = ref[r]
      /\ left' \in LeftState /\ left'.hotplug = left.hotplug
      /\ \A k \in strays : k \in strays' \/ k \in o.own
      /\ strays' \subseteq Key
  <2>1. CASE o.ok
    <3>1. [tx EXCEPT !.pc = "read", !.todo = @ \ {tx.dev}, !.dev = 0, !.keys = {}] \in TxState
      BY <1>2, IdFacts DEF TxState
    <3>2. QED
      BY <1>1, <1>4, <1>6, <2>1, <3>1 DEF TypeOK
  <2>2. CASE ~o.ok
    <3>1. Fault /\ Return(FALSE) /\ UNCHANGED strays
      BY <1>4, <2>2
    <3>2. left' \in LeftState /\ left'.hotplug = left.hotplug
      BY <1>1, <3>1, FaultTyped
    <3>3. strays' \subseteq Key
      BY <1>1, <3>1 DEF TypeOK
    <3>4. QED
      BY <1>1, <1>5, <3>1, <3>2, <3>3, ReturnFacts
  <2>3. QED
    BY <2>1, <2>2
<1>8. TypeOK'
  BY <1>1, <1>2, <1>4, <1>5, <1>6, <1>7 DEF TypeOK
<1>9. BindsBounded' /\ NothingHeld'
  BY <1>1, <1>5, <1>7 DEF BindsBounded, NothingHeld
<1>10. KeysOwned'
  BY <1>2, <1>3, <1>4, <1>7, OwnersAfterSync
<1>11. QED
  BY <1>8, <1>9, <1>10 DEF SyncInv

LEMMA CallWriteInv == ASSUME SyncInv, CallWrite PROVE SyncInv'
<1> DEFINE old == IF call.beside = "refresh" THEN {} ELSE pushed[call.dev]
<1>1. TypeOK /\ BindsBounded /\ NothingHeld /\ KeysOwned
  BY DEF SyncInv
<1>2. call.dev \in Device /\ call.keys \in SUBSET Key /\ call.id \in Id /\ call.block \in BOOLEAN
      /\ call.beside \in {"nothing", "transition", "refresh"}
      /\ pushed \in [Device -> SUBSET Key] /\ old \in SUBSET Key
  BY <1>1 DEF TypeOK, CallState
<1>3. PICK o \in Outcomes(old, call.keys, call.id, call.block) :
        /\ map' = o.map
        /\ pushed' = IF call.beside = "refresh" THEN pushed
                     ELSE [pushed EXCEPT ![call.dev] = o.own]
        /\ Fault \/ left' = left
  BY DEF CallWrite
<1>4. /\ UNCHANGED <<bus, gen, events, pci, list, exp, mode, saved, tx, user, ref, overlap>>
      /\ strays' = IF call.beside = "nothing" THEN strays ELSE strays \cup call.keys
      /\ call' = NoCall
  BY DEF CallWrite, worldVars, listVars, modeVars
<1>5. o.map \in [Key -> Entry] /\ o.own \in SUBSET Key /\ o.own \subseteq old \cup call.keys
      /\ \A k \in Key : o.map[k].id # NoGpu => k \in o.own \/ (Held(k) /\ k \notin old)
  <2> HIDE DEF old
  <2>1. SyncResult(o, old, call.keys)
    BY <1>1, <1>2, <1>3, OutcomeFacts
  <2>2. QED
    BY <2>1 DEF SyncResult
<1>6. left' \in LeftState /\ left'.hotplug = left.hotplug
  BY <1>1, <1>3, FaultTyped DEF TypeOK
<1>7. TypeOK'
  <2>1. pushed' \in [Device -> SUBSET Key] /\ map' \in [Key -> Entry] /\ strays' \subseteq Key
    BY <1>1, <1>2, <1>3, <1>4, <1>5 DEF TypeOK
  <2>2. QED
    BY <1>1, <1>4, <1>6, <2>1, NoneTyped DEF TypeOK
<1>8. BindsBounded' /\ NothingHeld'
  BY <1>1, <1>4, <1>6 DEF BindsBounded, NothingHeld
<1>9. KeysOwned'
  <2>1. CASE call.beside = "refresh"
    <3>1. o.own \subseteq call.keys /\ pushed' = pushed /\ strays' = strays \cup call.keys
      BY <1>3, <1>4, <1>5, <2>1
    <3>2. ASSUME NEW k \in Key, Held(k)', k \notin (Pushed \cup strays)'
          PROVE  \E r \in Refresher : WillJudge(r, k)'
      <4>1. Held(k) /\ k \notin Pushed \cup strays
        BY <1>3, <1>5, <3>1, <3>2 DEF Held, Pushed
      <4>2. QED
        BY <1>1, <1>4, <4>1 DEF KeysOwned, WillJudge
    <3>3. QED
      BY <3>2 DEF KeysOwned
  <2>2. CASE call.beside # "refresh"
    <3>1. old = pushed[call.dev] /\ pushed' = [pushed EXCEPT ![call.dev] = o.own]
      BY <1>3, <2>2
    <3>2. strays \subseteq strays' /\ ref' = ref
      BY <1>4
    <3>3. QED
      BY <1>2, <1>3, <3>1, <3>2, OwnersAfterSync
  <2>3. QED
    BY <2>1, <2>2
<1>10. QED
  BY <1>7, <1>8, <1>9 DEF SyncInv

(***************************************************************************)
(* The theorems                                                             *)
(***************************************************************************)

LEMMA SyncStays == SyncInv /\ UNCHANGED vars => SyncInv'
<1> SUFFICES ASSUME SyncInv, UNCHANGED vars PROVE SyncInv'
  OBVIOUS
<1>1. TypeOK' /\ BindsBounded' /\ NothingHeld'
  BY DEF SyncInv, TypeOK, BindsBounded, NothingHeld, vars
<1>2. KeysOwned'
  BY OwnersKept DEF SyncInv, vars
<1>3. QED
  BY <1>1, <1>2 DEF SyncInv

(* The inductive invariant: types, bounded generations, refreshes that hold  *)
(* old keys only between the new list and the drop, and KeysOwned.           *)
THEOREM SyncHolds == Spec => []SyncInv
<1>1. Init => SyncInv
  BY InitInv
<1>2. SyncInv /\ [Next]_vars => SyncInv'
  <2> SUFFICES ASSUME SyncInv, [Next]_vars PROVE SyncInv'
    OBVIOUS
  <2>1. CASE UNCHANGED vars
    BY <2>1, SyncStays
  <2>2. ASSUME NEW r \in Refresher, RefreshStep(r) \/ Snapshot(r)
        PROVE  SyncInv'
    <3>1. CASE BeginRefresh(r)
      BY <3>1, TransitionInv
    <3>2. CASE Replace(r) \/ Drop(r)
      BY <3>2, ReplaceInv, DropInv
    <3>3. CASE ~(BeginRefresh(r) \/ Replace(r) \/ Drop(r))
      BY <2>2, <3>3, RefreshInv DEF RefreshStep
    <3>4. QED
      BY <3>1, <3>2, <3>3
  <2>3. CASE TxStep
    BY <2>3, TransitionInv, TxWriteInv DEF TxStep
  <2>4. CASE CallStep
    BY <2>4, RequestInv, CallWriteInv DEF CallStep
  <2>5. CASE Daemon
    BY <2>2, <2>3, <2>4, <2>5, SyncAssumption DEF Daemon, SyncAssumption
  <2>6. CASE World
    <3>1. CASE \E d \in Device : Add(d) \/ RemoveDevice(d) \/ Bind(d) \/ Unbind(d)
      BY <3>1, HotplugInv
    <3>2. CASE \E r \in Refresher \ {Monitor} : Snapshot(r)
      BY <2>2, <3>2
    <3>3. CASE \E m \in Mode, save \in BOOLEAN : Ask(m, save)
      BY <3>3, RequestInv
    <3>4. CASE \E d \in Device, block \in BOOLEAN : SetBlock(d, block)
      BY <3>4, RequestInv
    <3>5. QED
      BY <2>6, <3>1, <3>2, <3>3, <3>4 DEF World
  <2>7. QED
    BY <2>1, <2>5, <2>6 DEF Next
<1>3. QED
  BY <1>1, <1>2, PTL DEF Spec

(* No key is forgotten in CW_BLOCKED_INO, whatever refreshes, transitions,   *)
(* set_block calls, hotplugs and failures do to each other.                  *)
THEOREM OwnersHold == Spec => []KeysOwned
<1>1. SyncInv => KeysOwned
  BY DEF SyncInv
<1>2. QED
  BY <1>1, SyncHolds, PTL

(***************************************************************************)
(* The experimental NVIDIA block                                            *)
(***************************************************************************)

(* Until something fails or two refreshes overlap there is one refresh: it    *)
(* waits while its transition runs, the target it has read is still that of   *)
(* the list, and before it replaces the list the map is for the list's.       *)
Calm == left.fault = MaxFaults /\ ~overlap
OneRefresh == \A r, q \in Refresher : ref[r].pc # "idle" /\ ref[q].pc # "idle" => r = q
TxOfWaiting == tx.by \in Refresher => ref[tx.by].pc \in {"apply", "fallback"}
TargetCurrent == \A r \in Refresher : ref[r].pc = "nvidia" => ref[r].target = NvidiaTarget
Early == {"idle", "compare", "replace"}
BlockCurrent == (\A r \in Refresher : ref[r].pc \in Early) => exp = NvidiaTarget

NvidiaInv ==
  /\ left.fault <= MaxFaults
  /\ Calm => OneRefresh /\ TxOfWaiting /\ TargetCurrent /\ BlockCurrent

(* Faults are only spent, and an overlap stays recorded. *)
LEMMA CalmBefore ==
  ASSUME TypeOK, left.fault <= MaxFaults, [Next]_vars
  PROVE  left'.fault <= MaxFaults /\ (Calm' => Calm /\ left'.fault = left.fault)
<1>1. left \in LeftState /\ MaxFaults \in Nat
  BY SyncAssumption DEF TypeOK, SyncAssumption
<1>2. \/ left' = left \/ Fault
      \/ left' = [left EXCEPT !.request = @ - 1]
      \/ left' = [left EXCEPT !.hotplug = @ - 1]
  BY DEF Next, Daemon, World, TxStep, CallStep, RefreshStep, Snapshot, Compare, Replace, ReadMode,
     BeginRefresh, BeginUser, Begin, Collect, Drop, ReadTarget, SyncNvidia, Refuse, TxRead, TxWrite,
     WriteMode, Commit, CallRead, CallWrite, Add, RemoveDevice, Bind, Unbind, Hotplug, Ask, SetBlock, vars
<1>3. left'.fault = left.fault \/ (left.fault > 0 /\ left'.fault = left.fault - 1)
  BY <1>1, <1>2 DEF Fault, LeftState
<1>4. left.fault \in Nat
  BY <1>1 DEF LeftState
<1>5. left'.fault <= MaxFaults /\ (left'.fault = MaxFaults => left.fault = MaxFaults)
  BY <1>1, <1>3, <1>4
<1>6. overlap' = overlap \/ \E r \in Refresher : Snapshot(r)
  BY SyncAssumption DEF SyncAssumption, Next, Daemon, World, TxStep, CallStep, RefreshStep, Compare,
     Replace, ReadMode, BeginRefresh, BeginUser, Begin, Collect, Drop, ReadTarget, SyncNvidia, Refuse,
     TxRead, TxWrite, WriteMode, Commit, CallRead, CallWrite, Add, RemoveDevice, Bind, Unbind, Hotplug,
     Ask, SetBlock, vars
<1>7. ~overlap' => ~overlap
  BY <1>6 DEF Snapshot
<1>8. QED
  BY <1>5, <1>7 DEF Calm

(* The target is a matter of the list alone. *)
LEMMA TargetOfList == ASSUME list' = list PROVE NvidiaTarget' = NvidiaTarget
BY DEF NvidiaTarget, IdOf, Listed, First

(* A step of one refresh. *)
LEMMA NvidiaRefreshStep ==
  ASSUME SyncInv, NvidiaInv, NEW r \in Refresher, Snapshot(r) \/ RefreshStep(r), Calm, Calm',
         left'.fault = left.fault
  PROVE  OneRefresh' /\ TxOfWaiting' /\ TargetCurrent' /\ BlockCurrent'
<1>1. ref \in [Refresher -> RefState] /\ ref[r] \in RefState /\ left \in LeftState
  BY DEF SyncInv, TypeOK
<1>2. OneRefresh /\ TxOfWaiting /\ TargetCurrent /\ BlockCurrent
  BY DEF NvidiaInv
<1>3. ~Fault
  BY <1>1 DEF Fault, LeftState
<1>4. r # Nobody /\ r # User
  BY SyncAssumption DEF SyncAssumption
(* No other refresh is under way, before or after.                            *)
<1>5. ASSUME \A q \in Refresher \ {r} : ref[q].pc = "idle" /\ ref'[q] = ref[q],
             tx' = tx, tx.by = r => ref'[r].pc \in {"apply", "fallback"},
             ref'[r].pc = "nvidia" => ref'[r].target = NvidiaTarget',
             ref'[r].pc \in Early => exp' = NvidiaTarget'
      PROVE  OneRefresh' /\ TxOfWaiting' /\ TargetCurrent' /\ BlockCurrent'
  <2>1. \A q \in Refresher \ {r} : ref'[q].pc = "idle"
    BY <1>5
  <2>2. OneRefresh' /\ TargetCurrent' /\ BlockCurrent'
    BY <1>5, <2>1 DEF OneRefresh, TargetCurrent, BlockCurrent
  <2>3. TxOfWaiting'
    BY <1>2, <1>5 DEF TxOfWaiting
  <2>4. QED
    BY <2>2, <2>3
<1>6. CASE Snapshot(r)
  <2>1. /\ ref[r].pc = "idle" /\ tx' = tx /\ list' = list /\ exp' = exp
        /\ ref' = [ref EXCEPT ![r] = [ref[r] EXCEPT !.pc = "compare", !.snap = bus, !.gen = gen]]
        /\ \A q \in Refresher \ {r} : ref[q].pc = "idle"
    BY <1>1, <1>3, <1>6 DEF Snapshot, Calm, listVars
  <2>2. ref'[r].pc = "compare" /\ \A q \in Refresher \ {r} : ref'[q] = ref[q]
    BY <1>1, <2>1 DEF RefState
  <2>3. exp = NvidiaTarget
    BY <1>2, <2>1 DEF BlockCurrent, Early
  <2>4. tx.by # r
    BY <1>2, <2>1 DEF TxOfWaiting
  <2>5. QED
    BY <1>5, <2>1, <2>2, <2>3, <2>4, TargetOfList
<1>7. CASE RefreshStep(r)
  <2>1. ref[r].pc # "idle"
    BY <1>7 DEF RefreshStep, Compare, Replace, ReadMode, BeginRefresh, Collect, Drop, ReadTarget, SyncNvidia
  <2>2. \A q \in Refresher \ {r} : ref[q].pc = "idle"
    BY <1>2, <2>1 DEF OneRefresh
  <2>3. ref[r].pc \notin {"apply", "fallback"} => tx.by # r
    BY <1>2 DEF TxOfWaiting
  <2>4. ref[r].pc \in Early => exp = NvidiaTarget
    BY <1>2, <2>2 DEF BlockCurrent, Early
  <2>5. CASE BeginRefresh(r)
    <3>1. ref' = ref /\ exp' = exp /\ list' = list /\ ref[r].pc \in {"apply", "fallback"}
      BY <2>5 DEF BeginRefresh, Begin, listVars
    <3>2. tx'.by = r
      BY <2>5 DEF BeginRefresh, Begin, NoTx
    <3>3. QED
      BY <1>2, <3>1, <3>2, TargetOfList DEF OneRefresh, TxOfWaiting, TargetCurrent, BlockCurrent
  <2>6. CASE Compare(r)
    <3>1. /\ ref[r].pc = "compare" /\ tx' = tx /\ list' = list /\ exp' = exp
          /\ \/ ref' = [ref EXCEPT ![r] = NoRef]
             \/ ref' = [ref EXCEPT ![r] = [ref[r] EXCEPT !.pc = "replace"]]
      BY <1>1, <2>6 DEF Compare
    <3>2. /\ ref'[r].pc \in {"idle", "replace"} /\ \A q \in Refresher \ {r} : ref'[q] = ref[q]
      BY <1>1, <3>1 DEF RefState, NoRef
    <3>3. QED
      BY <1>5, <2>2, <2>3, <2>4, <3>1, <3>2, TargetOfList DEF Early
  <2>7. CASE Replace(r)
    <3>1. /\ ref[r].pc = "replace" /\ tx' = tx
          /\ ref' = [ref EXCEPT ![r] = [NoRef EXCEPT !.pc = "mode", !.previous = Pushed]]
      BY <1>3, <2>7 DEF Replace
    <3>2. ref'[r].pc = "mode" /\ \A q \in Refresher \ {r} : ref'[q] = ref[q]
      BY <1>1, <3>1 DEF NoRef
    <3>3. QED
      BY <1>5, <2>2, <2>3, <3>1, <3>2 DEF Early
  <2>8. CASE ReadMode(r)
    <3>1. /\ ref[r].pc = "mode" /\ tx' = tx
          /\ ref' = [ref EXCEPT ![r] = [ref[r] EXCEPT !.pc = "apply", !.mode = saved]]
      BY <1>1, <1>3, <2>8 DEF ReadMode
    <3>2. ref'[r].pc = "apply" /\ \A q \in Refresher \ {r} : ref'[q] = ref[q]
      BY <1>1, <3>1 DEF RefState
    <3>3. QED
      BY <1>5, <2>2, <2>3, <3>1, <3>2 DEF Early
  <2>9. CASE Collect(r)
    <3>1. /\ ref[r].pc = "collect" /\ tx' = tx
          /\ ref' = [ref EXCEPT ![r] = [ref[r] EXCEPT !.pc = "drop", !.claimed = Pushed]]
      BY <1>1, <2>9 DEF Collect
    <3>2. ref'[r].pc = "drop" /\ \A q \in Refresher \ {r} : ref'[q] = ref[q]
      BY <1>1, <3>1 DEF RefState
    <3>3. QED
      BY <1>5, <2>2, <2>3, <3>1, <3>2 DEF Early
  <2>10. CASE Drop(r)
    <3>1. /\ ref[r].pc = "drop" /\ tx' = tx
          /\ ref' = [ref EXCEPT ![r] = [ref[r] EXCEPT !.pc = "target", !.previous = {}, !.claimed = {}]]
      BY <1>1, <2>10 DEF Drop
    <3>2. ref'[r].pc = "target" /\ \A q \in Refresher \ {r} : ref'[q] = ref[q]
      BY <1>1, <3>1 DEF RefState
    <3>3. QED
      BY <1>5, <2>2, <2>3, <3>1, <3>2 DEF Early
  <2>11. CASE ReadTarget(r)
    <3>1. /\ ref[r].pc = "target" /\ tx' = tx /\ list' = list
          /\ ref' = [ref EXCEPT ![r] = [ref[r] EXCEPT !.pc = "nvidia", !.target = NvidiaTarget]]
      BY <1>1, <2>11 DEF ReadTarget, listVars
    <3>2. /\ ref'[r].pc = "nvidia" /\ ref'[r].target = NvidiaTarget
          /\ \A q \in Refresher \ {r} : ref'[q] = ref[q]
      BY <1>1, <3>1 DEF RefState
    <3>3. QED
      BY <1>5, <2>2, <2>3, <3>1, <3>2, TargetOfList DEF Early
  <2>12. CASE SyncNvidia(r)
    <3>1. /\ ref[r].pc = "nvidia" /\ tx' = tx /\ list' = list /\ exp' = ref[r].target
          /\ ref' = [ref EXCEPT ![r] = NoRef]
      BY <1>3, <2>12 DEF SyncNvidia, listVars
    <3>2. ref'[r].pc = "idle" /\ \A q \in Refresher \ {r} : ref'[q] = ref[q]
      BY <1>1, <3>1 DEF NoRef
    <3>3. ref[r].target = NvidiaTarget
      BY <1>2, <3>1 DEF TargetCurrent
    <3>4. QED
      BY <1>5, <2>2, <2>3, <3>1, <3>2, <3>3, TargetOfList
  <2>13. QED
    BY <1>7, <2>5, <2>6, <2>7, <2>8, <2>9, <2>10, <2>11, <2>12 DEF RefreshStep
<1>8. QED
  BY <1>6, <1>7

(* A step of a transition: at its end a waiting refresh goes on.              *)
LEMMA NvidiaTxStep ==
  ASSUME SyncInv, NvidiaInv, TxStep, Calm
  PROVE  OneRefresh' /\ TxOfWaiting' /\ TargetCurrent' /\ BlockCurrent'
<1>1. TypeOK /\ OneRefresh /\ TxOfWaiting /\ TargetCurrent /\ BlockCurrent
  BY DEF SyncInv, NvidiaInv
<1>2. list' = list /\ exp' = exp
  BY DEF TxStep, BeginUser, Begin, Refuse, TxRead, TxWrite, WriteMode, Commit, listVars
<1>3. \/ tx.by # Nobody /\ \E ok \in BOOLEAN : Return(ok)
      \/ ref' = ref /\ tx'.by = tx.by
      \/ ref' = ref /\ tx'.by = User
  BY <1>1 DEF TxStep, BeginUser, Begin, Refuse, TxRead, TxWrite, WriteMode, Commit, TypeOK, TxState, NoTx
<1>4. User \notin Refresher /\ Nobody \notin Refresher
  BY SyncAssumption DEF SyncAssumption
<1>5. CASE ref' = ref /\ (tx'.by = tx.by \/ tx'.by = User)
  BY <1>1, <1>2, <1>4, <1>5, TargetOfList DEF OneRefresh, TxOfWaiting, TargetCurrent, BlockCurrent
<1>6. ASSUME tx.by # Nobody, NEW ok \in BOOLEAN, Return(ok)
      PROVE  OneRefresh' /\ TxOfWaiting' /\ TargetCurrent' /\ BlockCurrent'
  <2>1. tx'.by = Nobody
    BY <1>6 DEF Return, NoTx
  <2>2. CASE tx.by = User
    BY <1>1, <1>2, <1>4, <1>6, <2>1, <2>2, TargetOfList
       DEF Return, OneRefresh, TxOfWaiting, TargetCurrent, BlockCurrent
  <2>3. CASE tx.by # User
    <3>1. tx.by \in Refresher
      BY <1>1, <1>6, <2>3 DEF TypeOK, TxState
    <3>2. PICK pc \in {"fallback", "collect"} :
            ref' = [ref EXCEPT ![tx.by] = [ref[tx.by] EXCEPT !.pc = pc, !.mode = "hybrid"]]
      BY <1>1, <1>6, <2>3, <3>1 DEF Return, TypeOK
    <3>3. /\ ref'[tx.by].pc \in {"fallback", "collect"}
          /\ \A q \in Refresher : q # tx.by => ref'[q] = ref[q]
      BY <1>1, <3>1, <3>2 DEF TypeOK, RefState
    <3>4. ref[tx.by].pc # "idle"
      BY <1>1, <3>1 DEF TxOfWaiting
    <3>5. OneRefresh'
      BY <1>1, <3>3, <3>4 DEF OneRefresh
    <3>6. TargetCurrent'
      BY <1>1, <1>2, <3>3, TargetOfList DEF TargetCurrent
    <3>7. BlockCurrent'
      BY <3>1, <3>3 DEF BlockCurrent, Early
    <3>8. QED
      BY <1>4, <2>1, <3>5, <3>6, <3>7 DEF TxOfWaiting
  <2>4. QED
    BY <2>2, <2>3
<1>7. QED
  BY <1>3, <1>5, <1>6

LEMMA NvidiaHolds == Spec => []NvidiaInv
<1>1. Init => NvidiaInv
  <2> SUFFICES ASSUME Init PROVE NvidiaInv
    OBVIOUS
  <2>1. /\ left.fault = MaxFaults /\ exp = NvidiaTarget /\ tx.by = Nobody
        /\ \A r \in Refresher : ref[r].pc = "idle"
    BY DEF Init, NoTx, NoRef
  <2>2. MaxFaults \in Nat /\ Nobody \notin Refresher
    BY SyncAssumption DEF SyncAssumption
  <2>3. QED
    BY <2>1, <2>2 DEF NvidiaInv, OneRefresh, TxOfWaiting, TargetCurrent, BlockCurrent
<1>2. SyncInv /\ NvidiaInv /\ [Next]_vars => NvidiaInv'
  <2> SUFFICES ASSUME SyncInv, NvidiaInv, [Next]_vars
               PROVE  NvidiaInv'
    OBVIOUS
  <2> DEFINE Good == (OneRefresh /\ TxOfWaiting /\ TargetCurrent /\ BlockCurrent)'
  <2>1. left'.fault <= MaxFaults /\ (Calm' => Calm /\ left'.fault = left.fault)
    BY CalmBefore DEF SyncInv, NvidiaInv
  <2>2. SUFFICES ASSUME Calm', Calm, left'.fault = left.fault PROVE Good
    BY <2>1 DEF NvidiaInv
  <2>3. ASSUME NEW r \in Refresher, Snapshot(r) \/ RefreshStep(r) PROVE Good
    BY <2>2, <2>3, NvidiaRefreshStep
  <2>4. CASE TxStep
    BY <2>2, <2>4, NvidiaTxStep
  <2>5. ASSUME UNCHANGED <<list, exp, tx, ref>> PROVE Good
    BY <2>2, <2>5, TargetOfList DEF NvidiaInv, OneRefresh, TxOfWaiting, TargetCurrent, BlockCurrent
  <2>6. CASE CallStep
    BY <2>5, <2>6 DEF CallStep, CallRead, CallWrite, listVars
  <2>7. CASE Daemon
    BY <2>3, <2>4, <2>6, <2>7, SyncAssumption DEF Daemon, SyncAssumption
  <2>8. CASE World
    <3>1. CASE \E r \in Refresher \ {Monitor} : Snapshot(r)
      BY <2>3, <3>1
    <3>2. CASE ~\E r \in Refresher \ {Monitor} : Snapshot(r)
      BY <2>5, <2>8, <3>2 DEF World, Add, RemoveDevice, Bind, Unbind, Hotplug, Ask, SetBlock, listVars
    <3>3. QED
      BY <3>1, <3>2
  <2>9. CASE UNCHANGED vars
    BY <2>5, <2>9 DEF vars, listVars
  <2>10. QED
    BY <2>7, <2>8, <2>9 DEF Next
<1>3. QED
  BY <1>1, <1>2, SyncHolds, PTL DEF Spec

(* While nothing has failed and refreshes do not overlap, the experimental    *)
(* block is for the GPU that has the NVIDIA id in the present list whenever   *)
(* nothing is going on (refresh_gpu ends with sync_nvidia_inodes, and nobody  *)
(* else replaces the list or writes CW_EXP_BLK_INO).                          *)
THEOREM NvidiaFollows == Spec => []NvidiaFollowsList
<1>1. NvidiaInv => NvidiaFollowsList
  BY DEF NvidiaInv, Calm, NvidiaFollowsList, Settled, Quiet, BlockCurrent, Early
<1>2. QED
  BY <1>1, NvidiaHolds, PTL

(***************************************************************************)
(* The list and the mode after hotplugs                                     *)
(***************************************************************************)

(* A reading of the bus that is not ahead of it, and one that is up to date.  *)
Reads(st, at) ==
  \A d \in Device : at[d] <= gen[d] /\ (at[d] = gen[d] /\ bus[d] = "bound" => st[d] = "bound")
Current(st) == \A d \in Device : st[d] = "bound" <=> bus[d] = "bound"

(* Snapshots, and the list of PCI devices that comes from one; once every     *)
(* event has led to a snapshot the latest is up to date.                      *)
SnapsRead ==
  \A r \in Refresher : ref[r].pc = "compare" =>
    Reads(ref[r].snap, ref[r].gen) /\ (events = 0 => Current(ref[r].snap))
ListTaken == \A r \in Refresher : ref[r].pc = "replace" => ref[r].snap = pci.st
EventsHandled == (\A r \in Refresher : ref[r].pc # "compare") /\ events = 0 => Current(pci.st)

(* The GPU list is that of the PCI devices where no driver was bound since.   *)
ListFollows ==
  (\A r \in Refresher : ref[r].pc # "replace") =>
    \A d \in Device : pci.gen[d] = gen[d] =>
      /\ list[d] = "available" => pci.st[d] = "bound"
      /\ pci.st[d] = "bound" /\ bus[d] = "bound" => list[d] = "available"

(* The mode is supported unless a refresh is about to apply one, or could not *)
(* because a driver has gone: then the list is out of date.                   *)
SupportedModes == {m \in Mode : Policy!Supported(m)}
Pending == {"replace", "mode", "apply", "fallback"}
Waiting == \E r \in Refresher : ref[r].pc \in Pending
Stale   == \E d \in Present : bus[d] # "bound" \/ gen[d] # pci.gen[d]
ModeFits == Waiting \/ mode \in SupportedModes \/ Stale
CommitFits ==
  tx.by # Nobody /\ tx.pc = "commit" => tx.mode \in SupportedModes \/ (tx.by = User /\ Waiting)
TodoListed == tx.by # Nobody /\ tx.pc # "commit" => tx.todo \subseteq Present
FallbackIsHybrid == tx.by \in Refresher /\ ref[tx.by].pc = "fallback" => tx.mode = "hybrid"

BusParts == Reads(pci.st, pci.gen) /\ SnapsRead /\ ListTaken /\ EventsHandled /\ ListFollows
ModeParts == ModeFits /\ CommitFits /\ TodoListed /\ FallbackIsHybrid
FitInv == Calm => BusParts /\ ModeParts

LEMMA SupportedOfList == ASSUME list' = list PROVE SupportedModes' = SupportedModes
BY DEF SupportedModes, IdOf, Listed, Present, Policy!Supported, Policy!SystemType, Policy!IsDefault

LEMMA HybridSupported == "hybrid" \in SupportedModes
BY DEF SupportedModes, Policy!Supported, Mode

LEMMA TouchedPresent == ASSUME NEW m PROVE Touched(m) \subseteq Present
BY DEF Touched

(* Steps that leave the devices, the lists and the mode alone.                *)
LEMMA FitUntouched ==
  ASSUME BusParts, ModeParts, UNCHANGED <<bus, gen, events, pci, list, mode, tx, ref>>
  PROVE  BusParts' /\ ModeParts'
<1>1. SupportedModes' = SupportedModes
  BY SupportedOfList
<1>2. BusParts'
  BY DEF BusParts, Reads, Current, SnapsRead, ListTaken, EventsHandled, ListFollows
<1>3. (Waiting' <=> Waiting) /\ (Stale' <=> Stale) /\ Present' = Present
  BY DEF Waiting, Stale, Present
<1>4. ModeParts'
  BY <1>1, <1>3 DEF ModeParts, ModeFits, CommitFits, TodoListed, FallbackIsHybrid
<1>5. QED
  BY <1>2, <1>4

(* A device comes or goes: a reading gets out of date, and says so.           *)
LEMMA FitHotplug ==
  ASSUME TypeOK, BusParts, ModeParts, NEW d \in Device,
         Add(d) \/ RemoveDevice(d) \/ Bind(d) \/ Unbind(d)
  PROVE  BusParts' /\ ModeParts'
<1>1. UNCHANGED <<pci, list, mode, tx, ref>>
  BY DEF Add, RemoveDevice, Bind, Unbind, Hotplug, listVars, modeVars
<1>2. /\ gen \in [Device -> Generation] /\ bus \in [Device -> Status] /\ events \in Nat
      /\ \A e \in Device : gen[e] \in Nat /\ pci.gen[e] \in Nat
      /\ \A r \in Refresher, e \in Device : ref[r].gen[e] \in Nat
  BY DEF TypeOK, Generation, RefState
<1>3. /\ \A e \in Device \ {d} : bus'[e] = bus[e] /\ gen'[e] = gen[e]
      /\ gen'[d] = gen[d] \/ (gen'[d] = gen[d] + 1 /\ events' # 0)
      /\ gen'[d] = gen[d] => bus'[d] # "bound"
      /\ events' = 0 => events = 0 /\ (bus'[d] = "bound" <=> bus[d] = "bound")
  <2>1. CASE Add(d) \/ RemoveDevice(d)
    BY <1>2, <2>1 DEF Add, RemoveDevice, Hotplug
  <2>2. CASE Bind(d)
    BY <1>2, <2>2 DEF Bind, Hotplug
  <2>3. CASE Unbind(d)
    BY <1>2, <2>3 DEF Unbind, Hotplug
  <2>4. QED
    BY <2>1, <2>2, <2>3
<1>4. ASSUME NEW st, NEW at, \A e \in Device : at[e] \in Nat,
             \A e \in Device : at[e] <= gen[e] /\ (at[e] = gen[e] /\ bus[e] = "bound" => st[e] = "bound"),
             NEW e \in Device
      PROVE  at[e] <= gen'[e] /\ (at[e] = gen'[e] /\ bus'[e] = "bound" => st[e] = "bound")
  <2>1. CASE e = d
    BY <1>2, <1>3, <1>4, <2>1
  <2>2. CASE e # d
    BY <1>3, <1>4, <2>2
  <2>3. QED
    BY <2>1, <2>2
<1>5. Reads(pci.st, pci.gen)'
  BY <1>1, <1>2, <1>4 DEF BusParts, Reads
<1>6. SnapsRead'
  <2> SUFFICES ASSUME NEW r \in Refresher, ref'[r].pc = "compare"
               PROVE  Reads(ref[r].snap, ref[r].gen)' /\ (events' = 0 => Current(ref[r].snap)')
    BY DEF SnapsRead
  <2>1. Reads(ref[r].snap, ref[r].gen) /\ (events = 0 => Current(ref[r].snap)) /\ ref' = ref
    BY <1>1 DEF BusParts, SnapsRead
  <2>2. Reads(ref[r].snap, ref[r].gen)'
    BY <1>2, <1>4, <2>1 DEF Reads
  <2>3. events' = 0 => Current(ref[r].snap)'
    BY <1>3, <2>1 DEF Current
  <2>4. QED
    BY <2>2, <2>3
<1>7. ListTaken' /\ EventsHandled'
  BY <1>1, <1>3 DEF BusParts, ListTaken, EventsHandled, Current
<1>8. ListFollows'
  <2> SUFFICES ASSUME \A r \in Refresher : ref[r].pc # "replace", NEW e \in Device, pci.gen[e] = gen'[e]
               PROVE  /\ list[e] = "available" => pci.st[e] = "bound"
                      /\ pci.st[e] = "bound" /\ bus'[e] = "bound" => list[e] = "available"
    BY <1>1 DEF ListFollows
  <2>1. pci.gen[e] = gen[e]
    BY <1>2, <1>3 DEF BusParts, Reads
  <2>2. /\ list[e] = "available" => pci.st[e] = "bound"
        /\ pci.st[e] = "bound" /\ bus[e] = "bound" => list[e] = "available"
    BY <2>1 DEF BusParts, ListFollows
  <2>3. bus'[e] = "bound" => bus[e] = "bound"
    BY <1>3, <2>1
  <2>4. QED
    BY <2>2, <2>3
<1>9. Stale => Stale'
  <2> SUFFICES ASSUME NEW e \in Present, bus[e] # "bound" \/ gen[e] # pci.gen[e]
               PROVE  bus'[e] # "bound" \/ gen'[e] # pci.gen[e]
    BY <1>1 DEF Stale, Present
  <2>1. e \in Device /\ pci.gen[e] <= gen[e]
    BY DEF Present, BusParts, Reads
  <2>2. CASE e = d
    BY <1>2, <1>3, <2>1, <2>2
  <2>3. CASE e # d
    BY <1>3, <2>1, <2>3
  <2>4. QED
    BY <2>2, <2>3
<1>10. SupportedModes' = SupportedModes /\ (Waiting' <=> Waiting) /\ Present' = Present
  BY <1>1, SupportedOfList DEF Waiting, Present
<1>11. ModeParts'
  BY <1>1, <1>9, <1>10 DEF ModeParts, ModeFits, CommitFits, TodoListed, FallbackIsHybrid
<1>12. BusParts'
  BY <1>5, <1>6, <1>7, <1>8 DEF BusParts
<1>13. QED
  BY <1>11, <1>12

(* The only refresh under way is at work: the others are idle and stay so,    *)
(* and a transition under way is the user's or the one it waits for.          *)
LEMMA RefreshAlone ==
  ASSUME SyncInv, NvidiaInv, Calm, Calm', left'.fault = left.fault,
         NEW r \in Refresher, Snapshot(r) \/ RefreshStep(r)
  PROVE  /\ ~Fault
         /\ \A q \in Refresher \ {r} : ref[q].pc = "idle" /\ ref'[q] = ref[q]
         /\ tx.by \in Refresher => tx.by = r /\ ref[r].pc \in {"apply", "fallback"}
         /\ (Waiting <=> ref[r].pc \in Pending) /\ (Waiting' <=> ref'[r].pc \in Pending)
<1>1. /\ ref \in [Refresher -> RefState] /\ ref[r] \in RefState /\ left \in LeftState
  BY DEF SyncInv, TypeOK
<1>2. OneRefresh /\ TxOfWaiting
  BY DEF NvidiaInv
<1>3. ~Fault
  BY <1>1 DEF Fault, LeftState
<1>4. \A q \in Refresher \ {r} : ref[q].pc = "idle" /\ ref'[q] = ref[q]
  <2>1. CASE Snapshot(r)
    BY <1>1, <1>3, <2>1 DEF Snapshot, Calm
  <2>2. CASE RefreshStep(r)
    <3>1. ref[r].pc # "idle"
      BY <2>2 DEF RefreshStep, Compare, Replace, ReadMode, BeginRefresh, Collect, Drop, ReadTarget, SyncNvidia
    <3>2. \E new : ref' = [ref EXCEPT ![r] = new]
      <4>1. CASE BeginRefresh(r)
        <5>1. ref' = [ref EXCEPT ![r] = ref[r]]
          BY <1>1, <4>1 DEF BeginRefresh, Begin
        <5>2. QED
          BY <5>1
      <4>2. CASE Compare(r) \/ Replace(r)
        BY <4>2 DEF Compare, Replace
      <4>3. CASE ReadMode(r) \/ Collect(r) \/ Drop(r)
        BY <4>3 DEF ReadMode, Collect, Drop
      <4>4. CASE ReadTarget(r) \/ SyncNvidia(r)
        BY <4>4 DEF ReadTarget, SyncNvidia
      <4>5. QED
        BY <2>2, <4>1, <4>2, <4>3, <4>4 DEF RefreshStep
    <3>3. QED
      BY <1>1, <1>2, <3>1, <3>2 DEF OneRefresh
  <2>3. QED
    BY <2>1, <2>2
<1>5. tx.by \in Refresher => tx.by = r /\ ref[r].pc \in {"apply", "fallback"}
  BY <1>2, <1>4 DEF TxOfWaiting
<1>6. (Waiting <=> ref[r].pc \in Pending) /\ (Waiting' <=> ref'[r].pc \in Pending)
  BY <1>4 DEF Waiting, Pending
<1>7. QED
  BY <1>3, <1>4, <1>5, <1>6

(* A step of the only refresh under way.                                      *)
LEMMA FitRefresh ==
  ASSUME SyncInv, NvidiaInv, BusParts, ModeParts, Calm, Calm', left'.fault = left.fault,
         NEW r \in Refresher, Snapshot(r) \/ RefreshStep(r)
  PROVE  BusParts' /\ ModeParts'
<1>1. /\ ref \in [Refresher -> RefState] /\ ref[r] \in RefState /\ left \in LeftState
      /\ gen \in [Device -> Generation] /\ pci.gen \in [Device -> Nat] /\ events \in Nat
  BY DEF SyncInv, TypeOK
<1>2. OneRefresh /\ TxOfWaiting
  BY DEF NvidiaInv
<1>3. ~Fault
  BY <1>1 DEF Fault, LeftState
<1>4. Nobody \notin Refresher /\ User \notin Refresher
  BY SyncAssumption DEF SyncAssumption
<1>5. UNCHANGED <<bus, gen, mode>>
  BY DEF Snapshot, RefreshStep, Compare, Replace, ReadMode, BeginRefresh, Begin, Collect, Drop, ReadTarget,
     SyncNvidia, worldVars, modeVars
<1>6. \A q \in Refresher \ {r} : ref[q].pc = "idle" /\ ref'[q] = ref[q]
  BY RefreshAlone
<1>7. tx.by \in Refresher => tx.by = r /\ ref[r].pc \in {"apply", "fallback"}
  BY RefreshAlone
<1>8. (Waiting <=> ref[r].pc \in Pending) /\ (Waiting' <=> ref'[r].pc \in Pending)
  BY RefreshAlone
(* Steps that only move the refresh on.                                       *)
<1>9. ASSUME UNCHANGED <<events, pci, list, tx>>, ref'[r].pc \notin {"compare", "replace"},
             ref[r].pc \notin {"compare", "replace", "apply", "fallback"},
             ref[r].pc \in Pending => ref'[r].pc \in Pending
      PROVE  BusParts' /\ ModeParts'
  <2>1. SupportedModes' = SupportedModes /\ (Stale' <=> Stale) /\ Present' = Present
    BY <1>5, <1>9, SupportedOfList DEF Stale, Present
  <2>2. BusParts'
    BY <1>5, <1>6, <1>9 DEF BusParts, Reads, Current, SnapsRead, ListTaken, EventsHandled, ListFollows
  <2>3. Waiting => Waiting'
    BY <1>8, <1>9
  <2>4. tx.by \notin Refresher
    BY <1>7, <1>9
  <2>5. ModeParts'
    BY <1>5, <1>9, <2>1, <2>3, <2>4 DEF ModeParts, ModeFits, CommitFits, TodoListed, FallbackIsHybrid
  <2>6. QED
    BY <2>2, <2>5
<1>10. CASE Snapshot(r)
  <2>1. /\ ref[r].pc = "idle" /\ UNCHANGED <<pci, list, tx>>
        /\ ref' = [ref EXCEPT ![r] = [ref[r] EXCEPT !.pc = "compare", !.snap = bus, !.gen = gen]]
    BY <1>1, <1>3, <1>10 DEF Snapshot, listVars
  <2>2. ref'[r].pc = "compare" /\ ref'[r].snap = bus /\ ref'[r].gen = gen
    BY <1>1, <2>1 DEF RefState
  <2>3. \A d \in Device : gen[d] \in Nat
    BY <1>1 DEF Generation
  <2>4. SnapsRead'
    BY <1>5, <1>6, <2>2, <2>3 DEF SnapsRead, Reads, Current
  <2>5. Reads(pci.st, pci.gen)' /\ ListTaken' /\ EventsHandled'
    BY <1>5, <1>6, <2>1, <2>2 DEF BusParts, Reads, ListTaken, EventsHandled
  <2>6. ListFollows'
    BY <1>5, <1>6, <2>1 DEF BusParts, ListFollows
  <2>7. SupportedModes' = SupportedModes /\ (Stale' <=> Stale) /\ Present' = Present
    BY <1>5, <2>1, SupportedOfList DEF Stale, Present
  <2>8. ~Waiting /\ tx.by \notin Refresher
    BY <1>7, <1>8, <2>1 DEF Pending
  <2>9. ModeParts'
    BY <1>5, <2>1, <2>7, <2>8 DEF ModeParts, ModeFits, CommitFits, TodoListed, FallbackIsHybrid
  <2>10. QED
    BY <2>4, <2>5, <2>6, <2>9 DEF BusParts
<1>11. CASE Compare(r)
  <2>1. ref[r].pc = "compare" /\ UNCHANGED <<events, list, tx>>
    BY <1>11 DEF Compare, worldVars
  <2>2. SupportedModes' = SupportedModes /\ Present' = Present /\ ~Waiting /\ tx.by \notin Refresher
    BY <1>7, <1>8, <2>1, SupportedOfList DEF Present, Pending
  <2>3. Reads(ref[r].snap, ref[r].gen) /\ (events = 0 => Current(ref[r].snap))
    BY <2>1 DEF BusParts, SnapsRead
  <2>4. CASE ref[r].snap = pci.st
    <3>1. ref'[r].pc = "idle" /\ pci' = pci
      BY <1>1, <1>11, <2>4 DEF Compare, NoRef
    <3>2. SnapsRead' /\ ListTaken'
      BY <1>6, <3>1 DEF SnapsRead, ListTaken
    <3>3. Reads(pci.st, pci.gen)' /\ EventsHandled'
      BY <1>5, <2>1, <2>3, <2>4, <3>1 DEF BusParts, Reads, EventsHandled, Current
    <3>4. ListFollows'
      BY <1>5, <1>6, <2>1, <3>1 DEF BusParts, ListFollows
    <3>5. Stale' <=> Stale
      BY <1>5, <2>2, <3>1 DEF Stale
    <3>6. ModeParts'
      BY <1>5, <2>1, <2>2, <3>5 DEF ModeParts, ModeFits, CommitFits, TodoListed, FallbackIsHybrid
    <3>7. QED
      BY <3>2, <3>3, <3>4, <3>6 DEF BusParts
  <2>5. CASE ref[r].snap # pci.st
    <3>1. /\ ref' = [ref EXCEPT ![r] = [ref[r] EXCEPT !.pc = "replace"]]
          /\ pci' = [st |-> ref[r].snap, gen |-> ref[r].gen]
      BY <1>1, <1>11, <2>5 DEF Compare
    <3>2. ref'[r].pc = "replace" /\ ref'[r].snap = ref[r].snap
      BY <1>1, <3>1 DEF RefState
    <3>3. pci'.st = ref[r].snap /\ pci'.gen = ref[r].gen
      BY <3>1
    <3>4. SnapsRead' /\ ListTaken' /\ ListFollows'
      BY <1>6, <3>2, <3>3 DEF SnapsRead, ListTaken, ListFollows
    <3>5. Reads(pci.st, pci.gen)' /\ EventsHandled'
      BY <1>5, <2>1, <2>3, <3>3 DEF Reads, EventsHandled, Current
    <3>6. Waiting'
      BY <1>8, <3>2 DEF Pending
    <3>7. ModeParts'
      BY <2>1, <2>2, <3>6 DEF ModeParts, ModeFits, CommitFits, TodoListed, FallbackIsHybrid
    <3>8. QED
      BY <3>4, <3>5, <3>7 DEF BusParts
  <2>6. QED
    BY <2>4, <2>5
<1>12. CASE Replace(r)
  <2>1. /\ ref[r].pc = "replace" /\ UNCHANGED <<events, pci, tx>>
        /\ ref' = [ref EXCEPT ![r] = [NoRef EXCEPT !.pc = "mode", !.previous = Pushed]]
        /\ tx.by = Nobody \/ tx.pc = "commit"
        /\ list' = [d \in Device |-> IF ref[r].snap[d] = "gone" THEN "absent"
                                     ELSE IF bus[d] = "bound" THEN "available" ELSE "unavailable"]
    BY <1>3, <1>12 DEF Replace, worldVars
  <2>2. ref'[r].pc = "mode"
    BY <1>1, <2>1 DEF NoRef
  <2>3. SnapsRead' /\ ListTaken'
    BY <1>6, <2>2 DEF SnapsRead, ListTaken
  <2>4. ref[r].snap = pci.st
    BY <2>1 DEF BusParts, ListTaken
  <2>5. Reads(pci.st, pci.gen)' /\ EventsHandled'
    BY <1>5, <1>6, <2>1 DEF BusParts, Reads, EventsHandled, Current
  <2>6. ListFollows'
    <3> SUFFICES ASSUME NEW d \in Device, pci.gen[d] = gen[d]
                 PROVE  /\ list'[d] = "available" => pci.st[d] = "bound"
                        /\ pci.st[d] = "bound" /\ bus[d] = "bound" => list'[d] = "available"
      BY <1>5, <2>1 DEF ListFollows
    <3>1. bus[d] = "bound" => pci.st[d] = "bound"
      BY DEF BusParts, Reads
    <3>2. QED
      BY <2>1, <2>4, <3>1
  <2>7. Waiting /\ Waiting' /\ tx.by \notin Refresher
    BY <1>7, <1>8, <2>1, <2>2 DEF Pending
  <2>8. tx.by \in {User, Nobody}
    BY <2>7 DEF SyncInv, TypeOK, TxState
  <2>9. ModeParts'
    BY <2>1, <2>7, <2>8 DEF ModeParts, ModeFits, CommitFits, TodoListed, FallbackIsHybrid
  <2>10. QED
    BY <2>3, <2>5, <2>6, <2>9 DEF BusParts
<1>13. CASE ReadMode(r)
  <2>1. /\ ref[r].pc = "mode" /\ UNCHANGED <<events, pci, list, tx>>
        /\ ref' = [ref EXCEPT ![r] = [ref[r] EXCEPT !.pc = "apply", !.mode = saved]]
    BY <1>1, <1>3, <1>13 DEF ReadMode, worldVars, listVars
  <2>2. ref'[r].pc = "apply"
    BY <1>1, <2>1 DEF RefState
  <2>3. QED
    BY <1>9, <2>1, <2>2 DEF Pending
<1>14. CASE BeginRefresh(r)
  <2>1. /\ ref[r].pc \in {"apply", "fallback"} /\ UNCHANGED <<events, pci, list, ref>>
        /\ \E m : tx' = [NoTx EXCEPT !.by = r, !.mode = m, !.save = FALSE, !.todo = Touched(m)]
                  /\ (ref[r].pc = "fallback" => m = "hybrid")
    BY <1>14 DEF BeginRefresh, Begin, worldVars, listVars
  <2>2. /\ tx'.by = r /\ tx'.pc = "read" /\ tx'.todo \subseteq Present
        /\ ref[r].pc = "fallback" => tx'.mode = "hybrid"
    BY <2>1, TouchedPresent DEF NoTx
  <2>3. BusParts'
    BY <1>5, <2>1 DEF BusParts, Reads, Current, SnapsRead, ListTaken, EventsHandled, ListFollows
  <2>4. Waiting' /\ Present' = Present
    BY <1>8, <2>1 DEF Pending, Present
  <2>5. ModeParts'
    BY <1>4, <2>1, <2>2, <2>4 DEF ModeParts, ModeFits, CommitFits, TodoListed, FallbackIsHybrid
  <2>6. QED
    BY <2>3, <2>5
<1>15. CASE Collect(r)
  <2>1. /\ ref[r].pc = "collect" /\ UNCHANGED <<events, pci, list, tx>>
        /\ ref' = [ref EXCEPT ![r] = [ref[r] EXCEPT !.pc = "drop", !.claimed = Pushed]]
    BY <1>1, <1>15 DEF Collect, worldVars, listVars
  <2>2. ref'[r].pc = "drop"
    BY <1>1, <2>1 DEF RefState
  <2>3. QED
    BY <1>9, <2>1, <2>2 DEF Pending
<1>16. CASE Drop(r)
  <2>1. /\ ref[r].pc = "drop" /\ UNCHANGED <<events, pci, list, tx>>
        /\ ref' = [ref EXCEPT ![r] = [ref[r] EXCEPT !.pc = "target", !.previous = {}, !.claimed = {}]]
    BY <1>1, <1>16 DEF Drop, worldVars, listVars
  <2>2. ref'[r].pc = "target"
    BY <1>1, <2>1 DEF RefState
  <2>3. QED
    BY <1>9, <2>1, <2>2 DEF Pending
<1>17. CASE ReadTarget(r)
  <2>1. /\ ref[r].pc = "target" /\ UNCHANGED <<events, pci, list, tx>>
        /\ ref' = [ref EXCEPT ![r] = [ref[r] EXCEPT !.pc = "nvidia", !.target = NvidiaTarget]]
    BY <1>1, <1>17 DEF ReadTarget, worldVars, listVars
  <2>2. ref'[r].pc = "nvidia"
    BY <1>1, <2>1 DEF RefState
  <2>3. QED
    BY <1>9, <2>1, <2>2 DEF Pending
<1>18. CASE SyncNvidia(r)
  <2>1. /\ ref[r].pc = "nvidia" /\ UNCHANGED <<events, pci, list, tx>> /\ ref' = [ref EXCEPT ![r] = NoRef]
    BY <1>18 DEF SyncNvidia, worldVars, listVars
  <2>2. ref'[r].pc = "idle"
    BY <1>1, <2>1 DEF NoRef
  <2>3. QED
    BY <1>9, <2>1, <2>2 DEF Pending
<1>19. QED
  BY <1>10, <1>11, <1>12, <1>13, <1>14, <1>15, <1>16, <1>17, <1>18 DEF RefreshStep

(* A step of a transition: the list stays, and so does what is out of date.   *)
LEMMA FitTx ==
  ASSUME SyncInv, NvidiaInv, BusParts, ModeParts, Calm, left'.fault = left.fault, TxStep
  PROVE  BusParts' /\ ModeParts'
<1>1. /\ ref \in [Refresher -> RefState] /\ left \in LeftState /\ tx \in TxState
      /\ \A q \in Refresher : ref[q] \in RefState
  BY DEF SyncInv, TypeOK
<1>2. ~Fault
  BY <1>1 DEF Fault, LeftState
<1>3. Nobody \notin Refresher /\ User \notin Refresher /\ User # Nobody
  BY SyncAssumption DEF SyncAssumption
<1>4. UNCHANGED <<bus, gen, events, pci, list>>
  BY DEF TxStep, BeginUser, Begin, Refuse, TxRead, TxWrite, WriteMode, Commit, worldVars, listVars
<1>5. SupportedModes' = SupportedModes /\ (Stale' <=> Stale) /\ Present' = Present
  BY <1>4, SupportedOfList DEF Stale, Present
<1>6. TxOfWaiting
  BY DEF NvidiaInv
(* It goes on.                                                                *)
<1>7. ASSUME UNCHANGED <<ref, mode>>, tx'.by \in {tx.by, User},
             tx'.by # Nobody /\ tx'.pc = "commit" => tx'.mode \in SupportedModes,
             tx'.by # Nobody /\ tx'.pc # "commit" => tx'.todo \subseteq Present,
             tx'.by # User => tx'.mode = tx.mode
      PROVE  BusParts' /\ ModeParts'
  <2>1. BusParts'
    BY <1>4, <1>7 DEF BusParts, Reads, Current, SnapsRead, ListTaken, EventsHandled, ListFollows
  <2>2. Waiting' <=> Waiting
    BY <1>7 DEF Waiting
  <2>3. FallbackIsHybrid'
    BY <1>3, <1>7 DEF ModeParts, FallbackIsHybrid
  <2>4. QED
    BY <1>5, <1>7, <2>1, <2>2, <2>3 DEF ModeParts, ModeFits, CommitFits, TodoListed
(* It ends.                                                                   *)
<1>8. ASSUME tx.by # Nobody, NEW ok \in BOOLEAN, Return(ok),
             tx.by = User => mode' = mode \/ mode' \in SupportedModes \/ Waiting,
             tx.by \in Refresher /\ (ok \/ ref[tx.by].pc = "fallback") => mode' \in SupportedModes \/ Stale
      PROVE  BusParts' /\ ModeParts'
  <2>1. tx'.by = Nobody
    BY <1>8 DEF Return, NoTx
  <2>2. ModeFits' => ModeParts'
    BY <1>3, <2>1 DEF ModeParts, CommitFits, TodoListed, FallbackIsHybrid
  <2>3. CASE tx.by = User
    <3>1. ref' = ref
      BY <1>8, <2>3 DEF Return
    <3>2. BusParts'
      BY <1>4, <3>1 DEF BusParts, Reads, Current, SnapsRead, ListTaken, EventsHandled, ListFollows
    <3>3. ModeFits'
      BY <1>5, <1>8, <2>3, <3>1 DEF ModeParts, ModeFits, Waiting
    <3>4. QED
      BY <2>2, <3>2, <3>3
  <2>4. CASE tx.by # User
    <3>1. tx.by \in Refresher
      BY <1>1, <1>8, <2>4 DEF TxState
    <3>2. ref[tx.by].pc \in {"apply", "fallback"}
      BY <1>6, <3>1 DEF TxOfWaiting
    <3>3. ref' = [ref EXCEPT ![tx.by] = [ref[tx.by] EXCEPT
                    !.pc = IF ~ok /\ ref[tx.by].pc = "apply" THEN "fallback" ELSE "collect", !.mode = "hybrid"]]
      BY <1>1, <1>8, <2>4, <3>1 DEF Return
    <3>4. /\ ref'[tx.by].pc = IF ~ok /\ ref[tx.by].pc = "apply" THEN "fallback" ELSE "collect"
          /\ \A q \in Refresher : q # tx.by => ref'[q] = ref[q]
      BY <1>1, <3>1, <3>3 DEF RefState
    <3>5. BusParts'
      BY <1>4, <3>1, <3>2, <3>4
         DEF BusParts, Reads, Current, SnapsRead, ListTaken, EventsHandled, ListFollows
    <3>6. ModeFits'
      <4>1. CASE ~ok /\ ref[tx.by].pc = "apply"
        BY <3>1, <3>4, <4>1 DEF ModeFits, Waiting, Pending
      <4>2. CASE ~(~ok /\ ref[tx.by].pc = "apply")
        BY <1>5, <1>8, <3>1, <3>2, <4>2 DEF ModeFits
      <4>3. QED
        BY <4>1, <4>2
    <3>7. QED
      BY <2>2, <3>5, <3>6
  <2>5. QED
    BY <2>3, <2>4
<1>9. CASE BeginUser
  <2>1. /\ UNCHANGED <<ref, mode>>
        /\ \E m, save : tx' = [NoTx EXCEPT !.by = User, !.mode = m, !.save = save, !.todo = Touched(m)]
    BY <1>9 DEF BeginUser, Begin, modeVars
  <2>2. tx'.by = User /\ tx'.pc = "read" /\ tx'.todo \subseteq Present
    BY <2>1, TouchedPresent DEF NoTx
  <2>3. QED
    BY <1>7, <2>1, <2>2
<1>10. CASE Refuse
  <2>1. tx.by # Nobody /\ Return(FALSE) /\ mode' = mode /\ tx.mode \notin SupportedModes
    BY <1>10 DEF Refuse, modeVars, SupportedModes
  <2>2. tx.by \in Refresher => ref[tx.by].pc # "fallback"
    BY <2>1, HybridSupported DEF ModeParts, FallbackIsHybrid
  <2>3. QED
    BY <1>8, <2>1, <2>2
<1>11. CASE TxRead
  <2>1. PICK d \in tx.todo : IF bus[d] = "bound"
          THEN tx' = [tx EXCEPT !.pc = "write", !.dev = d, !.keys = KeysOf(d)] /\ UNCHANGED <<user, ref>>
          ELSE Return(FALSE)
    BY <1>11 DEF TxRead
  <2>2. tx.by # Nobody /\ tx.pc = "read" /\ mode' = mode
    BY <1>11 DEF TxRead, modeVars
  <2>3. tx.todo \subseteq Present
    BY <2>2 DEF ModeParts, TodoListed
  <2>4. CASE bus[d] = "bound"
    <3>1. tx'.by = tx.by /\ tx'.pc = "write" /\ tx'.todo = tx.todo /\ tx'.mode = tx.mode /\ ref' = ref
      BY <1>1, <2>1, <2>4 DEF TxState
    <3>2. QED
      BY <1>7, <2>2, <2>3, <3>1
  <2>5. CASE bus[d] # "bound"
    <3>1. Stale
      BY <2>3, <2>5 DEF Stale
    <3>2. QED
      BY <1>8, <2>1, <2>2, <2>5, <3>1
  <2>6. QED
    BY <2>4, <2>5
<1>12. CASE TxWrite
  <2>1. /\ tx' = [tx EXCEPT !.pc = "read", !.todo = tx.todo \ {tx.dev}, !.dev = 0, !.keys = {}]
        /\ UNCHANGED <<ref, mode>> /\ tx.by # Nobody /\ tx.pc = "write"
    BY <1>1, <1>2, <1>12 DEF TxWrite, modeVars, TxState
  <2>2. tx'.by = tx.by /\ tx'.pc = "read" /\ tx'.todo \subseteq tx.todo /\ tx'.mode = tx.mode
    BY <1>1, <2>1 DEF TxState
  <2>3. tx.todo \subseteq Present
    BY <2>1 DEF ModeParts, TodoListed
  <2>4. QED
    BY <1>7, <2>1, <2>2, <2>3
<1>13. CASE WriteMode
  <2>1. /\ tx' = [tx EXCEPT !.pc = "commit"] /\ UNCHANGED <<ref, mode>>
        /\ Policy!Supported(tx.mode)
    BY <1>2, <1>13 DEF WriteMode, modeVars
  <2>2. tx'.by = tx.by /\ tx'.pc = "commit" /\ tx'.mode = tx.mode
    BY <1>1, <2>1 DEF TxState
  <2>3. tx.mode \in SupportedModes
    BY <1>1, <2>1 DEF SupportedModes, TxState
  <2>4. QED
    BY <1>7, <2>1, <2>2, <2>3
<1>14. CASE Commit
  <2>1. tx.by # Nobody /\ tx.pc = "commit" /\ mode' = tx.mode /\ Return(TRUE)
    BY <1>14 DEF Commit
  <2>2. tx.mode \in SupportedModes \/ (tx.by = User /\ Waiting)
    BY <2>1 DEF ModeParts, CommitFits
  <2>3. QED
    BY <1>3, <1>8, <2>1, <2>2
<1>15. QED
  BY <1>9, <1>10, <1>11, <1>12, <1>13, <1>14 DEF TxStep

LEMMA FitHolds == Spec => []FitInv
<1>1. Init => FitInv
  <2> SUFFICES ASSUME Init PROVE FitInv
    OBVIOUS
  <2>1. /\ tx.by = Nobody /\ pci.st = bus /\ pci.gen = gen /\ mode \in SupportedModes
        /\ \A r \in Refresher : ref[r].pc = "idle"
        /\ \A d \in Device : list[d] = "available" <=> bus[d] = "bound"
    BY DEF Init, NoTx, NoRef, SupportedModes
  <2>2. Nobody \notin Refresher /\ \A d \in Device : gen[d] \in Nat
    BY InitInv, SyncAssumption DEF SyncAssumption, SyncInv, TypeOK, Generation
  <2>3. BusParts
    BY <2>1, <2>2 DEF BusParts, Reads, Current, SnapsRead, ListTaken, EventsHandled, ListFollows
  <2>4. ModeParts
    BY <2>1, <2>2 DEF ModeParts, ModeFits, CommitFits, TodoListed, FallbackIsHybrid
  <2>5. QED
    BY <2>3, <2>4 DEF FitInv
<1>2. SyncInv /\ NvidiaInv /\ FitInv /\ [Next]_vars => FitInv'
  <2> SUFFICES ASSUME SyncInv, NvidiaInv, FitInv, [Next]_vars, Calm', Calm, left'.fault = left.fault
               PROVE  BusParts' /\ ModeParts'
    BY CalmBefore DEF SyncInv, NvidiaInv, FitInv
  <2>1. BusParts /\ ModeParts /\ TypeOK
    BY DEF FitInv, SyncInv
  <2>2. ASSUME NEW r \in Refresher, Snapshot(r) \/ RefreshStep(r) PROVE BusParts' /\ ModeParts'
    BY <2>1, <2>2, FitRefresh
  <2>3. CASE TxStep
    BY <2>1, <2>3, FitTx
  <2>4. ASSUME NEW d \in Device, Add(d) \/ RemoveDevice(d) \/ Bind(d) \/ Unbind(d)
        PROVE  BusParts' /\ ModeParts'
    BY <2>1, <2>4, FitHotplug
  <2>5. CASE CallStep \/ (\E m \in Mode, save \in BOOLEAN : Ask(m, save))
             \/ (\E d \in Device, block \in BOOLEAN : SetBlock(d, block)) \/ UNCHANGED vars
    <3>1. UNCHANGED <<bus, gen, events, pci, list, mode, tx, ref>>
      BY <2>5 DEF CallStep, CallRead, CallWrite, Ask, SetBlock, vars, worldVars, listVars, modeVars
    <3>2. QED
      BY <2>1, <3>1, FitUntouched
  <2>6. QED
    BY <2>2, <2>3, <2>4, <2>5, SyncAssumption DEF Next, Daemon, World, SyncAssumption
<1>3. QED
  BY <1>1, <1>2, SyncHolds, NvidiaHolds, PTL DEF Spec

(* Once hotplug events are handled the list is that of the bound devices and  *)
(* the mode is one they support, whatever requests, transitions and further   *)
(* hotplugs came in between (refresh_gpu, its fallback to Hybrid, the lock of *)
(* gpu_list that a transition holds until it has written the mode).           *)
THEOREM ModeFollows == Spec => []ModeFitsBus
<1>1. SyncInv /\ FitInv => ModeFitsBus
  <2> SUFFICES ASSUME FitInv, Settled, Noticed
               PROVE  Present = {d \in Device : bus[d] = "bound"} /\ Policy!Supported(mode)
    BY DEF ModeFitsBus
  <2>1. BusParts /\ ModeParts /\ events = 0 /\ \A r \in Refresher : ref[r].pc = "idle"
    BY DEF FitInv, Calm, Settled, Quiet
  <2>2. \A d \in Device : (list[d] = "available" <=> pci.st[d] = "bound")
                          /\ (pci.st[d] = "bound" <=> bus[d] = "bound")
    BY <2>1 DEF BusParts, EventsHandled, Current, ListFollows, Noticed
  <2>3. Present = {d \in Device : bus[d] = "bound"}
    BY <2>2 DEF Present
  <2>4. ~Waiting /\ ~Stale
    BY <2>1, <2>3 DEF Waiting, Pending, Stale, Noticed
  <2>5. mode \in SupportedModes
    BY <2>1, <2>4 DEF ModeParts, ModeFits
  <2>6. QED
    BY <2>3, <2>5 DEF SupportedModes
<1>2. QED
  BY <1>1, SyncHolds, FitHolds, PTL

(***************************************************************************)
(* The map after hotplugs                                                   *)
(***************************************************************************)

KeysAt(d, g) == {<<d, g>>} \cup (IF d \in Bridged THEN {Bridge} ELSE {})
OwnKeys == [d \in Device |-> KeysOf(d)]
Ids     == [d \in Device |-> IdOf(d)]
Hiding  == [m \in Mode |-> [d \in Device |-> Hides(m, d)]]
Others  == Present \ {0}
Replacing == \E r \in Refresher : ref[r].pc = "replace"

(* The GPUs whose present keys are in their pushed list, and those whose keys *)
(* are in the map as a mode says.                                            *)
Recorded == {d \in Device : OwnKeys[d] \subseteq pushed[d]}
Entered ==
  [m \in Mode |->
    {d \in Device :
      /\ <<d, gen[d]>> \notin strays =>
           /\ map[<<d, gen[d]>>].id = Ids[d]
           /\ m # "manual" => map[<<d, gen[d]>>].blocked = Hiding[m][d]
      /\ d \in Bridged => Held(Bridge)}]

(* The integrated GPU is always there. *)
ZeroListed ==
  /\ bus[0] = "bound" /\ list[0] # "absent"
  /\ \A r \in Refresher : ref[r].pc \in {"compare", "replace"} => ref[r].snap[0] # "gone"

(* A pushed list is one reading of a GPU's inodes; those of a transition or a *)
(* call are too, and present unless the list is out of date or about to be    *)
(* replaced.                                                                 *)
PushedWhole == \A d \in Device : pushed[d] = {} \/ \E g \in Generation : pushed[d] = KeysAt(d, g)
TxAtWork ==
  tx.by # Nobody =>
    /\ tx.pc = "commit" => tx.todo = {}
    /\ tx.pc = "write" => /\ tx.mode \in SupportedModes /\ tx.dev \in Present
                          /\ \E g \in Generation : tx.keys = KeysAt(tx.dev, g)
                          /\ OwnKeys[tx.dev] \subseteq tx.keys \/ Stale \/ Replacing
CallAtWork ==
  call.pc # "idle" =>
    /\ call.pc = "write" => /\ \E g \in Generation : call.keys = KeysAt(call.dev, g)
                            /\ \/ call.beside = "refresh" \/ Stale \/ Replacing
                               \/ OwnKeys[call.dev] \subseteq call.keys
    /\ call.beside # "refresh" => call.dev \in Present
    /\ call.beside = "nothing" => tx.by = Nobody /\ mode = "manual" /\ call.id = Ids[call.dev]
ClaimedKept ==
  \A r \in Refresher : ref[r].pc = "drop" => Stale \/ \A d \in Others : OwnKeys[d] \subseteq ref[r].claimed

(* What the map owes the devices: everything unless a refresh is about to     *)
(* apply a mode or the list is out of date; while a transition is at work,    *)
(* what the old mode says is due until it starts and what the new one says    *)
(* for the GPUs it has dealt with.                                           *)
AllRecorded == Waiting \/ Stale \/ Others \subseteq Recorded
AllEntered ==
  Waiting \/ Stale \/ (tx.by # Nobody /\ tx.mode \in SupportedModes) \/ Others \subseteq Entered[mode]
TxEntered ==
  tx.by # Nobody =>
    (tx.by = User /\ Waiting) \/ Stale \/ Others \ tx.todo \subseteq Recorded \cap Entered[tx.mode]

WorkParts == ZeroListed /\ PushedWhole /\ TxAtWork /\ CallAtWork /\ ClaimedKept
OweParts  == AllRecorded /\ AllEntered /\ TxEntered
MapInv == Calm => WorkParts /\ OweParts

(* What depends on the lists and the devices alone. *)
LEMMA OfList ==
  ASSUME list' = list
  PROVE  Ids' = Ids /\ Hiding' = Hiding /\ Others' = Others /\ Present' = Present
         /\ SupportedModes' = SupportedModes
<1>1. Ids' = Ids /\ Present' = Present /\ Listed' = Listed
  BY DEF Ids, IdOf, Listed, Present
<1>2. \A d \in Device : IdOf(d)' = IdOf(d)
  BY DEF IdOf, Listed
<1>3. Hiding' = Hiding
  BY DEF Hiding, Hides, IdOf, Listed, Present, Policy!Hidden, Policy!Offload, Policy!IsDefault, Policy!Blockable
<1>4. QED
  BY <1>1, <1>3, SupportedOfList DEF Others

LEMMA OfData ==
  ASSUME UNCHANGED <<bus, gen, pci, list, pushed, map, strays>>
  PROVE  OwnKeys' = OwnKeys /\ (Stale' <=> Stale) /\ Recorded' = Recorded /\ Entered' = Entered
<1>1. OwnKeys' = OwnKeys /\ Ids' = Ids /\ Hiding' = Hiding /\ Present' = Present
  BY OfList DEF OwnKeys, KeysOf
<1>2. Recorded' = Recorded
  BY <1>1 DEF Recorded
<1>3. Entered' = Entered
  BY <1>1 DEF Entered, Held
<1>4. QED
  BY <1>1, <1>2, <1>3 DEF Stale

LEMMA KeysAtFacts ==
  ASSUME TypeOK
  PROVE  /\ \A d \in Device : OwnKeys[d] = KeysAt(d, gen[d]) /\ gen[d] \in Generation
         /\ \A d \in Device, e \in Device : \A g \in Generation, h \in Generation :
              /\ <<d, g>> \in KeysAt(e, h) <=> d = e /\ g = h
              /\ KeysAt(d, g) \ KeysAt(d, h) \subseteq {<<d, g>>}
              /\ Bridge \in KeysAt(d, g) <=> d \in Bridged
              /\ <<d, g>> # Bridge /\ <<d, g>> \in Key /\ KeysAt(d, g) \subseteq Key
<1>1. \A d \in Device : gen[d] \in Generation
  BY DEF TypeOK
<1>2. \A d \in Device : OwnKeys[d] = KeysAt(d, gen[d])
  BY DEF OwnKeys, KeysOf, KeysAt
<1>3. ASSUME NEW d \in Device, NEW g \in Generation PROVE <<d, g>> # Bridge /\ <<d, g>> \in Key
  BY SyncAssumption DEF SyncAssumption, Generation, Key
<1>4. ASSUME NEW d \in Device, NEW e \in Device, NEW g \in Generation, NEW h \in Generation
      PROVE  /\ <<d, g>> \in KeysAt(e, h) <=> d = e /\ g = h
             /\ KeysAt(d, g) \ KeysAt(d, h) \subseteq {<<d, g>>}
             /\ Bridge \in KeysAt(d, g) <=> d \in Bridged
             /\ KeysAt(d, g) \subseteq Key
  <2>1. <<d, g>> # Bridge /\ <<d, g>> \in Key
    BY <1>3
  <2>2. <<d, g>> \in KeysAt(e, h) <=> d = e /\ g = h
    BY <2>1 DEF KeysAt
  <2>3. KeysAt(d, g) \ KeysAt(d, h) \subseteq {<<d, g>>} /\ KeysAt(d, g) \subseteq Key
    BY <2>1 DEF KeysAt, Key
  <2>4. Bridge \in KeysAt(d, g) <=> d \in Bridged
    BY <2>1 DEF KeysAt
  <2>5. QED
    BY <2>2, <2>3, <2>4
<1>5. QED
  BY <1>1, <1>2, <1>3, <1>4

(* Every mode deals with all GPUs but the default one. *)
LEMMA OthersTouched ==
  ASSUME ZeroListed, NEW m \in Mode
  PROVE  Others \subseteq Touched(m)
<1> SUFFICES ASSUME NEW d \in Others PROVE IdOf(d) \in Policy!Touched(m)
  BY DEF Touched, Others
<1>1. d \in Present /\ d \in Device /\ d # 0 /\ d \in Listed
  BY DEF Others, Present, Listed
<1>2. IdOf(d) # 0
  <2> DEFINE S == {e \in Listed : e < d}
  <2>1. Device \subseteq Nat /\ IsFiniteSet(Device) /\ 0 \in Device
    BY SyncAssumption DEF SyncAssumption
  <2>2. S \in SUBSET Device /\ 0 \in S
    BY <1>1, <2>1 DEF Listed, ZeroListed
  <2>3. IsFiniteSet(S)
    BY <2>1, <2>2, FS_Subset
  <2>4. QED
    BY <2>2, <2>3, FS_EmptySet DEF IdOf
<1>3. IdOf(d) \in {IdOf(e) : e \in Present} /\ IdOf(d) \in {IdOf(e) : e \in Listed \ {0}}
  BY <1>1
<1>4. QED
  BY <1>2, <1>3 DEF Policy!Touched, Policy!Offload, Policy!IsDefault, Mode

(* A device comes or goes: what it makes wrong is out of date. *)
LEMMA HotplugAges ==
  ASSUME TypeOK, Reads(pci.st, pci.gen), NEW d \in Device, Add(d) \/ RemoveDevice(d) \/ Bind(d) \/ Unbind(d)
  PROVE  /\ Stale => Stale'
         /\ ~Stale' => \A e \in Present : gen'[e] = gen[e]
<1>1. /\ UNCHANGED <<pci, list>> /\ Present' = Present
      /\ gen \in [Device -> Generation] /\ bus \in [Device -> Status]
      /\ \A e \in Device : gen[e] \in Nat /\ pci.gen[e] \in Nat
  BY DEF Add, RemoveDevice, Bind, Unbind, Hotplug, listVars, Present, TypeOK, Generation
<1>2. /\ \A e \in Device \ {d} : bus'[e] = bus[e] /\ gen'[e] = gen[e]
      /\ (gen'[d] = gen[d] /\ bus'[d] # "bound") \/ gen'[d] = gen[d] + 1
  <2>1. CASE Add(d) \/ RemoveDevice(d)
    BY <1>1, <2>1 DEF Add, RemoveDevice, Hotplug
  <2>2. CASE Bind(d)
    BY <1>1, <2>2 DEF Bind, Hotplug
  <2>3. CASE Unbind(d)
    BY <1>1, <2>3 DEF Unbind, Hotplug
  <2>4. QED
    BY <2>1, <2>2, <2>3
<1>3. ASSUME NEW e \in Present
      PROVE  /\ bus[e] # "bound" \/ gen[e] # pci.gen[e] => bus'[e] # "bound" \/ gen'[e] # pci.gen[e]
             /\ gen'[e] # gen[e] => gen'[e] # pci.gen[e]
  <2>1. e \in Device /\ pci.gen[e] <= gen[e]
    BY DEF Present, Reads
  <2>2. CASE e = d
    BY <1>1, <1>2, <2>1, <2>2
  <2>3. CASE e # d
    BY <1>2, <2>1, <2>3
  <2>4. QED
    BY <2>2, <2>3
<1>4. QED
  BY <1>1, <1>3 DEF Stale

LEMMA MapHotplug ==
  ASSUME TypeOK, Reads(pci.st, pci.gen), WorkParts, OweParts, NEW d \in Device,
         Add(d) \/ RemoveDevice(d) \/ Bind(d) \/ Unbind(d)
  PROVE  WorkParts' /\ OweParts'
<1>1. UNCHANGED <<pci, list, pushed, map, strays, mode, tx, ref, call>>
  BY DEF Add, RemoveDevice, Bind, Unbind, Hotplug, listVars, modeVars
<1>2. Stale => Stale'
  BY HotplugAges
<1>3. /\ Ids' = Ids /\ Hiding' = Hiding /\ Others' = Others /\ Present' = Present
      /\ SupportedModes' = SupportedModes /\ (Waiting' <=> Waiting) /\ (Replacing' <=> Replacing)
  BY <1>1, OfList DEF Waiting, Replacing
<1>4. \A e \in Present : e \in Device /\ (~Stale' => gen'[e] = gen[e] /\ OwnKeys'[e] = OwnKeys[e])
  BY HotplugAges DEF OwnKeys, KeysOf, Present
<1>5. ASSUME ~Stale' PROVE /\ Others \cap Recorded \subseteq Recorded'
                           /\ \A m \in Mode : Others \cap Entered[m] \subseteq Entered'[m]
  <2>1. \A e \in Others : e \in Present /\ gen'[e] = gen[e] /\ OwnKeys'[e] = OwnKeys[e]
    BY <1>4, <1>5 DEF Others
  <2>2. Others \cap Recorded \subseteq Recorded'
    BY <1>1, <2>1 DEF Recorded
  <2>3. \A m \in Mode : Others \cap Entered[m] \subseteq Entered'[m]
    BY <1>1, <1>3, <2>1 DEF Entered, Held
  <2>4. QED
    BY <2>2, <2>3
<1>6. mode \in Mode /\ tx.mode \in Mode
  BY DEF TypeOK, TxState
<1>7. OweParts'
  BY <1>1, <1>2, <1>3, <1>5, <1>6 DEF OweParts, AllRecorded, AllEntered, TxEntered
<1>8. ZeroListed'
  <2>1. d # 0 /\ bus' = [bus EXCEPT ![d] = bus'[d]]
    BY DEF Add, RemoveDevice, Bind, Unbind, Hotplug, TypeOK
  <2>2. 0 \in Device
    BY SyncAssumption DEF SyncAssumption
  <2>3. QED
    BY <1>1, <2>1, <2>2 DEF WorkParts, ZeroListed, TypeOK
<1>9. PushedWhole'
  BY <1>1 DEF WorkParts, PushedWhole
<1>10. TxAtWork'
  BY <1>1, <1>2, <1>3, <1>4 DEF WorkParts, TxAtWork
<1>11. CallAtWork'
  BY <1>1, <1>2, <1>3, <1>4 DEF WorkParts, CallAtWork
<1>12. ClaimedKept'
  <2>1. \A e \in Others : e \in Present
    BY DEF Others
  <2>2. QED
    BY <1>1, <1>2, <1>3, <1>4, <2>1 DEF WorkParts, ClaimedKept
<1>13. QED
  BY <1>7, <1>8, <1>9, <1>10, <1>11, <1>12 DEF WorkParts

(* Steps that only move refreshes on. *)
LEMMA MapMoves ==
  ASSUME WorkParts, OweParts,
         UNCHANGED <<bus, gen, pci, list, pushed, map, strays, mode, tx, call>>,
         Waiting => Waiting', Replacing => Replacing', ClaimedKept',
         \A r \in Refresher : ref'[r].pc \in {"compare", "replace"} => ref'[r].snap[0] # "gone"
  PROVE  WorkParts' /\ OweParts'
<1>1. OwnKeys' = OwnKeys /\ (Stale' <=> Stale) /\ Recorded' = Recorded /\ Entered' = Entered
  BY OfData
<1>2. Ids' = Ids /\ Others' = Others /\ Present' = Present /\ SupportedModes' = SupportedModes
  BY OfList
<1>3. OweParts'
  BY <1>1, <1>2 DEF OweParts, AllRecorded, AllEntered, TxEntered
<1>4. ZeroListed' /\ PushedWhole'
  BY DEF WorkParts, ZeroListed, PushedWhole
<1>5. TxAtWork' /\ CallAtWork'
  BY <1>1, <1>2 DEF WorkParts, TxAtWork, CallAtWork
<1>6. QED
  BY <1>3, <1>4, <1>5 DEF WorkParts

(* Dropping what the present list has not claimed takes no present key. *)
LEMMA MapDrop ==
  ASSUME SyncInv, WorkParts, OweParts, NEW r \in Refresher, ~Fault, Drop(r),
         \A q \in Refresher \ {r} : ref[q].pc = "idle" /\ ref'[q] = ref[q]
  PROVE  WorkParts' /\ OweParts'
<1>1. TypeOK /\ ref \in [Refresher -> RefState] /\ ref[r] \in RefState
  BY DEF SyncInv, TypeOK
<1>2. /\ ref[r].pc = "drop" /\ UNCHANGED <<bus, gen, pci, list, pushed, strays, mode, tx, call>>
      /\ map' = Remove(map, ref[r].previous \ ref[r].claimed)
      /\ ref' = [ref EXCEPT ![r] = [ref[r] EXCEPT !.pc = "target", !.previous = {}, !.claimed = {}]]
  BY <1>1 DEF Drop, worldVars, listVars, modeVars
<1>3. ref'[r].pc = "target"
  BY <1>1, <1>2 DEF RefState
<1>4. (Waiting' <=> Waiting) /\ (Replacing' <=> Replacing) /\ ClaimedKept'
  BY <1>2, <1>3 DEF Waiting, Replacing, Pending, ClaimedKept
<1>5. /\ Ids' = Ids /\ Hiding' = Hiding /\ Others' = Others /\ Present' = Present
      /\ SupportedModes' = SupportedModes /\ OwnKeys' = OwnKeys
  BY <1>2, OfList DEF OwnKeys, KeysOf
<1>6. (Stale' <=> Stale) /\ Recorded' = Recorded
  BY <1>2, <1>5 DEF Stale, Recorded
<1>7. ASSUME ~Stale, NEW m \in Mode PROVE Others \cap Entered[m] \subseteq Entered'[m]
  <2> SUFFICES ASSUME NEW d \in Others, d \in Entered[m] PROVE d \in Entered'[m]
    OBVIOUS
  <2>1. d \in Device /\ OwnKeys[d] \subseteq ref[r].claimed
    BY <1>2, <1>7 DEF WorkParts, ClaimedKept, Others, Present
  <2>2. /\ <<d, gen[d]>> \in OwnKeys[d] /\ <<d, gen[d]>> \in Key
        /\ d \in Bridged => Bridge \in OwnKeys[d]
    BY <1>1, <2>1, KeysAtFacts
  <2>3. \A k \in OwnKeys[d] \cap Key : map'[k] = map[k]
    BY <1>2, <2>1 DEF Remove
  <2>4. Bridge \in Key
    BY DEF Key
  <2>5. map'[<<d, gen[d]>>] = map[<<d, gen[d]>>] /\ (d \in Bridged => map'[Bridge] = map[Bridge])
    BY <2>2, <2>3, <2>4
  <2>6. QED
    BY <1>2, <1>5, <2>1, <2>5 DEF Entered, Held
<1>8. mode \in Mode /\ tx.mode \in Mode
  BY <1>1 DEF TypeOK, TxState
<1>9. OweParts'
  BY <1>2, <1>4, <1>5, <1>6, <1>7, <1>8 DEF OweParts, AllRecorded, AllEntered, TxEntered
<1>10. ZeroListed' /\ PushedWhole'
  BY <1>2, <1>3 DEF WorkParts, ZeroListed, PushedWhole
<1>11. TxAtWork' /\ CallAtWork'
  BY <1>2, <1>4, <1>5, <1>6 DEF WorkParts, TxAtWork, CallAtWork
<1>12. QED
  BY <1>4, <1>9, <1>10, <1>11 DEF WorkParts

(* The step after which a refresh waits makes up for whatever it changes.     *)
LEMMA MapRefresh ==
  ASSUME SyncInv, NvidiaInv, WorkParts, OweParts, Calm, Calm', left'.fault = left.fault,
         NEW r \in Refresher, Snapshot(r) \/ (RefreshStep(r) /\ ~BeginRefresh(r))
  PROVE  WorkParts' /\ OweParts'
<1>1. /\ ref \in [Refresher -> RefState] /\ ref[r] \in RefState /\ TypeOK
  BY DEF SyncInv, TypeOK
<1>2. /\ ~Fault
      /\ \A q \in Refresher \ {r} : ref[q].pc = "idle" /\ ref'[q] = ref[q]
      /\ tx.by \in Refresher => tx.by = r /\ ref[r].pc \in {"apply", "fallback"}
      /\ (Waiting <=> ref[r].pc \in Pending) /\ (Waiting' <=> ref'[r].pc \in Pending)
  BY RefreshAlone
<1>3. (Replacing <=> ref[r].pc = "replace") /\ (Replacing' <=> ref'[r].pc = "replace")
  BY <1>2 DEF Replacing
<1>4. ZeroListed /\ PushedWhole /\ TxAtWork /\ CallAtWork /\ ClaimedKept
  BY DEF WorkParts
<1>5. 0 \in Device
  BY SyncAssumption DEF SyncAssumption
(* Steps that only move the refresh on.                                       *)
<1>6. ASSUME UNCHANGED <<bus, gen, pci, list, pushed, map, strays, mode, tx, call>>,
             ref[r].pc # "replace", ref[r].pc \in Pending => ref'[r].pc \in Pending,
             ref'[r].pc # "drop", ref'[r].pc \in {"compare", "replace"} => ref'[r].snap[0] # "gone"
      PROVE  WorkParts' /\ OweParts'
  <2>1. ClaimedKept'
    BY <1>2, <1>6 DEF ClaimedKept
  <2>2. \A q \in Refresher : ref'[q].pc \in {"compare", "replace"} => ref'[q].snap[0] # "gone"
    BY <1>2, <1>6
  <2>3. QED
    BY <1>2, <1>3, <1>6, <2>1, <2>2, MapMoves
<1>7. CASE Snapshot(r)
  <2>1. /\ ref[r].pc = "idle" /\ UNCHANGED <<bus, gen, pci, list, pushed, map, strays, mode, tx, call>>
        /\ ref' = [ref EXCEPT ![r] = [ref[r] EXCEPT !.pc = "compare", !.snap = bus, !.gen = gen]]
    BY <1>1, <1>2, <1>7 DEF Snapshot, listVars, modeVars
  <2>2. ref'[r].pc = "compare" /\ ref'[r].snap[0] # "gone"
    BY <1>1, <1>4, <2>1 DEF RefState, ZeroListed
  <2>3. QED
    BY <1>6, <2>1, <2>2 DEF Pending
<1>8. CASE Compare(r)
  <2>1. /\ ref[r].pc = "compare" /\ UNCHANGED <<bus, gen, list, pushed, map, strays, mode, tx, call>>
    BY <1>8 DEF Compare, worldVars, modeVars
  <2>2. CASE ref[r].snap = pci.st
    <3>1. pci' = pci /\ ref'[r].pc = "idle"
      BY <1>1, <1>8, <2>2 DEF Compare, NoRef
    <3>2. QED
      BY <1>6, <2>1, <3>1 DEF Pending
  <2>3. CASE ref[r].snap # pci.st
    <3>1. ref' = [ref EXCEPT ![r] = [ref[r] EXCEPT !.pc = "replace"]]
      BY <1>1, <1>8, <2>3 DEF Compare
    <3>2. ref'[r].pc = "replace" /\ ref'[r].snap = ref[r].snap
      BY <1>1, <3>1 DEF RefState
    <3>3. Waiting' /\ Replacing' /\ tx.by \in {User, Nobody}
      BY <1>1, <1>2, <1>3, <2>1, <3>2 DEF Pending, TypeOK, TxState
    <3>4. /\ Ids' = Ids /\ Others' = Others /\ Present' = Present /\ SupportedModes' = SupportedModes
          /\ OwnKeys' = OwnKeys
      BY <2>1, OfList DEF OwnKeys, KeysOf
    <3>5. OweParts'
      BY <2>1, <3>3 DEF OweParts, AllRecorded, AllEntered, TxEntered
    <3>6. ZeroListed' /\ PushedWhole'
      BY <1>2, <1>4, <2>1, <3>2 DEF ZeroListed, PushedWhole
    <3>7. TxAtWork'
      BY <1>4, <2>1, <3>3, <3>4 DEF TxAtWork
    <3>8. CallAtWork'
      BY <1>4, <2>1, <3>3, <3>4 DEF CallAtWork
    <3>9. ClaimedKept'
      BY <1>2, <3>2 DEF ClaimedKept
    <3>10. QED
      BY <3>5, <3>6, <3>7, <3>8, <3>9 DEF WorkParts
  <2>4. QED
    BY <2>2, <2>3
<1>9. CASE Replace(r)
  <2>1. /\ ref[r].pc = "replace" /\ UNCHANGED <<bus, tx, mode>>
        /\ ref' = [ref EXCEPT ![r] = [NoRef EXCEPT !.pc = "mode", !.previous = Pushed]]
        /\ tx.by = Nobody \/ tx.pc = "commit"
        /\ list' = [d \in Device |-> IF ref[r].snap[d] = "gone" THEN "absent"
                                     ELSE IF bus[d] = "bound" THEN "available" ELSE "unavailable"]
        /\ pushed' = [d \in Device |-> {}]
        /\ call' = IF call.pc = "idle" THEN call ELSE [call EXCEPT !.beside = "refresh"]
    BY <1>2, <1>9 DEF Replace, worldVars, modeVars
  <2>2. ref'[r].pc = "mode"
    BY <1>1, <2>1 DEF NoRef
  <2>3. Waiting' /\ tx.by \in {User, Nobody}
    BY <1>1, <1>2, <2>1, <2>2 DEF Pending, TypeOK, TxState
  <2>4. OweParts'
    BY <2>1, <2>3 DEF OweParts, AllRecorded, AllEntered, TxEntered
  <2>5. ZeroListed'
    BY <1>2, <1>4, <1>5, <2>1, <2>2 DEF ZeroListed
  <2>6. PushedWhole' /\ TxAtWork' /\ ClaimedKept'
    BY <1>2, <1>4, <2>1, <2>2 DEF PushedWhole, TxAtWork, ClaimedKept
  <2>7. call.pc # "idle" => call'.pc = call.pc /\ call'.beside = "refresh" /\ call'.dev = call.dev
                            /\ call'.keys = call.keys
    BY <1>1, <2>1 DEF TypeOK, CallState
  <2>8. call.pc = "idle" => call' = call
    BY <2>1
  <2>9. CallAtWork'
    BY <1>4, <2>7, <2>8 DEF CallAtWork
  <2>10. QED
    BY <2>4, <2>5, <2>6, <2>9 DEF WorkParts
<1>10. CASE ReadMode(r)
  <2>1. /\ ref[r].pc = "mode" /\ UNCHANGED <<bus, gen, pci, list, pushed, map, strays, mode, tx, call>>
        /\ ref' = [ref EXCEPT ![r] = [ref[r] EXCEPT !.pc = "apply", !.mode = saved]]
    BY <1>1, <1>2, <1>10 DEF ReadMode, worldVars, listVars, modeVars
  <2>2. ref'[r].pc = "apply"
    BY <1>1, <2>1 DEF RefState
  <2>3. QED
    BY <1>6, <2>1, <2>2 DEF Pending
<1>11. CASE Collect(r)
  <2>1. /\ ref[r].pc = "collect" /\ UNCHANGED <<bus, gen, pci, list, pushed, map, strays, mode, tx, call>>
        /\ ref' = [ref EXCEPT ![r] = [ref[r] EXCEPT !.pc = "drop", !.claimed = Pushed]]
    BY <1>1, <1>11 DEF Collect, worldVars, listVars, modeVars
  <2>2. ref'[r].pc = "drop" /\ ref'[r].claimed = Pushed
    BY <1>1, <2>1 DEF RefState
  <2>3. Stale \/ Others \subseteq Recorded
    BY <1>2, <2>1 DEF OweParts, AllRecorded, Pending
  <2>4. Stale \/ \A d \in Others : OwnKeys[d] \subseteq Pushed
    BY <2>3 DEF Recorded, Pushed, Others, Present
  <2>5. OwnKeys' = OwnKeys /\ Others' = Others /\ (Stale' <=> Stale)
    BY <2>1, OfData, OfList
  <2>6. ClaimedKept'
    BY <1>2, <2>2, <2>4, <2>5 DEF ClaimedKept
  <2>7. \A q \in Refresher : ref'[q].pc \in {"compare", "replace"} => ref'[q].snap[0] # "gone"
    BY <1>2, <2>2
  <2>8. ~Waiting /\ ~Replacing
    BY <1>2, <1>3, <2>1 DEF Pending
  <2>9. QED
    BY <2>1, <2>6, <2>7, <2>8, MapMoves
<1>12. CASE Drop(r)
  BY <1>2, <1>12, MapDrop
<1>13. CASE ReadTarget(r)
  <2>1. /\ ref[r].pc = "target" /\ UNCHANGED <<bus, gen, pci, list, pushed, map, strays, mode, tx, call>>
        /\ ref' = [ref EXCEPT ![r] = [ref[r] EXCEPT !.pc = "nvidia", !.target = NvidiaTarget]]
    BY <1>1, <1>13 DEF ReadTarget, worldVars, listVars, modeVars
  <2>2. ref'[r].pc = "nvidia"
    BY <1>1, <2>1 DEF RefState
  <2>3. QED
    BY <1>6, <2>1, <2>2 DEF Pending
<1>14. CASE SyncNvidia(r)
  <2>1. /\ ref[r].pc = "nvidia" /\ UNCHANGED <<bus, gen, pci, list, pushed, map, strays, mode, tx, call>>
        /\ ref' = [ref EXCEPT ![r] = NoRef]
    BY <1>14 DEF SyncNvidia, worldVars, listVars, modeVars
  <2>2. ref'[r].pc = "idle"
    BY <1>1, <2>1 DEF NoRef
  <2>3. QED
    BY <1>6, <2>1, <2>2 DEF Pending
<1>15. QED
  BY <1>7, <1>8, <1>9, <1>10, <1>11, <1>12, <1>13, <1>14 DEF RefreshStep

(* A sync_inodes that does not fail, with the inodes that GPU dev had at      *)
(* generation g; what it puts into the map.                                  *)
SyncedTo(dev, g, old, id, blocked) ==
  /\ old = {} \/ old = pushed[dev]
  /\ map' = Enter(Remove(map, old \ KeysAt(dev, g)), KeysAt(dev, g), id, blocked)
  /\ UNCHANGED <<bus, gen, pci, list>>
  /\ pushed' = pushed \/ pushed' = [pushed EXCEPT ![dev] = KeysAt(dev, g)]
  /\ strays \ KeysAt(dev, g) \subseteq strays'

LEMMA SyncedMap ==
  ASSUME TypeOK, PushedWhole, NEW dev \in Device, NEW g \in Generation, NEW old, NEW id \in Id,
         NEW blocked, SyncedTo(dev, g, old, id, blocked)
  PROVE  /\ \A d \in Device \ {dev} : map'[<<d, gen[d]>>] = map[<<d, gen[d]>>]
         /\ dev \in Bridged => Held(Bridge)'
         /\ Held(Bridge) => Held(Bridge)'
         /\ OwnKeys[dev] \subseteq KeysAt(dev, g) =>
              map'[<<dev, gen[dev]>>] = [id |-> id, blocked |-> blocked]
<1> DEFINE keys == KeysAt(dev, g)
<1>b. /\ old = {} \/ old = pushed[dev]
      /\ map' = Enter(Remove(map, old \ keys), keys, id, blocked)
      /\ gen' = gen
  BY DEF SyncedTo
<1>a. keys = KeysAt(dev, g)
  OBVIOUS
<1> HIDE DEF keys
<1>1. old \ keys \subseteq {<<dev, h>> : h \in Generation}
  <2>1. CASE old = {}
    BY <2>1
  <2>2. CASE old = pushed[dev] /\ old # {}
    <3>1. PICK h \in Generation : old = KeysAt(dev, h)
      BY <2>2 DEF PushedWhole
    <3>2. old \ keys \subseteq {<<dev, h>>}
      BY <1>a, <3>1, KeysAtFacts
    <3>3. QED
      BY <3>2
  <2>3. QED
    BY <1>b, <2>1, <2>2
<1>2. \A k \in Key : map'[k] = IF k \in keys THEN [id |-> id, blocked |-> blocked]
                              ELSE IF k \in old \ keys THEN NoEntry ELSE map[k]
  BY <1>b DEF Enter, Remove
<1>3. \A d \in Device : gen[d] \in Generation /\ <<d, gen[d]>> \in Key /\ <<d, gen[d]>> # Bridge
  BY KeysAtFacts
<1>4. \A d \in Device \ {dev} : map'[<<d, gen[d]>>] = map[<<d, gen[d]>>]
  <2> SUFFICES ASSUME NEW d \in Device \ {dev} PROVE <<d, gen[d]>> \notin keys /\ <<d, gen[d]>> \notin old \ keys
    BY <1>2, <1>3
  <2>1. <<d, gen[d]>> \notin keys
    BY <1>a, <1>3, KeysAtFacts
  <2>2. QED
    BY <1>1, <2>1
<1>5. Bridge \in Key /\ Bridge \notin old \ keys
  BY <1>a, <1>1, KeysAtFacts DEF Key
<1>6. id # NoGpu
  BY IdFacts
<1>7. (dev \in Bridged => Held(Bridge)') /\ (Held(Bridge) => Held(Bridge)')
  <2>1. dev \in Bridged => Bridge \in keys
    BY <1>a, KeysAtFacts
  <2>2. map'[Bridge] = IF Bridge \in keys THEN [id |-> id, blocked |-> blocked] ELSE map[Bridge]
    BY <1>2, <1>5
  <2>3. QED
    BY <1>6, <2>1, <2>2 DEF Held
<1>8. OwnKeys[dev] \subseteq keys => map'[<<dev, gen[dev]>>] = [id |-> id, blocked |-> blocked]
  <2>1. <<dev, gen[dev]>> \in OwnKeys[dev]
    BY <1>3, KeysAtFacts
  <2>2. QED
    BY <1>b, <1>2, <1>3, <2>1
<1>9. QED
  BY <1>a, <1>4, <1>7, <1>8

(* A sync of one GPU leaves the others as they were, and is about the keys    *)
(* the GPU has now.                                                          *)
LEMMA SyncedParts ==
  ASSUME TypeOK, PushedWhole, NEW dev \in Device, NEW g \in Generation, NEW old, NEW id \in Id,
         NEW blocked, SyncedTo(dev, g, old, id, blocked), NEW m \in Mode
  PROVE  /\ PushedWhole' /\ OwnKeys' = OwnKeys
         /\ Recorded \ {dev} \subseteq Recorded' /\ Entered[m] \ {dev} \subseteq Entered'[m]
         /\ OwnKeys[dev] \subseteq KeysAt(dev, g) =>
              /\ pushed'[dev] = KeysAt(dev, g) \/ dev \in Recorded => dev \in Recorded'
              /\ \/ KeysAt(dev, g) \subseteq strays'
                 \/ id = Ids[dev] /\ (m = "manual" \/ blocked = Hiding[m][dev])
                 => dev \in Entered'[m]
         /\ old = {} /\ KeysAt(dev, g) \subseteq strays' => Entered[m] \subseteq Entered'[m]
<1> DEFINE keys == KeysAt(dev, g)
<1>1. OwnKeys' = OwnKeys /\ Ids' = Ids /\ Hiding' = Hiding /\ gen' = gen
  BY OfList DEF OwnKeys, KeysOf, SyncedTo
<1>2. /\ \A d \in Device \ {dev} : map'[<<d, gen[d]>>] = map[<<d, gen[d]>>]
      /\ dev \in Bridged => Held(Bridge)'
      /\ Held(Bridge) => Held(Bridge)'
      /\ OwnKeys[dev] \subseteq keys => map'[<<dev, gen[dev]>>] = [id |-> id, blocked |-> blocked]
  BY SyncedMap
<1>3. /\ pushed' = pushed \/ pushed' = [pushed EXCEPT ![dev] = keys]
      /\ strays \ keys \subseteq strays'
      /\ \A d \in Device : <<d, gen[d]>> \in keys => d = dev
      /\ keys = KeysAt(dev, g)
  BY KeysAtFacts DEF SyncedTo
<1>a. pushed \in [Device -> SUBSET Key]
  BY DEF TypeOK
<1> HIDE DEF keys
<1>4. \A d \in Device : pushed'[d] = pushed[d] \/ (d = dev /\ pushed'[d] = keys)
  BY <1>a, <1>3
<1>5. PushedWhole'
  BY <1>3, <1>4 DEF PushedWhole
<1>6. Recorded \ {dev} \subseteq Recorded'
  BY <1>1, <1>4 DEF Recorded
<1>7. Entered[m] \ {dev} \subseteq Entered'[m]
  <2> SUFFICES ASSUME NEW d \in Device \ {dev}, d \in Entered[m] PROVE d \in Entered'[m]
    BY DEF Entered
  <2>1. <<d, gen[d]>> \notin strays' => <<d, gen[d]>> \notin strays
    BY <1>3
  <2>2. QED
    BY <1>1, <1>2, <2>1 DEF Entered
<1>8. ASSUME OwnKeys[dev] \subseteq keys
      PROVE  /\ pushed'[dev] = keys \/ dev \in Recorded => dev \in Recorded'
             /\ \/ keys \subseteq strays'
                \/ id = Ids[dev] /\ (m = "manual" \/ blocked = Hiding[m][dev])
                => dev \in Entered'[m]
  <2>1. pushed'[dev] = keys \/ dev \in Recorded => dev \in Recorded'
    BY <1>1, <1>4, <1>8 DEF Recorded
  <2>2. <<dev, gen[dev]>> \in keys
    BY <1>8, KeysAtFacts
  <2>3. map'[<<dev, gen[dev]>>].id = id /\ map'[<<dev, gen[dev]>>].blocked = blocked
    BY <1>2, <1>8
  <2>4. ASSUME keys \subseteq strays' \/ (id = Ids[dev] /\ (m = "manual" \/ blocked = Hiding[m][dev]))
        PROVE  dev \in Entered'[m]
    <3>1. <<dev, gen[dev]>> \notin strays' => id = Ids[dev] /\ (m = "manual" \/ blocked = Hiding[m][dev])
      BY <2>2, <2>4
    <3>2. QED
      BY <1>1, <1>2, <2>3, <3>1 DEF Entered
  <2>5. QED
    BY <2>1, <2>4
<1>9. ASSUME old = {}, keys \subseteq strays', dev \in Entered[m] PROVE dev \in Entered'[m]
  <2>1. <<dev, gen[dev]>> \in Key
    BY KeysAtFacts
  <2>2. map' = Enter(Remove(map, {}), keys, id, blocked)
    BY <1>3, <1>9 DEF SyncedTo
  <2>3. <<dev, gen[dev]>> \notin keys => map'[<<dev, gen[dev]>>] = map[<<dev, gen[dev]>>]
    BY <2>1, <2>2 DEF Enter, Remove
  <2>4. <<dev, gen[dev]>> \notin strays' => <<dev, gen[dev]>> \notin keys \cup strays
    BY <1>3, <1>9
  <2>5. QED
    BY <1>1, <1>2, <1>9, <2>3, <2>4 DEF Entered
<1>10. old = {} /\ keys \subseteq strays' => Entered[m] \subseteq Entered'[m]
  BY <1>7, <1>9
<1>11. QED
  BY <1>1, <1>3, <1>5, <1>6, <1>7, <1>8, <1>10

(* How the caller of a transition goes on. *)
LEMMA ReturnMoves ==
  ASSUME TypeOK, TxOfWaiting, tx.by # Nobody, NEW ok \in BOOLEAN, Return(ok)
  PROVE  /\ tx'.by = Nobody /\ tx.by \in Refresher \cup {User}
         /\ tx.by = User => ref' = ref
         /\ tx.by \in Refresher =>
              /\ ref[tx.by].pc \in {"apply", "fallback"}
              /\ ref'[tx.by].pc = IF ~ok /\ ref[tx.by].pc = "apply" THEN "fallback" ELSE "collect"
         /\ \A q \in Refresher : q # tx.by => ref'[q] = ref[q]
<1>1. tx'.by = Nobody /\ tx.by \in Refresher \cup {User} /\ User \notin Refresher
  BY SyncAssumption DEF Return, NoTx, TypeOK, TxState, SyncAssumption
<1>2. CASE tx.by = User
  BY <1>1, <1>2 DEF Return
<1>3. CASE tx.by # User
  <2>1. tx.by \in Refresher /\ ref[tx.by].pc \in {"apply", "fallback"}
        /\ ref \in [Refresher -> RefState] /\ ref[tx.by] \in RefState
    BY <1>1, <1>3 DEF TxOfWaiting, TypeOK
  <2>2. ref' = [ref EXCEPT ![tx.by] = [ref[tx.by] EXCEPT
                  !.pc = IF ~ok /\ ref[tx.by].pc = "apply" THEN "fallback" ELSE "collect", !.mode = "hybrid"]]
    BY <1>3, <2>1 DEF Return
  <2>3. /\ ref'[tx.by].pc = IF ~ok /\ ref[tx.by].pc = "apply" THEN "fallback" ELSE "collect"
        /\ \A q \in Refresher : q # tx.by => ref'[q] = ref[q]
    BY <2>1, <2>2 DEF RefState
  <2>4. QED
    BY <1>1, <1>3, <2>1, <2>3
<1>4. QED
  BY <1>2, <1>3

(* A transition that ends owes nothing any more. *)
LEMMA MapReturn ==
  ASSUME TypeOK, TxOfWaiting, WorkParts, tx.by # Nobody, NEW ok \in BOOLEAN, Return(ok),
         UNCHANGED <<bus, gen, pci, list, pushed, map, strays, call>>,
         \/ Stale \/ Others \subseteq Recorded \cap Entered[mode']
         \/ tx.by = User /\ Waiting
         \/ ~ok /\ tx.by \in Refresher /\ ref[tx.by].pc = "apply"
  PROVE  WorkParts' /\ OweParts'
<1>1. /\ tx'.by = Nobody /\ tx.by \in Refresher \cup {User}
      /\ tx.by = User => ref' = ref
      /\ tx.by \in Refresher =>
           /\ ref[tx.by].pc \in {"apply", "fallback"}
           /\ ref'[tx.by].pc = IF ~ok /\ ref[tx.by].pc = "apply" THEN "fallback" ELSE "collect"
      /\ \A q \in Refresher : q # tx.by => ref'[q] = ref[q]
  BY ReturnMoves
<1>2. OwnKeys' = OwnKeys /\ (Stale' <=> Stale) /\ Recorded' = Recorded /\ Entered' = Entered
  BY OfData
<1>3. Ids' = Ids /\ Others' = Others /\ Present' = Present /\ SupportedModes' = SupportedModes
  BY OfList
<1>4. \A q \in Refresher : ref'[q] = ref[q] \/ (q = tx.by /\ ref'[q].pc \in {"fallback", "collect"})
  BY <1>1
<1>5. Replacing' <=> Replacing
  BY <1>1, <1>4 DEF Replacing
<1>6. ClaimedKept'
  BY <1>2, <1>3, <1>4 DEF WorkParts, ClaimedKept
<1>7. ZeroListed' /\ PushedWhole'
  BY <1>4 DEF WorkParts, ZeroListed, PushedWhole
<1>8. TxAtWork' /\ TxEntered'
  BY <1>1 DEF TxAtWork, TxEntered
<1>9. CallAtWork'
  BY <1>2, <1>3, <1>5 DEF WorkParts, CallAtWork
<1>10. AllRecorded' /\ AllEntered'
  <2>1. tx.by = User => (Waiting' <=> Waiting)
    BY <1>1 DEF Waiting
  <2>2. ~ok /\ tx.by \in Refresher /\ ref[tx.by].pc = "apply" => Waiting'
    BY <1>1 DEF Waiting, Pending
  <2>3. QED
    BY <1>2, <1>3, <2>1, <2>2 DEF AllRecorded, AllEntered
<1>11. QED
  BY <1>6, <1>7, <1>8, <1>9, <1>10 DEF WorkParts, OweParts

(* A transition: GPU by GPU it enters what its mode says.                     *)
LEMMA MapTx ==
  ASSUME SyncInv, NvidiaInv, ModeParts, WorkParts, OweParts, Calm, left'.fault = left.fault,
         TxStep \/ \E r \in Refresher : BeginRefresh(r)
  PROVE  WorkParts' /\ OweParts'
<1>1. /\ TypeOK /\ OneRefresh /\ TxOfWaiting /\ ZeroListed /\ PushedWhole /\ TxAtWork /\ CallAtWork
      /\ ClaimedKept /\ AllRecorded /\ AllEntered /\ TxEntered /\ TodoListed
  BY DEF SyncInv, NvidiaInv, WorkParts, OweParts, ModeParts
<1>2. left \in LeftState /\ tx \in TxState /\ call \in CallState /\ user \in UserState
      /\ \A r \in Refresher : ref[r] \in RefState
  BY <1>1 DEF TypeOK
<1>3. ~Fault
  BY <1>2 DEF Fault, LeftState
<1>4. Nobody \notin Refresher /\ User \notin Refresher /\ User # Nobody
  BY SyncAssumption DEF SyncAssumption
<1>5. UNCHANGED <<bus, gen, pci, list>>
  BY DEF TxStep, BeginUser, BeginRefresh, Begin, Refuse, TxRead, TxWrite, WriteMode, Commit, worldVars, listVars
<1>6. /\ Ids' = Ids /\ Hiding' = Hiding /\ Others' = Others /\ Present' = Present
      /\ SupportedModes' = SupportedModes /\ OwnKeys' = OwnKeys /\ (Stale' <=> Stale)
  BY <1>5, OfList DEF OwnKeys, KeysOf, Stale
<1>7. \A d \in Present : d \in Device
  BY DEF Present
<1>8. Replacing /\ tx.by # Nobody => tx.by = User
  <2>1. Replacing => tx.by \notin Refresher
    BY <1>1 DEF Replacing, OneRefresh, TxOfWaiting
  <2>2. QED
    BY <1>2, <2>1 DEF TxState
(* The lock is taken.                                                         *)
<1>9. ASSUME NEW c \in Refresher \cup {User}, NEW m \in Mode, NEW save, Begin(c, m, save)
      PROVE  WorkParts' /\ OweParts'
  <2>1. /\ tx.by = Nobody /\ UNCHANGED <<pushed, map, strays, mode, ref>>
        /\ tx' = [NoTx EXCEPT !.by = c, !.mode = m, !.save = save, !.todo = Touched(m)]
        /\ call' = IF call.pc = "idle" \/ call.beside = "refresh" THEN call
                   ELSE [call EXCEPT !.beside = "transition"]
    BY <1>9 DEF Begin, modeVars
  <2>2. tx'.pc = "read" /\ tx'.todo = Touched(m)
    BY <2>1 DEF NoTx
  <2>3. Recorded' = Recorded /\ Entered' = Entered /\ (Waiting' <=> Waiting) /\ (Replacing' <=> Replacing)
    BY <1>5, <2>1, OfData DEF Waiting, Replacing
  <2>4. TxEntered'
    <3>1. Others' \ tx'.todo = {}
      BY <1>1, <1>6, <2>2, OthersTouched
    <3>2. QED
      BY <3>1 DEF TxEntered
  <2>5. AllRecorded' /\ AllEntered'
    BY <1>1, <1>6, <2>1, <2>3 DEF AllRecorded, AllEntered
  <2>6. TxAtWork'
    BY <2>2 DEF TxAtWork
  <2>7. CallAtWork'
    <3>1. CASE call' = call /\ (call.pc = "idle" \/ call.beside = "refresh")
      BY <1>1, <1>6, <2>3, <3>1 DEF CallAtWork
    <3>2. CASE call.pc # "idle" /\ call.beside # "refresh" /\ call' = [call EXCEPT !.beside = "transition"]
      <4>1. call'.pc = call.pc /\ call'.dev = call.dev /\ call'.keys = call.keys /\ call'.beside = "transition"
        BY <1>2, <3>2 DEF CallState
      <4>2. QED
        BY <1>1, <1>6, <2>3, <3>2, <4>1 DEF CallAtWork
    <3>3. QED
      BY <2>1, <3>1, <3>2
  <2>8. ZeroListed' /\ PushedWhole' /\ ClaimedKept'
    BY <1>1, <1>5, <1>6, <2>1 DEF ZeroListed, PushedWhole, ClaimedKept
  <2>9. QED
    BY <2>4, <2>5, <2>6, <2>7, <2>8 DEF WorkParts, OweParts
<1>10. CASE BeginUser
  BY <1>2, <1>9, <1>10 DEF BeginUser, UserState
<1>11. CASE \E r \in Refresher : BeginRefresh(r)
  <2>1. PICK r \in Refresher : Begin(r, IF ref[r].pc = "apply" THEN ref[r].mode ELSE "hybrid", FALSE)
    BY <1>11 DEF BeginRefresh
  <2>2. (IF ref[r].pc = "apply" THEN ref[r].mode ELSE "hybrid") \in Mode
    BY <1>2 DEF RefState, Mode
  <2>3. QED
    BY <1>9, <2>1, <2>2
(* It works on and keeps the lock.                                            *)
<1>12. ASSUME tx.by # Nobody, tx'.by = tx.by, tx'.mode = tx.mode, tx.mode \in SupportedModes,
              UNCHANGED <<ref, call, mode>>, PushedWhole', TxAtWork', TxEntered', AllRecorded'
       PROVE  WorkParts' /\ OweParts'
  <2>1. AllEntered'
    BY <1>6, <1>12 DEF AllEntered
  <2>2. Replacing' <=> Replacing
    BY <1>12 DEF Replacing
  <2>3. CallAtWork'
    BY <1>1, <1>6, <1>12, <2>2 DEF CallAtWork
  <2>4. ZeroListed' /\ ClaimedKept'
    BY <1>1, <1>5, <1>6, <1>12 DEF ZeroListed, ClaimedKept
  <2>5. QED
    BY <1>12, <2>1, <2>3, <2>4 DEF WorkParts, OweParts
<1>13. ASSUME tx.by # Nobody, tx'.by = tx.by, tx'.mode = tx.mode, tx'.todo = tx.todo, tx.mode \in SupportedModes,
              UNCHANGED <<ref, call, mode, pushed, map, strays>>, TxAtWork'
       PROVE  WorkParts' /\ OweParts'
  <2>1. Recorded' = Recorded /\ Entered' = Entered /\ (Waiting' <=> Waiting)
    BY <1>5, <1>13, OfData DEF Waiting
  <2>2. TxEntered' /\ AllRecorded' /\ PushedWhole'
    BY <1>1, <1>6, <1>13, <2>1 DEF TxEntered, AllRecorded, PushedWhole
  <2>3. QED
    BY <1>12, <1>13, <2>2
<1>14. CASE Refuse
  <2>1. /\ tx.by # Nobody /\ Return(FALSE) /\ UNCHANGED <<pushed, map, strays, mode, call>>
        /\ tx.mode \notin SupportedModes
    BY <1>14 DEF Refuse, modeVars, SupportedModes
  <2>2. tx.by \in Refresher => ref[tx.by].pc = "apply"
    BY <1>1, <2>1, HybridSupported DEF ModeParts, FallbackIsHybrid, TxOfWaiting
  <2>3. tx.by = User => Waiting \/ Stale \/ Others \subseteq Recorded \cap Entered[mode]
    BY <1>1, <2>1 DEF AllRecorded, AllEntered
  <2>4. tx.by \in Refresher \cup {User}
    BY <1>2, <2>1 DEF TxState
  <2>5. QED
    BY <1>1, <1>5, <2>1, <2>2, <2>3, <2>4, MapReturn DEF WorkParts
<1>15. CASE TxRead
  <2>1. PICK d \in tx.todo : IF bus[d] = "bound"
          THEN tx' = [tx EXCEPT !.pc = "write", !.dev = d, !.keys = KeysOf(d)] /\ UNCHANGED <<user, ref>>
          ELSE Return(FALSE)
    BY <1>15 DEF TxRead
  <2>2. /\ tx.by # Nobody /\ tx.pc = "read" /\ UNCHANGED <<pushed, map, strays, mode, call>>
        /\ Policy!Supported(tx.mode)
    BY <1>15 DEF TxRead, modeVars
  <2>3. d \in Present /\ d \in Device
    BY <1>1, <1>7, <2>1, <2>2 DEF TodoListed
  <2>4. tx.mode \in SupportedModes
    BY <1>2, <2>2 DEF SupportedModes, TxState
  <2>5. CASE bus[d] = "bound"
    <3>1. /\ tx'.by = tx.by /\ tx'.pc = "write" /\ tx'.mode = tx.mode /\ tx'.todo = tx.todo
          /\ tx'.dev = d /\ tx'.keys = KeysOf(d) /\ ref' = ref
      BY <1>2, <2>1, <2>5 DEF TxState
    <3>2. KeysOf(d) = OwnKeys[d] /\ OwnKeys[d] = KeysAt(d, gen[d]) /\ gen[d] \in Generation
      BY <1>1, <2>3, KeysAtFacts DEF OwnKeys
    <3>3. TxAtWork'
      BY <1>6, <2>3, <2>4, <3>1, <3>2 DEF TxAtWork
    <3>4. QED
      BY <1>13, <2>2, <2>4, <3>1, <3>3
  <2>6. CASE bus[d] # "bound"
    <3>1. Stale
      BY <2>3, <2>6 DEF Stale
    <3>2. QED
      BY <1>1, <1>5, <2>1, <2>2, <2>6, <3>1, MapReturn DEF WorkParts
  <2>7. QED
    BY <2>5, <2>6
<1>16. CASE TxWrite
  <2> DEFINE d == tx.dev
             id == IdOf(tx.dev)
             blocked == Hides(tx.mode, tx.dev)
             old == pushed[tx.dev]
  <2>1. PICK o \in Outcomes(old, tx.keys, id, blocked) :
          /\ map' = o.map /\ pushed' = [pushed EXCEPT ![d] = o.own] /\ o.ok
          /\ tx' = [tx EXCEPT !.pc = "read", !.todo = tx.todo \ {d}, !.dev = 0, !.keys = {}]
          /\ strays' = strays \ tx.keys
    BY <1>2, <1>3, <1>16 DEF TxWrite, TxState
  <2>2. tx.by # Nobody /\ tx.pc = "write" /\ UNCHANGED <<ref, call, mode>>
    BY <1>3, <1>16 DEF TxWrite, modeVars
  <2>3. /\ tx.mode \in SupportedModes /\ tx.mode \in Mode /\ d \in Present /\ d \in Device
        /\ \E g \in Generation : tx.keys = KeysAt(d, g)
        /\ OwnKeys[d] \subseteq tx.keys \/ Stale \/ Replacing
    BY <1>1, <1>7, <2>2 DEF TxAtWork, SupportedModes
  <2>4. PICK g \in Generation : tx.keys = KeysAt(d, g)
    BY <2>3
  <2>5. map' = Enter(Remove(map, old \ tx.keys), tx.keys, id, blocked) /\ o.own = tx.keys
    BY <2>1 DEF Outcomes
  <2>6. SyncedTo(d, g, old, id, blocked)
    BY <1>5, <2>1, <2>4, <2>5 DEF SyncedTo
  <2>7. id \in Id /\ id = Ids[d] /\ blocked = Hiding[tx.mode][d]
    BY <2>3, IdTyped DEF Ids, Hiding
  <2>8. pushed'[d] = KeysAt(d, g)
    BY <1>1, <2>1, <2>3, <2>4, <2>5 DEF TypeOK
  <2> HIDE DEF d, id, blocked, old
  <2>9. /\ PushedWhole' /\ Recorded \ {d} \subseteq Recorded'
        /\ Entered[tx.mode] \ {d} \subseteq Entered'[tx.mode]
        /\ OwnKeys[d] \subseteq KeysAt(d, g) => d \in Recorded' /\ d \in Entered'[tx.mode]
    BY <1>1, <2>3, <2>6, <2>7, <2>8, SyncedParts
  <2>10. /\ tx'.by = tx.by /\ tx'.pc = "read" /\ tx'.mode = tx.mode /\ tx'.todo = tx.todo \ {d}
    BY <1>2, <2>1 DEF TxState
  <2>11. d \in Recorded' \cap Entered'[tx.mode] \/ Stale \/ Replacing
    BY <2>3, <2>4, <2>9
  <2>12. (Waiting' <=> Waiting) /\ (Replacing => Waiting)
    BY <2>2 DEF Waiting, Replacing, Pending
  <2>13. AllRecorded'
    BY <1>1, <1>6, <2>9, <2>11, <2>12 DEF AllRecorded
  <2>14. TxEntered'
    BY <1>1, <1>6, <1>8, <2>2, <2>9, <2>10, <2>11, <2>12 DEF TxEntered
  <2>15. TxAtWork'
    BY <2>10 DEF TxAtWork
  <2>16. QED
    BY <1>12, <2>2, <2>3, <2>9, <2>10, <2>13, <2>14, <2>15
<1>17. CASE WriteMode
  <2>1. /\ tx.by # Nobody /\ tx.todo = {} /\ Policy!Supported(tx.mode) /\ tx' = [tx EXCEPT !.pc = "commit"]
        /\ UNCHANGED <<ref, call, mode, pushed, map, strays>>
    BY <1>3, <1>17 DEF WriteMode, modeVars
  <2>2. tx'.by = tx.by /\ tx'.pc = "commit" /\ tx'.mode = tx.mode /\ tx'.todo = tx.todo
    BY <1>2, <2>1 DEF TxState
  <2>3. tx.mode \in SupportedModes /\ TxAtWork'
    BY <1>2, <2>1, <2>2 DEF SupportedModes, TxState, TxAtWork
  <2>4. QED
    BY <1>13, <2>1, <2>2, <2>3
<1>18. CASE Commit
  <2>1. /\ tx.by # Nobody /\ tx.pc = "commit" /\ mode' = tx.mode /\ Return(TRUE)
        /\ UNCHANGED <<pushed, map, strays, call>>
    BY <1>18 DEF Commit
  <2>2. tx.todo = {}
    BY <1>1, <2>1 DEF TxAtWork
  <2>3. (tx.by = User /\ Waiting) \/ Stale \/ Others \subseteq Recorded \cap Entered[mode']
    BY <1>1, <2>1, <2>2 DEF TxEntered
  <2>4. QED
    BY <1>1, <1>5, <2>1, <2>3, MapReturn DEF WorkParts
<1>19. QED
  BY <1>10, <1>11, <1>14, <1>15, <1>16, <1>17, <1>18 DEF TxStep

(* A set_block call: what it writes beside a transition or a refresh counts   *)
(* as stray, what it writes alone is what Manual mode leaves to it.           *)
LEMMA MapCall ==
  ASSUME SyncInv, NvidiaInv, WorkParts, OweParts, Calm, left'.fault = left.fault,
         CallStep \/ (\E d \in Device, block \in BOOLEAN : SetBlock(d, block))
         \/ (\E m \in Mode, save \in BOOLEAN : Ask(m, save)) \/ UNCHANGED vars
  PROVE  WorkParts' /\ OweParts'
<1>1. /\ TypeOK /\ ZeroListed /\ PushedWhole /\ TxAtWork /\ CallAtWork
      /\ ClaimedKept /\ AllRecorded /\ AllEntered /\ TxEntered
  BY DEF SyncInv, WorkParts, OweParts
<1>2. left \in LeftState /\ tx \in TxState /\ call \in CallState /\ mode \in Mode
  BY <1>1 DEF TypeOK
<1>3. ~Fault
  BY <1>2 DEF Fault, LeftState
<1>4. UNCHANGED <<bus, gen, pci, list, mode, tx, ref>>
  BY DEF CallStep, CallRead, CallWrite, SetBlock, Ask, vars, worldVars, listVars, modeVars
<1>5. /\ Ids' = Ids /\ Hiding' = Hiding /\ Others' = Others /\ Present' = Present
      /\ SupportedModes' = SupportedModes /\ OwnKeys' = OwnKeys /\ (Stale' <=> Stale)
      /\ (Waiting' <=> Waiting) /\ (Replacing' <=> Replacing)
  BY <1>4, OfList DEF OwnKeys, KeysOf, Stale, Waiting, Replacing
<1>6. ZeroListed' /\ TxAtWork' /\ ClaimedKept'
  BY <1>1, <1>4, <1>5 DEF ZeroListed, TxAtWork, ClaimedKept
<1>7. \A d \in Present : d \in Device
  BY DEF Present
<1>8. ASSUME PushedWhole', CallAtWork', AllRecorded', AllEntered', TxEntered' PROVE WorkParts' /\ OweParts'
  BY <1>6, <1>8 DEF WorkParts, OweParts
(* It does not write yet.                                                     *)
<1>9. ASSUME UNCHANGED <<pushed, map, strays>>, CallAtWork' PROVE WorkParts' /\ OweParts'
  <2>1. Recorded' = Recorded /\ Entered' = Entered
    BY <1>4, <1>9, OfData
  <2>2. PushedWhole' /\ AllRecorded' /\ AllEntered' /\ TxEntered'
    BY <1>1, <1>4, <1>5, <1>9, <2>1 DEF PushedWhole, AllRecorded, AllEntered, TxEntered
  <2>3. QED
    BY <1>8, <1>9, <2>2
<1>10. CASE (\E m \in Mode, save \in BOOLEAN : Ask(m, save)) \/ UNCHANGED vars
  <2>1. UNCHANGED <<pushed, map, strays, call>>
    BY <1>10 DEF Ask, vars
  <2>2. CallAtWork'
    BY <1>1, <1>4, <1>5, <2>1 DEF CallAtWork
  <2>3. QED
    BY <1>9, <2>1, <2>2
<1>11. CASE \E d \in Device, block \in BOOLEAN : SetBlock(d, block)
  <2>1. PICK d \in Device, block \in BOOLEAN : SetBlock(d, block)
    BY <1>11
  <2>2. /\ mode = "manual" /\ d \in Present /\ UNCHANGED <<pushed, map, strays>>
        /\ call'.pc = "read" /\ call'.dev = d /\ call'.id = IdOf(d)
        /\ call'.beside = IF tx.by = Nobody THEN "nothing" ELSE "transition"
    BY <2>1 DEF SetBlock
  <2>3. CallAtWork'
    BY <1>4, <1>5, <2>2 DEF CallAtWork, Ids
  <2>4. QED
    BY <1>9, <2>2, <2>3
<1>12. CASE CallRead
  <2>1. /\ call.pc = "read" /\ UNCHANGED <<pushed, map, strays>>
        /\ call' = IF bus[call.dev] = "bound"
                   THEN [call EXCEPT !.pc = "write", !.keys = KeysOf(call.dev)] ELSE NoCall
    BY <1>12 DEF CallRead
  <2>2. CASE bus[call.dev] = "bound"
    <3>1. /\ call'.pc = "write" /\ call'.keys = KeysOf(call.dev) /\ call'.dev = call.dev
          /\ call'.beside = call.beside /\ call'.id = call.id /\ call.dev \in Device
      BY <1>2, <2>1, <2>2 DEF CallState
    <3>2. /\ KeysOf(call.dev) = OwnKeys[call.dev] /\ gen[call.dev] \in Generation
          /\ OwnKeys[call.dev] = KeysAt(call.dev, gen[call.dev])
      BY <1>1, <3>1, KeysAtFacts DEF OwnKeys
    <3>3. CallAtWork'
      BY <1>1, <1>4, <1>5, <2>1, <3>1, <3>2 DEF CallAtWork
    <3>4. QED
      BY <1>9, <2>1, <3>3
  <2>3. CASE bus[call.dev] # "bound"
    <3>1. CallAtWork'
      BY <2>1, <2>3 DEF CallAtWork, NoCall
    <3>2. QED
      BY <1>9, <2>1, <3>1
  <2>4. QED
    BY <2>2, <2>3
<1>13. CASE CallWrite
  <2> DEFINE d   == call.dev
             old == IF call.beside = "refresh" THEN {} ELSE pushed[call.dev]
  <2>1. PICK o \in Outcomes(old, call.keys, call.id, call.block) :
          /\ map' = o.map /\ o.ok
          /\ pushed' = IF call.beside = "refresh" THEN pushed ELSE [pushed EXCEPT ![d] = o.own]
    BY <1>3, <1>13 DEF CallWrite
  <2>2. /\ call.pc = "write" /\ call' = NoCall
        /\ strays' = IF call.beside = "nothing" THEN strays ELSE strays \cup call.keys
    BY <1>13 DEF CallWrite
  <2>3. d \in Device /\ call.id \in Id /\ call.beside \in {"nothing", "transition", "refresh"}
    BY <1>2 DEF CallState
  <2>4. PICK g \in Generation : call.keys = KeysAt(d, g)
    BY <1>1, <2>2 DEF CallAtWork
  <2>5. map' = Enter(Remove(map, old \ call.keys), call.keys, call.id, call.block) /\ o.own = call.keys
    BY <2>1 DEF Outcomes
  <2>6. SyncedTo(d, g, old, call.id, call.block)
    BY <1>4, <2>1, <2>2, <2>4, <2>5 DEF SyncedTo
  <2>7. call.beside # "refresh" => pushed'[d] = KeysAt(d, g)
    BY <1>1, <2>1, <2>3, <2>4, <2>5 DEF TypeOK
  <2>8. /\ call.beside = "refresh" => old = {} /\ pushed' = pushed
        /\ call.beside # "nothing" => KeysAt(d, g) \subseteq strays'
        /\ call.beside = "nothing" => tx.by = Nobody /\ mode = "manual" /\ call.id = Ids[d]
        /\ call.beside = "refresh" \/ Stale \/ Replacing \/ OwnKeys[d] \subseteq KeysAt(d, g)
    BY <1>1, <2>1, <2>2, <2>4 DEF CallAtWork
  <2> HIDE DEF d, old
  <2>9. ASSUME NEW m \in Mode, m = mode \/ tx.by # Nobody
        PROVE  /\ PushedWhole'
               /\ Recorded \ {d} \subseteq Recorded' /\ Entered[m] \ {d} \subseteq Entered'[m]
               /\ call.beside = "refresh" => Recorded \subseteq Recorded' /\ Entered[m] \subseteq Entered'[m]
               /\ call.beside # "refresh" /\ OwnKeys[d] \subseteq KeysAt(d, g) =>
                    d \in Recorded' /\ d \in Entered'[m]
    <3>1. /\ PushedWhole'
          /\ Recorded \ {d} \subseteq Recorded' /\ Entered[m] \ {d} \subseteq Entered'[m]
          /\ OwnKeys[d] \subseteq KeysAt(d, g) =>
               /\ pushed'[d] = KeysAt(d, g) \/ d \in Recorded => d \in Recorded'
               /\ \/ KeysAt(d, g) \subseteq strays'
                  \/ call.id = Ids[d] /\ (m = "manual" \/ call.block = Hiding[m][d])
                  => d \in Entered'[m]
          /\ old = {} /\ KeysAt(d, g) \subseteq strays' => Entered[m] \subseteq Entered'[m]
      BY <1>1, <2>3, <2>6, SyncedParts
    <3>2. call.beside = "refresh" => Recorded' = Recorded
      BY <1>5, <2>8 DEF Recorded
    <3>3. call.beside = "nothing" => m = "manual" /\ call.id = Ids[d]
      BY <2>8, <2>9
    <3>4. QED
      BY <2>7, <2>8, <3>1, <3>2, <3>3
  <2>10. ASSUME NEW m \in Mode, m = mode \/ tx.by # Nobody, ~Replacing, ~Stale
         PROVE  Recorded \subseteq Recorded' /\ Entered[m] \subseteq Entered'[m]
    BY <2>3, <2>8, <2>9, <2>10
  <2>11. /\ Replacing => Waiting
         /\ Replacing /\ tx.by # Nobody => tx.by = User
    BY <1>2 DEF Replacing, Waiting, Pending, NvidiaInv, OneRefresh, TxOfWaiting, TxState
  <2>12. CallAtWork'
    BY <2>2 DEF CallAtWork, NoCall
  <2>13. PushedWhole' /\ AllRecorded' /\ AllEntered'
    BY <1>1, <1>2, <1>4, <1>5, <2>9, <2>10, <2>11 DEF AllRecorded, AllEntered
  <2>14. TxEntered'
    <3>1. tx.mode \in Mode /\ tx' = tx
      BY <1>2, <1>4 DEF TxState
    <3>2. QED
      BY <1>1, <1>5, <2>10, <2>11, <3>1 DEF TxEntered
  <2>15. QED
    BY <1>8, <2>12, <2>13, <2>14
<1>14. QED
  BY <1>10, <1>11, <1>12, <1>13 DEF CallStep

(* A set of devices has a last one. *)
LEMMA LastOf ==
  ASSUME NEW S \in SUBSET Device, S # {}
  PROVE  \E d \in S : \A e \in S : e <= d
<1> DEFINE After(d) == {e \in S : d < e}
           T == {After(d) : d \in S}
<1>1. IsFiniteSet(S) /\ S \subseteq Nat
  BY FS_Subset, SyncAssumption DEF SyncAssumption
<1>2. T \subseteq SUBSET S /\ T # {}
  OBVIOUS
<1>3. IsWellFoundedOn(StrictSubsetOrdering(S), SUBSET S)
  BY <1>1, FS_StrictSubsetOrderingWellFounded, FS_FiniteSubsetsOfFinite
<1>4. PICK x \in T : \A y \in T : <<y, x>> \notin StrictSubsetOrdering(S)
  BY <1>2, <1>3, WFMin
<1>5. PICK d \in S : x = After(d)
  OBVIOUS
<1>6. ASSUME NEW e \in S, d < e PROVE FALSE
  <2>1. After(e) \subseteq After(d) /\ e \in After(d) /\ e \notin After(e)
    <3>1. d \in Nat /\ e \in Nat /\ \A f \in S : f \in Nat
      BY <1>1
    <3>2. ASSUME NEW f \in S, e < f PROVE d < f
      BY <1>6, <3>1, <3>2
    <3>3. After(e) \subseteq After(d)
      BY <3>2
    <3>4. e \in After(d)
      BY <1>6
    <3>5. ~(e < e)
      BY <3>1
    <3>6. e \notin After(e)
      BY <3>5
    <3>7. QED
      BY <3>3, <3>4, <3>6
  <2>2. <<After(e), After(d)>> \in StrictSubsetOrdering(S)
    BY <2>1 DEF StrictSubsetOrdering
  <2>3. QED
    BY <1>4, <1>5, <2>2
<1>7. \A e \in S : e <= d
  BY <1>1, <1>6
<1>8. QED
  BY <1>7

LEMMA MapInit == Init => MapInv
<1> SUFFICES ASSUME Init PROVE WorkParts /\ OweParts
  BY DEF MapInv
<1>1. TypeOK /\ Nobody \notin Refresher
  BY InitInv, SyncAssumption DEF SyncInv, SyncAssumption
<1>2. /\ tx.by = Nobody /\ call.pc = "idle" /\ bus[0] = "bound" /\ strays = {} /\ mode \in Mode
      /\ \A r \in Refresher : ref[r].pc = "idle"
      /\ \A d \in Device : list[d] = IF bus[d] = "bound" THEN "available" ELSE "absent"
      /\ pushed = [d \in Device |-> IF d \in Touched(mode) THEN KeysOf(d) ELSE {}]
  BY DEF Init, NoTx, NoCall, NoRef
<1>3. 0 \in Device /\ Device \subseteq Nat
  BY SyncAssumption DEF SyncAssumption
<1>4. ZeroListed
  BY <1>2, <1>3 DEF ZeroListed
<1>5. \A d \in Device : KeysOf(d) = OwnKeys[d] /\ OwnKeys[d] = KeysAt(d, gen[d]) /\ gen[d] \in Generation
  BY <1>1, KeysAtFacts DEF OwnKeys
<1>6. PushedWhole
  BY <1>2, <1>5 DEF PushedWhole
<1>7. TxAtWork /\ CallAtWork /\ ClaimedKept /\ TxEntered
  BY <1>2 DEF TxAtWork, CallAtWork, ClaimedKept, TxEntered
<1>8. \A d \in Others : d \in Device /\ pushed[d] = OwnKeys[d]
  BY <1>2, <1>4, <1>5, OthersTouched DEF Others, Present
<1>9. AllRecorded
  BY <1>8 DEF AllRecorded, Recorded
<1>10. \A k \in Key : map[k] = IF \E d \in Device : PushedLast(d, k)
                              THEN LET d == CHOOSE d \in Device : PushedLast(d, k)
                                   IN  [id |-> IdOf(d), blocked |-> Hides(mode, d)]
                              ELSE NoEntry
  BY DEF Init
<1>11. ASSUME NEW d \in Others
       PROVE  map[<<d, gen[d]>>].id = Ids[d] /\ map[<<d, gen[d]>>].blocked = Hiding[mode][d]
  <2> DEFINE k == <<d, gen[d]>>
  <2>1. d \in Device /\ k \in pushed[d] /\ k \in Key
    BY <1>1, <1>5, <1>8, KeysAtFacts
  <2>2. \A e \in Device : k \in pushed[e] => e = d
    BY <1>1, <1>2, <1>5, <2>1, KeysAtFacts
  <2>3. PushedLast(d, k) /\ \A e \in Device : PushedLast(e, k) => e = d
    BY <1>3, <2>1, <2>2 DEF PushedLast
  <2> HIDE DEF k
  <2>4. (CHOOSE e \in Device : PushedLast(e, k)) = d
    BY <2>1, <2>3
  <2>5. map[k] = [id |-> IdOf(d), blocked |-> Hides(mode, d)]
    BY <1>10, <2>1, <2>3, <2>4
  <2>6. QED
    BY <1>2, <2>1, <2>5 DEF Ids, Hiding, k
<1>12. ASSUME NEW d \in Others, d \in Bridged PROVE Held(Bridge)
  <2> DEFINE S == {e \in Device : Bridge \in pushed[e]}
  <2>1. d \in S /\ Bridge \in Key
    <3>1. d \in Device /\ pushed[d] = KeysAt(d, gen[d])
      BY <1>5, <1>8
    <3>2. Bridge \in KeysAt(d, gen[d])
      BY <1>12 DEF KeysAt
    <3>3. QED
      BY <3>1, <3>2 DEF Key
  <2>2. PICK e \in S : \A f \in S : f <= e
    BY <2>1, LastOf
  <2>3. PushedLast(e, Bridge)
    BY <2>2 DEF PushedLast
  <2>4. PICK f \in Device : f = CHOOSE g \in Device : PushedLast(g, Bridge)
    BY <2>3
  <2>5. map[Bridge] = [id |-> IdOf(f), blocked |-> Hides(mode, f)]
    <3>1. \E g \in Device : PushedLast(g, Bridge)
      BY <2>3
    <3>2. QED
      BY <1>10, <2>1, <2>4, <3>1
  <2>6. QED
    BY <2>5, IdTyped, IdFacts DEF Held
<1>13. AllEntered
  BY <1>2, <1>8, <1>11, <1>12 DEF AllEntered, Entered
<1>14. QED
  BY <1>4, <1>6, <1>7, <1>9, <1>13 DEF WorkParts, OweParts

(* After any hotplugs, requests and set_block calls, once they are handled:   *)
(* the map holds the present inodes of every GPU but the default one under    *)
(* its present id, blocked as the mode says, and the bridge it shares with    *)
(* others (refresh_gpu drops what the list before it had pushed, and nothing  *)
(* of what the transition it runs has pushed since).                         *)
THEOREM MapFollows == Spec => []MapFollowsHotplug
<1>1. SyncInv /\ NvidiaInv /\ FitInv /\ MapInv /\ [Next]_vars => MapInv'
  <2> SUFFICES ASSUME SyncInv, NvidiaInv, FitInv, MapInv, [Next]_vars, Calm', Calm, left'.fault = left.fault
               PROVE  WorkParts' /\ OweParts'
    BY CalmBefore DEF SyncInv, NvidiaInv, MapInv
  <2>1. BusParts /\ ModeParts /\ TypeOK /\ WorkParts /\ OweParts /\ Reads(pci.st, pci.gen)
    BY DEF FitInv, SyncInv, MapInv, BusParts
  <2>2. ASSUME NEW r \in Refresher, Snapshot(r) \/ RefreshStep(r) PROVE WorkParts' /\ OweParts'
    <3>1. CASE BeginRefresh(r)
      BY <2>1, <3>1, MapTx
    <3>2. CASE ~BeginRefresh(r)
      BY <2>1, <2>2, <3>2, MapRefresh
    <3>3. QED
      BY <3>1, <3>2
  <2>3. CASE TxStep
    BY <2>1, <2>3, MapTx
  <2>4. ASSUME NEW d \in Device, Add(d) \/ RemoveDevice(d) \/ Bind(d) \/ Unbind(d)
        PROVE  WorkParts' /\ OweParts'
    BY <2>1, <2>4, MapHotplug
  <2>5. CASE CallStep \/ (\E m \in Mode, save \in BOOLEAN : Ask(m, save))
             \/ (\E d \in Device, block \in BOOLEAN : SetBlock(d, block)) \/ UNCHANGED vars
    BY <2>1, <2>5, MapCall
  <2>6. QED
    BY <2>2, <2>3, <2>4, <2>5, SyncAssumption DEF Next, Daemon, World, SyncAssumption
<1>2. SyncInv /\ ModeFitsBus /\ MapInv => MapFollowsHotplug
  <2> SUFFICES ASSUME SyncInv, ModeFitsBus, MapInv, Settled, Noticed, NEW d \in Present \ {0}
               PROVE  /\ <<d, gen[d]>> \notin strays =>
                           /\ map[<<d, gen[d]>>].id = IdOf(d)
                           /\ mode # "manual" => map[<<d, gen[d]>>].blocked = Hides(mode, d)
                      /\ d \in Bridged => Held(Bridge)
    BY DEF MapFollowsHotplug
  <2>1. /\ OweParts /\ tx.by = Nobody /\ events = 0 /\ \A r \in Refresher : ref[r].pc = "idle"
        /\ mode \in Mode
    BY DEF MapInv, Calm, Settled, Quiet, SyncInv, TypeOK
  <2>2. Present = {e \in Device : bus[e] = "bound"}
    BY DEF ModeFitsBus
  <2>3. ~Waiting /\ ~Stale
    BY <2>1, <2>2 DEF Waiting, Pending, Stale, Noticed
  <2>4. d \in Others /\ d \in Device
    BY DEF Others, Present
  <2>5. d \in Entered[mode]
    BY <2>1, <2>3, <2>4 DEF OweParts, AllEntered
  <2>6. QED
    BY <2>1, <2>4, <2>5 DEF Entered, Ids, Hiding
<1>3. QED
  BY <1>1, <1>2, MapInit, SyncHolds, NvidiaHolds, FitHolds, ModeFollows, PTL DEF Spec

(***************************************************************************)
(* Everything comes to rest                                                 *)
(***************************************************************************)

(* Whoever holds the transition lock waits for its call to end, and a GPU that *)
(* is being written is one that is still to be written.                       *)
TxOfAsker  == tx.by = User => user.pc = "wait"
WritesTodo == tx.by # Nobody /\ tx.pc = "write" => tx.dev \in tx.todo
Shape      == TxOfWaiting /\ TxOfAsker /\ WritesTodo

(* How much the daemon still has to do: a refresh by its place, one less while *)
(* its transition runs; what may still be asked of it or happen to it; and     *)
(* what is left of the transition that holds the lock.                        *)
Level(pc) ==
  CASE pc = "idle" -> 0 [] pc = "nvidia" -> 1 [] pc = "target" -> 2 [] pc = "drop" -> 3
    [] pc = "collect" -> 4 [] pc = "fallback" -> 6 [] pc = "apply" -> 8 [] pc = "mode" -> 9
    [] pc = "replace" -> 10 [] pc = "compare" -> 11
Rank == [r \in Refresher |-> IF tx.by = r THEN Level(ref[r].pc) - 1 ELSE Level(ref[r].pc)]
WorkOf(f) == {w \in Refresher \X (1..11) : w[2] <= f[w[1]]}
Work == WorkOf(Rank)
UserRank == IF user.pc = "idle" THEN 0 ELSE IF tx.by = User THEN 1 ELSE 2
CallRank == IF call.pc = "idle" THEN 0 ELSE IF call.pc = "write" THEN 1 ELSE 2
Rest  == 14 * left.hotplug + 12 * left.request + left.fault + 12 * events + UserRank + CallRank
Inner == IF tx.by = Nobody \/ tx.pc = "commit" THEN 0
         ELSE 2 * Cardinality(tx.todo) + (IF tx.pc = "write" THEN 1 ELSE 2)
RestInv == SyncInv /\ Shape /\ IsFiniteSet(Work)

(* What a step does to it. *)
OthersKept(r) == \A q \in Refresher \ {r} : Rank'[q] = Rank[q]
Lower(r)  == Rank'[r] < Rank[r] /\ OthersKept(r)
Higher(r) == Rank[r] = 0 /\ Rank'[r] <= 11 /\ OthersKept(r)
Nearer ==
  \/ Rank' = Rank /\ Rest' < Rest
  \/ Rank' = Rank /\ Rest' = Rest /\ Inner' < Inner
  \/ (\E r \in Refresher : Lower(r)) /\ Rest' <= Rest
  \/ (\E r \in Refresher : Higher(r)) /\ Rest' + 12 <= Rest

LEMMA LevelTyped ==
  ASSUME NEW x \in RefState
  PROVE  Level(x.pc) \in 0..11 /\ (x.pc \in {"apply", "fallback"} => Level(x.pc) \in 1..11)
<1>1. \/ x.pc = "idle" \/ x.pc = "compare" \/ x.pc = "replace" \/ x.pc = "mode" \/ x.pc = "apply"
      \/ x.pc = "fallback" \/ x.pc = "collect" \/ x.pc = "drop" \/ x.pc = "target" \/ x.pc = "nvidia"
  BY DEF RefState
<1>2. /\ Level("idle") = 0 /\ Level("nvidia") = 1 /\ Level("target") = 2 /\ Level("drop") = 3
      /\ Level("collect") = 4 /\ Level("fallback") = 6 /\ Level("apply") = 8 /\ Level("mode") = 9
      /\ Level("replace") = 10 /\ Level("compare") = 11
  BY DEF Level
<1>3. QED
  BY <1>1, <1>2

LEMMA RankTyped == (TypeOK /\ Shape => Rank \in [Refresher -> 0..11])
                   /\ (TypeOK' /\ Shape' => Rank' \in [Refresher -> 0..11])
<1>1. ASSUME TypeOK, Shape, NEW r \in Refresher
      PROVE  (IF tx.by = r THEN Level(ref[r].pc) - 1 ELSE Level(ref[r].pc)) \in 0..11
  <2>1. ref[r] \in RefState /\ (tx.by = r => ref[r].pc \in {"apply", "fallback"})
    BY <1>1 DEF TypeOK, Shape, TxOfWaiting
  <2>2. QED
    BY <2>1, LevelTyped
<1>2. ASSUME TypeOK', Shape', NEW r \in Refresher
      PROVE  (IF tx'.by = r THEN Level(ref'[r].pc) - 1 ELSE Level(ref'[r].pc)) \in 0..11
  <2>1. ref'[r] \in RefState /\ (tx'.by = r => ref'[r].pc \in {"apply", "fallback"})
    BY <1>2 DEF TypeOK, Shape, TxOfWaiting
  <2>2. QED
    BY <2>1, LevelTyped
<1>3. QED
  BY <1>1, <1>2 DEF Rank

(* The parts of Rest are numbers. *)
LEMMA RestTyped ==
  (TypeOK => /\ left.hotplug \in Nat /\ left.request \in Nat /\ left.fault \in Nat /\ events \in Nat
             /\ UserRank \in 0..2 /\ CallRank \in 0..2 /\ Rest \in Nat)
  /\ (TypeOK' => Rest' \in Nat)
<1>1. TypeOK => /\ left.hotplug \in Nat /\ left.request \in Nat /\ left.fault \in Nat /\ events \in Nat
                /\ UserRank \in 0..2 /\ CallRank \in 0..2
  BY DEF TypeOK, LeftState, UserRank, CallRank
<1>2. TypeOK' => /\ left'.hotplug \in Nat /\ left'.request \in Nat /\ left'.fault \in Nat /\ events' \in Nat
                 /\ UserRank' \in 0..2 /\ CallRank' \in 0..2
  BY DEF TypeOK, LeftState, UserRank, CallRank
<1>3. QED
  BY <1>1, <1>2 DEF Rest

(* A rank that falls takes work away, ... *)
LEMMA WorkLess ==
  ASSUME NEW f \in [Refresher -> 0..11], NEW g \in [Refresher -> 0..11], NEW r \in Refresher,
         g[r] < f[r], \A q \in Refresher \ {r} : g[q] = f[q], IsFiniteSet(WorkOf(f))
  PROVE  /\ IsFiniteSet(WorkOf(g)) /\ Cardinality(WorkOf(g)) < Cardinality(WorkOf(f))
<1>1. f[r] \in 0..11 /\ g[r] \in 0..11
  OBVIOUS
<1>2. ASSUME NEW q \in Refresher, NEW i \in 1..11, i <= g[q] PROVE i <= f[q]
  <2>1. CASE q = r
    BY <1>1, <1>2, <2>1
  <2>2. CASE q # r
    BY <1>2, <2>2
  <2>3. QED
    BY <2>1, <2>2
<1>3. WorkOf(g) \in SUBSET WorkOf(f)
  BY <1>2 DEF WorkOf
<1>4. <<r, f[r]>> \in WorkOf(f) /\ <<r, f[r]>> \notin WorkOf(g)
  BY <1>1 DEF WorkOf
<1>5. /\ IsFiniteSet(WorkOf(g)) /\ Cardinality(WorkOf(g)) <= Cardinality(WorkOf(f))
      /\ Cardinality(WorkOf(g)) # Cardinality(WorkOf(f))
  BY <1>3, <1>4, FS_Subset
<1>6. Cardinality(WorkOf(g)) \in Nat /\ Cardinality(WorkOf(f)) \in Nat
  BY <1>5, FS_CardinalityType
<1>7. QED
  BY <1>5, <1>6

(* ... and a refresh that begins adds eleven pieces. *)
LEMMA WorkMore ==
  ASSUME NEW f \in [Refresher -> 0..11], NEW g \in [Refresher -> 0..11], NEW r \in Refresher,
         \A q \in Refresher \ {r} : g[q] = f[q], IsFiniteSet(WorkOf(f))
  PROVE  /\ IsFiniteSet(WorkOf(g)) /\ Cardinality(WorkOf(g)) <= Cardinality(WorkOf(f)) + 11
<1> DEFINE own == {r} \X (1..11)
<1>1. IsFiniteSet(own) /\ Cardinality(own) = 11
  <2>1. IsFiniteSet({r}) /\ Cardinality({r}) = 1
    BY FS_Singleton
  <2>2. IsFiniteSet(1..11) /\ Cardinality(1..11) = 11
    <3>1. 1 \in Int /\ 11 \in Int
      OBVIOUS
    <3>2. IsFiniteSet(1..11) /\ Cardinality(1..11) = IF 1 > 11 THEN 0 ELSE 11 - 1 + 1
      BY <3>1, FS_Interval
    <3>3. QED
      BY <3>2
  <2>3. IsFiniteSet(own) /\ Cardinality(own) = Cardinality({r}) * Cardinality(1..11)
    BY <2>1, <2>2, FS_Product
  <2>4. QED
    BY <2>1, <2>2, <2>3
<1>2. WorkOf(g) \subseteq WorkOf(f) \cup own
  BY DEF WorkOf
<1> HIDE DEF own
<1>3. /\ IsFiniteSet(WorkOf(f) \cup own)
      /\ Cardinality(WorkOf(f) \cup own) =
           Cardinality(WorkOf(f)) + Cardinality(own) - Cardinality(WorkOf(f) \cap own)
  BY <1>1, FS_Union
<1>4. WorkOf(g) \in SUBSET (WorkOf(f) \cup own) /\ (WorkOf(f) \cap own) \in SUBSET own
  BY <1>2
<1>5. /\ IsFiniteSet(WorkOf(g)) /\ Cardinality(WorkOf(g)) <= Cardinality(WorkOf(f) \cup own)
      /\ IsFiniteSet(WorkOf(f) \cap own)
  BY <1>1, <1>3, <1>4, FS_Subset
<1>6. /\ Cardinality(WorkOf(g)) \in Nat /\ Cardinality(WorkOf(f)) \in Nat
      /\ Cardinality(WorkOf(f) \cap own) \in Nat
  BY <1>5, FS_CardinalityType
<1>7. QED
  BY <1>1, <1>3, <1>5, <1>6

(* What a failure costs. *)
LEMMA FaultSpends ==
  ASSUME TypeOK, UNCHANGED left \/ Fault
  PROVE  /\ left'.hotplug = left.hotplug /\ left'.request = left.request
         /\ left'.fault \in Nat /\ left'.fault <= left.fault
BY DEF TypeOK, LeftState, Fault

(* A refresh goes on, but for the step in which its transition begins. *)
LEMMA RefreshMoves ==
  ASSUME TypeOK, NEW r \in Refresher, RefreshStep(r), ~BeginRefresh(r)
  PROVE  /\ ref[r].pc \notin {"apply", "fallback"}
         /\ \A q \in Refresher \ {r} : ref'[q] = ref[q]
         /\ Level(ref'[r].pc) < Level(ref[r].pc)
         /\ tx' = tx /\ user' = user /\ call'.pc = call.pc /\ events' = events
         /\ UNCHANGED left \/ Fault
<1>1. ref \in [Refresher -> RefState] /\ ref[r] \in RefState /\ call \in CallState
  BY DEF TypeOK
<1> DEFINE To(pc) == ref'[r].pc = pc /\ \A q \in Refresher \ {r} : ref'[q] = ref[q]
<1>2. NoRef.pc = "idle" /\ [NoRef EXCEPT !.pc = "mode", !.previous = Pushed].pc = "mode"
  BY DEF NoRef
<1>3. \/ ref[r].pc = "compare" /\ (To("idle") \/ To("replace"))
      \/ ref[r].pc = "replace" /\ (To("idle") \/ To("mode"))
      \/ ref[r].pc = "mode" /\ To("apply")
      \/ ref[r].pc = "collect" /\ To("drop")
      \/ ref[r].pc = "drop" /\ To("target")
      \/ ref[r].pc = "target" /\ To("nvidia")
      \/ ref[r].pc = "nvidia" /\ To("idle")
  <2>1. CASE Compare(r)
    <3>1. /\ ref[r].pc = "compare"
          /\ \/ ref' = [ref EXCEPT ![r] = NoRef]
             \/ ref' = [ref EXCEPT ![r] = [ref[r] EXCEPT !.pc = "replace"]]
      BY <1>1, <2>1 DEF Compare
    <3>2. [ref[r] EXCEPT !.pc = "replace"].pc = "replace"
      BY <1>1 DEF RefState
    <3>3. To("idle") \/ To("replace")
      BY <1>1, <1>2, <3>1, <3>2
    <3>4. QED
      BY <3>1, <3>3
  <2>2. CASE Replace(r)
    <3>1. /\ ref[r].pc = "replace"
          /\ \/ ref' = [ref EXCEPT ![r] = NoRef]
             \/ ref' = [ref EXCEPT ![r] = [NoRef EXCEPT !.pc = "mode", !.previous = Pushed]]
      BY <1>1, <2>2 DEF Replace
    <3>2. QED
      BY <1>1, <1>2, <3>1
  <2>3. CASE ReadMode(r)
    <3>1. /\ ref[r].pc = "mode"
          /\ \/ ref' = [ref EXCEPT ![r] = [ref[r] EXCEPT !.pc = "apply", !.mode = saved]]
             \/ ref' = [ref EXCEPT ![r] = [ref[r] EXCEPT !.pc = "apply", !.mode = "hybrid"]]
      BY <1>1, <2>3 DEF ReadMode
    <3>2. /\ [ref[r] EXCEPT !.pc = "apply", !.mode = saved].pc = "apply"
          /\ [ref[r] EXCEPT !.pc = "apply", !.mode = "hybrid"].pc = "apply"
      BY <1>1 DEF RefState
    <3>3. To("apply")
      BY <1>1, <3>1, <3>2
    <3>4. QED
      BY <3>1, <3>3
  <2>4. CASE Collect(r)
    <3>1. /\ ref[r].pc = "collect"
          /\ ref' = [ref EXCEPT ![r] = [ref[r] EXCEPT !.pc = "drop", !.claimed = Pushed]]
      BY <1>1, <2>4 DEF Collect
    <3>2. [ref[r] EXCEPT !.pc = "drop", !.claimed = Pushed].pc = "drop"
      BY <1>1 DEF RefState
    <3>3. To("drop")
      BY <1>1, <3>1, <3>2
    <3>4. QED
      BY <3>1, <3>3
  <2>5. CASE Drop(r)
    <3>1. /\ ref[r].pc = "drop"
          /\ ref' = [ref EXCEPT ![r] = [ref[r] EXCEPT !.pc = "target", !.previous = {}, !.claimed = {}]]
      BY <1>1, <2>5 DEF Drop
    <3>2. [ref[r] EXCEPT !.pc = "target", !.previous = {}, !.claimed = {}].pc = "target"
      BY <1>1 DEF RefState
    <3>3. To("target")
      BY <1>1, <3>1, <3>2
    <3>4. QED
      BY <3>1, <3>3
  <2>6. CASE ReadTarget(r)
    <3>1. /\ ref[r].pc = "target"
          /\ ref' = [ref EXCEPT ![r] = [ref[r] EXCEPT !.pc = "nvidia", !.target = NvidiaTarget]]
      BY <1>1, <2>6 DEF ReadTarget
    <3>2. [ref[r] EXCEPT !.pc = "nvidia", !.target = NvidiaTarget].pc = "nvidia"
      BY <1>1 DEF RefState
    <3>3. To("nvidia")
      BY <1>1, <3>1, <3>2
    <3>4. QED
      BY <3>1, <3>3
  <2>7. CASE SyncNvidia(r)
    <3>1. ref[r].pc = "nvidia" /\ ref' = [ref EXCEPT ![r] = NoRef]
      BY <2>7 DEF SyncNvidia
    <3>2. QED
      BY <1>1, <1>2, <3>1
  <2>8. QED
    BY <2>1, <2>2, <2>3, <2>4, <2>5, <2>6, <2>7 DEF RefreshStep
<1>4. /\ ref[r].pc \notin {"apply", "fallback"} /\ Level(ref'[r].pc) < Level(ref[r].pc)
      /\ \A q \in Refresher \ {r} : ref'[q] = ref[q]
  BY <1>3 DEF Level
<1>5. /\ tx' = tx /\ user' = user /\ events' = events
      /\ UNCHANGED left \/ Fault
      /\ call' = call \/ call' = [call EXCEPT !.beside = "refresh"]
  BY DEF RefreshStep, Compare, Replace, ReadMode, Collect, Drop, ReadTarget, SyncNvidia, worldVars
<1>6. call'.pc = call.pc
  BY <1>1, <1>5 DEF CallState
<1>7. QED
  BY <1>4, <1>5, <1>6

(* The transition that a caller begins. *)
LEMMA BeginMoves ==
  ASSUME TypeOK, Shape, NEW c \in Refresher \cup {User}, NEW m, NEW save, Begin(c, m, save),
         c = User => user.pc = "wait",
         c \in Refresher => ref[c].pc \in {"apply", "fallback"}
  PROVE  Shape' /\ Nearer
<1>1. /\ tx.by = Nobody /\ tx'.by = c /\ tx'.pc = "read"
      /\ user' = user /\ ref' = ref /\ left' = left /\ events' = events
      /\ call' = call \/ call' = [call EXCEPT !.beside = "transition"]
  BY DEF Begin, NoTx, worldVars
<1>2. call'.pc = call.pc
  BY <1>1 DEF TypeOK, CallState
<1>3. /\ User \notin Refresher /\ Nobody \notin Refresher /\ Nobody # User
  BY SyncAssumption DEF SyncAssumption
<1>4. Shape'
  BY <1>1, <1>3 DEF Shape, TxOfWaiting, TxOfAsker, WritesTodo
<1>5. \A q \in Refresher : Rank[q] = Level(ref[q].pc)
                           /\ Rank'[q] = IF c = q THEN Level(ref[q].pc) - 1 ELSE Level(ref[q].pc)
  BY <1>1, <1>3 DEF Rank
<1>6. CallRank' = CallRank
  BY <1>2 DEF CallRank
<1>7. CASE c = User
  <2>1. UserRank = 2 /\ UserRank' = 1
    BY <1>1, <1>3, <1>7 DEF UserRank
  <2>2. Rank' = Rank
    <3>1. \A q \in Refresher : tx.by # q /\ tx'.by # q
      BY <1>1, <1>3, <1>7
    <3>2. QED
      BY <1>1, <3>1 DEF Rank
  <2>3. Rest' < Rest
    BY <1>1, <1>6, <2>1, RestTyped DEF Rest
  <2>4. QED
    BY <1>4, <2>2, <2>3 DEF Nearer
<1>8. CASE c \in Refresher
  <2>1. Level(ref[c].pc) \in 0..11
    BY <1>8, LevelTyped DEF TypeOK
  <2>2. Lower(c)
    <3>1. Rank'[c] = Level(ref[c].pc) - 1 /\ Rank[c] = Level(ref[c].pc)
      BY <1>5, <1>8
    <3>2. OthersKept(c)
      BY <1>5, <1>8 DEF OthersKept
    <3>3. QED
      BY <2>1, <3>1, <3>2 DEF Lower
  <2>3. UserRank' = UserRank
    BY <1>1, <1>3, <1>8 DEF UserRank
  <2>4. Rest' <= Rest
    BY <1>1, <1>6, <2>3, RestTyped DEF Rest
  <2>5. QED
    BY <1>4, <1>8, <2>2, <2>4 DEF Nearer
<1>9. QED
  BY <1>7, <1>8

(* Its end. *)
LEMMA ReturnNearer ==
  ASSUME TypeOK, Shape, tx.by # Nobody, NEW ok \in BOOLEAN, Return(ok), UNCHANGED <<events, call>>,
         UNCHANGED left \/ Fault
  PROVE  Shape' /\ Nearer
<1>1. /\ tx'.by = Nobody /\ tx.by \in Refresher \cup {User}
      /\ tx.by = User => ref' = ref
      /\ tx.by \in Refresher =>
           /\ ref[tx.by].pc \in {"apply", "fallback"}
           /\ ref'[tx.by].pc = IF ~ok /\ ref[tx.by].pc = "apply" THEN "fallback" ELSE "collect"
      /\ \A q \in Refresher : q # tx.by => ref'[q] = ref[q]
  BY ReturnMoves DEF Shape
<1>2. User \notin Refresher /\ Nobody \notin Refresher /\ Nobody # User
  BY SyncAssumption DEF SyncAssumption
<1>3. Shape'
  BY <1>1, <1>2 DEF Shape, TxOfWaiting, TxOfAsker, WritesTodo
<1>4. /\ left'.hotplug = left.hotplug /\ left'.request = left.request
      /\ left'.fault \in Nat /\ left'.fault <= left.fault
  BY FaultSpends
<1>5. CallRank' = CallRank
  BY DEF CallRank
<1>6. CASE tx.by = User
  <2>1. user.pc = "wait" /\ user' = [user EXCEPT !.pc = "idle", !.mode = "hybrid", !.save = FALSE]
    BY <1>6 DEF Return, Shape, TxOfAsker
  <2>2. user'.pc = "idle"
    BY <2>1 DEF TypeOK, UserState
  <2>3. UserRank = 1 /\ UserRank' = 0
    BY <1>6, <2>1, <2>2 DEF UserRank
  <2>4. Rank' = Rank
    <3>1. \A q \in Refresher : tx.by # q /\ tx'.by # q
      BY <1>1, <1>2, <1>6
    <3>2. ref' = ref
      BY <1>1, <1>6
    <3>3. QED
      BY <3>1, <3>2 DEF Rank
  <2>5. Rest' < Rest
    BY <1>4, <1>5, <2>3, RestTyped DEF Rest
  <2>6. QED
    BY <1>3, <2>4, <2>5 DEF Nearer
<1>7. CASE tx.by \in Refresher
  <2>1. user' = user
    BY <1>2, <1>7 DEF Return
  <2>2. UserRank' = UserRank
    BY <1>1, <1>2, <1>7, <2>1 DEF UserRank
  <2>3. Level(ref'[tx.by].pc) < Level(ref[tx.by].pc) - 1
    BY <1>1, <1>7 DEF Level
  <2>4. Lower(tx.by)
    <3>1. Rank'[tx.by] = Level(ref'[tx.by].pc) /\ Rank[tx.by] = Level(ref[tx.by].pc) - 1
      BY <1>1, <1>2, <1>7 DEF Rank
    <3>2. OthersKept(tx.by)
      BY <1>1, <1>2, <1>7 DEF Rank, OthersKept
    <3>3. QED
      BY <2>3, <3>1, <3>2 DEF Lower
  <2>5. Rest' <= Rest
    BY <1>4, <1>5, <2>2, RestTyped DEF Rest
  <2>6. QED
    BY <1>3, <1>7, <2>4, <2>5 DEF Nearer
<1>8. QED
  BY <1>1, <1>6, <1>7

(* A step within it. *)
LEMMA TxInner ==
  ASSUME TypeOK, Shape, tx.by # Nobody, tx'.by = tx.by, UNCHANGED <<user, ref, left, events, call>>,
         Inner' < Inner, tx'.pc = "write" => tx'.dev \in tx'.todo
  PROVE  Shape' /\ Nearer
<1>1. Shape'
  BY DEF Shape, TxOfWaiting, TxOfAsker, WritesTodo
<1>2. Rank' = Rank
  BY DEF Rank
<1>3. UserRank' = UserRank /\ CallRank' = CallRank
  BY DEF UserRank, CallRank
<1>4. Rest' = Rest
  BY <1>3 DEF Rest
<1>5. QED
  BY <1>1, <1>2, <1>4 DEF Nearer

LEMMA TodoTyped ==
  ASSUME TypeOK
  PROVE  IsFiniteSet(tx.todo) /\ Cardinality(tx.todo) \in Nat
<1>1. tx.todo \in SUBSET Device /\ IsFiniteSet(Device)
  BY SyncAssumption DEF TypeOK, TxState, SyncAssumption
<1>2. QED
  BY <1>1, FS_Subset, FS_CardinalityType

LEMMA TxNearer ==
  ASSUME TypeOK, Shape, TxStep
  PROVE  Shape' /\ Nearer
<1>1. tx \in TxState /\ Nobody \notin Refresher /\ User # Nobody
  BY SyncAssumption DEF TypeOK, SyncAssumption
<1>2. Cardinality(tx.todo) \in Nat
  BY TodoTyped
<1>3. CASE BeginUser
  BY <1>3, BeginMoves, SyncAssumption DEF BeginUser, SyncAssumption
<1>4. CASE Refuse
  <2>1. tx.by # Nobody /\ Return(FALSE) /\ UNCHANGED <<events, call, left>>
    BY <1>4 DEF Refuse, worldVars
  <2>2. QED
    BY <2>1, ReturnNearer
<1>5. CASE TxRead
  <2>1. PICK d \in tx.todo :
          IF bus[d] = "bound"
          THEN /\ tx' = [tx EXCEPT !.pc = "write", !.dev = d, !.keys = KeysOf(d)]
               /\ UNCHANGED <<user, ref>>
          ELSE Return(FALSE)
    BY <1>5 DEF TxRead
  <2>2. tx.by # Nobody /\ tx.pc = "read" /\ UNCHANGED <<events, call, left>>
    BY <1>5 DEF TxRead, worldVars
  <2>3. CASE bus[d] = "bound"
    <3>1. /\ tx'.pc = "write" /\ tx'.dev = d /\ tx'.by = tx.by /\ tx'.todo = tx.todo
          /\ UNCHANGED <<user, ref>>
      BY <1>1, <2>1, <2>3 DEF TxState
    <3>2. Inner' < Inner
      BY <1>2, <2>2, <3>1 DEF Inner
    <3>3. QED
      BY <2>1, <2>2, <3>1, <3>2, TxInner
  <2>4. CASE bus[d] # "bound"
    BY <2>1, <2>2, <2>4, ReturnNearer
  <2>5. QED
    BY <2>3, <2>4
<1>6. CASE TxWrite
  <2>1. PICK o : IF o.ok
                 THEN /\ tx' = [tx EXCEPT !.pc = "read", !.todo = @ \ {tx.dev}, !.dev = 0, !.keys = {}]
                      /\ UNCHANGED <<user, ref, left>>
                 ELSE Fault /\ Return(FALSE)
    BY <1>6 DEF TxWrite
  <2>2. tx.by # Nobody /\ tx.pc = "write" /\ UNCHANGED <<events, call>>
    BY <1>6 DEF TxWrite, worldVars
  <2>3. CASE o.ok
    <3>1. tx'.pc = "read" /\ tx'.by = tx.by /\ tx'.todo = tx.todo \ {tx.dev} /\ UNCHANGED <<user, ref, left>>
      BY <1>1, <2>1, <2>3 DEF TxState
    <3>2. tx.dev \in tx.todo
      BY <2>2 DEF Shape, WritesTodo
    <3>3. Cardinality(tx.todo \ {tx.dev}) = Cardinality(tx.todo) - 1
      BY <3>2, TodoTyped, FS_RemoveElement
    <3>4. Inner' < Inner
      BY <1>2, <2>2, <3>1, <3>3 DEF Inner
    <3>5. QED
      BY <2>2, <3>1, <3>4, TxInner
  <2>4. CASE ~o.ok
    BY <2>1, <2>2, <2>4, ReturnNearer
  <2>5. QED
    BY <2>3, <2>4
<1>7. CASE WriteMode
  <2>1. /\ tx.by # Nobody /\ tx.pc = "read" /\ UNCHANGED <<events, call>>
        /\ \/ tx' = [tx EXCEPT !.pc = "commit"] /\ UNCHANGED <<user, ref, left>>
           \/ Fault /\ Return(FALSE)
    BY <1>7 DEF WriteMode, worldVars
  <2>2. CASE tx' = [tx EXCEPT !.pc = "commit"] /\ UNCHANGED <<user, ref, left>>
    <3>1. tx'.pc = "commit" /\ tx'.by = tx.by
      BY <1>1, <2>2 DEF TxState
    <3>2. Inner' < Inner
      BY <1>2, <2>1, <3>1 DEF Inner
    <3>3. QED
      BY <2>1, <2>2, <3>1, <3>2, TxInner
  <2>3. CASE Fault /\ Return(FALSE)
    BY <2>1, <2>3, ReturnNearer
  <2>4. QED
    BY <2>1, <2>2, <2>3
<1>8. CASE Commit
  <2>1. tx.by # Nobody /\ Return(TRUE) /\ UNCHANGED <<events, call>> /\ (UNCHANGED left \/ Fault)
    BY <1>8 DEF Commit, worldVars
  <2>2. QED
    BY <2>1, ReturnNearer
<1>9. QED
  BY <1>3, <1>4, <1>5, <1>6, <1>7, <1>8 DEF TxStep

(* A step of a refresh, its transition's beginning included. *)
LEMMA RefreshNearer ==
  ASSUME TypeOK, Shape, NEW r \in Refresher, RefreshStep(r)
  PROVE  Shape' /\ Nearer
<1>1. CASE BeginRefresh(r)
  BY <1>1, BeginMoves, SyncAssumption DEF BeginRefresh, SyncAssumption
<1>2. CASE ~BeginRefresh(r)
  <2>1. /\ ref[r].pc \notin {"apply", "fallback"}
        /\ \A q \in Refresher \ {r} : ref'[q] = ref[q]
        /\ Level(ref'[r].pc) < Level(ref[r].pc)
        /\ tx' = tx /\ user' = user /\ call'.pc = call.pc /\ events' = events
        /\ UNCHANGED left \/ Fault
    BY <1>2, RefreshMoves
  <2>2. tx.by # r
    BY <2>1 DEF Shape, TxOfWaiting
  <2>3. Shape'
    BY <2>1, <2>2 DEF Shape, TxOfWaiting, TxOfAsker, WritesTodo
  <2>4. Lower(r)
    <3>1. Rank'[r] = Level(ref'[r].pc) /\ Rank[r] = Level(ref[r].pc)
      BY <2>1, <2>2 DEF Rank
    <3>2. OthersKept(r)
      BY <2>1 DEF Rank, OthersKept
    <3>3. QED
      BY <2>1, <3>1, <3>2 DEF Lower
  <2>5. UserRank' = UserRank /\ CallRank' = CallRank
    BY <2>1 DEF UserRank, CallRank
  <2>6. /\ left'.hotplug = left.hotplug /\ left'.request = left.request
        /\ left'.fault \in Nat /\ left'.fault <= left.fault
    BY <2>1, FaultSpends
  <2>7. Rest' <= Rest
    BY <2>1, <2>5, <2>6, RestTyped DEF Rest
  <2>8. QED
    BY <2>3, <2>4, <2>7 DEF Nearer
<1>3. QED
  BY <1>1, <1>2

(* A new refresh. *)
LEMMA SnapshotNearer ==
  ASSUME TypeOK, Shape, NEW r \in Refresher, Snapshot(r)
  PROVE  Shape' /\ Nearer
<1>1. /\ ref \in [Refresher -> RefState] /\ ref[r] \in RefState /\ left \in LeftState
      /\ events \in Nat
  BY DEF TypeOK
<1>2. /\ ref[r].pc = "idle" /\ UNCHANGED <<tx, user, call>>
      /\ \/ /\ ref' = [ref EXCEPT ![r] = [ref[r] EXCEPT !.pc = "compare", !.snap = bus, !.gen = gen]]
            /\ left' = IF r = Monitor THEN left ELSE [left EXCEPT !.request = @ - 1]
         \/ Fault /\ UNCHANGED ref
      /\ IF r = Monitor THEN events > 0 /\ events' = events - 1
                        ELSE left.request > 0 /\ UNCHANGED events
  BY <1>1 DEF Snapshot
<1>3. tx.by # r /\ tx'.by # r
  BY <1>2 DEF Shape, TxOfWaiting
<1>4. UserRank' = UserRank /\ CallRank' = CallRank
  BY <1>2 DEF UserRank, CallRank
<1>5. CASE Fault /\ UNCHANGED ref
  <2>1. Shape' /\ Rank' = Rank
    BY <1>2, <1>5 DEF Shape, TxOfWaiting, TxOfAsker, WritesTodo, Rank
  <2>2. left'.hotplug = left.hotplug /\ left'.request = left.request /\ left'.fault = left.fault - 1
    BY <1>1, <1>5 DEF Fault, LeftState
  <2>3. events' <= events /\ events' \in Nat
    BY <1>1, <1>2
  <2>4. Rest' < Rest
    BY <1>4, <2>2, <2>3, RestTyped DEF Rest
  <2>5. QED
    BY <2>1, <2>4 DEF Nearer
<1>6. CASE /\ ref' = [ref EXCEPT ![r] = [ref[r] EXCEPT !.pc = "compare", !.snap = bus, !.gen = gen]]
           /\ left' = IF r = Monitor THEN left ELSE [left EXCEPT !.request = @ - 1]
  <2>1. ref'[r].pc = "compare" /\ \A q \in Refresher \ {r} : ref'[q] = ref[q]
    BY <1>1, <1>6 DEF RefState
  <2>2. Shape'
    BY <1>2, <1>3, <2>1 DEF Shape, TxOfWaiting, TxOfAsker, WritesTodo
  <2>3. Higher(r)
    <3>1. Rank'[r] = Level(ref'[r].pc) /\ Rank[r] = Level(ref[r].pc)
      BY <1>3 DEF Rank
    <3>2. Rank'[r] = 11 /\ Rank[r] = 0
      BY <1>2, <2>1, <3>1 DEF Level
    <3>3. OthersKept(r)
      BY <1>2, <2>1 DEF Rank, OthersKept
    <3>4. QED
      BY <3>2, <3>3 DEF Higher
  <2>4. /\ left'.hotplug = left.hotplug /\ left'.fault = left.fault
        /\ \/ left'.request = left.request /\ events' = events - 1
           \/ left'.request = left.request - 1 /\ events' = events
    BY <1>1, <1>2, <1>6 DEF LeftState
  <2>5. Rest' + 12 <= Rest
    BY <1>1, <1>4, <2>4, RestTyped DEF Rest
  <2>6. QED
    BY <2>2, <2>3, <2>5 DEF Nearer
<1>7. QED
  BY <1>2, <1>5, <1>6

(* set_block calls, hotplugs and requests leave refreshes and transitions alone. *)
LEMMA OthersNearer ==
  ASSUME TypeOK, Shape,
         \/ CallStep \/ (\E d \in Device : Add(d) \/ RemoveDevice(d) \/ Bind(d) \/ Unbind(d))
         \/ (\E m \in Mode, save \in BOOLEAN : Ask(m, save))
         \/ (\E d \in Device, block \in BOOLEAN : SetBlock(d, block))
  PROVE  Shape' /\ Nearer
<1>1. left \in LeftState /\ call \in CallState /\ events \in Nat
  BY DEF TypeOK
<1>2. tx' = tx /\ ref' = ref
  BY DEF CallStep, CallRead, CallWrite, Add, RemoveDevice, Bind, Unbind, Hotplug, Ask, SetBlock
<1>3. Rank' = Rank
  BY <1>2 DEF Rank
<1>4. ASSUME user' = user, Rest' < Rest PROVE Shape' /\ Nearer
  BY <1>2, <1>3, <1>4 DEF Shape, TxOfWaiting, TxOfAsker, WritesTodo, Nearer
<1>5. CASE CallStep
  <2>1. call.pc # "idle" /\ user' = user /\ events' = events /\ (UNCHANGED left \/ Fault)
    BY <1>5 DEF CallStep, CallRead, CallWrite, worldVars
  <2>2. CallRank' < CallRank
    <3>1. CASE CallRead
      <4>1. call.pc = "read" /\ (call' = NoCall \/ call' = [call EXCEPT !.pc = "write", !.keys = KeysOf(call.dev)])
        BY <3>1 DEF CallRead
      <4>2. NoCall.pc = "idle" /\ [call EXCEPT !.pc = "write", !.keys = KeysOf(call.dev)].pc = "write"
        BY <1>1 DEF CallState, NoCall
      <4>3. call'.pc = "idle" \/ call'.pc = "write"
        BY <4>1, <4>2
      <4>4. QED
        BY <4>1, <4>3 DEF CallRank
    <3>2. CASE CallWrite
      BY <3>2 DEF CallWrite, NoCall, CallRank
    <3>3. QED
      BY <1>5, <3>1, <3>2 DEF CallStep
  <2>3. UserRank' = UserRank
    BY <1>2, <2>1 DEF UserRank
  <2>4. /\ left'.hotplug = left.hotplug /\ left'.request = left.request
        /\ left'.fault \in Nat /\ left'.fault <= left.fault
    BY <2>1, FaultSpends
  <2>5. CallRank' \in 0..2
    BY <1>5 DEF CallRank
  <2>6. Rest' < Rest
    BY <2>1, <2>2, <2>3, <2>4, <2>5, RestTyped DEF Rest
  <2>7. QED
    BY <1>4, <2>1, <2>6
<1>6. CASE \E d \in Device : Add(d) \/ RemoveDevice(d) \/ Bind(d) \/ Unbind(d)
  <2>1. /\ user' = user /\ call' = call /\ left.hotplug > 0 /\ left' = [left EXCEPT !.hotplug = @ - 1]
        /\ events' = events \/ events' = events + 1
    BY <1>6 DEF Add, RemoveDevice, Bind, Unbind, Hotplug
  <2>2. left'.hotplug = left.hotplug - 1 /\ left'.request = left.request /\ left'.fault = left.fault
    BY <1>1, <2>1 DEF LeftState
  <2>3. UserRank' = UserRank /\ CallRank' = CallRank
    BY <1>2, <2>1 DEF UserRank, CallRank
  <2>4. Rest' < Rest
    BY <1>1, <2>1, <2>2, <2>3, RestTyped DEF Rest
  <2>5. QED
    BY <1>4, <2>1, <2>4
<1>7. CASE \E m \in Mode, save \in BOOLEAN : Ask(m, save)
  <2>1. /\ user.pc = "idle" /\ user'.pc = "wait" /\ call' = call /\ events' = events
        /\ left.request > 0 /\ left' = [left EXCEPT !.request = @ - 1]
    BY <1>7 DEF Ask, worldVars
  <2>2. left'.hotplug = left.hotplug /\ left'.request = left.request - 1 /\ left'.fault = left.fault
    BY <1>1, <2>1 DEF LeftState
  <2>3. UserRank = 0 /\ UserRank' \in 0..2 /\ CallRank' = CallRank
    BY <2>1 DEF UserRank, CallRank
  <2>4. Rest' < Rest
    BY <1>1, <2>1, <2>2, <2>3, RestTyped DEF Rest
  <2>5. Shape'
    BY <1>2, <2>1 DEF Shape, TxOfWaiting, TxOfAsker, WritesTodo
  <2>6. QED
    BY <1>3, <2>4, <2>5 DEF Nearer
<1>8. CASE \E d \in Device, block \in BOOLEAN : SetBlock(d, block)
  <2>1. /\ call.pc = "idle" /\ user' = user /\ events' = events
        /\ left.request > 0 /\ left' = [left EXCEPT !.request = @ - 1]
    BY <1>8 DEF SetBlock, worldVars
  <2>2. left'.hotplug = left.hotplug /\ left'.request = left.request - 1 /\ left'.fault = left.fault
    BY <1>1, <2>1 DEF LeftState
  <2>3. UserRank' = UserRank /\ CallRank = 0 /\ CallRank' \in 0..2
    BY <1>2, <2>1 DEF UserRank, CallRank
  <2>4. Rest' < Rest
    BY <1>1, <2>1, <2>2, <2>3, RestTyped DEF Rest
  <2>5. QED
    BY <1>4, <2>1, <2>4
<1>9. QED
  BY <1>5, <1>6, <1>7, <1>8

LEMMA StepNearer ==
  ASSUME TypeOK, Shape, Next
  PROVE  Shape' /\ Nearer
<1>1. ASSUME NEW r \in Refresher, RefreshStep(r) \/ Snapshot(r) PROVE Shape' /\ Nearer
  BY <1>1, RefreshNearer, SnapshotNearer
<1>2. CASE TxStep
  BY <1>2, TxNearer
<1>3. CASE \/ CallStep \/ (\E d \in Device : Add(d) \/ RemoveDevice(d) \/ Bind(d) \/ Unbind(d))
           \/ (\E m \in Mode, save \in BOOLEAN : Ask(m, save))
           \/ (\E d \in Device, block \in BOOLEAN : SetBlock(d, block))
  BY <1>3, OthersNearer
<1>4. QED
  BY <1>1, <1>2, <1>3, SyncAssumption DEF Next, Daemon, World, SyncAssumption

Outer   == Rest + Cardinality(Work)
Factor  == 2 * Cardinality(Device) + 3
Measure == Factor * Outer + Inner

LEMMA OuterFalls ==
  ASSUME RestInv, TypeOK', Next
  PROVE  /\ Shape' /\ IsFiniteSet(Work')
         /\ Outer' < Outer \/ (Outer' = Outer /\ Inner' < Inner)
<1>1. TypeOK /\ Shape /\ IsFiniteSet(Work)
  BY DEF RestInv, SyncInv
<1>2. Shape' /\ Nearer
  BY <1>1, StepNearer
<1>3. Rank \in [Refresher -> 0..11] /\ Rank' \in [Refresher -> 0..11]
  BY <1>1, <1>2, RankTyped
<1>4. Rest \in Nat /\ Rest' \in Nat
  BY <1>1, RestTyped
<1>5. Work = WorkOf(Rank) /\ Work' = WorkOf(Rank')
  BY DEF Work, WorkOf
<1>6. Cardinality(Work) \in Nat
  BY <1>1, FS_CardinalityType
<1>7. CASE Rank' = Rank /\ (Rest' < Rest \/ (Rest' = Rest /\ Inner' < Inner))
  <2>1. Work' = Work
    BY <1>5, <1>7
  <2>2. QED
    BY <1>1, <1>2, <1>4, <1>6, <1>7, <2>1 DEF Outer
<1>8. ASSUME NEW r \in Refresher, Lower(r), Rest' <= Rest
      PROVE  IsFiniteSet(Work') /\ Outer' < Outer
  <2>1. Rank'[r] < Rank[r] /\ \A q \in Refresher \ {r} : Rank'[q] = Rank[q]
    BY <1>8 DEF Lower, OthersKept
  <2>2. IsFiniteSet(WorkOf(Rank')) /\ Cardinality(WorkOf(Rank')) < Cardinality(WorkOf(Rank))
    BY <1>1, <1>3, <1>5, <2>1, WorkLess
  <2>3. Cardinality(Work') \in Nat
    BY <1>5, <2>2, FS_CardinalityType
  <2>4. QED
    BY <1>4, <1>5, <1>6, <1>8, <2>2, <2>3 DEF Outer
<1>9. ASSUME NEW r \in Refresher, Higher(r), Rest' + 12 <= Rest
      PROVE  IsFiniteSet(Work') /\ Outer' < Outer
  <2>1. \A q \in Refresher \ {r} : Rank'[q] = Rank[q]
    BY <1>9 DEF Higher, OthersKept
  <2>2. IsFiniteSet(WorkOf(Rank')) /\ Cardinality(WorkOf(Rank')) <= Cardinality(WorkOf(Rank)) + 11
    BY <1>1, <1>3, <1>5, <2>1, WorkMore
  <2>3. IsFiniteSet(Work') /\ Cardinality(Work') <= Cardinality(Work) + 11
    BY <1>5, <2>2
  <2>4. Cardinality(Work') \in Nat
    BY <2>3, FS_CardinalityType
  <2>5. Outer = Rest + Cardinality(Work) /\ Outer' = Rest' + Cardinality(Work')
    BY DEF Outer
  <2>6. Rest' + 12 <= Rest
    BY <1>9
  <2>7. ASSUME NEW a \in Nat, NEW b \in Nat, NEW x \in Nat, NEW y \in Nat, a + 12 <= b, x <= y + 11
        PROVE  a + x < b + y
    BY <2>7
  <2>8. Rest' + Cardinality(Work') < Rest + Cardinality(Work)
    BY <1>4, <1>6, <2>3, <2>4, <2>6, <2>7
  <2>9. QED
    BY <2>3, <2>5, <2>8
<1>10. QED
  BY <1>2, <1>7, <1>8, <1>9 DEF Nearer

LEMMA RestHolds == Spec => []RestInv
<1>1. Init => Shape /\ IsFiniteSet(Work)
  <2> SUFFICES ASSUME Init PROVE Shape /\ IsFiniteSet(Work)
    OBVIOUS
  <2>1. tx.by = Nobody /\ Nobody \notin Refresher /\ Nobody # User
        /\ \A r \in Refresher : ref[r].pc = "idle"
    BY SyncAssumption DEF Init, NoTx, NoRef, SyncAssumption
  <2>2. Shape
    BY <2>1 DEF Shape, TxOfWaiting, TxOfAsker, WritesTodo
  <2>3. \A r \in Refresher : Rank[r] = 0
    BY <2>1 DEF Rank, Level
  <2>4. Work = {}
    BY <2>3 DEF Work, WorkOf
  <2>5. QED
    BY <2>2, <2>4, FS_EmptySet
<1>2. RestInv /\ SyncInv' /\ [Next]_vars => RestInv'
  <2> SUFFICES ASSUME RestInv, SyncInv', [Next]_vars PROVE RestInv'
    OBVIOUS
  <2>1. CASE Next
    BY <2>1, OuterFalls DEF RestInv, SyncInv
  <2>2. CASE UNCHANGED vars
    <3>1. UNCHANGED <<tx, user, ref>>
      BY <2>2 DEF vars
    <3>2. Rank' = Rank
      BY <3>1 DEF Rank
    <3>3. Work' = Work
      BY <3>2 DEF Work, WorkOf
    <3>4. QED
      BY <3>1, <3>3 DEF RestInv, Shape, TxOfWaiting, TxOfAsker, WritesTodo
  <2>3. QED
    BY <2>1, <2>2
<1>3. QED
  BY <1>1, <1>2, SyncHolds, PTL DEF Spec, RestInv

LEMMA InnerTyped ==
  ASSUME TypeOK
  PROVE  Inner \in Nat /\ Inner < Factor /\ Factor \in Nat
<1>1. tx.todo \in SUBSET Device /\ IsFiniteSet(Device) /\ Cardinality(Device) \in Nat
  BY SyncAssumption, FS_CardinalityType DEF TypeOK, TxState, SyncAssumption
<1>2. Cardinality(tx.todo) \in Nat /\ Cardinality(tx.todo) <= Cardinality(Device)
  BY <1>1, FS_Subset, FS_CardinalityType
<1>3. QED
  BY <1>1, <1>2 DEF Inner, Factor

LEMMA OuterTyped == ASSUME RestInv PROVE Outer \in Nat
BY RestTyped, FS_CardinalityType DEF RestInv, SyncInv, Outer

(* RestInv keeps Measure a number, and so does RestInv' after a step. *)
LEMMA MeasureIsNat ==
  (RestInv => Outer \in Nat /\ Inner \in Nat /\ Inner < Factor /\ Factor \in Nat)
  /\ (RestInv' => Outer' \in Nat /\ Inner' \in Nat /\ Inner' < Factor)
<1>1. RestInv => Outer \in Nat /\ Inner \in Nat /\ Inner < Factor /\ Factor \in Nat
  BY InnerTyped, OuterTyped DEF RestInv, SyncInv
<1>2. (RestInv => Outer \in Nat /\ Inner \in Nat /\ Inner < Factor)'
  BY InnerTyped, OuterTyped, PTL DEF RestInv, SyncInv
<1>3. QED
  BY <1>1, <1>2

LEMMA Weighs ==
  ASSUME NEW f \in Nat, NEW a \in Nat, NEW b \in Nat, NEW x \in Nat, NEW y \in Nat, x < f,
         a < b \/ (a = b /\ x < y)
  PROVE  f * a + x \in Nat /\ f * b + y \in Nat /\ f * a + x < f * b + y
<1>1. CASE a < b
  <2>1. PICK k \in Nat : b = a + 1 + k
    <3>1. b - a - 1 \in Nat /\ b = a + 1 + (b - a - 1)
      BY <1>1
    <3>2. QED
      BY <3>1
  <2>2. f * (a + 1 + k) = f * a + f + f * k
    OBVIOUS
  <2>3. f * k \in Nat /\ f * a \in Nat
    OBVIOUS
  <2>4. QED
    BY <2>1, <2>2, <2>3
<1>2. CASE a = b /\ x < y
  <2>1. f * a \in Nat
    OBVIOUS
  <2>2. QED
    BY <1>2, <2>1
<1>3. QED
  BY <1>1, <1>2

(* Every step that is one brings the daemon nearer to rest. *)
LEMMA MeasureFalls ==
  ASSUME RestInv, RestInv', Next
  PROVE  Measure \in Nat /\ Measure' \in Nat /\ Measure' < Measure
<1>1. /\ Outer \in Nat /\ Inner \in Nat /\ Inner < Factor /\ Factor \in Nat
      /\ Outer' \in Nat /\ Inner' \in Nat /\ Inner' < Factor
  BY MeasureIsNat
<1>2. Outer' < Outer \/ (Outer' = Outer /\ Inner' < Inner)
  BY OuterFalls DEF RestInv, SyncInv
<1>3. Factor' = Factor
  BY DEF Factor
<1>4. Measure = Factor * Outer + Inner /\ Measure' = Factor * Outer' + Inner'
  BY <1>3 DEF Measure
<1>5. QED
  BY <1>1, <1>2, <1>4, Weighs

(* A set of numbers that is not empty has a least one.                        *)
LEMMA LeastNumber ==
  ASSUME NEW V \in SUBSET Nat, V # {}
  PROVE  \E k \in V : \A m \in V : k <= m
<1> DEFINE R == OpToRel(<, Nat)
<1>1. IsWellFoundedOn(R, Nat)
  BY NatLessThanWellFounded
<1>2. \A a, b \in Nat : a < b => <<a, b>> \in R
  BY DEF OpToRel
<1> HIDE DEF R
<1>3. PICK k \in V : \A m \in V : ~(<<m, k>> \in R)
  BY <1>1, WFMin
<1>4. ASSUME NEW m \in V PROVE k <= m
  <2>1. m \in Nat /\ k \in Nat
    OBVIOUS
  <2>2. ~(<<m, k>> \in R)
    BY <1>3
  <2>3. ~(m < k)
    BY <1>2, <2>1, <2>2
  <2>4. QED
    BY <2>1, <2>3
<1>5. QED
  BY <1>4

(* The daemon's next step where something is going on and nothing fails: the   *)
(* set_block call first, then the transition, then the caller that waits for   *)
(* the lock, a refresh, an event.                                             *)
CallTo(p, m, c, s) ==
  <<bus, gen, events, pci, list, p, m, exp, mode, saved, tx, user, ref, c, overlap, s, left>>
TxTo(p, m, now, file, t, u, rs, s) ==
  <<bus, gen, events, pci, list, p, m, exp, now, file, t, u, rs, call, overlap, s, left>>
RefTo(devices, gpus, p, m, e, rs, c) ==
  <<bus, gen, events, devices, gpus, p, m, e, mode, saved, tx, user, rs, c, overlap, strays, left>>
BeginTo(c, m, save) ==
  <<bus, gen, events, pci, list, pushed, map, exp, mode, saved,
    [NoTx EXCEPT !.by = c, !.mode = m, !.save = save, !.todo = Touched(m)], user, ref,
    IF call.pc = "idle" \/ call.beside = "refresh" THEN call ELSE [call EXCEPT !.beside = "transition"],
    overlap, strays, left>>

AfterCall ==
  IF call.pc = "read"
  THEN CallTo(pushed, map,
              IF bus[call.dev] = "bound"
              THEN [call EXCEPT !.pc = "write", !.keys = KeysOf(call.dev)] ELSE NoCall, strays)
  ELSE LET retired == call.beside = "refresh"
           old     == IF retired THEN {} ELSE pushed[call.dev]
       IN  CallTo(IF retired THEN pushed ELSE [pushed EXCEPT ![call.dev] = call.keys],
                  Enter(Remove(map, old \ call.keys), call.keys, call.id, call.block), NoCall,
                  IF call.beside = "nothing" THEN strays ELSE strays \cup call.keys)

UserBack == IF tx.by = User THEN [user EXCEPT !.pc = "idle", !.mode = "hybrid", !.save = FALSE] ELSE user
RefBack(ok) ==
  IF tx.by = User THEN ref
  ELSE [ref EXCEPT ![tx.by].pc = IF ~ok /\ @ = "apply" THEN "fallback" ELSE "collect",
                   ![tx.by].mode = "hybrid"]
GivenUp == TxTo(pushed, map, mode, saved, NoTx, UserBack, RefBack(FALSE), strays)
NextGpu == CHOOSE d \in tx.todo : First(d, tx.todo)

AfterRead ==
  IF ~Policy!Supported(tx.mode) THEN GivenUp
  ELSE IF tx.todo = {}
  THEN TxTo(pushed, map, mode, saved, [tx EXCEPT !.pc = "commit"], user, ref, strays)
  ELSE IF bus[NextGpu] = "bound"
  THEN TxTo(pushed, map, mode, saved,
            [tx EXCEPT !.pc = "write", !.dev = NextGpu, !.keys = KeysOf(NextGpu)], user, ref, strays)
  ELSE GivenUp

AfterTx ==
  IF tx.pc = "read" THEN AfterRead
  ELSE IF tx.pc = "write"
  THEN TxTo([pushed EXCEPT ![tx.dev] = tx.keys],
            Enter(Remove(map, pushed[tx.dev] \ tx.keys), tx.keys, IdOf(tx.dev), Hides(tx.mode, tx.dev)),
            mode, saved, [tx EXCEPT !.pc = "read", !.todo = @ \ {tx.dev}, !.dev = 0, !.keys = {}],
            user, ref, strays \ tx.keys)
  ELSE TxTo(pushed, map, tx.mode, IF tx.save THEN tx.mode ELSE saved, NoTx, UserBack, RefBack(TRUE), strays)

RefOnly(rs) == RefTo(pci, list, pushed, map, exp, rs, call)

AfterRefresh(r) ==
  CASE ref[r].pc = "compare" ->
         IF ref[r].snap = pci.st THEN RefOnly([ref EXCEPT ![r] = NoRef])
         ELSE RefTo([st |-> ref[r].snap, gen |-> ref[r].gen], list, pushed, map, exp,
                    [ref EXCEPT ![r].pc = "replace"], call)
    [] ref[r].pc = "replace" ->
         RefTo(pci, [d \in Device |-> IF ref[r].snap[d] = "gone" THEN "absent"
                                      ELSE IF bus[d] = "bound" THEN "available" ELSE "unavailable"],
               [d \in Device |-> {}], map, exp,
               [ref EXCEPT ![r] = [NoRef EXCEPT !.pc = "mode", !.previous = Pushed]],
               IF call.pc = "idle" THEN call ELSE [call EXCEPT !.beside = "refresh"])
    [] ref[r].pc = "mode" -> RefOnly([ref EXCEPT ![r].pc = "apply", ![r].mode = saved])
    [] ref[r].pc \in {"apply", "fallback"} ->
         BeginTo(r, IF ref[r].pc = "apply" THEN ref[r].mode ELSE "hybrid", FALSE)
    [] ref[r].pc = "collect" -> RefOnly([ref EXCEPT ![r].pc = "drop", ![r].claimed = Pushed])
    [] ref[r].pc = "drop" ->
         RefTo(pci, list, pushed, Remove(map, ref[r].previous \ ref[r].claimed), exp,
               [ref EXCEPT ![r].pc = "target", ![r].previous = {}, ![r].claimed = {}], call)
    [] ref[r].pc = "target" -> RefOnly([ref EXCEPT ![r].pc = "nvidia", ![r].target = NvidiaTarget])
    [] ref[r].pc = "nvidia" ->
         RefTo(pci, list, pushed, map, ref[r].target, [ref EXCEPT ![r] = NoRef], call)

AfterEvent ==
  <<bus, gen, events - 1, pci, list, pushed, map, exp, mode, saved, tx, user,
    [ref EXCEPT ![Monitor].pc = "compare", ![Monitor].snap = bus, ![Monitor].gen = gen], call,
    overlap \/ \E q \in Refresher \ {Monitor} : ref[q].pc # "idle", strays, left>>

After ==
  IF call.pc # "idle" THEN AfterCall
  ELSE IF tx.by # Nobody THEN AfterTx
  ELSE IF user.pc = "wait" THEN BeginTo(User, user.mode, user.save)
  ELSE IF \E r \in Refresher : ref[r].pc # "idle"
  THEN AfterRefresh(CHOOSE r \in Refresher : ref[r].pc # "idle")
  ELSE AfterEvent

LEMMA SyncSucceeds ==
  ASSUME NEW old, NEW keys, NEW id, NEW b
  PROVE  [ok |-> TRUE, map |-> Enter(Remove(map, old \ keys), keys, id, b), own |-> keys]
           \in Outcomes(old, keys, id, b)
BY DEF Outcomes

LEMMA CallPossible ==
  ASSUME TypeOK, call.pc # "idle", vars' = AfterCall
  PROVE  CallStep
<1>1. CASE call.pc = "read"
  <2>1. vars' = CallTo(pushed, map,
                  IF bus[call.dev] = "bound"
                  THEN [call EXCEPT !.pc = "write", !.keys = KeysOf(call.dev)] ELSE NoCall, strays)
    BY <1>1 DEF AfterCall
  <2>2. CallRead
    BY <1>1, <2>1 DEF CallRead, CallTo, vars, worldVars, listVars, modeVars
  <2>3. QED
    BY <2>2 DEF CallStep
<1>2. CASE call.pc # "read"
  <2> DEFINE retired == call.beside = "refresh"
             old     == IF retired THEN {} ELSE pushed[call.dev]
             o       == [ok |-> TRUE, map |-> Enter(Remove(map, old \ call.keys), call.keys, call.id, call.block),
                         own |-> call.keys]
  <2>1. call.pc = "write"
    BY <1>2 DEF TypeOK, CallState
  <2>2. o \in Outcomes(old, call.keys, call.id, call.block)
    BY SyncSucceeds
  <2>3. o.ok /\ o.own = call.keys /\ o.map = Enter(Remove(map, old \ call.keys), call.keys, call.id, call.block)
    OBVIOUS
  <2>4. vars' = CallTo(IF retired THEN pushed ELSE [pushed EXCEPT ![call.dev] = call.keys],
                  Enter(Remove(map, old \ call.keys), call.keys, call.id, call.block), NoCall,
                  IF call.beside = "nothing" THEN strays ELSE strays \cup call.keys)
    BY <1>2 DEF AfterCall
  <2>5. /\ pushed' = IF retired THEN pushed ELSE [pushed EXCEPT ![call.dev] = call.keys]
        /\ map' = Enter(Remove(map, old \ call.keys), call.keys, call.id, call.block)
        /\ call' = NoCall /\ strays' = IF call.beside = "nothing" THEN strays ELSE strays \cup call.keys
        /\ UNCHANGED <<worldVars, listVars, exp, modeVars, tx, user, ref, overlap, left>>
    BY <2>4 DEF CallTo, vars, worldVars, listVars, modeVars
  <2> HIDE DEF o
  <2>6. /\ map' = o.map /\ (pushed' = IF retired THEN pushed ELSE [pushed EXCEPT ![call.dev] = o.own])
        /\ IF o.ok THEN UNCHANGED left ELSE Fault
    BY <2>3, <2>5
  <2>7. CallWrite
    BY <2>1, <2>2, <2>5, <2>6 DEF CallWrite
  <2>8. QED
    BY <2>7 DEF CallStep
<1>3. QED
  BY <1>1, <1>2

(* The transition. *)
LEMMA GivenUpReturns ==
  ASSUME vars' = GivenUp
  PROVE  Return(FALSE) /\ UNCHANGED <<worldVars, listVars, pushed, map, exp, modeVars, call, overlap, strays, left>>
<1>1. /\ tx' = NoTx /\ user' = UserBack /\ ref' = RefBack(FALSE)
      /\ UNCHANGED <<worldVars, listVars, pushed, map, exp, modeVars, call, overlap, strays, left>>
  BY DEF GivenUp, TxTo, vars, worldVars, listVars, modeVars
<1>2. Return(FALSE)
  BY <1>1 DEF Return, UserBack, RefBack
<1>3. QED
  BY <1>1, <1>2

LEMMA FirstOf ==
  ASSUME NEW S \in SUBSET Device, S # {}
  PROVE  \E d \in S : First(d, S)
<1>1. S \in SUBSET Nat
  BY SyncAssumption DEF SyncAssumption
<1>2. PICK d \in S : \A e \in S : d <= e
  BY <1>1, LeastNumber
<1>3. QED
  BY <1>2 DEF First

LEMMA TxPossible ==
  ASSUME TypeOK, tx.by # Nobody, vars' = AfterTx
  PROVE  TxStep
<1>1. tx \in TxState /\ tx.pc \in {"read", "write", "commit"} /\ tx.todo \in SUBSET Device
  BY DEF TypeOK, TxState
<1>2. CASE tx.pc = "read"
  <2>1. vars' = AfterRead
    BY <1>2 DEF AfterTx
  <2>2. CASE ~Policy!Supported(tx.mode)
    <3>1. vars' = GivenUp
      BY <2>1, <2>2 DEF AfterRead
    <3>2. Refuse
      BY <1>2, <2>2, <3>1, GivenUpReturns DEF Refuse
    <3>3. QED
      BY <3>2 DEF TxStep
  <2>3. CASE Policy!Supported(tx.mode) /\ tx.todo = {}
    <3>1. vars' = TxTo(pushed, map, mode, saved, [tx EXCEPT !.pc = "commit"], user, ref, strays)
      BY <2>1, <2>3 DEF AfterRead
    <3>2. WriteMode
      BY <1>2, <2>3, <3>1 DEF WriteMode, TxTo, vars, worldVars, listVars, modeVars
    <3>3. QED
      BY <3>2 DEF TxStep
  <2>4. CASE Policy!Supported(tx.mode) /\ tx.todo # {}
    <3>1. NextGpu \in tx.todo /\ First(NextGpu, tx.todo)
      BY <1>1, <2>4, FirstOf DEF NextGpu
    <3>2. CASE bus[NextGpu] = "bound"
      <4>1. vars' = TxTo(pushed, map, mode, saved,
                      [tx EXCEPT !.pc = "write", !.dev = NextGpu, !.keys = KeysOf(NextGpu)], user, ref, strays)
        BY <2>1, <2>4, <3>2 DEF AfterRead
      <4>2. /\ tx' = [tx EXCEPT !.pc = "write", !.dev = NextGpu, !.keys = KeysOf(NextGpu)]
            /\ UNCHANGED <<user, ref>>
            /\ UNCHANGED <<worldVars, listVars, pushed, map, exp, modeVars, call, overlap, strays, left>>
        BY <4>1 DEF TxTo, vars, worldVars, listVars, modeVars
      <4>3. TxRead
        BY <1>2, <2>4, <3>1, <3>2, <4>2 DEF TxRead
      <4>4. QED
        BY <4>3 DEF TxStep
    <3>3. CASE bus[NextGpu] # "bound"
      <4>1. vars' = GivenUp
        BY <2>1, <2>4, <3>3 DEF AfterRead
      <4>2. TxRead
        BY <1>2, <2>4, <3>1, <3>3, <4>1, GivenUpReturns DEF TxRead
      <4>3. QED
        BY <4>2 DEF TxStep
    <3>4. QED
      BY <3>2, <3>3
  <2>5. QED
    BY <2>2, <2>3, <2>4
<1>3. CASE tx.pc = "write"
  <2> DEFINE o == [ok |-> TRUE,
                   map |-> Enter(Remove(map, pushed[tx.dev] \ tx.keys), tx.keys, IdOf(tx.dev), Hides(tx.mode, tx.dev)),
                   own |-> tx.keys]
  <2>1. o \in Outcomes(pushed[tx.dev], tx.keys, IdOf(tx.dev), Hides(tx.mode, tx.dev))
    BY SyncSucceeds
  <2>2. /\ o.ok /\ o.own = tx.keys
        /\ o.map = Enter(Remove(map, pushed[tx.dev] \ tx.keys), tx.keys, IdOf(tx.dev), Hides(tx.mode, tx.dev))
    OBVIOUS
  <2>3. vars' = TxTo([pushed EXCEPT ![tx.dev] = tx.keys],
                  Enter(Remove(map, pushed[tx.dev] \ tx.keys), tx.keys, IdOf(tx.dev), Hides(tx.mode, tx.dev)),
                  mode, saved, [tx EXCEPT !.pc = "read", !.todo = @ \ {tx.dev}, !.dev = 0, !.keys = {}],
                  user, ref, strays \ tx.keys)
    BY <1>3 DEF AfterTx
  <2>4. /\ pushed' = [pushed EXCEPT ![tx.dev] = tx.keys]
        /\ map' = Enter(Remove(map, pushed[tx.dev] \ tx.keys), tx.keys, IdOf(tx.dev), Hides(tx.mode, tx.dev))
        /\ tx' = [tx EXCEPT !.pc = "read", !.todo = @ \ {tx.dev}, !.dev = 0, !.keys = {}]
        /\ strays' = strays \ tx.keys /\ UNCHANGED <<user, ref, left>>
        /\ UNCHANGED <<worldVars, listVars, exp, modeVars, call, overlap>>
    BY <2>3 DEF TxTo, vars, worldVars, listVars, modeVars
  <2> HIDE DEF o
  <2>5. /\ map' = o.map /\ pushed' = [pushed EXCEPT ![tx.dev] = o.own]
    BY <2>2, <2>4
  <2>6. TxWrite
    BY <1>3, <2>1, <2>2, <2>4, <2>5 DEF TxWrite
  <2>7. QED
    BY <2>6 DEF TxStep
<1>4. CASE tx.pc = "commit"
  <2>1. vars' = TxTo(pushed, map, tx.mode, IF tx.save THEN tx.mode ELSE saved, NoTx, UserBack, RefBack(TRUE), strays)
    BY <1>4 DEF AfterTx
  <2>2. /\ mode' = tx.mode /\ saved' = (IF tx.save THEN tx.mode ELSE saved)
        /\ tx' = NoTx /\ user' = UserBack /\ ref' = RefBack(TRUE)
        /\ UNCHANGED <<worldVars, listVars, pushed, map, exp, call, overlap, strays, left>>
    BY <2>1 DEF TxTo, vars, worldVars, listVars
  <2>3. Return(TRUE)
    BY <2>2 DEF Return, UserBack, RefBack
  <2>4. Commit
    BY <1>4, <2>2, <2>3 DEF Commit
  <2>5. QED
    BY <2>4 DEF TxStep
<1>5. QED
  BY <1>1, <1>2, <1>3, <1>4

LEMMA BeginPossible ==
  ASSUME tx.by = Nobody, NEW c, NEW m, NEW save, vars' = BeginTo(c, m, save)
  PROVE  Begin(c, m, save)
BY DEF Begin, BeginTo, vars, worldVars, listVars, modeVars

LEMMA RefreshPossible ==
  ASSUME TypeOK, tx.by = Nobody, NEW r \in Refresher, ref[r].pc # "idle", vars' = AfterRefresh(r)
  PROVE  RefreshStep(r)
<1>1. ref[r].pc \in {"compare", "replace", "mode", "apply", "fallback", "collect", "drop", "target", "nvidia"}
  BY DEF TypeOK, RefState
<1>2. CASE ref[r].pc = "compare"
  <2>1. vars' = IF ref[r].snap = pci.st THEN RefOnly([ref EXCEPT ![r] = NoRef])
                ELSE RefTo([st |-> ref[r].snap, gen |-> ref[r].gen], list, pushed, map, exp,
                           [ref EXCEPT ![r].pc = "replace"], call)
    BY <1>2 DEF AfterRefresh
  <2>2. Compare(r)
    BY <1>2, <2>1 DEF Compare, RefOnly, RefTo, vars, worldVars, listVars, modeVars
  <2>3. QED
    BY <2>2 DEF RefreshStep
<1>3. CASE ref[r].pc = "replace"
  <2>1. vars' = RefTo(pci, [d \in Device |-> IF ref[r].snap[d] = "gone" THEN "absent"
                                      ELSE IF bus[d] = "bound" THEN "available" ELSE "unavailable"],
               [d \in Device |-> {}], map, exp,
               [ref EXCEPT ![r] = [NoRef EXCEPT !.pc = "mode", !.previous = Pushed]],
               IF call.pc = "idle" THEN call ELSE [call EXCEPT !.beside = "refresh"])
    BY <1>3 DEF AfterRefresh
  <2>2. Replace(r)
    BY <1>3, <2>1 DEF Replace, RefTo, vars, worldVars, listVars, modeVars
  <2>3. QED
    BY <2>2 DEF RefreshStep
<1>4. CASE ref[r].pc = "mode"
  <2>1. vars' = RefOnly([ref EXCEPT ![r].pc = "apply", ![r].mode = saved])
    BY <1>4 DEF AfterRefresh
  <2>2. ReadMode(r)
    BY <1>4, <2>1 DEF ReadMode, RefOnly, RefTo, vars, worldVars, listVars, modeVars
  <2>3. QED
    BY <2>2 DEF RefreshStep
<1>5. CASE ref[r].pc \in {"apply", "fallback"}
  <2>1. vars' = BeginTo(r, IF ref[r].pc = "apply" THEN ref[r].mode ELSE "hybrid", FALSE)
    BY <1>5 DEF AfterRefresh
  <2>2. Begin(r, IF ref[r].pc = "apply" THEN ref[r].mode ELSE "hybrid", FALSE)
    BY <2>1, BeginPossible
  <2>3. QED
    BY <1>5, <2>2 DEF RefreshStep, BeginRefresh
<1>6. CASE ref[r].pc = "collect"
  <2>1. vars' = RefOnly([ref EXCEPT ![r].pc = "drop", ![r].claimed = Pushed])
    BY <1>6 DEF AfterRefresh
  <2>2. Collect(r)
    BY <1>6, <2>1 DEF Collect, RefOnly, RefTo, vars, worldVars, listVars, modeVars
  <2>3. QED
    BY <2>2 DEF RefreshStep
<1>7. CASE ref[r].pc = "drop"
  <2>1. vars' = RefTo(pci, list, pushed, Remove(map, ref[r].previous \ ref[r].claimed), exp,
               [ref EXCEPT ![r].pc = "target", ![r].previous = {}, ![r].claimed = {}], call)
    BY <1>7 DEF AfterRefresh
  <2>2. Drop(r)
    BY <1>7, <2>1 DEF Drop, RefTo, vars, worldVars, listVars, modeVars
  <2>3. QED
    BY <2>2 DEF RefreshStep
<1>8. CASE ref[r].pc = "target"
  <2>1. vars' = RefOnly([ref EXCEPT ![r].pc = "nvidia", ![r].target = NvidiaTarget])
    BY <1>8 DEF AfterRefresh
  <2>2. ReadTarget(r)
    BY <1>8, <2>1 DEF ReadTarget, RefOnly, RefTo, vars, worldVars, listVars, modeVars
  <2>3. QED
    BY <2>2 DEF RefreshStep
<1>9. CASE ref[r].pc = "nvidia"
  <2>1. vars' = RefTo(pci, list, pushed, map, ref[r].target, [ref EXCEPT ![r] = NoRef], call)
    BY <1>9 DEF AfterRefresh
  <2>2. SyncNvidia(r)
    BY <1>9, <2>1 DEF SyncNvidia, RefTo, vars, worldVars, listVars, modeVars
  <2>3. QED
    BY <2>2 DEF RefreshStep
<1>10. QED
  BY <1>1, <1>2, <1>3, <1>4, <1>5, <1>6, <1>7, <1>8, <1>9

(* Who can go on, in this order: the call, the transition, the user that waits, *)
(* a refresh, the next event.                                                *)
LEMMA DaemonPossible ==
  ASSUME RestInv, ~Quiet, vars' = After
  PROVE  Daemon
<1>1. TypeOK /\ Monitor \in Refresher
  BY SyncAssumption DEF RestInv, SyncInv, SyncAssumption
<1>2. CASE call.pc # "idle"
  <2>1. vars' = AfterCall
    BY <1>2 DEF After
  <2>2. QED
    BY <1>1, <1>2, <2>1, CallPossible DEF Daemon
<1>3. CASE call.pc = "idle" /\ tx.by # Nobody
  <2>1. vars' = AfterTx
    BY <1>3 DEF After
  <2>2. QED
    BY <1>1, <1>3, <2>1, TxPossible DEF Daemon
<1>4. CASE call.pc = "idle" /\ tx.by = Nobody /\ user.pc = "wait"
  <2>1. vars' = BeginTo(User, user.mode, user.save)
    BY <1>4 DEF After
  <2>2. BeginUser
    BY <1>4, <2>1, BeginPossible DEF BeginUser
  <2>3. QED
    BY <2>2 DEF Daemon, TxStep
<1>5. CASE call.pc = "idle" /\ tx.by = Nobody /\ user.pc # "wait" /\ \E r \in Refresher : ref[r].pc # "idle"
  <2>1. PICK r \in Refresher : ref[r].pc # "idle" /\ r = CHOOSE q \in Refresher : ref[q].pc # "idle"
    BY <1>5
  <2>2. vars' = AfterRefresh(r)
    BY <1>5, <2>1 DEF After
  <2>3. RefreshStep(r)
    BY <1>1, <1>5, <2>1, <2>2, RefreshPossible
  <2>4. QED
    BY <2>1, <2>3 DEF Daemon
<1>6. CASE call.pc = "idle" /\ tx.by = Nobody /\ user.pc # "wait" /\ ~\E r \in Refresher : ref[r].pc # "idle"
  <2>1. vars' = AfterEvent
    BY <1>6 DEF After
  <2>2. user.pc = "idle" /\ events \in Nat
    BY <1>1, <1>6 DEF TypeOK, UserState
  <2>3. events > 0
    BY <1>6, <2>2 DEF Quiet
  <2>4. Snapshot(Monitor)
    BY <1>1, <1>6, <2>1, <2>3 DEF AfterEvent, Snapshot, vars, worldVars, listVars, modeVars
  <2>5. QED
    BY <2>4 DEF Daemon
<1>7. QED
  BY <1>2, <1>3, <1>4, <1>5, <1>6

(* Nobody waits for ever: where something is going on, After is a next state   *)
(* of the daemon, another than this one.  As After depends on the present state *)
(* alone, this is what NoDeadlock says with ENABLED: whatever refreshes,        *)
(* transitions and calls wait for, each error path has given back, and one of   *)
(* them can go on (refresh_gpu, internal_set_mode, set_block).               *)
THEOREM StepPossible ==
  ASSUME RestInv, ~Quiet, vars' = After
  PROVE  <<Daemon>>_vars
<1>1. Daemon
  BY DaemonPossible
<1>2. ASSUME UNCHANGED vars PROVE FALSE
  <2>1. UNCHANGED <<tx, user, ref, call, left, events>>
    BY <1>2 DEF vars
  <2>2. RestInv' /\ Measure' = Measure
    <3>1. Rank' = Rank /\ Rest' = Rest /\ Inner' = Inner /\ Factor' = Factor
      BY <2>1 DEF Rank, Rest, Inner, Factor, UserRank, CallRank
    <3>2. Work' = Work
      BY <3>1 DEF Work, WorkOf
    <3>3. Shape'
      BY <2>1 DEF RestInv, Shape, TxOfWaiting, TxOfAsker, WritesTodo
    <3>4. SyncInv'
      BY <1>2, SyncStays DEF RestInv
    <3>5. QED
      BY <3>1, <3>2, <3>3, <3>4 DEF RestInv, Measure, Outer
  <2>3. Measure \in Nat /\ Measure' < Measure
    BY <1>1, <2>2, MeasureFalls DEF Next
  <2>4. QED
    BY <2>2, <2>3
<1>3. QED
  BY <1>1, <1>2

(* Fairness of the daemon, with Quiet in the place of ~ENABLED: the tokio      *)
(* runtime goes on as long as something is going on.  By StepPossible          *)
(* <<Daemon>>_vars is enabled there, so it follows from WF_vars(Daemon).       *)
DaemonGoesOn == []<>Quiet \/ []<><<Daemon>>_vars

(* The bounds that Measure will ever keep form a set, which holds of every     *)
(* behaviour; TLA+ builds no set from a temporal formula, so it is a hypothesis *)
(* where a least bound is needed.                                            *)
Exactly(k)    == Measure = k
AtMost(k)     == Measure <= k
EverAtMost(k) == <>AtMost(k)
BoundsOf(V)   == \A k \in Nat : k \in V <=> EverAtMost(k)
BoundsFormSet == \E V \in SUBSET Nat : BoundsOf(V)
SettlesAt(k)  == <>[]Exactly(k)
Settles       == \E k \in Nat : SettlesAt(k)
Stays(k)      == [](AtMost(k) => []AtMost(k))
Pins(k)       == [](AtMost(k) => AtMost(k - 1) \/ Exactly(k))

LEMMA MeasureTyped == (RestInv => Measure \in Nat) /\ (RestInv' => Measure' \in Nat)
<1>1. ASSUME NEW f \in Nat, NEW a \in Nat, NEW x \in Nat PROVE f * a + x \in Nat
  BY <1>1
<1>2. Factor' = Factor
  BY DEF Factor
<1>3. RestInv => Measure \in Nat
  BY <1>1, MeasureIsNat DEF Measure
<1>4. RestInv' => Measure' \in Nat
  <2> SUFFICES ASSUME RestInv' PROVE Measure' \in Nat
    OBVIOUS
  <2>1. Outer' \in Nat /\ Inner' \in Nat
    BY MeasureIsNat
  <2>2. Factor \in Nat
    BY SyncAssumption, FS_CardinalityType DEF Factor, SyncAssumption
  <2>3. Measure' = Factor * Outer' + Inner'
    BY <1>2 DEF Measure
  <2>4. QED
    BY <1>1, <2>1, <2>2, <2>3
<1>5. QED
  BY <1>3, <1>4

LEMMA MeasureSettles ==
  []RestInv /\ [][Next]_vars /\ []BoundsFormSet => Settles
<1> SUFFICES ASSUME []RestInv, [][Next]_vars, []BoundsFormSet PROVE Settles
  BY PTL
<1>1. ASSUME NEW i \in Nat PROVE Stays(i)
  <2>1. RestInv /\ RestInv' /\ AtMost(i) /\ [Next]_vars => AtMost(i)'
    <3> SUFFICES ASSUME RestInv, RestInv', AtMost(i), [Next]_vars PROVE AtMost(i)'
      OBVIOUS
    <3>1. Measure \in Nat /\ Measure' \in Nat
      BY MeasureTyped
    <3>2. CASE Next
      BY <3>1, <3>2, MeasureFalls DEF AtMost
    <3>3. CASE UNCHANGED vars
      <4>1. UNCHANGED <<tx, user, ref, call, left, events>>
        BY <3>3 DEF vars
      <4>2. Measure' = Measure
        BY <4>1 DEF Measure, Factor, Outer, Inner, Rest, Work, WorkOf, Rank, UserRank, CallRank
      <4>3. QED
        BY <4>2 DEF AtMost
    <3>4. QED
      BY <3>2, <3>3
  <2>2. QED
    BY <2>1, PTL DEF Stays
<1>2. ASSUME NEW i \in Nat PROVE Pins(i)
  <2>1. RestInv /\ AtMost(i) => AtMost(i - 1) \/ Exactly(i)
    BY MeasureTyped DEF AtMost, Exactly
  <2>2. QED
    BY <2>1, PTL DEF Pins
<1>3. ~EverAtMost(0 - 1)
  <2>1. RestInv => ~AtMost(0 - 1)
    BY MeasureTyped DEF AtMost
  <2>2. QED
    BY <2>1, PTL DEF EverAtMost
<1>4. RestInv => \E i \in Nat : AtMost(i)
  BY MeasureTyped DEF AtMost
<1>5. ASSUME NEW V \in SUBSET Nat, BoundsOf(V), NEW i \in Nat, AtMost(i) PROVE Settles
  <2>1. EverAtMost(i)
    BY <1>5, PTL DEF EverAtMost
  <2>2. V # {}
    BY <1>5, <2>1 DEF BoundsOf
  <2>3. PICK k \in V : \A m \in V : k <= m
    BY <2>2, LeastNumber
  <2>4. k \in Nat /\ EverAtMost(k)
    BY <1>5 DEF BoundsOf
  <2>5. ~EverAtMost(k - 1)
    <3>1. CASE k = 0
      BY <1>3, <3>1
    <3>2. CASE k # 0
      <4>1. k - 1 \in Nat /\ k - 1 \notin V
        BY <2>3, <2>4, <3>2
      <4>2. QED
        BY <1>5, <4>1 DEF BoundsOf
    <3>3. QED
      BY <3>1, <3>2
  <2>6. Stays(k) /\ Pins(k)
    BY <1>1, <1>2, <2>4
  <2>7. SettlesAt(k)
    BY <2>4, <2>5, <2>6, PTL DEF EverAtMost, SettlesAt, Stays, Pins
  <2>8. QED
    BY <2>4, <2>7 DEF Settles
<1>6. RestInv /\ BoundsFormSet => Settles
  <2>1. BoundsFormSet => \E V \in SUBSET Nat : BoundsOf(V)
    BY DEF BoundsFormSet
  <2>2. QED
    BY <1>4, <1>5, <2>1
<1>7. QED
  BY <1>6, PTL

(* Where Measure stands still nothing moves. *)
LEMMA StandsStill ==
  ASSUME NEW k \in Nat
  PROVE  []RestInv /\ [][Next]_vars /\ DaemonGoesOn /\ SettlesAt(k) => <>[]Quiet
<1>1. RestInv /\ RestInv' /\ Exactly(k) /\ Exactly(k)' /\ [Next]_vars => UNCHANGED vars
  <2> SUFFICES ASSUME RestInv, RestInv', Exactly(k), Exactly(k)', [Next]_vars PROVE UNCHANGED vars
    OBVIOUS
  <2>1. Measure' = Measure /\ Measure \in Nat
    BY MeasureTyped DEF Exactly
  <2>2. ~Next
    BY <2>1, MeasureFalls
  <2>3. QED
    BY <2>2
<1>2. UNCHANGED vars => ~<<Daemon>>_vars
  OBVIOUS
<1>3. Quiet /\ UNCHANGED vars => Quiet'
  BY DEF Quiet, vars
<1>4. QED
  BY <1>1, <1>2, <1>3, PTL DEF SettlesAt, DaemonGoesOn

(* After any hotplugs, requests, failures and overlapping refreshes, each step *)
(* of which may interrupt any other, the daemon comes to rest: no event is      *)
(* unhandled, nobody holds the transition lock or waits for it, and no refresh  *)
(* or call is under way any more.                                            *)
ComesToRest == <>[]Quiet
THEOREM AlwaysComesToRest == Spec /\ DaemonGoesOn /\ []BoundsFormSet => ComesToRest
<1>1. []RestInv /\ [][Next]_vars /\ []BoundsFormSet => Settles
  BY MeasureSettles
<1>2. []RestInv /\ [][Next]_vars /\ DaemonGoesOn /\ Settles => ComesToRest
  <2> SUFFICES ASSUME []RestInv, [][Next]_vars, DaemonGoesOn, NEW k \in Nat, SettlesAt(k) PROVE ComesToRest
    BY DEF Settles
  <2>1. []RestInv /\ [][Next]_vars /\ DaemonGoesOn /\ SettlesAt(k) => <>[]Quiet
    BY StandsStill
  <2>2. QED
    BY <2>1, PTL DEF ComesToRest
<1>3. QED
  BY <1>1, <1>2, RestHolds, PTL DEF Spec

(* And then list, mode, map and NVIDIA block are those of the devices that are  *)
(* on the bus, unless something failed, refreshes overlapped or a driver came   *)
(* and went unnoticed (Settled, Noticed), and no key is forgotten.            *)
EndsConsistent ==
  <>[](Quiet /\ ModeFitsBus /\ MapFollowsHotplug /\ NvidiaFollowsList /\ KeysOwned)
THEOREM AlwaysEndsConsistent == Spec /\ DaemonGoesOn /\ []BoundsFormSet => EndsConsistent
BY AlwaysComesToRest, ModeFollows, MapFollows, NvidiaFollows, OwnersHold, PTL
   DEF ComesToRest, EndsConsistent
=============================================================================
