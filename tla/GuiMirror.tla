------------------------------ MODULE GuiMirror ------------------------------
(***************************************************************************)
(* The GPUs the graphical client shows: the daemon's Gpu objects, which       *)
(* start-up and hotplug serve and remove one by one, their Block property,    *)
(* their power state with its watcher, and gpu_sub, which fetches the list,   *)
(* subscribes, and fetches again when an object comes or goes.                *)
(*                                                                          *)
(* A device is the number of the GPU list it belongs to.  What gpu_sub sends  *)
(* reaches AppState in order, so sending and handling are one step.           *)
(***************************************************************************)
EXTENDS Naturals, Sequences, FiniteSets, FiniteSetsExt

CONSTANTS
  MaxGpus,    \* GPUs there may be; the ids of n GPUs are 0..n-1
  Watched,    \* ids whose GPU is available and has a watcher
  Power,      \* power states
  Unknown,    \* no power state
  MaxHotplug, \* bound: refreshes that find another list
  MaxBlocks,  \* bound: changes of a block
  MaxPower    \* bound: changes of a power state

ASSUME GuiAssumption ==
  /\ MaxGpus \in Nat \ {0} /\ Watched \subseteq 0..(MaxGpus - 1)
  /\ Unknown \notin Power /\ {MaxHotplug, MaxBlocks, MaxPower} \subseteq Nat

Id == 0..(MaxGpus - 1)

VARIABLES
  daemon,  \* what it is doing, the number and ids of gpu_list, and the objects
           \* still to be served or removed
  object,  \* the Gpu objects on the bus, with their devices
  block,   \* the Block property of each id
  owed,    \* ids whose property changed and is not signalled yet
  power,   \* power_state in sysfs
  watch,   \* what each watch_power_state signalled last
  client,  \* gpu_sub: its place, the ids still to visit, the one it is at, what
           \* it read, the entries fetched, the signals it hears and has not handled
  stream,  \* the ids it has streams for: power signals to handle, the cached
           \* property and whether it changed
  gpuList, \* AppState::gpu_list
  history, \* missed: signals before the subscription; raced: ids whose power
           \* reading was not what was signalled last
  left     \* what the bounds leave

daemonVars == <<daemon, object, block, owed, power, watch>>
clientVars == <<client, stream, gpuList>>
vars == <<daemonVars, clientVars, history, left>>

Empty == [id \in {} |-> 0]

Entry  == [device : Nat, blocked : BOOLEAN, power : Power \cup {Unknown}]
Stream == [signals : Seq(Power), cache : BOOLEAN, changed : BOOLEAN]
Partial(S) == UNION {[D -> S] : D \in SUBSET Id}

TypeOK ==
  /\ daemon \in [pc : {"down", "starting", "serving", "removing", "adding"},
                 list : Nat, ids : SUBSET Id, todo : SUBSET Id]
  /\ DOMAIN object \subseteq Id /\ \A id \in DOMAIN object : object[id] \in Nat
  /\ block \in [Id -> BOOLEAN] /\ owed \subseteq DOMAIN object
  /\ power \in [Id -> Power] /\ watch \in [Id -> Power \cup {Unknown}]
  /\ client.pc \in {"list", "devices", "added", "removed", "build", "streams", "live", "ended"}
  /\ client.todo \subseteq Id /\ client.at \subseteq Id /\ Cardinality(client.at) <= 1
  /\ client.read \in Power \cup {Unknown} /\ client.snap \in Partial(BOOLEAN)
  /\ \A id \in DOMAIN client.got : client.got[id] \in Entry
  /\ client.hears \subseteq {"added", "removed"} /\ client.news \in Nat
  /\ DOMAIN stream \subseteq Id /\ \A id \in DOMAIN stream : stream[id] \in Stream
  /\ DOMAIN gpuList \subseteq Id /\ \A id \in DOMAIN gpuList : gpuList[id] \in Entry
  /\ history \in [missed : BOOLEAN, raced : SUBSET Id]
  /\ left \in [hotplug : Nat, block : Nat, power : Nat]

Sizes == {0..(n - 1) : n \in 1..MaxGpus}

Init ==
  /\ \E p \in Power : power = [id \in Id |-> p]
  /\ \E ids \in Sizes, up \in BOOLEAN :
       /\ daemon = [pc |-> IF up THEN "serving" ELSE "down", list |-> 1, ids |-> ids, todo |-> {}]
       /\ object = [id \in IF up THEN ids ELSE {} |-> 1]
       /\ watch \in {[id \in Id |-> Unknown]} \cup IF up THEN {power} ELSE {}
  /\ block = [id \in Id |-> FALSE] /\ owed = {}
  /\ client = [pc |-> "list", todo |-> {}, at |-> {}, read |-> Unknown, snap |-> Empty,
               got |-> Empty, hears |-> {}, news |-> 0]
  /\ stream = Empty /\ gpuList = Empty
  /\ history = [missed |-> FALSE, raced |-> {}]
  /\ left = [hotplug |-> MaxHotplug, block |-> MaxBlocks, power |-> MaxPower]

-----------------------------------------------------------------------------
(* The daemon's objects: spawn_dbus_api and refresh_gpu.                      *)

With(f, id, x)  == [i \in {id} \cup DOMAIN f |-> IF i = id THEN x ELSE f[i]]
Without(f, ids) == [id \in DOMAIN f \ ids |-> f[id]]

Start ==
  /\ daemon.pc = "down"
  /\ daemon' = [daemon EXCEPT !.pc = "starting", !.todo = daemon.ids]
  /\ UNCHANGED <<object, block, owed, power, watch, clientVars, history, left>>

Hotplug ==
  /\ daemon.pc = "serving" /\ left.hotplug > 0
  /\ left' = [left EXCEPT !.hotplug = @ - 1]
  /\ daemon' = [daemon EXCEPT !.pc = "removing", !.todo = DOMAIN object]
  /\ UNCHANGED <<object, block, owed, power, watch, clientVars, history>>

(* A signal of the object manager.  One that comes after the list was fetched *)
(* and before its subscription is missed.                                    *)
Emit(signal) ==
  /\ client' = IF signal \in client.hears THEN [client EXCEPT !.news = @ + 1] ELSE client
  /\ history' = [history EXCEPT
       !.missed = @ \/ (signal \notin client.hears /\ client.pc # "list")]

Remove ==
  /\ daemon.pc = "removing" /\ daemon.todo # {}
  /\ LET id == Min(daemon.todo)
     IN  /\ object' = Without(object, {id})
         /\ owed' = owed \ {id}
         /\ daemon' = [daemon EXCEPT !.todo = @ \ {id}]
  /\ Emit("removed")
  /\ UNCHANGED <<block, power, watch, stream, gpuList, left>>

Enumerate ==
  /\ daemon.pc = "removing" /\ daemon.todo = {}
  /\ \E ids \in Sizes :
       daemon' = [pc |-> "adding", list |-> daemon.list + 1, ids |-> ids, todo |-> ids]
  /\ UNCHANGED <<object, block, owed, power, watch, clientVars, history, left>>

(* A device the map has for this id keeps its block until the mode is applied. *)
Serve ==
  /\ daemon.pc \in {"starting", "adding"} /\ daemon.todo # {}
  /\ LET id == Min(daemon.todo)
     IN  /\ object' = With(object, id, daemon.list)
         /\ block' \in {block, [block EXCEPT ![id] = FALSE]}
         /\ watch' = [watch EXCEPT ![id] = Unknown]
         /\ daemon' = [daemon EXCEPT !.todo = @ \ {id}]
         /\ Emit("added")
  /\ UNCHANGED <<owed, power, stream, gpuList, left>>

(* The other interfaces are served too, or the lock of gpu_list is dropped.   *)
Served ==
  /\ daemon.pc \in {"starting", "adding"} /\ daemon.todo = {}
  /\ daemon' = [daemon EXCEPT !.pc = "serving"]
  /\ UNCHANGED <<object, block, owed, power, watch, clientVars, history, left>>

-----------------------------------------------------------------------------
(* The Block property, which mode changes and set_block change and signal.    *)

ChangeBlock(id) ==
  /\ id \in DOMAIN object /\ left.block > 0
  /\ left' = [left EXCEPT !.block = @ - 1]
  /\ block' = [block EXCEPT ![id] = ~@]
  /\ owed' = owed \cup {id}
  /\ UNCHANGED <<daemon, object, power, watch, clientVars, history>>

(* block_changed, which reads the property.                                   *)
SignalBlock(id) ==
  /\ id \in owed
  /\ owed' = owed \ {id}
  /\ stream' = IF id \in DOMAIN stream
                 THEN [stream EXCEPT ![id] = [@ EXCEPT !.cache = block[id], !.changed = TRUE]]
                 ELSE stream
  /\ UNCHANGED <<daemon, object, block, power, watch, client, gpuList, history, left>>

-----------------------------------------------------------------------------
(* The power states and watch_power_state.                                    *)

PowerChange(id) ==
  /\ id \in Watched /\ left.power > 0
  /\ left' = [left EXCEPT !.power = @ - 1]
  /\ \E p \in Power \ {power[id]} : power' = [power EXCEPT ![id] = p]
  /\ UNCHANGED <<daemon, object, block, owed, watch, clientVars, history>>

(* A watcher that ends early, because it cannot read the state or signal it,  *)
(* is one that does not poll any more: Spec has no fairness.                  *)
Poll(id) ==
  /\ id \in DOMAIN object \cap Watched /\ watch[id] # power[id]
  /\ watch' = [watch EXCEPT ![id] = power[id]]
  /\ stream' = IF id \in DOMAIN stream
                 THEN [stream EXCEPT ![id].signals = Append(@, power[id])]
                 ELSE stream
  /\ UNCHANGED <<daemon, object, block, owed, power, client, gpuList,
                 history, left>>

-----------------------------------------------------------------------------
(* gpu_sub: the list.                                                         *)

Up == daemon.pc # "down"

(* The subscription comes after the first list.                               *)
AfterList == IF client.hears = {} THEN "added" ELSE "build"

(* get_managed_objects                                                       *)
FetchIds ==
  /\ client.pc = "list"
  /\ client' = IF Up
       THEN [client EXCEPT !.pc = "devices", !.todo = DOMAIN object, !.got = Empty,
                           !.snap = [id \in DOMAIN object |-> block[id]]]
       ELSE [client EXCEPT !.pc = AfterList]
  /\ history' = [history EXCEPT !.missed = FALSE]
  /\ UNCHANGED <<daemonVars, stream, gpuList, left>>

(* get_device; an object that is gone is left out.                            *)
FetchDevice(id) ==
  /\ client.pc = "devices" /\ id \in client.todo
  /\ LET entry == [device |-> object[id], blocked |-> client.snap[id], power |-> Unknown]
     IN  client' = [client EXCEPT !.todo = @ \ {id},
                      !.got = IF id \in DOMAIN object THEN With(@, id, entry) ELSE @]
  /\ UNCHANGED <<daemonVars, stream, gpuList, history, left>>

(* AllDevicesFetched                                                         *)
ListFetched ==
  /\ client.pc = "devices" /\ client.todo = {}
  /\ gpuList' = client.got
  /\ client' = [client EXCEPT !.pc = AfterList, !.snap = Empty, !.got = Empty]
  /\ UNCHANGED <<daemonVars, stream, history, left>>

(* receive_signal, for InterfacesAdded and then for InterfacesRemoved.        *)
Subscribe(signal) ==
  /\ client.pc = signal
  /\ client' = [client EXCEPT !.hears = @ \cup {signal},
                              !.pc = IF signal = "added" THEN "removed" ELSE "build"]
  /\ UNCHANGED <<daemonVars, stream, gpuList, history, left>>

-----------------------------------------------------------------------------
(* build_gpu_streams and the loop.                                            *)

(* Without a daemon the first call ends the subscription for good.            *)
ReadObjects ==
  /\ client.pc = "build"
  /\ client' = IF Up THEN [client EXCEPT !.pc = "streams", !.todo = DOMAIN object]
                     ELSE [client EXCEPT !.pc = "ended"]
  /\ stream' = Empty
  /\ UNCHANGED <<daemonVars, gpuList, history, left>>

UpdateGpuPowerState_Once(id, state) ==
  gpuList' = IF id \in DOMAIN gpuList /\ gpuList[id].power = Unknown
              THEN [gpuList EXCEPT ![id] = [@ EXCEPT !.power = state]] ELSE gpuList

UpdateGpuPowerState(id, state) ==
  gpuList' = IF id \in DOMAIN gpuList
              THEN [gpuList EXCEPT ![id] = [@ EXCEPT !.power = state]] ELSE gpuList

(* The call PowerState reads sysfs; of an object that is gone it fails.        *)
ReadPower(id) ==
  /\ client.pc = "streams" /\ client.at = {} /\ id \in client.todo
  /\ IF id \in DOMAIN object
       THEN /\ UpdateGpuPowerState(id, power[id])
            /\ client' = [client EXCEPT !.at = {id}, !.read = power[id]]
       ELSE /\ client' = [client EXCEPT !.at = {id}]
            /\ UNCHANGED gpuList
  /\ UNCHANGED <<daemonVars, stream, history, left>>

(* receive_signal, and receive_property_changed, whose proxy fetches the      *)
(* property and yields it first.                                             *)
Listen(id) ==
  /\ client.pc = "streams" /\ id \in client.at
  /\ client' = [client EXCEPT !.at = {}, !.todo = @ \ {id}, !.read = Unknown]
  /\ stream' = With(stream, id, [signals |-> <<>>, cache |-> block[id],
                                 changed |-> id \in DOMAIN object])
  /\ history' = [history EXCEPT
       !.raced = IF watch[id] \in {Unknown, client.read} THEN @ \ {id} ELSE @ \cup {id}]
  /\ UNCHANGED <<daemonVars, gpuList, left>>

Built ==
  /\ client.pc = "streams" /\ client.todo = {}
  /\ client' = [client EXCEPT !.pc = "live"]
  /\ UNCHANGED <<daemonVars, stream, gpuList, history, left>>

(* PowerStateChanged                                                         *)
HandlePower(id) ==
  /\ client.pc = "live" /\ id \in DOMAIN stream /\ stream[id].signals # <<>>
  /\ UpdateGpuPowerState(id, Head(stream[id].signals))
  /\ stream' = [stream EXCEPT ![id].signals = Tail(@)]
  /\ history' = [history EXCEPT !.raced = @ \ {id}]
  /\ UNCHANGED <<daemonVars, client, left>>

HandleBlock_Toggles(id) ==
  /\ client.pc = "live" /\ id \in DOMAIN stream /\ stream[id].changed
  /\ gpuList' = IF id \in DOMAIN gpuList
                  THEN [gpuList EXCEPT ![id] = [@ EXCEPT !.blocked = ~@]] ELSE gpuList
  /\ stream' = [stream EXCEPT ![id] = [@ EXCEPT !.changed = FALSE]]
  /\ UNCHANGED <<daemonVars, client, history, left>>

(* UpdateBlockState                                                          *)
HandleBlock(id) ==
  /\ client.pc = "live" /\ id \in DOMAIN stream /\ stream[id].changed
  /\ gpuList' = IF id \in DOMAIN gpuList
                  THEN [gpuList EXCEPT ![id] = [@ EXCEPT !.blocked = stream[id].cache]]
                  ELSE gpuList
  /\ stream' = [stream EXCEPT ![id] = [@ EXCEPT !.changed = FALSE]]
  /\ UNCHANGED <<daemonVars, client, history, left>>

HandleObject_KeepsList ==
  /\ client.pc = "live" /\ client.news > 0
  /\ client' = [client EXCEPT !.pc = "build", !.news = @ - 1]
  /\ UNCHANGED <<daemonVars, stream, gpuList, history, left>>

(* A Gpu object came or went: needs_refresh.                                  *)
HandleObject ==
  /\ client.pc = "live" /\ client.news > 0
  /\ client' = [client EXCEPT !.pc = "list", !.news = @ - 1]
  /\ UNCHANGED <<daemonVars, stream, gpuList, history, left>>

-----------------------------------------------------------------------------
ServeGpus == Start \/ Remove \/ Enumerate \/ Serve \/ Served

GpuSub ==
  \/ FetchIds \/ ListFetched \/ ReadObjects \/ Built \/ HandleObject
  \/ \E signal \in {"added", "removed"} : Subscribe(signal)
  \/ \E id \in Id : \/ FetchDevice(id) \/ ReadPower(id) \/ Listen(id)

Next ==
  \/ ServeGpus \/ Hotplug \/ GpuSub
  \/ \E id \in Id :
       \/ ChangeBlock(id) \/ SignalBlock(id) \/ HandleBlock(id)
       \/ PowerChange(id) \/ Poll(id) \/ HandlePower(id)

Spec == Init /\ [][Next]_vars

-----------------------------------------------------------------------------
(* Properties                                                                *)

(* gpu_sub waits, and no signal of an object is under way.                    *)
Settled == client.pc = "live" /\ client.news = 0 /\ daemon.pc = "serving"

Devices == [id \in DOMAIN gpuList |-> gpuList[id].device]

(* After any hotplugs the list has exactly the daemon's GPUs, each with the   *)
(* device that has the id now, and every GPU has its streams: the only        *)
(* signals that are not made good are those between the first fetch and the   *)
(* subscription (gpu_sub, get_devices_list, build_gpu_streams).               *)
ListsBus ==
  Settled =>
    /\ DOMAIN stream = DOMAIN object
    /\ history.missed \/ Devices = object

(* The Blocked entry is the daemon's once no signal of it is under way,       *)
(* whichever of list, stream and signal came first (UpdateBlockState,         *)
(* build_gpu_streams).                                                       *)
ShowsBlock ==
  Settled =>
    \A id \in (DOMAIN gpuList \cap DOMAIN object) \ owed :
      ~stream[id].changed => gpuList[id].blocked = block[id]

(* Once the watcher has signalled the state of sysfs, every GPU shows it,     *)
(* unless its first reading was not what had been signalled last and nothing  *)
(* was signalled since (build_gpu_streams, watch_power_state).                *)
ShowsPower ==
  Settled =>
    \A id \in (DOMAIN gpuList \cap DOMAIN object \cap Watched) \ history.raced :
      (watch[id] = power[id] /\ stream[id].signals = <<>>) => gpuList[id].power = power[id]
=============================================================================
