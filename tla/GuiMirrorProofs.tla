---------------------------- MODULE GuiMirrorProofs ----------------------------
(***************************************************************************)
(* What the graphical client shows is what the daemon serves: the proofs of   *)
(* the three properties of GuiMirror, for every number of GPUs, every set of  *)
(* power states and all bounds.                                              *)
(***************************************************************************)
EXTENDS GuiMirror, FiniteSetTheorems, WellFoundedInduction, TLAPS

Places == {"list", "devices", "added", "removed", "build", "streams", "live", "ended"}

Clients == [pc : Places, todo : SUBSET Id, at : {{}} \cup {{id} : id \in Id},
            read : Power \cup {Unknown}, snap : Partial(BOOLEAN), got : Partial(Entry),
            hears : SUBSET {"added", "removed"}, news : Nat]

(* The types, with what TypeOK leaves open: what is a function or a record.   *)
Types ==
  /\ daemon \in [pc : {"down", "starting", "serving", "removing", "adding"},
                 list : Nat, ids : SUBSET Id, todo : SUBSET Id]
  /\ object \in Partial(Nat) /\ owed \subseteq DOMAIN object
  /\ block \in [Id -> BOOLEAN]
  /\ power \in [Id -> Power] /\ watch \in [Id -> Power \cup {Unknown}]
  /\ client \in Clients
  /\ client.pc = "devices" => client.todo \subseteq DOMAIN client.snap
  /\ stream \in Partial(Stream) /\ gpuList \in Partial(Entry)
  /\ history \in [missed : BOOLEAN, raced : SUBSET Id]
  /\ left \in [hotplug : Nat, block : Nat, power : Nat]

Both == {"added", "removed"}

(* What gpu_sub hears at each place: nothing before its first list, then both *)
(* signals for good.                                                         *)
Hearing ==
  /\ client.pc \in {"list", "devices"} => client.hears \in {{}, Both}
  /\ client.pc = "added" => client.hears = {}
  /\ client.pc = "removed" => client.hears = {"added"}
  /\ client.pc \in {"build", "streams", "live", "ended"} => client.hears = Both
  /\ client.hears = {} => client.news = 0

(* Before the daemon is there nothing is served, signalled or listed.         *)
Absent ==
  daemon.pc = "down" =>
    /\ DOMAIN object = {} /\ DOMAIN gpuList = {} /\ client.news = 0
    /\ client.pc \notin {"devices", "streams", "live"}
    /\ client.pc = "list" => client.hears = {}

(* No object came or went that gpu_sub will not hear of.                      *)
Caught == client.news = 0 /\ ~history.missed

(* The list, being fetched or shown, is what is on the bus.                   *)
Listing ==
  Caught =>
    /\ client.pc = "devices" =>
         /\ DOMAIN object = client.todo \cup DOMAIN client.got
         /\ \A id \in DOMAIN client.got : client.got[id].device = object[id]
    /\ client.pc \in {"added", "removed", "build", "streams", "live"} =>
         /\ DOMAIN gpuList = DOMAIN object
         /\ \A id \in DOMAIN gpuList : gpuList[id].device = object[id]

(* Every object on the bus has its streams or is about to get them.           *)
Streaming ==
  /\ client.pc # "streams" => client.at = {}
  /\ client.pc = "streams" =>
       /\ client.at \subseteq client.todo /\ client.todo \cap DOMAIN stream = {}
       /\ client.news = 0 => DOMAIN object = DOMAIN stream \cup client.todo
  /\ client.pc = "live" /\ client.news = 0 => DOMAIN object = DOMAIN stream

(* A place at which the streams are those of the objects on the bus.          *)
Current == client.pc \in {"streams", "live"} /\ client.news = 0

(* The cached property is the daemon's unless a signal is owed, and what is   *)
(* shown is the cached property unless it changed since.                      *)
Blocks ==
  Current =>
    \A id \in DOMAIN stream :
      /\ id \notin owed => stream[id].cache = block[id]
      /\ id \in DOMAIN gpuList /\ ~stream[id].changed => gpuList[id].blocked = stream[id].cache

Newest(signals) == signals[Len(signals)]

(* The last signal of a stream is the last of the watcher; without one what   *)
(* is shown is, unless the first reading was not.                             *)
Powers ==
  Current =>
    /\ \A id \in DOMAIN stream : stream[id].signals # <<>> => Newest(stream[id].signals) = watch[id]
    /\ \A id \in (DOMAIN stream \cap DOMAIN gpuList) \ history.raced :
         stream[id].signals = <<>> => watch[id] \in {Unknown, gpuList[id].power}
    /\ \A id \in client.at \cap DOMAIN gpuList : gpuList[id].power = client.read

IInv == /\ Types /\ Hearing /\ Absent /\ Listing /\ Streaming /\ Blocks
        /\ Powers

-----------------------------------------------------------------------------
(* Functions on some of the ids                                              *)

LEMMA PartialIs ==
  ASSUME NEW S, NEW f \in Partial(S)
  PROVE  /\ DOMAIN f \subseteq Id /\ f = [id \in DOMAIN f |-> f[id]]
         /\ \A id \in DOMAIN f : f[id] \in S
<1>1. PICK D \in SUBSET Id : f \in [D -> S]
  BY DEF Partial
<1> QED BY <1>1

LEMMA IsPartial ==
  ASSUME NEW S, NEW D \in SUBSET Id, NEW f \in [D -> S]
  PROVE  f \in Partial(S)
BY DEF Partial

LEMMA EmptyIs ==
  ASSUME NEW S
  PROVE  Empty \in Partial(S) /\ DOMAIN Empty = {}
<1>1. Empty \in [{} -> S] /\ DOMAIN Empty = {}
  BY DEF Empty
<1> QED BY <1>1, IsPartial

(* One entry more, or another one.                                           *)
LEMMA WithIs ==
  ASSUME NEW S, NEW f \in Partial(S), NEW a \in Id, NEW b \in S
  PROVE  With(f, a, b) \in Partial(S)
<1> DEFINE D == {a} \cup DOMAIN f
           g == With(f, a, b)
<1>1. g = [x \in D |-> IF x = a THEN b ELSE f[x]]
  BY DEF With
<1>2. D \in SUBSET Id /\ \A x \in D : (IF x = a THEN b ELSE f[x]) \in S
  BY PartialIs
<1>3. g \in [D -> S]
  BY <1>1, <1>2
<1> QED BY <1>2, <1>3, IsPartial

LEMMA SetIs ==
  ASSUME NEW S, NEW f \in Partial(S), NEW a \in DOMAIN f, NEW b \in S
  PROVE  LET g == [f EXCEPT ![a] = b]
         IN  /\ g \in Partial(S) /\ DOMAIN g = DOMAIN f /\ g[a] = b
             /\ \A id \in DOMAIN f \ {a} : g[id] = f[id]
<1>1. f \in [DOMAIN f -> S] /\ DOMAIN f \in SUBSET Id
  BY PartialIs
<1>2. [f EXCEPT ![a] = b] \in [DOMAIN f -> S]
  BY <1>1
<1> QED BY <1>1, <1>2, IsPartial

LEMMA WithoutIs ==
  ASSUME NEW S, NEW f \in Partial(S), NEW ids
  PROVE  LET g == Without(f, ids)
         IN  /\ g \in Partial(S) /\ DOMAIN g = DOMAIN f \ ids
             /\ \A id \in DOMAIN g : g[id] = f[id]
<1>1. Without(f, ids) \in [DOMAIN f \ ids -> S] /\ DOMAIN f \ ids \in SUBSET Id
  BY PartialIs DEF Without
<1>2. Without(f, ids) \in Partial(S)
  BY <1>1, IsPartial
<1> QED BY <1>2 DEF Without

(* The objects are visited from the smallest id on.                          *)
LEMMA MinIs ==
  ASSUME NEW ids \in SUBSET Id, ids # {}
  PROVE  Min(ids) \in ids
<1>1. ids \subseteq Nat
  BY GuiAssumption DEF Id
<1>2. PICK x \in ids : \A y \in ids : <<y, x>> \notin OpToRel(<, Nat)
  BY <1>1, WFMin, NatLessThanWellFounded
<1>3. \A y \in ids : ~(y < x)
  BY <1>1, <1>2 DEF OpToRel
<1>4. \A y \in ids : x =< y
  BY <1>1, <1>3
<1> QED BY <1>4 DEF Min

-----------------------------------------------------------------------------
(* Types                                                                     *)

(* A signal of an object changes what is to be handled or was missed.         *)
LEMMA EmitIs ==
  ASSUME client \in Clients, history \in [missed : BOOLEAN, raced : SUBSET Id],
         NEW signal \in {"added", "removed"}, Emit(signal)
  PROVE  /\ client' \in Clients /\ history' \in [missed : BOOLEAN, raced : SUBSET Id]
         /\ client'.pc = client.pc /\ client'.todo = client.todo /\ client'.at = client.at
         /\ client'.read = client.read /\ client'.snap = client.snap /\ client'.got = client.got
         /\ client'.hears = client.hears /\ history'.raced = history.raced
         /\ signal \in client.hears => client'.news = client.news + 1
         /\ signal \notin client.hears => client'.news = client.news
         /\ signal \notin client.hears /\ client.pc # "list" => history'.missed
         /\ history.missed => history'.missed
<1>1. CASE signal \in client.hears
  BY <1>1 DEF Emit, Clients
<1>2. CASE signal \notin client.hears
  BY <1>2 DEF Emit, Clients
<1> QED BY <1>1, <1>2

LEMMA TypesInit == Init => Types
<1> SUFFICES ASSUME Init PROVE Types
  OBVIOUS
<1>1. \A n \in 1..MaxGpus : 0..(n - 1) \in SUBSET Id
  BY GuiAssumption DEF Id
<1>2. PICK ids \in Sizes, up \in BOOLEAN :
        /\ daemon = [pc |-> IF up THEN "serving" ELSE "down", list |-> 1, ids |-> ids, todo |-> {}]
        /\ object = [id \in IF up THEN ids ELSE {} |-> 1]
        /\ watch \in {[id \in Id |-> Unknown]} \cup IF up THEN {power} ELSE {}
  BY DEF Init
<1>3. ids \in SUBSET Id
  BY <1>1 DEF Sizes
<1>4. object \in Partial(Nat)
  <2>1. object \in [(IF up THEN ids ELSE {}) -> Nat] /\ (IF up THEN ids ELSE {}) \in SUBSET Id
    BY <1>2, <1>3
  <2> QED BY <2>1, IsPartial
<1>5. power \in [Id -> Power] /\ watch \in [Id -> Power \cup {Unknown}]
  BY <1>2 DEF Init
<1>6. client \in Clients /\ client.pc = "list"
  BY EmptyIs DEF Init, Clients, Places
<1>7. stream \in Partial(Stream) /\ gpuList \in Partial(Entry)
  BY EmptyIs DEF Init
<1>8. /\ daemon \in [pc : {"down", "starting", "serving", "removing", "adding"},
                     list : Nat, ids : SUBSET Id, todo : SUBSET Id]
      /\ block \in [Id -> BOOLEAN] /\ owed = {}
      /\ history \in [missed : BOOLEAN, raced : SUBSET Id]
      /\ left \in [hotplug : Nat, block : Nat, power : Nat]
  BY <1>2, <1>3, GuiAssumption DEF Init
<1> QED BY <1>4, <1>5, <1>6, <1>7, <1>8 DEF Types

(* A list fetched or shown with another power state or property.              *)
LEMMA EntryIs ==
  ASSUME NEW id \in Id, gpuList \in Partial(Entry), NEW p \in Power \cup {Unknown}
  PROVE  UpdateGpuPowerState(id, p) =>
           /\ gpuList' \in Partial(Entry) /\ DOMAIN gpuList' = DOMAIN gpuList
           /\ \A i \in DOMAIN gpuList :
                /\ gpuList'[i].device = gpuList[i].device
                /\ gpuList'[i].blocked = gpuList[i].blocked
                /\ gpuList'[i].power = IF i = id THEN p ELSE gpuList[i].power
<1>1. CASE id \in DOMAIN gpuList
  <2> DEFINE e == [gpuList[id] EXCEPT !.power = p]
  <2>1. gpuList[id] \in Entry
    BY <1>1, PartialIs
  <2>2. e \in Entry /\ e.device = gpuList[id].device /\ e.blocked = gpuList[id].blocked /\ e.power = p
    BY <2>1 DEF Entry
  <2>3. UpdateGpuPowerState(id, p) => gpuList' = [gpuList EXCEPT ![id] = e]
    BY <1>1 DEF UpdateGpuPowerState
  <2> HIDE DEF e
  <2> QED BY <1>1, <2>2, <2>3, SetIs
<1>2. CASE id \notin DOMAIN gpuList
  BY <1>2 DEF UpdateGpuPowerState
<1> QED BY <1>1, <1>2

LEMMA BlockedIs ==
  ASSUME NEW id \in Id, Types, HandleBlock(id)
  PROVE  /\ gpuList' \in Partial(Entry) /\ DOMAIN gpuList' = DOMAIN gpuList
         /\ \A i \in DOMAIN gpuList :
              /\ gpuList'[i].device = gpuList[i].device
              /\ gpuList'[i].power = gpuList[i].power
              /\ gpuList'[i].blocked = IF i = id THEN stream[id].cache ELSE gpuList[i].blocked
         /\ stream' \in Partial(Stream) /\ DOMAIN stream' = DOMAIN stream
         /\ \A i \in DOMAIN stream :
              /\ stream'[i].signals = stream[i].signals /\ stream'[i].cache = stream[i].cache
              /\ stream'[i].changed = (i # id /\ stream[i].changed)
<1> DEFINE e == [gpuList[id] EXCEPT !.blocked = stream[id].cache]
           s == [stream[id] EXCEPT !.changed = FALSE]
<1>1. id \in DOMAIN stream /\ stream \in Partial(Stream) /\ gpuList \in Partial(Entry)
  BY DEF HandleBlock, Types
<1>2. stream[id] \in Stream /\ \A i \in DOMAIN stream : stream[i] \in Stream
  BY <1>1, PartialIs
<1>3. s \in Stream /\ s.signals = stream[id].signals /\ s.cache = stream[id].cache /\ s.changed = FALSE
  BY <1>2 DEF Stream
<1>4. stream' = [stream EXCEPT ![id] = s]
  BY DEF HandleBlock
<1>5. /\ stream' \in Partial(Stream) /\ DOMAIN stream' = DOMAIN stream
      /\ stream'[id] = s /\ \A i \in DOMAIN stream \ {id} : stream'[i] = stream[i]
  <2> HIDE DEF s
  <2> QED BY <1>1, <1>3, <1>4, SetIs
<1>6. \A i \in DOMAIN stream : stream[i].changed \in BOOLEAN
  BY <1>2 DEF Stream
<1>7. CASE id \in DOMAIN gpuList
  <2>1. gpuList[id] \in Entry
    BY <1>1, <1>7, PartialIs
  <2>2. stream[id].cache \in BOOLEAN
    BY <1>2 DEF Stream
  <2>3. e \in Entry /\ e.device = gpuList[id].device /\ e.power = gpuList[id].power
        /\ e.blocked = stream[id].cache
    BY <2>1, <2>2 DEF Entry
  <2>4. gpuList' = [gpuList EXCEPT ![id] = e]
    BY <1>7 DEF HandleBlock
  <2>5. /\ gpuList' \in Partial(Entry) /\ DOMAIN gpuList' = DOMAIN gpuList
        /\ gpuList'[id] = e /\ \A i \in DOMAIN gpuList \ {id} : gpuList'[i] = gpuList[i]
    <3> HIDE DEF e
    <3> QED BY <1>1, <1>7, <2>3, <2>4, SetIs
  <2> HIDE DEF e, s
  <2> QED BY <1>3, <1>5, <1>6, <2>3, <2>5
<1>8. CASE id \notin DOMAIN gpuList
  <2>1. gpuList' = gpuList
    BY <1>8 DEF HandleBlock
  <2> HIDE DEF e, s
  <2> QED BY <1>1, <1>3, <1>5, <1>6, <1>8, <2>1
<1> QED BY <1>7, <1>8

(* What a stream has after block_changed, and after the watcher's signal.     *)
LEMMA SignalIs ==
  ASSUME NEW id \in Id, Types, SignalBlock(id)
  PROVE  /\ stream' \in Partial(Stream) /\ DOMAIN stream' = DOMAIN stream
         /\ \A i \in DOMAIN stream :
              /\ stream'[i].signals = stream[i].signals
              /\ stream'[i].cache = IF i = id THEN block[id] ELSE stream[i].cache
              /\ stream'[i].changed = (i = id \/ stream[i].changed)
<1> DEFINE s == [stream[id] EXCEPT !.cache = block[id], !.changed = TRUE]
<1>1. stream \in Partial(Stream) /\ block[id] \in BOOLEAN
  BY DEF Types
<1>2. \A i \in DOMAIN stream : stream[i] \in Stream /\ stream[i].changed \in BOOLEAN
  <2>1. \A i \in DOMAIN stream : stream[i] \in Stream
    BY <1>1, PartialIs
  <2> QED BY <2>1 DEF Stream
<1>3. CASE id \in DOMAIN stream
  <2>1. s \in Stream /\ s.signals = stream[id].signals /\ s.cache = block[id] /\ s.changed = TRUE
    BY <1>1, <1>2, <1>3 DEF Stream
  <2>2. stream' = [stream EXCEPT ![id] = s]
    BY <1>3 DEF SignalBlock
  <2> HIDE DEF s
  <2>3. /\ stream' \in Partial(Stream) /\ DOMAIN stream' = DOMAIN stream
        /\ stream'[id] = s /\ \A i \in DOMAIN stream \ {id} : stream'[i] = stream[i]
    BY <1>1, <1>3, <2>1, <2>2, SetIs
  <2> QED BY <1>2, <2>1, <2>3
<1>4. CASE id \notin DOMAIN stream
  <2>1. stream' = stream
    BY <1>4 DEF SignalBlock
  <2> QED BY <1>1, <1>2, <1>4, <2>1
<1> QED BY <1>3, <1>4

LEMMA PollIs ==
  ASSUME NEW id \in Id, Types, Poll(id)
  PROVE  /\ stream' \in Partial(Stream) /\ DOMAIN stream' = DOMAIN stream
         /\ watch' \in [Id -> Power \cup {Unknown}]
         /\ \A i \in Id : watch'[i] = IF i = id THEN power[id] ELSE watch[i]
         /\ \A i \in DOMAIN stream :
              /\ stream'[i].cache = stream[i].cache /\ stream'[i].changed = stream[i].changed
              /\ stream'[i].signals = IF i = id THEN Append(stream[i].signals, power[id])
                                                ELSE stream[i].signals
<1> DEFINE s == [stream[id] EXCEPT !.signals = Append(stream[id].signals, power[id])]
<1>1. stream \in Partial(Stream) /\ power[id] \in Power /\ watch \in [Id -> Power \cup {Unknown}]
  BY DEF Types
<1>2. \A i \in DOMAIN stream : stream[i] \in Stream
  BY <1>1, PartialIs
<1>3. watch' \in [Id -> Power \cup {Unknown}] /\ \A i \in Id : watch'[i] = IF i = id THEN power[id] ELSE watch[i]
  BY <1>1 DEF Poll
<1>4. CASE id \in DOMAIN stream
  <2>1. Append(stream[id].signals, power[id]) \in Seq(Power)
    BY <1>1, <1>2, <1>4 DEF Stream
  <2>2. /\ s \in Stream /\ s.signals = Append(stream[id].signals, power[id])
        /\ s.cache = stream[id].cache /\ s.changed = stream[id].changed
    BY <1>2, <1>4, <2>1 DEF Stream
  <2>3. stream' = [stream EXCEPT ![id] = s]
    BY <1>4 DEF Poll
  <2> HIDE DEF s
  <2>4. /\ stream' \in Partial(Stream) /\ DOMAIN stream' = DOMAIN stream
        /\ stream'[id] = s /\ \A i \in DOMAIN stream \ {id} : stream'[i] = stream[i]
    BY <1>1, <1>4, <2>2, <2>3, SetIs
  <2> QED BY <1>3, <2>2, <2>4
<1>5. CASE id \notin DOMAIN stream
  <2>1. stream' = stream
    BY <1>5 DEF Poll
  <2> QED BY <1>1, <1>3, <1>5, <2>1
<1> QED BY <1>4, <1>5

(* One signal of a stream is handled.                                        *)
LEMMA HandleIs ==
  ASSUME NEW id \in Id, Types, HandlePower(id)
  PROVE  /\ stream' \in Partial(Stream) /\ DOMAIN stream' = DOMAIN stream
         /\ id \in DOMAIN stream /\ stream[id].signals \in Seq(Power)
         /\ stream[id].signals # <<>> /\ Head(stream[id].signals) \in Power
         /\ \A i \in DOMAIN stream :
              /\ stream'[i].cache = stream[i].cache /\ stream'[i].changed = stream[i].changed
              /\ stream'[i].signals = IF i = id THEN Tail(stream[i].signals)
                                                ELSE stream[i].signals
<1> DEFINE s == [stream[id] EXCEPT !.signals = Tail(stream[id].signals)]
<1>1. stream \in Partial(Stream) /\ id \in DOMAIN stream /\ stream[id].signals # <<>>
  BY DEF Types, HandlePower
<1>2. stream[id] \in Stream
  BY <1>1, PartialIs
<1>3. stream[id].signals \in Seq(Power)
  BY <1>2 DEF Stream
<1>4. Head(stream[id].signals) \in Power /\ Tail(stream[id].signals) \in Seq(Power)
  BY <1>1, <1>3
<1>5. /\ s \in Stream /\ s.signals = Tail(stream[id].signals)
      /\ s.cache = stream[id].cache /\ s.changed = stream[id].changed
  BY <1>2, <1>4 DEF Stream
<1>6. stream' = [stream EXCEPT ![id] = s]
  BY DEF HandlePower
<1> HIDE DEF s
<1>7. /\ stream' \in Partial(Stream) /\ DOMAIN stream' = DOMAIN stream
      /\ stream'[id] = s /\ \A i \in DOMAIN stream \ {id} : stream'[i] = stream[i]
  BY <1>1, <1>5, <1>6, SetIs
<1> QED BY <1>1, <1>3, <1>4, <1>5, <1>7

(* Where the objects and what is owed for them change.                       *)
LEMMA RemoveIs ==
  ASSUME Types, Remove
  PROVE  /\ \E id \in DOMAIN object \cup daemon.todo : object' = Without(object, {id})
         /\ object' \in Partial(Nat) /\ owed' \subseteq DOMAIN object'
<1> DEFINE id == Min(daemon.todo)
<1>1. daemon.todo \in SUBSET Id /\ daemon.todo # {} /\ object \in Partial(Nat) /\ owed \subseteq DOMAIN object
  BY DEF Types, Remove
<1>2. id \in daemon.todo
  BY <1>1, MinIs
<1>3. object' = Without(object, {id}) /\ owed' = owed \ {id}
  BY DEF Remove
<1> HIDE DEF id
<1>4. object' \in Partial(Nat) /\ DOMAIN object' = DOMAIN object \ {id}
  BY <1>1, <1>3, WithoutIs
<1> QED BY <1>1, <1>2, <1>3, <1>4

LEMMA ServeIs ==
  ASSUME Types, Serve
  PROVE  \E id \in daemon.todo :
           /\ id \in Id
           /\ object' \in Partial(Nat) /\ DOMAIN object' = {id} \cup DOMAIN object
           /\ block' \in [Id -> BOOLEAN] /\ watch' \in [Id -> Power \cup {Unknown}]
           /\ daemon' = [daemon EXCEPT !.todo = @ \ {id}]
<1> DEFINE id == Min(daemon.todo)
<1>1. /\ daemon.todo \in SUBSET Id /\ daemon.todo # {} /\ daemon.list \in Nat
      /\ object \in Partial(Nat) /\ block \in [Id -> BOOLEAN]
      /\ watch \in [Id -> Power \cup {Unknown}]
  BY DEF Types, Serve
<1>2. id \in daemon.todo
  BY <1>1, MinIs
<1>3. /\ object' = With(object, id, daemon.list)
      /\ block' \in {block, [block EXCEPT ![id] = FALSE]}
      /\ watch' = [watch EXCEPT ![id] = Unknown]
      /\ daemon' = [daemon EXCEPT !.todo = @ \ {id}]
  BY DEF Serve
<1> HIDE DEF id
<1>4. object' \in Partial(Nat) /\ DOMAIN object' = {id} \cup DOMAIN object
  <2>1. id \in Id /\ daemon.list \in Nat /\ object \in Partial(Nat)
    BY <1>1, <1>2
  <2>2. With(object, id, daemon.list) \in Partial(Nat)
    BY ONLY <2>1, WithIs
  <2> QED BY <1>3, <2>2 DEF With
<1>5. block' \in [Id -> BOOLEAN] /\ watch' \in [Id -> Power \cup {Unknown}]
  BY <1>1, <1>3
<1> QED BY <1>1, <1>2, <1>3, <1>4, <1>5

(* What one get_device adds to the list being fetched.                       *)
LEMMA FetchIs ==
  ASSUME NEW id \in Id, Types, FetchDevice(id)
  PROVE  /\ client' \in Clients /\ client'.pc = "devices" /\ client'.snap = client.snap
         /\ client'.at = client.at /\ client'.todo = client.todo \ {id} /\ client'.hears = client.hears
         /\ client'.news = client.news
         /\ id \in DOMAIN object =>
              /\ DOMAIN client'.got = {id} \cup DOMAIN client.got
              /\ client'.got[id].device = object[id]
              /\ \A i \in DOMAIN client.got \ {id} : client'.got[i] = client.got[i]
         /\ id \notin DOMAIN object => client'.got = client.got
<1> DEFINE entry == [device |-> object[id], blocked |-> client.snap[id], power |-> Unknown]
           got == IF id \in DOMAIN object THEN With(client.got, id, entry) ELSE client.got
<1>1. /\ client \in Clients /\ client.pc = "devices" /\ id \in client.todo
      /\ client.snap \in Partial(BOOLEAN) /\ id \in DOMAIN client.snap
      /\ client.got \in Partial(Entry) /\ object \in Partial(Nat)
  BY DEF Types, FetchDevice, Clients
<1>2. client' = [client EXCEPT !.todo = client.todo \ {id}, !.got = got]
  BY DEF FetchDevice
<1>3. client.snap[id] \in BOOLEAN
  BY <1>1, PartialIs
<1>4. id \in DOMAIN object => entry \in Entry /\ entry.device = object[id]
  <2>1. id \in DOMAIN object => object[id] \in Nat
    BY <1>1, PartialIs
  <2> QED BY <1>3, <2>1 DEF Entry
<1> HIDE DEF entry
<1>5. id \in DOMAIN object =>
        /\ got \in Partial(Entry) /\ DOMAIN got = {id} \cup DOMAIN client.got /\ got[id] = entry
        /\ \A i \in DOMAIN client.got \ {id} : got[i] = client.got[i]
  <2> SUFFICES ASSUME id \in DOMAIN object
               PROVE  /\ got \in Partial(Entry) /\ DOMAIN got = {id} \cup DOMAIN client.got
                      /\ got[id] = entry
                      /\ \A i \in DOMAIN client.got \ {id} : got[i] = client.got[i]
    OBVIOUS
  <2>1. entry \in Entry /\ client.got \in Partial(Entry) /\ got = With(client.got, id, entry)
    BY <1>1, <1>4
  <2> HIDE DEF got
  <2>2. got \in Partial(Entry)
    BY <2>1, WithIs
  <2> QED BY <2>1, <2>2 DEF With
<1>6. id \notin DOMAIN object => got = client.got
  OBVIOUS
<1> HIDE DEF got
<1>7. got \in Partial(Entry)
  BY <1>1, <1>5, <1>6
<1>8. /\ client' \in Clients /\ client'.pc = "devices" /\ client'.snap = client.snap
      /\ client'.at = client.at /\ client'.todo = client.todo \ {id} /\ client'.hears = client.hears
      /\ client'.news = client.news /\ client'.got = got
  BY <1>1, <1>2, <1>7 DEF Clients
<1> QED BY <1>4, <1>5, <1>6, <1>8

(* The streams of one more GPU.                                              *)
LEMMA ListenIs ==
  ASSUME NEW id \in Id, Types, Listen(id)
  PROVE  /\ stream' \in Partial(Stream) /\ DOMAIN stream' = {id} \cup DOMAIN stream
         /\ stream'[id].signals = <<>> /\ stream'[id].cache = block[id]
         /\ stream'[id].changed = (id \in DOMAIN object)
         /\ \A i \in DOMAIN stream \ {id} : stream'[i] = stream[i]
         /\ client' \in Clients /\ client'.pc = "streams" /\ client'.at = {}
         /\ client'.todo = client.todo \ {id} /\ client'.hears = client.hears
         /\ client'.news = client.news
<1> DEFINE s == [signals |-> <<>>, cache |-> block[id], changed |-> id \in DOMAIN object]
<1>1. stream \in Partial(Stream) /\ block[id] \in BOOLEAN /\ client \in Clients /\ client.pc = "streams"
  BY DEF Types, Listen
<1>2. s \in Stream /\ s.signals = <<>> /\ s.cache = block[id] /\ s.changed = (id \in DOMAIN object)
  BY <1>1 DEF Stream
<1>3. stream' = With(stream, id, s)
  BY DEF Listen
<1>4. client' = [client EXCEPT !.at = {}, !.todo = client.todo \ {id}, !.read = Unknown]
  BY DEF Listen
<1>5. /\ client' \in Clients /\ client'.pc = "streams" /\ client'.at = {}
      /\ client'.todo = client.todo \ {id} /\ client'.hears = client.hears
      /\ client'.news = client.news
  BY <1>1, <1>4 DEF Clients
<1> HIDE DEF s
<1>6. /\ stream' \in Partial(Stream) /\ DOMAIN stream' = {id} \cup DOMAIN stream /\ stream'[id] = s
      /\ \A i \in DOMAIN stream \ {id} : stream'[i] = stream[i]
  <2>1. s \in Stream /\ stream \in Partial(Stream)
    BY <1>1, <1>2
  <2>2. With(stream, id, s) \in Partial(Stream)
    BY <2>1, WithIs
  <2> QED BY <1>3, <2>2 DEF With
<1> QED BY <1>2, <1>5, <1>6

(* The power state is read; of an object that is gone it is not.              *)
LEMMA ReadIs ==
  ASSUME NEW id \in Id, Types, ReadPower(id)
  PROVE  /\ client' \in Clients /\ client'.pc = "streams" /\ client'.at = {id}
         /\ client.at = {} /\ id \in client.todo /\ client.pc = "streams"
         /\ client'.todo = client.todo /\ client'.hears = client.hears
         /\ client'.news = client.news
         /\ gpuList' \in Partial(Entry) /\ DOMAIN gpuList' = DOMAIN gpuList
         /\ id \in DOMAIN object => client'.read = power[id]
         /\ \A i \in DOMAIN gpuList :
              /\ gpuList'[i].device = gpuList[i].device
              /\ gpuList'[i].blocked = gpuList[i].blocked
              /\ gpuList'[i].power = IF i = id /\ id \in DOMAIN object
                                       THEN power[id] ELSE gpuList[i].power
<1>1. /\ client \in Clients /\ client.pc = "streams" /\ client.at = {} /\ id \in client.todo
      /\ power[id] \in Power \cup {Unknown} /\ gpuList \in Partial(Entry)
  BY DEF Types, ReadPower
<1>2. CASE id \in DOMAIN object
  <2>1. UpdateGpuPowerState(id, power[id]) /\ client' = [client EXCEPT !.at = {id}, !.read = power[id]]
    BY <1>2 DEF ReadPower
  <2>2. /\ client' \in Clients /\ client'.pc = "streams" /\ client'.at = {id}
        /\ client'.todo = client.todo /\ client'.hears = client.hears
        /\ client'.news = client.news /\ client'.read = power[id]
    BY <1>1, <2>1 DEF Clients
  <2> QED BY <1>1, <1>2, <2>1, <2>2, EntryIs
<1>3. CASE id \notin DOMAIN object
  <2>1. gpuList' = gpuList /\ client' = [client EXCEPT !.at = {id}]
    BY <1>3 DEF ReadPower
  <2>2. /\ client' \in Clients /\ client'.pc = "streams" /\ client'.at = {id}
        /\ client'.todo = client.todo /\ client'.hears = client.hears
        /\ client'.news = client.news
    BY <1>1, <2>1 DEF Clients
  <2> QED BY <1>1, <1>3, <2>1, <2>2
<1> QED BY <1>2, <1>3

(* The other steps of gpu_sub.                                               *)
LEMMA FetchIdsIs ==
  ASSUME Types, FetchIds
  PROVE  /\ client' \in Clients /\ client'.at = client.at
         /\ client'.hears = client.hears /\ client'.news = client.news
         /\ Up => /\ client'.pc = "devices" /\ client'.todo = DOMAIN object
                  /\ DOMAIN client'.snap = DOMAIN object /\ DOMAIN client'.got = {}
         /\ ~Up => client'.pc = AfterList
<1> DEFINE snap == [id \in DOMAIN object |-> block[id]]
<1>1. client \in Clients /\ object \in Partial(Nat) /\ block \in [Id -> BOOLEAN]
  BY DEF Types
<1>2. DOMAIN object \in SUBSET Id
  BY <1>1, PartialIs
<1>3. snap \in [DOMAIN object -> BOOLEAN]
  BY <1>1, <1>2
<1>4. snap \in Partial(BOOLEAN) /\ DOMAIN snap = DOMAIN object
  BY <1>2, <1>3, IsPartial
<1>5. Up => client' = [client EXCEPT !.pc = "devices", !.todo = DOMAIN object, !.got = Empty,
                                     !.snap = snap]
  BY DEF FetchIds
<1>6. ~Up => client' = [client EXCEPT !.pc = AfterList]
  BY DEF FetchIds
<1>7. AfterList \in Places
  BY DEF AfterList, Places
<1> HIDE DEF snap
<1>8. Up => /\ client' \in Clients /\ client'.at = client.at
            /\ client'.hears = client.hears /\ client'.news = client.news
            /\ client'.pc = "devices" /\ client'.todo = DOMAIN object
            /\ client'.snap = snap /\ client'.got = Empty
  <2>1. Empty \in Partial(Entry)
    BY EmptyIs
  <2> QED BY <1>1, <1>2, <1>4, <1>5, <2>1 DEF Clients, Places
<1>9. ~Up => /\ client' \in Clients /\ client'.at = client.at
             /\ client'.hears = client.hears /\ client'.news = client.news
             /\ client'.pc = AfterList
  BY <1>1, <1>6, <1>7 DEF Clients
<1> QED BY <1>4, <1>8, <1>9, EmptyIs

LEMMA ListFetchedIs ==
  ASSUME Types, ListFetched
  PROVE  /\ client' \in Clients /\ client'.at = client.at
         /\ client'.hears = client.hears /\ client'.news = client.news
         /\ client'.pc = AfterList /\ gpuList' = client.got /\ gpuList' \in Partial(Entry)
<1>1. client \in Clients /\ AfterList \in Places
  BY DEF Types, AfterList, Places
<1>2. client' = [client EXCEPT !.pc = AfterList, !.snap = Empty, !.got = Empty]
  BY DEF ListFetched
<1>3. gpuList' = client.got /\ client.got \in Partial(Entry)
  BY <1>1 DEF ListFetched, Clients
<1> QED BY <1>1, <1>2, <1>3, EmptyIs DEF Clients

LEMMA SubscribeIs ==
  ASSUME Types, NEW signal \in {"added", "removed"}, Subscribe(signal)
  PROVE  /\ client' \in Clients /\ client'.at = client.at
         /\ client'.hears = client.hears \cup {signal}
         /\ client'.news = client.news
         /\ client'.pc = IF signal = "added" THEN "removed" ELSE "build"
BY DEF Types, Subscribe, Clients, Places

LEMMA ReadObjectsIs ==
  ASSUME Types, ReadObjects
  PROVE  /\ client' \in Clients /\ client'.hears = client.hears /\ client'.news = client.news
         /\ client'.at = client.at
         /\ stream' \in Partial(Stream) /\ DOMAIN stream' = {}
         /\ Up => client'.pc = "streams" /\ client'.todo = DOMAIN object
         /\ ~Up => client'.pc = "ended"
<1>1. client \in Clients /\ DOMAIN object \in SUBSET Id
  BY PartialIs DEF Types
<1>2. client' = IF Up THEN [client EXCEPT !.pc = "streams", !.todo = DOMAIN object]
                      ELSE [client EXCEPT !.pc = "ended"]
  BY DEF ReadObjects
<1>3. stream' \in Partial(Stream) /\ DOMAIN stream' = {}
  BY EmptyIs DEF ReadObjects
<1> QED BY <1>1, <1>2, <1>3 DEF Clients, Places

LEMMA BuiltIs ==
  ASSUME Types, Built
  PROVE  /\ client' \in Clients /\ client'.hears = client.hears /\ client'.news = client.news
         /\ client'.at = client.at /\ client'.pc = "live"
BY DEF Types, Built, Clients, Places

LEMMA HandleObjectIs ==
  ASSUME Types, HandleObject
  PROVE  /\ client' \in Clients /\ client'.at = client.at
         /\ client'.hears = client.hears /\ client'.pc = "list"
         /\ client.news \in Nat /\ client.news > 0 /\ client'.news = client.news - 1
<1>1. client \in Clients /\ client.news > 0 /\ client' = [client EXCEPT !.pc = "list", !.news = client.news - 1]
  BY DEF Types, HandleObject
<1>2. client.news \in Nat /\ client.news - 1 \in Nat
  BY <1>1 DEF Clients
<1> QED BY <1>1, <1>2 DEF Clients, Places

(* Every step keeps the types.                                               *)
LEMMA TypesHold == Types /\ [Next]_vars => Types'
<1> SUFFICES ASSUME Types, [Next]_vars PROVE Types'
  OBVIOUS
<1> USE DEF daemonVars, clientVars
<1>1. CASE Start
  BY <1>1 DEF Start, Types
<1>2. CASE Remove
  <2>1. object' \in Partial(Nat) /\ owed' \subseteq DOMAIN object'
    BY <1>2, RemoveIs
  <2>2. Emit("removed") /\ "removed" \in {"added", "removed"}
    BY <1>2 DEF Remove
  <2>3. client' \in Clients /\ history' \in [missed : BOOLEAN, raced : SUBSET Id]
        /\ client'.pc = client.pc /\ client'.todo = client.todo /\ client'.snap = client.snap
    BY <2>2, EmitIs DEF Types
  <2>4. daemon' = [daemon EXCEPT !.todo = @ \ {Min(daemon.todo)}]
        /\ UNCHANGED <<block, power, watch, stream, gpuList, left>>
    BY <1>2 DEF Remove
  <2> QED BY <2>1, <2>3, <2>4 DEF Types
<1>3. CASE Enumerate
  <2>1. PICK ids \in Sizes :
          daemon' = [pc |-> "adding", list |-> daemon.list + 1, ids |-> ids, todo |-> ids]
    BY <1>3 DEF Enumerate
  <2>2. ids \in SUBSET Id
    BY GuiAssumption DEF Sizes, Id
  <2>3. daemon.list + 1 \in Nat
    BY DEF Types
  <2> QED BY <1>3, <2>1, <2>2, <2>3 DEF Enumerate, Types
<1>4. CASE Serve
  <2>1. PICK id \in daemon.todo :
           /\ object' \in Partial(Nat) /\ DOMAIN object' = {id} \cup DOMAIN object
           /\ block' \in [Id -> BOOLEAN] /\ watch' \in [Id -> Power \cup {Unknown}]
           /\ daemon' = [daemon EXCEPT !.todo = @ \ {id}]
    BY <1>4, ServeIs
  <2>2. Emit("added") /\ UNCHANGED <<owed, power, stream, gpuList, left>>
    BY <1>4 DEF Serve
  <2>3. client' \in Clients /\ history' \in [missed : BOOLEAN, raced : SUBSET Id]
        /\ client'.pc = client.pc /\ client'.todo = client.todo /\ client'.snap = client.snap
    BY <2>2, EmitIs DEF Types
  <2> QED BY <2>1, <2>2, <2>3 DEF Types
<1>5. CASE Served
  BY <1>5 DEF Served, Types
<1>6. CASE Hotplug
  <2>1. DOMAIN object \in SUBSET Id
    BY PartialIs DEF Types
  <2>2. daemon' \in [pc : {"down", "starting", "serving", "removing", "adding"},
                     list : Nat, ids : SUBSET Id, todo : SUBSET Id]
    BY <1>6, <2>1 DEF Hotplug, Types
  <2>3. left' \in [hotplug : Nat, block : Nat, power : Nat]
    BY <1>6 DEF Hotplug, Types
  <2> QED BY <1>6, <2>2, <2>3 DEF Hotplug, Types
<1>7. CASE FetchIds
  <2>1. client' \in Clients /\ (client'.pc = "devices" => client'.todo \subseteq DOMAIN client'.snap)
    BY <1>7, FetchIdsIs DEF AfterList
  <2>2. history' \in [missed : BOOLEAN, raced : SUBSET Id]
    BY <1>7 DEF FetchIds, Types
  <2> QED BY <1>7, <2>1, <2>2 DEF FetchIds, Types
<1>8. CASE ListFetched
  <2>1. client' \in Clients /\ gpuList' \in Partial(Entry) /\ client'.pc # "devices"
    BY <1>8, ListFetchedIs DEF AfterList
  <2> QED BY <1>8, <2>1 DEF ListFetched, Types
<1>9. CASE ReadObjects
  <2>1. client' \in Clients /\ stream' \in Partial(Stream) /\ client'.pc # "devices"
    BY <1>9, ReadObjectsIs
  <2> QED BY <1>9, <2>1 DEF ReadObjects, Types
<1>10. CASE Built
  <2>1. client' \in Clients /\ client'.pc # "devices"
    BY <1>10, BuiltIs
  <2> QED BY <1>10, <2>1 DEF Built, Types
<1>11. CASE HandleObject
  <2>1. client' \in Clients /\ client'.pc # "devices"
    BY <1>11, HandleObjectIs
  <2> QED BY <1>11, <2>1 DEF HandleObject, Types
<1>12. ASSUME NEW signal \in {"added", "removed"}, Subscribe(signal) PROVE Types'
  <2>1. client' \in Clients /\ client'.pc # "devices"
    BY <1>12, SubscribeIs
  <2> QED BY <1>12, <2>1 DEF Subscribe, Types
<1>13. ASSUME NEW id \in Id, FetchDevice(id) PROVE Types'
  <2>1. client' \in Clients /\ client'.snap = client.snap /\ client'.todo = client.todo \ {id}
    BY <1>13, FetchIs
  <2>2. client.pc = "devices"
    BY <1>13 DEF FetchDevice
  <2> QED BY <1>13, <2>1, <2>2 DEF FetchDevice, Types
<1>14. ASSUME NEW id \in Id, ReadPower(id) PROVE Types'
  <2>1. client' \in Clients /\ gpuList' \in Partial(Entry) /\ client'.pc # "devices"
    BY <1>14, ReadIs
  <2> QED BY <1>14, <2>1 DEF ReadPower, Types
<1>15. ASSUME NEW id \in Id, Listen(id) PROVE Types'
  <2>1. client' \in Clients /\ stream' \in Partial(Stream) /\ client'.pc # "devices"
    BY <1>15, ListenIs
  <2>2. history' \in [missed : BOOLEAN, raced : SUBSET Id]
    BY <1>15 DEF Listen, Types
  <2> QED BY <1>15, <2>1, <2>2 DEF Listen, Types
<1>16. ASSUME NEW id \in Id, ChangeBlock(id) PROVE Types'
  <2>1. block' \in [Id -> BOOLEAN]
    BY <1>16 DEF ChangeBlock, Types
  <2>2. owed' \subseteq DOMAIN object'
    BY <1>16 DEF ChangeBlock, Types
  <2>3. left' \in [hotplug : Nat, block : Nat, power : Nat]
    BY <1>16 DEF ChangeBlock, Types
  <2> QED BY <1>16, <2>1, <2>2, <2>3 DEF ChangeBlock, Types
<1>17. ASSUME NEW id \in Id, SignalBlock(id) PROVE Types'
  <2>1. stream' \in Partial(Stream) /\ owed' \subseteq owed
    BY <1>17, SignalIs DEF SignalBlock
  <2> QED BY <1>17, <2>1 DEF SignalBlock, Types
<1>18. ASSUME NEW id \in Id, HandleBlock(id) PROVE Types'
  <2>1. stream' \in Partial(Stream) /\ gpuList' \in Partial(Entry)
    BY <1>18, BlockedIs
  <2> QED BY <1>18, <2>1 DEF HandleBlock, Types
<1>19. ASSUME NEW id \in Id, PowerChange(id) PROVE Types'
  <2>1. power' \in [Id -> Power] /\ left' \in [hotplug : Nat, block : Nat, power : Nat]
    BY <1>19 DEF PowerChange, Types
  <2> QED BY <1>19, <2>1 DEF PowerChange, Types
<1>20. ASSUME NEW id \in Id, Poll(id) PROVE Types'
  <2>1. stream' \in Partial(Stream) /\ watch' \in [Id -> Power \cup {Unknown}]
    BY <1>20, PollIs
  <2> QED BY <1>20, <2>1 DEF Poll, Types
<1>21. ASSUME NEW id \in Id, HandlePower(id) PROVE Types'
  <2>1. /\ stream' \in Partial(Stream) /\ Head(stream[id].signals) \in Power \cup {Unknown}
        /\ UpdateGpuPowerState(id, Head(stream[id].signals))
    BY <1>21, HandleIs DEF HandlePower
  <2>2. gpuList' \in Partial(Entry)
    BY <2>1, EntryIs DEF Types
  <2>3. history' \in [missed : BOOLEAN, raced : SUBSET Id]
    BY <1>21 DEF HandlePower, Types
  <2> QED BY <1>21, <2>1, <2>2, <2>3 DEF HandlePower, Types
<1>22. CASE UNCHANGED vars
  BY <1>22 DEF vars, Types
<1> QED
  BY <1>1, <1>2, <1>3, <1>4, <1>5, <1>6, <1>7, <1>8, <1>9, <1>10, <1>11, <1>12, <1>13, <1>14,
     <1>15, <1>16, <1>17, <1>18, <1>19, <1>20, <1>21, <1>22 DEF Next, ServeGpus, GpuSub

LEMMA TypesGiveTypeOK == Types => TypeOK
<1> SUFFICES ASSUME Types PROVE TypeOK
  OBVIOUS
<1>1. /\ DOMAIN object \subseteq Id /\ \A id \in DOMAIN object : object[id] \in Nat
  BY PartialIs DEF Types
<1>2. DOMAIN stream \subseteq Id /\ \A id \in DOMAIN stream : stream[id] \in Stream
  BY PartialIs DEF Types
<1>3. DOMAIN gpuList \subseteq Id /\ \A id \in DOMAIN gpuList : gpuList[id] \in Entry
  BY PartialIs DEF Types
<1>4. client \in Clients
  BY DEF Types
<1>5. \A id \in DOMAIN client.got : client.got[id] \in Entry
  BY <1>4, PartialIs DEF Clients
<1>6. client.at \subseteq Id /\ Cardinality(client.at) <= 1
  <2>1. CASE client.at = {}
    <3>1. Cardinality(client.at) = 0
      BY <2>1, FS_EmptySet
    <3> QED BY <2>1, <3>1
  <2>2. ASSUME NEW id \in Id, client.at = {id} PROVE client.at \subseteq Id /\ Cardinality(client.at) <= 1
    <3>1. Cardinality(client.at) = 1
      BY <2>2, FS_Singleton
    <3> QED BY <2>2, <3>1
  <2> QED BY <1>4, <2>1, <2>2 DEF Clients
<1> QED
  BY <1>1, <1>2, <1>3, <1>4, <1>5, <1>6 DEF Types, TypeOK, Clients, Places

-----------------------------------------------------------------------------
(* Hearing and absence                                                       *)

(* An object comes or goes: gpu_sub hears of it, or it was missed.            *)
LEMMA ChangesIs ==
  ASSUME Types, Remove \/ Serve
  PROVE  /\ client'.pc = client.pc /\ client'.todo = client.todo /\ client'.at = client.at
         /\ client'.hears = client.hears /\ client'.news \in Nat
         /\ client.hears = Both => client'.news # 0
         /\ client.hears = {} => client'.news = client.news
         /\ client.pc # "list" => ~Caught'
         /\ UNCHANGED <<stream, gpuList>>
         /\ daemon'.pc = daemon.pc /\ daemon.pc # "down"
<1>1. client \in Clients /\ history \in [missed : BOOLEAN, raced : SUBSET Id] /\ client.news \in Nat
  BY DEF Types, Clients
<1>2. PICK signal \in {"added", "removed"} : Emit(signal)
  BY DEF Remove, Serve
<1>3. /\ client' \in Clients
      /\ client'.pc = client.pc /\ client'.todo = client.todo /\ client'.at = client.at
      /\ client'.hears = client.hears
      /\ signal \in client.hears => client'.news = client.news + 1
      /\ signal \notin client.hears => client'.news = client.news
      /\ signal \notin client.hears /\ client.pc # "list" => history'.missed
  BY <1>1, <1>2, EmitIs
<1>4. UNCHANGED <<stream, gpuList>> /\ daemon'.pc = daemon.pc /\ daemon.pc # "down"
  BY DEF Remove, Serve, Types
<1> QED BY <1>1, <1>3, <1>4 DEF Caught, Both

LEMMA InitHolds == Init => IInv
<1> SUFFICES ASSUME Init PROVE IInv
  OBVIOUS
<1>1. Types
  BY TypesInit
<1>2. client.pc = "list" /\ client.hears = {} /\ client.news = 0 /\ gpuList = Empty /\ client.at = {}
  BY DEF Init
<1>3. daemon.pc = "down" => DOMAIN object = {}
  BY DEF Init
<1>4. DOMAIN gpuList = {}
  BY <1>2 DEF Empty
<1> QED
  BY <1>1, <1>2, <1>3, <1>4
  DEF IInv, Hearing, Absent, Listing, Streaming, Blocks, Powers, Caught, Current

LEMMA HearingHolds == Types /\ Hearing /\ [Next]_vars => Hearing'
<1> SUFFICES ASSUME Types, Hearing, [Next]_vars PROVE Hearing'
  OBVIOUS
<1> USE DEF daemonVars, clientVars
<1>1. CASE Remove \/ Serve
  BY <1>1, ChangesIs DEF Hearing
<1>2. CASE Start \/ Enumerate \/ Served \/ Hotplug \/ UNCHANGED vars
  BY <1>2 DEF Start, Enumerate, Served, Hotplug, vars, Hearing
<1>3. CASE FetchIds
  <2>1. client.pc = "list" /\ client'.hears = client.hears /\ client'.news = client.news
        /\ client'.pc \in {"devices", AfterList}
    BY <1>3, FetchIdsIs DEF FetchIds
  <2> QED BY <2>1 DEF Hearing, AfterList, Both
<1>4. CASE ListFetched
  <2>1. client.pc = "devices" /\ client'.hears = client.hears /\ client'.news = client.news
        /\ client'.pc = AfterList
    BY <1>4, ListFetchedIs DEF ListFetched
  <2> QED BY <2>1 DEF Hearing, AfterList, Both
<1>5. CASE ReadObjects
  <2>1. client.pc = "build" /\ client'.hears = client.hears /\ client'.news = client.news
        /\ client'.pc \in {"streams", "ended"}
    BY <1>5, ReadObjectsIs DEF ReadObjects
  <2> QED BY <2>1 DEF Hearing, Both
<1>6. CASE Built
  <2>1. client.pc = "streams" /\ client'.hears = client.hears /\ client'.news = client.news
        /\ client'.pc = "live"
    BY <1>6, BuiltIs DEF Built
  <2> QED BY <2>1 DEF Hearing, Both
<1>7. CASE HandleObject
  <2>1. client.pc = "live" /\ client'.hears = client.hears /\ client'.pc = "list"
    BY <1>7, HandleObjectIs DEF HandleObject
  <2> QED BY <2>1 DEF Hearing, Both
<1>8. ASSUME NEW signal \in {"added", "removed"}, Subscribe(signal) PROVE Hearing'
  <2>1. client.pc = signal /\ client'.hears = client.hears \cup {signal}
        /\ client'.pc = IF signal = "added" THEN "removed" ELSE "build"
    BY <1>8, SubscribeIs DEF Subscribe
  <2> QED BY <2>1 DEF Hearing, Both
<1>9. ASSUME NEW id \in Id, FetchDevice(id) \/ ReadPower(id) \/ Listen(id) PROVE Hearing'
  <2>1. client'.pc = client.pc /\ client'.hears = client.hears /\ client'.news = client.news
    <3>1. CASE FetchDevice(id)
      BY <3>1, FetchIs DEF FetchDevice
    <3>2. CASE ReadPower(id)
      BY <3>2, ReadIs
    <3>3. CASE Listen(id)
      BY <3>3, ListenIs DEF Listen
    <3> QED BY <1>9, <3>1, <3>2, <3>3
  <2> QED BY <2>1 DEF Hearing
<1>10. ASSUME NEW id \in Id,
              \/ ChangeBlock(id) \/ SignalBlock(id) \/ HandleBlock(id)
              \/ PowerChange(id) \/ Poll(id) \/ HandlePower(id)
       PROVE  Hearing'
  <2>1. client' = client
    BY <1>10 DEF ChangeBlock, SignalBlock, HandleBlock, PowerChange, Poll, HandlePower
  <2> QED BY <2>1 DEF Hearing
<1> QED
  BY <1>1, <1>2, <1>3, <1>4, <1>5, <1>6, <1>7, <1>8, <1>9, <1>10 DEF Next, ServeGpus, GpuSub

LEMMA AbsentHolds == Types /\ Hearing /\ Absent /\ [Next]_vars => Absent'
<1> SUFFICES ASSUME Types, Hearing, Absent, [Next]_vars, daemon'.pc = "down"
             PROVE  /\ DOMAIN object' = {} /\ DOMAIN gpuList' = {} /\ client'.news = 0
                    /\ client'.pc \notin {"devices", "streams", "live"}
                    /\ client'.pc = "list" => client'.hears = {}
  BY DEF Absent
<1> DEFINE Goal == /\ DOMAIN object' = {} /\ DOMAIN gpuList' = {} /\ client'.news = 0
                   /\ client'.pc \notin {"devices", "streams", "live"}
                   /\ client'.pc = "list" => client'.hears = {}
<1> USE DEF daemonVars, clientVars
<1>1. CASE Remove \/ Serve
  BY <1>1, ChangesIs
<1>2. CASE Start \/ Enumerate \/ Served \/ Hotplug \/ UNCHANGED vars
  <2>1. daemon.pc = "down"
    <3>1. daemon'.pc # "down" \/ daemon' = daemon
      <4>1. CASE Start
        BY <4>1 DEF Start, Types
      <4>2. CASE Enumerate
        BY <4>2 DEF Enumerate
      <4>3. CASE Served \/ Hotplug
        BY <4>3 DEF Served, Hotplug, Types
      <4>4. CASE UNCHANGED vars
        BY <4>4 DEF vars
      <4> QED BY <1>2, <4>1, <4>2, <4>3, <4>4
    <3> QED BY <3>1
  <2>2. UNCHANGED <<object, client, gpuList>>
    BY <1>2 DEF Start, Enumerate, Served, Hotplug, vars
  <2> QED BY <2>1, <2>2 DEF Absent
<1>3. CASE FetchIds
  <2>1. ~Up /\ UNCHANGED <<object, gpuList, daemon>>
    BY <1>3 DEF FetchIds, Up
  <2>2. client.pc = "list" /\ client'.hears = client.hears /\ client'.news = client.news
        /\ client'.pc = AfterList
    BY <1>3, <2>1, FetchIdsIs DEF FetchIds
  <2> QED BY <2>1, <2>2 DEF Absent, AfterList
<1>4. CASE ListFetched
  BY <1>4 DEF ListFetched, Absent
<1>5. CASE ReadObjects
  <2>1. ~Up /\ UNCHANGED <<object, gpuList, daemon>>
    BY <1>5 DEF ReadObjects, Up
  <2>2. client'.news = client.news /\ client'.pc = "ended"
    BY <1>5, <2>1, ReadObjectsIs
  <2> QED BY <2>1, <2>2 DEF Absent
<1>6. CASE Built
  BY <1>6 DEF Built, Absent
<1>7. CASE HandleObject
  BY <1>7 DEF HandleObject, Absent
<1>8. ASSUME NEW signal \in {"added", "removed"}, Subscribe(signal) PROVE Goal
  <2>1. client'.news = client.news /\ client'.pc \in {"removed", "build"}
    BY <1>8, SubscribeIs
  <2> QED BY <1>8, <2>1 DEF Subscribe, Absent
<1>9. ASSUME NEW id \in Id, FetchDevice(id) \/ ReadPower(id) \/ Listen(id) PROVE Goal
  BY <1>9 DEF FetchDevice, ReadPower, Listen, Absent
<1>10. ASSUME NEW id \in Id, ChangeBlock(id) \/ SignalBlock(id) \/ PowerChange(id) \/ Poll(id)
       PROVE  Goal
  BY <1>10 DEF ChangeBlock, SignalBlock, PowerChange, Poll, Absent
<1>11. ASSUME NEW id \in Id, HandleBlock(id) \/ HandlePower(id) PROVE Goal
  BY <1>11 DEF HandleBlock, HandlePower, Absent
<1> QED
  BY <1>1, <1>2, <1>3, <1>4, <1>5, <1>6, <1>7, <1>8, <1>9, <1>10, <1>11 DEF Next, ServeGpus, GpuSub

-----------------------------------------------------------------------------
(* The list and the streams                                                  *)

LEMMA ListingHolds == Types /\ Hearing /\ Absent /\ Listing /\ [Next]_vars => Listing'
<1> SUFFICES ASSUME Types, Hearing, Absent, Listing, [Next]_vars PROVE Listing'
  OBVIOUS
<1> USE DEF daemonVars, clientVars
<1>0. client \in Clients /\ client.news \in Nat
  BY DEF Types, Clients
<1>1. CASE Remove \/ Serve
  BY <1>1, ChangesIs DEF Listing
<1>2. CASE Start \/ Enumerate \/ Served \/ Hotplug \/ UNCHANGED vars
  BY <1>2 DEF Start, Enumerate, Served, Hotplug, vars, Listing, Caught
<1>3. CASE FetchIds
  <2>1. UNCHANGED <<object, gpuList, daemon>> /\ client.pc = "list"
    BY <1>3 DEF FetchIds
  <2>2. CASE Up
    BY <1>3, <2>1, <2>2, FetchIdsIs DEF Listing
  <2>3. CASE ~Up
    <3>1. DOMAIN object = {} /\ DOMAIN gpuList = {} /\ client'.pc # "devices"
      BY <1>3, <2>3, FetchIdsIs DEF Absent, Up, AfterList
    <3> QED BY <2>1, <3>1 DEF Listing
  <2> QED BY <2>2, <2>3
<1>4. CASE ListFetched
  <2>1. client.pc = "devices" /\ client.todo = {} /\ UNCHANGED <<object, history>>
    BY <1>4 DEF ListFetched
  <2>2. gpuList' = client.got /\ client'.news = client.news /\ client'.pc # "devices"
    BY <1>4, ListFetchedIs DEF AfterList
  <2>3. Caught' => Caught
    BY <2>1, <2>2 DEF Caught
  <2> QED BY <2>1, <2>2, <2>3 DEF Listing
<1>5. CASE ReadObjects
  <2>1. client.pc = "build" /\ UNCHANGED <<object, gpuList, history>>
    BY <1>5 DEF ReadObjects
  <2>2. client'.pc # "devices" /\ client'.news = client.news
    BY <1>5, ReadObjectsIs
  <2> QED BY <2>1, <2>2 DEF Listing, Caught
<1>6. CASE Built
  <2>1. client.pc = "streams" /\ UNCHANGED <<object, gpuList, history>>
    BY <1>6 DEF Built
  <2>2. client'.pc = "live" /\ client'.news = client.news
    BY <1>6, BuiltIs
  <2> QED BY <2>1, <2>2 DEF Listing, Caught
<1>7. CASE HandleObject
  BY <1>7, HandleObjectIs DEF Listing
<1>8. ASSUME NEW signal \in {"added", "removed"}, Subscribe(signal) PROVE Listing'
  <2>1. client.pc = signal /\ UNCHANGED <<object, gpuList, history>>
    BY <1>8 DEF Subscribe
  <2>2. client'.pc # "devices" /\ client'.news = client.news
    BY <1>8, SubscribeIs
  <2> QED BY <2>1, <2>2 DEF Listing, Caught
<1>9. ASSUME NEW id \in Id, FetchDevice(id) PROVE Listing'
  <2>1. client.pc = "devices" /\ id \in client.todo /\ UNCHANGED <<object, gpuList, history>>
    BY <1>9 DEF FetchDevice
  <2>2. client'.pc = "devices" /\ client'.todo = client.todo \ {id} /\ client'.news = client.news
    BY <1>9, FetchIs
  <2>3. SUFFICES ASSUME Caught
                 PROVE  /\ DOMAIN object = client'.todo \cup DOMAIN client'.got
                        /\ \A i \in DOMAIN client'.got : client'.got[i].device = object[i]
    BY <2>1, <2>2 DEF Listing, Caught
  <2>4. /\ DOMAIN object = client.todo \cup DOMAIN client.got
        /\ \A i \in DOMAIN client.got : client.got[i].device = object[i]
    BY <2>1, <2>3 DEF Listing
  <2>5. /\ DOMAIN client'.got = {id} \cup DOMAIN client.got
        /\ client'.got[id].device = object[id]
        /\ \A i \in DOMAIN client.got \ {id} : client'.got[i] = client.got[i]
    BY <1>9, <2>1, <2>4, FetchIs
  <2> QED BY <2>1, <2>2, <2>4, <2>5
<1>10. ASSUME NEW id \in Id, ReadPower(id) \/ HandleBlock(id) \/ HandlePower(id) PROVE Listing'
  <2>1. UNCHANGED <<object, history.missed>> /\ client.pc \in {"streams", "live"}
    BY <1>10 DEF ReadPower, HandleBlock, HandlePower, Types
  <2>2. client'.pc = client.pc /\ client'.news = client.news
    <3>1. CASE ReadPower(id)
      BY <3>1, ReadIs
    <3>2. CASE HandleBlock(id) \/ HandlePower(id)
      BY <3>2 DEF HandleBlock, HandlePower
    <3> QED BY <1>10, <3>1, <3>2
  <2>3. /\ DOMAIN gpuList' = DOMAIN gpuList
        /\ \A i \in DOMAIN gpuList : gpuList'[i].device = gpuList[i].device
    <3>1. CASE ReadPower(id)
      BY <3>1, ReadIs
    <3>2. CASE HandleBlock(id)
      BY <3>2, BlockedIs
    <3>3. CASE HandlePower(id)
      <4>1. /\ Head(stream[id].signals) \in Power \cup {Unknown}
            /\ UpdateGpuPowerState(id, Head(stream[id].signals))
        BY <3>3, HandleIs DEF HandlePower
      <4> QED BY <4>1, EntryIs DEF Types
    <3> QED BY <1>10, <3>1, <3>2, <3>3
  <2> QED BY <2>1, <2>2, <2>3 DEF Listing, Caught
<1>11. ASSUME NEW id \in Id, Listen(id) PROVE Listing'
  <2>1. client.pc = "streams" /\ client'.pc = "streams" /\ client'.news = client.news
    BY <1>11, ListenIs DEF Listen
  <2>2. UNCHANGED <<object, gpuList, history.missed>>
    BY <1>11 DEF Listen, Types
  <2> QED BY <2>1, <2>2 DEF Listing, Caught
<1>12. ASSUME NEW id \in Id, ChangeBlock(id) \/ SignalBlock(id) \/ PowerChange(id) \/ Poll(id)
       PROVE  Listing'
  <2>1. UNCHANGED <<object, client, gpuList, history>>
    BY <1>12 DEF ChangeBlock, SignalBlock, PowerChange, Poll
  <2> QED BY <2>1 DEF Listing, Caught
<1> QED
  BY <1>1, <1>2, <1>3, <1>4, <1>5, <1>6, <1>7, <1>8, <1>9, <1>10, <1>11, <1>12
  DEF Next, ServeGpus, GpuSub

LEMMA StreamingHolds == Types /\ Hearing /\ Streaming /\ [Next]_vars => Streaming'
<1> SUFFICES ASSUME Types, Hearing, Streaming, [Next]_vars PROVE Streaming'
  OBVIOUS
<1> USE DEF daemonVars, clientVars
<1>1. CASE Remove \/ Serve
  BY <1>1, ChangesIs DEF Streaming, Hearing
<1>2. CASE Start \/ Enumerate \/ Served \/ Hotplug \/ UNCHANGED vars
  BY <1>2 DEF Start, Enumerate, Served, Hotplug, vars, Streaming
<1>3. CASE FetchIds \/ ListFetched \/ HandleObject
  <2>1. client'.pc \notin {"streams", "live"} /\ client'.at = client.at
    <3>1. CASE FetchIds
      BY <3>1, FetchIdsIs DEF AfterList
    <3>2. CASE ListFetched
      BY <3>2, ListFetchedIs DEF AfterList
    <3>3. CASE HandleObject
      BY <3>3, HandleObjectIs
    <3> QED BY <1>3, <3>1, <3>2, <3>3
  <2>2. client.pc # "streams"
    BY <1>3 DEF FetchIds, ListFetched, HandleObject
  <2> QED BY <2>1, <2>2 DEF Streaming
<1>4. CASE ReadObjects
  <2>1. client.pc = "build" /\ object' = object
    BY <1>4 DEF ReadObjects
  <2>2. /\ client'.at = client.at /\ DOMAIN stream' = {} /\ client'.pc # "live"
        /\ client'.pc = "streams" => client'.todo = DOMAIN object
    BY <1>4, ReadObjectsIs
  <2> QED BY <2>1, <2>2 DEF Streaming
<1>5. CASE Built
  <2>1. client.pc = "streams" /\ client.todo = {} /\ UNCHANGED <<object, stream>>
    BY <1>5 DEF Built
  <2>2. client'.pc = "live" /\ client'.news = client.news /\ client'.at = client.at
    BY <1>5, BuiltIs
  <2> QED BY <2>1, <2>2 DEF Streaming
<1>6. ASSUME NEW signal \in {"added", "removed"}, Subscribe(signal) PROVE Streaming'
  <2>1. client'.pc \notin {"streams", "live"} /\ client'.at = client.at /\ client.pc # "streams"
    BY <1>6, SubscribeIs DEF Subscribe
  <2> QED BY <2>1 DEF Streaming
<1>7. ASSUME NEW id \in Id, FetchDevice(id) PROVE Streaming'
  BY <1>7, FetchIs DEF Streaming, FetchDevice
<1>8. ASSUME NEW id \in Id, ReadPower(id) PROVE Streaming'
  <2>1. UNCHANGED <<object, stream>>
    BY <1>8 DEF ReadPower
  <2>2. /\ client'.pc = "streams" /\ client.pc = "streams" /\ client'.at = {id} /\ id \in client.todo
        /\ client'.todo = client.todo /\ client'.news = client.news
    BY <1>8, ReadIs
  <2> QED BY <2>1, <2>2 DEF Streaming
<1>9. ASSUME NEW id \in Id, Listen(id) PROVE Streaming'
  <2>1. object' = object /\ client.pc = "streams" /\ id \in client.at
    BY <1>9 DEF Listen
  <2>2. /\ client'.pc = "streams" /\ client'.at = {} /\ client'.todo = client.todo \ {id}
        /\ client'.news = client.news /\ DOMAIN stream' = {id} \cup DOMAIN stream
    BY <1>9, ListenIs
  <2>3. id \in client.todo
    BY <2>1 DEF Streaming
  <2> QED BY <2>1, <2>2, <2>3 DEF Streaming
<1>10. ASSUME NEW id \in Id,
              \/ ChangeBlock(id) \/ SignalBlock(id) \/ HandleBlock(id)
              \/ PowerChange(id) \/ Poll(id) \/ HandlePower(id)
       PROVE  Streaming'
  <2>1. UNCHANGED <<object, client>>
    BY <1>10 DEF ChangeBlock, SignalBlock, HandleBlock, PowerChange, Poll, HandlePower
  <2>2. DOMAIN stream' = DOMAIN stream
    <3>1. CASE SignalBlock(id)
      BY <3>1, SignalIs
    <3>2. CASE HandleBlock(id)
      BY <3>2, BlockedIs
    <3>3. CASE Poll(id)
      BY <3>3, PollIs
    <3>4. CASE HandlePower(id)
      BY <3>4, HandleIs
    <3>5. CASE ChangeBlock(id) \/ PowerChange(id)
      BY <3>5 DEF ChangeBlock, PowerChange
    <3> QED BY <1>10, <3>1, <3>2, <3>3, <3>4, <3>5
  <2> QED BY <2>1, <2>2 DEF Streaming
<1> QED
  BY <1>1, <1>2, <1>3, <1>4, <1>5, <1>6, <1>7, <1>8, <1>9, <1>10 DEF Next, ServeGpus, GpuSub

-----------------------------------------------------------------------------
(* The property and the power state                                          *)

(* Steps after which the streams are not, or not yet, those of the bus.       *)
LEMMA NotCurrent ==
  ASSUME Types, Hearing
  PROVE  /\ Remove \/ Serve => ~Current'
         /\ FetchIds \/ ListFetched \/ HandleObject => ~Current'
         /\ \A signal \in {"added", "removed"} : Subscribe(signal) => ~Current'
         /\ \A id \in Id : FetchDevice(id) => ~Current'
<1>1. Remove \/ Serve => ~Current'
  <2> SUFFICES ASSUME Remove \/ Serve PROVE ~Current'
    OBVIOUS
  <2>1. client'.pc = client.pc /\ (client.hears = Both => client'.news # 0)
    BY ChangesIs
  <2> QED BY <2>1 DEF Current, Hearing
<1>2. FetchIds \/ ListFetched \/ HandleObject => ~Current'
  <2>1. FetchIds => ~Current'
    BY FetchIdsIs DEF Current, AfterList
  <2>2. ListFetched => ~Current'
    BY ListFetchedIs DEF Current, AfterList
  <2>3. HandleObject => ~Current'
    BY HandleObjectIs DEF Current
  <2> QED BY <2>1, <2>2, <2>3
<1>3. \A signal \in {"added", "removed"} : Subscribe(signal) => ~Current'
  BY SubscribeIs DEF Current
<1>4. \A id \in Id : FetchDevice(id) => ~Current'
  BY FetchIs DEF Current
<1> QED BY <1>1, <1>2, <1>3, <1>4

LEMMA BlocksHold == Types /\ Hearing /\ Streaming /\ Blocks /\ [Next]_vars => Blocks'
<1> SUFFICES ASSUME Types, Hearing, Streaming, Blocks, [Next]_vars, Current' PROVE Blocks'
  BY DEF Blocks
<1> USE DEF daemonVars, clientVars
<1>1. CASE Remove \/ Serve
  BY <1>1, NotCurrent
<1>2. CASE Start \/ Enumerate \/ Served \/ Hotplug \/ UNCHANGED vars
  <2>1. UNCHANGED <<block, owed, client, stream, gpuList>>
    BY <1>2 DEF Start, Enumerate, Served, Hotplug, vars
  <2> QED BY <2>1 DEF Blocks, Current
<1>3. CASE FetchIds \/ ListFetched \/ HandleObject
  BY <1>3, NotCurrent
<1>4. CASE ReadObjects
  BY <1>4, ReadObjectsIs DEF Blocks
<1>5. CASE Built
  <2>1. client'.news = client.news /\ client.pc = "streams" /\ UNCHANGED <<block, owed, stream, gpuList>>
    BY <1>5, BuiltIs DEF Built
  <2> QED BY <2>1 DEF Blocks, Current
<1>6. ASSUME NEW signal \in {"added", "removed"}, Subscribe(signal) PROVE Blocks'
  BY <1>6, NotCurrent
<1>7. ASSUME NEW id \in Id, FetchDevice(id) PROVE Blocks'
  BY <1>7, NotCurrent
<1>8. ASSUME NEW id \in Id, ReadPower(id) PROVE Blocks'
  <2>1. UNCHANGED <<block, owed, stream>>
    BY <1>8 DEF ReadPower
  <2>2. /\ client.pc = "streams" /\ client'.news = client.news /\ DOMAIN gpuList' = DOMAIN gpuList
        /\ \A i \in DOMAIN gpuList : gpuList'[i].blocked = gpuList[i].blocked
    BY <1>8, ReadIs
  <2>3. Current
    BY <2>2 DEF Current
  <2> QED BY <2>1, <2>2, <2>3 DEF Blocks
<1>9. ASSUME NEW id \in Id, Listen(id) PROVE Blocks'
  <2>1. UNCHANGED <<block, owed, object, gpuList>> /\ client.pc = "streams" /\ id \in client.at
    BY <1>9 DEF Listen
  <2>2. /\ client'.news = client.news
        /\ DOMAIN stream' = {id} \cup DOMAIN stream /\ stream'[id].cache = block[id]
        /\ stream'[id].changed = (id \in DOMAIN object)
        /\ \A i \in DOMAIN stream \ {id} : stream'[i] = stream[i]
    BY <1>9, ListenIs
  <2>3. Current
    BY <2>1, <2>2 DEF Current
  <2>4. id \in DOMAIN object
    BY <2>1, <2>3 DEF Streaming, Current
  <2> QED BY <2>1, <2>2, <2>3, <2>4 DEF Blocks
<1>10. ASSUME NEW id \in Id, ChangeBlock(id) PROVE Blocks'
  <2>1. /\ UNCHANGED <<client, stream, gpuList>> /\ owed' = owed \cup {id}
        /\ \A i \in Id \ {id} : block'[i] = block[i]
    BY <1>10 DEF ChangeBlock, Types
  <2>2. DOMAIN stream \subseteq Id
    BY PartialIs DEF Types
  <2>3. Current
    BY <2>1 DEF Current
  <2> QED BY <2>1, <2>2, <2>3 DEF Blocks
<1>11. ASSUME NEW id \in Id, SignalBlock(id) PROVE Blocks'
  <2>1. UNCHANGED <<block, client, gpuList>> /\ owed' = owed \ {id}
    BY <1>11 DEF SignalBlock
  <2>2. /\ DOMAIN stream' = DOMAIN stream
        /\ \A i \in DOMAIN stream :
             /\ stream'[i].cache = IF i = id THEN block[id] ELSE stream[i].cache
             /\ stream'[i].changed = (i = id \/ stream[i].changed)
    BY <1>11, SignalIs
  <2>3. Current
    BY <2>1 DEF Current
  <2> QED BY <2>1, <2>2, <2>3 DEF Blocks
<1>12. ASSUME NEW id \in Id, HandleBlock(id) PROVE Blocks'
  <2>1. UNCHANGED <<block, client, owed>>
    BY <1>12 DEF HandleBlock
  <2>2. /\ DOMAIN gpuList' = DOMAIN gpuList
        /\ \A i \in DOMAIN gpuList :
             gpuList'[i].blocked = IF i = id THEN stream[id].cache ELSE gpuList[i].blocked
        /\ DOMAIN stream' = DOMAIN stream
        /\ \A i \in DOMAIN stream :
             /\ stream'[i].cache = stream[i].cache
             /\ stream'[i].changed = (i # id /\ stream[i].changed)
    BY <1>12, BlockedIs
  <2>3. Current
    BY <2>1 DEF Current
  <2> QED BY <2>1, <2>2, <2>3 DEF Blocks
<1>13. ASSUME NEW id \in Id, PowerChange(id) PROVE Blocks'
  <2>1. UNCHANGED <<block, owed, client, stream, gpuList>>
    BY <1>13 DEF PowerChange
  <2> QED BY <2>1 DEF Blocks, Current
<1>14. ASSUME NEW id \in Id, Poll(id) PROVE Blocks'
  <2>1. UNCHANGED <<block, owed, client, gpuList>>
    BY <1>14 DEF Poll
  <2>2. /\ DOMAIN stream' = DOMAIN stream
        /\ \A i \in DOMAIN stream :
             stream'[i].cache = stream[i].cache /\ stream'[i].changed = stream[i].changed
    BY <1>14, PollIs
  <2>3. Current
    BY <2>1 DEF Current
  <2> QED BY <2>1, <2>2, <2>3 DEF Blocks
<1>15. ASSUME NEW id \in Id, HandlePower(id) PROVE Blocks'
  <2>1. UNCHANGED <<block, owed, client>>
    BY <1>15 DEF HandlePower
  <2>2. /\ DOMAIN stream' = DOMAIN stream
        /\ \A i \in DOMAIN stream :
             stream'[i].cache = stream[i].cache /\ stream'[i].changed = stream[i].changed
    BY <1>15, HandleIs
  <2>3. /\ Head(stream[id].signals) \in Power \cup {Unknown}
        /\ UpdateGpuPowerState(id, Head(stream[id].signals))
    BY <1>15, HandleIs DEF HandlePower
  <2>4. /\ DOMAIN gpuList' = DOMAIN gpuList
        /\ \A i \in DOMAIN gpuList : gpuList'[i].blocked = gpuList[i].blocked
    BY <2>3, EntryIs DEF Types
  <2>5. Current
    BY <2>1 DEF Current
  <2> QED BY <2>1, <2>2, <2>4, <2>5 DEF Blocks
<1> QED
  BY <1>1, <1>2, <1>3, <1>4, <1>5, <1>6, <1>7, <1>8, <1>9, <1>10, <1>11, <1>12, <1>13, <1>14, <1>15
  DEF Next, ServeGpus, GpuSub

LEMMA NewestAppended ==
  ASSUME NEW s \in Seq(Power), NEW p \in Power
  PROVE  Append(s, p) # <<>> /\ Newest(Append(s, p)) = p
BY DEF Newest

LEMMA NewestOfTail ==
  ASSUME NEW s \in Seq(Power), s # <<>>
  PROVE  /\ Tail(s) # <<>> => Newest(Tail(s)) = Newest(s)
         /\ Tail(s) = <<>> => Newest(s) = Head(s)
<1>1. Len(s) \in Nat /\ Len(s) # 0 /\ Len(Tail(s)) = Len(s) - 1 /\ Tail(s) \in Seq(Power)
  OBVIOUS
<1>2. ASSUME NEW t \in Seq(Power) PROVE t = <<>> <=> Len(t) = 0
  OBVIOUS
<1>3. CASE Tail(s) # <<>>
  <2>1. Len(Tail(s)) # 0
    BY <1>1, <1>2, <1>3
  <2> QED BY <1>1, <1>3, <2>1 DEF Newest
<1>4. CASE Tail(s) = <<>>
  <2>1. Len(Tail(s)) = 0
    BY Zenon, <1>1, <1>2, <1>4
  <2>2. Len(s) = 1
    <3>1. PICK n \in Nat : n = Len(s)
      BY <1>1
    <3>2. n - 1 = 0
      BY Zenon, <1>1, <2>1, <3>1
    <3>3. n = 1
      BY <3>2
    <3> QED BY <3>1, <3>3
  <2> QED BY <1>4, <2>2 DEF Newest
<1> QED BY <1>3, <1>4

LEMMA PowersHold == Types /\ Hearing /\ Streaming /\ Powers /\ [Next]_vars => Powers'
<1> SUFFICES ASSUME Types, Hearing, Streaming, Powers, [Next]_vars, Current' PROVE Powers'
  BY DEF Powers
<1> USE DEF daemonVars, clientVars
<1>1. CASE Remove \/ Serve
  BY <1>1, NotCurrent
<1>2. CASE Start \/ Enumerate \/ Served \/ Hotplug \/ UNCHANGED vars
  <2>1. UNCHANGED <<watch, client, stream, gpuList, history>>
    BY <1>2 DEF Start, Enumerate, Served, Hotplug, vars
  <2> QED BY <2>1 DEF Powers, Current
<1>3. CASE FetchIds \/ ListFetched \/ HandleObject
  BY <1>3, NotCurrent
<1>4. CASE ReadObjects
  <2>1. client'.at = client.at /\ DOMAIN stream' = {} /\ client.at = {}
    BY <1>4, ReadObjectsIs DEF ReadObjects, Streaming
  <2> QED BY <2>1 DEF Powers
<1>5. CASE Built
  <2>1. /\ client'.news = client.news /\ client.pc = "streams" /\ client'.at = client.at
        /\ client.todo = {} /\ UNCHANGED <<watch, stream, gpuList, history>>
    BY <1>5, BuiltIs DEF Built
  <2>2. client.at = {}
    BY <2>1 DEF Streaming
  <2> QED BY <2>1, <2>2 DEF Powers, Current
<1>6. ASSUME NEW signal \in {"added", "removed"}, Subscribe(signal) PROVE Powers'
  BY <1>6, NotCurrent
<1>7. ASSUME NEW id \in Id, FetchDevice(id) PROVE Powers'
  BY <1>7, NotCurrent
<1>8. ASSUME NEW id \in Id, ReadPower(id) PROVE Powers'
  <2>1. UNCHANGED <<watch, stream, history>>
    BY <1>8 DEF ReadPower
  <2>2. /\ client.pc = "streams" /\ client'.news = client.news /\ client'.at = {id}
        /\ id \in client.todo /\ DOMAIN gpuList' = DOMAIN gpuList
        /\ id \in DOMAIN object => client'.read = power[id]
        /\ \A i \in DOMAIN gpuList :
             gpuList'[i].power = IF i = id /\ id \in DOMAIN object
                                   THEN power[id] ELSE gpuList[i].power
    BY <1>8, ReadIs
  <2>3. Current
    BY <2>2 DEF Current
  <2>4. id \in DOMAIN object /\ id \notin DOMAIN stream
    BY <2>2, <2>3 DEF Streaming, Current
  <2> QED BY <2>1, <2>2, <2>3, <2>4 DEF Powers
<1>9. ASSUME NEW id \in Id, Listen(id) PROVE Powers'
  <2>1. UNCHANGED <<watch, gpuList>> /\ client.pc = "streams" /\ id \in client.at
    BY <1>9 DEF Listen
  <2>2. /\ client'.news = client.news /\ client'.at = {}
        /\ DOMAIN stream' = {id} \cup DOMAIN stream /\ stream'[id].signals = <<>>
        /\ \A i \in DOMAIN stream \ {id} : stream'[i] = stream[i]
    BY <1>9, ListenIs
  <2>3. Current
    BY <2>1, <2>2 DEF Current
  <2>4. history'.raced = IF watch[id] \in {Unknown, client.read} THEN history.raced \ {id}
                                                                 ELSE history.raced \cup {id}
    BY <1>9 DEF Listen, Types
  <2>5. id \in DOMAIN gpuList => gpuList[id].power = client.read
    BY <2>1, <2>3 DEF Powers
  <2>6. id \notin history'.raced => watch[id] \in {Unknown, client.read}
    BY <2>4
  <2>7. \A i \in DOMAIN stream \ {id} : i \notin history'.raced => i \notin history.raced
    BY <2>4
  <2> QED BY <2>1, <2>2, <2>3, <2>5, <2>6, <2>7 DEF Powers
<1>10. ASSUME NEW id \in Id, ChangeBlock(id) \/ PowerChange(id) PROVE Powers'
  <2>1. UNCHANGED <<watch, client, stream, gpuList, history>>
    BY <1>10 DEF ChangeBlock, PowerChange
  <2> QED BY <2>1 DEF Powers, Current
<1>11. ASSUME NEW id \in Id, SignalBlock(id) PROVE Powers'
  <2>1. UNCHANGED <<watch, client, gpuList, history>>
    BY <1>11 DEF SignalBlock
  <2>2. DOMAIN stream' = DOMAIN stream /\ \A i \in DOMAIN stream : stream'[i].signals = stream[i].signals
    BY <1>11, SignalIs
  <2>3. Current
    BY <2>1 DEF Current
  <2> QED BY <2>1, <2>2, <2>3 DEF Powers
<1>12. ASSUME NEW id \in Id, HandleBlock(id) PROVE Powers'
  <2>1. UNCHANGED <<watch, client, history>>
    BY <1>12 DEF HandleBlock
  <2>2. /\ DOMAIN gpuList' = DOMAIN gpuList
        /\ \A i \in DOMAIN gpuList : gpuList'[i].power = gpuList[i].power
        /\ DOMAIN stream' = DOMAIN stream
        /\ \A i \in DOMAIN stream : stream'[i].signals = stream[i].signals
    BY <1>12, BlockedIs
  <2>3. Current
    BY <2>1 DEF Current
  <2> QED BY <2>1, <2>2, <2>3 DEF Powers
<1>13. ASSUME NEW id \in Id, Poll(id) PROVE Powers'
  <2>1. UNCHANGED <<client, gpuList, history>> /\ power[id] \in Power
    BY <1>13 DEF Poll, Types
  <2>2. /\ DOMAIN stream' = DOMAIN stream
        /\ \A i \in Id : watch'[i] = IF i = id THEN power[id] ELSE watch[i]
        /\ \A i \in DOMAIN stream :
             stream'[i].signals = IF i = id THEN Append(stream[i].signals, power[id])
                                            ELSE stream[i].signals
    BY <1>13, PollIs
  <2>3. Current
    BY <2>1 DEF Current
  <2>4. DOMAIN stream \subseteq Id /\ \A i \in DOMAIN stream : stream[i] \in Stream
    BY PartialIs DEF Types
  <2>5. \A i \in DOMAIN stream : stream[i].signals \in Seq(Power)
    BY <2>4 DEF Stream
  <2>6. id \in DOMAIN stream =>
          stream'[id].signals # <<>> /\ Newest(stream'[id].signals) = watch'[id]
    BY <2>1, <2>2, <2>5, NewestAppended
  <2>7. \A i \in DOMAIN stream \ {id} :
          stream'[i].signals = stream[i].signals /\ watch'[i] = watch[i]
    BY <2>2, <2>4
  <2> QED BY <2>1, <2>2, <2>3, <2>6, <2>7 DEF Powers
<1>14. ASSUME NEW id \in Id, HandlePower(id) PROVE Powers'
  <2>1. UNCHANGED <<watch, client>> /\ client.pc = "live"
    BY <1>14 DEF HandlePower
  <2>2. /\ DOMAIN stream' = DOMAIN stream
        /\ id \in DOMAIN stream /\ stream[id].signals \in Seq(Power)
        /\ stream[id].signals # <<>> /\ Head(stream[id].signals) \in Power
        /\ \A i \in DOMAIN stream :
             stream'[i].signals = IF i = id THEN Tail(stream[i].signals) ELSE stream[i].signals
    BY <1>14, HandleIs
  <2>3. UpdateGpuPowerState(id, Head(stream[id].signals)) /\ history'.raced = history.raced \ {id}
    BY <1>14 DEF HandlePower, Types
  <2>4. /\ DOMAIN gpuList' = DOMAIN gpuList
        /\ \A i \in DOMAIN gpuList :
             gpuList'[i].power = IF i = id THEN Head(stream[id].signals) ELSE gpuList[i].power
    BY <2>2, <2>3, EntryIs DEF Types
  <2>5. Current /\ client.at = {}
    BY <2>1 DEF Current, Streaming
  <2>6. /\ stream'[id].signals # <<>> => Newest(stream'[id].signals) = Newest(stream[id].signals)
        /\ stream'[id].signals = <<>> => Newest(stream[id].signals) = Head(stream[id].signals)
    BY <2>2, NewestOfTail
  <2>7. Newest(stream[id].signals) = watch[id]
    BY <2>2, <2>5 DEF Powers
  <2> QED BY <2>1, <2>2, <2>3, <2>4, <2>5, <2>6, <2>7 DEF Powers
<1> QED
  BY <1>1, <1>2, <1>3, <1>4, <1>5, <1>6, <1>7, <1>8, <1>9, <1>10, <1>11, <1>12, <1>13, <1>14
  DEF Next, ServeGpus, GpuSub

-----------------------------------------------------------------------------
(* The theorems                                                              *)

(* What gpu_sub has heard, fetched, cached and shown, at each of its places,  *)
(* against what the daemon serves: the inductive invariant.                  *)
THEOREM InvariantHolds == Spec => []IInv
<1>1. Init => IInv
  BY InitHolds
<1>2. IInv /\ [Next]_vars => IInv'
  BY TypesHold, HearingHolds, AbsentHolds, ListingHolds, StreamingHolds, BlocksHold, PowersHold
  DEF IInv
<1> QED BY <1>1, <1>2, PTL DEF Spec

(* Every variable of daemon and client keeps its type.                       *)
THEOREM TypeCorrect == Spec => []TypeOK
<1>1. IInv => TypeOK
  BY TypesGiveTypeOK DEF IInv
<1> QED BY <1>1, InvariantHolds, PTL

(* Once nothing is under way the client's list and streams are those of the   *)
(* objects on the bus, after any number of hotplugs (gpu_sub,                *)
(* get_devices_list, refresh_gpu).                                           *)
THEOREM ListFollowsBus == Spec => []ListsBus
<1>1. IInv => ListsBus
  <2> SUFFICES ASSUME IInv, Settled
               PROVE  /\ DOMAIN stream = DOMAIN object
                      /\ history.missed \/ Devices = object
    BY DEF ListsBus
  <2>1. client.pc = "live" /\ client.news = 0
    BY DEF Settled
  <2>2. DOMAIN stream = DOMAIN object
    BY <2>1 DEF IInv, Streaming
  <2>3. ASSUME ~history.missed PROVE Devices = object
    <3>1. DOMAIN gpuList = DOMAIN object /\ \A id \in DOMAIN gpuList : gpuList[id].device = object[id]
      BY <2>1, <2>3 DEF IInv, Listing, Caught
    <3>2. object = [id \in DOMAIN object |-> object[id]]
      BY PartialIs DEF IInv, Types
    <3> QED BY <3>1, <3>2 DEF Devices
  <2> QED BY <2>2, <2>3
<1> QED BY <1>1, InvariantHolds, PTL

(* Once nothing is under way every Blocked entry that no signal is owed for   *)
(* or waits for is the daemon's (UpdateBlockState, build_gpu_streams).        *)
THEOREM BlockFollows == Spec => []ShowsBlock
<1>1. IInv => ShowsBlock
  <2>1. IInv /\ Settled => DOMAIN stream = DOMAIN object /\ Current
    BY DEF IInv, Settled, Streaming, Current
  <2> QED BY <2>1 DEF ShowsBlock, IInv, Blocks
<1> QED BY <1>1, InvariantHolds, PTL

(* Once nothing is under way every power state that the watcher has signalled *)
(* is shown, unless the reading that began the stream was of another moment   *)
(* (build_gpu_streams, watch_power_state).                                   *)
THEOREM PowerFollows == Spec => []ShowsPower
<1>1. IInv => ShowsPower
  <2> SUFFICES ASSUME IInv, Settled,
                      NEW id \in (DOMAIN gpuList \cap DOMAIN object \cap Watched) \ history.raced,
                      watch[id] = power[id], stream[id].signals = <<>>
               PROVE  gpuList[id].power = power[id]
    BY DEF ShowsPower
  <2>1. DOMAIN stream = DOMAIN object /\ Current
    BY DEF IInv, Settled, Streaming, Current
  <2>2. watch[id] \in {Unknown, gpuList[id].power}
    BY <2>1 DEF IInv, Powers
  <2>3. DOMAIN object \subseteq Id
    BY PartialIs DEF IInv, Types
  <2>4. power[id] \in Power
    BY <2>3 DEF IInv, Types
  <2>5. power[id] # Unknown
    BY <2>4, GuiAssumption
  <2> QED BY <2>2, <2>5
<1> QED BY <1>1, InvariantHolds, PTL
=============================================================================
