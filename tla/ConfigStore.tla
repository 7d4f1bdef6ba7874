----------------------------- MODULE ConfigStore -----------------------------
(***************************************************************************)
(* The settings of the daemon: ConfigMemory and its setters, the kernel's     *)
(* copy of the NVIDIA setting, cardwire.toml with the temporary file it is    *)
(* replaced from, crashes and starts, and the settings page of the graphical  *)
(* client, which hears of a value from the answer to its own call and, by     *)
(* another connection, from the daemon's signals.                            *)
(*                                                                          *)
(* A value is the number of the write that stored it, 0 the default; two      *)
(* writes of one value are told apart.                                       *)
(***************************************************************************)
EXTENDS Naturals, FiniteSets

CONSTANTS
  Setting,     \* the properties of the Config interface
  Nvidia,      \* experimental_nvidia_block, which the kernel has a copy of
  BatteryMode, \* battery_auto_switch_mode, whose setter takes &self
  Call,        \* calls that may be under way
  Save,        \* the method save_to_file
  BadMode,     \* a number that is no mode
  Broken,      \* a cardwire.toml that cannot be parsed
  MaxWrites,   \* bound: requests to set a property
  MaxFaults,   \* bound: map updates and saves that fail
  MaxCrashes   \* bound: ends of the daemon

ASSUME ConfigAssumption ==
  /\ {Nvidia, BatteryMode} \subseteq Setting /\ Nvidia # BatteryMode
  /\ Save \notin Setting /\ BadMode \notin Nat
  /\ Broken \notin [Setting -> Nat]
  /\ {MaxWrites, MaxFaults, MaxCrashes} \subseteq Nat

VARIABLES
  up,       \* the daemon runs
  readonly, \* /etc is on a read-only filesystem
  memory,   \* ConfigMemory
  kernel,   \* CW_SETTINGS
  file,     \* cardwire.toml
  tmp,      \* cardwire.toml.*.tmp, each named for the call that wrote it
  call,     \* the calls
  client,   \* the graphical client: its place in config_sub (deaf: in its loop, with
            \* no signal to come), the properties its proxy caches, those it has
            \* not passed on, and SettingState
  history,  \* stored: writes so far; acked: the last write of each setting that was
            \* answered; and what failed since: the last update of the map, the
            \* last save, and the settings the client may have missed
  left      \* what the bounds leave

vars == <<up, readonly, memory, kernel, file, tmp, call, client, history, left>>

Default == [s \in Setting |-> 0]
Idle    == [pc |-> "idle", op |-> Save, gui |-> FALSE, bad |-> FALSE, no |-> 0, snap |-> Default]

CallState == [pc : {"idle", "start", "map", "lock", "write", "rename", "notify", "answered"},
              op : Setting \cup {Save}, gui : BOOLEAN, bad : BOOLEAN, no : Nat,
              snap : [Setting -> Nat]]

TypeOK ==
  /\ up \in BOOLEAN /\ readonly \in BOOLEAN
  /\ memory \in [Setting -> Nat] /\ kernel \in Nat
  /\ file \in [Setting -> Nat] \cup {Broken}
  /\ tmp \subseteq Call
  /\ call \in [Call -> CallState]
  /\ client \in [pc : {"closed", "subscribed", "live", "deaf"}, cache : [Setting -> Nat],
                 changed : SUBSET Setting, shown : [Setting -> Nat]]
  /\ history \in [stored : Nat, acked : [Setting -> Nat],
                  kernel : BOOLEAN, file : BOOLEAN, client : SUBSET Setting]
  /\ left \in [write : Nat, fault : Nat, crash : Nat]

Init ==
  /\ up = FALSE /\ readonly \in BOOLEAN
  /\ memory = Default /\ kernel = 0 /\ file \in {Default, Broken} /\ tmp = {}
  /\ call = [k \in Call |-> Idle]
  /\ client = [pc |-> "closed", cache |-> Default, changed |-> {}, shown |-> Default]
  /\ history = [stored |-> 0, acked |-> Default, kernel |-> FALSE, file |-> FALSE, client |-> {}]
  /\ left = [write |-> MaxWrites, fault |-> MaxFaults, crash |-> MaxCrashes]

-----------------------------------------------------------------------------
(* The daemon's life.                                                        *)

(* parse_or_default                                                          *)
Parsed(f) == IF f = Broken THEN Default ELSE f

(* CardwireConfig::build, with cleanup_stale_tmp_files, and                   *)
(* set_nvidia_setting, without which the daemon does not start.               *)
Start ==
  /\ ~up
  /\ up' = TRUE
  /\ tmp' = {}
  /\ memory' = Parsed(file)
  /\ kernel' = Parsed(file)[Nvidia]
  /\ history' = [history EXCEPT !.kernel = FALSE, !.file = FALSE]
  /\ UNCHANGED <<readonly, file, call, client, left>>

Running(k) == call[k].pc \notin {"idle", "start", "answered"}

(* The client is not told what the daemon forgets, nor the outcome of a call. *)
Crash ==
  /\ up /\ left.crash > 0
  /\ left' = [left EXCEPT !.crash = @ - 1]
  /\ up' = FALSE
  /\ call' = [k \in Call |-> IF call[k].pc = "answered" THEN call[k] ELSE Idle]
  /\ history' = [history EXCEPT !.client = @ \cup {s \in Setting :
                    memory[s] # Parsed(file)[s] \/ \E k \in Call : Running(k) /\ call[k].op = s}]
  /\ UNCHANGED <<readonly, memory, kernel, file, tmp, client>>

-----------------------------------------------------------------------------
(* Calls.                                                                    *)

Request(k, op, gui, bad) ==
  /\ up /\ call[k].pc = "idle"
  /\ left.write > 0
  /\ gui => client.pc # "closed" /\ op # Save /\ ~bad
  /\ bad => op = BatteryMode
  /\ left' = [left EXCEPT !.write = @ - 1]
  /\ call' = [call EXCEPT ![k] = [Idle EXCEPT !.pc = "start", !.op = op, !.gui = gui, !.bad = bad]]
  /\ UNCHANGED <<up, readonly, memory, kernel, file, tmp, client, history>>

(* Setters that take &mut self have the interface to themselves until they    *)
(* have signalled; save_to_file and the setter of the battery mode share it.  *)
Exclusive(op) == op \in Setting \ {BatteryMode}

MayEnter(k) ==
  \A j \in Call \ {k} : Running(j) => ~Exclusive(call[k].op) /\ ~Exclusive(call[j].op)

(* An answer to an earlier click that the client has not seen will undo this  *)
(* write in its SettingState.                                                *)
Unseen(k) == \E j \in Call \ {k} :
  /\ call[j].op = call[k].op /\ call[j].gui
  /\ Running(j) \/ call[j].pc = "answered"

Accepts_Any(k) == TRUE
Accepts(k)     == ~call[k].bad

Refuse(k) ==
  /\ call[k].pc = "start" /\ MayEnter(k) /\ ~Accepts(k)
  /\ call' = [call EXCEPT ![k] = Idle]
  /\ UNCHANGED <<up, readonly, memory, kernel, file, tmp, client, history, left>>

Store(k) ==
  /\ call[k].pc = "start" /\ MayEnter(k) /\ call[k].op # Save /\ Accepts(k)
  /\ LET s  == call[k].op
         no == history.stored + 1
     IN  /\ memory' = [memory EXCEPT ![s] = IF call[k].bad THEN BadMode ELSE no]
         /\ call' = [call EXCEPT ![k].pc = IF s = Nvidia THEN "map" ELSE "lock", ![k].no = no]
         /\ history' = [history EXCEPT !.stored = no,
                          !.client = IF Unseen(k) THEN @ \cup {s} ELSE @ \ {s}]
  /\ UNCHANGED <<up, readonly, kernel, file, tmp, client, left>>

SaveOnly(k) ==
  /\ call[k].pc = "start" /\ MayEnter(k) /\ call[k].op = Save
  /\ call' = [call EXCEPT ![k].pc = "lock"]
  /\ UNCHANGED <<up, readonly, memory, kernel, file, tmp, client, history, left>>

(* The caller gets an error; the new value stays in memory, unsignalled.      *)
Missed(k) == history.client \cup ({call[k].op} \cap Setting)

(* set_ebpf_setting                                                          *)
UpdateMap(k) ==
  /\ call[k].pc = "map"
  /\ kernel' = call[k].no
  /\ call' = [call EXCEPT ![k].pc = "lock"]
  /\ history' = [history EXCEPT !.kernel = FALSE]
  /\ UNCHANGED <<up, readonly, memory, file, tmp, client, left>>

FailMap(k) ==
  /\ call[k].pc = "map" /\ left.fault > 0
  /\ left' = [left EXCEPT !.fault = @ - 1]
  /\ call' = [call EXCEPT ![k] = Idle]
  /\ history' = [history EXCEPT !.kernel = TRUE, !.file = TRUE, !.client = Missed(k)]
  /\ UNCHANGED <<up, readonly, memory, kernel, file, tmp, client>>

-----------------------------------------------------------------------------
(* save_to_file and save_config                                              *)

Saving == {k \in Call : call[k].pc \in {"write", "rename"}}

MayLoad_Unlocked == TRUE
MayLoad          == Saving = {}

(* With the save lock: the settings are loaded and converted, which fails for *)
(* a number that is no mode.                                                 *)
Load(k) ==
  /\ call[k].pc = "lock" /\ MayLoad
  /\ IF memory[BatteryMode] = BadMode
       THEN /\ call' = [call EXCEPT ![k] = Idle]
            /\ history' = [history EXCEPT !.client = Missed(k)]
       ELSE /\ call' = [call EXCEPT ![k].pc = "write", ![k].snap = memory]
            /\ UNCHANGED history
  /\ UNCHANGED <<up, readonly, memory, kernel, file, tmp, client, left>>

(* The temporary file, complete and on the disk; on a read-only filesystem    *)
(* nothing is saved and the call succeeds.                                   *)
Write(k) ==
  /\ call[k].pc = "write" /\ ~readonly
  /\ tmp' = tmp \cup {k}
  /\ call' = [call EXCEPT ![k].pc = "rename"]
  /\ UNCHANGED <<up, readonly, memory, kernel, file, client, history, left>>

WriteReadOnly(k) ==
  /\ call[k].pc = "write" /\ readonly
  /\ call' = [call EXCEPT ![k].pc = "notify", ![k].snap = Default]
  /\ history' = [history EXCEPT !.file = TRUE]
  /\ UNCHANGED <<up, readonly, memory, kernel, file, tmp, client, left>>

Rename(k) ==
  /\ call[k].pc = "rename"
  /\ file' = call[k].snap
  /\ tmp' = tmp \ {k}
  /\ call' = [call EXCEPT ![k].pc = "notify", ![k].snap = Default]
  /\ history' = [history EXCEPT !.file = FALSE]
  /\ UNCHANGED <<up, readonly, memory, kernel, client, left>>

(* An error of any step removes the temporary file.                           *)
FailSave(k) ==
  /\ call[k].pc \in {"write", "rename"} /\ left.fault > 0
  /\ left' = [left EXCEPT !.fault = @ - 1]
  /\ tmp' = tmp \ {k}
  /\ call' = [call EXCEPT ![k] = Idle]
  /\ history' = [history EXCEPT !.file = TRUE, !.client = Missed(k)]
  /\ UNCHANGED <<up, readonly, memory, kernel, file, client>>

(* zbus signals what the getter returns and answers.                          *)
Larger(a, b) == IF a < b THEN b ELSE a

Notify(k) ==
  /\ call[k].pc = "notify"
  /\ LET s == call[k].op
     IN  /\ client' = IF s # Save /\ client.pc # "closed"
                        THEN [client EXCEPT !.cache[s] = memory[s], !.changed = @ \cup {s}]
                        ELSE client
         /\ history' = IF s # Save
                         THEN [history EXCEPT !.acked[s] = Larger(@, call[k].no)] ELSE history
  /\ call' = [call EXCEPT ![k] = IF call[k].gui THEN [@ EXCEPT !.pc = "answered"] ELSE Idle]
  /\ UNCHANGED <<up, readonly, memory, kernel, file, tmp, left>>

-----------------------------------------------------------------------------
(* The graphical client: config_sub and Message::FetchedSetting.              *)

Subscribe ==
  /\ client.pc = "closed"
  /\ client' = [client EXCEPT !.pc = "subscribed"]
  /\ UNCHANGED <<up, readonly, memory, kernel, file, tmp, call, history, left>>

(* The properties fetched at start-up.                                       *)
Fetched_NoMode == Setting \ {BatteryMode}
Fetched        == Setting

Fetch ==
  /\ up /\ client.pc = "subscribed"
  /\ client' = [client EXCEPT !.pc = "live", !.changed = @ \cup Fetched,
                  !.cache = [s \in Setting |-> IF s \in Fetched THEN memory[s] ELSE @[s]]]
  /\ UNCHANGED <<up, readonly, memory, kernel, file, tmp, call, history, left>>

(* The getters fail, all of them, for they answer from the one cache of the    *)
(* proxy: the daemon is down, or its answer is an error. Each failure is only  *)
(* a warning and nothing fetches again, so a setting stays at what the page    *)
(* shows until a later write of it is signalled. A cache that never got the    *)
(* properties (zbus, external) passes no signal on either: the client is deaf. *)
FetchFails(pc) ==
  /\ client.pc = "subscribed"
  /\ IF up THEN left.fault > 0 /\ left' = [left EXCEPT !.fault = @ - 1] ELSE UNCHANGED left
  /\ client' = [client EXCEPT !.pc = pc]
  /\ history' = [history EXCEPT !.client = Setting]
  /\ UNCHANGED <<up, readonly, memory, kernel, file, tmp, call>>

(* A value the subscription passes on, and the value an answered click sent.  *)
Changed(s) ==
  /\ client.pc = "live" /\ s \in client.changed
  /\ client' = [client EXCEPT !.changed = @ \ {s}, !.shown[s] = client.cache[s]]
  /\ UNCHANGED <<up, readonly, memory, kernel, file, tmp, call, history, left>>

Answered(k) ==
  /\ call[k].pc = "answered"
  /\ client' = [client EXCEPT !.shown[call[k].op] = call[k].no]
  /\ call' = [call EXCEPT ![k] = Idle]
  /\ UNCHANGED <<up, readonly, memory, kernel, file, tmp, history, left>>

-----------------------------------------------------------------------------
Handle(k) ==
  \/ Refuse(k) \/ Store(k) \/ SaveOnly(k) \/ UpdateMap(k) \/ FailMap(k)
  \/ Load(k) \/ Write(k) \/ WriteReadOnly(k) \/ Rename(k) \/ FailSave(k)
  \/ Notify(k)

Next ==
  \/ Start \/ Crash
  \/ \E k \in Call :
       \/ \E op \in Setting \cup {Save}, gui, bad \in BOOLEAN : Request(k, op, gui, bad)
       \/ Handle(k) \/ Answered(k)
  \/ Subscribe \/ Fetch \/ \E pc \in {"live", "deaf"} : FetchFails(pc)
  \/ \E s \in Setting : Changed(s)

Spec == Init /\ [][Next]_vars

-----------------------------------------------------------------------------
(* Properties                                                                *)

(* A setting that was answered with success, or a later write of it, is in    *)
(* cardwire.toml, whatever overlaps, fails or ends: a save never puts back an *)
(* older value (save_to_file, save_config).                                  *)
AnsweredIsSaved ==
  ~readonly => \A s \in Setting : history.acked[s] <= Parsed(file)[s]

(* Between calls the file holds the memory's settings unless the map or the   *)
(* filesystem failed the last save, the kernel has the memory's NVIDIA        *)
(* setting unless its last update failed, and no temporary file is left,      *)
(* crashes or not (ConfigInterface, CardwireConfig).                          *)
SettledAgree ==
  up /\ (\A k \in Call : ~Running(k)) =>
    /\ history.file \/ Parsed(file) = memory
    /\ history.kernel \/ kernel = memory[Nvidia]
    /\ tmp = {}

(* A client that has heard everything shows the daemon's settings, except one *)
(* whose last write failed or was cut short, came in while an answer to an    *)
(* earlier click was under way, or predates a first fetch that failed. One     *)
(* whose proxy never got the properties is told nothing and shows what it did  *)
(* for good (config_sub, Message::FetchedSetting).                            *)
ShowsDaemon ==
  up /\ client.pc = "live" /\ client.changed = {} /\ (\A k \in Call : call[k].pc \in {"idle", "start"})
    => \A s \in Setting \ history.client : client.shown[s] = memory[s]
=============================================================================
