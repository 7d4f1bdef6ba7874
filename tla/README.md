# Verification of cardwire

cardwire hides GPUs from programs: a daemon, `cardwired`, keeps the device files
of each GPU in eBPF maps, and eBPF programs answer ENOENT for those a process
should not see. This directory holds TLA+ models of its core, the TLC
configurations that check them, and proofs for TLAPS. Paths below are relative
to `crates/` of the repository unless they begin with `docs/`.

## The system

| Part | State | Operations | Properties that make it correct |
| --- | --- | --- | --- |
| Mode control (`interface/mode.rs`, `file/state.rs`, `manager.rs`) | transition lock, mode state, `mode.json`, `CW_MODE` | `set_mode`, `internal_set_mode`, `apply_mode`, start-up with fallback | kernel and D-Bus agree on the mode; a failed transition shows in neither; a restart brings the mode back; only offered modes |
| Per-GPU block (`interface/gpu.rs`) | the GPU's keys in `CW_BLOCKED_INO`, `gpu_state.json` | `set_block`, `gpu_blocked`, `launchable`, `sync_inodes` | the default GPU is never hidden; saved states are complete |
| Display monitor (`tasks/monitor_display.rs`) | none between rounds | probe, override to Hybrid, restore, unblock | a connected display is lit; an override is never persisted |
| Battery monitor (`tasks/battery_switch.rs`) | none | a mode request per change of the power source | as mode control |
| nvidia-powerd control (`core/gpu/nvidia.rs`) | detached tasks | start, stop | the service follows the mode |
| eBPF access decision (`cardwire-ebpf`) | reads all maps | `file_open`, `inode_permission`, `inode_getattr` | mode, inode state and grants alone decide |
| Process classification (`analyzer/models.rs`, exec and exit tracepoints, `interface/smart.rs`) | `CW_ALLOWED_PID`, `CW_FORCED_PID`, `CW_EXEC_EVENTS`, evaluation tasks | exec, exit, evaluate, `RequestProcessAccess` | a grant has a cause; what is due is granted; grants match the present image |
| Switcheroo shim (`interface/switcheroo.rs`, `core/env.rs`) | none | advertised list, launch environment | a launch reaches the chosen GPU |
| getdents scan (`cardwire-ebpf`) | `CW_DIRENT`, the lengths in the caller's buffer | enter, exit, `scan_dirent` | a reader meets exactly the entries that are not hidden; no entry of the map outlives its call |
| Application policies (`file/sql.rs`, `interface/smart.rs`) | database, cache, pending discoveries, worker queue | discover, `SetAppPolicy` | the cache mirrors the database; a decision of the user is never undone |
| Inode synchronisation (`interface/gpu.rs`, `core/inode.rs`, `cardwire-ebpf-userspace`) | pushed keys per GPU, keys that GPUs share, NVIDIA keys | `sync_inodes`, `take_pushed_inodes`, `sync_nvidia_inodes` | every key in the map has an owner who will remove it |
| Hotplug refresh (`interface/debug.rs`, `tasks/monitor_udev.rs`) | PCI list, GPU list | `refresh_gpu`, `drop_unclaimed_inodes` | list, mode and keys follow the devices; nobody waits for ever |
| Configuration (`interface/config.rs`, `file/config.rs`) | atomics, kernel setting, save lock, `cardwire.toml` and its temporary file | setters, `SaveToFile`, load at the start | what was answered is saved; memory, kernel and file agree between calls |
| Reports (`analyzer/models.rs`, `interface/logger.rs`) | `CW_REPORT_EVENTS`, history, reported pids, permits | record, signal, `ProcessBlocked` | each process once; what the ring took is recorded |
| Power state watcher (`tasks/watch_power_state.rs`) | the state it signalled last | poll, signal | clients show the state in sysfs |
| Graphical client (`cardwire-gui`) | GPU list, modes, settings, log and others | fetch, subscribe, click | the pages show what the daemon has |

The parts meet in the maps and in a handful of locks. Mode control writes
`CW_MODE` and, through the GPUs, `CW_BLOCKED_INO`; the kernel reads both at any
moment, also half way through a transition. Mode requests come from D-Bus
clients, the battery monitor, the display monitor and the start-up; the `Block`
property writes the same inodes without the transition lock. The exec tracepoint
sends events to the analyzer, whose tasks read `/proc` while the process goes
on, and write the pid maps that the exec and exit tracepoints and
`RequestProcessAccess` write too. The getdents64 hooks read the same maps
between two halves of a system call that meet in `CW_DIRENT`. The hooks report
what they block by a second ring, and the client hears of that, of settings and
of the GPUs, whose D-Bus objects come and go, by fetching a state and following
signals. The hard behaviours are therefore interleavings at every await,
failures half way, crashes between two writes, late evaluations and reused pids;
`PROJECT.json` lists them, each at its line.

## Modules

| Module | Models |
| --- | --- |
| `GpuPolicy` | pure: system type, supported and offered modes, which GPUs a mode hides, `launchable` |
| `ModeControl` | mode control, per-GPU block, both monitors, nvidia-powerd, start-up, crash and restart |
| `ModeRegister` | abstract: a mode with two faces, what is enforced and what is published |
| `AccessPolicy` | pure: the decision of the eBPF hooks and the verdict of `evaluate_app` |
| `ProcessAccess` | processes, pid maps, exec events, evaluation tasks, `RequestProcessAccess` |
| `GpuVisibility` | composition of `ModeControl` and `AccessPolicy`: what a process sees, launches through the shim |
| `AppPolicy` | application policies: cache, table, worker, discoveries, `SetAppPolicy`, crash and restart |
| `PolicyStore` | abstract: a table of policies that only users change |
| `InodeSync` | PCI devices that come and go, the GPU list, `refresh_gpu`, the keys of `CW_BLOCKED_INO` one by one, the NVIDIA block; instantiates `GpuPolicy` for the list as it is |
| `DirentScan` | the getdents64 hooks, `CW_DIRENT`, the walk over a buffer and the lengths it leaves; extends `AccessPolicy` |
| `ReportLogger` | blocked accesses from the ring to the history, the signal and the log page |
| `ConfigStore` | settings in memory, kernel and file, the calls that write them, the settings page |
| `GuiMirror` | the daemon's GPU objects as they come and go, their `Block` and power state, the GPU list of the client |
| `MC...` | the instances TLC runs |
| `GpuVisibilityProofs` (of `GpuPolicy`, `ModeControl` and `GpuVisibility`), `ProcessAccessProofs`, `AppPolicyProofs`, `InodeSyncProofs`, `DirentScanProofs`, `ReportLoggerProofs`, `ConfigStoreProofs`, `GuiMirrorProofs` | theorems |

### ModeControl

A handler is cut into steps at the awaits that another task can delay. `task[c]`
is the `internal_set_mode` call of caller `c`: waiting for the lock, applying
one GPU after another in key order, writing `CW_MODE`, committing the mode to
memory and file, sending signals. `blk[g]` is a `set_block` call, `mon` a round
of the display monitor. The keys of one GPU are one entry of `nodes`, the set of
states its keys are in: a singleton unless `sync_inodes` failed between two
keys. A probe of the connectors and `gpu_blocked` may fail: the round or the call is
given up, or the GPU counts as not blocked. A file is its content or `"corrupt"` between `tokio::fs::write`'s
truncation and its write. A crash may come between any two steps: it empties the
maps and keeps the files; `systemd` restarts the daemon.

### ProcessAccess

A step is one access to a map or to `/proc`. An exec is three steps: the new
image is loaded, the tracepoint clears both maps, the tracepoint announces the
pid; the process does not run before the last. A zombie has an empty command
line and an empty environment, which is what the kernel shows for it. An
evaluation checks `CW_ALLOWED_PID`, reads the command line, reads the
environment, inserts; between any two, the process may exec, exit, and its pid
may be reused. Failing insertions stand for full maps. `left.late` counts how
often an exec or exit overtakes an evaluation or a call: `docs/development/smart.md`
(Notes) relies on its not happening, so `GrantsMatchImage` and `DueIsGranted`
speak of states before the first time (`Undisturbed`), `SeesOnlyWithCause` of all.
The variable `may` is a history: the grants that
the recent images of a pid and the requests for it account for.

### GpuVisibility

`Opens(g, ...)` and `Hides(g, ...)` put the inode states and the mode of
`ModeControl` through the decision of `AccessPolicy`, for a process and a parent
with or without grants. Whether a display is lit (`DisplayServed`) is what such a
process opens in the mode in force, not what the keys say: Smart mode hides an open
key too. `LaunchGrant` follows a launch through the shim: the
environment it is given, the verdict on it, the grant.

### AppPolicy

A step is one access to the cache, the table, the queue or the set of pending
discoveries. `task[e]` is an evaluation that missed the cache and is on its way
through `discover_app`, whose signal (`Announce`) may fail to be sent before the
application is pending no more (`Finish`); it missed it before it claims the application, and other
discoveries may begin and end in between. The worker thread is the only one that
inserts rows, so its query and its insertion are one step. `call[c]` is a
`SetAppPolicy` call: it looks into the cache, waits for the policy lock, updates
the row, updates the cache. The table survives a crash, the rest does not. A row
is its policy; that a cached application is not evaluated further is the guard
of `Evaluate`.

### InodeSync

The world adds and removes devices and binds and unbinds their drivers (`bus`);
each bind gives a device new inodes (`gen`), each bind and unbind an event. A
`refresh_gpu` call `ref[r]`, of the udev monitor or a D-Bus client, is cut at its
awaits: snapshot of the devices, comparison with `pci_list`, new `gpu_list`,
reading `mode.json`, `internal_set_mode` and once more with Hybrid if that fails,
collecting what the list has pushed, dropping the rest, finding the NVIDIA target,
writing its map. `tx` is the transition that holds the lock; for each GPU it reads
the inodes, then writes the map. It holds `gpu_list` for reading from the start to
`CW_MODE`, so `Replace` waits for it. `call` is a `set_block` call, which neither
lock stops and whose interface may be one that a refresh has replaced: `beside`
says so. `Outcomes` is `sync_inodes` under the blocker's lock: the stale keys go,
the list is recorded, the new keys are entered, and a failing map write can stop
it at any key. `overlap` and `strays` are histories that the properties use.

Abstractions: one key stands for the card, render, sysfs and hwmon files of a
device, because they appear and go with its driver and are written in one loop;
the parent bridge, written in the middle of them, is a second key and shared. The integrated GPU is
always there, is the default and has id 0, the others follow by address.
`auto_apply_gpu_state` is off, no display is connected. An NVIDIA GPU has its
device files whenever a target is found.

### DirentScan

A thread is in user space, in the kernel between the two hooks, or in the walk
of the second one, which takes a step per record (`Show`, `Hide`, `Stop`,
`Fail`), because the maps may change between two records. The kernel's buffer is
a sequence of entries with the offset of each; `reclen` are the lengths as the
reader will find them, and hiding adds a length to another one, in 16 bits
(`Word`). An entry stands for what its key has in `CW_BLOCKED_INO`. A failing
read and a failing write of user memory end the walk alike. `calm`, `gone` and
`cause` are histories.

### ReportLogger

A pid is recorded at most once, so an entry is its pid, and `log` is every entry
ever made; `report_vec` is its end. The reader holds one event while it waits for
a permit. A task looks the process up, records it under the lock, and signals
without it; the emission may fail (`lost`). The client copies the history, gets the
reply, subscribes, and its update loop handles one message per step. A signal reaches
a subscribed client at once and waits in `inbox`. The daemon does not restart here.

### ConfigStore

A value is the number of the write that stored it, so that two writes of one
value are told apart. A call is cut at its awaits: waiting for the interface,
memory, kernel, save lock, temporary file, rename, signal and answer. zbus gives
a `&mut self` setter the interface to itself and lets `&self` methods share it;
it signals what the getter returns at that moment. The client's proxy caches the
last value it heard of, passes on a property that changed, and a click's answer
arrives on another connection, hence at any later time. The page may be opened while
the daemon is down: its getters then fail, each failure is only a warning, and nothing
fetches again (`FetchFails`). They answer from the one cache of the proxy, so they
fail together. Whether that cache, and with it the signals, comes to life when the
daemon does is zbus's matter and left open: the client is `"live"` or `"deaf"`.

### GuiMirror

`daemon` removes and serves the GPU objects in the order of their ids, at the
start-up and in a refresh, and each object sends its signal. A device is the
number of the list it belongs to, so that an id taken over by another device is
told apart. `client` is `gpu_sub`, cut at its calls: the ids and their `Block`
values in one answer (`get_managed_objects`), one `get_device` per id, the
subscriptions to `InterfacesAdded` and then `InterfacesRemoved`, the ids once
more, then for each the power state and its streams (`ReadPower`, `Listen`). The
loop handles any stream that has something. What `gpu_sub` sends to `AppState`
arrives in order, so sending and handling are one step. `history` records the
cases the properties exempt. A watcher of the power state that ends early, because it
cannot parse or signal a state, is one that does not `Poll` any more.

Abstractions: a block changes and is signalled later, whoever changes it; which
changes there are and which of them fail is `ModeControl`'s matter, and the user's
clicks and the available modes are left out. The daemon does not end once it runs.

## What the runs show

Passing runs:

| Run | Question | Instance |
| --- | --- | --- |
| `mode_faults` | do overlapping requests, a failure half way and a crash keep mode, inodes and `mode.json` consistent, does every process open the default GPU in every state, do mode and grants decide what a process sees, does a launch reach its GPU and no other? also: the refinement of `ModeRegister` | 1 client, battery, display monitor, 2 requests, 1 fault, 1 crash, 1 plug |
| `mode_manual` | can anything hide the default GPU in Manual mode, do overlapping `Block` calls lose a saved state? | 3 GPUs, saved states applied, 2 requests, 1 fault, 1 crash, 1 plug |
| `mode_live` | does the daemon serve from every persisted mode, do requests return, does a process without a grant come to open the GPU of a display, get offload GPUs hidden again? | fairness, display monitor, 1 request, 1 fault, 1 plug |
| `access` | does anything see the offload GPU without a cause, does a pid at rest hold what its image is due and nothing else? | 2 pids, 3 images, 2 execs, 1 request, 1 fault, 1 evaluation or call overtaken, ring of one event |
| `app_policy` | do cache, table and pending set stay consistent, does the table keep what users decided, do discoveries end? also: the refinement of `PolicyStore` | fairness, 2 binaries of one desktop file, 2 discoveries, 2 calls, queue of one, 1 fault, 1 crash |
| `inode_sync` | does a key ever lose its owner, do list, mode, map and NVIDIA block follow the devices, can anybody wait for ever? | 3 devices, 2 behind one bridge, 1 of NVIDIA, monitor and client, 2 hotplug steps, 1 request (mode, block or refresh), 1 failure |
| `dirent` | does a reader meet exactly what is not hidden, does a calm listing show what can be opened, is anything left behind or cut short? | 3 threads, one exempt, map for 1 call, buffers of up to 4 records, too large and malformed ones, 2 changes, 1 fault |
| `reports` | is a process recorded and listed once, does the log page miss anything it should have, is what the ring took recorded? | fairness, 3 pids, ring of 2, 2 permits, histories of 2, 4 blocked accesses, 1 death |
| `gui` | does the client's list follow the GPU objects through a hotplug and the start-up, and show their blocks and power states? | 2 GPUs, one with a watcher, 1 hotplug, 1 change of a block, 1 of a power state, the client started before, during or after the daemon |
| `settings` | is what was answered saved, do memory, kernel and file agree between calls, does the settings page show them? | 2 settings, 2 calls, 3 writes, 2 faults, 1 crash, read-only or not, broken file or not |

The bounds are small because the hazards are: two requests overlap, one failure
or crash falls between any two of their steps, two pids are a parent and a
child or a pid and its reuse, two execs are one whose evaluation is late and one
that replaces it, two permits, a ring of two and histories of two are full while
a third report comes, two calls are two saves that overlap, three writes are a
click, one that follows it and one that repairs it, two hotplug steps are a
device that comes or goes while the refresh for another change is under way. In
`gui` the hotplug takes both GPUs away and serves up to two, one by one, while the
client fetches and subscribes at any point, and a block and a power state change
in between. More of each repeats these situations.

Deadlock is not checked by TLC itself where the configuration says so: requests,
hotplug steps, execs and failures are bounded, so the models stop when the bounds
are used up. `NoDeadlock` of `inode_sync` says what TLC's check would: until
everything is idle the daemon can take a step.

Some runs are expected to fail: each checks a sentence of the documentation or a
comment that the code does not keep, and the counterexample is the shortest
history that shows it (`findings` in `PROJECT.json` quotes the sentences).

| Run | The code ... |
| --- | --- |
| `claim_restored` | ... stays in Hybrid after the display of an override is gone |
| `claim_mirror` | ... overwrites a user's Allowed in the cache with Blocked |

The models also contain, without a run of their own, more places where the code
departs from what is written about it: with two of three GPUs visible, a launch
on GPU 2 is forced to GPU 1 (`switcheroo.rs:116`, against
`docs/development/dbus/switcheroo.md:58`; the launch properties are checked with
two GPUs); the display monitor can restore a mode that a request has replaced
meanwhile (`monitor_display.rs:92`) and can rewrite a `mode.json` that a request
is still writing (same line, against `monitor_display.rs:50`); a switch to
Manual can apply an older saved state over a newer block (`gpu.rs:220`); an override
that fails after it has unblocked the GPU (`mode.rs:199`) leaves Smart mode in force,
which hides the GPU whatever its keys say, and no arm of the monitor is for a GPU that
is active and not blocked, so the display stays dark until the mode is changed
(`monitor_display.rs:86`; `LeftHalfOpen`); the monitor does not repair a GPU with one
key blocked either, as `gpu_blocked` looks at some keys only (`gpu.rs:144`); the
detached nvidia-powerd tasks of two mode changes can run in either order
(`mode.rs:107`); `CARDWIRE_ALLOW=0` ends the evaluation instead of falling
through (`analyzer/models.rs:301`); a `Block` call accepted in Manual mode can
block a GPU after Hybrid unblocked all (`gpu.rs:184`); an evaluation that an exec or
the end of its process overtakes still inserts its grant, also for a dead pid
(`analyzer/models.rs:202`); an
application that shares its desktop file with another has a cache entry and no
row, so it can never be allowed (`smart.rs:176`); `RequestProcessAccess` fails
for a process that is in neither map, against
`docs/development/dbus/smart-policy.md:17`, because it removes it from the other
one first (`smart.rs:60`). In `InodeSync`: `docs/development/dbus/debug.md:25`
promises a full enumeration and the current mode, but a refresh does nothing
when the PCI list compares equal, as after an unbind and a bind that were both
missed (`debug.rs:125`; `Noticed`), and it re-applies the persisted mode, read
before it waits for the lock (`debug.rs:205`); of two overlapping refreshes the
slower one puts its older snapshot back (`debug.rs:123`; `overlap`); a
`set_block` call on a replaced interface and an aborted refresh leave keys that
nobody removes (`debug.rs:145`, `debug.rs:188`; `strays`); the tracking key of
the default GPU can be dropped when a change to Smart comes between reading the
claims and dropping (`debug.rs:100`); two GPUs behind one bridge share its key,
and the later writer decides for both (`gpu.rs:118`). In `AccessPolicy`: a forced
child of an allowed process sees every GPU (`helpers.rs:185`), and a child loses its
parent's grant when the parent exits. `GrantDecides` does not speak of these: it takes
one grant at a time, the process's own or its parent's. In `ReportLogger`: `reported_pids` is never emptied, although its
comment speaks of pids seen recently (`analyzer/models.rs:232`); the log page
subscribes after it has fetched, so it misses what is recorded and signalled in
between (`subscription.rs:608`), and `ListsSignalled` promises nothing of what is
recorded in between, signalled then or later; a signal whose emission fails is lost
(`analyzer/models.rs:461`); a process that reuses a reported pid is never
reported. In `ConfigStore`: a setter that fails leaves the new value in memory,
and the next save of any setting writes it (`config.rs:109`); the answer to a
click can arrive after the signal of a later write and set the page back
(`app.rs:310`); a page opened while the daemon is down shows its own defaults until
each setting is written again, or for good (`subscription.rs:194`; `ShowsDaemon`
exempts the settings not written since, and a deaf client). In `GuiMirror`: the client fetches its list
(`subscription.rs:334`) before it subscribes to the signals by which a hotplug
"is picked up" (lines 345-346, `docs/development/dbus.md:16`), so it misses what
comes or goes in between (`history.missed`); started before the daemon it ends
its GPU subscription for good (lines 380-390, `"ended"`), while the tray says
"reconnecting…" (`tray.rs:67`); a power state that changes between the client's
reading and its subscription may not be shown until the next change (line 516,
`history.raced`). Outside the models, the answer to a click on a GPU can undo a
later change in the list (`app.rs:370`), and an error half way through a change
of the block is not signalled (`gpu.rs:110`). In `DirentScan`: entries at the
head of a buffer cannot be hidden (`helpers.rs:401`), a record above 512 bytes
ends the walk (`helpers.rs:378`), and with 1024 calls under way the next one is
not filtered (`maps.rs:95`).

## Fairness

Weak fairness of a handler's next step: the tokio runtime polls every task that
is ready. Strong fairness for taking the transition lock and `gpu_state`:
tokio's locks are fair queues, so a waiter is not overtaken for ever; so is the
lock of `mode_state`, for which the display monitor waits (`SF_vars(MonMode)`).
Boot and exit: the unit has `Restart=on-failure`. The worker's channel and the
policy lock are fair queues too. The monitor looks at each card again: it has a
retry timer. The lookup of a report ends by its timeout, and tokio's semaphore is
a fair queue. Nothing is assumed of users, cables, power sources, failures or
crashes.

## Proofs

All for every value of the constants that the modules' `ASSUME`s allow: for
`ModeControl` every set of GPUs and clients with `GpuAssumption` and
`CallerAssumption` (keys are naturals, key 0 is available if any GPU is, the
callers' names differ), for `ProcessAccess` every set of pids, images and callers
with `AccessAssumption`, for `AppPolicy` every set of applications and callers
with `PolicyAssumption`, for `InodeSync` every finite set of devices, any of them
behind the bridge, every set of refreshers and all bounds (`SyncAssumption`), for
`DirentScan` every set of threads, sizes of headers and buffers and every buffer
the kernel may return (`DirentAssumption`), for `ReportLogger` every set of pids and
every size of the ring, the semaphore and the histories with `ReportAssumption`, for
`ConfigStore` every set of settings and calls (`ConfigAssumption`), for `GuiMirror`
every number of GPUs and set of power states (`GuiAssumption`).

`GpuVisibilityProofs`, of `GpuPolicy`: the eBPF programs decode every mode number the daemon
writes; a mode is offered if and only if it is supported; Integrated and Smart
hide exactly the offload GPUs and never the default one.

Of `ModeControl`: `Spec => []TypeOK`, the safety properties
`KernelMatchesReported`, `DefaultNeverBlocked` and `ReportedIsOffered`, the
action property `OverrideNotPersisted`, and that `ModeControl` implements
`ModeRegister`. None of them is inductive: that the
kernel's mode is the reported one after a step depends on who holds the lock and
how far it is, that the default GPU stays open on what the calls under way
intend. The inductive invariant `IInv` adds
  - `LockDiscipline`: the lock holder, and nobody else, is inside a transition;
    before the daemon serves only the start-up call exists;
  - `FacesAgree`: after writing `CW_MODE` a call's mode is the kernel's, after
    committing it is the reported one, and outside that window the two agree;
  - `IntentsAllowed`: what a call will hide is never the default GPU, and a
    mode being applied is supported.

`SavedStatesComplete` and `OffloadHiddenAsReported` speak of a daemon in which
nothing has failed yet. Faults are only spent (`FaultsOnlySpent`), so a state
without one was reached without one. The first then follows from
`SavedConsistent`: while the daemon runs the file is what is in memory or what
the one call that holds the `gpu_state` lock is about to write. The second needs
that on a laptop nobody but a transition touches a node (`OnlyTransitionsTouch`:
Block calls and the unblocking arm of the display monitor belong to Manual mode,
which a laptop is not offered), and what a transition has done so far
(`HidesAsDecided`): the GPUs it has dealt with are as its mode says, before and
after it all are.

The proofs go action by action; `CallerFacts` collects what is used about
callers' names, `OtherSteps` treats the actions that touch none of the variables
of a part.

Of `GpuVisibility`: `DefaultOpens`, from `IInv`: no key of the default GPU is
blocked, and `is_inode_blocked` hides an inode that is not blocked from forced
processes only. `GrantDecides` follows from `OffloadHiddenAsReported` and
`KernelMatchesReported`: every key of the offload GPU is blocked and the kernel's
mode is the reported one, so the hook's answer is a matter of the grants alone.
The launches need what a launch is granted (`ForcedByLaunch`, `DefaultUnforced`):
nothing that is opened beside the chosen GPU. `LaunchReachesGpu` is proved where
the GPU that the shim calls 1 is the one that was chosen (`OffloadIsOne`), and
without a proviso where no GPU but 0 and 1 is available (`LaunchesReachOnTwo`).
The proviso is not one of the proof: `compute_switcheroo_env` counts the GPUs and
writes `CARDWIRE_FORCE_DGPU=1` for a discrete one of two, whatever its number
(`switcheroo.rs:116`, `core/env.rs:34`), and with the GPUs 0 and 2 TLC finds the
launch on 2 that does not open it. `LaunchIsolates` needs that in Smart mode the
default GPU is in the map (`SmartTracksDefault`), as only tracked inodes are hidden
from a forced process, and that Smart is a laptop's: the other GPU is the default.

`ProcessAccessProofs`: the three properties of `access`; `SeesOnlyWithCause`
without any assumption on how late an evaluation may be. The invariant
`AccountInv` says that entries, evaluations and calls hold only what the history
`may` of their pid accounts for. The hard case is an evaluation overtaken by an
exec: it has the policy of the old program's name and reads the environment of
the new one. Lemma `MixedVerdict` shows that its verdict is one that the old
policy gives without a variable or one that the present image accounts for, and
`may` keeps the old grants while an evaluation of the pid is in flight.
`GrantsMatchImage` is not inductive because it says nothing of a pid that is not
at rest: while nothing was overtaken, what is in flight is about a running image
whose exec hook has ended (`RunsInFlight`) and carries what that image is due
(`TasksFit`), and a pid that starts anew has no entry left (`EntriesFit`).
`DueIsGranted` needs that an event or evaluation carries the mode its image was
announced in and that what is due is there or on its way (`TasksNoted`,
`DueComes`); an evaluation that stops because the pid is allowed already has
then nothing to add, as `evaluate_app` answers with one grant at most
(`EntriesDue`, `OneDue`).

`AppPolicyProofs`: `AllowedByUser`, `KnownAppsCached`, `OneRequestPerApp`,
`AnnouncedAreStored` and `OneRowPerDesktopFile`, and that the table implements
`PolicyStore`. The invariant `PolicyInv` adds
  - `CallsConsistent`: the policy lock has one holder, and a call between its
    writes finds the row as it wrote it;
  - `TasksConsistent`: a discovery is pending from its claim to its end, mirrored
    before it is sent, stored before it is announced, and none outlives a crash;
  - `WorkConsistent`: worker and queue hold waiting discoveries, each once.

`InodeSyncProofs`: `KeysOwned`, that a key in the map is in the pushed list of a
listed GPU or still to be judged by a refresh, unless it is a stray. `SyncInv`
adds
  - `NothingHeld`: a refresh has old keys in hand only between taking them and
    dropping them, so ending it anywhere else loses none;
  - `BindsBounded`: generations stay among the keys of the model.

The argument is that `sync_inodes` records before it enters (lemma
`OutcomeFacts`): whatever map write fails, a key of the map is recorded or was
another's. A key taken by a refresh is judged by it: collecting the claims puts
each key either among them, and then it is in a pushed list, or among those to
drop (`WillJudge`). `NvidiaFollowsList`, `ModeFitsBus` and `MapFollowsHotplug`
are proved for runs in which nothing fails and refreshes do not overlap, any
number of hotplugs, transitions and calls included. One refresh is then under
way at most, and it waits while its own transition runs (`NvidiaInv`). `FitInv`
follows the readings of the bus: none is ahead of it, each is right where the
device has not been bound again since (`Reads`), and the latest is right about
everything once every event has led to one (`EventsHandled`). A mode is
supported unless a refresh is about to apply one, or the list is out of date
(`ModeFits`): a transition that fails without a fault has met a GPU whose driver
has gone, and Hybrid, to which a refresh falls back, is never refused. `MapInv`
says in the same way what the map owes the devices: the keys of every GPU but
the default one are recorded and in the map as the mode says, unless a refresh
is about to apply one, the list is out of date, or a transition is at work; that
owes it, in its own mode, for the GPUs it has dealt with (`TxEntered`), so what
it commits is true. What a refresh has collected includes these keys, so `Drop`
takes none (`ClaimedKept`).

`DirentScanProofs`: the three properties of `DirentScan` that are checked, and
`BoundNeverCuts`. `ScanInv` says of a walk that the records between the last
visible one and the cursor are merged into it (`LengthInv`: its offset plus its
length is the cursor's offset), that those before it lead from one that stays to
the next, and that those after the cursor are as the kernel wrote them. A merged
length fits in its word because it lies within the buffer; `MAX_DIRENTS`
iterations suffice because record `c` begins at `Header * (c - 1)` or later
(`CursorInv`). `CalmListsWhatOpens` adds that every judgement of a calm walk was
made by the present maps, and that a calm call that left no entry was exempt or
in Hybrid mode.

`ReportLoggerProofs`: `ListedOnce` and `ListsSignalled`. A pid is at one place of
its way only (`OnePlace`), so the log has it once; the client's list is a part that
was fetched and a part that was signalled, each without a repetition, and what is
in both was not signalled at the fetch (`Listing`, `Stages`). That nothing due is
missing is `Reaches`: an entry is shown, on its way, lost, or the list is full. That the
newest entry is never among what a full list dropped is the semaphore's doing:
behind it on the way to the client are at most the entries of the other permits
(`PermitsHeld`, `Leads`), and the list is longer than that (`ReportAssumption`).

`ConfigStoreProofs`: `AnsweredIsSaved`, `SettledAgree` and `ShowsDaemon`. That the answered value
is in the file is not inductive: it needs that the save lock has one holder, that
the snapshot of a call is no older than its own write and than the file, and
that a setter with the interface to itself has its number in memory until it
answers. `Grows`, `Reached`, `Locked` and `OnItsWay` say this by the place of the
call; the module's `IInv` is their conjunction. For the client (`Heard`): what memory
holds is still to be signalled, or signalled and not handled, or shown (`Follows`);
an answer to a click says what memory holds (`Clicks`), unless the setting is one
that the client may have missed, as all are after a first fetch that failed; and a restart brings back what was there (`Restarts`).

`GuiMirrorProofs`: `ListsBus`, `ShowsBlock` and `ShowsPower`. Settled states are a
few of many, so the invariant says at each place of `gpu_sub` what it owes. While no
signal waits, what is fetched and what is still to be fetched make up the objects on
the bus, and then the list does (`Listing`); the streams and the ids still to be
listened to do as well (`Streaming`). A change of the objects either is heard, and
then the client will not settle before it has fetched again, or is `missed`
(`ChangesIs`); once it hears both signals (`Hearing`) nothing is missed any more. Of a
current stream the cached property is the daemon's or a signal is owed, and what is
shown is the cached one or it changed (`Blocks`); the last power signal waiting is the
watcher's last, and with none waiting the shown state is, unless it was `raced`
(`Powers`). None of this needs the daemon to be at rest.

Proved and not in a run of their own, because each is a part of what one checks
or was checked while the proof was made: `TypeOK` of every proved module,
`ReportedIsOffered`, the inductive invariants, `OneRequestPerApp` (of the
requests that wait, are queued or are processed), and `BoundNeverCuts` (of the
walk's `MAX_DIRENTS`, for every size of header and buffer).

### Progress

The liveness properties of `mode_live`, `app_policy` and `reports` are theorems too, and
so is what `inode_sync` comes to in the end.
`WF` and `SF` are defined by `ENABLED`, for which TLAPS has no rule, so the proofs
state fairness by guards: `GuardFairness` is `Fairness` with a state predicate in
the place of each `ENABLED <<A>>_vars`, for example "whenever the next step of a
transition can be taken, it is taken some day". That each of these predicates is
equivalent to the `ENABLED` it stands for TLC found on the runs' instances; this
equivalence is the one fact of these theorems that is model-checked only.

Where the argument is an induction over a number that is not bounded by a constant
(GPUs left to apply, places ahead in a queue, failures left), the theorem has a
hypothesis such as `SizesFormSets`, `BoundsFormSet` or `PlacesFormSets`: the numbers
for which a certain "eventually" holds form a set, which then has a least member
(lemma `LeastNumber`). Every behaviour satisfies it, as there is a set of the
natural numbers with any property; it is a hypothesis because TLA+ builds no set
from a temporal formula.

`ModeControl`: a loop over GPUs ends because what is left of it shrinks with every
step (`LoopShrinks`); the transition lock comes back whatever fails, so a caller that
waits for it gets it (strong fairness), and its call ends (`EasyReturn`). A
`Block` call holds `gpu_state` only while it writes the file, one at a time
(`OneWriterHolds`), and calls that follow are bounded, so a call for Manual mode
gets its turn as well (`EveryRequestReturns`; on a laptop without any hypothesis on
sets, `LaptopRequestsReturn`). Failures, stops and requests are bounded by the
model's `left`; after the last (`Settles`) a start-up that cannot apply the
persisted mode falls back to Hybrid, which every system supports, and the daemon serves (`AlwaysServesAgain`); the monitor looks at each GPU again and again
(`MonitorGoals`), finds the lock free and repairs what is left to repair
(`DisplaysGetLight`, `OffloadIsHiddenAgain`). A display that is not lit and not
exempt is veiled by the mode in force (`Veiled`), and between transitions every key of
its GPU is blocked then (`UnseenIsDark`), which is what the monitor looks for. Its
override opens the keys one GPU after another and the mode last: in between the GPU is
neither dark nor lit, and only a transition on its way to Hybrid brings it there
(`DarkOpens`), which goes on to write the mode (`UnveilingGoesOn`). The attempt to
prove `OffloadIsHiddenAgain` found
its exception: after a request that failed to commit, one that failed to save and a
third fault, `mode.json` can hold a mode that this hardware refuses, and then the
monitor's repair is refused for good. The property says so (`~Supported(Parsed(modeFile))`).
The proof also showed which fairness the monitor needs of the lock of `mode_state`:
that a reader that waits is not overtaken for ever (`SF_vars(MonMode)`).

`AppPolicy`: a discovery that is pending has a waiting task, a place in the queue or
the worker (`AttendedHolds`); each step of the worker brings it nearer and nothing
puts it back, so it ends, stored or given up (`DiscoveryAlwaysEnds`).
`ReportLogger`: a report that has a permit is recorded, by its lookup or by the
lookup's timeout (`TakenIsRecorded`); therefore permits come back and what is in the
ring is taken, oldest first (`QueuedAlwaysRecorded`).

`InodeSync`: `StepPossible` is `NoDeadlock` without `ENABLED`. `After` names a next
state by the present one alone (the call goes on, else the transition, else the user
that waits, else a refresh, else the next event is taken), and the theorem says that
a step there, where `Quiet` does not hold, is one of `Daemon` and changes something.
That the daemon also ends what it began is `AlwaysComesToRest`: every step makes
`Measure` smaller (`MeasureFalls`), which counts the places a refresh has still to go,
what is left of the transition that runs, the events to handle, and the
hotplugs, requests and failures still to come; a refresh that begins costs more than it
adds, because its event or request is gone. So the measure stands still some day, and
with it the daemon, which by its fairness (`DaemonGoesOn`, with `Quiet` in the place of
`~ENABLED`, which `StepPossible` justifies) is then `Quiet`. The bounds of hotplugs and
requests make it a statement about what follows the last of them, for every
number of them. With the invariants, `AlwaysEndsConsistent` says how it ends.

Model-checked only: `NoDeadlock` in its own words, which use `ENABLED` (what it says is
`StepPossible`), and the equivalence of guards and `ENABLED` above. Every other property
of a passing run is a theorem.

## Not modelled

The probes of GPUs and PCI devices (sysfs, EGL, Vulkan: their result is
`GpuAssumption` or the list of `InodeSync`), the choice of the default GPU,
parsing of desktop files and command lines, the D-Bus payloads, the loader of
the eBPF programs, the generated kernel types (which are most of the
repository's lines), the command line client, and of the graphical client the
current and the available modes, clicks on a GPU, the applications page, the
tray, the window and the drawing. Threads of a process are not told apart. What
zbus does (the lock around an interface, the value it signals, the cache of a
proxy) and what the kernel and the disk do are modelled from how the code uses
them; that a rename survives a loss of power, which the directory is not synced
for, is not modelled.

## Plan

1. Done: the core (`GpuPolicy`, `ModeControl`, `ModeRegister`, `AccessPolicy`,
   `ProcessAccess`, `GpuVisibility`), `AppPolicy`, `PolicyStore`, `InodeSync`,
   `DirentScan`, `ReportLogger`, `ConfigStore`, `GuiMirror`, and the proofs above.
2. `DefaultGpu`: the choice of `check_default_drm_class` as an operator, and in
   `InodeSync` a default GPU that changes with the list.
3. In `GuiMirror`: the modes, the clicks on a GPU and the applications.
4. Threads in `ProcessAccess` (`main.rs:521`).
