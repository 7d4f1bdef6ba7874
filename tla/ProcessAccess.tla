--------------------------- MODULE ProcessAccess ---------------------------
(***************************************************************************)
(* Which process may see which GPU in Smart and Manual mode: processes that  *)
(* fork, exec and exit, the tracepoints that clear the two pid maps and      *)
(* announce an exec, the analyzer that evaluates each announced pid in a     *)
(* task of its own, and RequestProcessAccess, which writes the same maps.    *)
(*                                                                          *)
(* The kernel, the analyzer's tasks and the D-Bus calls run at the same      *)
(* time: a step is one access to a map or to /proc.  Pids are reused.        *)
(***************************************************************************)
EXTENDS AccessPolicy, FiniteSets, Sequences, Functions

CONSTANTS
  Pid,         \* process ids
  Reaper,      \* the parent of processes whose parent exited, never granted
  Image,       \* programs, each with its environment
  Env,         \* Env[i]: the CARDWIRE_ variables of i
  AppAllowed,  \* the programs whose policy is Allowed
  Whitelist,   \* programs whose comm is in CW_ALLOWED_COMM
  OffloadGpu,  \* the GPU Smart mode hides
  Modes,       \* the modes the system is switched between
  Callers,     \* D-Bus callers of RequestProcessAccess
  RingSize,    \* capacity of CW_EXEC_EVENTS
  MaxExecs,    \* bound: execs
  MaxLate,     \* bound: execs and exits that overtake an evaluation or a call
  MaxRequests, \* bound: calls of RequestProcessAccess
  MaxFaults    \* bound: inserts that fail

EnvValue == {Absent} \cup 0..2

ASSUME AccessAssumption ==
  /\ Reaper \notin Pid
  /\ Env \in [Image -> [allow: EnvValue, forceDgpu: EnvValue, forceGpu: EnvValue]]
  /\ AppAllowed \subseteq Image /\ Whitelist \subseteq Image
  /\ OffloadGpu \in Nat \ {0}
  /\ Modes \subseteq {"integrated", "hybrid", "manual", "smart"}
  /\ {RingSize, MaxExecs, MaxLate, MaxRequests, MaxFaults} \subseteq Nat

VARIABLES
  mode,     \* what the programs read from CW_MODE
  proc,     \* the kernel's processes
  allowed,  \* the keys of CW_ALLOWED_PID
  forced,   \* CW_FORCED_PID
  ring,     \* CW_EXEC_EVENTS
  task,     \* the evaluations in progress
  req,      \* the RequestProcessAccess calls in progress
  left,     \* what is left of the bounds
  may       \* history: the grants that p's images and requests account for

vars == <<mode, proc, allowed, forced, ring, task, req, left, may>>
mapVars    == <<allowed, forced>>
daemonVars == <<ring, task, req>>

-----------------------------------------------------------------------------
Grant == {AllGpus, OffloadGpu} \cup 0..2
Slot  == 1..MaxExecs

(* told: the mode an exec of the current image was announced in.             *)
ProcState == [st: {"free", "run", "zombie"}, img: Image, parent: Pid \cup {Reaper},
              hook: {0, 1, 2}, told: {"no", "manual", "smart"}]
TaskState == [pc: {"none", "check", "name", "environ", "insert"}, pid: Pid \cup {Reaper},
              smart: BOOLEAN, app: Image, grant: Grant]
ReqState  == [pc: {"idle", "other", "insert"}, pid: Pid \cup {Reaper}, grant: Grant,
              answer: {"none", "ok", "error"}]

AnyImage == CHOOSE i \in Image : TRUE
Free   == [st |-> "free", img |-> AnyImage, parent |-> Reaper, hook |-> 0, told |-> "no"]
NoTask == [pc |-> "none", pid |-> Reaper, smart |-> FALSE, app |-> AnyImage, grant |-> AllGpus]
NoReq  == [pc |-> "idle", pid |-> Reaper, grant |-> AllGpus, answer |-> "none"]

TypeOK ==
  /\ mode \in Modes
  /\ proc \in [Pid -> ProcState]
  /\ allowed \subseteq Pid
  /\ DOMAIN forced \subseteq Pid /\ Range(forced) \subseteq Grant \ {AllGpus}
  /\ ring \in Seq([pid: Pid, smart: BOOLEAN]) /\ Len(ring) <= RingSize
  /\ task \in [Slot -> TaskState]
  /\ req \in [Callers -> ReqState]
  /\ left \in [request: Nat, fault: Nat, exec: Nat, late: Nat]
  /\ may \in [Pid -> SUBSET Grant]

Spend(budget) == left[budget] > 0 /\ left' = [left EXCEPT ![budget] = @ - 1]

InFlight(p) ==
  \/ \E i \in DOMAIN ring : ring[i].pid = p
  \/ \E n \in Slot : task[n].pid = p
  \/ \E c \in Callers : req[c].pc # "idle" /\ req[c].pid = p

(* What p does next comes after its evaluations and calls, or overtakes them. *)
Ends(p, budget) ==
  IF InFlight(p) THEN /\ budget.late > 0
                      /\ left' = [budget EXCEPT !.late = @ - 1]
                 ELSE left' = budget

(* Everything an image can be granted: its policy also answers for it once    *)
(* its environment is gone.                                                  *)
Grants(i) == UNION {Verdict(e, i \in AppAllowed, s) : e \in {Env[i], NoEnv}, s \in BOOLEAN}

(* The history forgets p's past when nothing of it is under way.              *)
Account(p, grants) ==
  may' = [may EXCEPT ![p] = IF InFlight(p) THEN @ \cup grants ELSE grants]

Init ==
  /\ mode \in Modes
  /\ \E p \in Pid, i \in Image :
       /\ proc = [q \in Pid |-> IF q = p THEN [Free EXCEPT !.st = "run", !.img = i] ELSE Free]
       /\ may = [q \in Pid |-> IF q = p THEN Grants(i) ELSE {}]
  /\ allowed = {}
  /\ forced = <<>>
  /\ ring = <<>>
  /\ task = [n \in Slot |-> NoTask]
  /\ req = [c \in Callers |-> NoReq]
  /\ left = [request |-> MaxRequests, fault |-> MaxFaults, exec |-> MaxExecs,
             late |-> MaxLate]

-----------------------------------------------------------------------------
(* The kernel                                                                *)

Running(p) == proc[p].st = "run" /\ proc[p].hook = 0

(* A fork copies no map entry and is not announced. *)
Fork(p, q) ==
  /\ Running(p)
  /\ proc[q].st = "free"
  /\ proc' = [proc EXCEPT ![q] = [Free EXCEPT !.st = "run", !.img = proc[p].img, !.parent = p]]
  /\ may' = [may EXCEPT ![q] = @ \cup Grants(proc[p].img)]
  /\ UNCHANGED <<mode, mapVars, daemonVars, left>>

ExecLoad(p, i) ==
  /\ Running(p)
  /\ left.exec > 0 /\ Ends(p, [left EXCEPT !.exec = @ - 1])
  /\ proc' = [proc EXCEPT ![p].img = i, ![p].hook = 1, ![p].told = "no"]
  /\ may' = [may EXCEPT ![p] = @ \cup Grants(i)]
  /\ UNCHANGED <<mode, mapVars, daemonVars>>

(* try_tracepoint_sched_process_exec, which ends before the new image runs.   *)
HookOrder_NotifyFirst == <<"notify", "clear">>
HookOrder == <<"clear", "notify">>

InHook(p, step) == proc[p].hook > 0 /\ HookOrder[proc[p].hook] = step
Advance(p, told) ==
  proc' = [proc EXCEPT ![p].hook = (@ + 1) % 3, ![p].told = told]

ClearMaps_Allowed(p) == allowed' = allowed \ {p} /\ UNCHANGED forced
ClearMaps_Nothing(p) == UNCHANGED mapVars
ClearMaps(p) ==
  /\ allowed' = allowed \ {p}
  /\ forced' = Restrict(forced, DOMAIN forced \ {p})

HookClear(p) ==
  /\ InHook(p, "clear")
  /\ ClearMaps(p)
  /\ Account(p, Grants(proc[p].img))
  /\ Advance(p, proc[p].told)
  /\ UNCHANGED <<mode, daemonVars, left>>

(* Whitelisted programs are not announced, and a full ring loses the event.   *)
Announced(p) == mode \in {"smart", "manual"} /\ proc[p].img \notin Whitelist

HookNotify(p) ==
  /\ InHook(p, "notify")
  /\ \/ /\ Announced(p) /\ Len(ring) < RingSize
        /\ ring' = Append(ring, [pid |-> p, smart |-> mode = "smart"])
        /\ Advance(p, mode)
     \/ /\ ~Announced(p) \/ Len(ring) = RingSize
        /\ UNCHANGED ring
        /\ Advance(p, "no")
  /\ UNCHANGED <<mode, mapVars, task, req, left, may>>

(* The environment goes with the address space, the pid stays until it is     *)
(* reaped; children get another parent.                                       *)
Exit(p) ==
  /\ Running(p)
  /\ Ends(p, left)
  /\ ClearMaps(p)
  /\ Account(p, {})
  /\ proc' = [q \in Pid |->
       IF q = p THEN [proc[p] EXCEPT !.st = "zombie", !.told = "no"]
       ELSE IF proc[q].parent = p THEN [proc[q] EXCEPT !.parent = Reaper] ELSE proc[q]]
  /\ UNCHANGED <<mode, daemonVars>>

Reap(p) ==
  /\ proc[p].st = "zombie"
  /\ proc' = [proc EXCEPT ![p] = Free]
  /\ UNCHANGED <<mode, mapVars, daemonVars, left, may>>

SwitchMode(m) ==
  /\ mode' = m /\ m # mode
  /\ UNCHANGED <<proc, mapVars, daemonVars, left, may>>

-----------------------------------------------------------------------------
(* The analyzer                                                              *)

(* There is a slot for every exec.                                            *)
TakeEvent ==
  /\ ring # <<>> /\ \E n \in Slot : task[n].pc = "none"
  /\ LET n == CHOOSE n \in Slot : task[n].pc = "none"
     IN  task' = [task EXCEPT ![n] = [NoTask EXCEPT !.pc = "check", !.pid = Head(ring).pid,
                                                     !.smart = Head(ring).smart]]
  /\ ring' = Tail(ring)
  /\ UNCHANGED <<mode, proc, mapVars, req, left, may>>

(* spawn_exec_analyzer *)
Check(n) ==
  /\ task[n].pc = "check"
  /\ task' = [task EXCEPT ![n] = IF task[n].pid \in allowed THEN NoTask ELSE [@ EXCEPT !.pc = "name"]]
  /\ UNCHANGED <<mode, proc, mapVars, ring, req, left, may>>

(* A zombie's cmdline is empty, a free pid has none.                          *)
ReadName(n) ==
  /\ task[n].pc = "name"
  /\ LET p == task[n].pid
     IN  task' = [task EXCEPT ![n] = IF proc[p].st = "run"
                                     THEN [@ EXCEPT !.pc = "environ", !.app = proc[p].img]
                                     ELSE NoTask]
  /\ UNCHANGED <<mode, proc, mapVars, ring, req, left, may>>

(* evaluate_app; a zombie's environ is empty but can be read.                 *)
Environ(p) == CASE proc[p].st = "run"    -> {Env[proc[p].img]}
                [] proc[p].st = "zombie" -> {NoEnv}
                [] OTHER                 -> {}

ReadEnviron(n) ==
  /\ task[n].pc = "environ"
  /\ LET verdicts == UNION {Verdict(e, task[n].app \in AppAllowed, task[n].smart) :
                              e \in Environ(task[n].pid)}
     IN  \/ /\ verdicts = {}
            /\ task' = [task EXCEPT ![n] = NoTask]
         \/ \E v \in verdicts : task' = [task EXCEPT ![n].pc = "insert", ![n].grant = v]
  /\ UNCHANGED <<mode, proc, mapVars, ring, req, left, may>>

InsertGrant(p, grant) ==
  IF grant = AllGpus THEN allowed' = allowed \cup {p} /\ UNCHANGED forced
  ELSE /\ forced' = [q \in DOMAIN forced \cup {p} |-> IF q = p THEN grant ELSE forced[q]]
       /\ UNCHANGED allowed

Insert(n) ==
  /\ task[n].pc = "insert"
  /\ \/ InsertGrant(task[n].pid, task[n].grant) /\ UNCHANGED left
     \/ Spend("fault") /\ UNCHANGED mapVars
  /\ task' = [task EXCEPT ![n] = NoTask]
  /\ UNCHANGED <<mode, proc, ring, req, may>>

-----------------------------------------------------------------------------
(* RequestProcessAccess: "Allow_dGPU" is the grant AllGpus, "Force_dGPU" and  *)
(* "Force_GPU" are their value.  "Default" changes nothing.                   *)

Ask(c, p, grant) ==
  /\ req[c].pc = "idle"
  /\ proc[p].st # "free"
  /\ Spend("request")
  /\ req' = [req EXCEPT ![c] = [pc |-> "other", pid |-> p, grant |-> grant, answer |-> "none"]]
  /\ may' = [may EXCEPT ![p] = @ \cup {grant}]
  /\ UNCHANGED <<mode, proc, mapVars, ring, task>>

Answer(c, answer) == req' = [req EXCEPT ![c].pc = "idle", ![c].answer = answer]

(* Removing an absent key is an error and ends the call.                      *)
RemoveOther(p, grant) ==
  IF grant = AllGpus THEN /\ p \in DOMAIN forced
                          /\ forced' = Restrict(forced, DOMAIN forced \ {p})
                          /\ UNCHANGED allowed
                     ELSE p \in allowed /\ allowed' = allowed \ {p} /\ UNCHANGED forced

AskRemove(c) ==
  /\ req[c].pc = "other"
  /\ LET p == req[c].pid
         absent == p \notin IF req[c].grant = AllGpus THEN DOMAIN forced ELSE allowed
     IN  \/ absent /\ Answer(c, "error") /\ UNCHANGED mapVars
         \/ RemoveOther(p, req[c].grant) /\ req' = [req EXCEPT ![c].pc = "insert"]
  /\ UNCHANGED <<mode, proc, ring, task, left, may>>

AskInsert(c) ==
  /\ req[c].pc = "insert"
  /\ \/ InsertGrant(req[c].pid, req[c].grant) /\ Answer(c, "ok") /\ UNCHANGED left
     \/ Spend("fault") /\ Answer(c, "error") /\ UNCHANGED mapVars
  /\ UNCHANGED <<mode, proc, ring, task, may>>

-----------------------------------------------------------------------------
Evaluate(n) == Check(n) \/ ReadName(n) \/ ReadEnviron(n) \/ Insert(n)
Hook(p)     == HookClear(p) \/ HookNotify(p)

Next ==
  \/ \E p, q \in Pid : Fork(p, q)
  \/ \E p \in Pid, i \in Image : ExecLoad(p, i)
  \/ \E p \in Pid : Hook(p) \/ Exit(p) \/ Reap(p)
  \/ \E m \in Modes : SwitchMode(m)
  \/ TakeEvent
  \/ \E n \in Slot : Evaluate(n)
  \/ \E c \in Callers, p \in Pid, grant \in Grant : Ask(c, p, grant)
  \/ \E c \in Callers : AskRemove(c) \/ AskInsert(c)

Spec == Init /\ [][Next]_vars

-----------------------------------------------------------------------------
(* Properties                                                                *)

HasGrant(p, grant) == IF grant = AllGpus THEN p \in allowed ELSE p \in DOMAIN forced /\ forced[p] = grant
Held(p) == {grant \in Grant : HasGrant(p, grant)}
Due(p, smart) == Verdict(Env[proc[p].img], proc[p].img \in AppAllowed, smart)

(* The kernel's answer for an inode of g that is blocked unless g is the default. *)
Sees(p, g) == ~IsInodeBlocked(mode, [gpu |-> g, blocked |-> g # 0], allowed, forced, p, proc[p].parent)
MayOf(p) == IF p \in Pid THEN may[p] ELSE {}

(* In Smart mode a process sees the offload GPU only if one of its images or  *)
(* a request for it, or for its parent, accounts for it, whatever overlaps:   *)
(* late evaluations, reused pids, lost events (the exec and exit tracepoints, *)
(* spawn_exec_analyzer, is_inode_blocked).                                    *)
SeesOnlyWithCause ==
  \A p \in Pid : mode = "smart" /\ Running(p) /\ Sees(p, OffloadGpu) =>
    (MayOf(p) \cup MayOf(proc[p].parent)) \cap {AllGpus, OffloadGpu} # {}

(* Until an exec or exit overtakes an evaluation, or anybody calls             *)
(* RequestProcessAccess, a pid of which nothing is under way is as its image  *)
(* wants it.                                                                 *)
Undisturbed == left.late = MaxLate /\ left.request = MaxRequests
AtRest(p)   == ~InFlight(p) /\ proc[p].hook = 0

(* Its entries are grants its present image is due, a forked child that       *)
(* reuses a pid included, and a dead pid has none (the exec and exit hooks).  *)
GrantsMatchImage ==
  \A p \in Pid : Undisturbed /\ AtRest(p) =>
    Held(p) \subseteq IF proc[p].st = "run" THEN UNION {Due(p, s) : s \in BOOLEAN} ELSE {}

(* If its exec was announced, it has the grant it is due, unless an insertion *)
(* failed (the hook clears the maps before it announces).                     *)
DueIsGranted ==
  \A p \in Pid : Undisturbed /\ left.fault = MaxFaults /\ AtRest(p) /\ proc[p].told # "no" =>
    Due(p, proc[p].told = "smart") \subseteq Held(p)

-----------------------------------------------------------------------------
(* What the proof of SeesOnlyWithCause needs to be inductive: whatever is in   *)
(* a map, running, half evaluated or asked for is accounted for.              *)

EntriesAccounted == \A p \in Pid : Held(p) \subseteq may[p]
ImagesAccounted  == \A p \in Pid : proc[p].st = "run" => Grants(proc[p].img) \subseteq may[p]
TasksAccounted ==
  \A n \in Slot :
    /\ task[n].pc # "none" => task[n].pid \in Pid
    /\ task[n].pc = "environ" =>
         Verdict(NoEnv, task[n].app \in AppAllowed, task[n].smart) \subseteq may[task[n].pid]
    /\ task[n].pc = "insert" => task[n].grant \in may[task[n].pid]
CallsAccounted ==
  \A c \in Callers : req[c].pc # "idle" => req[c].pid \in Pid /\ req[c].grant \in may[req[c].pid]

AccountInv == /\ TypeOK
              /\ EntriesAccounted /\ ImagesAccounted /\ TasksAccounted /\ CallsAccounted
=============================================================================
