---------------------------- MODULE ReportLogger ----------------------------
(***************************************************************************)
(* Blocked accesses, from the eBPF programs to the list of the graphical      *)
(* client: a ring the hooks write to, the analyzer's reader that passes on    *)
(* the first event of a pid, a bounded number of tasks that look the process  *)
(* up, record it and then signal it, and a client that first fetches the      *)
(* history and then subscribes to the signal.                                *)
(*                                                                          *)
(* A pid is entered at most once, so an entry is its pid.                     *)
(***************************************************************************)
EXTENDS Naturals, Sequences, FiniteSets, Functions

CONSTANTS
  Pid,           \* pids of processes that are blocked
  RingSize,      \* events CW_REPORT_EVENTS holds
  Permits,       \* REPORT_SEMAPHORE_PERMITS
  MaxEntries,    \* MAX_REPORT_ENTRIES
  MaxGuiEntries, \* MAX_GUI_LOG_ENTRIES
  MaxEvents,     \* bound: blocked accesses
  MaxDeaths      \* bound: processes that end

ASSUME ReportAssumption ==
  /\ {RingSize, Permits, MaxEntries, MaxGuiEntries} \subseteq Nat \ {0}
  /\ {MaxEvents, MaxDeaths} \subseteq Nat
  /\ Permits <= MaxGuiEntries

VARIABLES
  alive,    \* pids with a process
  ring,     \* CW_REPORT_EVENTS
  reported, \* reported_pids
  waiting,  \* the event for which the reader waits for a permit
  task,     \* the task of each pid: "none", "lookup", "report", "signal"
  log,      \* every entry ever recorded; report_vec is its end
  lost,     \* entries whose signal was not emitted
  gui,      \* the client: its place in logger_sub, the reply under way and
            \* history: the length of log when it was made and when it subscribed,
            \*          and what was recorded and not yet signalled when it was made
  inbox,    \* messages to the client's update loop
  shown,    \* LogState
  left      \* what the bounds leave

daemonVars == <<reported, waiting, task, log, lost>>
guiVars    == <<gui, inbox, shown>>
vars == <<alive, ring, daemonVars, guiVars, left>>

Newest_Oldest(s, n) == SubSeq(s, 1, IF Len(s) > n THEN n ELSE Len(s))
Newest(s, n) == SubSeq(s, IF Len(s) > n THEN Len(s) - n + 1 ELSE 1, Len(s))

TypeOK ==
  /\ alive \subseteq Pid /\ reported \subseteq Pid
  /\ ring \in Seq(Pid) /\ Len(ring) <= RingSize
  /\ waiting \in Seq(Pid) /\ Len(waiting) <= 1
  /\ task \in [Pid -> {"none", "lookup", "report", "signal"}]
  /\ lost \subseteq Pid
  /\ log \in Seq(Pid) /\ shown \in Seq(Pid) /\ Len(shown) <= MaxGuiEntries
  /\ gui \in [pc : {"closed", "fetching", "fetched", "live"}, reply : Seq(Pid),
              fetchedAt : Nat, subscribedAt : Nat, unsignalled : SUBSET Pid]
  /\ inbox \in Seq([kind : {"FetchedLogs"}, logs : Seq(Pid)] \cup [kind : {"NewLog"}, log : Pid])
  /\ left \in [event : Nat, death : Nat]

Init ==
  /\ alive = Pid /\ ring = <<>> /\ reported = {} /\ waiting = <<>>
  /\ task = [p \in Pid |-> "none"]
  /\ log = <<>> /\ lost = {}
  /\ gui = [pc |-> "closed", reply |-> <<>>, fetchedAt |-> 0, subscribedAt |-> 0, unsignalled |-> {}]
  /\ inbox = <<>> /\ shown = <<>>
  /\ left = [event |-> MaxEvents, death |-> MaxDeaths]

-----------------------------------------------------------------------------
(* A hook blocks a process: report_event, which a full ring drops.            *)
Blocked(p) ==
  /\ p \in alive /\ left.event > 0
  /\ left' = [left EXCEPT !.event = @ - 1]
  /\ ring' = IF Len(ring) < RingSize THEN Append(ring, p) ELSE ring
  /\ UNCHANGED <<alive, daemonVars, guiVars>>

Die(p) ==
  /\ p \in alive /\ left.death > 0
  /\ left' = [left EXCEPT !.death = @ - 1]
  /\ alive' = alive \ {p}
  /\ UNCHANGED <<ring, daemonVars, guiVars>>

(* Another process gets the pid.                                             *)
Spawn(p) ==
  /\ p \notin alive
  /\ alive' = alive \cup {p}
  /\ UNCHANGED <<ring, daemonVars, guiVars, left>>

-----------------------------------------------------------------------------
(* report_logger: the first event of a pid takes its reader to the semaphore, *)
(* where it stays, with everything behind the event still in the ring, until  *)
(* a task ends.                                                              *)

Remembered_Later(p) == reported
Remembered(p)       == reported \cup {p}

TakeReport ==
  /\ waiting = <<>> /\ ring # <<>>
  /\ ring' = Tail(ring)
  /\ LET p == Head(ring)
     IN  /\ waiting' = IF p \in reported THEN <<>> ELSE <<p>>
         /\ reported' = Remembered(p)
  /\ UNCHANGED <<alive, task, log, lost, guiVars, left>>

Running == {p \in Pid : task[p] # "none"}

(* acquire_owned waits.                                                      *)
Acquire_OrDrop(p) ==
  task' = IF Cardinality(Running) < Permits THEN [task EXCEPT ![p] = "lookup"] ELSE task
Acquire(p) ==
  Cardinality(Running) < Permits /\ task' = [task EXCEPT ![p] = "lookup"]

StartTask ==
  /\ waiting # <<>>
  /\ Acquire(Head(waiting))
  /\ waiting' = <<>>
  /\ UNCHANGED <<alive, ring, reported, log, lost, guiVars, left>>

(* The app id, the name of the process or the comm of the event are reported; *)
(* of a process that is gone none is.                                        *)
Lookup(p) ==
  /\ task[p] = "lookup"
  /\ task' = [task EXCEPT ![p] = IF p \in alive THEN "report" ELSE "none"]
  /\ UNCHANGED <<alive, ring, reported, waiting, log, lost, guiVars, left>>

(* report_blocked: the entry is recorded under the lock of report_vec and    *)
(* signalled without it; then the permit is returned.                         *)
Record(p) ==
  /\ task[p] = "report"
  /\ task' = [task EXCEPT ![p] = "signal"]
  /\ log' = Append(log, p)
  /\ UNCHANGED <<alive, ring, reported, waiting, lost, guiVars, left>>

ReportVec == Newest(log, MaxEntries)

(* The emission may fail, or the interface not be served yet: the signal is    *)
(* lost, which is only logged, and the task ends all the same.                *)
Signal(p) ==
  /\ task[p] = "signal"
  /\ task' = [task EXCEPT ![p] = "none"]
  /\ \/ /\ inbox' = IF gui.pc = "live" THEN Append(inbox, [kind |-> "NewLog", log |-> p]) ELSE inbox
        /\ UNCHANGED lost
     \/ lost' = lost \cup {p} /\ UNCHANGED inbox
  /\ UNCHANGED <<alive, ring, reported, waiting, log, gui, shown, left>>

-----------------------------------------------------------------------------
(* logger_sub and the client's update loop.                                   *)

(* The daemon copies the history for process_blocked.                         *)
Fetch ==
  /\ gui.pc = "closed"
  /\ gui' = [gui EXCEPT !.pc = "fetching", !.reply = ReportVec, !.fetchedAt = Len(log),
                        !.unsignalled = {p \in Pid : task[p] = "signal"}]
  /\ UNCHANGED <<alive, ring, daemonVars, inbox, shown, left>>

Fetched ==
  /\ gui.pc = "fetching"
  /\ gui' = [gui EXCEPT !.pc = "fetched", !.reply = <<>>]
  /\ inbox' = IF gui.reply = <<>> THEN inbox
              ELSE Append(inbox, [kind |-> "FetchedLogs", logs |-> gui.reply])
  /\ UNCHANGED <<alive, ring, daemonVars, shown, left>>

Subscribe ==
  /\ gui.pc = "fetched"
  /\ gui' = [gui EXCEPT !.pc = "live", !.subscribedAt = Len(log)]
  /\ UNCHANGED <<alive, ring, daemonVars, inbox, shown, left>>

(* LogState::replace and push.                                               *)
Update ==
  /\ inbox # <<>>
  /\ inbox' = Tail(inbox)
  /\ shown' = LET message == Head(inbox)
              IN  Newest(IF message.kind = "FetchedLogs" THEN message.logs
                                                        ELSE Append(shown, message.log),
                         MaxGuiEntries)
  /\ UNCHANGED <<alive, ring, daemonVars, gui, left>>

Work(p) == Lookup(p) \/ Record(p) \/ Signal(p)

Next ==
  \/ \E p \in Pid : Blocked(p) \/ Die(p) \/ Spawn(p) \/ Work(p)
  \/ TakeReport \/ StartTask
  \/ Fetch \/ Fetched \/ Subscribe \/ Update

Spec == Init /\ [][Next]_vars

(* The reader and its tasks, whose lookups end in APP_ID_LOOKUP_TIMEOUT, go   *)
(* on; the semaphore is fair.                                                *)
FairSpec ==
  /\ Spec
  /\ WF_vars(TakeReport) /\ WF_vars(StartTask)
  /\ \A p \in Pid : WF_vars(Work(p))

-----------------------------------------------------------------------------
(* Properties                                                                *)

Times(s, p) == Cardinality({i \in DOMAIN s : s[i] = p})

(* However often a process is blocked, it is recorded once and listed once;   *)
(* only an entry that was recorded and not yet signalled when the client      *)
(* fetched may be listed twice (report_logger, report_blocked, logger_sub).   *)
ListedOnce ==
  \A p \in Pid : Times(log, p) <= 1 /\ Times(shown, p) <= IF p \in gui.unsignalled THEN 2 ELSE 1

(* A client that has caught up lists every entry of the history it fetched,   *)
(* and every entry recorded after it subscribed once that is signalled, unless *)
(* its signal was lost or the full list is of others; the newest entry is      *)
(* never pushed out by older ones. One recorded between the fetch and the      *)
(* subscription is not promised, even if its signal comes after.              *)
CaughtUp == gui.pc = "live" /\ inbox = <<>>
ListsSignalled ==
  CaughtUp => \A i \in DOMAIN log :
    /\ task[log[i]] # "signal"
    /\ \/ i \in (gui.fetchedAt - MaxEntries + 1)..gui.fetchedAt
       \/ i > gui.subscribedAt /\ log[i] \notin lost
    => log[i] \in Range(shown) \/ (Len(shown) = MaxGuiEntries /\ i < Len(log))

(* The first event of a pid that the ring took is recorded, unless the        *)
(* process ends: a reader that waits for a permit delays it and loses none.   *)
QueuedIsRecorded ==
  \A p \in Pid :
    (p \in Range(ring) /\ p \notin reported) ~> (p \in Range(log) \/ p \notin alive)
=============================================================================
