----------------------------- MODULE AppPolicy -----------------------------
(***************************************************************************)
(* The policies of applications: the table in cardwire.db, the cache the     *)
(* analyzer looks programs up in, the worker thread that inserts newly       *)
(* discovered applications, and SetAppPolicy, which updates the table and    *)
(* then the cache.                                                           *)
(*                                                                          *)
(* The evaluations, the worker and the D-Bus calls run at the same time: a   *)
(* step is one access to the cache, the table, the queue or the set of       *)
(* pending discoveries.  A row is its policy.  Every name looked up here     *)
(* matches a desktop file or a Steam game; the others change nothing.        *)
(***************************************************************************)
EXTENDS Naturals, Sequences

CONSTANTS
  App,        \* the names programs are looked up by
  DesktopOf,  \* DesktopOf[n]: the id of n's desktop file, NoDesktop for a Steam game
  NoDesktop,
  None,       \* no task
  Evaluator,  \* slots for the discoveries in progress
  Caller,     \* D-Bus callers of SetAppPolicy
  QueueSize,  \* capacity of the worker's channel, 100 in the code
  MaxEvals,   \* bound: lookups that miss the cache
  MaxCalls,   \* bound: calls of SetAppPolicy
  MaxFaults,  \* bound: failing database accesses
  MaxStops    \* bound: crashes of the daemon

ASSUME PolicyAssumption ==
  /\ None \notin Evaluator
  /\ QueueSize \in Nat \ {0}
  /\ {MaxEvals, MaxCalls, MaxFaults, MaxStops} \subseteq Nat

VARIABLES
  up,         \* the daemon runs
  db,         \* the rows of app_policies: a policy per known name
  cache,      \* CardwireDatabase::cache
  pending,    \* pending_discoveries
  queue,      \* the worker's channel
  worker,     \* the discovery the worker thread is busy with
  task,       \* the discoveries in progress
  call,       \* the SetAppPolicy calls in progress
  announced,  \* the names NewAppAdded was emitted for
  left        \* what is left of the bounds

vars == <<up, db, cache, pending, queue, worker, task, call, announced, left>>

Policy == {"Blocked", "Allowed"}
Rows   == UNION {[known -> Policy] : known \in SUBSET App}
NoRows == [n \in {} |-> "Blocked"]
Insert(rows, n, p) == [k \in DOMAIN rows \cup {n} |-> IF k = n THEN p ELSE rows[k]]

IdleTask == [pc |-> "idle", app |-> None, reply |-> FALSE]
IdleCall == [pc |-> "idle", app |-> None, policy |-> "Blocked"]

TaskState == [pc: {"idle", "claim", "mirror", "send", "wait", "answered", "forget"},
              app: App \cup {None}, reply: BOOLEAN]
CallState == [pc: {"idle", "lock", "db", "cache"}, app: App \cup {None}, policy: Policy]

TypeOK ==
  /\ up \in BOOLEAN /\ db \in Rows /\ cache \in Rows
  /\ pending \subseteq App /\ announced \subseteq App
  /\ queue \in Seq(Evaluator) /\ Len(queue) <= QueueSize
  /\ worker \in Evaluator \cup {None}
  /\ task \in [Evaluator -> TaskState]
  /\ call \in [Caller -> CallState]
  /\ left \in [eval: Nat, call: Nat, fault: Nat, stop: Nat]

(* The daemon starts on the rows of earlier runs, one per desktop file.      *)
SharesDesktop(n, known) ==
  DesktopOf[n] # NoDesktop /\ \E k \in known \ {n} : DesktopOf[k] = DesktopOf[n]

Init ==
  /\ up = TRUE
  /\ db \in {rows \in Rows : \A n \in DOMAIN rows : ~SharesDesktop(n, DOMAIN rows)}
  /\ cache = db
  /\ pending = {} /\ queue = <<>> /\ worker = None /\ announced = {}
  /\ task = [e \in Evaluator |-> IdleTask]
  /\ call = [c \in Caller |-> IdleCall]
  /\ left = [eval |-> MaxEvals, call |-> MaxCalls, fault |-> MaxFaults, stop |-> MaxStops]

Goto(e, pc) == task' = [task EXCEPT ![e].pc = pc]
NoFault     == UNCHANGED left
Fault       == left.fault > 0 /\ left' = [left EXCEPT !.fault = @ - 1]

-----------------------------------------------------------------------------
(* evaluate_app and discover_app                                             *)

(* A program whose policy is not cached: what it matches is looked up after   *)
(* the cache's lock was given back.                                          *)
Evaluate(e, n) ==
  /\ up /\ task[e].pc = "idle" /\ left.eval > 0
  /\ n \notin DOMAIN cache
  /\ task' = [task EXCEPT ![e] = [pc |-> "claim", app |-> n, reply |-> FALSE]]
  /\ left' = [left EXCEPT !.eval = @ - 1]
  /\ UNCHANGED <<up, db, cache, pending, queue, worker, call, announced>>

Claimed(n) == n \in pending

Claim(e) ==
  /\ up /\ task[e].pc = "claim"
  /\ IF Claimed(task[e].app)
     THEN task' = [task EXCEPT ![e] = IdleTask] /\ UNCHANGED pending
     ELSE Goto(e, "mirror") /\ pending' = pending \cup {task[e].app}
  /\ UNCHANGED <<up, db, cache, queue, worker, call, announced, left>>

(* Whatever becomes of the row, the application is blocked in the cache.     *)
Mirrored_Never(n) == cache
Mirrored(n) == Insert(cache, n, "Blocked")

Mirror(e) ==
  /\ up /\ task[e].pc = "mirror"
  /\ cache' = Mirrored(task[e].app)
  /\ Goto(e, "send")
  /\ UNCHANGED <<up, db, pending, queue, worker, call, announced, left>>

Room == Len(queue) < QueueSize

Send(e) ==
  /\ up /\ task[e].pc = "send" /\ Room
  /\ queue' = Append(queue, e)
  /\ Goto(e, "wait")
  /\ UNCHANGED <<up, db, cache, pending, worker, call, announced, left>>

Forgotten_IfStored(e) == IF task[e].reply THEN pending \ {task[e].app} ELSE pending
Forgotten(e) == pending \ {task[e].app}

(* NewAppAdded, whose emission may fail.                                     *)
Announce(e) ==
  /\ up /\ task[e].pc = "answered"
  /\ announced' \in {announced} \cup IF task[e].reply THEN {announced \cup {task[e].app}} ELSE {}
  /\ Goto(e, "forget")
  /\ UNCHANGED <<up, db, cache, pending, queue, worker, call, left>>

Finish(e) ==
  /\ up /\ task[e].pc = "forget"
  /\ pending' = Forgotten(e)
  /\ task' = [task EXCEPT ![e] = IdleTask]
  /\ UNCHANGED <<up, db, cache, queue, worker, call, announced, left>>

-----------------------------------------------------------------------------
(* The worker thread: the only one that inserts rows.                        *)

WorkerReceive ==
  /\ up /\ worker = None /\ queue # <<>>
  /\ worker' = Head(queue) /\ queue' = Tail(queue)
  /\ UNCHANGED <<up, db, cache, pending, task, call, announced, left>>

Reply(ok) ==
  /\ task' = [task EXCEPT ![worker].pc = "answered", ![worker].reply = ok]
  /\ worker' = None

(* ON CONFLICT(binary_name) DO NOTHING *)
Stored_Replacing(n) == Insert(db, n, "Blocked")
Stored(n) == IF n \in DOMAIN db THEN db ELSE Insert(db, n, "Blocked")

(* A query that fails counts as one that found no duplicate.                 *)
Duplicate_Never(n) == FALSE
Duplicate(n) == SharesDesktop(n, DOMAIN db)

WorkerReject ==
  /\ up /\ worker # None /\ Duplicate(task[worker].app)
  /\ Reply(FALSE)
  /\ UNCHANGED <<up, db, cache, pending, queue, call, announced, left>>

WorkerStore ==
  /\ up /\ worker # None
  /\ IF Duplicate(task[worker].app) THEN Fault ELSE NoFault
  /\ db' = Stored(task[worker].app)
  /\ Reply(TRUE)
  /\ UNCHANGED <<up, cache, pending, queue, call, announced>>

FailureReply_Ok == TRUE
FailureReply == FALSE
WorkerFail ==
  /\ up /\ worker # None /\ ~Duplicate(task[worker].app)
  /\ Fault
  /\ Reply(FailureReply)
  /\ UNCHANGED <<up, db, cache, pending, queue, call, announced>>

-----------------------------------------------------------------------------
(* SetAppPolicy *)

SetAppPolicy(c, n, p) ==
  /\ up /\ call[c].pc = "idle" /\ left.call > 0
  /\ n \in DOMAIN cache
  /\ call' = [call EXCEPT ![c] = [pc |-> "lock", app |-> n, policy |-> p]]
  /\ left' = [left EXCEPT !.call = @ - 1]
  /\ UNCHANGED <<up, db, cache, pending, queue, worker, task, announced>>

PolicyLockFree_Always == TRUE
PolicyLockFree == \A c \in Caller : call[c].pc \notin {"db", "cache"}

LockPolicy(c) ==
  /\ up /\ call[c].pc = "lock" /\ PolicyLockFree
  /\ call' = [call EXCEPT ![c].pc = "db"]
  /\ UNCHANGED <<up, db, cache, pending, queue, worker, task, announced, left>>

UpdateRow(c) ==
  /\ up /\ call[c].pc = "db" /\ call[c].app \in DOMAIN db
  /\ db' = [db EXCEPT ![call[c].app] = call[c].policy]
  /\ call' = [call EXCEPT ![c].pc = "cache"]
  /\ UNCHANGED <<up, cache, pending, queue, worker, task, announced, left>>

(* The update fails, or there is no row to update: the caller gets an error.  *)
UpdateFails(c) ==
  /\ up /\ call[c].pc = "db"
  /\ IF call[c].app \in DOMAIN db THEN Fault ELSE NoFault
  /\ call' = [call EXCEPT ![c] = IdleCall]
  /\ UNCHANGED <<up, db, cache, pending, queue, worker, task, announced>>

UpdateCache(c) ==
  /\ up /\ call[c].pc = "cache"
  /\ cache' = Insert(cache, call[c].app, call[c].policy)
  /\ call' = [call EXCEPT ![c] = IdleCall]
  /\ UNCHANGED <<up, db, pending, queue, worker, task, announced, left>>

-----------------------------------------------------------------------------
(* A crash keeps the rows; the next start fills the cache from them.          *)

Crash ==
  /\ up /\ left.stop > 0
  /\ up' = FALSE
  /\ cache' = NoRows /\ pending' = {} /\ queue' = <<>> /\ worker' = None
  /\ announced' = {}
  /\ task' = [e \in Evaluator |-> IdleTask]
  /\ call' = [c \in Caller |-> IdleCall]
  /\ left' = [left EXCEPT !.stop = @ - 1]
  /\ UNCHANGED db

Build ==
  /\ ~up /\ up' = TRUE
  /\ cache' = db
  /\ UNCHANGED <<db, pending, queue, worker, task, call, announced, left>>

-----------------------------------------------------------------------------
Discovery(e) == Claim(e) \/ Mirror(e) \/ Send(e) \/ Announce(e) \/ Finish(e)
Worker       == WorkerReceive \/ WorkerReject \/ WorkerStore \/ WorkerFail
Update(c)    == UpdateRow(c) \/ UpdateFails(c) \/ UpdateCache(c)

Next ==
  \/ \E e \in Evaluator : Discovery(e) \/ \E n \in App : Evaluate(e, n)
  \/ Worker
  \/ \E c \in Caller : \/ LockPolicy(c) \/ Update(c)
                       \/ \E n \in App, p \in Policy : SetAppPolicy(c, n, p)
  \/ Crash \/ Build

Spec == Init /\ [][Next]_vars

(* The runtime polls every ready task and the worker thread runs; systemd     *)
(* restarts the daemon.  The channel and the lock are fair queues.            *)
Fairness ==
  /\ \A e \in Evaluator : WF_vars(Claim(e) \/ Mirror(e) \/ Announce(e) \/ Finish(e)) /\ SF_vars(Send(e))
  /\ WF_vars(Worker) /\ WF_vars(Build)
  /\ \A c \in Caller : WF_vars(Update(c)) /\ SF_vars(LockPolicy(c))

FairSpec == Spec /\ Fairness

-----------------------------------------------------------------------------
(* The analyzer gives no program a GPU that the database denies it, whatever  *)
(* calls and discoveries overlap: a cached Allowed is the row's, except for a *)
(* call that has written the row and not yet the cache (set_app_policy).      *)
BetweenWrites(n) == \E c \in Caller : call[c].pc = "cache" /\ call[c].app = n
AllowedByUser ==
  \A n \in DOMAIN cache :
    cache[n] = "Allowed" => n \in DOMAIN db /\ (db[n] = "Allowed" \/ BetweenWrites(n))

(* Every application that has a row is cached, so that it is not discovered   *)
(* again and SetAppPolicy finds it (build, discover_app).                     *)
KnownAppsCached == up => DOMAIN db \subseteq DOMAIN cache

(* While no query fails, no two rows have the same desktop file (the worker). *)
OneRowPerDesktopFile ==
  left.fault = MaxFaults => \A n \in DOMAIN db : ~SharesDesktop(n, DOMAIN db)

(* "Allow only one persistence request per unknown app at a time"             *)
(* (discover_app), counting the requests that wait, are queued or processed.  *)
Persisting(e) == task[e].pc \notin {"idle", "claim"}
OneRequestPerApp ==
  \A d, e \in Evaluator :
    Persisting(d) /\ Persisting(e) /\ task[d].app = task[e].app => d = e

(* NewAppAdded is emitted for applications that have a row only: a client can *)
(* set the policy of what it was told about (discover_app, the worker).       *)
AnnouncedAreStored == announced \subseteq DOMAIN db

(* The table is a PolicyStore: a second insertion, a crash or an overlapping  *)
(* call never replaces what the user decided.                                 *)
Asked == {<<call[c].app, call[c].policy>> : c \in {d \in Caller : call[d].pc # "idle"}}
Store == INSTANCE PolicyStore WITH policy <- db, asked <- Asked, Blocked <- "Blocked"
ImplementsStore == Store!Spec

(* A discovery ends whatever happens to its row, so that its application can  *)
(* be discovered again after a failure (discover_app).                        *)
DiscoveryEnds == \A n \in App : n \in pending ~> n \notin pending

-----------------------------------------------------------------------------
(* The inductive invariant of AppPolicyProofs.  A call between its writes      *)
(* finds the row as it wrote it; a discovery under way is pending, mirrored    *)
(* before it is sent, stored before it is announced; the worker and the queue  *)
(* hold discoveries that wait, each once.                                     *)
CallsConsistent ==
  /\ \A c \in Caller : call[c].pc # "idle" => call[c].app \in App
  /\ \A c, d \in Caller :
       call[c].pc \in {"db", "cache"} /\ call[d].pc \in {"db", "cache"} => c = d
  /\ \A c \in Caller :
       call[c].pc = "cache" => call[c].app \in DOMAIN db /\ db[call[c].app] = call[c].policy

TasksConsistent ==
  \A e \in Evaluator :
    /\ task[e].pc # "idle" => up /\ task[e].app \in App
    /\ Persisting(e) => task[e].app \in pending
    /\ task[e].pc \in {"send", "wait", "answered", "forget"} => task[e].app \in DOMAIN cache
    /\ task[e].pc = "answered" /\ task[e].reply => task[e].app \in DOMAIN db

WorkConsistent ==
  /\ worker # None => task[worker].pc = "wait"
  /\ \A i \in 1..Len(queue) :
       /\ task[queue[i]].pc = "wait" /\ queue[i] # worker
       /\ \A j \in 1..Len(queue) : queue[i] = queue[j] => i = j

PolicyInv == /\ TypeOK /\ CallsConsistent /\ TasksConsistent /\ WorkConsistent
             /\ AllowedByUser /\ KnownAppsCached /\ OneRequestPerApp /\ AnnouncedAreStored

-----------------------------------------------------------------------------
(* "Persist a newly discovered app in the database and mirror it in the       *)
(* cache" (discover_app): an evaluation that looked the cache up before a     *)
(* discovery of the same application, and claims it after that discovery has  *)
(* ended, writes Blocked over what the user has set meanwhile.                *)
CacheMirrorsDatabase ==
  (\A e \in Evaluator : task[e].pc = "idle") /\ (\A c \in Caller : call[c].pc = "idle") /\ up
    => \A n \in DOMAIN db : n \in DOMAIN cache /\ cache[n] = db[n]
=============================================================================
