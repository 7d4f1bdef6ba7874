-------------------------- MODULE AppPolicyProofs --------------------------
(* What TLAPS proves of AppPolicy, for every set of applications, evaluations *)
(* and callers, every capacity of the queue and every bound.                  *)
EXTENDS AppPolicy, SequenceTheorems, WellFoundedInduction, TLAPS

(***************************************************************************)
(* Lemmas about rows, tasks and calls                                       *)
(***************************************************************************)

(* A table of rows, and what Insert makes of it. *)
LEMMA RowsFacts ==
  ASSUME NEW rows \in Rows
  PROVE  /\ DOMAIN rows \subseteq App
         /\ \A n \in DOMAIN rows : rows[n] \in Policy
BY DEF Rows

LEMMA RowsIntro ==
  ASSUME NEW known \in SUBSET App, NEW rows \in [known -> Policy]
  PROVE  rows \in Rows
BY DEF Rows

LEMMA InsertRows ==
  ASSUME NEW rows \in Rows, NEW n \in App, NEW p \in Policy
  PROVE  /\ Insert(rows, n, p) \in Rows
         /\ DOMAIN Insert(rows, n, p) = DOMAIN rows \cup {n}
         /\ \A k \in DOMAIN rows \cup {n} :
              Insert(rows, n, p)[k] = IF k = n THEN p ELSE rows[k]
<1>1. DOMAIN rows \cup {n} \in SUBSET App
  BY RowsFacts
<1>2. Insert(rows, n, p) \in [DOMAIN rows \cup {n} -> Policy]
  BY RowsFacts DEF Insert
<1>3. Insert(rows, n, p) \in Rows
  BY <1>1, <1>2, RowsIntro
<1>4. QED
  BY <1>3 DEF Insert

LEMMA UpdateRows ==
  ASSUME NEW rows \in Rows, NEW n \in DOMAIN rows, NEW p \in Policy
  PROVE  [rows EXCEPT ![n] = p] \in Rows
<1>1. DOMAIN rows \in SUBSET App /\ [rows EXCEPT ![n] = p] \in [DOMAIN rows -> Policy]
  BY RowsFacts
<1>2. QED
  BY <1>1, RowsIntro

LEMMA NoRowsAreRows == NoRows \in Rows /\ DOMAIN NoRows = {}
<1>1. NoRows \in [{} -> Policy] /\ {} \in SUBSET App
  BY DEF NoRows
<1>2. NoRows \in Rows
  BY <1>1, RowsIntro
<1>3. QED
  BY <1>2 DEF NoRows

(* The edits the steps make to a task and to a call. *)
LEMMA TaskEdits ==
  ASSUME NEW r \in TaskState, NEW n \in App, NEW ok \in BOOLEAN,
         NEW pc \in {"idle", "claim", "mirror", "send", "wait", "answered", "forget"}
  PROVE  /\ [r EXCEPT !.pc = pc] \in TaskState
         /\ [r EXCEPT !.pc = "answered", !.reply = ok] \in TaskState
         /\ [pc |-> "claim", app |-> n, reply |-> FALSE] \in TaskState
         /\ IdleTask \in TaskState
BY DEF TaskState, IdleTask

LEMMA CallEdits ==
  ASSUME NEW r \in CallState, NEW n \in App, NEW p \in Policy,
         NEW pc \in {"idle", "lock", "db", "cache"}
  PROVE  /\ [r EXCEPT !.pc = pc] \in CallState
         /\ [pc |-> "lock", app |-> n, policy |-> p] \in CallState
         /\ IdleCall \in CallState
BY DEF CallState, IdleCall, Policy

(***************************************************************************)
(* Type correctness                                                        *)
(***************************************************************************)

LEMMA DiscoveryType ==
  ASSUME TypeOK, TasksConsistent, NEW e \in Evaluator
  PROVE  /\ Discovery(e) => TypeOK'
         /\ \A n \in App : Evaluate(e, n) => TypeOK'
<1> USE DEF TypeOK
<1>1. task[e] \in TaskState
  OBVIOUS
<1>2. ASSUME NEW n \in App, Evaluate(e, n) PROVE TypeOK'
  <2>1. [pc |-> "claim", app |-> n, reply |-> FALSE] \in TaskState
    BY <1>1, TaskEdits
  <2>2. QED
    BY <1>2, <2>1 DEF Evaluate
<1>3. ASSUME task[e].pc # "idle"
      PROVE  task[e].app \in App /\ IdleTask \in TaskState
             /\ \A pc \in {"idle", "claim", "mirror", "send", "wait", "answered", "forget"} :
                  [task[e] EXCEPT !.pc = pc] \in TaskState
  <2>1. task[e].app \in App
    BY <1>3 DEF TasksConsistent
  <2>2. QED
    BY <1>1, <2>1, TaskEdits
<1>4. CASE Claim(e)
  BY <1>3, <1>4 DEF Claim, Goto
<1>5. CASE Mirror(e)
  <2>1. task[e].app \in App /\ cache' = Insert(cache, task[e].app, "Blocked")
    BY <1>3, <1>5 DEF Mirror, Mirrored
  <2>2. cache' \in Rows
    BY <2>1, InsertRows DEF Policy
  <2>3. QED
    BY <1>3, <1>5, <2>2 DEF Mirror, Goto
<1>6. CASE Send(e)
  <2>1. queue' \in Seq(Evaluator) /\ Len(queue') = Len(queue) + 1
    BY <1>6 DEF Send
  <2>2. Len(queue') <= QueueSize
    BY <1>6, <2>1, PolicyAssumption DEF Send, Room
  <2>3. QED
    BY <1>3, <1>6, <2>1, <2>2 DEF Send, Goto
<1>7. CASE Finish(e)
  BY <1>3, <1>7 DEF Finish, Forgotten
<1>8. CASE Announce(e)
  BY <1>3, <1>8 DEF Announce, Goto
<1>9. QED
  BY <1>2, <1>4, <1>5, <1>6, <1>7, <1>8 DEF Discovery

LEMMA WorkerType ==
  ASSUME TypeOK, TasksConsistent, WorkConsistent, Worker
  PROVE  TypeOK'
<1> USE DEF TypeOK
<1>1. CASE WorkerReceive
  <2>1. queue' \in Seq(Evaluator) /\ Len(queue') = Len(queue) - 1 /\ worker' \in Evaluator
    BY <1>1 DEF WorkerReceive
  <2>2. Len(queue') <= QueueSize
    BY <2>1, PolicyAssumption
  <2>3. QED
    BY <1>1, <2>1, <2>2 DEF WorkerReceive
<1>2. ASSUME worker # None, NEW ok \in BOOLEAN, Reply(ok)
      PROVE  task' \in [Evaluator -> TaskState] /\ worker' = None /\ task[worker].app \in App
  <2>1. worker \in Evaluator /\ task[worker] \in TaskState /\ task[worker].app \in App
    BY <1>2 DEF WorkConsistent, TasksConsistent
  <2>2. [task[worker] EXCEPT !.pc = "answered", !.reply = ok] \in TaskState
    BY <2>1, TaskEdits
  <2>3. QED
    BY <1>2, <2>1, <2>2 DEF Reply
<1>3. CASE WorkerReject
  BY <1>2, <1>3 DEF WorkerReject
<1>4. CASE WorkerFail
  <2>1. task' \in [Evaluator -> TaskState] /\ worker' = None
    BY <1>2, <1>4 DEF WorkerFail, FailureReply
  <2>2. left' \in [eval: Nat, call: Nat, fault: Nat, stop: Nat]
    BY <1>4 DEF WorkerFail, Fault
  <2>3. QED
    BY <1>4, <2>1, <2>2 DEF WorkerFail
<1>5. CASE WorkerStore
  <2>1. task' \in [Evaluator -> TaskState] /\ worker' = None /\ task[worker].app \in App
    BY <1>2, <1>5 DEF WorkerStore
  <2>2. db' \in Rows
    BY <1>5, <2>1, InsertRows DEF WorkerStore, Stored, Policy
  <2>3. left' \in [eval: Nat, call: Nat, fault: Nat, stop: Nat]
    BY <1>5 DEF WorkerStore, Fault, NoFault
  <2>4. QED
    BY <1>5, <2>1, <2>2, <2>3 DEF WorkerStore
<1>6. QED
  BY <1>1, <1>3, <1>4, <1>5 DEF Worker

LEMMA CallType ==
  ASSUME TypeOK, CallsConsistent, NEW c \in Caller
  PROVE  /\ LockPolicy(c) \/ Update(c) => TypeOK'
         /\ \A n \in App, p \in Policy : SetAppPolicy(c, n, p) => TypeOK'
<1> USE DEF TypeOK
<1>1. call[c] \in CallState /\ IdleCall \in CallState
  BY DEF IdleCall, CallState, Policy
<1>2. ASSUME NEW n \in App, NEW p \in Policy, SetAppPolicy(c, n, p) PROVE TypeOK'
  <2>1. [pc |-> "lock", app |-> n, policy |-> p] \in CallState
    BY <1>1, CallEdits
  <2>2. QED
    BY <1>2, <2>1 DEF SetAppPolicy
<1>3. ASSUME call[c].pc # "idle"
      PROVE  /\ call[c].app \in App /\ call[c].policy \in Policy
             /\ \A pc \in {"idle", "lock", "db", "cache"} : [call[c] EXCEPT !.pc = pc] \in CallState
  <2>1. call[c].app \in App /\ call[c].policy \in Policy
    BY <1>1, <1>3 DEF CallsConsistent, CallState
  <2>2. QED
    BY <1>1, <2>1, CallEdits
<1>4. CASE LockPolicy(c)
  BY <1>3, <1>4 DEF LockPolicy
<1>5. CASE UpdateRow(c)
  <2>1. db' \in Rows
    BY <1>3, <1>5, UpdateRows DEF UpdateRow
  <2>2. QED
    BY <1>3, <1>5, <2>1 DEF UpdateRow
<1>6. CASE UpdateFails(c)
  BY <1>1, <1>6 DEF UpdateFails, Fault, NoFault
<1>7. CASE UpdateCache(c)
  <2>1. cache' \in Rows
    BY <1>3, <1>7, InsertRows DEF UpdateCache
  <2>2. QED
    BY <1>1, <1>7, <2>1 DEF UpdateCache
<1>8. QED
  BY <1>2, <1>4, <1>5, <1>6, <1>7 DEF Update

LEMMA RestartType ==
  ASSUME TypeOK, Crash \/ Build
  PROVE  TypeOK'
<1> USE DEF TypeOK
<1>1. CASE Crash
  <2>1. IdleTask \in TaskState /\ IdleCall \in CallState /\ NoRows \in Rows
    BY NoRowsAreRows DEF IdleTask, TaskState, IdleCall, CallState, Policy
  <2>2. <<>> \in Seq(Evaluator) /\ Len(<<>>) = 0
    OBVIOUS
  <2>3. left' \in [eval: Nat, call: Nat, fault: Nat, stop: Nat]
    BY <1>1 DEF Crash
  <2>4. task' \in [Evaluator -> TaskState] /\ call' \in [Caller -> CallState]
    BY <1>1, <2>1 DEF Crash
  <2>5. queue' \in Seq(Evaluator) /\ Len(queue') <= QueueSize
    BY <1>1, <2>2, PolicyAssumption DEF Crash
  <2>6. QED
    BY <1>1, <2>1, <2>3, <2>4, <2>5 DEF Crash
<1>2. CASE Build
  BY <1>2 DEF Build
<1>3. QED
  BY <1>1, <1>2

(***************************************************************************)
(* The other parts of the invariant                                         *)
(***************************************************************************)

Consistent == /\ CallsConsistent /\ TasksConsistent /\ WorkConsistent
              /\ AllowedByUser /\ KnownAppsCached /\ OneRequestPerApp /\ AnnouncedAreStored

(* A step of a discovery; the calls and the table are as before. *)
LEMMA EvaluateKeeps ==
  ASSUME TypeOK, Consistent, NEW e \in Evaluator, NEW n \in App, Evaluate(e, n)
  PROVE  Consistent'
<1> USE DEF Consistent
<1>1. CallsConsistent' /\ AllowedByUser' /\ KnownAppsCached' /\ AnnouncedAreStored'
  BY DEF Evaluate, CallsConsistent, AllowedByUser, BetweenWrites, KnownAppsCached,
         AnnouncedAreStored
<1>2. task' = [task EXCEPT ![e] = [pc |-> "claim", app |-> n, reply |-> FALSE]]
  BY DEF Evaluate
<1>3. TasksConsistent' /\ OneRequestPerApp'
  BY <1>2 DEF TypeOK, Evaluate, TasksConsistent, OneRequestPerApp, Persisting
<1>4. WorkConsistent'
  BY <1>2 DEF TypeOK, Evaluate, WorkConsistent
<1>5. QED
  BY <1>1, <1>3, <1>4

LEMMA ClaimKeeps ==
  ASSUME TypeOK, Consistent, NEW e \in Evaluator, Claim(e)
  PROVE  Consistent'
<1> USE DEF Consistent
<1>1. CallsConsistent' /\ AllowedByUser' /\ KnownAppsCached' /\ AnnouncedAreStored'
  BY DEF Claim, CallsConsistent, AllowedByUser, BetweenWrites, KnownAppsCached,
         AnnouncedAreStored
<1>2. WorkConsistent'
  BY SMTT(30) DEF TypeOK, Claim, Goto, IdleTask, WorkConsistent
<1>3. CASE task[e].app \in pending
  <2>1. task' = [task EXCEPT ![e] = IdleTask] /\ UNCHANGED <<pending, cache, db, up>>
    BY <1>3 DEF Claim, Claimed
  <2>2. TasksConsistent' /\ OneRequestPerApp'
    BY <2>1 DEF TypeOK, IdleTask, TasksConsistent, OneRequestPerApp, Persisting
  <2>3. QED
    BY <1>1, <1>2, <2>2
<1>4. CASE task[e].app \notin pending
  <2>1. /\ task' = [task EXCEPT ![e].pc = "mirror"] /\ pending' = pending \cup {task[e].app}
        /\ UNCHANGED <<cache, db>>
    BY <1>4 DEF Claim, Claimed, Goto
  <2>2. TasksConsistent'
    BY <2>1 DEF TypeOK, TaskState, Claim, TasksConsistent, Persisting
  <2>3. OneRequestPerApp'
    BY <1>4, <2>1 DEF TypeOK, TaskState, TasksConsistent, OneRequestPerApp, Persisting
  <2>4. QED
    BY <1>1, <1>2, <2>2, <2>3
<1>5. QED
  BY <1>3, <1>4

LEMMA MirrorKeeps ==
  ASSUME TypeOK, Consistent, NEW e \in Evaluator, Mirror(e)
  PROVE  Consistent'
<1> USE DEF Consistent
<1> DEFINE n == task[e].app
<1>1. /\ n \in App /\ cache \in Rows /\ "Blocked" \in Policy
      /\ cache' = Insert(cache, n, "Blocked")
  BY DEF TypeOK, Mirror, Mirrored, TasksConsistent, Policy
<1> HIDE DEF n
<1>2. /\ DOMAIN cache' = DOMAIN cache \cup {n}
      /\ \A k \in DOMAIN cache' : cache'[k] = IF k = n THEN "Blocked" ELSE cache[k]
  <2>1. DOMAIN Insert(cache, n, "Blocked") = DOMAIN cache \cup {n}
    BY <1>1, InsertRows
  <2>2. \A k \in DOMAIN cache \cup {n} :
          Insert(cache, n, "Blocked")[k] = IF k = n THEN "Blocked" ELSE cache[k]
    BY DEF Insert
  <2>3. QED
    BY <1>1, <2>1, <2>2
<1>3. task' = [task EXCEPT ![e].pc = "send"] /\ UNCHANGED <<db, call, pending, announced, up>>
  BY DEF Mirror, Goto
<1>4. AllowedByUser'
  BY <1>2, <1>3 DEF AllowedByUser, BetweenWrites
<1>5. CallsConsistent' /\ KnownAppsCached' /\ AnnouncedAreStored'
  BY <1>2, <1>3 DEF CallsConsistent, KnownAppsCached, AnnouncedAreStored
<1>6. TasksConsistent'
  BY <1>2, <1>3 DEF n, TypeOK, TaskState, Mirror, TasksConsistent, Persisting
<1>7. OneRequestPerApp'
  BY <1>3 DEF TypeOK, TaskState, Mirror, OneRequestPerApp, Persisting
<1>8. WorkConsistent'
  BY <1>3 DEF TypeOK, Mirror, WorkConsistent
<1>9. QED
  BY <1>4, <1>5, <1>6, <1>7, <1>8

LEMMA SendKeeps ==
  ASSUME TypeOK, Consistent, NEW e \in Evaluator, Send(e)
  PROVE  Consistent'
<1> USE DEF Consistent
<1>1. CallsConsistent' /\ AllowedByUser' /\ KnownAppsCached' /\ AnnouncedAreStored'
  BY DEF Send, CallsConsistent, AllowedByUser, BetweenWrites, KnownAppsCached,
         AnnouncedAreStored
<1>2. task' = [task EXCEPT ![e].pc = "wait"] /\ UNCHANGED <<db, cache, pending, worker>>
  BY DEF Send, Goto
<1>3. TasksConsistent' /\ OneRequestPerApp'
  BY <1>2 DEF TypeOK, TaskState, Send, TasksConsistent, OneRequestPerApp, Persisting
<1>4. /\ Len(queue') = Len(queue) + 1 /\ Len(queue) \in Nat
      /\ \A i \in 1..Len(queue) : queue'[i] = queue[i] /\ queue[i] \in Evaluator
      /\ queue'[Len(queue) + 1] = e
  BY DEF TypeOK, Send
<1>5. \A i \in 1..Len(queue) : queue[i] # e
  BY DEF TypeOK, Send, WorkConsistent
<1>6. e # worker
  BY PolicyAssumption DEF Send, WorkConsistent
<1>7. WorkConsistent'
  <2>1. worker' # None => task'[worker'].pc = "wait"
    BY <1>2, <1>6 DEF TypeOK, WorkConsistent
  <2>2. ASSUME NEW i \in 1..Len(queue')
        PROVE  task'[queue'[i]].pc = "wait" /\ queue'[i] # worker'
    BY <1>2, <1>4, <1>6 DEF TypeOK, TaskState, WorkConsistent
  <2>3. ASSUME NEW i \in 1..Len(queue'), NEW j \in 1..Len(queue'), queue'[i] = queue'[j]
        PROVE  i = j
    BY <1>4, <1>5, <2>3 DEF WorkConsistent
  <2>4. QED
    BY <2>1, <2>2, <2>3 DEF WorkConsistent
<1>8. QED
  BY <1>1, <1>3, <1>7

LEMMA AnnounceKeeps ==
  ASSUME TypeOK, Consistent, NEW e \in Evaluator, Announce(e)
  PROVE  Consistent'
<1> USE DEF Consistent
<1>1. CallsConsistent' /\ AllowedByUser' /\ KnownAppsCached'
  BY DEF Announce, CallsConsistent, AllowedByUser, BetweenWrites, KnownAppsCached
<1>2. AnnouncedAreStored'
  BY DEF Announce, TasksConsistent, AnnouncedAreStored
<1>3. /\ task' = [task EXCEPT ![e].pc = "forget"] /\ task[e].pc = "answered"
      /\ UNCHANGED <<db, cache, pending, queue, worker, up>>
  BY DEF Announce, Goto
<1>4. \A d \in Evaluator \ {e} : task'[d] = task[d]
  BY <1>3
<1>5. task'[e].pc = "forget" /\ task'[e].app = task[e].app /\ task'[e].reply = task[e].reply
  <2>1. task'[e] = [task[e] EXCEPT !.pc = "forget"] /\ task[e] \in TaskState
    BY <1>3 DEF TypeOK
  <2>2. QED
    BY <2>1 DEF TaskState
<1>6. OneRequestPerApp'
  <2>1. \A d \in Evaluator : task'[d].app = task[d].app /\ (Persisting(d)' => Persisting(d))
    BY <1>3, <1>4, <1>5 DEF Persisting
  <2>2. QED
    BY <2>1 DEF OneRequestPerApp
<1>7. TasksConsistent'
  BY <1>3, <1>4, <1>5 DEF TasksConsistent, Persisting
<1>8. WorkConsistent'
  <2>1. \A d \in Evaluator : task[d].pc = "wait" => task'[d].pc = "wait"
    BY <1>3, <1>4
  <2>2. QED
    BY <1>3, <2>1 DEF TypeOK, WorkConsistent
<1>9. QED
  BY <1>1, <1>2, <1>6, <1>7, <1>8

LEMMA FinishKeeps ==
  ASSUME TypeOK, Consistent, NEW e \in Evaluator, Finish(e)
  PROVE  Consistent'
<1> USE DEF Consistent
<1>1. CallsConsistent' /\ AllowedByUser' /\ KnownAppsCached'
  BY DEF Finish, CallsConsistent, AllowedByUser, BetweenWrites, KnownAppsCached
<1>2. AnnouncedAreStored'
  BY DEF Finish, TasksConsistent, AnnouncedAreStored
<1>3. /\ task' = [task EXCEPT ![e] = IdleTask] /\ pending' = pending \ {task[e].app}
      /\ UNCHANGED <<db, cache, queue, worker, up>>
  BY DEF Finish, Forgotten
<1>4. OneRequestPerApp'
  BY <1>3 DEF TypeOK, IdleTask, OneRequestPerApp, Persisting
<1>5. \A d \in Evaluator : d # e /\ Persisting(d) => task[d].app # task[e].app
  BY DEF Finish, OneRequestPerApp, Persisting
<1>6. TasksConsistent'
  BY <1>3, <1>5 DEF TypeOK, IdleTask, TasksConsistent, Persisting
<1>7. WorkConsistent'
  BY <1>3 DEF TypeOK, Announce, Finish, WorkConsistent
<1>8. QED
  BY <1>1, <1>2, <1>4, <1>6, <1>7

(* A step of the worker; calls and cache are as before. *)
LEMMA ReceiveKeeps ==
  ASSUME TypeOK, Consistent, WorkerReceive
  PROVE  Consistent'
<1> USE DEF Consistent
<1>1. CallsConsistent' /\ AllowedByUser' /\ KnownAppsCached' /\ AnnouncedAreStored'
  BY DEF WorkerReceive, CallsConsistent, AllowedByUser, BetweenWrites, KnownAppsCached,
         AnnouncedAreStored
<1>2. TasksConsistent' /\ OneRequestPerApp'
  BY DEF WorkerReceive, TasksConsistent, OneRequestPerApp, Persisting
<1>3. /\ Len(queue) \in Nat \ {0} /\ Len(queue') = Len(queue) - 1
      /\ worker' = queue[1]
      /\ \A i \in 1..Len(queue') : queue'[i] = queue[i + 1]
  BY DEF TypeOK, WorkerReceive
<1>4. WorkConsistent'
  BY <1>3 DEF WorkerReceive, WorkConsistent
<1>5. QED
  BY <1>1, <1>2, <1>4

(* The answer to the discovery that the worker has. *)
LEMMA ReplyKeeps ==
  ASSUME TypeOK, TasksConsistent, OneRequestPerApp, WorkConsistent,
         worker # None, NEW ok \in BOOLEAN, Reply(ok),
         UNCHANGED <<up, cache, pending, queue>>, DOMAIN db \subseteq DOMAIN db',
         ok => task[worker].app \in DOMAIN db'
  PROVE  TasksConsistent' /\ OneRequestPerApp' /\ WorkConsistent'
<1>1. /\ worker \in Evaluator /\ task[worker].pc = "wait" /\ worker' = None
      /\ task' = [task EXCEPT ![worker] = [@ EXCEPT !.pc = "answered", !.reply = ok]]
  BY DEF TypeOK, WorkConsistent, Reply
<1>2. /\ task'[worker].pc = "answered" /\ task'[worker].reply = ok
      /\ task'[worker].app = task[worker].app
      /\ \A d \in Evaluator \ {worker} : task'[d] = task[d]
  BY <1>1 DEF TypeOK, TaskState
<1>3. TasksConsistent'
  BY <1>1, <1>2 DEF TasksConsistent, Persisting
<1>4. OneRequestPerApp'
  BY <1>1, <1>2 DEF OneRequestPerApp, Persisting
<1>5. WorkConsistent'
  <2>1. \A i \in 1..Len(queue) : queue[i] \in Evaluator \ {worker}
    BY DEF TypeOK, WorkConsistent
  <2>2. QED
    BY <1>1, <1>2, <2>1, PolicyAssumption DEF WorkConsistent
<1>6. QED
  BY <1>3, <1>4, <1>5

LEMMA AnswerKeeps ==
  ASSUME TypeOK, Consistent, WorkerReject \/ WorkerFail
  PROVE  Consistent'
<1> USE DEF Consistent
<1>1. /\ worker # None /\ Reply(FALSE)
      /\ UNCHANGED <<up, db, cache, pending, queue, call, announced>>
  BY DEF WorkerReject, WorkerFail, FailureReply
<1>2. CallsConsistent' /\ AllowedByUser' /\ KnownAppsCached' /\ AnnouncedAreStored'
  BY <1>1 DEF CallsConsistent, AllowedByUser, BetweenWrites, KnownAppsCached, AnnouncedAreStored
<1>3. TasksConsistent' /\ OneRequestPerApp' /\ WorkConsistent'
  BY <1>1, ReplyKeeps
<1>4. QED
  BY <1>2, <1>3

(* What storing a row does to the table. *)
LEMMA StoredRows ==
  ASSUME TypeOK, NEW n \in App
  PROVE  /\ DOMAIN Stored(n) = DOMAIN db \cup {n}
         /\ \A k \in DOMAIN db : Stored(n)[k] = db[k]
         /\ n \notin DOMAIN db => Stored(n)[n] = "Blocked"
<1>1. CASE n \in DOMAIN db
  BY <1>1 DEF Stored
<1>2. CASE n \notin DOMAIN db
  <2>1. Stored(n) = Insert(db, n, "Blocked") /\ db \in Rows /\ "Blocked" \in Policy
    BY <1>2 DEF Stored, TypeOK, Policy
  <2>2. DOMAIN Insert(db, n, "Blocked") = DOMAIN db \cup {n}
    BY <2>1, InsertRows
  <2>3. \A k \in DOMAIN db \cup {n} :
          Insert(db, n, "Blocked")[k] = IF k = n THEN "Blocked" ELSE db[k]
    BY DEF Insert
  <2>4. QED
    BY <1>2, <2>1, <2>2, <2>3
<1>3. QED
  BY <1>1, <1>2

LEMMA StoreKeeps ==
  ASSUME TypeOK, Consistent, WorkerStore
  PROVE  Consistent'
<1> USE DEF Consistent
<1> DEFINE n == task[worker].app
<1>1. /\ worker # None /\ Reply(TRUE) /\ up /\ db' = Stored(n)
      /\ UNCHANGED <<up, cache, pending, queue, call, announced>>
  BY DEF WorkerStore
<1>2. n \in App /\ n \in DOMAIN cache
  BY <1>1 DEF TypeOK, WorkConsistent, TasksConsistent
<1> HIDE DEF n
<1>3. DOMAIN db' = DOMAIN db \cup {n} /\ \A k \in DOMAIN db : db'[k] = db[k]
  BY <1>1, <1>2, StoredRows
<1>4. CallsConsistent'
  BY <1>1, <1>3 DEF CallsConsistent
<1>5. AllowedByUser' /\ KnownAppsCached' /\ AnnouncedAreStored'
  BY <1>1, <1>2, <1>3 DEF AllowedByUser, BetweenWrites, KnownAppsCached, AnnouncedAreStored
<1>6. TasksConsistent' /\ OneRequestPerApp' /\ WorkConsistent'
  BY <1>1, <1>3, ReplyKeeps DEF n
<1>7. QED
  BY <1>4, <1>5, <1>6

(* A step of SetAppPolicy; discoveries and worker are as before. *)
LEMMA AskKeeps ==
  ASSUME TypeOK, Consistent, NEW c \in Caller,
         LockPolicy(c) \/ UpdateFails(c) \/ \E n \in App, p \in Policy : SetAppPolicy(c, n, p)
  PROVE  Consistent'
<1> USE DEF Consistent
<1>1. UNCHANGED <<up, db, cache, pending, queue, worker, task, announced>>
  BY DEF LockPolicy, UpdateFails, SetAppPolicy
<1>2. /\ KnownAppsCached' /\ AnnouncedAreStored'
      /\ TasksConsistent' /\ OneRequestPerApp' /\ WorkConsistent'
  BY <1>1 DEF KnownAppsCached, AnnouncedAreStored, TasksConsistent, OneRequestPerApp,
              WorkConsistent, Persisting
<1>3. CASE LockPolicy(c)
  <2>1. CallsConsistent'
    BY <1>3 DEF LockPolicy, PolicyLockFree, TypeOK, CallState, CallsConsistent
  <2>2. AllowedByUser'
    BY <1>3 DEF LockPolicy, TypeOK, CallState, AllowedByUser, BetweenWrites
  <2>3. QED
    BY <1>2, <2>1, <2>2
<1>4. CASE UpdateFails(c)
  <2>1. CallsConsistent' /\ AllowedByUser'
    BY <1>4 DEF UpdateFails, TypeOK, IdleCall, CallsConsistent, AllowedByUser, BetweenWrites
  <2>2. QED
    BY <1>2, <2>1
<1>5. CASE \E n \in App, p \in Policy : SetAppPolicy(c, n, p)
  <2>1. PICK n \in App, p \in Policy : SetAppPolicy(c, n, p)
    BY <1>5
  <2>2. CallsConsistent' /\ AllowedByUser'
    BY <2>1 DEF SetAppPolicy, TypeOK, CallsConsistent, AllowedByUser, BetweenWrites
  <2>3. QED
    BY <1>2, <2>2
<1>6. QED
  BY <1>3, <1>4, <1>5

LEMMA UpdateRowKeeps ==
  ASSUME TypeOK, Consistent, NEW c \in Caller, UpdateRow(c)
  PROVE  Consistent'
<1> USE DEF Consistent
<1> DEFINE n == call[c].app
<1>1. /\ n \in DOMAIN db /\ db' = [db EXCEPT ![n] = call[c].policy]
      /\ call' = [call EXCEPT ![c].pc = "cache"] /\ call[c].pc = "db"
      /\ UNCHANGED <<up, cache, pending, queue, worker, task, announced>>
  BY DEF UpdateRow
<1>2. DOMAIN db' = DOMAIN db
  BY <1>1
<1>3. /\ call'[c].pc = "cache" /\ call'[c].app = n /\ call'[c].policy = call[c].policy
      /\ \A d \in Caller \ {c} : call'[d] = call[d] /\ call[d].pc \notin {"db", "cache"}
  BY <1>1 DEF TypeOK, CallState, CallsConsistent
<1>4. CallsConsistent'
  BY <1>1, <1>2, <1>3 DEF CallsConsistent
<1>5. AllowedByUser'
  BY <1>1, <1>2, <1>3 DEF AllowedByUser, BetweenWrites
<1>6. KnownAppsCached' /\ AnnouncedAreStored'
  BY <1>1, <1>2 DEF KnownAppsCached, AnnouncedAreStored
<1>7. TasksConsistent' /\ OneRequestPerApp' /\ WorkConsistent'
  BY <1>1, <1>2 DEF TasksConsistent, OneRequestPerApp, WorkConsistent, Persisting
<1>8. QED
  BY <1>4, <1>5, <1>6, <1>7

LEMMA UpdateCacheKeeps ==
  ASSUME TypeOK, Consistent, NEW c \in Caller, UpdateCache(c)
  PROVE  Consistent'
<1> USE DEF Consistent
<1> DEFINE n == call[c].app  p == call[c].policy
<1>1. /\ n \in App /\ p \in Policy /\ cache \in Rows
      /\ n \in DOMAIN db /\ db[n] = p
  BY DEF UpdateCache, CallsConsistent, TypeOK, CallState
<1>2. /\ cache' = Insert(cache, n, p) /\ call' = [call EXCEPT ![c] = IdleCall]
      /\ UNCHANGED <<up, db, pending, queue, worker, task, announced>>
  BY DEF UpdateCache
<1>3. \A d \in Caller : d # c => call'[d] = call[d] /\ call[d].pc # "cache"
  BY <1>2 DEF UpdateCache, CallsConsistent, TypeOK
<1>4. CallsConsistent'
  BY <1>2 DEF TypeOK, IdleCall, CallsConsistent
<1>5. \A k \in App : BetweenWrites(k) => k = n
  BY <1>3 DEF BetweenWrites
<1> HIDE DEF n, p
<1>6. DOMAIN cache' = DOMAIN cache \cup {n} /\ DOMAIN cache \subseteq App
  BY <1>1, <1>2, InsertRows, RowsFacts
<1>7. \A k \in DOMAIN cache \cup {n} : cache'[k] = IF k = n THEN p ELSE cache[k]
  BY <1>2 DEF Insert
<1>8. AllowedByUser'
  BY <1>1, <1>2, <1>5, <1>6, <1>7 DEF AllowedByUser
<1>9. KnownAppsCached' /\ AnnouncedAreStored'
  BY <1>2, <1>6 DEF KnownAppsCached, AnnouncedAreStored
<1>10. TasksConsistent' /\ OneRequestPerApp' /\ WorkConsistent'
  BY <1>2, <1>6 DEF TasksConsistent, OneRequestPerApp, WorkConsistent, Persisting
<1>11. QED
  BY <1>4, <1>8, <1>9, <1>10

LEMMA RestartKeeps ==
  ASSUME TypeOK, Consistent, Crash \/ Build
  PROVE  Consistent'
<1> USE DEF Consistent
<1>1. CASE Crash
  <2>1. /\ up' = FALSE /\ DOMAIN cache' = {} /\ announced' = {} /\ queue' = <<>>
        /\ worker' = None
        /\ \A e \in Evaluator : task'[e] = IdleTask
        /\ \A c \in Caller : call'[c] = IdleCall
    BY <1>1, NoRowsAreRows DEF Crash
  <2>2. CallsConsistent' /\ AllowedByUser' /\ KnownAppsCached' /\ AnnouncedAreStored'
    BY <2>1 DEF IdleCall, CallsConsistent, AllowedByUser, KnownAppsCached, AnnouncedAreStored
  <2>3. TasksConsistent' /\ OneRequestPerApp' /\ WorkConsistent'
    BY <2>1 DEF IdleTask, TasksConsistent, OneRequestPerApp, WorkConsistent, Persisting
  <2>4. QED
    BY <2>2, <2>3
<1>2. CASE Build
  <2>1. /\ ~up /\ cache' = db
        /\ UNCHANGED <<db, pending, queue, worker, task, call, announced>>
    BY <1>2 DEF Build
  <2>2. CallsConsistent' /\ AllowedByUser' /\ KnownAppsCached' /\ AnnouncedAreStored'
    BY <2>1 DEF CallsConsistent, AllowedByUser, KnownAppsCached, AnnouncedAreStored
  <2>3. TasksConsistent' /\ OneRequestPerApp' /\ WorkConsistent'
    BY <2>1 DEF TasksConsistent, OneRequestPerApp, WorkConsistent, Persisting
  <2>4. QED
    BY <2>2, <2>3
<1>3. QED
  BY <1>1, <1>2

(***************************************************************************)
(* Theorems                                                                 *)
(***************************************************************************)

LEMMA InvSplits == PolicyInv <=> TypeOK /\ Consistent
BY DEF PolicyInv, Consistent

LEMMA Initially == Init => PolicyInv
<1> SUFFICES ASSUME Init PROVE TypeOK /\ Consistent
  BY InvSplits
<1>1. /\ up = TRUE /\ db \in Rows /\ cache = db /\ pending = {} /\ queue = <<>>
      /\ worker = None /\ announced = {}
      /\ task = [e \in Evaluator |-> IdleTask] /\ call = [c \in Caller |-> IdleCall]
  BY DEF Init
<1>2. TypeOK
  <2>1. IdleTask \in TaskState /\ IdleCall \in CallState
    BY DEF IdleTask, TaskState, IdleCall, CallState, Policy
  <2>2. left \in [eval: Nat, call: Nat, fault: Nat, stop: Nat]
    BY PolicyAssumption DEF Init
  <2>3. queue \in Seq(Evaluator) /\ Len(queue) <= QueueSize
    BY <1>1, PolicyAssumption
  <2>4. QED
    BY <1>1, <2>1, <2>2, <2>3 DEF TypeOK
<1>3. CallsConsistent /\ AllowedByUser /\ KnownAppsCached /\ AnnouncedAreStored
  BY <1>1 DEF IdleCall, CallsConsistent, AllowedByUser, KnownAppsCached, AnnouncedAreStored
<1>4. TasksConsistent /\ OneRequestPerApp /\ WorkConsistent
  BY <1>1 DEF IdleTask, TasksConsistent, OneRequestPerApp, WorkConsistent, Persisting
<1>5. QED
  BY <1>2, <1>3, <1>4 DEF Consistent

LEMMA Preserved == PolicyInv /\ [Next]_vars => PolicyInv'
<1> SUFFICES ASSUME PolicyInv, [Next]_vars PROVE PolicyInv'
  OBVIOUS
<1>1. /\ TypeOK /\ Consistent
      /\ TasksConsistent /\ WorkConsistent /\ CallsConsistent
  BY InvSplits DEF Consistent
<1> DEFINE Joined == TypeOK /\ Consistent
<1>2. Joined' => PolicyInv'
  BY DEF PolicyInv, Consistent
<1>3. ASSUME NEW e \in Evaluator, Discovery(e) PROVE Joined'
  BY <1>1, <1>3, DiscoveryType, ClaimKeeps, MirrorKeeps, SendKeeps, AnnounceKeeps, FinishKeeps DEF Discovery
<1>4. ASSUME NEW e \in Evaluator, NEW n \in App, Evaluate(e, n) PROVE Joined'
  BY <1>1, <1>4, DiscoveryType, EvaluateKeeps
<1>5. ASSUME Worker PROVE Joined'
  BY <1>1, <1>5, WorkerType, ReceiveKeeps, AnswerKeeps, StoreKeeps DEF Worker
<1>6. ASSUME NEW c \in Caller, LockPolicy(c) \/ Update(c) PROVE Joined'
  BY <1>1, <1>6, CallType, AskKeeps, UpdateRowKeeps, UpdateCacheKeeps DEF Update
<1>7. ASSUME NEW c \in Caller, NEW n \in App, NEW p \in Policy, SetAppPolicy(c, n, p)
      PROVE  Joined'
  BY <1>1, <1>7, CallType, AskKeeps
<1>8. ASSUME Crash \/ Build PROVE Joined'
  BY <1>1, <1>8, RestartType, RestartKeeps
<1>9. ASSUME UNCHANGED vars PROVE Joined'
  <2>1. TypeOK'
    BY <1>1, <1>9 DEF vars, TypeOK
  <2>2. Consistent'
    BY <1>1, <1>9 DEF vars, Consistent, CallsConsistent, TasksConsistent, WorkConsistent,
         AllowedByUser, BetweenWrites, KnownAppsCached, OneRequestPerApp, Persisting,
         AnnouncedAreStored
  <2>3. QED
    BY <2>1, <2>2
<1> HIDE DEF Joined
<1>10. Joined'
  BY <1>3, <1>4, <1>5, <1>6, <1>7, <1>8, <1>9 DEF Next
<1>11. QED
  BY <1>2, <1>10

(* The inductive invariant holds: types, lock and queue discipline, and the   *)
(* agreement of cache, table and pending set.                                 *)
THEOREM PolicyHolds == Spec => []PolicyInv
BY Initially, Preserved, PTL DEF Spec

(* A cached Allowed is the user's, up to a call between its two writes.       *)
THEOREM AllowedHolds == Spec => []AllowedByUser
<1>1. PolicyInv => AllowedByUser
  BY DEF PolicyInv
<1>2. QED
  BY <1>1, PolicyHolds, PTL

(* A running daemon has every stored application in its cache.                *)
THEOREM CachedHolds == Spec => []KnownAppsCached
<1>1. PolicyInv => KnownAppsCached
  BY DEF PolicyInv
<1>2. QED
  BY <1>1, PolicyHolds, PTL

(* At most one persistence request is under way per application.              *)
THEOREM OneRequestHolds == Spec => []OneRequestPerApp
<1>1. PolicyInv => OneRequestPerApp
  BY DEF PolicyInv
<1>2. QED
  BY <1>1, PolicyHolds, PTL

(* NewAppAdded is emitted for applications that have a row only.              *)
THEOREM AnnouncedHold == Spec => []AnnouncedAreStored
<1>1. PolicyInv => AnnouncedAreStored
  BY DEF PolicyInv
<1>2. QED
  BY <1>1, PolicyHolds, PTL

(* Faults are only spent: what has no fault now had none before.              *)
FaultsSpent == left.fault <= MaxFaults

LEMMA FaultsOnlySpent ==
  ASSUME TypeOK, FaultsSpent, [Next]_vars
  PROVE  FaultsSpent' /\ (left'.fault = MaxFaults => left.fault = MaxFaults)
<1>1. left \in [eval: Nat, call: Nat, fault: Nat, stop: Nat] /\ MaxFaults \in Nat
  BY PolicyAssumption DEF TypeOK
<1>2. left'.fault = left.fault \/ (left.fault > 0 /\ left'.fault = left.fault - 1)
  <2>1. CASE UNCHANGED left
    BY <2>1
  <2>2. CASE Fault
    BY <2>2, <1>1 DEF Fault
  <2>3. CASE \E e \in Evaluator, n \in App : Evaluate(e, n)
    BY <2>3, <1>1 DEF Evaluate
  <2>4. CASE \E c \in Caller, n \in App, p \in Policy : SetAppPolicy(c, n, p)
    BY <2>4, <1>1 DEF SetAppPolicy
  <2>5. CASE Crash
    BY <2>5, <1>1 DEF Crash
  <2>6. CASE \E e \in Evaluator : Discovery(e)
    BY <2>1, <2>6 DEF Discovery, Claim, Mirror, Send, Announce, Finish
  <2>7. CASE Worker
    BY <2>1, <2>2, <2>7 DEF Worker, WorkerReceive, WorkerReject, WorkerStore, WorkerFail, NoFault
  <2>8. CASE \E c \in Caller : LockPolicy(c) \/ Update(c)
    BY <2>1, <2>2, <2>8 DEF LockPolicy, Update, UpdateRow, UpdateFails, UpdateCache, NoFault
  <2>9. CASE Build \/ UNCHANGED vars
    BY <2>1, <2>9 DEF Build, vars
  <2>10. QED
    BY <2>3, <2>4, <2>5, <2>6, <2>7, <2>8, <2>9 DEF Next
<1>3. QED
  BY <1>1, <1>2 DEF FaultsSpent

(* A table stays free of shared desktop files when a row is added that shares *)
(* none: sharing is symmetric.                                               *)
LEMMA AddedSharesNone ==
  ASSUME NEW known, NEW n, ~SharesDesktop(n, known),
         \A k \in known : ~SharesDesktop(k, known)
  PROVE  \A k \in known \cup {n} : ~SharesDesktop(k, known \cup {n})
BY DEF SharesDesktop

(* Only the worker adds rows: every other step keeps the names of the table.  *)
LEMMA RowsAdded ==
  ASSUME TypeOK, [Next]_vars
  PROVE  WorkerStore \/ DOMAIN db' = DOMAIN db
<1>1. CASE \E e \in Evaluator : Discovery(e) \/ \E n \in App : Evaluate(e, n)
  BY <1>1 DEF Discovery, Claim, Mirror, Send, Announce, Finish, Evaluate
<1>2. CASE Worker
  BY <1>2 DEF Worker, WorkerReceive, WorkerReject, WorkerFail
<1>3. CASE \E c \in Caller : UpdateRow(c)
  BY <1>3 DEF UpdateRow
<1>4. CASE \E c \in Caller : \/ LockPolicy(c) \/ UpdateFails(c) \/ UpdateCache(c)
                              \/ \E n \in App, p \in Policy : SetAppPolicy(c, n, p)
  BY <1>4 DEF LockPolicy, UpdateFails, UpdateCache, SetAppPolicy
<1>5. CASE Crash \/ Build \/ UNCHANGED vars
  BY <1>5 DEF Crash, Build, vars
<1>6. QED
  BY <1>1, <1>2, <1>3, <1>4, <1>5 DEF Next, Update

(* While no query fails no two rows have the same desktop file, however many  *)
(* discoveries overlap and whatever crashes: the worker asks and inserts in    *)
(* one place.                                                                *)
THEOREM OneRowHolds == Spec => []OneRowPerDesktopFile
<1>1. Init => FaultsSpent /\ OneRowPerDesktopFile
  BY PolicyAssumption DEF Init, FaultsSpent, OneRowPerDesktopFile
<1>2. PolicyInv /\ FaultsSpent /\ OneRowPerDesktopFile /\ [Next]_vars
      => FaultsSpent' /\ OneRowPerDesktopFile'
  <2> SUFFICES ASSUME PolicyInv, FaultsSpent, OneRowPerDesktopFile, [Next]_vars
               PROVE  FaultsSpent' /\ OneRowPerDesktopFile'
    OBVIOUS
  <2>1. TypeOK /\ TasksConsistent /\ WorkConsistent
    BY DEF PolicyInv
  <2>2. FaultsSpent' /\ (left'.fault = MaxFaults => left.fault = MaxFaults)
    BY <2>1, FaultsOnlySpent
  <2>3. CASE DOMAIN db' = DOMAIN db
    BY <2>2, <2>3 DEF OneRowPerDesktopFile, SharesDesktop
  <2>4. CASE WorkerStore
    <3> DEFINE n == task[worker].app
    <3>1. n \in App /\ db' = Stored(n)
      BY <2>1, <2>4 DEF WorkerStore, TypeOK, WorkConsistent, TasksConsistent
    <3>2. left'.fault = MaxFaults => ~SharesDesktop(n, DOMAIN db)
      <4>1. Duplicate(n) => Fault
        BY <2>4 DEF WorkerStore
      <4>2. Fault => left'.fault < left.fault
        BY <2>1 DEF Fault, TypeOK
      <4>3. left.fault \in Nat /\ left'.fault = MaxFaults => ~(left'.fault < left.fault)
        BY <2>2, PolicyAssumption
      <4>4. QED
        BY <2>1, <4>1, <4>2, <4>3 DEF Duplicate, TypeOK
    <3>3. DOMAIN db' = DOMAIN db \cup {n}
      BY <2>1, <3>1, StoredRows
    <3> HIDE DEF n
    <3>4. QED
      BY <2>2, <3>2, <3>3, AddedSharesNone DEF OneRowPerDesktopFile
  <2>5. QED
    BY <2>1, <2>3, <2>4, RowsAdded
<1>3. QED
  BY <1>1, <1>2, PolicyHolds, PTL DEF Spec

-----------------------------------------------------------------------------
(* Implementation of PolicyStore *)

LEMMA StoreInit == Init => Store!Init
<1> SUFFICES ASSUME Init PROVE Store!Init
  OBVIOUS
<1>1. Asked = {}
  BY DEF Init, IdleCall, Asked
<1>2. db \in Rows
  BY DEF Init
<1>3. QED
  BY <1>1, <1>2 DEF Store!Init, Rows

LEMMA StoreStep == PolicyInv /\ PolicyInv' /\ [Next]_vars => [Store!Next]_<<db, Asked>>
<1> SUFFICES ASSUME PolicyInv, PolicyInv', [Next]_vars PROVE [Store!Next]_<<db, Asked>>
  OBVIOUS
<1>1. /\ TypeOK /\ CallsConsistent /\ TasksConsistent /\ WorkConsistent
      /\ TypeOK' /\ CallsConsistent'
  BY DEF PolicyInv
<1>2. CASE UNCHANGED db
  <2>1. Asked' \subseteq App \X Policy
    BY <1>1 DEF TypeOK, CallState, CallsConsistent, Asked
  <2>2. QED
    BY <1>2, <2>1 DEF Store!Next, Store!AskOrAnswer
<1>3. CASE WorkerStore
  <2> DEFINE n == task[worker].app
  <2>1. n \in App /\ db' = Stored(n) /\ UNCHANGED call
    BY <1>1, <1>3 DEF WorkerStore, TypeOK, WorkConsistent, TasksConsistent
  <2> HIDE DEF n
  <2>2. UNCHANGED Asked
    BY <2>1 DEF Asked
  <2>3. CASE n \in DOMAIN db
    BY <1>2, <2>1, <2>3 DEF Stored
  <2>4. CASE n \notin DOMAIN db
    <3>1. db' = [k \in DOMAIN db \cup {n} |-> IF k = n THEN "Blocked" ELSE db[k]]
      BY <2>1, <2>4 DEF Stored, Insert
    <3>2. Store!Discover(n)
      BY <2>2, <2>4, <3>1 DEF Store!Discover
    <3>3. QED
      BY <2>1, <3>2 DEF Store!Next
  <2>5. QED
    BY <2>3, <2>4
<1>4. ASSUME NEW c \in Caller, UpdateRow(c) PROVE Store!Next
  <2> DEFINE n == call[c].app  p == call[c].policy
  <2>1. /\ n \in DOMAIN db /\ n \in App /\ p \in Policy /\ <<n, p>> \in Asked
        /\ db' = [db EXCEPT ![n] = p]
    BY <1>1, <1>4 DEF UpdateRow, TypeOK, CallState, CallsConsistent, Asked
  <2>2. ASSUME NEW d \in Caller
        PROVE  /\ (call'[d].pc # "idle") = (call[d].pc # "idle")
               /\ <<call'[d].app, call'[d].policy>> = <<call[d].app, call[d].policy>>
    BY <1>1, <1>4 DEF UpdateRow, TypeOK, CallState
  <2>3. Asked' = Asked
    <3>1. Asked' \subseteq Asked
      BY <2>2 DEF Asked
    <3>2. Asked \subseteq Asked'
      BY <2>2 DEF Asked
    <3>3. QED
      BY <3>1, <3>2
  <2> HIDE DEF n, p
  <2>4. Store!Decide(n, p)
    BY <2>1, <2>3 DEF Store!Decide
  <2>5. QED
    BY <2>1, <2>4 DEF Store!Next
<1>5. UNCHANGED db \/ WorkerStore \/ \E c \in Caller : UpdateRow(c)
  BY DEF Next, vars, Discovery, Claim, Mirror, Send, Announce, Finish, Evaluate, Worker, WorkerReceive,
         WorkerReject, WorkerFail, LockPolicy, Update, UpdateFails, UpdateCache, SetAppPolicy,
         Crash, Build
<1>6. QED
  BY <1>2, <1>3, <1>4, <1>5

(* The table is a PolicyStore: rows enter it blocked and change only to what   *)
(* a user asks for, whatever overlaps, fails or crashes.                       *)
THEOREM StoreImplemented == Spec => ImplementsStore
<1>1. Spec => Store!Spec
  BY StoreInit, StoreStep, PolicyHolds, PTL DEF Spec, Store!Spec
<1>2. QED
  BY <1>1 DEF ImplementsStore

(***************************************************************************)
(* Progress                                                                *)
(***************************************************************************)

(* What FairSpec assumes of discoveries and of the worker, with the guards of  *)
(* the actions in place of ENABLED.                                           *)
Goes(e)    == Claim(e) \/ Mirror(e) \/ Announce(e) \/ Finish(e)
CanGo(e)   == up /\ task[e].pc \in {"claim", "mirror", "answered", "forget"}
CanSend(e) == up /\ task[e].pc = "send" /\ Room
CanWork    == up /\ (worker # None \/ queue # <<>>)
GoesOn(e)  == []<>(~CanGo(e)) \/ []<><<Goes(e)>>_vars
SendsOn(e) == <>[](~CanSend(e)) \/ []<><<Send(e)>>_vars
TaskFairness == \A e \in Evaluator : GoesOn(e) /\ SendsOn(e)
GuardFairness == /\ []<>(~CanWork) \/ []<><<Worker>>_vars
                 /\ []TaskFairness

(* A pending application has the discovery that will remove it, and what waits *)
(* for the worker is with the worker or queued for it.                        *)
Tended == \A n \in pending : \E e \in Evaluator : Persisting(e) /\ task[e].app = n
Queued(e) == \E i \in DOMAIN queue : queue[i] = e
Served == \A e \in Evaluator : task[e].pc = "wait" => worker = e \/ Queued(e)
Attended == PolicyInv /\ Tended /\ Served

(* What a step does to a task. *)
LEMMA TaskMoves ==
  ASSUME PolicyInv, NEW e \in Evaluator, [Next]_vars
  PROVE  \/ task'[e] = task[e]
         \/ Goes(e) \/ Send(e) \/ \E n \in App : Evaluate(e, n)
         \/ worker = e /\ (WorkerReject \/ WorkerStore \/ WorkerFail)
         \/ Crash
<1> USE DEF PolicyInv, TypeOK
<1>1. ASSUME NEW d \in Evaluator \ {e}, Discovery(d) PROVE task'[e] = task[e]
  BY <1>1 DEF Discovery, Claim, Mirror, Send, Announce, Finish, Goto
<1>2. ASSUME NEW d \in Evaluator \ {e}, NEW n \in App, Evaluate(d, n) PROVE task'[e] = task[e]
  BY <1>2 DEF Evaluate
<1>3. ASSUME worker # e, WorkerReject \/ WorkerStore \/ WorkerFail PROVE task'[e] = task[e]
  BY <1>3 DEF WorkerReject, WorkerStore, WorkerFail, Reply
<1>4. ASSUME \/ WorkerReceive \/ Build \/ UNCHANGED vars
             \/ \E c \in Caller : \/ LockPolicy(c) \/ Update(c)
                                  \/ \E n \in App, p \in Policy : SetAppPolicy(c, n, p)
      PROVE  task'[e] = task[e]
  BY <1>4 DEF WorkerReceive, Build, vars, LockPolicy, Update, UpdateRow, UpdateFails, UpdateCache,
              SetAppPolicy
<1>5. QED
  BY <1>1, <1>2, <1>3, <1>4 DEF Next, Worker, Discovery, Goes

(* The stages of a discovery of n. *)
Stage(e, n, pc) == task[e].pc = pc /\ task[e].app = n
Ended(n) == n \notin pending

LEMMA CrashEnds == ASSUME NEW n, Crash PROVE Ended(n)'
BY DEF Crash, Ended

LEMMA MirrorStep ==
  ASSUME PolicyInv, NEW e \in Evaluator, NEW n \in App, Stage(e, n, "mirror"), [Next]_vars
  PROVE  (~Goes(e) /\ Stage(e, n, "mirror")') \/ Stage(e, n, "send")' \/ Ended(n)'
<1>1. task[e] \in TaskState
  BY DEF PolicyInv, TypeOK
<1>2. CASE Goes(e)
  BY <1>1, <1>2 DEF PolicyInv, TypeOK, Stage, Goes, Claim, Mirror, Announce, Finish, Goto, TaskState
<1>3. CASE task'[e] = task[e] /\ ~Goes(e)
  BY <1>3 DEF Stage
<1>4. ~Send(e) /\ \A k \in App : ~Evaluate(e, k)
  BY DEF Stage, Send, Evaluate
<1>5. ~(worker = e /\ worker # None)
  BY DEF PolicyInv, WorkConsistent, Stage
<1>6. QED
  BY <1>2, <1>3, <1>4, <1>5, TaskMoves, CrashEnds DEF WorkerReject, WorkerStore, WorkerFail

LEMMA SendStep ==
  ASSUME PolicyInv, NEW e \in Evaluator, NEW n \in App, Stage(e, n, "send"), [Next]_vars
  PROVE  (~Send(e) /\ Stage(e, n, "send")') \/ Stage(e, n, "wait")' \/ Ended(n)'
<1>1. task[e] \in TaskState
  BY DEF PolicyInv, TypeOK
<1>2. CASE Send(e)
  BY <1>1, <1>2 DEF PolicyInv, TypeOK, Stage, Send, Goto, TaskState
<1>3. CASE task'[e] = task[e] /\ ~Send(e)
  BY <1>3 DEF Stage
<1>4. ~Goes(e) /\ \A k \in App : ~Evaluate(e, k)
  BY DEF Stage, Goes, Claim, Mirror, Announce, Finish, Evaluate
<1>5. ~(worker = e /\ worker # None)
  BY DEF PolicyInv, WorkConsistent, Stage
<1>6. QED
  BY <1>2, <1>3, <1>4, <1>5, TaskMoves, CrashEnds DEF WorkerReject, WorkerStore, WorkerFail

LEMMA WaitStep ==
  ASSUME PolicyInv, NEW e \in Evaluator, NEW n \in App, Stage(e, n, "wait"), [Next]_vars
  PROVE  \/ Stage(e, n, "wait")' /\ task'[e] = task[e] /\ ~(Worker /\ worker = e)
         \/ Stage(e, n, "answered")' \/ Ended(n)'
<1>1. task[e] \in TaskState /\ task \in [Evaluator -> TaskState]
  BY DEF PolicyInv, TypeOK
<1>2. ASSUME worker = e, WorkerReject \/ WorkerStore \/ WorkerFail PROVE Stage(e, n, "answered")'
  <2>1. PICK ok : task' = [task EXCEPT ![e].pc = "answered", ![e].reply = ok]
    BY <1>2 DEF WorkerReject, WorkerStore, WorkerFail, Reply
  <2>2. QED
    BY <1>1, <2>1 DEF Stage, TaskState
<1>3. ~Goes(e) /\ ~Send(e) /\ \A k \in App : ~Evaluate(e, k)
  BY DEF Stage, Goes, Claim, Mirror, Send, Announce, Finish, Evaluate
<1>4. worker = e => ~WorkerReceive
  BY PolicyAssumption DEF WorkerReceive
<1>5. CASE task'[e] = task[e] /\ ~(worker = e /\ (WorkerReject \/ WorkerStore \/ WorkerFail))
  BY <1>4, <1>5 DEF Stage, Worker
<1>6. QED
  BY <1>2, <1>3, <1>5, TaskMoves, CrashEnds

LEMMA AnsweredStep ==
  ASSUME PolicyInv, NEW e \in Evaluator, NEW n \in App, Stage(e, n, "answered"), [Next]_vars
  PROVE  (~Goes(e) /\ Stage(e, n, "answered")') \/ Stage(e, n, "forget")' \/ Ended(n)'
<1>1. CASE Goes(e)
  BY <1>1 DEF PolicyInv, TypeOK, TaskState, Stage, Goes, Claim, Mirror, Announce, Finish, Goto
<1>2. CASE task'[e] = task[e] /\ ~Goes(e)
  BY <1>2 DEF Stage
<1>3. ~Send(e) /\ \A k \in App : ~Evaluate(e, k)
  BY DEF Stage, Send, Evaluate
<1>4. ~(worker = e /\ worker # None)
  BY DEF PolicyInv, WorkConsistent, Stage
<1>5. QED
  BY <1>1, <1>2, <1>3, <1>4, TaskMoves, CrashEnds DEF WorkerReject, WorkerStore, WorkerFail

LEMMA ForgetStep ==
  ASSUME PolicyInv, NEW e \in Evaluator, NEW n \in App, Stage(e, n, "forget"), [Next]_vars
  PROVE  (~Goes(e) /\ Stage(e, n, "forget")') \/ Ended(n)'
<1>1. CASE Goes(e)
  BY <1>1 DEF Stage, Goes, Claim, Mirror, Announce, Finish, Forgotten, Ended
<1>2. CASE task'[e] = task[e] /\ ~Goes(e)
  BY <1>2 DEF Stage
<1>3. ~Send(e) /\ \A k \in App : ~Evaluate(e, k)
  BY DEF Stage, Send, Evaluate
<1>4. ~(worker = e /\ worker # None)
  BY DEF PolicyInv, WorkConsistent, Stage
<1>5. QED
  BY <1>1, <1>2, <1>3, <1>4, TaskMoves, CrashEnds DEF WorkerReject, WorkerStore, WorkerFail

(* The two facts are kept. *)
LEMMA TendedKept ==
  ASSUME PolicyInv, Tended, [Next]_vars
  PROVE  Tended'
<1> SUFFICES ASSUME NEW n \in pending' PROVE \E e \in Evaluator : Persisting(e)' /\ task'[e].app = n
  BY DEF Tended
<1>0. task \in [Evaluator -> TaskState] /\ pending \subseteq App
  BY DEF PolicyInv, TypeOK
<1>1. CASE n \in pending
  <2>1. PICK e \in Evaluator : Persisting(e) /\ task[e].app = n
    BY <1>1 DEF Tended
  <2>2. task[e].pc \in {"mirror", "send", "wait", "answered", "forget"} /\ n \in App
    BY <1>0, <1>1, <2>1 DEF Persisting, TaskState
  <2>3. ~Ended(n)'
    BY DEF Ended
  <2>4. \E pc \in {"mirror", "send", "wait", "answered", "forget"} : Stage(e, n, pc)'
    BY <2>1, <2>2, <2>3, MirrorStep, SendStep, WaitStep, AnsweredStep, ForgetStep DEF Stage
  <2>5. QED
    BY <2>4 DEF Stage, Persisting
<1>2. CASE n \notin pending
  <2>1. PICK e \in Evaluator : Claim(e)
    BY <1>2 DEF Next, vars, Discovery, Mirror, Send, Announce, Finish, Forgotten, Evaluate, Worker, WorkerReceive,
         WorkerReject, WorkerStore, WorkerFail, LockPolicy, Update, UpdateRow, UpdateFails, UpdateCache,
         SetAppPolicy, Crash, Build
  <2>2. task' = [task EXCEPT ![e].pc = "mirror"] /\ task[e].app = n
    BY <1>2, <2>1 DEF Claim, Goto
  <2>3. QED
    BY <1>0, <2>2 DEF Persisting, TaskState
<1>3. QED
  BY <1>1, <1>2

(* A place in the queue comes nearer to the worker. *)
LEMMA QueueMoves ==
  ASSUME PolicyInv, NEW i \in DOMAIN queue, [Next]_vars
  PROVE  \/ i \in DOMAIN queue' /\ queue'[i] = queue[i] /\ ~(Worker /\ worker = None)
         \/ WorkerReceive /\ i = 1 /\ worker' = queue[1]
         \/ WorkerReceive /\ i > 1 /\ i - 1 \in DOMAIN queue' /\ queue'[i - 1] = queue[i]
         \/ Crash
<1>1. queue \in Seq(Evaluator) /\ Len(queue) \in Nat /\ i \in 1..Len(queue) /\ DOMAIN queue = 1..Len(queue)
  BY DEF PolicyInv, TypeOK
<1>2. CASE WorkerReceive
  <2>1. worker' = queue[1] /\ queue' = Tail(queue) /\ queue # <<>>
    BY <1>1, <1>2 DEF WorkerReceive
  <2>2. Len(queue') = Len(queue) - 1 /\ \A j \in 1..Len(queue') : queue'[j] = queue[j + 1]
    BY <1>1, <2>1
  <2>3. DOMAIN queue' = 1..Len(queue')
    BY <1>1, <2>1
  <2>4. QED
    BY <1>1, <1>2, <2>1, <2>2, <2>3
<1>3. ASSUME NEW e \in Evaluator, Send(e) PROVE i \in DOMAIN queue' /\ queue'[i] = queue[i] /\ ~Worker
  <2>1. queue' = Append(queue, e)
    BY <1>3 DEF Send
  <2>2. i \in DOMAIN queue' /\ queue'[i] = queue[i]
    BY <1>1, <2>1
  <2>3. queue' # queue
    <3>1. Len(queue') = Len(queue) + 1
      BY <1>1, <2>1
    <3>2. QED
      BY <1>1, <3>1
  <2>4. ~Worker
    <3>1. worker' = worker /\ task' = [task EXCEPT ![e].pc = "wait"] /\ queue' # <<>>
      BY <1>1, <1>3, <2>1 DEF Send, Goto
    <3>2. ~WorkerReceive
      BY <3>1, PolicyAssumption DEF WorkerReceive, PolicyInv, TypeOK, WorkConsistent, Send
    <3>3. QED
      BY <2>3, <3>2 DEF Worker, WorkerReject, WorkerStore, WorkerFail
  <2>5. QED
    BY <2>2, <2>4
<1>4. CASE ~WorkerReceive /\ ~Crash /\ ~\E e \in Evaluator : Send(e)
  <2>1. queue' = queue
    BY <1>4 DEF Next, vars, Discovery, Claim, Mirror, Announce, Finish, Evaluate, Worker,
         WorkerReject, WorkerStore, WorkerFail, LockPolicy, Update, UpdateRow, UpdateFails, UpdateCache,
         SetAppPolicy, Build
  <2>2. QED
    BY <1>4, <2>1 DEF Worker, WorkerReject, WorkerStore, WorkerFail
<1>5. QED
  BY <1>2, <1>3, <1>4

LEMMA ServedKept ==
  ASSUME PolicyInv, Served, [Next]_vars
  PROVE  Served'
<1> SUFFICES ASSUME NEW e \in Evaluator, task'[e].pc = "wait" PROVE worker' = e \/ Queued(e)'
  BY DEF Served
<1>0. /\ task \in [Evaluator -> TaskState] /\ task[e] \in TaskState
      /\ queue \in Seq(Evaluator) /\ DOMAIN queue = 1..Len(queue) /\ Len(queue) \in Nat
  BY DEF PolicyInv, TypeOK
<1>1. CASE Send(e)
  <2>1. queue' = Append(queue, e)
    BY <1>1 DEF Send
  <2>2. Len(queue) + 1 \in DOMAIN queue' /\ queue'[Len(queue) + 1] = e
    BY <1>0, <2>1
  <2>3. QED
    BY <2>2 DEF Queued
<1>2. CASE ~Send(e)
  <2>1. ~Crash
    BY DEF Crash, IdleTask
  <2>2. task[e].pc = "wait" /\ ~(worker = e /\ (WorkerReject \/ WorkerStore \/ WorkerFail))
    <3>1. Goes(e) => task'[e].pc # "wait"
      BY <1>0 DEF Goes, Claim, Mirror, Announce, Finish, Goto, IdleTask, TaskState
    <3>2. ASSUME NEW n \in App, Evaluate(e, n) PROVE task'[e].pc # "wait"
      BY <1>0, <3>2 DEF Evaluate
    <3>3. worker = e /\ (WorkerReject \/ WorkerStore \/ WorkerFail) => task'[e].pc # "wait"
      BY <1>0 DEF WorkerReject, WorkerStore, WorkerFail, Reply, TaskState
    <3>4. QED
      BY <1>2, <2>1, <3>1, <3>2, <3>3, TaskMoves
  <2>3. CASE worker = e
    <3>1. ~WorkerReceive
      BY <2>3, PolicyAssumption DEF WorkerReceive
    <3>2. worker' = worker
      BY <2>1, <2>2, <2>3, <3>1 DEF Next, vars, Discovery, Claim, Mirror, Send, Announce, Finish, Evaluate, Worker,
           LockPolicy, Update, UpdateRow, UpdateFails, UpdateCache, SetAppPolicy, Build
    <3>3. QED
      BY <2>3, <3>2
  <2>4. CASE Queued(e)
    <3>1. PICK i \in DOMAIN queue : queue[i] = e
      BY <2>4 DEF Queued
    <3>2. QED
      BY <2>1, <3>1, QueueMoves DEF Queued
  <2>5. QED
    BY <2>2, <2>3, <2>4 DEF Served
<1>3. QED
  BY <1>1, <1>2

(* Every pending application is attended to: the discovery that claimed it is  *)
(* still under way, and the worker has its request or will find it in the      *)
(* queue (discover_app, the worker thread).                                   *)
THEOREM AttendedHolds == Spec => []Attended
<1>1. Init => Tended /\ Served
  BY DEF Init, Tended, Served, IdleTask
<1>2. PolicyInv /\ Tended /\ Served /\ [Next]_vars => (Tended /\ Served)'
  BY TendedKept, ServedKept
<1>3. QED
  BY <1>1, <1>2, PolicyHolds, PTL DEF Spec, Attended

(***************************************************************************)
(* Each stage of a discovery is left                                        *)
(***************************************************************************)

Ends(e, n, pc) == Stage(e, n, pc) ~> Ended(n)
GoesFrom(e, n, pc, next) == Stage(e, n, pc) ~> (Stage(e, n, next) \/ Ended(n))
InQueue(e, n, i) == Stage(e, n, "wait") /\ i \in DOMAIN queue /\ queue[i] = e
Working(e, n) == Stage(e, n, "wait") /\ worker = e
Advances(e, n, i) == InQueue(e, n, i) ~> (InQueue(e, n, i - 1) \/ Working(e, n) \/ Ended(n))

LEMMA StageIsUp ==
  ASSUME PolicyInv, NEW e \in Evaluator, NEW n,
         NEW pc \in {"mirror", "send", "wait", "answered", "forget"},
         Stage(e, n, pc)
  PROVE  up
BY DEF PolicyInv, TasksConsistent, Stage

LEMMA ForgetEnds ==
  ASSUME NEW e \in Evaluator, NEW n \in App
  PROVE  []Attended /\ [][Next]_vars /\ GuardFairness => Ends(e, n, "forget")
<1> SUFFICES ASSUME []Attended, [][Next]_vars, []GuardFairness
             PROVE  Stage(e, n, "forget") ~> Ended(n)
  BY PTL DEF GuardFairness, Ends
<1>1. Attended /\ Stage(e, n, "forget") /\ [Next]_vars => Stage(e, n, "forget")' \/ Ended(n)'
  BY ForgetStep DEF Attended
<1>2. Attended /\ Stage(e, n, "forget") /\ <<Goes(e)>>_vars => Ended(n)'
  <2>1. <<Goes(e)>>_vars => Goes(e) /\ [Next]_vars
    BY DEF Next, Discovery, Goes
  <2>2. QED
    BY <2>1, ForgetStep DEF Attended
<1>3. Attended /\ Stage(e, n, "forget") => CanGo(e)
  BY StageIsUp DEF Attended, Stage, CanGo
<1>4. TaskFairness => GoesOn(e)
  BY DEF TaskFairness
<1>5. QED
  BY <1>1, <1>2, <1>3, <1>4, PTL DEF GuardFairness, GoesOn

LEMMA AnsweredEnds ==
  ASSUME NEW e \in Evaluator, NEW n \in App
  PROVE  []Attended /\ [][Next]_vars /\ GuardFairness => Ends(e, n, "answered")
<1> SUFFICES ASSUME []Attended, [][Next]_vars, []GuardFairness
             PROVE  Stage(e, n, "answered") ~> Ended(n)
  BY PTL DEF GuardFairness, Ends
<1>1. Attended /\ Stage(e, n, "answered") /\ [Next]_vars
        => Stage(e, n, "answered")' \/ Stage(e, n, "forget")' \/ Ended(n)'
  BY AnsweredStep DEF Attended
<1>2. Attended /\ Stage(e, n, "answered") /\ <<Goes(e)>>_vars => Stage(e, n, "forget")' \/ Ended(n)'
  <2>1. <<Goes(e)>>_vars => Goes(e) /\ [Next]_vars
    BY DEF Next, Discovery, Goes
  <2>2. QED
    BY <2>1, AnsweredStep DEF Attended
<1>3. Attended /\ Stage(e, n, "answered") => CanGo(e)
  BY StageIsUp DEF Attended, Stage, CanGo
<1>4. TaskFairness => GoesOn(e)
  BY DEF TaskFairness
<1>5. []Attended /\ [][Next]_vars /\ GuardFairness => Ends(e, n, "forget")
  BY ForgetEnds
<1>6. QED
  BY <1>1, <1>2, <1>3, <1>4, <1>5, PTL DEF GuardFairness, GoesOn, Ends

(* Only the worker and a crash change what the worker has. *)
LEMMA WorkerKept ==
  ASSUME [Next]_vars, ~Worker, ~Crash
  PROVE  worker' = worker
<1>1. ASSUME NEW e \in Evaluator, Discovery(e) \/ \E n \in App : Evaluate(e, n) PROVE worker' = worker
  BY <1>1 DEF Discovery, Claim, Mirror, Send, Announce, Finish, Evaluate
<1>2. ASSUME NEW c \in Caller, LockPolicy(c) \/ Update(c) \/ \E n \in App, p \in Policy : SetAppPolicy(c, n, p)
      PROVE  worker' = worker
  BY <1>2 DEF LockPolicy, Update, UpdateRow, UpdateFails, UpdateCache, SetAppPolicy
<1>3. Build \/ UNCHANGED vars => worker' = worker
  BY DEF Build, vars
<1>4. QED
  BY <1>1, <1>2, <1>3 DEF Next

LEMMA WorkingEnds ==
  ASSUME NEW e \in Evaluator, NEW n \in App
  PROVE  []Attended /\ [][Next]_vars /\ GuardFairness => (Working(e, n) ~> Ended(n))
<1> SUFFICES ASSUME []Attended, [][Next]_vars, []GuardFairness
             PROVE  Working(e, n) ~> Ended(n)
  BY PTL DEF GuardFairness
<1>1. Attended /\ Working(e, n) /\ [Next]_vars
        => (~Worker /\ Working(e, n)') \/ Stage(e, n, "answered")' \/ Ended(n)'
  <2> SUFFICES ASSUME PolicyInv, Working(e, n), [Next]_vars, ~Ended(n)', ~Stage(e, n, "answered")'
               PROVE  ~Worker /\ Working(e, n)'
    BY DEF Attended
  <2>1. Stage(e, n, "wait")' /\ task'[e] = task[e] /\ ~Worker
    BY WaitStep DEF Working
  <2>2. ~Crash
    BY <2>1, CrashEnds
  <2>3. worker' = worker
    BY <2>1, <2>2, WorkerKept
  <2>4. QED
    BY <2>1, <2>3 DEF Working
<1>2. Attended /\ Working(e, n) /\ <<Worker>>_vars => Stage(e, n, "answered")' \/ Ended(n)'
  <2>1. <<Worker>>_vars => Worker /\ [Next]_vars
    BY DEF Next
  <2>2. QED
    BY <1>1, <2>1
<1>3. Attended /\ Working(e, n) => CanWork
  BY StageIsUp, PolicyAssumption DEF Attended, Working, CanWork
<1>4. []Attended /\ [][Next]_vars /\ GuardFairness => Ends(e, n, "answered")
  BY AnsweredEnds
<1>5. QED
  BY <1>1, <1>2, <1>3, <1>4, PTL DEF GuardFairness, Ends

(* While a request waits to be sent the worker makes room. *)
LEMMA SendingIsSent ==
  ASSUME NEW e \in Evaluator, NEW n \in App
  PROVE  []Attended /\ [][Next]_vars /\ GuardFairness => GoesFrom(e, n, "send", "wait")
<1> SUFFICES ASSUME []Attended, [][Next]_vars, []GuardFairness
             PROVE  Stage(e, n, "send") ~> (Stage(e, n, "wait") \/ Ended(n))
  BY PTL DEF GuardFairness, GoesFrom
<1> DEFINE Sending == Stage(e, n, "send")
           Busy    == Sending /\ ~Room /\ worker # None
           Rests   == Sending /\ ~Room /\ worker = None
           Sent    == Stage(e, n, "wait") \/ Ended(n)
<1>1. Attended /\ Sending /\ [Next]_vars => Sending' \/ Sent'
  BY SendStep DEF Attended
<1>2. Attended /\ Sending /\ <<Send(e)>>_vars => Sent'
  <2>1. <<Send(e)>>_vars => Send(e) /\ [Next]_vars
    BY DEF Next, Discovery
  <2>2. QED
    BY <2>1, SendStep DEF Attended
<1>3. Attended /\ Busy /\ [Next]_vars => Busy' \/ Rests' \/ Room' \/ ~Sending'
  OBVIOUS
<1>4. Attended /\ Busy /\ <<Worker>>_vars => Rests' \/ Room' \/ ~Sending'
  BY DEF Worker, WorkerReceive, WorkerReject, WorkerStore, WorkerFail, Reply
<1>5. Attended /\ Rests /\ [Next]_vars => (~Worker /\ Rests') \/ Room' \/ ~Sending'
  <2> SUFFICES ASSUME PolicyInv, Rests, [Next]_vars, ~Room', Sending' PROVE ~Worker /\ Rests'
    BY DEF Attended
  <2>1. ~WorkerReceive
    <3> SUFFICES ASSUME WorkerReceive PROVE FALSE
      OBVIOUS
    <3>1. queue \in Seq(Evaluator) /\ Len(queue) <= QueueSize /\ queue # <<>> /\ queue' = Tail(queue)
      BY DEF PolicyInv, TypeOK, WorkerReceive
    <3>2. Len(queue') = Len(queue) - 1 /\ Len(queue) \in Nat
      BY <3>1
    <3>3. QED
      BY <3>1, <3>2, PolicyAssumption DEF Room
  <2>2. ~Worker
    BY <2>1 DEF Worker, WorkerReject, WorkerStore, WorkerFail
  <2>3. ~Crash
    BY DEF Crash, IdleTask, Stage
  <2>4. worker' = worker
    BY <2>2, <2>3, WorkerKept
  <2>5. QED
    BY <2>2, <2>4
<1>6. Attended /\ Rests /\ <<Worker>>_vars => Room' \/ ~Sending'
  <2>1. <<Worker>>_vars => Worker /\ [Next]_vars
    BY DEF Next
  <2>2. QED
    BY <1>5, <2>1
<1>7. Attended /\ (Busy \/ Rests) => CanWork
  <2>1. PolicyInv /\ ~Room => queue # <<>>
    BY PolicyAssumption DEF PolicyInv, TypeOK, Room
  <2>2. QED
    BY <2>1, StageIsUp DEF Attended, CanWork
<1>8. Sending => Busy \/ Rests \/ Room
  OBVIOUS
<1>9. Attended /\ Sending /\ Room => CanSend(e)
  BY StageIsUp DEF Attended, Stage, CanSend
<1>10. TaskFairness => SendsOn(e)
  BY DEF TaskFairness
<1>11. Sent <=> Stage(e, n, "wait") \/ Ended(n)
  OBVIOUS
<1> HIDE DEF Sending, Busy, Rests, Sent
<1>12. Sending ~> Sent
  BY <1>1, <1>2, <1>3, <1>4, <1>5, <1>6, <1>7, <1>8, <1>9, <1>10, PTL DEF GuardFairness, SendsOn
<1>13. QED
  BY <1>12 DEF Sending, Sent

(* A queued request comes nearer to the worker until the worker has it. *)
LEMMA QueueAdvances ==
  ASSUME NEW e \in Evaluator, NEW n \in App, NEW i \in Nat \ {0}
  PROVE  []Attended /\ [][Next]_vars /\ GuardFairness => Advances(e, n, i)
<1> SUFFICES ASSUME []Attended, [][Next]_vars, []GuardFairness
             PROVE  InQueue(e, n, i) ~> (InQueue(e, n, i - 1) \/ Working(e, n) \/ Ended(n))
  BY PTL DEF GuardFairness, Advances
<1> DEFINE Here  == InQueue(e, n, i)
           Free  == Here /\ worker = None
           Moved == InQueue(e, n, i - 1) \/ Working(e, n) \/ Ended(n)
<1>1. Attended /\ Here /\ [Next]_vars => (Here' /\ ~(Worker /\ worker = None)) \/ Moved'
  <2> SUFFICES ASSUME PolicyInv, Here, [Next]_vars, ~Ended(n)'
               PROVE  (Here' /\ ~(Worker /\ worker = None)) \/ InQueue(e, n, i - 1)' \/ Working(e, n)'
    BY DEF Attended
  <2>1. ~Crash
    BY CrashEnds
  <2>2. Stage(e, n, "wait")'
    <3>1. queue[i] # worker
      BY DEF InQueue, PolicyInv, TypeOK, WorkConsistent
    <3>2. task'[e] = task[e]
      <4>1. ~Goes(e) /\ ~Send(e) /\ \A k \in App : ~Evaluate(e, k)
        BY DEF InQueue, Stage, Goes, Claim, Mirror, Send, Announce, Finish, Evaluate
      <4>2. QED
        BY <2>1, <3>1, <4>1, TaskMoves DEF InQueue
    <3>3. QED
      BY <3>2 DEF InQueue, Stage
  <2>3. QED
    BY <2>1, <2>2, QueueMoves DEF InQueue, Working
<1>2. Attended /\ Here /\ worker # None /\ <<Worker>>_vars => Free' \/ Moved'
  <2>1. <<Worker>>_vars => Worker /\ [Next]_vars
    BY DEF Next
  <2>2. Worker /\ worker # None => worker' = None
    BY DEF Worker, WorkerReceive, WorkerReject, WorkerStore, WorkerFail, Reply
  <2>3. QED
    BY <1>1, <2>1, <2>2
<1>3. Attended /\ Free /\ [Next]_vars => (~Worker /\ Free') \/ Moved'
  <2> SUFFICES ASSUME Attended, Free, [Next]_vars, ~Moved' PROVE ~Worker /\ Free'
    OBVIOUS
  <2>1. Here' /\ ~Worker
    BY <1>1
  <2>2. ~Crash
    BY <2>1, CrashEnds
  <2>3. worker' = worker
    BY <2>1, <2>2, WorkerKept
  <2>4. QED
    BY <2>1, <2>3
<1>4. Attended /\ Free /\ <<Worker>>_vars => Moved'
  <2>1. <<Worker>>_vars => Worker /\ [Next]_vars
    BY DEF Next
  <2>2. QED
    BY <1>3, <2>1
<1>5. Attended /\ Here => CanWork
  BY StageIsUp DEF Attended, PolicyInv, TypeOK, InQueue, CanWork
<1>6. Here => Free \/ (Here /\ worker # None)
  OBVIOUS
<1>7. Moved <=> InQueue(e, n, i - 1) \/ Working(e, n) \/ Ended(n)
  OBVIOUS
<1>8. Free => Here
  OBVIOUS
<1> HIDE DEF Here, Free, Moved
<1>9. Here ~> Moved
  BY <1>1, <1>2, <1>3, <1>4, <1>5, <1>6, <1>8, PTL DEF GuardFairness
<1>10. QED
  BY <1>9 DEF Here, Moved

(* A set of numbers that is not empty has a least one.                        *)
LEMMA LeastNumber ==
  ASSUME NEW V \in SUBSET Nat, V # {}
  PROVE  \E k \in V : \A m \in V : k <= m
<1> DEFINE R == OpToRel(<, Nat)
<1>1. IsWellFoundedOn(R, Nat)
  BY NatLessThanWellFounded
<1>2. \A a, b \in Nat : a < b => <<a, b>> \in R
  BY DEF OpToRel
<1> HIDE DEF R
<1>3. PICK k \in V : \A m \in V : ~(<<m, k>> \in R)
  BY <1>1, WFMin
<1>4. ASSUME NEW m \in V PROVE k <= m
  <2>1. m \in Nat /\ k \in Nat
    OBVIOUS
  <2>2. ~(<<m, k>> \in R)
    BY <1>3
  <2>3. ~(m < k)
    BY <1>2, <2>1, <2>2
  <2>4. QED
    BY <2>1, <2>3
<1>5. QED
  BY <1>4

(* The places of the queue where a request will ever be form a set.  This      *)
(* holds of every behaviour whatever the specification; TLA+ builds no set     *)
(* from a temporal formula, so it is a hypothesis where a least place is        *)
(* needed, in the place of an induction over places.                           *)
Comes(e, n, i) == <>InQueue(e, n, i)
PlacesOf(e, n, V) == \A i \in Nat : i \in V <=> Comes(e, n, i)
PlacesFormSets == \A e \in Evaluator, n \in App : \E V \in SUBSET Nat : PlacesOf(e, n, V)

LEMMA WaitingEnds ==
  ASSUME NEW e \in Evaluator, NEW n \in App
  PROVE  []Attended /\ [][Next]_vars /\ GuardFairness /\ []PlacesFormSets => Ends(e, n, "wait")
<1> SUFFICES ASSUME []Attended, [][Next]_vars, []GuardFairness, []PlacesFormSets
             PROVE  Stage(e, n, "wait") ~> Ended(n)
  BY PTL DEF GuardFairness, Ends
<1> DEFINE Got == Working(e, n) \/ Ended(n)
<1>1. ~Comes(e, n, 0)
  <2>1. Attended => ~InQueue(e, n, 0)
    BY DEF InQueue, Attended, PolicyInv, TypeOK
  <2>2. QED
    BY <2>1, PTL DEF Comes
<1>2. ASSUME NEW i \in Nat \ {0} PROVE Advances(e, n, i)
  <2>1. []Attended /\ [][Next]_vars /\ GuardFairness => Advances(e, n, i)
    BY QueueAdvances
  <2>2. QED
    BY <2>1, PTL
<1>3. ASSUME NEW V \in SUBSET Nat, PlacesOf(e, n, V), NEW i \in Nat, InQueue(e, n, i)
      PROVE  <>Got
  <2>1. Comes(e, n, i)
    BY <1>3, PTL DEF Comes
  <2>2. V # {}
    BY <1>3, <2>1 DEF PlacesOf
  <2>3. PICK k \in V : \A m \in V : k <= m
    BY <2>2, LeastNumber
  <2>4. k \in Nat /\ Comes(e, n, k)
    BY <1>3 DEF PlacesOf
  <2>5. k \in Nat \ {0}
    BY <1>1, <2>4
  <2>6. Advances(e, n, k)
    BY <1>2, <2>5
  <2>7. k - 1 \in Nat /\ k - 1 \notin V
    BY <2>3, <2>5
  <2>8. ~Comes(e, n, k - 1)
    BY <1>3, <2>7 DEF PlacesOf
  <2>9. QED
    BY <2>4, <2>6, <2>8, PTL DEF Comes, Advances
<1>4. Attended /\ PlacesFormSets /\ Stage(e, n, "wait") => <>Got
  <2>1. Attended /\ Stage(e, n, "wait") => Working(e, n) \/ \E i \in Nat : InQueue(e, n, i)
    BY DEF Attended, Served, Queued, PolicyInv, TypeOK, InQueue, Working, Stage
  <2>2. PlacesFormSets => \E V \in SUBSET Nat : PlacesOf(e, n, V)
    BY DEF PlacesFormSets
  <2>3. Working(e, n) => Got
    OBVIOUS
  <2> HIDE DEF Got
  <2>4. Got => <>Got
    BY PTL
  <2>5. QED
    BY <1>3, <2>1, <2>2, <2>3, <2>4
<1>5. []Attended /\ [][Next]_vars /\ GuardFairness => (Working(e, n) ~> Ended(n))
  BY WorkingEnds
<1>6. QED
  BY <1>4, <1>5, PTL

LEMMA MirroringEnds ==
  ASSUME NEW e \in Evaluator, NEW n \in App
  PROVE  []Attended /\ [][Next]_vars /\ GuardFairness => GoesFrom(e, n, "mirror", "send")
<1> SUFFICES ASSUME []Attended, [][Next]_vars, []GuardFairness
             PROVE  Stage(e, n, "mirror") ~> (Stage(e, n, "send") \/ Ended(n))
  BY PTL DEF GuardFairness, GoesFrom
<1>1. Attended /\ Stage(e, n, "mirror") /\ [Next]_vars
        => Stage(e, n, "mirror")' \/ Stage(e, n, "send")' \/ Ended(n)'
  BY MirrorStep DEF Attended
<1>2. Attended /\ Stage(e, n, "mirror") /\ <<Goes(e)>>_vars => Stage(e, n, "send")' \/ Ended(n)'
  <2>1. <<Goes(e)>>_vars => Goes(e) /\ [Next]_vars
    BY DEF Next, Discovery, Goes
  <2>2. QED
    BY <2>1, MirrorStep DEF Attended
<1>3. Attended /\ Stage(e, n, "mirror") => CanGo(e)
  BY StageIsUp DEF Attended, Stage, CanGo
<1>4. TaskFairness => GoesOn(e)
  BY DEF TaskFairness
<1>5. QED
  BY <1>1, <1>2, <1>3, <1>4, PTL DEF GuardFairness, GoesOn

(* A discovery ends, whatever becomes of its row, however many requests are    *)
(* queued before it and whichever queries fail, so that its application can be *)
(* discovered again (discover_app): from the claim through each stage, and in  *)
(* the queue by induction over its places.                                    *)
THEOREM DiscoveryAlwaysEnds == Spec /\ GuardFairness /\ []PlacesFormSets => DiscoveryEnds
<1>1. ASSUME NEW n \in App
      PROVE  Spec /\ GuardFairness /\ []PlacesFormSets => (n \in pending ~> n \notin pending)
  <2> SUFFICES ASSUME []Attended, [][Next]_vars, []GuardFairness, []PlacesFormSets
               PROVE  n \in pending ~> n \notin pending
    BY AttendedHolds, PTL DEF Spec, GuardFairness
  <2>1. ASSUME NEW e \in Evaluator
        PROVE  Stage(e, n, "mirror") \/ Stage(e, n, "send") \/ Stage(e, n, "wait") \/ Stage(e, n, "answered")
                 \/ Stage(e, n, "forget") => <>Ended(n)
    <3>1. []Attended /\ [][Next]_vars /\ GuardFairness => GoesFrom(e, n, "mirror", "send")
      BY MirroringEnds
    <3>2. []Attended /\ [][Next]_vars /\ GuardFairness => GoesFrom(e, n, "send", "wait")
      BY SendingIsSent
    <3>3. []Attended /\ [][Next]_vars /\ GuardFairness /\ []PlacesFormSets => Ends(e, n, "wait")
      BY WaitingEnds
    <3>4. []Attended /\ [][Next]_vars /\ GuardFairness => Ends(e, n, "answered")
      BY AnsweredEnds
    <3>5. []Attended /\ [][Next]_vars /\ GuardFairness => Ends(e, n, "forget")
      BY ForgetEnds
    <3>6. QED
      BY <3>1, <3>2, <3>3, <3>4, <3>5, PTL DEF Ends, GoesFrom
  <2>2. Attended /\ n \in pending =>
          \E e \in Evaluator : \/ Stage(e, n, "mirror") \/ Stage(e, n, "send")
                               \/ Stage(e, n, "wait") \/ Stage(e, n, "answered")
                               \/ Stage(e, n, "forget")
    BY DEF Attended, Tended, PolicyInv, TypeOK, TaskState, Persisting, Stage
  <2>3. Attended /\ n \in pending => <>Ended(n)
    BY <2>1, <2>2
  <2>4. QED
    BY <2>3, PTL DEF Ended
<1>2. QED
  BY <1>1 DEF DiscoveryEnds
=============================================================================
