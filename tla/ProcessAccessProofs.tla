------------------------ MODULE ProcessAccessProofs ------------------------
(* What TLAPS proves of ProcessAccess, for every set of pids, programs,       *)
(* environments and callers: what holds however late an evaluation is, and    *)
(* in the last two sections what holds while none is overtaken.               *)
EXTENDS ProcessAccess, TLAPS

(***************************************************************************)
(* Verdicts                                                                *)
(***************************************************************************)

(* What evaluate_app can answer is a grant of the model. *)
LEMMA VerdictsAreGrants ==
  ASSUME NEW i \in Image, NEW e \in {Env[i], NoEnv}, NEW a \in BOOLEAN, NEW s \in BOOLEAN
  PROVE  Verdict(e, a, s) \subseteq Grant
<1>1. e \in [allow: EnvValue, forceDgpu: EnvValue, forceGpu: EnvValue]
  BY AccessAssumption DEF NoEnv, EnvValue
<1>2. QED
  BY <1>1 DEF Verdict, Grant, EnvValue

(* The policy of one program and the environment of another: the verdict of a *)
(* task that was overtaken by an exec comes from one of the two.              *)
LEMMA MixedVerdict ==
  ASSUME NEW e, NEW a \in BOOLEAN, NEW b \in BOOLEAN, NEW s \in BOOLEAN
  PROVE  Verdict(e, a, s) \subseteq Verdict(e, b, s) \cup Verdict(NoEnv, a, s)
BY DEF Verdict, NoEnv

LEMMA GrantsCover ==
  ASSUME NEW i \in Image, NEW s \in BOOLEAN
  PROVE  /\ Verdict(Env[i], i \in AppAllowed, s) \subseteq Grants(i)
         /\ Verdict(NoEnv, i \in AppAllowed, s) \subseteq Grants(i)
         /\ Grants(i) \subseteq Grant
<1>1. ASSUME NEW e \in {Env[i], NoEnv}, NEW b \in BOOLEAN
      PROVE  Verdict(e, i \in AppAllowed, b) \subseteq Grant
  <2>1. (i \in AppAllowed) \in BOOLEAN
    OBVIOUS
  <2>2. QED
    BY <2>1, VerdictsAreGrants
<1>2. QED
  BY <1>1 DEF Grants

LEMMA SomeImage ==
  ASSUME NEW i \in Image
  PROVE  AnyImage \in Image /\ NoTask \in TaskState /\ Free \in ProcState
BY DEF AnyImage, NoTask, TaskState, Grant, Free, ProcState

(***************************************************************************)
(* Type correctness                                                        *)
(***************************************************************************)

(* The steps of a process, an evaluation and a call stay in their types. *)
LEMMA ProcEdits ==
  ASSUME NEW r \in ProcState, NEW i \in Image, NEW told \in {"no", "manual", "smart"}
  PROVE  /\ [r EXCEPT !.img = i, !.hook = 1, !.told = "no"] \in ProcState
         /\ [r EXCEPT !.hook = (@ + 1) % 3, !.told = told] \in ProcState
         /\ [r EXCEPT !.st = "zombie", !.told = "no"] \in ProcState
         /\ [r EXCEPT !.parent = Reaper] \in ProcState
<1>1. [r EXCEPT !.img = i, !.hook = 1, !.told = "no"] \in ProcState
  BY DEF ProcState
<1>2. [r EXCEPT !.hook = (@ + 1) % 3, !.told = told] \in ProcState
  <2>1. (r.hook + 1) % 3 \in {0, 1, 2}
    BY DEF ProcState
  <2>2. \A h \in {0, 1, 2} : [r EXCEPT !.hook = h, !.told = told] \in ProcState
    BY DEF ProcState
  <2>3. QED
    BY <2>1, <2>2
<1>3. [r EXCEPT !.st = "zombie", !.told = "no"] \in ProcState
  BY DEF ProcState
<1>4. [r EXCEPT !.parent = Reaper] \in ProcState
  BY DEF ProcState
<1>5. QED
  BY <1>1, <1>2, <1>3, <1>4

LEMMA TaskEdits ==
  ASSUME NEW r \in TaskState, NEW i \in Image, NEW v \in Grant
  PROVE  /\ [r EXCEPT !.pc = "name"] \in TaskState
         /\ [r EXCEPT !.pc = "environ", !.app = i] \in TaskState
         /\ [r EXCEPT !.pc = "insert", !.grant = v] \in TaskState
BY DEF TaskState

LEMMA ReqEdits ==
  ASSUME NEW r \in ReqState, NEW answer \in {"none", "ok", "error"}
  PROVE  /\ [r EXCEPT !.pc = "insert"] \in ReqState
         /\ [r EXCEPT !.pc = "idle", !.answer = answer] \in ReqState
BY DEF ReqState

LEMMA AnswerTypes ==
  ASSUME req \in [Callers -> ReqState], NEW c \in Callers,
         NEW answer \in {"none", "ok", "error"}, Answer(c, answer)
  PROVE  req' \in [Callers -> ReqState]
BY ReqEdits DEF Answer

LEMMA SpendTypes ==
  ASSUME TypeOK, NEW b \in {"request", "fault"}, Spend(b)
  PROVE  left' \in [request: Nat, fault: Nat, exec: Nat, late: Nat]
BY DEF TypeOK, Spend

GoesOn(p) == Ends(p, left) \/ (left.exec > 0 /\ Ends(p, [left EXCEPT !.exec = @ - 1]))

LEMMA EndsTypes ==
  ASSUME TypeOK, NEW p, GoesOn(p)
  PROVE  /\ left' \in [request: Nat, fault: Nat, exec: Nat, late: Nat]
         /\ left'.request = left.request /\ left'.late <= left.late
         /\ left'.late = left.late => ~InFlight(p)
<1> DEFINE budget == IF Ends(p, left) THEN left ELSE [left EXCEPT !.exec = @ - 1]
<1>1. left \in [request: Nat, fault: Nat, exec: Nat, late: Nat]
  BY DEF TypeOK
<1>2. /\ budget \in [request: Nat, fault: Nat, exec: Nat, late: Nat]
      /\ budget.request = left.request /\ budget.late = left.late
  BY <1>1 DEF GoesOn
<1>3. Ends(p, budget)
  BY DEF GoesOn
<1> HIDE DEF budget
<1>4. CASE InFlight(p)
  <2>1. budget.late > 0 /\ left' = [budget EXCEPT !.late = @ - 1]
    BY <1>3, <1>4 DEF Ends
  <2>2. QED
    BY <1>2, <2>1
<1>5. CASE ~InFlight(p)
  BY <1>2, <1>3, <1>5 DEF Ends
<1>6. QED
  BY <1>4, <1>5

(* An exit changes the parents of others at most.                             *)
LEMMA ExitEdits ==
  ASSUME TypeOK, NEW p \in Pid, Exit(p)
  PROVE  /\ proc'[p].st = "zombie" /\ proc'[p].told = "no" /\ proc'[p].hook = proc[p].hook
         /\ \A r \in Pid \ {p} : /\ proc'[r].st = proc[r].st /\ proc'[r].img = proc[r].img
                                 /\ proc'[r].hook = proc[r].hook /\ proc'[r].told = proc[r].told
<1>1. proc'[p] = [proc[p] EXCEPT !.st = "zombie", !.told = "no"]
  BY DEF Exit
<1>2. \A r \in Pid \ {p} : proc'[r] = [proc[r] EXCEPT !.parent = Reaper] \/ proc'[r] = proc[r]
  BY DEF Exit
<1>3. \A r \in Pid : proc[r] \in ProcState
  BY DEF TypeOK
<1>4. proc'[p].st = "zombie" /\ proc'[p].told = "no" /\ proc'[p].hook = proc[p].hook
  BY <1>1, <1>3 DEF ProcState
<1>5. ASSUME NEW r \in Pid \ {p}
      PROVE  /\ proc'[r].st = proc[r].st /\ proc'[r].img = proc[r].img
             /\ proc'[r].hook = proc[r].hook /\ proc'[r].told = proc[r].told
  <2>1. CASE proc'[r] = [proc[r] EXCEPT !.parent = Reaper]
    BY <1>3, <2>1 DEF ProcState
  <2>2. CASE proc'[r] = proc[r]
    BY <2>2
  <2>3. QED
    BY <1>2, <2>1, <2>2
<1>6. QED
  BY <1>4, <1>5

MapsTyped == /\ allowed \subseteq Pid
             /\ DOMAIN forced \subseteq Pid /\ Range(forced) \subseteq Grant \ {AllGpus}

LEMMA ClearTypes == ASSUME MapsTyped, NEW p, ClearMaps(p) PROVE MapsTyped'
BY DEF MapsTyped, ClearMaps, Restrict, Range

LEMMA InsertTypes ==
  ASSUME MapsTyped, NEW p \in Pid, NEW grant \in Grant, InsertGrant(p, grant)
  PROVE  MapsTyped'
BY DEF MapsTyped, InsertGrant, Range

LEMMA RemoveTypes == ASSUME MapsTyped, NEW p, NEW grant, RemoveOther(p, grant) PROVE MapsTyped'
BY DEF MapsTyped, RemoveOther, Restrict, Range

LEMMA AccountTypes ==
  ASSUME TypeOK, NEW p \in Pid, NEW grants \in SUBSET Grant, Account(p, grants)
  PROVE  may' \in [Pid -> SUBSET Grant]
BY DEF TypeOK, Account

LEMMA InitTypes == Init => TypeOK
<1> USE AccessAssumption
<1> SUFFICES ASSUME Init PROVE TypeOK
OBVIOUS
<1>1. PICK p \in Pid, i \in Image :
        /\ proc = [q \in Pid |-> IF q = p THEN [Free EXCEPT !.st = "run", !.img = i] ELSE Free]
        /\ may = [q \in Pid |-> IF q = p THEN Grants(i) ELSE {}]
  BY DEF Init
<1>2. AnyImage \in Image
  BY SomeImage
<1>3. proc \in [Pid -> ProcState]
  BY <1>1, <1>2 DEF ProcState, Free
<1>4. may \in [Pid -> SUBSET Grant]
  BY <1>1, GrantsCover
<1>5. task \in [Slot -> TaskState] /\ req \in [Callers -> ReqState]
  BY <1>2 DEF Init, TaskState, ReqState, NoTask, NoReq, Grant
<1>6. ring \in Seq([pid: Pid, smart: BOOLEAN]) /\ Len(ring) <= RingSize
  BY DEF Init
<1>7. allowed \subseteq Pid /\ DOMAIN forced \subseteq Pid /\ Range(forced) \subseteq Grant \ {AllGpus}
  BY DEF Init, Range
<1>8. QED
  BY <1>3, <1>4, <1>5, <1>6, <1>7 DEF Init, TypeOK
LEMMA HeadOfEvents == ASSUME NEW S, NEW s \in Seq(S), s # <<>> PROVE Head(s) \in S
OBVIOUS

(* An evaluation or a call under way is about a real pid. *)
PidsKnown == /\ \A n \in Slot : task[n].pc # "none" => task[n].pid \in Pid
             /\ \A c \in Callers : req[c].pc # "idle" => req[c].pid \in Pid

LEMMA StepTypes == ASSUME TypeOK, PidsKnown, [Next]_vars PROVE TypeOK'
<1> USE AccessAssumption DEF TypeOK
<1>1. MapsTyped
  BY DEF MapsTyped
<1>2. ASSUME NEW p \in Pid, NEW q \in Pid, Fork(p, q) PROVE TypeOK'
  <2>1. proc' \in [Pid -> ProcState]
    BY <1>2, SomeImage DEF Fork, ProcState, Free
  <2>2. may' \in [Pid -> SUBSET Grant]
    BY <1>2, GrantsCover DEF Fork, ProcState
  <2>3. QED
    BY <1>2, <2>1, <2>2 DEF Fork, mapVars, daemonVars
<1>3. ASSUME NEW p \in Pid, NEW i \in Image, ExecLoad(p, i) PROVE TypeOK'
  <2>1. proc' \in [Pid -> ProcState]
    BY <1>3, ProcEdits DEF ExecLoad
  <2>2. may' \in [Pid -> SUBSET Grant]
    BY <1>3, GrantsCover DEF ExecLoad
  <2>3. QED
    BY <1>3, <2>1, <2>2, EndsTypes DEF GoesOn, ExecLoad, mapVars, daemonVars
<1>4. ASSUME NEW p \in Pid, HookClear(p) PROVE TypeOK'
  <2>1. MapsTyped'
    BY <1>1, <1>4, ClearTypes DEF HookClear
  <2>2. may' \in [Pid -> SUBSET Grant]
    BY <1>4, GrantsCover, AccountTypes DEF HookClear, ProcState
  <2>3. proc' \in [Pid -> ProcState]
    <3>1. proc[p].told \in {"no", "manual", "smart"} /\ proc[p].img \in Image
      BY DEF ProcState
    <3>2. QED
      BY <1>4, <3>1, ProcEdits DEF HookClear, Advance
  <2>4. QED
    BY <1>4, <2>1, <2>2, <2>3 DEF HookClear, daemonVars, MapsTyped
<1>5. ASSUME NEW p \in Pid, HookNotify(p) PROVE TypeOK'
  <2>0. proc[p].img \in Image
    BY DEF ProcState
  <2>1. CASE /\ Announced(p) /\ Len(ring) < RingSize
             /\ ring' = Append(ring, [pid |-> p, smart |-> mode = "smart"])
             /\ Advance(p, mode)
    <3>1. ring' \in Seq([pid: Pid, smart: BOOLEAN]) /\ Len(ring') <= RingSize
      BY <2>1
    <3>2. proc' \in [Pid -> ProcState]
      BY <2>1, <2>0, ProcEdits DEF Announced, Advance
    <3>3. QED
      BY <1>5, <3>1, <3>2 DEF HookNotify, mapVars
  <2>2. CASE UNCHANGED ring /\ Advance(p, "no")
    <3>1. proc' \in [Pid -> ProcState]
      BY <2>2, <2>0, ProcEdits DEF Advance
    <3>2. QED
      BY <1>5, <2>2, <3>1 DEF HookNotify, mapVars
  <2>3. QED
    BY <1>5, <2>1, <2>2 DEF HookNotify
<1>6. ASSUME NEW p \in Pid, Exit(p) PROVE TypeOK'
  <2>1. MapsTyped'
    BY <1>1, <1>6, ClearTypes DEF Exit
  <2>2. may' \in [Pid -> SUBSET Grant]
    BY <1>6, AccountTypes DEF Exit
  <2>3. proc' \in [Pid -> ProcState]
    <3>1. \A q \in Pid : proc[q].img \in Image
      BY DEF ProcState
    <3>2. QED
      BY <1>6, <3>1, ProcEdits DEF Exit
  <2>4. QED
    BY <1>6, <2>1, <2>2, <2>3, EndsTypes DEF GoesOn, Exit, daemonVars, MapsTyped
<1>7. ASSUME NEW p \in Pid, Reap(p) PROVE TypeOK'
  <2>1. proc' \in [Pid -> ProcState]
    BY <1>7, SomeImage DEF Reap, ProcState, Free
  <2>2. QED
    BY <1>7, <2>1 DEF Reap, mapVars, daemonVars
<1>8. ASSUME NEW m \in Modes, SwitchMode(m) PROVE TypeOK'
  BY <1>8 DEF SwitchMode, mapVars, daemonVars
<1>9. ASSUME TakeEvent PROVE TypeOK'
  <2> DEFINE n == CHOOSE n \in Slot : task[n].pc = "none"
  <2>1. Head(ring) \in [pid: Pid, smart: BOOLEAN]
    BY <1>9, HeadOfEvents DEF TakeEvent
  <2>2. AnyImage \in Image
    BY <2>1, SomeImage DEF ProcState
  <2>3. [NoTask EXCEPT !.pc = "check", !.pid = Head(ring).pid, !.smart = Head(ring).smart] \in TaskState
    BY <2>1, <2>2 DEF NoTask, TaskState, Grant
  <2>4. task' = [task EXCEPT ![n] =
          [NoTask EXCEPT !.pc = "check", !.pid = Head(ring).pid, !.smart = Head(ring).smart]]
    BY <1>9 DEF TakeEvent
  <2> HIDE DEF n
  <2>5. task' \in [Slot -> TaskState]
    BY <2>3, <2>4
  <2>6. ring' \in Seq([pid: Pid, smart: BOOLEAN]) /\ Len(ring') <= RingSize
    BY <1>9 DEF TakeEvent
  <2>7. QED
    BY <1>9, <2>5, <2>6 DEF TakeEvent, mapVars
<1>10. ASSUME NEW n \in Slot, Check(n) PROVE TypeOK'
  <2>1. task' \in [Slot -> TaskState]
    <3>1. PICK p \in Pid : p = task[n].pid
      BY <1>10 DEF Check, PidsKnown
    <3>2. proc[p].img \in Image
      BY DEF ProcState
    <3>3. NoTask \in TaskState
      BY <3>2, SomeImage
    <3>4. task[n] \in TaskState
      OBVIOUS
    <3>5. [task[n] EXCEPT !.pc = "name"] \in TaskState
      BY <3>4 DEF TaskState
    <3>6. QED
      BY <1>10, <3>3, <3>5 DEF Check
  <2>2. QED
    BY <1>10, <2>1 DEF Check, mapVars
<1>11. ASSUME NEW n \in Slot, ReadName(n) PROVE TypeOK'
  <2>1. task[n].pid \in Pid
    BY <1>11 DEF ReadName, PidsKnown
  <2>2. task' \in [Slot -> TaskState]
    <3>1. proc[task[n].pid].img \in Image
      BY <2>1 DEF ProcState
    <3>2. [task[n] EXCEPT !.pc = "environ", !.app = proc[task[n].pid].img] \in TaskState
      BY <3>1, TaskEdits DEF Grant
    <3>3. NoTask \in TaskState
      BY <3>1, SomeImage
    <3>4. QED
      BY <1>11, <3>2, <3>3 DEF ReadName
  <2>3. QED
    BY <1>11, <2>2 DEF ReadName, mapVars
<1>12. ASSUME NEW n \in Slot, ReadEnviron(n) PROVE TypeOK'
  <2>1. task[n].pid \in Pid
    BY <1>12 DEF ReadEnviron, PidsKnown
  <2>2. \A v \in UNION {Verdict(e, task[n].app \in AppAllowed, task[n].smart) :
                         e \in Environ(task[n].pid)} : v \in Grant
    <3>1. ASSUME NEW e \in Environ(task[n].pid)
          PROVE  Verdict(e, task[n].app \in AppAllowed, task[n].smart) \subseteq Grant
      <4>1. PICK i \in Image : e \in {Env[i], NoEnv}
        BY <2>1, <3>1 DEF Environ, ProcState
      <4>2. task[n].smart \in BOOLEAN
        BY DEF TaskState
      <4>3. (task[n].app \in AppAllowed) \in BOOLEAN
        OBVIOUS
      <4>4. QED
        BY <4>1, <4>2, <4>3, VerdictsAreGrants
    <3>2. QED
      BY <3>1
  <2>3. task' \in [Slot -> TaskState]
    <3>1. AnyImage \in Image
      BY SomeImage DEF TaskState
    <3>2. NoTask \in TaskState
      BY <3>1 DEF NoTask, TaskState, Grant
    <3>3. CASE task' = [task EXCEPT ![n] = NoTask]
      BY <3>2, <3>3
    <3>4. ASSUME NEW v \in Grant, task' = [task EXCEPT ![n].pc = "insert", ![n].grant = v]
          PROVE  task' \in [Slot -> TaskState]
      BY <3>1, <3>4, TaskEdits
    <3>5. QED
      BY <1>12, <2>2, <3>3, <3>4 DEF ReadEnviron
  <2>4. QED
    BY <1>12, <2>3 DEF ReadEnviron, mapVars
<1>13. ASSUME NEW n \in Slot, Insert(n) PROVE TypeOK'
  <2>1. task[n].pid \in Pid /\ task[n].grant \in Grant
    BY <1>13 DEF Insert, PidsKnown, TaskState
  <2>2. task' \in [Slot -> TaskState]
    BY <1>13, SomeImage DEF Insert, TaskState
  <2>3. MapsTyped' /\ left' \in [request: Nat, fault: Nat, exec: Nat, late: Nat]
    BY <1>1, <1>13, <2>1, InsertTypes, SpendTypes DEF Insert, mapVars, MapsTyped
  <2>4. QED
    BY <1>13, <2>2, <2>3 DEF Insert, MapsTyped
<1>14. ASSUME NEW c \in Callers, NEW p \in Pid, NEW grant \in Grant, Ask(c, p, grant) PROVE TypeOK'
  <2>1. req' \in [Callers -> ReqState]
    BY <1>14 DEF Ask, ReqState
  <2>2. may' \in [Pid -> SUBSET Grant]
    BY <1>14 DEF Ask
  <2>3. QED
    BY <1>14, <2>1, <2>2, SpendTypes DEF Ask, mapVars
<1>15. ASSUME NEW c \in Callers, AskRemove(c) PROVE TypeOK'
  <2>1. req' \in [Callers -> ReqState]
    <3>1. Answer(c, "error") \/ req' = [req EXCEPT ![c].pc = "insert"]
      BY <1>15 DEF AskRemove
    <3>2. CASE Answer(c, "error")
      BY <3>2, AnswerTypes
    <3>3. CASE req' = [req EXCEPT ![c].pc = "insert"]
      BY <3>3, ReqEdits
    <3>4. QED
      BY <3>1, <3>2, <3>3
  <2>2. MapsTyped'
    BY <1>1, <1>15, RemoveTypes DEF AskRemove, mapVars, MapsTyped
  <2>3. QED
    BY <1>15, <2>1, <2>2 DEF AskRemove, MapsTyped
<1>16. ASSUME NEW c \in Callers, AskInsert(c) PROVE TypeOK'
  <2>1. req[c].pid \in Pid /\ req[c].grant \in Grant
    BY <1>16 DEF AskInsert, PidsKnown, ReqState
  <2>2. req' \in [Callers -> ReqState]
    <3>1. Answer(c, "ok") \/ Answer(c, "error")
      BY <1>16 DEF AskInsert
    <3>2. QED
      BY <3>1, AnswerTypes
  <2>3. MapsTyped' /\ left' \in [request: Nat, fault: Nat, exec: Nat, late: Nat]
    BY <1>1, <1>16, <2>1, InsertTypes, SpendTypes DEF AskInsert, mapVars, MapsTyped
  <2>4. QED
    BY <1>16, <2>2, <2>3 DEF AskInsert, MapsTyped
<1>17. CASE UNCHANGED vars
  BY <1>17 DEF vars
<1>18. QED
  BY <1>2, <1>3, <1>4, <1>5, <1>6, <1>7, <1>8, <1>9, <1>10, <1>11, <1>12, <1>13, <1>14,
     <1>15, <1>16, <1>17 DEF Next, Hook, Evaluate

(***************************************************************************)
(* Whatever is in a map, running, half evaluated or asked for is accounted  *)
(* for                                                                      *)
(***************************************************************************)

Entries ==
  \A p \in Pid :
    /\ p \in allowed => AllGpus \in may[p]
    /\ p \in DOMAIN forced => forced[p] \in may[p]

LEMMA EntriesMeaning ==
  /\ TypeOK => (EntriesAccounted <=> Entries)
  /\ TypeOK' => (EntriesAccounted' <=> Entries')
<1>1. AllGpus \in Grant
  BY DEF Grant
<1>2. TypeOK => (EntriesAccounted <=> Entries)
  <2> SUFFICES ASSUME TypeOK PROVE EntriesAccounted <=> Entries
    OBVIOUS
  <2>1. \A p \in DOMAIN forced : forced[p] \in Grant /\ forced[p] # AllGpus
    BY DEF TypeOK, Range
  <2>2. QED
    BY <1>1, <2>1 DEF EntriesAccounted, Entries, Held, HasGrant
<1>3. TypeOK' => (EntriesAccounted' <=> Entries')
  <2> SUFFICES ASSUME TypeOK' PROVE EntriesAccounted' <=> Entries'
    OBVIOUS
  <2>1. \A p \in DOMAIN forced' : forced'[p] \in Grant /\ forced'[p] # AllGpus
    BY DEF TypeOK, Range
  <2>2. QED
    BY <1>1, <2>1 DEF EntriesAccounted, Entries, Held, HasGrant
<1>4. QED
  BY <1>2, <1>3

MayGrows == \A p \in Pid : may[p] \subseteq may'[p]

(* The history of p keeps what it must while something of p is under way.     *)
LEMMA AccountFacts ==
  ASSUME TypeOK, NEW p \in Pid, NEW grants, Account(p, grants)
  PROVE  /\ grants \subseteq may'[p]
         /\ InFlight(p) => may[p] \subseteq may'[p]
         /\ \A q \in Pid \ {p} : may'[q] = may[q]
BY DEF TypeOK, Account

LEMMA GrowsOne ==
  ASSUME TypeOK, NEW p \in Pid, NEW grants, may' = [may EXCEPT ![p] = @ \cup grants]
  PROVE  MayGrows /\ grants \subseteq may'[p]
BY DEF TypeOK, MayGrows

LEMMA EntriesKept ==
  ASSUME TypeOK, TypeOK', EntriesAccounted, UNCHANGED mapVars, MayGrows
  PROVE  EntriesAccounted'
<1>1. Entries
  BY EntriesMeaning
<1>2. allowed' = allowed /\ forced' = forced
  BY DEF mapVars
<1>3. Entries'
  BY <1>1, <1>2 DEF Entries, MayGrows
<1>4. QED
  BY <1>3, EntriesMeaning

LEMMA ImagesKept ==
  ASSUME TypeOK, ImagesAccounted, UNCHANGED proc, MayGrows
  PROVE  ImagesAccounted'
BY DEF ImagesAccounted, MayGrows

LEMMA TasksKept ==
  ASSUME TypeOK, TasksAccounted, UNCHANGED task, MayGrows
  PROVE  TasksAccounted'
BY DEF TasksAccounted, MayGrows

LEMMA CallsKept ==
  ASSUME TypeOK, CallsAccounted, UNCHANGED req, MayGrows
  PROVE  CallsAccounted'
BY DEF CallsAccounted, MayGrows

(* When p's entries are cleared its history may be forgotten, since nothing   *)
(* of p is under way.                                                        *)
LEMMA ForgetKeeps ==
  ASSUME TypeOK, TypeOK', EntriesAccounted, TasksAccounted, CallsAccounted,
         NEW p \in Pid, NEW grants, Account(p, grants), ClearMaps(p), UNCHANGED <<task, req>>
  PROVE  EntriesAccounted' /\ TasksAccounted' /\ CallsAccounted'
<1>1. EntriesAccounted'
  <2>1. allowed' = allowed \ {p} /\ DOMAIN forced' = DOMAIN forced \ {p}
    BY DEF ClearMaps, Restrict
  <2>2. \A q \in DOMAIN forced' : forced'[q] = forced[q]
    BY DEF ClearMaps, Restrict
  <2>3. Entries'
    BY <2>1, <2>2, EntriesMeaning, AccountFacts DEF Entries
  <2>4. QED
    BY <2>3, EntriesMeaning
<1>2. ASSUME NEW n \in Slot, task[n].pc # "none" PROVE may[task[n].pid] \subseteq may'[task[n].pid]
  <2>1. task[n].pid \in Pid
    BY <1>2 DEF TasksAccounted
  <2>2. task[n].pid = p => InFlight(p)
    BY DEF InFlight
  <2>3. QED
    BY <2>1, <2>2, AccountFacts
<1>3. TasksAccounted'
  BY <1>2 DEF TasksAccounted
<1>4. ASSUME NEW c \in Callers, req[c].pc # "idle" PROVE may[req[c].pid] \subseteq may'[req[c].pid]
  <2>1. req[c].pid \in Pid
    BY <1>4 DEF CallsAccounted
  <2>2. req[c].pid = p => InFlight(p)
    BY <1>4 DEF InFlight
  <2>3. QED
    BY <2>1, <2>2, AccountFacts
<1>5. CallsAccounted'
  BY <1>4 DEF CallsAccounted
<1>6. QED
  BY <1>1, <1>3, <1>5

LEMMA InsertKeeps ==
  ASSUME TypeOK, TypeOK', EntriesAccounted, UNCHANGED may,
         NEW p \in Pid, NEW grant \in may[p], InsertGrant(p, grant)
  PROVE  EntriesAccounted'
<1>1. Entries'
  BY EntriesMeaning DEF Entries, InsertGrant
<1>2. QED
  BY <1>1, EntriesMeaning

LEMMA RemoveKeeps ==
  ASSUME TypeOK, TypeOK', EntriesAccounted, UNCHANGED may, NEW p, NEW grant, RemoveOther(p, grant)
  PROVE  EntriesAccounted'
<1>1. allowed' \subseteq allowed /\ DOMAIN forced' \subseteq DOMAIN forced
  BY DEF RemoveOther, Restrict
<1>2. \A q \in DOMAIN forced' : forced'[q] = forced[q]
  BY DEF RemoveOther, Restrict
<1>3. Entries
  BY EntriesMeaning
<1>4. Entries'
  BY <1>1, <1>2, <1>3 DEF Entries
<1>5. QED
  BY <1>4, EntriesMeaning

LEMMA StepAccounted == ASSUME AccountInv, [Next]_vars PROVE AccountInv'
<1>0. TypeOK /\ EntriesAccounted /\ ImagesAccounted /\ TasksAccounted /\ CallsAccounted
  BY DEF AccountInv
<1>t. TypeOK'
  BY <1>0, StepTypes DEF PidsKnown, TasksAccounted, CallsAccounted
<1>s. UNCHANGED may => MayGrows
  BY DEF MayGrows
<1> SUFFICES (EntriesAccounted /\ ImagesAccounted /\ TasksAccounted /\ CallsAccounted)'
  BY <1>t DEF AccountInv
<1> DEFINE Goal == (EntriesAccounted /\ ImagesAccounted /\ TasksAccounted /\ CallsAccounted)'
<1>1. ASSUME NEW p \in Pid, NEW q \in Pid, Fork(p, q) PROVE Goal
  <2>1. MayGrows /\ Grants(proc[p].img) \subseteq may'[q]
    BY <1>0, <1>1, GrowsOne DEF Fork
  <2>2. ImagesAccounted'
    <3>1. proc'[q].img = proc[p].img /\ \A r \in Pid \ {q} : proc'[r] = proc[r]
      BY <1>0, <1>1 DEF Fork, TypeOK, Free, ProcState
    <3>2. QED
      BY <1>0, <2>1, <3>1 DEF ImagesAccounted, MayGrows
  <2>3. QED
    BY <1>0, <1>t, <1>1, <2>1, <2>2, EntriesKept, TasksKept, CallsKept DEF Fork, daemonVars
<1>2. ASSUME NEW p \in Pid, NEW i \in Image, ExecLoad(p, i) PROVE Goal
  <2>1. MayGrows /\ Grants(i) \subseteq may'[p]
    BY <1>0, <1>2, GrowsOne DEF ExecLoad
  <2>2. ImagesAccounted'
    <3>1. proc'[p].img = i /\ \A r \in Pid \ {p} : proc'[r] = proc[r]
      BY <1>0, <1>2 DEF ExecLoad, TypeOK, ProcState
    <3>2. QED
      BY <1>0, <2>1, <3>1 DEF ImagesAccounted, MayGrows
  <2>3. QED
    BY <1>0, <1>t, <1>2, <2>1, <2>2, EntriesKept, TasksKept, CallsKept DEF ExecLoad, daemonVars
<1>3. ASSUME NEW p \in Pid, HookClear(p) PROVE Goal
  <2>1. ImagesAccounted'
    <3>1. \A r \in Pid : proc'[r].img = proc[r].img /\ proc'[r].st = proc[r].st
      BY <1>0, <1>3 DEF HookClear, Advance, TypeOK, ProcState
    <3>2. Grants(proc[p].img) \subseteq may'[p] /\ \A r \in Pid \ {p} : may'[r] = may[r]
      BY <1>0, <1>3, AccountFacts DEF HookClear
    <3>3. QED
      BY <1>0, <3>1, <3>2 DEF ImagesAccounted
  <2>2. QED
    BY <1>0, <1>t, <1>3, <2>1, ForgetKeeps DEF HookClear, daemonVars
<1>4. ASSUME NEW p \in Pid, HookNotify(p) PROVE Goal
  <2>1. ImagesAccounted'
    <3>1. \E told : Advance(p, told)
      BY <1>4 DEF HookNotify
    <3>2. \A r \in Pid : proc'[r].img = proc[r].img /\ proc'[r].st = proc[r].st
      BY <1>0, <3>1 DEF Advance, TypeOK, ProcState
    <3>3. QED
      BY <1>0, <1>4, <3>2 DEF ImagesAccounted, HookNotify
  <2>2. QED
    BY <1>0, <1>t, <1>s, <1>4, <2>1, EntriesKept, TasksKept, CallsKept DEF HookNotify
<1>5. ASSUME NEW p \in Pid, Exit(p) PROVE Goal
  <2>1. ImagesAccounted'
    <3>1. proc'[p].st = "zombie" /\ \A r \in Pid \ {p} : proc'[r].img = proc[r].img /\ proc'[r].st = proc[r].st
      BY <1>0, <1>5, ExitEdits
    <3>2. \A r \in Pid \ {p} : may'[r] = may[r]
      BY <1>0, <1>5, AccountFacts DEF Exit
    <3>3. QED
      BY <1>0, <3>1, <3>2 DEF ImagesAccounted
  <2>2. QED
    BY <1>0, <1>t, <1>5, <2>1, ForgetKeeps DEF Exit, daemonVars
<1>6. ASSUME NEW p \in Pid, Reap(p) PROVE Goal
  <2>1. ImagesAccounted'
    BY <1>0, <1>6 DEF Reap, Free, TypeOK, ImagesAccounted
  <2>2. QED
    BY <1>0, <1>t, <1>s, <1>6, <2>1, EntriesKept, TasksKept, CallsKept DEF Reap, daemonVars
<1>7. ASSUME NEW m \in Modes, SwitchMode(m) PROVE Goal
  BY <1>0, <1>t, <1>s, <1>7, EntriesKept, ImagesKept, TasksKept, CallsKept DEF SwitchMode, daemonVars
<1>8. ASSUME TakeEvent PROVE Goal
  <2>1. TasksAccounted'
    <3> DEFINE k == CHOOSE n \in Slot : task[n].pc = "none"
               new == [NoTask EXCEPT !.pc = "check", !.pid = Head(ring).pid, !.smart = Head(ring).smart]
    <3>1. Head(ring) \in [pid: Pid, smart: BOOLEAN]
      BY <1>0, <1>8, HeadOfEvents DEF TakeEvent, TypeOK
    <3>2. new.pc = "check" /\ new.pid \in Pid
      BY <3>1 DEF NoTask
    <3>3. task' = [task EXCEPT ![k] = new]
      BY <1>8 DEF TakeEvent
    <3> HIDE DEF k, new
    <3>4. \A n \in Slot : task'[n] = task[n] \/ task'[n] = new
      BY <1>0, <3>3 DEF TypeOK
    <3>5. UNCHANGED may
      BY <1>8 DEF TakeEvent
    <3>6. QED
      BY <1>0, <3>2, <3>4, <3>5 DEF TasksAccounted
  <2>2. QED
    BY <1>0, <1>t, <1>s, <1>8, <2>1, EntriesKept, ImagesKept, CallsKept DEF TakeEvent
<1>9. ASSUME NEW n \in Slot, Check(n) PROVE Goal
  <2>1. TasksAccounted'
    <3>1. task' = [task EXCEPT ![n] = NoTask] \/ task' = [task EXCEPT ![n].pc = "name"]
      BY <1>9 DEF Check
    <3>2. \A k \in Slot \ {n} : task'[k] = task[k]
      BY <1>0, <3>1 DEF TypeOK
    <3>3. task'[n].pc = "none" \/ (task'[n].pc = "name" /\ task'[n].pid = task[n].pid)
      BY <1>0, <3>1 DEF TypeOK, TaskState, NoTask
    <3>4. task[n].pc # "none" /\ UNCHANGED may
      BY <1>9 DEF Check
    <3>5. QED
      BY <1>0, <3>2, <3>3, <3>4 DEF TasksAccounted
  <2>2. QED
    BY <1>0, <1>t, <1>s, <1>9, <2>1, EntriesKept, ImagesKept, CallsKept DEF Check
<1>10. ASSUME NEW n \in Slot, ReadName(n) PROVE Goal
  <2>1. TasksAccounted'
    <3> DEFINE p == task[n].pid
    <3>1. p \in Pid
      BY <1>0, <1>10 DEF ReadName, TasksAccounted
    <3>2. \/ task' = [task EXCEPT ![n] = NoTask]
          \/ /\ proc[p].st = "run"
             /\ task' = [task EXCEPT ![n].pc = "environ", ![n].app = proc[p].img]
      BY <1>10 DEF ReadName
    <3>3. \A k \in Slot \ {n} : task'[k] = task[k]
      BY <1>0, <3>2 DEF TypeOK
    <3>4. \/ task'[n].pc = "none"
          \/ /\ proc[p].st = "run"
             /\ task'[n].pc = "environ" /\ task'[n].app = proc[p].img
             /\ task'[n].pid = p /\ task'[n].smart = task[n].smart
      BY <1>0, <3>2 DEF TypeOK, TaskState, NoTask
    <3>5. proc[p].st = "run" =>
            Verdict(NoEnv, proc[p].img \in AppAllowed, task[n].smart) \subseteq may[p]
      <4>1. proc[p].img \in Image /\ task[n].smart \in BOOLEAN
        BY <1>0, <3>1 DEF TypeOK, ProcState, TaskState
      <4>2. Verdict(NoEnv, proc[p].img \in AppAllowed, task[n].smart) \subseteq Grants(proc[p].img)
        BY <4>1, GrantsCover
      <4>3. QED
        BY <1>0, <3>1, <4>2 DEF ImagesAccounted
    <3>6. UNCHANGED may
      BY <1>10 DEF ReadName
    <3>7. QED
      BY <1>0, <3>1, <3>3, <3>4, <3>5, <3>6 DEF TasksAccounted
  <2>2. QED
    BY <1>0, <1>t, <1>s, <1>10, <2>1, EntriesKept, ImagesKept, CallsKept DEF ReadName
<1>11. ASSUME NEW n \in Slot, ReadEnviron(n) PROVE Goal
  <2>1. TasksAccounted'
    <3> DEFINE p == task[n].pid
               verdicts == UNION {Verdict(e, task[n].app \in AppAllowed, task[n].smart) : e \in Environ(p)}
    <3>1. p \in Pid
      BY <1>0, <1>11 DEF ReadEnviron, TasksAccounted
    <3>2. verdicts \subseteq may[p]
      <4>1. SUFFICES ASSUME NEW e \in Environ(p)
                     PROVE  Verdict(e, task[n].app \in AppAllowed, task[n].smart) \subseteq may[p]
        OBVIOUS
      <4> DEFINE mine == task[n].app \in AppAllowed
                 now  == proc[p].img \in AppAllowed
                 s    == task[n].smart
      <4>2. mine \in BOOLEAN /\ now \in BOOLEAN /\ s \in BOOLEAN
        BY <1>0 DEF TypeOK, TaskState
      <4>3. Verdict(NoEnv, mine, s) \subseteq may[p]
        BY <1>0, <1>11 DEF ReadEnviron, TasksAccounted
      <4>4. CASE proc[p].st = "run"
        <5>1. e = Env[proc[p].img]
          BY <4>1, <4>4 DEF Environ
        <5>2. proc[p].img \in Image
          BY <1>0, <3>1 DEF TypeOK, ProcState
        <5>3. Verdict(e, now, s) \subseteq Grants(proc[p].img)
          BY <4>2, <5>1, <5>2, GrantsCover
        <5>4. Verdict(e, now, s) \subseteq may[p]
          BY <1>0, <3>1, <4>4, <5>3 DEF ImagesAccounted
        <5> HIDE DEF mine, now, s
        <5>5. Verdict(e, mine, s) \subseteq may[p]
          BY <4>2, <4>3, <5>4, MixedVerdict
        <5>6. QED
          BY <5>5 DEF mine, s
      <4>5. CASE proc[p].st # "run"
        <5>1. e = NoEnv
          BY <4>1, <4>5 DEF Environ
        <5>2. QED
          BY <4>3, <5>1
      <4>6. QED
        BY <4>4, <4>5
    <3>3. \/ task' = [task EXCEPT ![n] = NoTask]
          \/ \E v \in verdicts : task' = [task EXCEPT ![n].pc = "insert", ![n].grant = v]
      BY <1>11 DEF ReadEnviron
    <3> HIDE DEF verdicts
    <3>4. \A k \in Slot \ {n} : task'[k] = task[k]
      BY <1>0, <3>3 DEF TypeOK
    <3>5. \/ task'[n].pc = "none"
          \/ task'[n].pc = "insert" /\ task'[n].pid = p /\ task'[n].grant \in verdicts
      BY <1>0, <3>3 DEF TypeOK, TaskState, NoTask
    <3>6. UNCHANGED may
      BY <1>11 DEF ReadEnviron
    <3>7. QED
      BY <1>0, <3>1, <3>2, <3>4, <3>5, <3>6 DEF TasksAccounted
  <2>2. QED
    BY <1>0, <1>t, <1>s, <1>11, <2>1, EntriesKept, ImagesKept, CallsKept DEF ReadEnviron
<1>12. ASSUME NEW n \in Slot, Insert(n) PROVE Goal
  <2>1. task[n].pid \in Pid /\ task[n].grant \in may[task[n].pid] /\ UNCHANGED may
    BY <1>0, <1>12 DEF Insert, TasksAccounted
  <2>2. EntriesAccounted'
    <3>1. InsertGrant(task[n].pid, task[n].grant) \/ UNCHANGED mapVars
      BY <1>12 DEF Insert
    <3>2. QED
      BY <1>0, <1>t, <1>s, <2>1, <3>1, InsertKeeps, EntriesKept
  <2>3. TasksAccounted'
    <3>1. task'[n].pc = "none" /\ \A k \in Slot \ {n} : task'[k] = task[k]
      BY <1>0, <1>12 DEF Insert, TypeOK, NoTask
    <3>2. QED
      BY <1>0, <2>1, <3>1 DEF TasksAccounted
  <2>4. QED
    BY <1>0, <1>s, <1>12, <2>2, <2>3, ImagesKept, CallsKept DEF Insert
<1>13. ASSUME NEW c \in Callers, NEW p \in Pid, NEW grant \in Grant, Ask(c, p, grant) PROVE Goal
  <2>1. MayGrows /\ grant \in may'[p]
    BY <1>0, <1>13, GrowsOne DEF Ask
  <2>2. CallsAccounted'
    <3>1. req'[c].pid = p /\ req'[c].grant = grant /\ \A d \in Callers \ {c} : req'[d] = req[d]
      BY <1>0, <1>13 DEF Ask, TypeOK
    <3>2. QED
      BY <1>0, <2>1, <3>1 DEF CallsAccounted, MayGrows
  <2>3. QED
    BY <1>0, <1>t, <1>13, <2>1, <2>2, EntriesKept, ImagesKept, TasksKept DEF Ask
<1>14. ASSUME NEW c \in Callers, AskRemove(c) PROVE Goal
  <2>1. UNCHANGED may /\ req[c].pc # "idle"
    BY <1>14 DEF AskRemove
  <2>2. EntriesAccounted'
    <3>1. UNCHANGED mapVars \/ RemoveOther(req[c].pid, req[c].grant)
      BY <1>14 DEF AskRemove
    <3>2. QED
      BY <1>0, <1>t, <1>s, <2>1, <3>1, RemoveKeeps, EntriesKept
  <2>3. CallsAccounted'
    <3>1. Answer(c, "error") \/ req' = [req EXCEPT ![c].pc = "insert"]
      BY <1>14 DEF AskRemove
    <3>2. /\ req'[c].pc = "idle" \/ (req'[c].pid = req[c].pid /\ req'[c].grant = req[c].grant)
          /\ \A d \in Callers \ {c} : req'[d] = req[d]
      BY <1>0, <3>1 DEF Answer, TypeOK, ReqState
    <3>3. QED
      BY <1>0, <2>1, <3>2 DEF CallsAccounted
  <2>4. QED
    BY <1>0, <1>s, <1>14, <2>2, <2>3, ImagesKept, TasksKept DEF AskRemove
<1>15. ASSUME NEW c \in Callers, AskInsert(c) PROVE Goal
  <2>1. UNCHANGED may /\ req[c].pc # "idle"
    BY <1>15 DEF AskInsert
  <2>2. EntriesAccounted'
    <3>1. UNCHANGED mapVars \/ InsertGrant(req[c].pid, req[c].grant)
      BY <1>15 DEF AskInsert
    <3>2. req[c].pid \in Pid /\ req[c].grant \in may[req[c].pid]
      BY <1>0, <2>1 DEF CallsAccounted
    <3>3. QED
      BY <1>0, <1>t, <1>s, <2>1, <3>1, <3>2, InsertKeeps, EntriesKept
  <2>3. CallsAccounted'
    <3>1. Answer(c, "ok") \/ Answer(c, "error")
      BY <1>15 DEF AskInsert
    <3>2. req'[c].pc = "idle" /\ \A d \in Callers \ {c} : req'[d] = req[d]
      BY <1>0, <3>1 DEF Answer, TypeOK, ReqState
    <3>3. QED
      BY <1>0, <2>1, <3>2 DEF CallsAccounted
  <2>4. QED
    BY <1>0, <1>s, <1>15, <2>2, <2>3, ImagesKept, TasksKept DEF AskInsert
<1>16. CASE UNCHANGED vars
  BY <1>0, <1>t, <1>s, <1>16, EntriesKept, ImagesKept, TasksKept, CallsKept DEF vars, mapVars
<1>17. QED
  BY <1>1, <1>2, <1>3, <1>4, <1>5, <1>6, <1>7, <1>8, <1>9, <1>10, <1>11, <1>12, <1>13, <1>14,
     <1>15, <1>16 DEF Next, Hook, Evaluate

LEMMA InitAccounted == Init => AccountInv
<1> SUFFICES ASSUME Init PROVE AccountInv
  OBVIOUS
<1>1. TypeOK
  BY InitTypes
<1>2. EntriesAccounted
  BY <1>1, EntriesMeaning DEF Init, Entries
<1>3. ImagesAccounted
  BY DEF Init, ImagesAccounted, Free
<1>4. TasksAccounted /\ CallsAccounted
  BY DEF Init, TasksAccounted, CallsAccounted, NoTask, NoReq
<1>5. QED
  BY <1>1, <1>2, <1>3, <1>4 DEF AccountInv

(* Everything in the maps, in a running image, in an evaluation or in a call   *)
(* is accounted for by the recent history of its pid, however late the        *)
(* evaluations are and however pids are reused.                               *)
THEOREM AccountHolds == Spec => []AccountInv
<1>1. AccountInv /\ [Next]_vars => AccountInv'
  BY StepAccounted
<1>2. QED
  BY <1>1, InitAccounted, PTL DEF Spec

(* In Smart mode no process sees the offload GPU unless an image, or a call,  *)
(* of it or of its parent accounts for it: is_inode_blocked on the two maps.  *)
THEOREM CauseHolds == Spec => []SeesOnlyWithCause
<1>1. AccountInv => SeesOnlyWithCause
  <2> SUFFICES ASSUME AccountInv, NEW p \in Pid, mode = "smart", Sees(p, OffloadGpu)
               PROVE  (MayOf(p) \cup MayOf(proc[p].parent)) \cap {AllGpus, OffloadGpu} # {}
    BY DEF SeesOnlyWithCause
  <2> DEFINE pp == proc[p].parent
  <2>1. TypeOK /\ Entries
    BY EntriesMeaning DEF AccountInv
  <2>a. allowed \subseteq Pid /\ DOMAIN forced \subseteq Pid
    BY <2>1 DEF TypeOK
  <2>2. \A q \in allowed : AllGpus \in MayOf(q)
    BY <2>1, <2>a DEF Entries, MayOf
  <2>3. \A q \in DOMAIN forced : forced[q] \in MayOf(q)
    BY <2>1, <2>a DEF Entries, MayOf
  <2> HIDE DEF pp
  <2>4. \/ {p, pp} \cap allowed # {}
        \/ OffloadGpu \in ForcedGpu(forced, p, pp)
    BY AccessAssumption DEF Sees, IsInodeBlocked, Lets, SmartHides, pp
  <2>5. CASE {p, pp} \cap allowed # {}
    BY <2>2, <2>5 DEF pp
  <2>6. CASE OffloadGpu \in ForcedGpu(forced, p, pp)
    BY <2>3, <2>6 DEF ForcedGpu, pp
  <2>7. QED
    BY <2>4, <2>5, <2>6
<1>2. QED
  BY <1>1, AccountHolds, PTL

(***************************************************************************)
(* Evaluations that nothing overtakes                                      *)
(***************************************************************************)

DueOf(i)   == UNION {Verdict(Env[i], i \in AppAllowed, s) : s \in BOOLEAN}
Unentered(p) == p \notin allowed /\ p \notin DOMAIN forced
Fits(p) == /\ p \in allowed => AllGpus \in DueOf(proc[p].img)
           /\ p \in DOMAIN forced => forced[p] \in DueOf(proc[p].img)

(* Events and evaluations under way are about a running image, whose exec     *)
(* hook has ended, and carry what that image is due; a pid whose maps the     *)
(* hook or the exit has cleared has no entry.                                 *)
RunsInFlight == \A p \in Pid : InFlight(p) => proc[p].st = "run" /\ proc[p].hook = 0
EntriesFit ==
  \A p \in Pid : /\ proc[p].st # "run" => Unentered(p) /\ proc[p].hook = 0
                 /\ proc[p].hook = 2 => Unentered(p)
                 /\ proc[p].hook = 0 => Fits(p)
TasksFit ==
  \A n \in Slot : \A p \in Pid : task[n].pid = p =>
    /\ task[n].pc = "environ" => task[n].app = proc[p].img
    /\ task[n].pc = "insert" => task[n].grant \in DueOf(proc[p].img)
NoneAsks == \A c \in Callers : req[c].pc = "idle"

OnTimeInv ==
  /\ left.request <= MaxRequests /\ left.late <= MaxLate
  /\ Undisturbed => RunsInFlight /\ EntriesFit /\ TasksFit /\ NoneAsks

LEMMA FitsMeaning ==
  ASSUME NEW p \in Pid
  PROVE  /\ Fits(p) => Held(p) \subseteq UNION {Due(p, s) : s \in BOOLEAN}
         /\ Unentered(p) => Held(p) = {}
BY DEF Fits, Unentered, Held, HasGrant, DueOf, Due

(* What is left of the bounds never grows.                                    *)
LEMMA LeftFalls ==
  ASSUME TypeOK, [Next]_vars
  PROVE  left'.request <= left.request /\ left'.late <= left.late
<1>1. left.request \in Nat /\ left.late \in Nat
  BY DEF TypeOK
<1>2. \/ UNCHANGED left
      \/ \E b \in {"request", "fault"} : Spend(b)
      \/ \E p \in Pid : GoesOn(p)
  BY DEF Next, Fork, ExecLoad, Hook, HookClear, HookNotify, Exit, Reap, SwitchMode, TakeEvent,
     Evaluate, Check, ReadName, ReadEnviron, Insert, Ask, AskRemove, AskInsert, GoesOn, vars
<1>3. CASE UNCHANGED left
  BY <1>1, <1>3
<1>4. CASE \E b \in {"request", "fault"} : Spend(b)
  BY <1>1, <1>4 DEF Spend, TypeOK
<1>5. CASE \E p \in Pid : GoesOn(p)
  <2>1. PICK p \in Pid : GoesOn(p)
    BY <1>5
  <2>2. left'.request = left.request /\ left'.late <= left.late
    BY <2>1, EndsTypes
  <2>3. QED
    BY <1>1, <2>2
<1>6. QED
  BY <1>2, <1>3, <1>4, <1>5

(* While nobody asks and nothing is overtaken.                                *)
LEMMA StepOnTime ==
  ASSUME TypeOK, PidsKnown, OnTimeInv, [Next]_vars
  PROVE  OnTimeInv'
<1> USE AccessAssumption
<1> DEFINE Good == (RunsInFlight /\ EntriesFit /\ TasksFit /\ NoneAsks)'
<1>1. left.request \in Nat /\ MaxRequests \in Nat /\ left.late \in Nat /\ MaxLate \in Nat
  BY DEF TypeOK
<1>2. left' \in [request: Nat, fault: Nat, exec: Nat, late: Nat]
  BY StepTypes DEF TypeOK
<1>3. SUFFICES ASSUME Undisturbed, Undisturbed' PROVE Good
  <2>1. left'.request <= MaxRequests /\ left'.late <= MaxLate
    BY <1>1, <1>2, LeftFalls DEF OnTimeInv
  <2>2. Undisturbed' => Undisturbed
    BY <1>1, <1>2, LeftFalls DEF OnTimeInv, Undisturbed
  <2>3. QED
    BY <1>3, <2>1, <2>2 DEF OnTimeInv
<1>4. RunsInFlight /\ EntriesFit /\ TasksFit /\ NoneAsks
  BY <1>3 DEF OnTimeInv
<1>5. ~\E c \in Callers, p \in Pid, grant \in Grant : Ask(c, p, grant)
  <2>1. ~Spend("request")
    BY <1>1, <1>3 DEF Spend, Undisturbed, TypeOK
  <2>2. QED
    BY <2>1 DEF Ask
<1>6. \A p \in Pid : (\E i \in Image : ExecLoad(p, i)) \/ Exit(p) => ~InFlight(p)
  <2>1. left'.late = left.late
    BY <1>3 DEF Undisturbed
  <2>2. QED
    BY <2>1, EndsTypes DEF GoesOn, ExecLoad, Exit
(* What a step of one process has to show.                                    *)
<1>7. ASSUME NEW p \in Pid, ~InFlight(p), UNCHANGED daemonVars,
             \A q \in Pid \ {p} : /\ proc'[q].st = proc[q].st /\ proc'[q].img = proc[q].img
                                  /\ proc'[q].hook = proc[q].hook
                                  /\ q \in allowed' <=> q \in allowed
                                  /\ q \in DOMAIN forced' <=> q \in DOMAIN forced
                                  /\ q \in DOMAIN forced => forced'[q] = forced[q],
             proc'[p].st # "run" => Unentered(p)' /\ proc'[p].hook = 0,
             proc'[p].hook = 2 => Unentered(p)',
             proc'[p].hook = 0 => Fits(p)'
      PROVE  Good
  <2>1. \A q \in Pid : InFlight(q)' <=> InFlight(q)
    BY <1>7 DEF InFlight, daemonVars
  <2>2. RunsInFlight'
    BY <1>4, <1>7, <2>1 DEF RunsInFlight
  <2>3. \A q \in Pid \ {p} : (Fits(q) => Fits(q)') /\ (Unentered(q) => Unentered(q)')
    BY <1>7 DEF Fits, Unentered
  <2>4. EntriesFit'
    BY <1>4, <1>7, <2>3 DEF EntriesFit
  <2>5. \A n \in Slot : task[n].pid # p
    BY <1>7 DEF InFlight
  <2>6. TasksFit'
    BY <1>4, <1>7, <2>5 DEF TasksFit, daemonVars
  <2>7. NoneAsks'
    BY <1>4, <1>7 DEF NoneAsks, daemonVars
  <2>8. QED
    BY <2>2, <2>4, <2>6, <2>7
<1>8. ASSUME NEW p \in Pid, ClearMaps(p)
      PROVE  /\ Unentered(p)'
             /\ \A q \in Pid \ {p} : /\ q \in allowed' <=> q \in allowed
                                     /\ q \in DOMAIN forced' <=> q \in DOMAIN forced
                                     /\ q \in DOMAIN forced => forced'[q] = forced[q]
  BY <1>8 DEF ClearMaps, Restrict, Unentered
<1>9. \A p \in Pid : Unentered(p) => Fits(p)
  BY DEF Unentered, Fits
<1>10. \A p \in Pid : Unentered(p)' => Fits(p)'
  BY DEF Unentered, Fits
<1>11. ASSUME NEW p \in Pid, NEW q \in Pid, Fork(p, q) PROVE Good
  <2>1. ~InFlight(q) /\ Unentered(q)
    BY <1>4, <1>11 DEF Fork, RunsInFlight, EntriesFit
  <2>2. proc'[q].st = "run" /\ proc'[q].hook = 0 /\ \A r \in Pid \ {q} : proc'[r] = proc[r]
    BY <1>11 DEF Fork, TypeOK, Free
  <2>3. UNCHANGED <<allowed, forced, daemonVars>>
    BY <1>11 DEF Fork, mapVars
  <2>4. Unentered(q)'
    BY <2>1, <2>3 DEF Unentered
  <2>5. QED
    BY <1>7, <1>10, <2>1, <2>2, <2>3, <2>4
<1>12. ASSUME NEW p \in Pid, NEW i \in Image, ExecLoad(p, i) PROVE Good
  <2>1. ~InFlight(p) /\ proc[p].st = "run"
    BY <1>6, <1>12 DEF ExecLoad, Running
  <2>2. proc'[p].st = "run" /\ proc'[p].hook = 1 /\ \A r \in Pid \ {p} : proc'[r] = proc[r]
    BY <1>12, <2>1 DEF ExecLoad, TypeOK, ProcState
  <2>3. UNCHANGED <<allowed, forced, daemonVars>>
    BY <1>12 DEF ExecLoad, mapVars
  <2>4. QED
    BY <1>7, <2>1, <2>2, <2>3
<1>13. ASSUME NEW p \in Pid, HookClear(p) PROVE Good
  <2>1. proc[p].hook # 0 /\ ~InFlight(p) /\ proc[p].st = "run"
    BY <1>4, <1>13 DEF HookClear, InHook, RunsInFlight, EntriesFit
  <2>2. proc'[p].st = "run" /\ \A r \in Pid \ {p} : proc'[r] = proc[r]
    BY <1>13, <2>1 DEF HookClear, Advance, TypeOK, ProcState
  <2>3. UNCHANGED daemonVars /\ ClearMaps(p)
    BY <1>13 DEF HookClear
  <2>4. QED
    BY <1>7, <1>8, <1>10, <2>1, <2>2, <2>3
<1>14. ASSUME NEW p \in Pid, HookNotify(p) PROVE Good
  <2>1. proc[p].hook = 2
    BY <1>14 DEF HookNotify, InHook, HookOrder, TypeOK, ProcState
  <2>2. ~InFlight(p) /\ proc[p].st = "run" /\ Unentered(p)
    BY <1>4, <2>1 DEF RunsInFlight, EntriesFit
  <2>3. /\ proc'[p].st = "run" /\ proc'[p].hook = 0 /\ proc'[p].img = proc[p].img
        /\ \A r \in Pid \ {p} : proc'[r] = proc[r]
    <3>1. \E told : Advance(p, told)
      BY <1>14 DEF HookNotify
    <3>2. (2 + 1) % 3 = 0
      OBVIOUS
    <3>3. QED
      BY <2>1, <2>2, <3>1, <3>2 DEF Advance, TypeOK, ProcState
  <2>4. UNCHANGED <<allowed, forced, task, req>>
    BY <1>14 DEF HookNotify, mapVars
  <2>5. \A q \in Pid \ {p} : InFlight(q)' => InFlight(q)
    <3>1. ring' = ring \/ ring' = Append(ring, [pid |-> p, smart |-> mode = "smart"])
      BY <1>14 DEF HookNotify
    <3>2. \A j \in DOMAIN ring' : ring'[j].pid = p \/ (j \in DOMAIN ring /\ ring'[j] = ring[j])
      <4>1. CASE ring' = ring
        BY <4>1
      <4>2. CASE ring' = Append(ring, [pid |-> p, smart |-> mode = "smart"])
        BY <4>2 DEF TypeOK
      <4>3. QED
        BY <3>1, <4>1, <4>2
    <3>3. QED
      BY <2>4, <3>2 DEF InFlight
  <2>6. RunsInFlight'
    BY <1>4, <2>3, <2>5 DEF RunsInFlight
  <2>7. \A q \in Pid : (Fits(q) => Fits(q)') /\ (Unentered(q) => Unentered(q)')
    BY <2>3, <2>4 DEF Fits, Unentered
  <2>8. EntriesFit'
    BY <1>4, <1>9, <2>2, <2>3, <2>7 DEF EntriesFit
  <2>9. TasksFit'
    BY <1>4, <2>3, <2>4 DEF TasksFit
  <2>10. NoneAsks'
    BY <1>4, <2>4 DEF NoneAsks
  <2>11. QED
    BY <2>6, <2>8, <2>9, <2>10
<1>15. ASSUME NEW p \in Pid, Exit(p) PROVE Good
  <2>1. ~InFlight(p) /\ proc[p].hook = 0
    BY <1>6, <1>15 DEF Exit, Running
  <2>2. /\ proc'[p].hook = 0
        /\ \A r \in Pid \ {p} : proc'[r].st = proc[r].st /\ proc'[r].img = proc[r].img
                                /\ proc'[r].hook = proc[r].hook
    BY <1>15, <2>1, ExitEdits
  <2>3. UNCHANGED daemonVars /\ ClearMaps(p)
    BY <1>15 DEF Exit
  <2>4. QED
    BY <1>7, <1>8, <1>10, <2>1, <2>2, <2>3
<1>16. ASSUME NEW p \in Pid, Reap(p) PROVE Good
  <2>1. ~InFlight(p) /\ Unentered(p)
    BY <1>4, <1>16 DEF Reap, RunsInFlight, EntriesFit
  <2>2. proc'[p].hook = 0 /\ \A r \in Pid \ {p} : proc'[r] = proc[r]
    BY <1>16 DEF Reap, TypeOK, Free
  <2>3. UNCHANGED <<allowed, forced, daemonVars>>
    BY <1>16 DEF Reap, mapVars
  <2>4. Unentered(p)'
    BY <2>1, <2>3 DEF Unentered
  <2>5. QED
    BY <1>7, <1>10, <2>1, <2>2, <2>3, <2>4
(* What a step of an evaluation has to show.                                  *)
<1>17. ASSUME NEW n \in Slot, task[n].pc # "none", UNCHANGED <<proc, ring, req>>,
              NEW t, task' = [task EXCEPT ![n] = t],
              t.pid \in Pid => t.pid = task[n].pid,
              t.pc = "environ" => t.app = proc[task[n].pid].img,
              t.pc = "insert" => t.grant \in DueOf(proc[task[n].pid].img),
              EntriesFit'
       PROVE  Good
  <2>1. task'[n] = t /\ \A k \in Slot \ {n} : task'[k] = task[k]
    BY <1>17 DEF TypeOK
  <2>2. \A q \in Pid : InFlight(q)' => InFlight(q)
    BY <1>17, <2>1 DEF InFlight
  <2>3. RunsInFlight'
    BY <1>4, <1>17, <2>2 DEF RunsInFlight
  <2>4. TasksFit'
    BY <1>4, <1>17, <2>1 DEF TasksFit
  <2>5. NoneAsks'
    BY <1>4, <1>17 DEF NoneAsks
  <2>6. QED
    BY <1>17, <2>3, <2>4, <2>5
<1>18. ASSUME UNCHANGED <<proc, allowed, forced>> PROVE EntriesFit'
  BY <1>4, <1>18 DEF EntriesFit, Fits, Unentered
<1>19. NoTask.pid \notin Pid /\ NoTask.pc = "none"
  BY DEF NoTask
<1>20. ASSUME NEW n \in Slot, task[n].pc # "none"
       PROVE  /\ task[n].pid \in Pid /\ task[n] \in TaskState
              /\ proc[task[n].pid].st = "run" /\ proc[task[n].pid].hook = 0
  <2>1. task[n].pid \in Pid /\ task[n] \in TaskState
    BY <1>20 DEF PidsKnown, TypeOK
  <2>2. InFlight(task[n].pid)
    BY DEF InFlight
  <2>3. QED
    BY <1>4, <2>1, <2>2 DEF RunsInFlight
<1>21. ASSUME NEW n \in Slot, Check(n) \/ ReadName(n) PROVE Good
  <2>1. UNCHANGED <<proc, ring, req, allowed, forced>> /\ task[n].pc # "none"
    BY <1>21 DEF Check, ReadName, mapVars
  <2>2. EntriesFit'
    BY <1>18, <2>1
  <2>3. \/ task' = [task EXCEPT ![n] = NoTask]
        \/ task' = [task EXCEPT ![n] = [task[n] EXCEPT !.pc = "name"]]
        \/ task' = [task EXCEPT ![n] = [task[n] EXCEPT !.pc = "environ", !.app = proc[task[n].pid].img]]
    BY <1>21 DEF Check, ReadName, TypeOK
  <2>4. CASE task' = [task EXCEPT ![n] = NoTask]
    BY <1>17, <1>19, <2>1, <2>2, <2>4
  <2>5. CASE task' = [task EXCEPT ![n] = [task[n] EXCEPT !.pc = "name"]]
    <3> DEFINE t == [task[n] EXCEPT !.pc = "name"]
    <3>1. t.pc = "name" /\ t.pid = task[n].pid
      BY <1>20, <2>1 DEF TaskState
    <3> HIDE DEF t
    <3>2. task' = [task EXCEPT ![n] = t]
      BY <2>5 DEF t
    <3>3. QED
      BY <1>17, <2>1, <2>2, <3>1, <3>2
  <2>6. CASE task' = [task EXCEPT ![n] = [task[n] EXCEPT !.pc = "environ", !.app = proc[task[n].pid].img]]
    <3> DEFINE t == [task[n] EXCEPT !.pc = "environ", !.app = proc[task[n].pid].img]
    <3>1. t.pc = "environ" /\ t.pid = task[n].pid /\ t.app = proc[task[n].pid].img
      BY <1>20, <2>1 DEF TaskState
    <3> HIDE DEF t
    <3>2. task' = [task EXCEPT ![n] = t]
      BY <2>6 DEF t
    <3>3. QED
      BY <1>17, <2>1, <2>2, <3>1, <3>2
  <2>7. QED
    BY <2>3, <2>4, <2>5, <2>6
<1>22. ASSUME NEW n \in Slot, ReadEnviron(n) PROVE Good
  <2> DEFINE verdicts == UNION {Verdict(e, task[n].app \in AppAllowed, task[n].smart) :
                                  e \in Environ(task[n].pid)}
             i == proc[task[n].pid].img
  <2>1. UNCHANGED <<proc, ring, req, allowed, forced>> /\ task[n].pc = "environ"
    BY <1>22 DEF ReadEnviron, mapVars
  <2>2. EntriesFit'
    BY <1>18, <2>1
  <2>3. verdicts \subseteq DueOf(i)
    <3>1. Environ(task[n].pid) = {Env[i]}
      BY <1>20, <2>1 DEF Environ
    <3>2. task[n].app = i /\ task[n].smart \in BOOLEAN
      BY <1>4, <1>20, <2>1 DEF TasksFit, TaskState
    <3> HIDE DEF i
    <3>3. verdicts = Verdict(Env[i], i \in AppAllowed, task[n].smart)
      BY <3>1, <3>2
    <3>4. QED
      BY <3>2, <3>3 DEF DueOf
  <2>4. \/ task' = [task EXCEPT ![n] = NoTask]
        \/ \E v \in verdicts : task' = [task EXCEPT ![n] = [task[n] EXCEPT !.pc = "insert", !.grant = v]]
    BY <1>22 DEF ReadEnviron, TypeOK
  <2> HIDE DEF verdicts, i
  <2>5. CASE task' = [task EXCEPT ![n] = NoTask]
    BY <1>17, <1>19, <2>1, <2>2, <2>5
  <2>6. ASSUME NEW v \in verdicts, task' = [task EXCEPT ![n] = [task[n] EXCEPT !.pc = "insert", !.grant = v]]
        PROVE  Good
    <3> DEFINE t == [task[n] EXCEPT !.pc = "insert", !.grant = v]
    <3>1. t.pc = "insert" /\ t.pid = task[n].pid /\ t.grant = v
      BY <1>20, <2>1 DEF TaskState
    <3>2. v \in DueOf(proc[task[n].pid].img)
      BY <2>3 DEF i
    <3> HIDE DEF t
    <3>3. task' = [task EXCEPT ![n] = t]
      BY <2>6 DEF t
    <3>4. QED
      BY <1>17, <2>1, <2>2, <3>1, <3>2, <3>3
  <2>7. QED
    BY <2>4, <2>5, <2>6
<1>23. ASSUME NEW n \in Slot, Insert(n) PROVE Good
  <2>1. UNCHANGED <<proc, ring, req>> /\ task[n].pc = "insert" /\ task' = [task EXCEPT ![n] = NoTask]
    BY <1>23 DEF Insert
  <2>p. PICK p \in Pid : p = task[n].pid
    BY <1>20, <2>1
  <2>2. proc[p].st = "run" /\ proc[p].hook = 0 /\ task[n].grant \in DueOf(proc[p].img)
    BY <1>4, <1>20, <2>1, <2>p DEF TasksFit
  <2>3. EntriesFit'
    <3>1. CASE UNCHANGED mapVars
      BY <1>18, <2>1, <3>1 DEF mapVars
    <3>2. CASE InsertGrant(p, task[n].grant)
      <4>1. Fits(p)
        BY <1>4, <2>2 DEF EntriesFit
      <4>2. Fits(p)'
        <5>1. CASE task[n].grant = AllGpus
          BY <2>1, <2>2, <3>2, <4>1, <5>1 DEF InsertGrant, Fits
        <5>2. CASE task[n].grant # AllGpus
          <6>1. allowed' = allowed /\ forced'[p] = task[n].grant
            BY <3>2, <5>2 DEF InsertGrant
          <6>2. QED
            BY <2>1, <2>2, <4>1, <6>1 DEF Fits
        <5>3. QED
          BY <5>1, <5>2
      <4>3. \A q \in Pid \ {p} : (Fits(q) => Fits(q)') /\ (Unentered(q) => Unentered(q)')
        BY <2>1, <3>2 DEF InsertGrant, Fits, Unentered
      <4>4. ASSUME NEW q \in Pid
            PROVE  /\ proc'[q].st # "run" => Unentered(q)' /\ proc'[q].hook = 0
                   /\ proc'[q].hook = 2 => Unentered(q)'
                   /\ proc'[q].hook = 0 => Fits(q)'
        <5>1. CASE q = p
          BY <2>1, <2>2, <4>2, <5>1
        <5>2. CASE q # p
          BY <1>4, <2>1, <4>3, <5>2 DEF EntriesFit
        <5>3. QED
          BY <5>1, <5>2
      <4>5. QED
        BY <4>4 DEF EntriesFit
    <3>3. QED
      BY <1>23, <2>p, <3>1, <3>2 DEF Insert
  <2>4. QED
    BY <1>17, <1>19, <2>1, <2>3
<1>24. ASSUME TakeEvent PROVE Good
  <2> DEFINE k == CHOOSE n \in Slot : task[n].pc = "none"
             new == [NoTask EXCEPT !.pc = "check", !.pid = Head(ring).pid, !.smart = Head(ring).smart]
  <2>1. new.pc = "check" /\ new.pid = Head(ring).pid
    BY DEF NoTask
  <2>2. task' = [task EXCEPT ![k] = new] /\ UNCHANGED <<proc, allowed, forced, req>>
        /\ ring # <<>> /\ ring' = Tail(ring)
    BY <1>24 DEF TakeEvent, mapVars
  <2> HIDE DEF k, new
  <2>3. \A n \in Slot : task'[n] = task[n] \/ task'[n] = new
    BY <2>2 DEF TypeOK
  <2>4. \A q \in Pid : InFlight(q)' => InFlight(q)
    <3>1. 1 \in DOMAIN ring /\ Head(ring) = ring[1]
      BY <2>2 DEF TypeOK
    <3>2. \A j \in DOMAIN ring' : j + 1 \in DOMAIN ring /\ ring'[j] = ring[j + 1]
      BY <2>2 DEF TypeOK
    <3>3. QED
      BY <2>1, <2>2, <2>3, <3>1, <3>2 DEF InFlight
  <2>5. RunsInFlight'
    BY <1>4, <2>2, <2>4 DEF RunsInFlight
  <2>6. TasksFit'
    BY <1>4, <2>1, <2>2, <2>3 DEF TasksFit
  <2>7. NoneAsks'
    BY <1>4, <2>2 DEF NoneAsks
  <2>8. QED
    BY <1>18, <2>2, <2>5, <2>6, <2>7
<1>25. ASSUME UNCHANGED <<proc, allowed, forced, ring, task, req>> PROVE Good
  <2>1. \A q \in Pid : InFlight(q)' <=> InFlight(q)
    BY <1>25 DEF InFlight
  <2>2. RunsInFlight' /\ TasksFit' /\ NoneAsks'
    BY <1>4, <1>25, <2>1 DEF RunsInFlight, TasksFit, NoneAsks
  <2>3. QED
    BY <1>18, <1>25, <2>2
<1>26. CASE UNCHANGED vars \/ \E m \in Modes : SwitchMode(m)
  BY <1>25, <1>26 DEF vars, SwitchMode, mapVars, daemonVars
<1>27. ~\E c \in Callers : AskRemove(c) \/ AskInsert(c)
  BY <1>4 DEF AskRemove, AskInsert, NoneAsks
<1>28. QED
  BY <1>3, <1>5, <1>11, <1>12, <1>13, <1>14, <1>15, <1>16, <1>21, <1>22, <1>23, <1>24, <1>26, <1>27
     DEF Next, Hook, Evaluate

LEMMA InitOnTime == Init => OnTimeInv
<1> SUFFICES ASSUME Init PROVE OnTimeInv
  OBVIOUS
<1>1. /\ allowed = {} /\ forced = <<>> /\ ring = <<>> /\ task = [n \in Slot |-> NoTask]
      /\ req = [c \in Callers |-> NoReq] /\ left.request = MaxRequests
      /\ left.late = MaxLate /\ \A p \in Pid : proc[p].hook = 0
  BY DEF Init, Free
<1>2. \A p \in Pid : ~InFlight(p) /\ Unentered(p) /\ Fits(p)
  BY <1>1, AccessAssumption DEF InFlight, NoTask, NoReq, Unentered, Fits
<1>3. RunsInFlight /\ EntriesFit /\ TasksFit /\ NoneAsks
  BY <1>1, <1>2 DEF RunsInFlight, EntriesFit, TasksFit, NoneAsks, NoTask, NoReq
<1>4. QED
  BY <1>1, <1>3, AccessAssumption DEF OnTimeInv

(* Until an exec or exit overtakes an evaluation, or somebody calls           *)
(* RequestProcessAccess, the entries of a pid are grants its present image is *)
(* due, and a dead or reused pid has none left over (the exec and exit hooks, *)
(* spawn_exec_analyzer).                                                      *)
THEOREM GrantsStayMatched == Spec => []GrantsMatchImage
<1>1. Init => OnTimeInv
  BY InitOnTime
<1>2. AccountInv /\ OnTimeInv /\ [Next]_vars => OnTimeInv'
  BY StepOnTime DEF AccountInv, PidsKnown, TasksAccounted, CallsAccounted
<1>3. OnTimeInv => GrantsMatchImage
  BY FitsMeaning DEF OnTimeInv, EntriesFit, GrantsMatchImage, AtRest
<1>4. QED
  BY <1>1, <1>2, <1>3, AccountHolds, PTL DEF Spec
(***************************************************************************)
(* What is due comes                                                       *)
(***************************************************************************)

(* s is the mode in which the exec of p's image was announced.                *)
Note(p, s) == proc[p].told # "no" /\ s = (proc[p].told = "smart")
DueNow(p)  == Due(p, proc[p].told = "smart")

(* An image that was announced runs; events and evaluations carry the mode of *)
(* their announcement, and a grant on its way is due; so is an entry that     *)
(* ends an evaluation; what is due is there or on its way.                    *)
ToldRuns == \A p \in Pid : proc[p].told # "no" => proc[p].st = "run" /\ proc[p].hook = 0
EventsNoted == \A j \in DOMAIN ring : Note(ring[j].pid, ring[j].smart)
TasksNoted ==
  \A n \in Slot :
    /\ task[n].pc = "none" => task[n].pid = Reaper
    /\ task[n].pc # "none" => Note(task[n].pid, task[n].smart)
    /\ task[n].pc = "insert" => task[n].grant \in Due(task[n].pid, task[n].smart)
EntriesDue == \A p \in Pid : proc[p].told # "no" /\ p \in allowed => AllGpus \in DueNow(p)
DueComes   == \A p \in Pid : proc[p].told # "no" => DueNow(p) \subseteq Held(p) \/ InFlight(p)

Faultless == Undisturbed /\ left.fault = MaxFaults
DueInv ==
  /\ left.fault <= MaxFaults
  /\ Faultless => ToldRuns /\ EventsNoted /\ TasksNoted /\ EntriesDue /\ DueComes

LEMMA EventsOfRing == ASSUME NEW S, NEW s \in Seq(S), NEW j \in DOMAIN s PROVE s[j] \in S
OBVIOUS

LEMMA TailOfRing ==
  ASSUME NEW S, NEW s \in Seq(S), s # <<>>
  PROVE  /\ 1 \in DOMAIN s
         /\ \A j \in DOMAIN Tail(s) : j + 1 \in DOMAIN s /\ Tail(s)[j] = s[j + 1]
         /\ \A j \in DOMAIN s : j = 1 \/ (j - 1 \in DOMAIN Tail(s) /\ Tail(s)[j - 1] = s[j])
<1>1. Len(s) \in Nat \ {0} /\ DOMAIN s = 1..Len(s)
  OBVIOUS
<1>2. Len(Tail(s)) = Len(s) - 1 /\ DOMAIN Tail(s) = 1..(Len(s) - 1)
  OBVIOUS
<1>3. \A j \in 1..(Len(s) - 1) : Tail(s)[j] = s[j + 1]
  OBVIOUS
<1>4. ASSUME NEW j \in 1..Len(s), j # 1 PROVE j - 1 \in 1..(Len(s) - 1) /\ Tail(s)[j - 1] = s[j]
  <2>1. j - 1 \in 1..(Len(s) - 1) /\ (j - 1) + 1 = j
    BY <1>1, <1>4
  <2>2. QED
    BY <1>3, <2>1
<1>5. QED
  BY <1>1, <1>2, <1>3, <1>4

(* evaluate_app answers with one grant at most. *)
LEMMA OneDue ==
  ASSUME NEW p \in Pid, NEW s \in BOOLEAN, NEW v \in Due(p, s)
  PROVE  Due(p, s) = {v}
BY DEF Due, Verdict

LEMMA FaultsFall ==
  ASSUME TypeOK, [Next]_vars
  PROVE  left'.fault <= left.fault /\ (left'.fault = left.fault => ~Spend("fault"))
<1>1. left \in [request: Nat, fault: Nat, exec: Nat, late: Nat]
  BY DEF TypeOK
<1>2. \/ UNCHANGED left
      \/ \E b \in {"request", "fault"} : Spend(b)
      \/ \E p \in Pid : GoesOn(p)
  BY DEF Next, Fork, ExecLoad, Hook, HookClear, HookNotify, Exit, Reap, SwitchMode, TakeEvent,
     Evaluate, Check, ReadName, ReadEnviron, Insert, Ask, AskRemove, AskInsert, GoesOn, vars
<1>3. Spend("fault") => left'.fault = left.fault - 1
  BY <1>1 DEF Spend
<1>4. CASE UNCHANGED left
  BY <1>1, <1>3, <1>4
<1>5. CASE \E b \in {"request", "fault"} : Spend(b)
  BY <1>1, <1>3, <1>5 DEF Spend
<1>6. CASE \E p \in Pid : GoesOn(p)
  <2>1. PICK p \in Pid : GoesOn(p)
    BY <1>6
  <2> DEFINE budget == IF Ends(p, left) THEN left ELSE [left EXCEPT !.exec = @ - 1]
  <2>2. Ends(p, budget) /\ budget.fault = left.fault
        /\ budget \in [request: Nat, fault: Nat, exec: Nat, late: Nat]
    BY <1>1, <2>1 DEF GoesOn
  <2> HIDE DEF budget
  <2>3. left'.fault = budget.fault
    BY <2>2 DEF Ends
  <2>4. QED
    BY <1>1, <1>3, <2>2, <2>3
<1>7. QED
  BY <1>2, <1>4, <1>5, <1>6

(* While nobody asks, nothing is overtaken and nothing fails. *)
LEMMA StepDue ==
  ASSUME TypeOK, PidsKnown, OnTimeInv, OnTimeInv', DueInv, [Next]_vars
  PROVE  DueInv'
<1> USE AccessAssumption
<1> DEFINE Good == (ToldRuns /\ EventsNoted /\ TasksNoted /\ EntriesDue /\ DueComes)'
<1>1. left \in [request: Nat, fault: Nat, exec: Nat, late: Nat] /\ left' \in [request: Nat, fault: Nat, exec: Nat, late: Nat]
  BY StepTypes DEF TypeOK
<1>2. SUFFICES ASSUME Faultless, Faultless' PROVE Good
  <2>1. left'.fault <= MaxFaults
    BY <1>1, FaultsFall DEF DueInv
  <2>2. Faultless' => Faultless
    BY <1>1, FaultsFall, LeftFalls DEF OnTimeInv, DueInv, Faultless, Undisturbed
  <2>3. QED
    BY <1>2, <2>1, <2>2 DEF DueInv
<1>3. ToldRuns /\ EventsNoted /\ TasksNoted /\ EntriesDue /\ DueComes
  BY <1>2 DEF DueInv
<1>4. RunsInFlight /\ EntriesFit /\ TasksFit /\ NoneAsks
  BY <1>2 DEF OnTimeInv, Faultless
<1>5. ~\E c \in Callers, p \in Pid, grant \in Grant : Ask(c, p, grant)
  <2>1. ~Spend("request")
    BY <1>1, <1>2 DEF Spend, Undisturbed, Faultless
  <2>2. QED
    BY <2>1 DEF Ask
<1>6. \A p \in Pid : (\E i \in Image : ExecLoad(p, i)) \/ Exit(p) => ~InFlight(p)
  <2>1. left'.late = left.late
    BY <1>2 DEF Undisturbed, Faultless
  <2>2. QED
    BY <2>1, EndsTypes DEF GoesOn, ExecLoad, Exit
<1>7. ~Spend("fault")
  BY <1>2, FaultsFall DEF Faultless
<1>8. /\ \A j \in DOMAIN ring : ring[j].pid \in Pid /\ InFlight(ring[j].pid)
      /\ \A n \in Slot : task[n].pid \in Pid => InFlight(task[n].pid)
  <2>1. \A j \in DOMAIN ring : ring[j] \in [pid: Pid, smart: BOOLEAN]
    <3>1. ring \in Seq([pid: Pid, smart: BOOLEAN])
      BY DEF TypeOK
    <3>2. QED
      BY <3>1, EventsOfRing
  <2>2. \A j \in DOMAIN ring : ring[j].pid \in Pid
    BY <2>1
  <2>3. QED
    BY <2>2 DEF InFlight
(* What a step of one process has to show, unless it announces an exec.        *)
<1>9. ASSUME NEW p \in Pid, ~InFlight(p), UNCHANGED daemonVars, proc'[p].told = "no",
             \A q \in Pid \ {p} : /\ proc'[q].st = proc[q].st /\ proc'[q].img = proc[q].img
                                  /\ proc'[q].hook = proc[q].hook /\ proc'[q].told = proc[q].told
                                  /\ q \in allowed' <=> q \in allowed
                                  /\ q \in DOMAIN forced' <=> q \in DOMAIN forced
                                  /\ q \in DOMAIN forced => forced'[q] = forced[q]
      PROVE  Good
  <2>1. \A q \in Pid : InFlight(q)' <=> InFlight(q)
    BY <1>9 DEF InFlight, daemonVars
  <2>2. \A q \in Pid \ {p} : \A s : (Note(q, s)' <=> Note(q, s)) /\ Due(q, s)' = Due(q, s)
    BY <1>9 DEF Note, Due
  <2>3. \A q \in Pid \ {p} : DueNow(q)' = DueNow(q) /\ Held(q)' = Held(q)
    BY <1>9, <2>2 DEF DueNow, Due, Held, HasGrant
  <2>4. ToldRuns'
    BY <1>3, <1>9 DEF ToldRuns
  <2>5. EventsNoted'
    <3>1. \A j \in DOMAIN ring : ring[j].pid \in Pid \ {p}
      BY <1>8, <1>9
    <3>2. QED
      BY <1>3, <1>9, <2>2, <3>1 DEF EventsNoted, daemonVars
  <2>6. TasksNoted'
    <3>1. \A n \in Slot : task[n].pc # "none" => task[n].pid \in Pid \ {p}
      BY <1>8, <1>9 DEF PidsKnown
    <3>2. QED
      BY <1>3, <1>9, <2>2, <3>1 DEF TasksNoted, daemonVars
  <2>7. EntriesDue'
    BY <1>3, <1>9, <2>3 DEF EntriesDue
  <2>8. DueComes'
    BY <1>3, <1>9, <2>1, <2>3 DEF DueComes
  <2>9. QED
    BY <2>4, <2>5, <2>6, <2>7, <2>8
<1>10. ASSUME NEW p \in Pid, ClearMaps(p)
       PROVE  \A q \in Pid \ {p} : /\ q \in allowed' <=> q \in allowed
                                   /\ q \in DOMAIN forced' <=> q \in DOMAIN forced
                                   /\ q \in DOMAIN forced => forced'[q] = forced[q]
  BY <1>10 DEF ClearMaps, Restrict
<1>11. ASSUME NEW p \in Pid, NEW q \in Pid, Fork(p, q) PROVE Good
  <2>1. ~InFlight(q)
    BY <1>4, <1>11 DEF Fork, RunsInFlight
  <2>2. proc'[q].told = "no" /\ \A r \in Pid \ {q} : proc'[r] = proc[r]
    BY <1>11 DEF Fork, TypeOK, Free
  <2>3. UNCHANGED <<allowed, forced, daemonVars>>
    BY <1>11 DEF Fork, mapVars
  <2>4. QED
    BY <1>9, <2>1, <2>2, <2>3
<1>12. ASSUME NEW p \in Pid, NEW i \in Image, ExecLoad(p, i) PROVE Good
  <2>1. ~InFlight(p)
    BY <1>6, <1>12
  <2>2. proc'[p].told = "no" /\ \A r \in Pid \ {p} : proc'[r] = proc[r]
    BY <1>12 DEF ExecLoad, TypeOK, ProcState
  <2>3. UNCHANGED <<allowed, forced, daemonVars>>
    BY <1>12 DEF ExecLoad, mapVars
  <2>4. QED
    BY <1>9, <2>1, <2>2, <2>3
<1>13. ASSUME NEW p \in Pid, HookClear(p) PROVE Good
  <2>1. proc[p].hook # 0 /\ ~InFlight(p) /\ proc[p].told = "no"
    BY <1>3, <1>4, <1>13 DEF HookClear, InHook, RunsInFlight, ToldRuns
  <2>2. proc'[p].told = "no" /\ \A r \in Pid \ {p} : proc'[r] = proc[r]
    BY <1>13, <2>1 DEF HookClear, Advance, TypeOK, ProcState
  <2>3. UNCHANGED daemonVars /\ ClearMaps(p)
    BY <1>13 DEF HookClear
  <2>4. QED
    BY <1>9, <1>10, <2>1, <2>2, <2>3
<1>14. ASSUME NEW p \in Pid, Exit(p) PROVE Good
  <2>1. ~InFlight(p)
    BY <1>6, <1>14
  <2>2. /\ proc'[p].told = "no"
        /\ \A r \in Pid \ {p} : /\ proc'[r].st = proc[r].st /\ proc'[r].img = proc[r].img
                                /\ proc'[r].hook = proc[r].hook /\ proc'[r].told = proc[r].told
    BY <1>14, ExitEdits
  <2>3. UNCHANGED daemonVars /\ ClearMaps(p)
    BY <1>14 DEF Exit
  <2>4. QED
    BY <1>9, <1>10, <2>1, <2>2, <2>3
<1>15. ASSUME NEW p \in Pid, Reap(p) PROVE Good
  <2>1. ~InFlight(p)
    BY <1>4, <1>15 DEF Reap, RunsInFlight
  <2>2. proc'[p].told = "no" /\ \A r \in Pid \ {p} : proc'[r] = proc[r]
    BY <1>15 DEF Reap, TypeOK, Free
  <2>3. UNCHANGED <<allowed, forced, daemonVars>>
    BY <1>15 DEF Reap, mapVars
  <2>4. QED
    BY <1>9, <2>1, <2>2, <2>3
(* The announcement: the event is on its way, and no old entry is left.        *)
<1>16. ASSUME NEW p \in Pid, HookNotify(p) PROVE Good
  <2>1. proc[p].hook = 2
    BY <1>16 DEF HookNotify, InHook, HookOrder, TypeOK, ProcState
  <2>2. ~InFlight(p) /\ proc[p].st = "run" /\ Unentered(p)
    BY <1>4, <2>1 DEF RunsInFlight, EntriesFit
  <2>3. UNCHANGED <<allowed, forced, task, req>>
    BY <1>16 DEF HookNotify, mapVars
  <2>4. CASE ring' = ring /\ Advance(p, "no")
    <3>1. proc'[p].told = "no" /\ \A r \in Pid \ {p} : proc'[r] = proc[r]
      BY <2>4 DEF Advance, TypeOK, ProcState
    <3>2. UNCHANGED daemonVars
      BY <2>3, <2>4 DEF daemonVars
    <3>3. QED
      BY <1>9, <2>2, <2>3, <3>1, <3>2
  <2>5. CASE /\ Announced(p) /\ Advance(p, mode)
             /\ ring' = Append(ring, [pid |-> p, smart |-> mode = "smart"])
    <3>0. PICK event : event = [pid |-> p, smart |-> mode = "smart"]
      OBVIOUS
    <3>1. mode # "no" /\ event.pid = p /\ event.smart = (mode = "smart")
      BY <2>5, <3>0 DEF Announced
    <3>2. /\ proc'[p].st = "run" /\ proc'[p].hook = 0 /\ proc'[p].told = mode
          /\ \A r \in Pid \ {p} : proc'[r] = proc[r]
      <4>1. (2 + 1) % 3 = 0
        OBVIOUS
      <4>2. QED
        BY <2>1, <2>2, <2>5, <4>1 DEF Advance, TypeOK, ProcState
    <3>3. ring' = Append(ring, event)
      BY <2>5, <3>0
    <3>4. /\ \A j \in DOMAIN ring : j \in DOMAIN ring' /\ ring'[j] = ring[j]
          /\ Len(ring) + 1 \in DOMAIN ring' /\ ring'[Len(ring) + 1] = event
          /\ \A j \in DOMAIN ring' : j \in DOMAIN ring \/ j = Len(ring) + 1
      BY <3>3 DEF TypeOK
    <3>5. InFlight(p)' /\ \A q \in Pid : InFlight(q) => InFlight(q)'
      BY <2>3, <3>1, <3>4 DEF InFlight
    <3>6. \A q \in Pid \ {p} : \A s : (Note(q, s)' <=> Note(q, s)) /\ Due(q, s)' = Due(q, s)
      BY <3>2 DEF Note, Due
    <3>7. \A q \in Pid \ {p} : DueNow(q)' = DueNow(q) /\ Held(q)' = Held(q)
      BY <2>3, <3>2, <3>6 DEF DueNow, Due, Held, HasGrant
    <3>8. ToldRuns'
      BY <1>3, <3>2 DEF ToldRuns
    <3>9. EventsNoted'
      <4>1. proc'[p].told # "no" /\ event.smart = (proc'[p].told = "smart")
        BY <3>1, <3>2
      <4>2. \A j \in DOMAIN ring : proc'[ring[j].pid] = proc[ring[j].pid]
        BY <1>8, <2>2, <3>2
      <4>3. QED
        BY <1>3, <3>1, <3>4, <4>1, <4>2 DEF EventsNoted, Note
    <3>10. TasksNoted'
      <4>1. \A n \in Slot : task[n].pc # "none" => task[n].pid \in Pid \ {p}
        BY <1>8, <2>2 DEF PidsKnown
      <4>2. QED
        BY <1>3, <2>3, <3>6, <4>1 DEF TasksNoted
    <3>11. EntriesDue'
      BY <1>3, <2>2, <2>3, <3>2, <3>7 DEF EntriesDue, Unentered
    <3>12. DueComes'
      BY <1>3, <3>2, <3>5, <3>7 DEF DueComes
    <3>13. QED
      BY <3>8, <3>9, <3>10, <3>11, <3>12
  <2>6. QED
    BY <1>16, <2>4, <2>5 DEF HookNotify
<1>17. NoTask.pid = Reaper /\ NoTask.pc = "none"
  BY DEF NoTask
<1>18. ASSUME NEW n \in Slot, task[n].pc # "none"
       PROVE  /\ task[n].pid \in Pid /\ task[n] \in TaskState
              /\ proc[task[n].pid].st = "run"
              /\ Note(task[n].pid, task[n].smart) /\ DueNow(task[n].pid) = Due(task[n].pid, task[n].smart)
  <2>1. task[n].pid \in Pid /\ task[n] \in TaskState
    BY <1>18 DEF PidsKnown, TypeOK
  <2>2. proc[task[n].pid].st = "run"
    BY <1>4, <1>8, <2>1 DEF RunsInFlight
  <2>3. Note(task[n].pid, task[n].smart)
    BY <1>3, <1>18 DEF TasksNoted
  <2>4. QED
    BY <2>1, <2>2, <2>3 DEF Note, DueNow
(* What a step of an evaluation has to show: it goes on, or what is due is     *)
(* there.                                                                    *)
<1>19. ASSUME NEW n \in Slot, NEW p \in Pid, p = task[n].pid, task[n].pc # "none", UNCHANGED <<proc, ring, req>>,
              NEW t, task' = [task EXCEPT ![n] = t],
              \/ t = NoTask /\ DueNow(p)' \subseteq Held(p)'
              \/ /\ t.pc # "none" /\ t.pid = p /\ t.smart = task[n].smart
                 /\ t.pc = "insert" => t.grant \in Due(p, task[n].smart),
              \A q \in Pid : proc[q].told # "no" => DueNow(q)' \subseteq Held(q)' \/ InFlight(q),
              EntriesDue'
       PROVE  Good
  <2>1. task'[n] = t /\ \A k \in Slot \ {n} : task'[k] = task[k]
    BY <1>19 DEF TypeOK
  <2>2. \A q \in Pid : \A s : (Note(q, s)' <=> Note(q, s)) /\ Due(q, s)' = Due(q, s) /\ DueNow(q)' = DueNow(q)
    BY <1>19 DEF Note, Due, DueNow
  <2>3. ToldRuns' /\ EventsNoted'
    BY <1>3, <1>19 DEF ToldRuns, EventsNoted, Note
  <2>4. TasksNoted'
    <3>1. \A k \in Slot : task[k].pc # "none" => task[k].pid \in Pid
      BY <1>18
    <3>2. QED
      BY <1>3, <1>17, <1>18, <1>19, <2>1, <2>2, <3>1 DEF TasksNoted
  <2>5. DueComes'
    <3> SUFFICES ASSUME NEW q \in Pid, proc'[q].told # "no", ~(DueNow(q)' \subseteq Held(q)')
                 PROVE  InFlight(q)'
      BY DEF DueComes
    <3>1. InFlight(q)
      BY <1>19
    <3>2. p = q => t.pid = q
      BY <1>19
    <3>3. \A k \in Slot : task[k].pid = q => task'[k].pid = q
      BY <1>19, <2>1, <3>2
    <3>4. QED
      BY <1>19, <3>1, <3>3 DEF InFlight
  <2>6. QED
    BY <1>19, <2>3, <2>4, <2>5
<1>20. ASSUME UNCHANGED <<proc, allowed, forced>>
       PROVE  /\ EntriesDue' /\ \A q \in Pid : Held(q)' = Held(q) /\ DueNow(q)' = DueNow(q)
              /\ \A q \in Pid : proc[q].told # "no" => DueNow(q)' \subseteq Held(q)' \/ InFlight(q)
  <2>1. \A q \in Pid : Held(q)' = Held(q) /\ DueNow(q)' = DueNow(q)
    BY <1>20 DEF Held, HasGrant, DueNow, Due
  <2>2. QED
    BY <1>3, <1>20, <2>1 DEF EntriesDue, DueComes
<1>21. ASSUME NEW n \in Slot, Check(n) PROVE Good
  <2>1. UNCHANGED <<proc, ring, req, allowed, forced>> /\ task[n].pc = "check"
    BY <1>21 DEF Check, mapVars
  <2>p. PICK p \in Pid : p = task[n].pid
    BY <1>18, <2>1
  <2>2. CASE p \in allowed
    <3>1. task' = [task EXCEPT ![n] = NoTask]
      BY <1>21, <2>p, <2>2 DEF Check
    <3>2. AllGpus \in DueNow(p) /\ AllGpus \in Held(p)
      BY <1>3, <1>18, <2>1, <2>p, <2>2 DEF EntriesDue, Note, Held, HasGrant, Grant
    <3>3. DueNow(p) = {AllGpus}
      BY <3>2, OneDue DEF DueNow
    <3>4. DueNow(p)' \subseteq Held(p)'
      BY <1>20, <2>1, <3>2, <3>3
    <3>5. QED
      BY <1>19, <1>20, <2>1, <2>p, <3>1, <3>4
  <2>3. CASE p \notin allowed
    <3>1. PICK t : t = [task[n] EXCEPT !.pc = "name"]
      OBVIOUS
    <3>2. t.pc = "name" /\ t.pid = p /\ t.smart = task[n].smart
      BY <1>18, <2>1, <2>p, <3>1 DEF TaskState
    <3>3. task' = [task EXCEPT ![n] = t]
      BY <1>21, <2>p, <2>3, <3>1 DEF Check, TypeOK
    <3>4. QED
      BY <1>19, <1>20, <2>1, <2>p, <3>2, <3>3
  <2>4. QED
    BY <2>2, <2>3
<1>22. ASSUME NEW n \in Slot, ReadName(n) PROVE Good
  <2>1. UNCHANGED <<proc, ring, req, allowed, forced>> /\ task[n].pc = "name"
    BY <1>22 DEF ReadName, mapVars
  <2>p. PICK p \in Pid : p = task[n].pid
    BY <1>18, <2>1
  <2>2. PICK t : t = [task[n] EXCEPT !.pc = "environ", !.app = proc[p].img]
    OBVIOUS
  <2>3. t.pc = "environ" /\ t.pid = p /\ t.smart = task[n].smart
    BY <1>18, <2>1, <2>p, <2>2 DEF TaskState
  <2>4. task' = [task EXCEPT ![n] = t]
    BY <1>18, <1>22, <2>1, <2>p, <2>2 DEF ReadName, TypeOK
  <2>5. QED
    BY <1>19, <1>20, <2>1, <2>p, <2>3, <2>4
<1>23. ASSUME NEW n \in Slot, ReadEnviron(n) PROVE Good
  <2>1. UNCHANGED <<proc, ring, req, allowed, forced>> /\ task[n].pc = "environ"
    BY <1>23 DEF ReadEnviron, mapVars
  <2>p. PICK p \in Pid : p = task[n].pid
    BY <1>18, <2>1
  <2>2. task[n].app = proc[p].img /\ Environ(p) = {Env[proc[p].img]}
    BY <1>4, <1>18, <2>1, <2>p DEF TasksFit, Environ
  <2> DEFINE verdicts == UNION {Verdict(e, task[n].app \in AppAllowed, task[n].smart) :
                                  e \in Environ(task[n].pid)}
  <2>3. verdicts = Due(p, task[n].smart)
    BY <2>p, <2>2 DEF Due
  <2>4. \/ verdicts = {} /\ task' = [task EXCEPT ![n] = NoTask]
        \/ \E v \in verdicts : task' = [task EXCEPT ![n] = [task[n] EXCEPT !.pc = "insert", !.grant = v]]
    BY <1>23 DEF ReadEnviron, TypeOK
  <2> HIDE DEF verdicts
  <2>5. CASE verdicts = {} /\ task' = [task EXCEPT ![n] = NoTask]
    <3>1. DueNow(p) = {}
      BY <1>18, <2>1, <2>p, <2>3, <2>5
    <3>2. DueNow(p)' \subseteq Held(p)'
      BY <1>20, <2>1, <3>1
    <3>3. QED
      BY <1>19, <1>20, <2>1, <2>p, <2>5, <3>2
  <2>6. ASSUME NEW v \in verdicts, task' = [task EXCEPT ![n] = [task[n] EXCEPT !.pc = "insert", !.grant = v]]
        PROVE  Good
    <3>1. PICK t : t = [task[n] EXCEPT !.pc = "insert", !.grant = v]
      OBVIOUS
    <3>2. t.pc = "insert" /\ t.pid = p /\ t.smart = task[n].smart /\ t.grant \in Due(p, task[n].smart)
      BY <1>18, <2>1, <2>p, <2>3, <3>1 DEF TaskState
    <3>3. task' = [task EXCEPT ![n] = t]
      BY <2>6, <3>1
    <3>4. QED
      BY <1>19, <1>20, <2>1, <2>p, <3>2, <3>3
  <2>7. QED
    BY <2>4, <2>5, <2>6
<1>24. ASSUME NEW n \in Slot, Insert(n) PROVE Good
  <2>1. UNCHANGED <<proc, ring, req>> /\ task[n].pc = "insert" /\ task' = [task EXCEPT ![n] = NoTask]
    BY <1>24 DEF Insert
  <2>p. PICK p \in Pid : p = task[n].pid
    BY <1>18, <2>1
  <2>g. PICK v \in Grant : v = task[n].grant
    BY <1>18, <2>1 DEF TaskState
  <2>2. InsertGrant(p, v)
    BY <1>7, <1>24, <2>p, <2>g DEF Insert
  <2>3. v \in DueNow(p) /\ DueNow(p) = {v}
    <3>1. v \in DueNow(p)
      BY <1>3, <1>18, <2>1, <2>p, <2>g DEF TasksNoted
    <3>2. QED
      BY <3>1, OneDue DEF DueNow
  <2>4. \A q \in Pid : DueNow(q)' = DueNow(q)
    BY <2>1 DEF DueNow, Due
  <2>5. v \in Held(p)'
    BY <2>2 DEF InsertGrant, Held, HasGrant
  <2>6. \A q \in Pid \ {p} : Held(q)' = Held(q)
    BY <2>2 DEF InsertGrant, Held, HasGrant
  <2>7. EntriesDue'
    <3>1. \A q \in Pid : q \in allowed' => q \in allowed \/ (q = p /\ v = AllGpus)
      BY <2>2 DEF InsertGrant
    <3>2. QED
      BY <1>3, <2>1, <2>3, <2>4, <3>1 DEF EntriesDue
  <2>8. \A q \in Pid : proc[q].told # "no" => DueNow(q)' \subseteq Held(q)' \/ InFlight(q)
    BY <1>3, <2>3, <2>4, <2>5, <2>6 DEF DueComes
  <2>9. DueNow(p)' \subseteq Held(p)'
    BY <2>3, <2>4, <2>5
  <2>10. QED
    BY <1>19, <2>1, <2>p, <2>7, <2>8, <2>9
<1>25. ASSUME TakeEvent PROVE Good
  <2> DEFINE idle == CHOOSE n \in Slot : task[n].pc = "none"
  <2>1. PICK event \in [pid: Pid, smart: BOOLEAN] : event = ring[1] /\ event = Head(ring)
    <3>1. ring \in Seq([pid: Pid, smart: BOOLEAN]) /\ ring # <<>>
      BY <1>25 DEF TypeOK, TakeEvent
    <3>2. 1 \in DOMAIN ring /\ Head(ring) = ring[1]
      BY <3>1
    <3>3. QED
      BY <3>1, <3>2, EventsOfRing
  <2>2. PICK k \in Slot : k = idle /\ task[k].pc = "none"
    BY <1>25 DEF TakeEvent
  <2>3. PICK t : t = [NoTask EXCEPT !.pc = "check", !.pid = event.pid, !.smart = event.smart]
    OBVIOUS
  <2>4. t.pc = "check" /\ t.pid = event.pid /\ t.smart = event.smart
    BY <2>3 DEF NoTask
  <2>5. /\ task' = [task EXCEPT ![k] = t] /\ UNCHANGED <<proc, allowed, forced, req>>
        /\ ring # <<>> /\ ring' = Tail(ring)
    BY <1>25, <2>1, <2>2, <2>3 DEF TakeEvent, mapVars
  <2> HIDE DEF idle
  <2>6. task'[k] = t /\ \A n \in Slot \ {k} : task'[n] = task[n]
    BY <2>5 DEF TypeOK
  <2>7. /\ 1 \in DOMAIN ring
        /\ \A j \in DOMAIN ring' : j + 1 \in DOMAIN ring /\ ring'[j] = ring[j + 1]
        /\ \A j \in DOMAIN ring : j = 1 \/ (j - 1 \in DOMAIN ring' /\ ring'[j - 1] = ring[j])
    <3>1. ring \in Seq([pid: Pid, smart: BOOLEAN])
      BY DEF TypeOK
    <3>2. QED
      BY <2>5, <3>1, TailOfRing
  <2>8. \A q \in Pid : \A s : (Note(q, s)' <=> Note(q, s)) /\ Due(q, s)' = Due(q, s)
    BY <2>5 DEF Note, Due
  <2>9. ToldRuns' /\ EventsNoted'
    BY <1>3, <2>5, <2>7 DEF ToldRuns, EventsNoted, Note
  <2>10. TasksNoted'
    <3>1. Note(event.pid, event.smart)
      BY <1>3, <2>1, <2>7 DEF EventsNoted
    <3>2. \A n \in Slot : task[n].pc # "none" => task[n].pid \in Pid
      BY <1>18
    <3>3. QED
      BY <1>3, <2>1, <2>4, <2>6, <2>8, <3>1, <3>2 DEF TasksNoted
  <2>11. \A q \in Pid : InFlight(q) => InFlight(q)'
    <3> SUFFICES ASSUME NEW q \in Pid, InFlight(q) PROVE InFlight(q)'
      OBVIOUS
    <3>1. CASE \E j \in DOMAIN ring : ring[j].pid = q
      BY <2>1, <2>4, <2>6, <2>7, <3>1 DEF InFlight
    <3>2. CASE \E n \in Slot : task[n].pid = q
      <4>1. task[k].pid = Reaper
        BY <1>3, <2>2 DEF TasksNoted
      <4>2. QED
        BY <2>6, <3>2, <4>1 DEF InFlight
    <3>3. CASE \E c \in Callers : req[c].pc # "idle" /\ req[c].pid = q
      BY <2>5, <3>3 DEF InFlight
    <3>4. QED
      BY <3>1, <3>2, <3>3 DEF InFlight
  <2>12. DueComes'
    BY <1>20, <2>5, <2>11 DEF DueComes
  <2>13. QED
    BY <1>20, <2>5, <2>9, <2>10, <2>12
<1>26. ASSUME UNCHANGED <<proc, allowed, forced, ring, task, req>> PROVE Good
  <2>1. \A q \in Pid : InFlight(q)' <=> InFlight(q)
    BY <1>26 DEF InFlight
  <2>2. ToldRuns' /\ EventsNoted' /\ TasksNoted'
    BY <1>3, <1>26 DEF ToldRuns, EventsNoted, TasksNoted, Note, Due
  <2>3. DueComes'
    BY <1>20, <1>26, <2>1 DEF DueComes
  <2>4. QED
    BY <1>20, <1>26, <2>2, <2>3
<1>27. CASE UNCHANGED vars \/ \E m \in Modes : SwitchMode(m)
  BY <1>26, <1>27 DEF vars, SwitchMode, mapVars, daemonVars
<1>28. ~\E c \in Callers : AskRemove(c) \/ AskInsert(c)
  BY <1>4 DEF AskRemove, AskInsert, NoneAsks
<1>29. QED
  BY <1>5, <1>11, <1>12, <1>13, <1>14, <1>15, <1>16, <1>21, <1>22, <1>23, <1>24, <1>25, <1>27, <1>28
     DEF Next, Hook, Evaluate

(* Until an exec or exit overtakes an evaluation, somebody calls              *)
(* RequestProcessAccess, or an insertion fails, a process whose exec was      *)
(* announced has the grant its image is due as soon as nothing of it is under *)
(* way (the exec hook, spawn_exec_analyzer).                                  *)
THEOREM DueHolds == Spec => []DueIsGranted
<1>1. Init => OnTimeInv /\ DueInv
  <2> SUFFICES ASSUME Init PROVE DueInv
    BY InitOnTime
  <2>1. /\ allowed = {} /\ ring = <<>> /\ task = [n \in Slot |-> NoTask]
        /\ left.fault = MaxFaults /\ \A p \in Pid : proc[p].told = "no"
    BY DEF Init, Free
  <2>2. ToldRuns /\ EventsNoted /\ TasksNoted /\ EntriesDue /\ DueComes
    BY <2>1 DEF ToldRuns, EventsNoted, TasksNoted, EntriesDue, DueComes, NoTask
  <2>3. QED
    BY <2>1, <2>2, AccessAssumption DEF DueInv
<1>2. AccountInv /\ OnTimeInv /\ DueInv /\ [Next]_vars => OnTimeInv' /\ DueInv'
  <2>1. AccountInv => TypeOK /\ PidsKnown
    BY DEF AccountInv, PidsKnown, TasksAccounted, CallsAccounted
  <2>2. QED
    BY <2>1, StepOnTime, StepDue
<1>3. DueInv => DueIsGranted
  BY DEF DueInv, Faultless, DueIsGranted, DueComes, DueNow, AtRest
<1>4. QED
  BY <1>1, <1>2, <1>3, AccountHolds, PTL DEF Spec
=============================================================================
