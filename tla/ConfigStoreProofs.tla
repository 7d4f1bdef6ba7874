-------------------------- MODULE ConfigStoreProofs --------------------------
(* What TLAPS proves of ConfigStore, for every set of settings and of calls   *)
(* under way and without a bound on writes, faults and crashes.               *)
EXTENDS ConfigStore, TLAPS

(***************************************************************************)
(* The invariant                                                           *)
(***************************************************************************)

(* The numbers in the file, in a saved copy and in memory only grow, in this  *)
(* order.                                                                    *)
Grows ==
  /\ \A s \in Setting : memory[s] <= history.stored
  /\ \A s \in Setting : Parsed(file)[s] <= memory[s]
  /\ \A k \in Saving : \A s \in Setting :
       Parsed(file)[s] <= call[k].snap[s] /\ call[k].snap[s] <= memory[s]

(* How far the write of a call has come.                                      *)
Reached ==
  /\ \A k \in Call : Running(k) /\ call[k].op \in Setting => call[k].no <= memory[call[k].op]
  /\ \A k \in Saving : call[k].op \in Setting => call[k].no <= call[k].snap[call[k].op]
  /\ \A k \in Call : call[k].pc = "notify" /\ call[k].op \in Setting /\ ~readonly
       => call[k].no <= Parsed(file)[call[k].op]

(* The save lock, the interface's lock, and the calls that need a map.        *)
Locked ==
  /\ \A j, k \in Saving : j = k
  /\ \A j, k \in Call : Running(j) /\ Running(k) /\ j # k => ~Exclusive(call[j].op)
  /\ \A k \in Call : call[k].pc = "map" => call[k].op = Nvidia /\ call[k].no = memory[Nvidia]
  /\ ~up => \A k \in Call : call[k].pc \in {"idle", "answered"}
  /\ \A k \in Call : call[k].pc = "rename" => ~readonly

WillSave == \E k \in Call : call[k].pc \in {"map", "lock"}

(* What memory has and the file or the kernel has not is still on its way.    *)
OnItsWay ==
  /\ \A k \in Saving : call[k].snap = memory \/ WillSave
  /\ up => history.file \/ Parsed(file) = memory \/ WillSave \/ Saving # {}
  /\ up => history.kernel \/ kernel = memory[Nvidia] \/ \E k \in Call : call[k].pc = "map"
  /\ up => \A k \in tmp : call[k].pc = "rename"

IInv == TypeOK /\ Grows /\ Reached /\ Locked /\ OnItsWay /\ AnsweredIsSaved

(***************************************************************************)
(* Small facts                                                             *)
(***************************************************************************)

LEMMA ParsedTyped == ASSUME TypeOK PROVE Parsed(file) \in [Setting -> Nat]
BY DEF TypeOK, Parsed, Default

LEMMA IdleTyped == Idle \in CallState /\ Idle.pc = "idle" /\ Idle.op = Save /\ Default \in [Setting -> Nat]
BY DEF Idle, CallState, Default

(* What the call that steps becomes, and that no other call changes.          *)
LEMMA OneCall ==
  ASSUME call \in [Call -> CallState], NEW k \in Call, NEW c \in CallState,
         call' = [call EXCEPT ![k] = c]
  PROVE  /\ call' \in [Call -> CallState]
         /\ call'[k] = c
         /\ \A j \in Call \ {k} : call'[j] = call[j]
OBVIOUS

(* The records the steps of a call make of it.                                *)
LEMMA CallEdits ==
  ASSUME NEW c \in CallState, NEW no \in Nat, NEW snap \in [Setting -> Nat],
         NEW pc \in {"start", "map", "lock", "write", "rename", "notify", "answered"}
  PROVE  /\ [c EXCEPT !.pc = pc] \in CallState
         /\ [c EXCEPT !.pc = pc, !.no = no] \in CallState
         /\ [c EXCEPT !.pc = pc, !.snap = snap] \in CallState
BY DEF CallState

(***************************************************************************)
(* The invariant holds in the beginning and survives every step            *)
(***************************************************************************)

LEMMA InitHas == Init => IInv
<1> SUFFICES ASSUME Init PROVE IInv
  OBVIOUS
<1> USE ConfigAssumption
<1>1. Default \in [Setting -> Nat] /\ Parsed(file) = Default /\ \A s \in Setting : Default[s] = 0
  BY DEF Init, Default, Parsed
<1>2. \A k \in Call : call[k] = Idle /\ call[k].pc = "idle"
  BY IdleTyped DEF Init
<1>3. TypeOK
  BY <1>1, IdleTyped DEF Init, TypeOK
<1>4. Saving = {}
  BY <1>2 DEF Saving
<1>5. Grows
  BY <1>1, <1>4 DEF Init, Grows
<1>6. Reached
  BY <1>2, <1>4 DEF Reached, Running
<1>7. Locked
  BY <1>2, <1>4 DEF Locked, Running
<1>8. OnItsWay
  BY <1>4 DEF Init, OnItsWay
<1>9. AnsweredIsSaved
  BY <1>1 DEF Init, AnsweredIsSaved
<1>10. QED
  BY <1>3, <1>5, <1>6, <1>7, <1>8, <1>9 DEF IInv

(* A step that changes no call, memory or file, and only lowers tmp.          *)
LEMMA StartKeeps == IInv /\ Start => IInv'
<1> SUFFICES ASSUME IInv, Start PROVE IInv'
  OBVIOUS
<1> USE ConfigAssumption
<1>1. TypeOK /\ Grows /\ Reached /\ Locked /\ AnsweredIsSaved
  BY DEF IInv
<1>2. Parsed(file) \in [Setting -> Nat] /\ Parsed(file)[Nvidia] \in Nat
  BY <1>1, ParsedTyped
<1>3. \A k \in Call : call[k].pc \in {"idle", "answered"}
  BY <1>1 DEF Locked, Start
<1>4. Saving = {} /\ Saving' = {}
  BY <1>3 DEF Saving, Start
<1>5. TypeOK'
  BY <1>1, <1>2 DEF TypeOK, Start
<1>6. Grows'
  <2>1. ASSUME NEW s \in Setting PROVE Parsed(file)[s] <= history.stored
    <3>1. Parsed(file)[s] <= memory[s] /\ memory[s] <= history.stored
      BY <1>1 DEF Grows
    <3>2. Parsed(file)[s] \in Nat /\ memory[s] \in Nat /\ history.stored \in Nat
      BY <1>1, <1>2 DEF TypeOK
    <3>3. QED
      BY <3>1, <3>2
  <2>2. history'.stored = history.stored
    BY <1>1 DEF Start, TypeOK
  <2>3. Parsed(file)' = Parsed(file) /\ memory' = Parsed(file)
    BY DEF Start, Parsed
  <2>4. ASSUME NEW s \in Setting PROVE Parsed(file)[s] <= Parsed(file)[s]
    BY <1>2
  <2>5. QED
    BY <1>4, <2>1, <2>2, <2>3, <2>4 DEF Grows
<1>7. Reached'
  BY <1>3, <1>4 DEF Reached, Running, Start
<1>8. Locked'
  BY <1>3, <1>4 DEF Locked, Running, Start
<1>9. OnItsWay'
  BY <1>4 DEF OnItsWay, Start, Parsed
<1>10. AnsweredIsSaved'
  BY <1>1 DEF AnsweredIsSaved, TypeOK, Start, Parsed
<1>11. QED
  BY <1>5, <1>6, <1>7, <1>8, <1>9, <1>10 DEF IInv

(* A crash ends the calls whose callers have no answer.                       *)
LEMMA CrashKeeps == IInv /\ Crash => IInv'
<1> SUFFICES ASSUME IInv, Crash PROVE IInv'
  OBVIOUS
<1> USE ConfigAssumption
<1>1. TypeOK /\ Grows /\ AnsweredIsSaved
  BY DEF IInv
<1>2. \A k \in Call : call'[k] \in CallState /\ call'[k].pc \in {"idle", "answered"}
  <2>1. ASSUME NEW k \in Call PROVE call'[k] = IF call[k].pc = "answered" THEN call[k] ELSE Idle
    BY DEF Crash
  <2>2. ASSUME NEW k \in Call PROVE call[k] \in CallState
    BY <1>1 DEF TypeOK
  <2>3. QED
    BY <2>1, <2>2, IdleTyped
<1>3. Saving' = {}
  BY <1>2 DEF Saving
<1>4. TypeOK'
  <2>1. call' \in [Call -> CallState]
    BY <1>2 DEF Crash
  <2>2. history' \in [stored : Nat, acked : [Setting -> Nat],
                      kernel : BOOLEAN, file : BOOLEAN, client : SUBSET Setting]
    BY <1>1 DEF TypeOK, Crash
  <2>3. left' \in [write : Nat, fault : Nat, crash : Nat]
    BY <1>1 DEF TypeOK, Crash
  <2>4. QED
    BY <1>1, <2>1, <2>2, <2>3 DEF TypeOK, Crash
<1>5. history'.stored = history.stored /\ history'.acked = history.acked
  BY <1>1 DEF Crash, TypeOK
<1>6. Grows'
  BY <1>1, <1>3, <1>5 DEF Grows, Crash, Parsed
<1>7. Reached'
  BY <1>2, <1>3 DEF Reached, Running
<1>8. Locked'
  BY <1>2, <1>3 DEF Locked, Running
<1>9. OnItsWay'
  BY <1>3 DEF OnItsWay, Crash
<1>10. AnsweredIsSaved'
  BY <1>1, <1>5 DEF AnsweredIsSaved, Crash, Parsed
<1>11. QED
  BY <1>4, <1>6, <1>7, <1>8, <1>9, <1>10 DEF IInv

(* Steps of the client, of a caller and of a refused call: no call that runs  *)
(* changes.                                                                  *)
Resting == {"idle", "start", "answered"}

LEMMA QuietKeeps ==
  ASSUME IInv, TypeOK', UNCHANGED <<up, readonly, memory, kernel, file, tmp>>,
         history'.stored = history.stored, history'.acked = history.acked,
         history'.kernel = history.kernel, history'.file = history.file,
         \A j \in Call : \/ call'[j] = call[j]
                         \/ /\ call[j].pc \in Resting /\ call'[j].pc \in Resting
                            /\ up \/ call'[j].pc \in {"idle", "answered"}
  PROVE  IInv'
<1>1. \A j \in Call : /\ Running(j)' <=> Running(j)
                      /\ Running(j) => call'[j] = call[j]
  BY DEF Running, Resting
<1>2. \A j \in Call : \A pc \in {"map", "lock", "write", "rename", "notify"} :
        call'[j].pc = pc <=> call[j].pc = pc
  BY DEF Resting
<1>3. Saving' = Saving /\ \A j \in Saving : Running(j) /\ call'[j] = call[j]
  <2>1. Saving' = Saving
    BY <1>2 DEF Saving
  <2>2. \A j \in Saving : j \in Call /\ Running(j)
    BY DEF Saving, Running
  <2>3. QED
    BY <1>1, <2>1, <2>2
<1>4. Parsed(file)' = Parsed(file)
  BY DEF Parsed
<1>5. Grows'
  BY <1>3, <1>4 DEF IInv, Grows
<1>6. Reached'
  <2>1. \A j \in Call : Running(j)' /\ call'[j].op \in Setting => call'[j].no <= memory[call'[j].op]
    BY <1>1 DEF IInv, Reached
  <2>2. \A j \in Saving : call'[j].op \in Setting => call'[j].no <= call'[j].snap[call'[j].op]
    BY <1>3 DEF IInv, Reached
  <2>3. \A j \in Call : call'[j].pc = "notify" => call'[j] = call[j]
    BY DEF Resting
  <2>4. QED
    BY <1>3, <1>4, <2>1, <2>2, <2>3 DEF IInv, Reached
<1>7. Locked'
  <2>1. \A j, k \in Call : Running(j)' /\ Running(k)' /\ j # k => ~Exclusive(call'[j].op)
    BY <1>1 DEF IInv, Locked
  <2>2. \A j \in Call : call'[j].pc = "map" => call'[j].op = Nvidia /\ call'[j].no = memory[Nvidia]
    BY DEF IInv, Locked, Resting
  <2>3. ~up => \A j \in Call : call'[j].pc \in {"idle", "answered"}
    BY DEF IInv, Locked
  <2>4. \A j \in Call : call'[j].pc = "rename" => ~readonly
    BY <1>2 DEF IInv, Locked
  <2>5. \A j, k \in Saving : j = k
    BY DEF IInv, Locked
  <2>6. QED
    BY <1>3, <2>1, <2>2, <2>3, <2>4, <2>5 DEF Locked, Exclusive
<1>8. OnItsWay'
  <2>1. WillSave' <=> WillSave
    BY <1>2 DEF WillSave
  <2>2. (\E j \in Call : call'[j].pc = "map") <=> \E j \in Call : call[j].pc = "map"
    BY <1>2
  <2>3. \A j \in tmp : call[j].pc = "rename" => call'[j].pc = "rename"
    <3>1. tmp \subseteq Call
      BY DEF IInv, TypeOK
    <3>2. QED
      BY <1>2, <3>1
  <2>4. QED
    BY <1>3, <1>4, <2>1, <2>2, <2>3 DEF IInv, OnItsWay
<1>9. AnsweredIsSaved'
  BY <1>4 DEF IInv, AnsweredIsSaved
<1>10. QED
  BY <1>5, <1>6, <1>7, <1>8, <1>9 DEF IInv

LEMMA RequestKeeps ==
  ASSUME IInv, NEW k \in Call, NEW op \in Setting \cup {Save}, NEW gui \in BOOLEAN,
         NEW bad \in BOOLEAN, Request(k, op, gui, bad)
  PROVE  IInv'
<1> DEFINE c == [Idle EXCEPT !.pc = "start", !.op = op, !.gui = gui, !.bad = bad]
<1>1. c \in CallState /\ c.pc = "start"
  BY IdleTyped DEF CallState
<1>2. TypeOK
  BY DEF IInv
<1>3. /\ call' \in [Call -> CallState] /\ call'[k] = c
      /\ \A j \in Call \ {k} : call'[j] = call[j]
  <2> HIDE DEF c
  <2>1. call \in [Call -> CallState] /\ call' = [call EXCEPT ![k] = c]
    BY <1>2 DEF TypeOK, Request, c
  <2>2. QED
    BY <1>1, <2>1, OneCall
<1>4. left' \in [write : Nat, fault : Nat, crash : Nat]
  BY <1>2 DEF TypeOK, Request
<1>5. TypeOK'
  BY <1>2, <1>3, <1>4 DEF TypeOK, Request
<1>6. call[k].pc = "idle" /\ up
  BY DEF Request
<1>7. QED
  BY <1>1, <1>3, <1>5, <1>6, QuietKeeps DEF Request, Resting

LEMMA RefuseKeeps == ASSUME IInv, NEW k \in Call, Refuse(k) PROVE IInv'
<1>1. TypeOK
  BY DEF IInv
<1>2. /\ call' \in [Call -> CallState] /\ call'[k] = Idle
      /\ \A j \in Call \ {k} : call'[j] = call[j]
  BY <1>1, IdleTyped, OneCall DEF TypeOK, Refuse
<1>3. TypeOK'
  BY <1>1, <1>2 DEF TypeOK, Refuse
<1>4. QED
  BY <1>2, <1>3, IdleTyped, QuietKeeps DEF Refuse, Resting

LEMMA ClientKeeps ==
  ASSUME IInv, Subscribe \/ Fetch \/ \E s \in Setting : Changed(s)
  PROVE  IInv'
<1>1. TypeOK
  BY DEF IInv
<1>2. /\ UNCHANGED <<up, readonly, memory, kernel, file, tmp, call, history, left>>
      /\ client' \in [pc : {"closed", "subscribed", "live", "deaf"}, cache : [Setting -> Nat],
                      changed : SUBSET Setting, shown : [Setting -> Nat]]
  <2>1. CASE Subscribe
    BY <1>1, <2>1 DEF TypeOK, Subscribe
  <2>2. CASE Fetch
    BY <1>1, <2>2 DEF TypeOK, Fetch, Fetched
  <2>3. ASSUME NEW s \in Setting, Changed(s)
        PROVE  /\ UNCHANGED <<up, readonly, memory, kernel, file, tmp, call, history, left>>
               /\ client' \in [pc : {"closed", "subscribed", "live", "deaf"}, cache : [Setting -> Nat],
                               changed : SUBSET Setting, shown : [Setting -> Nat]]
    <3>1. client.cache[s] \in Nat
      BY <1>1 DEF TypeOK
    <3>2. QED
      BY <1>1, <2>3, <3>1 DEF TypeOK, Changed
  <2>4. QED
    BY <2>1, <2>2, <2>3
<1>3. TypeOK'
  BY <1>1, <1>2 DEF TypeOK
<1>4. QED
  BY <1>2, <1>3, QuietKeeps

LEMMA FetchFailsKeeps ==
  ASSUME IInv, NEW pc \in {"live", "deaf"}, FetchFails(pc)
  PROVE  IInv'
<1>1. TypeOK /\ UNCHANGED <<up, readonly, memory, kernel, file, tmp, call>>
  BY DEF IInv, FetchFails
<1>2. left' \in [write : Nat, fault : Nat, crash : Nat]
  <2>1. CASE up
    BY <1>1, <2>1 DEF TypeOK, FetchFails
  <2>2. CASE ~up
    BY <1>1, <2>2 DEF TypeOK, FetchFails
  <2>3. QED
    BY <2>1, <2>2
<1>3. client' \in [pc : {"closed", "subscribed", "live", "deaf"}, cache : [Setting -> Nat],
                  changed : SUBSET Setting, shown : [Setting -> Nat]]
  BY <1>1 DEF TypeOK, FetchFails
<1>4. /\ history' \in [stored : Nat, acked : [Setting -> Nat],
                      kernel : BOOLEAN, file : BOOLEAN, client : SUBSET Setting]
      /\ history'.stored = history.stored /\ history'.acked = history.acked
      /\ history'.kernel = history.kernel /\ history'.file = history.file
  BY <1>1 DEF TypeOK, FetchFails
<1>5. TypeOK'
  BY <1>1, <1>2, <1>3, <1>4 DEF TypeOK
<1>6. QED
  BY <1>1, <1>4, <1>5, QuietKeeps

LEMMA AnsweredKeeps == ASSUME IInv, NEW k \in Call, Answered(k) PROVE IInv'
<1>1. TypeOK
  BY DEF IInv
<1>2. /\ call' \in [Call -> CallState] /\ call'[k] = Idle
      /\ \A j \in Call \ {k} : call'[j] = call[j]
  BY <1>1, IdleTyped, OneCall DEF TypeOK, Answered
<1>3. client' \in [pc : {"closed", "subscribed", "live", "deaf"}, cache : [Setting -> Nat],
                  changed : SUBSET Setting, shown : [Setting -> Nat]]
  <2>1. call[k].no \in Nat
    BY <1>1 DEF TypeOK, CallState
  <2>2. QED
    BY <1>1, <2>1 DEF TypeOK, Answered
<1>4. TypeOK'
  BY <1>1, <1>2, <1>3 DEF TypeOK, Answered
<1>5. QED
  BY <1>2, <1>4, IdleTyped, QuietKeeps DEF Answered, Resting

(* What a running call, or one that starts to run, may rely on.               *)
LEMMA RunsUp ==
  ASSUME IInv, NEW k \in Call, call[k].pc \notin {"idle", "answered"}
  PROVE  up
BY DEF IInv, Locked

(* The interface's lock and the save lock after a step of one call: it goes   *)
(* on with its operation and takes the save lock only when that is free, or   *)
(* it ends.                                                                  *)
LEMMA LocksHold ==
  ASSUME IInv, NEW k \in Call, Running(k), UNCHANGED <<up, readonly, memory>>,
         NEW c \in CallState, call'[k] = c, \A j \in Call \ {k} : call'[j] = call[j],
         c.pc \in {"lock", "write", "rename", "notify"} => c.op = call[k].op,
         c.pc # "map", c.pc = "rename" => ~readonly,
         c.pc \in {"write", "rename"} => Saving \subseteq {k}
  PROVE  Locked'
<1>1. up
  BY RunsUp DEF Running
<1>2. c.pc \in {"idle", "start", "map", "lock", "write", "rename", "notify", "answered"}
  BY DEF CallState
<1>3. \A i, j \in Saving' : i = j
  <2>1. \A i \in Saving' : i # k => i \in Saving
    BY DEF Saving
  <2>2. CASE c.pc \in {"write", "rename"}
    BY <2>1, <2>2 DEF Saving
  <2>3. CASE c.pc \notin {"write", "rename"}
    BY <2>1, <2>3 DEF Saving, IInv, Locked
  <2>4. QED
    BY <2>2, <2>3
<1>4. \A i, j \in Call : Running(i)' /\ Running(j)' /\ i # j => ~Exclusive(call'[i].op)
  <2>1. \A i \in Call : Running(i)' => Running(i) /\ call'[i].op = call[i].op
    BY <1>2 DEF Running
  <2>2. QED
    BY <2>1 DEF IInv, Locked
<1>5. \A i \in Call : call'[i].pc = "map" => call'[i].op = Nvidia /\ call'[i].no = memory[Nvidia]
  BY DEF IInv, Locked
<1>6. \A i \in Call : call'[i].pc = "rename" => ~readonly
  BY DEF IInv, Locked
<1>7. QED
  BY <1>1, <1>3, <1>4, <1>5, <1>6 DEF Locked, Exclusive

(* The same for what a step leaves of Grows and Reached: the file changes at  *)
(* most to the copy of the call.                                             *)
LEMMA CopiesHold ==
  ASSUME IInv, NEW k \in Call, UNCHANGED <<readonly, memory>>,
         history'.stored = history.stored,
         NEW c \in CallState, call'[k] = c, \A j \in Call \ {k} : call'[j] = call[j],
         file' = file \/ (k \in Saving /\ c.pc \notin {"write", "rename"} /\ file' = call[k].snap),
         c.pc \in {"write", "rename"} =>
            /\ (k \in Saving /\ c.snap = call[k].snap) \/ c.snap = memory
            /\ c.op = call[k].op /\ c.no = call[k].no,
         c.pc \notin Resting => c.op = call[k].op /\ (c.op \in Setting => Running(k) /\ c.no = call[k].no),
         c.pc = "notify" /\ c.op \in Setting /\ ~readonly => k \in Saving /\ file' = call[k].snap
  PROVE  Grows' /\ Reached'
<1> USE ConfigAssumption
<1>1. TypeOK /\ Grows /\ Reached /\ Locked
  BY DEF IInv
<1>2. \A j \in Call : call[j].snap \in [Setting -> Nat] /\ call[j].no \in Nat /\ c.no \in Nat
  BY <1>1 DEF TypeOK, CallState
<1>3. Parsed(file) \in [Setting -> Nat] /\ memory \in [Setting -> Nat] /\ history.stored \in Nat
  BY <1>1, ParsedTyped DEF TypeOK
<1>4. /\ \A s \in Setting : Parsed(file)[s] <= Parsed(file)'[s] /\ Parsed(file)'[s] <= memory[s]
      /\ Parsed(file)' \in [Setting -> Nat]
  <2>1. CASE file' = file
    BY <1>1, <1>3, <2>1 DEF Parsed, Grows
  <2>2. CASE k \in Saving /\ file' = call[k].snap
    <3>1. Parsed(file)' = call[k].snap
      BY <1>2, <2>2 DEF Parsed
    <3>2. QED
      BY <1>1, <1>2, <2>2, <3>1 DEF Grows
  <2>3. QED
    BY <2>1, <2>2
<1>5. \A j \in Saving' : \/ j # k /\ j \in Saving /\ file' = file /\ call'[j] = call[j]
                         \/ /\ j = k /\ file' = file
                            /\ (k \in Saving /\ c.snap = call[k].snap) \/ c.snap = memory
  <2>1. \A j \in Saving' : j # k => j \in Saving /\ call'[j] = call[j]
    BY DEF Saving
  <2>2. ASSUME NEW j \in Saving', j # k PROVE file' = file
    BY <1>1, <2>1, <2>2 DEF Locked
  <2>3. k \in Saving' => c.pc \in {"write", "rename"}
    BY DEF Saving
  <2>4. QED
    BY <2>1, <2>2, <2>3
<1>6. Grows'
  <2>1. ASSUME NEW j \in Saving', NEW s \in Setting
        PROVE  Parsed(file)'[s] <= call'[j].snap[s] /\ call'[j].snap[s] <= memory[s]
    <3>1. file' = file => Parsed(file)' = Parsed(file)
      BY DEF Parsed
    <3>2. CASE j # k /\ j \in Saving /\ file' = file /\ call'[j] = call[j]
      BY <1>1, <3>1, <3>2 DEF Grows
    <3>3. CASE j = k /\ file' = file /\ k \in Saving /\ c.snap = call[k].snap
      BY <1>1, <3>1, <3>3 DEF Grows
    <3>4. CASE j = k /\ file' = file /\ c.snap = memory
      <4>1. memory[s] \in Nat
        BY <1>3
      <4>2. QED
        BY <1>1, <3>1, <3>4, <4>1 DEF Grows
    <3>5. QED
      BY <1>5, <3>2, <3>3, <3>4
  <2>2. \A s \in Setting : memory[s] <= history.stored
    BY <1>1 DEF Grows
  <2>3. QED
    BY <1>4, <2>1, <2>2 DEF Grows
<1>7. \A j \in Call : Running(j)' /\ call'[j].op \in Setting => call'[j].no <= memory[call'[j].op]
  <2>1. ASSUME NEW j \in Call, Running(j)', call'[j].op \in Setting
        PROVE  Running(j) /\ call'[j].op = call[j].op /\ call'[j].no = call[j].no
    BY <2>1 DEF Running, Resting
  <2>2. QED
    BY <1>1, <2>1 DEF Reached
<1>8. ASSUME NEW j \in Saving', call'[j].op \in Setting PROVE call'[j].no <= call'[j].snap[call'[j].op]
  <2>1. CASE j # k
    BY <1>1, <1>5, <1>8, <2>1 DEF Reached
  <2>2. CASE j = k /\ k \in Saving /\ c.snap = call[k].snap
    BY <1>1, <1>8, <2>2 DEF Reached, Saving
  <2>3. CASE j = k /\ c.snap = memory
    <3>1. Running(k)'
      BY <2>3 DEF Running, Saving
    <3>2. QED
      BY <1>7, <1>8, <2>3, <3>1
  <2>4. QED
    BY <1>5, <2>1, <2>2, <2>3
<1>9. ASSUME NEW j \in Call, call'[j].pc = "notify", call'[j].op \in Setting, ~readonly
      PROVE  call'[j].no <= Parsed(file)'[call'[j].op]
  <2>1. CASE j # k
    <3>1. call[j].no <= Parsed(file)[call[j].op]
      BY <1>1, <1>9, <2>1 DEF Reached
    <3>2. /\ call[j].no \in Nat /\ Parsed(file)[call[j].op] \in Nat /\ Parsed(file)'[call[j].op] \in Nat
          /\ Parsed(file)[call[j].op] <= Parsed(file)'[call[j].op]
      BY <1>2, <1>3, <1>4, <1>9, <2>1
    <3>3. QED
      BY <2>1, <3>1, <3>2
  <2>2. CASE j = k
    <3>1. k \in Saving /\ file' = call[k].snap /\ c.op = call[k].op /\ c.no = call[k].no
      BY <1>9, <2>2 DEF Resting
    <3>2. Parsed(file)' = call[k].snap
      BY <1>2, <3>1 DEF Parsed
    <3>3. QED
      BY <1>1, <1>9, <2>2, <3>1, <3>2 DEF Reached
  <2>3. QED
    BY <2>1, <2>2
<1>10. QED
  BY <1>6, <1>7, <1>8, <1>9 DEF Reached

LEMMA UpdateMapKeeps == ASSUME IInv, NEW k \in Call, UpdateMap(k) PROVE IInv'
<1> DEFINE c == [call[k] EXCEPT !.pc = "lock"]
<1>1. TypeOK /\ Locked /\ OnItsWay /\ AnsweredIsSaved /\ call[k] \in CallState /\ call[k].pc = "map"
  BY DEF IInv, TypeOK, UpdateMap
<1>2. c \in CallState /\ c.pc = "lock" /\ c.op = call[k].op /\ c.no = call[k].no /\ call[k].no \in Nat
  BY <1>1 DEF CallState
<1>3. /\ call' \in [Call -> CallState] /\ call'[k] = c
      /\ \A j \in Call \ {k} : call'[j] = call[j]
  <2> HIDE DEF c
  <2>1. call' = [call EXCEPT ![k] = c]
    BY DEF UpdateMap, c
  <2>2. QED
    BY <1>1, <1>2, <2>1, OneCall DEF TypeOK
<1>4. /\ history'.stored = history.stored /\ history'.acked = history.acked
      /\ history'.file = history.file
      /\ history' \in [stored : Nat, acked : [Setting -> Nat],
                      kernel : BOOLEAN, file : BOOLEAN, client : SUBSET Setting]
  BY <1>1 DEF TypeOK, UpdateMap
<1>5. UNCHANGED <<up, readonly, memory, file, tmp, client, left>> /\ kernel' = call[k].no
  BY DEF UpdateMap
<1> HIDE DEF c
<1>6. TypeOK'
  BY <1>1, <1>2, <1>3, <1>4, <1>5 DEF TypeOK
<1>7. Running(k) /\ k \notin Saving
  BY <1>1 DEF Running, Saving
<1>8. Locked'
  BY <1>2, <1>3, <1>5, <1>7, LocksHold
<1>9. Grows' /\ Reached'
  BY <1>2, <1>3, <1>4, <1>5, <1>7, CopiesHold DEF Resting
<1>10. OnItsWay'
  <2>1. WillSave' /\ kernel' = memory'[Nvidia]
    BY <1>1, <1>2, <1>3, <1>5 DEF WillSave, Locked
  <2>2. \A j \in tmp : call'[j].pc = "rename" \/ ~up
    BY <1>1, <1>3, <1>5 DEF OnItsWay, TypeOK
  <2>3. QED
    BY <1>5, <2>1, <2>2 DEF OnItsWay
<1>11. AnsweredIsSaved'
  BY <1>1, <1>4, <1>5 DEF AnsweredIsSaved, Parsed
<1>12. QED
  BY <1>6, <1>8, <1>9, <1>10, <1>11 DEF IInv

(* While a call is at the map, it has the interface to itself.                *)
LEMMA FailMapKeeps == ASSUME IInv, NEW k \in Call, FailMap(k) PROVE IInv'
<1> USE ConfigAssumption
<1>1. TypeOK /\ Locked /\ OnItsWay /\ AnsweredIsSaved /\ call[k] \in CallState /\ call[k].pc = "map"
  BY DEF IInv, TypeOK, FailMap
<1>2. /\ call' \in [Call -> CallState] /\ call'[k] = Idle
      /\ \A j \in Call \ {k} : call'[j] = call[j]
  BY <1>1, IdleTyped, OneCall DEF TypeOK, FailMap
<1>3. /\ history'.stored = history.stored /\ history'.acked = history.acked
      /\ history'.file = TRUE /\ history'.kernel = TRUE
      /\ history' \in [stored : Nat, acked : [Setting -> Nat],
                      kernel : BOOLEAN, file : BOOLEAN, client : SUBSET Setting]
  BY <1>1 DEF TypeOK, FailMap, Missed
<1>4. UNCHANGED <<up, readonly, memory, kernel, file, tmp, client>>
      /\ left' \in [write : Nat, fault : Nat, crash : Nat]
  BY <1>1 DEF TypeOK, FailMap
<1>5. TypeOK'
  BY <1>1, <1>2, <1>3, <1>4 DEF TypeOK
<1>6. Running(k) /\ k \notin Saving
  BY <1>1 DEF Running, Saving
<1>7. Locked'
  BY <1>2, <1>4, <1>6, IdleTyped, LocksHold
<1>8. Grows' /\ Reached'
  BY <1>2, <1>3, <1>4, <1>6, IdleTyped, CopiesHold DEF Resting
<1>9. Saving' = {}
  <2>1. \A j \in Call \ {k} : ~Running(j)
    BY <1>1, <1>6 DEF Locked, Exclusive
  <2>2. QED
    BY <1>2, <2>1, IdleTyped DEF Saving, Running
<1>10. OnItsWay'
  BY <1>1, <1>2, <1>3, <1>4, <1>9 DEF OnItsWay, TypeOK
<1>11. AnsweredIsSaved'
  BY <1>1, <1>3, <1>4 DEF AnsweredIsSaved, Parsed
<1>12. QED
  BY <1>5, <1>7, <1>8, <1>10, <1>11 DEF IInv

LEMMA LoadKeeps == ASSUME IInv, NEW k \in Call, Load(k) PROVE IInv'
<1> USE ConfigAssumption
<1> DEFINE c == [call[k] EXCEPT !.pc = "write", !.snap = memory]
<1>1. TypeOK /\ Locked /\ OnItsWay /\ AnsweredIsSaved /\ call[k] \in CallState /\ call[k].pc = "lock"
      /\ Saving = {}
  BY DEF IInv, TypeOK, Load, MayLoad
<1>2. c \in CallState /\ c.pc = "write" /\ c.op = call[k].op /\ c.no = call[k].no /\ c.snap = memory
  BY <1>1 DEF TypeOK, CallState
<1>3. memory[BatteryMode] # BadMode
  <2>1. memory[BatteryMode] \in Nat
    BY <1>1 DEF TypeOK
  <2>2. QED
    BY <2>1
<1>4. /\ call' \in [Call -> CallState] /\ call'[k] = c
      /\ \A j \in Call \ {k} : call'[j] = call[j]
  <2> HIDE DEF c
  <2>1. call' = [call EXCEPT ![k] = c]
    BY <1>3 DEF Load, c
  <2>2. QED
    BY <1>1, <1>2, <2>1, OneCall DEF TypeOK
<1>5. UNCHANGED <<up, readonly, memory, kernel, file, tmp, client, history, left>>
  BY <1>3 DEF Load
<1> HIDE DEF c
<1>6. TypeOK'
  BY <1>1, <1>4, <1>5 DEF TypeOK
<1>7. Running(k)
  BY <1>1 DEF Running
<1>8. Locked'
  BY <1>1, <1>2, <1>4, <1>5, <1>7, LocksHold
<1>9. Grows' /\ Reached'
  BY <1>2, <1>4, <1>5, <1>7, CopiesHold
<1>10. OnItsWay'
  <2>1. Saving' = {k} /\ call'[k].snap = memory
    BY <1>1, <1>2, <1>4 DEF Saving
  <2>2. \A j \in tmp : call'[j].pc = "rename" \/ ~up
    BY <1>1, <1>4, <1>5 DEF OnItsWay, TypeOK
  <2>3. (\E j \in Call : call[j].pc = "map") => \E j \in Call : call'[j].pc = "map"
    BY <1>1, <1>4
  <2>4. QED
    BY <1>1, <1>5, <2>1, <2>2, <2>3 DEF OnItsWay
<1>11. AnsweredIsSaved'
  BY <1>1, <1>5 DEF AnsweredIsSaved, Parsed
<1>12. QED
  BY <1>6, <1>8, <1>9, <1>10, <1>11 DEF IInv

LEMMA WriteKeeps == ASSUME IInv, NEW k \in Call, Write(k) PROVE IInv'
<1> DEFINE c == [call[k] EXCEPT !.pc = "rename"]
<1>1. TypeOK /\ Locked /\ OnItsWay /\ AnsweredIsSaved /\ call[k] \in CallState /\ call[k].pc = "write"
  BY DEF IInv, TypeOK, Write
<1>2. c \in CallState /\ c.pc = "rename" /\ c.op = call[k].op /\ c.no = call[k].no /\ c.snap = call[k].snap
  BY <1>1 DEF CallState
<1>3. /\ call' \in [Call -> CallState] /\ call'[k] = c
      /\ \A j \in Call \ {k} : call'[j] = call[j]
  <2> HIDE DEF c
  <2>1. call' = [call EXCEPT ![k] = c]
    BY DEF Write, c
  <2>2. QED
    BY <1>1, <1>2, <2>1, OneCall DEF TypeOK
<1>4. UNCHANGED <<up, readonly, memory, kernel, file, client, history, left>>
      /\ tmp' = tmp \cup {k} /\ ~readonly
  BY DEF Write
<1> HIDE DEF c
<1>5. TypeOK'
  BY <1>1, <1>3, <1>4 DEF TypeOK
<1>6. Running(k) /\ k \in Saving
  BY <1>1 DEF Running, Saving
<1>7. Locked'
  BY <1>1, <1>2, <1>3, <1>4, <1>6, LocksHold DEF Locked
<1>8. Grows' /\ Reached'
  BY <1>2, <1>3, <1>4, <1>6, CopiesHold
<1>9. OnItsWay'
  <2>1. Saving' = Saving /\ \A j \in Saving : call'[j].snap = call[j].snap
    BY <1>1, <1>2, <1>3 DEF Saving
  <2>2. WillSave' <=> WillSave
    BY <1>1, <1>2, <1>3 DEF WillSave
  <2>3. (\E j \in Call : call'[j].pc = "map") <=> \E j \in Call : call[j].pc = "map"
    BY <1>1, <1>2, <1>3
  <2>4. up => \A j \in tmp' : call'[j].pc = "rename"
    BY <1>1, <1>2, <1>3, <1>4 DEF OnItsWay, TypeOK
  <2>5. QED
    BY <1>1, <1>4, <2>1, <2>2, <2>3, <2>4 DEF OnItsWay, Parsed
<1>10. AnsweredIsSaved'
  BY <1>1, <1>4 DEF AnsweredIsSaved, Parsed
<1>11. QED
  BY <1>5, <1>7, <1>8, <1>9, <1>10 DEF IInv

LEMMA WriteReadOnlyKeeps == ASSUME IInv, NEW k \in Call, WriteReadOnly(k) PROVE IInv'
<1> USE ConfigAssumption
<1> DEFINE c == [call[k] EXCEPT !.pc = "notify", !.snap = Default]
<1>1. TypeOK /\ Locked /\ OnItsWay /\ AnsweredIsSaved /\ call[k] \in CallState /\ call[k].pc = "write"
  BY DEF IInv, TypeOK, WriteReadOnly
<1>2. c \in CallState /\ c.pc = "notify" /\ c.op = call[k].op /\ c.no = call[k].no
  BY <1>1, IdleTyped DEF CallState
<1>3. /\ call' \in [Call -> CallState] /\ call'[k] = c
      /\ \A j \in Call \ {k} : call'[j] = call[j]
  <2> HIDE DEF c
  <2>1. call' = [call EXCEPT ![k] = c]
    BY DEF WriteReadOnly, c
  <2>2. QED
    BY <1>1, <1>2, <2>1, OneCall DEF TypeOK
<1>4. UNCHANGED <<up, readonly, memory, kernel, file, tmp, client, left>> /\ readonly
  BY DEF WriteReadOnly
<1>5. /\ history'.stored = history.stored /\ history'.acked = history.acked
      /\ history'.file = TRUE /\ history'.kernel = history.kernel
      /\ history' \in [stored : Nat, acked : [Setting -> Nat],
                      kernel : BOOLEAN, file : BOOLEAN, client : SUBSET Setting]
  BY <1>1 DEF TypeOK, WriteReadOnly
<1> HIDE DEF c
<1>6. TypeOK'
  BY <1>1, <1>3, <1>4, <1>5 DEF TypeOK
<1>7. Running(k) /\ k \in Saving
  BY <1>1 DEF Running, Saving
<1>8. Locked'
  BY <1>1, <1>2, <1>3, <1>4, <1>7, LocksHold DEF Locked
<1>9. Grows' /\ Reached'
  BY <1>2, <1>3, <1>4, <1>5, <1>7, CopiesHold
<1>10. OnItsWay'
  <2>1. Saving' = {}
    BY <1>1, <1>2, <1>3, <1>7 DEF Saving, Locked
  <2>2. (\E j \in Call : call'[j].pc = "map") <=> \E j \in Call : call[j].pc = "map"
    BY <1>1, <1>2, <1>3
  <2>3. up => \A j \in tmp : call'[j].pc = "rename"
    BY <1>1, <1>2, <1>3 DEF OnItsWay, TypeOK
  <2>4. QED
    BY <1>1, <1>4, <1>5, <2>1, <2>2, <2>3 DEF OnItsWay
<1>11. AnsweredIsSaved'
  BY <1>4 DEF AnsweredIsSaved
<1>12. QED
  BY <1>6, <1>8, <1>9, <1>10, <1>11 DEF IInv

LEMMA RenameKeeps == ASSUME IInv, NEW k \in Call, Rename(k) PROVE IInv'
<1> USE ConfigAssumption
<1> DEFINE c == [call[k] EXCEPT !.pc = "notify", !.snap = Default]
<1>1. /\ TypeOK /\ Grows /\ Locked /\ OnItsWay /\ AnsweredIsSaved
      /\ call[k] \in CallState /\ call[k].pc = "rename"
  BY DEF IInv, TypeOK, Rename
<1>2. c \in CallState /\ c.pc = "notify" /\ c.op = call[k].op /\ c.no = call[k].no
  BY <1>1, IdleTyped DEF CallState
<1>3. /\ call' \in [Call -> CallState] /\ call'[k] = c
      /\ \A j \in Call \ {k} : call'[j] = call[j]
  <2> HIDE DEF c
  <2>1. call' = [call EXCEPT ![k] = c]
    BY DEF Rename, c
  <2>2. QED
    BY <1>1, <1>2, <2>1, OneCall DEF TypeOK
<1>4. UNCHANGED <<up, readonly, memory, kernel, client, left>>
      /\ file' = call[k].snap /\ tmp' = tmp \ {k} /\ call[k].snap \in [Setting -> Nat]
  BY <1>1 DEF Rename, CallState
<1>5. /\ history'.stored = history.stored /\ history'.acked = history.acked
      /\ history'.kernel = history.kernel
      /\ history' \in [stored : Nat, acked : [Setting -> Nat],
                      kernel : BOOLEAN, file : BOOLEAN, client : SUBSET Setting]
  BY <1>1 DEF TypeOK, Rename
<1> HIDE DEF c
<1>6. TypeOK'
  BY <1>1, <1>3, <1>4, <1>5 DEF TypeOK
<1>7. Running(k) /\ k \in Saving
  BY <1>1 DEF Running, Saving
<1>8. Locked'
  BY <1>1, <1>2, <1>3, <1>4, <1>7, LocksHold DEF Locked
<1>9. Grows' /\ Reached'
  BY <1>2, <1>3, <1>4, <1>5, <1>7, CopiesHold
<1>10. Parsed(file)' = call[k].snap
  BY <1>4 DEF Parsed
<1>11. OnItsWay'
  <2>1. Saving' = {}
    BY <1>1, <1>2, <1>3, <1>7 DEF Saving, Locked
  <2>2. (\E j \in Call : call'[j].pc = "map") <=> \E j \in Call : call[j].pc = "map"
    BY <1>1, <1>2, <1>3
  <2>3. WillSave' <=> WillSave
    BY <1>1, <1>2, <1>3 DEF WillSave
  <2>4. call[k].snap = memory \/ WillSave
    BY <1>1, <1>7 DEF OnItsWay
  <2>5. up => \A j \in tmp' : call'[j].pc = "rename"
    BY <1>1, <1>3, <1>4 DEF OnItsWay, TypeOK
  <2>6. QED
    BY <1>1, <1>4, <1>5, <1>10, <2>1, <2>2, <2>3, <2>4, <2>5 DEF OnItsWay
<1>12. AnsweredIsSaved'
  <2>1. ASSUME ~readonly, NEW s \in Setting PROVE history.acked[s] <= call[k].snap[s]
    <3>1. history.acked[s] <= Parsed(file)[s] /\ Parsed(file)[s] <= call[k].snap[s]
      BY <1>1, <1>7, <2>1 DEF AnsweredIsSaved, Grows
    <3>2. history.acked[s] \in Nat /\ Parsed(file)[s] \in Nat /\ call[k].snap[s] \in Nat
      BY <1>1, <1>4, ParsedTyped DEF TypeOK
    <3>3. QED
      BY <3>1, <3>2
  <2>2. QED
    BY <1>4, <1>5, <1>10, <2>1 DEF AnsweredIsSaved
<1>13. QED
  BY <1>6, <1>8, <1>9, <1>11, <1>12 DEF IInv

LEMMA FailSaveKeeps == ASSUME IInv, NEW k \in Call, FailSave(k) PROVE IInv'
<1> USE ConfigAssumption
<1>1. /\ TypeOK /\ Locked /\ OnItsWay /\ AnsweredIsSaved /\ call[k] \in CallState
      /\ call[k].pc \in {"write", "rename"}
  BY DEF IInv, TypeOK, FailSave
<1>2. /\ call' \in [Call -> CallState] /\ call'[k] = Idle
      /\ \A j \in Call \ {k} : call'[j] = call[j]
  BY <1>1, IdleTyped, OneCall DEF TypeOK, FailSave
<1>3. /\ history'.stored = history.stored /\ history'.acked = history.acked
      /\ history'.file = TRUE /\ history'.kernel = history.kernel
      /\ history' \in [stored : Nat, acked : [Setting -> Nat],
                      kernel : BOOLEAN, file : BOOLEAN, client : SUBSET Setting]
  BY <1>1 DEF TypeOK, FailSave, Missed
<1>4. UNCHANGED <<up, readonly, memory, kernel, file, client>> /\ tmp' = tmp \ {k}
      /\ left' \in [write : Nat, fault : Nat, crash : Nat]
  BY <1>1 DEF TypeOK, FailSave
<1>5. TypeOK'
  BY <1>1, <1>2, <1>3, <1>4 DEF TypeOK
<1>6. Running(k) /\ k \in Saving
  BY <1>1 DEF Running, Saving
<1>7. Locked'
  BY <1>2, <1>4, <1>6, IdleTyped, LocksHold
<1>8. Grows' /\ Reached'
  BY <1>2, <1>3, <1>4, <1>6, IdleTyped, CopiesHold DEF Resting
<1>9. OnItsWay'
  <2>1. Saving' = {}
    BY <1>1, <1>2, <1>6, IdleTyped DEF Saving, Locked
  <2>2. (\E j \in Call : call'[j].pc = "map") <=> \E j \in Call : call[j].pc = "map"
    BY <1>1, <1>2, IdleTyped
  <2>3. up => \A j \in tmp' : call'[j].pc = "rename"
    BY <1>1, <1>2, <1>4 DEF OnItsWay, TypeOK
  <2>4. QED
    BY <1>1, <1>3, <1>4, <2>1, <2>2, <2>3 DEF OnItsWay
<1>10. AnsweredIsSaved'
  BY <1>1, <1>3, <1>4 DEF AnsweredIsSaved, Parsed
<1>11. QED
  BY <1>5, <1>7, <1>8, <1>9, <1>10 DEF IInv

LEMMA NotifyKeeps == ASSUME IInv, NEW k \in Call, Notify(k) PROVE IInv'
<1> USE ConfigAssumption
<1> DEFINE c == IF call[k].gui THEN [call[k] EXCEPT !.pc = "answered"] ELSE Idle
<1>1. /\ TypeOK /\ Reached /\ Locked /\ OnItsWay /\ AnsweredIsSaved
      /\ call[k] \in CallState /\ call[k].pc = "notify"
  BY DEF IInv, TypeOK, Notify
<1>2. c \in CallState /\ c.pc \in {"idle", "answered"}
  BY <1>1, IdleTyped DEF CallState
<1>3. /\ call' \in [Call -> CallState] /\ call'[k] = c
      /\ \A j \in Call \ {k} : call'[j] = call[j]
  <2> HIDE DEF c
  <2>1. call' = [call EXCEPT ![k] = c]
    BY DEF Notify, c
  <2>2. QED
    BY <1>1, <1>2, <2>1, OneCall DEF TypeOK
<1>4. UNCHANGED <<up, readonly, memory, kernel, file, tmp, left>>
  BY DEF Notify
<1>5. client' \in [pc : {"closed", "subscribed", "live", "deaf"}, cache : [Setting -> Nat],
                  changed : SUBSET Setting, shown : [Setting -> Nat]]
  <2>1. CASE call[k].op # Save /\ client.pc # "closed"
    <3>1. call[k].op \in Setting /\ memory[call[k].op] \in Nat
      BY <1>1, <2>1 DEF TypeOK, CallState
    <3>2. client' = [client EXCEPT !.cache[call[k].op] = memory[call[k].op],
                                   !.changed = @ \cup {call[k].op}]
      BY <2>1 DEF Notify
    <3>3. QED
      BY <1>1, <3>1, <3>2 DEF TypeOK
  <2>2. CASE ~(call[k].op # Save /\ client.pc # "closed")
    BY <1>1, <2>2 DEF TypeOK, Notify
  <2>3. QED
    BY <2>1, <2>2
<1>6. /\ history'.stored = history.stored /\ history'.file = history.file
      /\ history'.kernel = history.kernel
      /\ history' \in [stored : Nat, acked : [Setting -> Nat],
                      kernel : BOOLEAN, file : BOOLEAN, client : SUBSET Setting]
      /\ \A s \in Setting : \/ history'.acked[s] = history.acked[s]
                            \/ s = call[k].op /\ history'.acked[s] = call[k].no
  <2>1. CASE call[k].op # Save
    <3>1. call[k].op \in Setting /\ call[k].no \in Nat
      BY <1>1, <2>1 DEF CallState
    <3>2. history' = [history EXCEPT !.acked[call[k].op] =
                        Larger(history.acked[call[k].op], call[k].no)]
      BY <2>1 DEF Notify
    <3>3. history.acked \in [Setting -> Nat]
      BY <1>1 DEF TypeOK
    <3>4. Larger(history.acked[call[k].op], call[k].no) \in {history.acked[call[k].op], call[k].no}
      BY DEF Larger
    <3>5. QED
      BY <1>1, <3>1, <3>2, <3>3, <3>4 DEF TypeOK
  <2>2. CASE call[k].op = Save
    BY <1>1, <2>2 DEF TypeOK, Notify
  <2>3. QED
    BY <2>1, <2>2
<1> HIDE DEF c
<1>7. TypeOK'
  BY <1>1, <1>3, <1>4, <1>5, <1>6 DEF TypeOK
<1>8. Running(k) /\ k \notin Saving
  BY <1>1 DEF Running, Saving
<1>9. Locked'
  BY <1>2, <1>3, <1>4, <1>8, LocksHold
<1>10. Grows' /\ Reached'
  BY <1>2, <1>3, <1>4, <1>6, <1>8, CopiesHold DEF Resting
<1>11. OnItsWay'
  <2>1. Saving' = Saving /\ \A j \in Saving : call'[j].snap = call[j].snap
    BY <1>1, <1>2, <1>3 DEF Saving
  <2>2. WillSave' <=> WillSave
    BY <1>1, <1>2, <1>3 DEF WillSave
  <2>3. (\E j \in Call : call'[j].pc = "map") <=> \E j \in Call : call[j].pc = "map"
    BY <1>1, <1>2, <1>3
  <2>4. up => \A j \in tmp : call'[j].pc = "rename"
    BY <1>1, <1>3 DEF OnItsWay, TypeOK
  <2>5. QED
    BY <1>1, <1>4, <1>6, <2>1, <2>2, <2>3, <2>4 DEF OnItsWay, Parsed
<1>12. AnsweredIsSaved'
  <2>1. Parsed(file)' = Parsed(file)
    BY <1>4 DEF Parsed
  <2>2. ASSUME ~readonly, NEW s \in Setting PROVE history'.acked[s] <= Parsed(file)[s]
    BY <1>1, <1>6, <2>2 DEF AnsweredIsSaved, Reached
  <2>3. QED
    BY <1>4, <2>1, <2>2 DEF AnsweredIsSaved
<1>13. QED
  BY <1>7, <1>9, <1>10, <1>11, <1>12 DEF IInv

(* A call that enters the interface.                                          *)
LEMMA EnterKeeps ==
  ASSUME IInv, NEW k \in Call, call[k].pc = "start", MayEnter(k),
         NEW c \in CallState, call'[k] = c, \A j \in Call \ {k} : call'[j] = call[j],
         c.op = call[k].op, c.pc \in {"map", "lock"},
         UNCHANGED <<up, readonly>>,
         \A j \in Call : Running(j) /\ Exclusive(call[j].op) => memory' = memory,
         c.pc = "map" => c.op = Nvidia /\ c.no = memory'[Nvidia]
  PROVE  Locked' /\ Saving' = Saving
<1> USE ConfigAssumption
<1>1. Locked /\ ~Running(k) /\ up
  BY RunsUp DEF IInv, Running
<1>2. Saving' = Saving
  BY DEF Saving
<1>3. \A i \in Call : i # k => (Running(i)' <=> Running(i))
  BY DEF Running
<1>4. \A i, j \in Call : Running(i)' /\ Running(j)' /\ i # j => ~Exclusive(call'[i].op)
  <2>1. \A i \in Call \ {k} : Running(i) => ~Exclusive(call[i].op) /\ ~Exclusive(call[k].op)
    BY DEF MayEnter
  <2>2. \A i, j \in Call \ {k} : Running(i) /\ Running(j) /\ i # j => ~Exclusive(call[i].op)
    BY <1>1 DEF Locked
  <2>3. QED
    BY <1>3, <2>1, <2>2
<1>5. ASSUME NEW i \in Call, call'[i].pc = "map"
      PROVE  call'[i].op = Nvidia /\ call'[i].no = memory'[Nvidia]
  <2>1. CASE i = k
    BY <1>5, <2>1
  <2>2. CASE i # k
    <3>1. Running(i) /\ call[i].op = Nvidia /\ call[i].no = memory[Nvidia]
      BY <1>1, <1>5, <2>2 DEF Locked, Running
    <3>2. Exclusive(call[i].op)
      BY <3>1 DEF Exclusive
    <3>3. QED
      BY <2>2, <3>1, <3>2
  <2>3. QED
    BY <2>1, <2>2
<1>6. \A i \in Call : call'[i].pc = "rename" => ~readonly
  BY <1>1 DEF Locked
<1>7. QED
  BY <1>1, <1>2, <1>4, <1>5, <1>6 DEF Locked, Exclusive

LEMMA SaveOnlyKeeps == ASSUME IInv, NEW k \in Call, SaveOnly(k) PROVE IInv'
<1> USE ConfigAssumption
<1> DEFINE c == [call[k] EXCEPT !.pc = "lock"]
<1>1. /\ TypeOK /\ Locked /\ OnItsWay /\ AnsweredIsSaved
      /\ call[k] \in CallState /\ call[k].pc = "start" /\ call[k].op = Save
  BY DEF IInv, TypeOK, SaveOnly
<1>2. c \in CallState /\ c.pc = "lock" /\ c.op = Save
  BY <1>1 DEF CallState
<1>3. /\ call' \in [Call -> CallState] /\ call'[k] = c
      /\ \A j \in Call \ {k} : call'[j] = call[j]
  <2> HIDE DEF c
  <2>1. call' = [call EXCEPT ![k] = c]
    BY DEF SaveOnly, c
  <2>2. QED
    BY <1>1, <1>2, <2>1, OneCall DEF TypeOK
<1>4. UNCHANGED <<up, readonly, memory, kernel, file, tmp, client, history, left>>
  BY DEF SaveOnly
<1> HIDE DEF c
<1>5. TypeOK'
  BY <1>1, <1>3, <1>4 DEF TypeOK
<1>6. Locked' /\ Saving' = Saving
  BY <1>1, <1>2, <1>3, <1>4, EnterKeeps DEF SaveOnly
<1>7. Grows' /\ Reached'
  BY <1>1, <1>2, <1>3, <1>4, CopiesHold DEF Resting
<1>8. OnItsWay'
  <2>1. WillSave'
    BY <1>2, <1>3 DEF WillSave
  <2>2. (\E j \in Call : call[j].pc = "map") => \E j \in Call : call'[j].pc = "map"
    BY <1>1, <1>3
  <2>3. up => \A j \in tmp : call'[j].pc = "rename"
    BY <1>1, <1>3 DEF OnItsWay, TypeOK
  <2>4. QED
    BY <1>1, <1>4, <2>1, <2>2, <2>3 DEF OnItsWay
<1>9. AnsweredIsSaved'
  BY <1>1, <1>4 DEF AnsweredIsSaved, Parsed
<1>10. QED
  BY <1>5, <1>6, <1>7, <1>8, <1>9 DEF IInv

LEMMA StoreKeeps == ASSUME IInv, NEW k \in Call, Store(k) PROVE IInv'
<1> USE ConfigAssumption
<1> DEFINE s == call[k].op
           no == history.stored + 1
           pc == IF s = Nvidia THEN "map" ELSE "lock"
           c == [call[k] EXCEPT !.pc = pc, !.no = no]
<1>1. /\ TypeOK /\ Grows /\ Reached /\ Locked /\ OnItsWay /\ AnsweredIsSaved
      /\ call[k] \in CallState /\ call[k].pc = "start" /\ MayEnter(k) /\ ~call[k].bad
  BY DEF IInv, TypeOK, Store, Accepts
<1>2. s \in Setting /\ history.stored \in Nat /\ no \in Nat /\ history.stored <= no
      /\ memory \in [Setting -> Nat]
  BY <1>1 DEF TypeOK, CallState, Store
<1>3. c \in CallState /\ c.pc = pc /\ c.op = s /\ c.no = no /\ pc \in {"map", "lock"}
  <2>1. pc \in {"map", "lock"}
    OBVIOUS
  <2>2. QED
    BY <1>1, <1>2, <2>1 DEF CallState
<1>4. /\ call' \in [Call -> CallState] /\ call'[k] = c
      /\ \A j \in Call \ {k} : call'[j] = call[j]
  <2> HIDE DEF c
  <2>1. call' = [call EXCEPT ![k] = c]
    BY DEF Store, c
  <2>2. QED
    BY <1>1, <1>3, <2>1, OneCall DEF TypeOK
<1>5. memory' = [memory EXCEPT ![s] = no]
  BY <1>1 DEF Store
<1>6. /\ history'.stored = no /\ history'.acked = history.acked
      /\ history'.file = history.file /\ history'.kernel = history.kernel
      /\ history' \in [stored : Nat, acked : [Setting -> Nat],
                      kernel : BOOLEAN, file : BOOLEAN, client : SUBSET Setting]
  <2>1. history' = [history EXCEPT !.stored = no,
                      !.client = IF Unseen(k) THEN @ \cup {s} ELSE @ \ {s}]
    BY DEF Store
  <2>2. QED
    BY <1>1, <1>2, <2>1 DEF TypeOK
<1>7. UNCHANGED <<up, readonly, kernel, file, tmp, client, left>>
  BY DEF Store
<1>8. /\ memory' \in [Setting -> Nat] /\ memory'[s] = no
      /\ \A t \in Setting : memory'[t] = memory[t] \/ (t = s /\ memory'[t] = no)
      /\ \A t \in Setting : memory[t] <= memory'[t] /\ memory'[t] <= no
  <2>1. \A t \in Setting : memory[t] <= history.stored /\ memory[t] \in Nat
    BY <1>1, <1>2 DEF Grows
  <2>2. QED
    BY <1>2, <1>5, <2>1
<1>9. c.pc = "map" => c.op = Nvidia
  BY <1>3
<1>10. c.pc # "map" => s # Nvidia
  BY <1>3
<1> HIDE DEF c, no, pc
<1>11. TypeOK'
  BY <1>1, <1>4, <1>6, <1>7, <1>8 DEF TypeOK
<1>12. Locked' /\ Saving' = Saving
  <2>1. ASSUME NEW j \in Call, Running(j), Exclusive(call[j].op) PROVE memory' = memory
    BY <1>1, <2>1 DEF MayEnter, Running
  <2>2. QED
    BY <1>1, <1>3, <1>4, <1>7, <1>8, <1>9, <2>1, EnterKeeps
<1>13. k \notin Saving /\ \A j \in Saving : call'[j] = call[j]
  BY <1>1, <1>4 DEF Saving
<1>14. Parsed(file)' = Parsed(file) /\ Parsed(file) \in [Setting -> Nat]
  BY <1>1, <1>7, ParsedTyped DEF Parsed
<1>15. \A j \in Call : call[j].snap \in [Setting -> Nat] /\ call[j].no \in Nat
  BY <1>1 DEF TypeOK, CallState
<1>16. Grows'
  <2>1. ASSUME NEW t \in Setting PROVE Parsed(file)[t] <= memory'[t]
    <3>1. Parsed(file)[t] <= memory[t] /\ memory[t] <= memory'[t]
      BY <1>1, <1>8 DEF Grows
    <3>2. Parsed(file)[t] \in Nat /\ memory[t] \in Nat /\ memory'[t] \in Nat
      BY <1>2, <1>8, <1>14
    <3>3. QED
      BY <3>1, <3>2
  <2>2. ASSUME NEW j \in Saving, NEW t \in Setting
        PROVE  Parsed(file)[t] <= call[j].snap[t] /\ call[j].snap[t] <= memory'[t]
    <3>1. Parsed(file)[t] <= call[j].snap[t] /\ call[j].snap[t] <= memory[t] /\ memory[t] <= memory'[t]
      BY <1>1, <1>8 DEF Grows
    <3>2. call[j].snap[t] \in Nat /\ memory[t] \in Nat /\ memory'[t] \in Nat
      BY <1>2, <1>8, <1>15 DEF Saving
    <3>3. QED
      BY <3>1, <3>2
  <2>3. QED
    BY <1>6, <1>8, <1>12, <1>13, <1>14, <2>1, <2>2 DEF Grows
<1>17. Reached'
  <2>1. ASSUME NEW j \in Call, Running(j)', call'[j].op \in Setting
        PROVE  call'[j].no <= memory'[call'[j].op]
    <3>1. CASE j = k
      BY <1>2, <1>3, <1>4, <1>8, <3>1
    <3>2. CASE j # k
      <4>1. Running(j) /\ call'[j] = call[j]
        BY <1>4, <2>1, <3>2 DEF Running
      <4>2. call[j].no <= memory[call[j].op] /\ memory[call[j].op] <= memory'[call[j].op]
        BY <1>1, <1>8, <2>1, <4>1 DEF Reached
      <4>3. call[j].no \in Nat /\ memory[call[j].op] \in Nat /\ memory'[call[j].op] \in Nat
        BY <1>2, <1>8, <1>15, <2>1, <4>1
      <4>4. QED
        BY <4>1, <4>2, <4>3
    <3>3. QED
      BY <3>1, <3>2
  <2>2. \A j \in Saving : call'[j].op \in Setting => call'[j].no <= call'[j].snap[call'[j].op]
    BY <1>1, <1>13 DEF Reached
  <2>3. \A j \in Call : call'[j].pc = "notify" => call'[j] = call[j]
    BY <1>3, <1>4
  <2>4. QED
    BY <1>1, <1>7, <1>12, <1>14, <2>1, <2>2, <2>3 DEF Reached
<1>18. OnItsWay'
  <2>1. WillSave'
    BY <1>3, <1>4 DEF WillSave
  <2>2. up => history'.kernel \/ kernel = memory'[Nvidia] \/ \E j \in Call : call'[j].pc = "map"
    <3>1. CASE c.pc = "map"
      BY <1>4, <3>1
    <3>2. CASE c.pc # "map"
      <4>1. memory'[Nvidia] = memory[Nvidia]
        BY <1>8, <1>10, <3>2
      <4>2. (\E j \in Call : call[j].pc = "map") => \E j \in Call : call'[j].pc = "map"
        BY <1>1, <1>4
      <4>3. QED
        BY <1>1, <1>6, <4>1, <4>2 DEF OnItsWay
    <3>3. QED
      BY <3>1, <3>2
  <2>3. up => \A j \in tmp : call'[j].pc = "rename"
    BY <1>1, <1>4 DEF OnItsWay, TypeOK
  <2>4. QED
    BY <1>7, <2>1, <2>2, <2>3 DEF OnItsWay
<1>19. AnsweredIsSaved'
  BY <1>1, <1>6, <1>7, <1>14 DEF AnsweredIsSaved
<1>20. QED
  BY <1>11, <1>12, <1>16, <1>17, <1>18, <1>19 DEF IInv

LEMMA StepKeeps == IInv /\ [Next]_vars => IInv'
<1> SUFFICES ASSUME IInv, [Next]_vars PROVE IInv'
  OBVIOUS
<1>1. CASE Start \/ Crash
  BY <1>1, StartKeeps, CrashKeeps
<1>2. ASSUME NEW k \in Call, NEW op \in Setting \cup {Save}, NEW gui \in BOOLEAN, NEW bad \in BOOLEAN,
             Request(k, op, gui, bad)
      PROVE  IInv'
  BY <1>2, RequestKeeps
<1>3. ASSUME NEW k \in Call, Handle(k) PROVE IInv'
  BY <1>3, RefuseKeeps, StoreKeeps, SaveOnlyKeeps, UpdateMapKeeps, FailMapKeeps, LoadKeeps,
     WriteKeeps, WriteReadOnlyKeeps, RenameKeeps, FailSaveKeeps, NotifyKeeps DEF Handle
<1>4. ASSUME NEW k \in Call, Answered(k) PROVE IInv'
  BY <1>4, AnsweredKeeps
<1>5. CASE Subscribe \/ Fetch \/ \E s \in Setting : Changed(s)
  BY <1>5, ClientKeeps
<1>6. ASSUME NEW pc \in {"live", "deaf"}, FetchFails(pc) PROVE IInv'
  BY <1>6, FetchFailsKeeps
<1>7. CASE UNCHANGED vars
  BY <1>7 DEF vars, IInv, TypeOK, Grows, Reached, Locked, OnItsWay, WillSave, AnsweredIsSaved,
     Saving, Running, Parsed, Exclusive
<1>8. QED
  BY <1>1, <1>2, <1>3, <1>4, <1>5, <1>6, <1>7 DEF Next

(***************************************************************************)
(* What the client has heard                                               *)
(***************************************************************************)

(* While the daemon is down, only a setting the client may have missed can    *)
(* come back with another value.                                             *)
Restarts == ~up => \A s \in Setting \ history.client : memory[s] = Parsed(file)[s]

(* A click is a write, and its answer, unless the client may have missed the  *)
(* setting, says what memory holds.                                          *)
Clicks == \A k \in Call :
  /\ call[k].gui => call[k].op \in Setting
  /\ call[k].pc = "answered" => call[k].gui
  /\ call[k].gui /\ (Running(k) \/ call[k].pc = "answered") /\ call[k].op \notin history.client
     => call[k].no = memory[call[k].op]

(* What memory holds is still to be signalled, or signalled and not handled,  *)
(* or shown.                                                                 *)
Follows == client.pc = "live" => \A s \in Setting \ history.client :
  \/ \E k \in Call : Running(k) /\ call[k].op = s
  \/ client.cache[s] = memory[s] /\ (s \in client.changed \/ client.shown[s] = memory[s])

Heard == Restarts /\ Clicks /\ Follows

LEMMA HeardInit == Init => Heard
<1> SUFFICES ASSUME Init PROVE Heard
  OBVIOUS
<1>1. memory = Default /\ Parsed(file) = Default /\ client.pc = "closed"
  BY ConfigAssumption DEF Init, Default, Parsed
<1>2. \A k \in Call : ~call[k].gui /\ call[k].pc = "idle"
  BY DEF Init, Idle
<1>3. QED
  BY <1>1, <1>2 DEF Heard, Restarts, Clicks, Follows

(* A step of one call that neither writes memory nor tells the client: it     *)
(* waits or goes on with its operation, or it ends, and then the client may   *)
(* have missed its setting.                                                  *)
LEMMA QuietHeard ==
  ASSUME IInv, Heard, up, UNCHANGED <<up, memory, client>>,
         history.client \subseteq history'.client,
         NEW k \in Call, \A j \in Call \ {k} : call'[j] = call[j],
         call'[k].gui => call'[k].op \in Setting,
         \/ /\ call'[k].pc \in {"idle", "start"}
            /\ Running(k) => call[k].op \in history'.client \cup {Save}
         \/ /\ call'[k].pc \notin {"idle", "start", "answered"}
            /\ IF Running(k)
                 THEN /\ call'[k].op = call[k].op
                      /\ call'[k].gui = call[k].gui /\ call'[k].no = call[k].no
                 ELSE call'[k].op = Save
  PROVE  Heard'
<1> USE ConfigAssumption
<1>1. Restarts'
  BY DEF Restarts
<1>2. Clicks'
  <2> SUFFICES ASSUME NEW j \in Call
               PROVE  /\ call'[j].gui => call'[j].op \in Setting
                      /\ call'[j].pc = "answered" => call'[j].gui
                      /\ call'[j].gui /\ (Running(j)' \/ call'[j].pc = "answered")
                         /\ call'[j].op \notin history'.client
                         => call'[j].no = memory[call'[j].op]
    BY DEF Clicks
  <2>1. CASE j # k
    BY <2>1 DEF Heard, Clicks, Running
  <2>2. CASE j = k
    BY <2>2 DEF Heard, Clicks, Running
  <2>3. QED
    BY <2>1, <2>2
<1>3. Follows'
  <2> SUFFICES ASSUME client.pc = "live", NEW s \in Setting \ history'.client
               PROVE  \/ \E j \in Call : Running(j)' /\ call'[j].op = s
                      \/ /\ client.cache[s] = memory[s]
                         /\ s \in client.changed \/ client.shown[s] = memory[s]
    BY DEF Follows
  <2>1. ASSUME NEW j \in Call, Running(j), call[j].op = s
        PROVE  Running(j)' /\ call'[j].op = s
    BY <2>1 DEF Running
  <2>2. QED
    BY <2>1 DEF Heard, Follows
<1>4. QED
  BY <1>1, <1>2, <1>3 DEF Heard

(* The steps of a call that do so.                                           *)
LEMMA HandleHeard ==
  ASSUME IInv, Heard, NEW k \in Call,
         \/ Refuse(k) \/ SaveOnly(k) \/ UpdateMap(k) \/ FailMap(k) \/ Load(k)
         \/ Write(k) \/ WriteReadOnly(k) \/ Rename(k) \/ FailSave(k)
  PROVE  Heard'
<1> USE ConfigAssumption
<1>1. TypeOK /\ call[k] \in CallState /\ call \in [Call -> CallState]
  BY DEF IInv, TypeOK
<1>2. /\ call[k].gui => call[k].op \in Setting
      /\ call[k].op \in Setting \cup {Save}
  BY <1>1 DEF Heard, Clicks, CallState
<1>3. call[k].pc \notin {"idle", "answered"} /\ up
  <2>1. call[k].pc \in {"start", "map", "lock", "write", "rename"}
    BY DEF Refuse, SaveOnly, UpdateMap, FailMap, Load, Write, WriteReadOnly, Rename, FailSave
  <2>2. QED
    BY <2>1, RunsUp
<1>4. /\ UNCHANGED <<up, memory, client>>
      /\ history.client \subseteq history'.client
      /\ \A j \in Call \ {k} : call'[j] = call[j]
  <2>1. history \in [stored : Nat, acked : [Setting -> Nat],
                     kernel : BOOLEAN, file : BOOLEAN, client : SUBSET Setting]
    BY <1>1 DEF TypeOK
  <2>2. UNCHANGED <<up, memory, client>> /\ \A j \in Call \ {k} : call'[j] = call[j]
    BY <1>1 DEF Refuse, SaveOnly, UpdateMap, FailMap, Load, Write, WriteReadOnly, Rename, FailSave
  <2>3. history'.client \in {history.client, Missed(k)}
    BY <2>1 DEF Refuse, SaveOnly, UpdateMap, FailMap, Load, Write, WriteReadOnly, Rename, FailSave
  <2>4. QED
    BY <2>2, <2>3 DEF Missed
<1>5. CASE Refuse(k)
  <2>1. call'[k] = Idle /\ ~Running(k)
    BY <1>1, <1>5 DEF Refuse, Running
  <2>2. QED
    BY <1>3, <1>4, <2>1, IdleTyped, QuietHeard DEF Idle
<1>6. CASE FailMap(k) \/ FailSave(k)
  <2>1. call'[k] = Idle /\ history'.client = Missed(k)
    BY <1>1, <1>6 DEF FailMap, FailSave, TypeOK
  <2>2. call[k].op \in history'.client \cup {Save} /\ ~Idle.gui /\ Idle.pc = "idle"
    BY <1>2, <2>1 DEF Missed, Idle
  <2>3. QED
    BY <1>3, <1>4, <2>1, <2>2, QuietHeard
<1>7. CASE SaveOnly(k)
  <2>1. call'[k] = [call[k] EXCEPT !.pc = "lock"] /\ call[k].op = Save
    BY <1>1, <1>7 DEF SaveOnly
  <2>2. call'[k].pc = "lock" /\ call'[k].op = Save /\ call'[k].gui = call[k].gui
    BY <1>1, <2>1 DEF CallState
  <2>3. ~Running(k) /\ ~call'[k].gui
    BY <1>2, <1>7, <2>1, <2>2 DEF SaveOnly, Running
  <2>4. QED
    BY <1>3, <1>4, <2>2, <2>3, QuietHeard
<1>8. CASE UpdateMap(k) \/ Load(k) \/ Write(k) \/ WriteReadOnly(k) \/ Rename(k)
  <2>1. memory[BatteryMode] # BadMode
    BY <1>1 DEF TypeOK
  <2>2. Running(k)
    BY <1>8 DEF Running, UpdateMap, Load, Write, WriteReadOnly, Rename
  <2>3. PICK pc \in {"lock", "write", "rename", "notify"}, snap \in {call[k].snap, memory, Default} :
          call'[k] = [call[k] EXCEPT !.pc = pc, !.snap = snap]
    <3>1. CASE UpdateMap(k)
      BY <1>1, <3>1 DEF UpdateMap, CallState
    <3>2. CASE Load(k)
      BY <1>1, <2>1, <3>2 DEF Load, CallState
    <3>3. CASE Write(k)
      BY <1>1, <3>3 DEF Write, CallState
    <3>4. CASE WriteReadOnly(k) \/ Rename(k)
      BY <1>1, <3>4 DEF WriteReadOnly, Rename, CallState
    <3>5. QED
      BY <1>8, <3>1, <3>2, <3>3, <3>4
  <2>4. /\ call'[k].pc = pc /\ call'[k].op = call[k].op
        /\ call'[k].gui = call[k].gui /\ call'[k].no = call[k].no
    BY <1>1, <2>3 DEF CallState
  <2>5. QED
    BY <1>2, <1>3, <1>4, <2>2, <2>4, QuietHeard
<1>9. QED
  BY <1>5, <1>6, <1>7, <1>8

LEMMA RequestHeard ==
  ASSUME IInv, Heard, NEW k \in Call, NEW op \in Setting \cup {Save}, NEW gui \in BOOLEAN,
         NEW bad \in BOOLEAN, Request(k, op, gui, bad)
  PROVE  Heard'
<1> USE ConfigAssumption
<1>1. call \in [Call -> CallState]
  BY DEF IInv, TypeOK
<1>2. /\ up /\ UNCHANGED <<up, memory, client>> /\ history' = history /\ ~Running(k)
      /\ \A j \in Call \ {k} : call'[j] = call[j]
  BY <1>1 DEF Request, Running
<1>3. call'[k].pc = "start" /\ call'[k].op = op /\ call'[k].gui = gui
  BY <1>1 DEF Request, Idle
<1>4. gui => op \in Setting
  BY DEF Request
<1>5. QED
  BY <1>2, <1>3, <1>4, QuietHeard

(* A write: an answer the client has not seen could undo it.                  *)
LEMMA StoreHeard == ASSUME IInv, Heard, NEW k \in Call, Store(k) PROVE Heard'
<1> USE ConfigAssumption
<1>1. TypeOK /\ call[k] \in CallState /\ call \in [Call -> CallState]
  BY DEF IInv, TypeOK
<1>2. PICK s \in Setting : s = call[k].op
  BY <1>1 DEF Store, CallState
<1>3. PICK no \in Nat : no = history.stored + 1
  BY <1>1 DEF TypeOK
<1>4. up /\ up' /\ client' = client
  BY <1>1, RunsUp DEF Store
<1>5. memory' = [memory EXCEPT ![s] = no]
  BY <1>2, <1>3 DEF Store, Accepts
<1>6. /\ \A j \in Call \ {k} : call'[j] = call[j]
      /\ call'[k].pc \in {"map", "lock"} /\ call'[k].no = no
      /\ call'[k].op = s /\ call'[k].gui = call[k].gui
  <2>1. call'[k] = [call[k] EXCEPT !.pc = IF s = Nvidia THEN "map" ELSE "lock", !.no = no]
    BY <1>1, <1>2, <1>3 DEF Store
  <2>2. QED
    BY <1>1, <1>2, <2>1 DEF Store, CallState
<1>7. history'.client = IF Unseen(k) THEN history.client \cup {s} ELSE history.client \ {s}
  BY <1>1, <1>2 DEF Store, TypeOK
<1>8. Restarts'
  BY <1>4 DEF Restarts
<1>9. Clicks'
  <2> SUFFICES ASSUME NEW j \in Call
               PROVE  /\ call'[j].gui => call'[j].op \in Setting
                      /\ call'[j].pc = "answered" => call'[j].gui
                      /\ call'[j].gui /\ (Running(j)' \/ call'[j].pc = "answered")
                         /\ call'[j].op \notin history'.client
                         => call'[j].no = memory'[call'[j].op]
    BY DEF Clicks
  <2>1. CASE j = k
    BY <1>1, <1>5, <1>6, <2>1 DEF TypeOK
  <2>2. CASE j # k /\ call[j].op = s
    <3>1. call[j].gui /\ (Running(j) \/ call[j].pc = "answered") => Unseen(k)
      BY <1>2, <2>2 DEF Unseen
    <3>2. QED
      BY <1>6, <1>7, <2>2, <3>1 DEF Heard, Clicks, Running
  <2>3. CASE j # k /\ call[j].op # s
    BY <1>1, <1>5, <1>6, <1>7, <2>3 DEF Heard, Clicks, Running, TypeOK
  <2>4. QED
    BY <2>1, <2>2, <2>3
<1>10. Follows'
  <2> SUFFICES ASSUME client.pc = "live", NEW t \in Setting \ history'.client
               PROVE  \/ \E j \in Call : Running(j)' /\ call'[j].op = t
                      \/ /\ client.cache[t] = memory'[t]
                         /\ t \in client.changed \/ client.shown[t] = memory'[t]
    BY <1>4 DEF Follows
  <2>1. CASE t = s
    BY <1>6, <2>1 DEF Running
  <2>2. CASE t # s
    <3>1. memory'[t] = memory[t] /\ t \notin history.client
      BY <1>1, <1>5, <1>7, <2>2 DEF TypeOK
    <3>2. ASSUME NEW j \in Call, Running(j), call[j].op = t
          PROVE  Running(j)' /\ call'[j].op = t
      BY <1>2, <1>6, <2>2, <3>2 DEF Running
    <3>3. QED
      BY <3>1, <3>2 DEF Heard, Follows
  <2>3. QED
    BY <2>1, <2>2
<1>11. QED
  BY <1>8, <1>9, <1>10 DEF Heard

(* The signal brings the client's proxy up to memory.                         *)
LEMMA NotifyHeard == ASSUME IInv, Heard, NEW k \in Call, Notify(k) PROVE Heard'
<1> USE ConfigAssumption
<1>1. TypeOK /\ call[k] \in CallState /\ call \in [Call -> CallState] /\ call[k].pc = "notify"
  BY DEF IInv, TypeOK, Notify
<1>2. up /\ up' /\ UNCHANGED memory /\ history'.client = history.client
  <2>1. up
    BY <1>1, RunsUp
  <2>2. UNCHANGED <<up, memory>>
    BY DEF Notify
  <2>3. history'.client = history.client
    BY <1>1 DEF Notify, TypeOK
  <2>4. QED
    BY <2>1, <2>2, <2>3
<1>3. /\ \A j \in Call \ {k} : call'[j] = call[j]
      /\ call'[k] = IF call[k].gui THEN [call[k] EXCEPT !.pc = "answered"] ELSE Idle
  BY <1>1 DEF Notify
<1>4. Restarts'
  BY <1>2 DEF Restarts
<1>5. Clicks'
  <2> SUFFICES ASSUME NEW j \in Call
               PROVE  /\ call'[j].gui => call'[j].op \in Setting
                      /\ call'[j].pc = "answered" => call'[j].gui
                      /\ call'[j].gui /\ (Running(j)' \/ call'[j].pc = "answered")
                         /\ call'[j].op \notin history'.client
                         => call'[j].no = memory'[call'[j].op]
    BY DEF Clicks
  <2>1. CASE j # k
    BY <1>2, <1>3, <2>1 DEF Heard, Clicks, Running
  <2>2. CASE j = k /\ ~call[k].gui
    <3>1. call'[k].pc = "idle" /\ ~call'[k].gui
      BY <1>3, <2>2 DEF Idle
    <3>2. QED
      BY <2>2, <3>1
  <2>3. CASE j = k /\ call[k].gui
    <3>1. /\ call'[k].pc = "answered" /\ call'[k].gui /\ call'[k].op = call[k].op
          /\ call'[k].no = call[k].no /\ Running(k)
      BY <1>1, <1>3, <2>3 DEF CallState, Running
    <3>2. QED
      BY <1>2, <2>3, <3>1 DEF Heard, Clicks
  <2>4. QED
    BY <2>1, <2>2, <2>3
<1>6. Follows'
  <2> SUFFICES ASSUME client'.pc = "live", NEW s \in Setting \ history'.client
               PROVE  \/ \E j \in Call : Running(j)' /\ call'[j].op = s
                      \/ /\ client'.cache[s] = memory'[s]
                         /\ s \in client'.changed \/ client'.shown[s] = memory'[s]
    BY DEF Follows
  <2>1. client'.pc = client.pc
    BY <1>1 DEF Notify, TypeOK
  <2>2. CASE s = call[k].op
    <3>1. client' = [client EXCEPT !.cache[s] = memory[s], !.changed = @ \cup {s}]
      BY <2>1, <2>2 DEF Notify
    <3>2. client'.cache[s] = memory[s] /\ s \in client'.changed
      BY <1>1, <3>1 DEF TypeOK
    <3>3. QED
      BY <1>2, <3>2
  <2>3. CASE s # call[k].op
    <3>1. /\ client'.cache[s] = client.cache[s] /\ client'.shown[s] = client.shown[s]
          /\ client.changed \subseteq client'.changed
      BY <1>1, <2>3 DEF Notify, TypeOK
    <3>2. ASSUME NEW j \in Call, Running(j), call[j].op = s
          PROVE  Running(j)' /\ call'[j].op = s
      BY <1>3, <2>3, <3>2 DEF Running
    <3>3. QED
      BY <1>2, <2>1, <3>1, <3>2 DEF Heard, Follows
  <2>4. QED
    BY <2>2, <2>3
<1>7. QED
  BY <1>4, <1>5, <1>6 DEF Heard

(* The daemon's ends and starts: what the client is not told of may have      *)
(* changed.                                                                  *)
LEMMA CrashHeard == ASSUME IInv, Heard, Crash PROVE Heard'
<1>1. TypeOK
  BY DEF IInv
<1>2. history'.client = history.client \cup {s \in Setting :
        memory[s] # Parsed(file)[s] \/ \E k \in Call : Running(k) /\ call[k].op = s}
  BY <1>1 DEF Crash, TypeOK
<1>3. UNCHANGED <<memory, file, client>> /\ Parsed(file)' = Parsed(file)
  BY DEF Crash, Parsed
<1>4. \A k \in Call : call'[k] = IF call[k].pc = "answered" THEN call[k] ELSE Idle
  BY DEF Crash
<1>5. Restarts'
  BY <1>2, <1>3 DEF Restarts
<1>6. Clicks'
  BY <1>2, <1>3, <1>4 DEF Clicks, Heard, Running, Idle
<1>7. Follows'
  BY <1>2, <1>3 DEF Follows, Heard
<1>8. QED
  BY <1>5, <1>6, <1>7 DEF Heard

LEMMA StartHeard == ASSUME IInv, Heard, Start PROVE Heard'
<1>1. TypeOK /\ ~up /\ up' /\ memory' = Parsed(file) /\ UNCHANGED <<call, client>>
  BY DEF IInv, Start
<1>2. history'.client = history.client
  BY <1>1 DEF Start, TypeOK
<1>3. \A s \in Setting \ history.client : memory'[s] = memory[s]
  BY <1>1 DEF Heard, Restarts
<1>4. \A k \in Call : Running(k)' = Running(k)
  BY <1>1 DEF Running
<1>5. Restarts'
  BY <1>1 DEF Restarts
<1>6. Clicks'
  BY <1>1, <1>2, <1>3, <1>4 DEF Clicks, Heard
<1>7. Follows'
  BY <1>1, <1>2, <1>3, <1>4 DEF Follows, Heard
<1>8. QED
  BY <1>5, <1>6, <1>7 DEF Heard

(* The client's own steps.                                                   *)
LEMMA ConnectHeard == ASSUME IInv, Heard, Subscribe \/ Fetch PROVE Heard'
<1>1. TypeOK /\ UNCHANGED <<up, memory, file, call, history>>
  BY DEF IInv, Subscribe, Fetch
<1>2. (\A k \in Call : Running(k)' = Running(k)) /\ Parsed(file)' = Parsed(file)
  BY <1>1 DEF Running, Parsed
<1>3. Restarts' /\ Clicks'
  BY <1>1, <1>2 DEF Heard, Restarts, Clicks
<1>4. CASE Subscribe
  BY <1>1, <1>3, <1>4 DEF Heard, Follows, Subscribe, TypeOK
<1>5. CASE Fetch
  <2>1. \A s \in Setting : client'.cache[s] = memory[s] /\ s \in client'.changed
    BY <1>1, <1>5 DEF Fetch, Fetched, TypeOK
  <2>2. QED
    BY <1>1, <1>3, <2>1 DEF Heard, Follows
<1>6. QED
  BY <1>4, <1>5

(* A failed fetch leaves nothing to be relied on.                             *)
LEMMA FetchFailsHeard ==
  ASSUME IInv, Heard, NEW pc \in {"live", "deaf"}, FetchFails(pc)
  PROVE  Heard'
<1>1. history'.client = Setting
  BY DEF IInv, TypeOK, FetchFails
<1>2. \A k \in Call : call'[k] = call[k]
  BY DEF FetchFails
<1>3. Restarts' /\ Follows'
  BY <1>1 DEF Restarts, Follows
<1>4. Clicks'
  BY <1>1, <1>2 DEF Heard, Clicks
<1>5. QED
  BY <1>3, <1>4 DEF Heard

LEMMA ChangedHeard == ASSUME IInv, Heard, NEW s \in Setting, Changed(s) PROVE Heard'
<1>1. TypeOK /\ UNCHANGED <<up, memory, file, call, history>>
  BY DEF IInv, TypeOK, Changed
<1>2. (\A k \in Call : Running(k)' = Running(k)) /\ Parsed(file)' = Parsed(file)
  BY <1>1 DEF Running, Parsed
<1>3. Restarts' /\ Clicks'
  BY <1>1, <1>2 DEF Heard, Restarts, Clicks
<1>4. client \in [pc : {"closed", "subscribed", "live", "deaf"}, cache : [Setting -> Nat],
                  changed : SUBSET Setting, shown : [Setting -> Nat]]
  BY <1>1 DEF TypeOK
<1>5. client'.pc = client.pc /\ client'.cache = client.cache
  BY <1>4 DEF Changed
<1>6. \A t \in Setting : client'.shown[t] = IF t = s THEN client.cache[s] ELSE client.shown[t]
  BY <1>4 DEF Changed
<1>7. \A t \in Setting \ {s} : t \in client.changed => t \in client'.changed
  BY <1>4 DEF Changed
<1>8. Follows'
  <2> SUFFICES ASSUME client'.pc = "live", NEW t \in Setting \ history'.client
               PROVE  \/ \E j \in Call : Running(j)' /\ call'[j].op = t
                      \/ /\ client'.cache[t] = memory'[t]
                         /\ t \in client'.changed \/ client'.shown[t] = memory'[t]
    BY DEF Follows
  <2>1. \/ \E j \in Call : Running(j) /\ call[j].op = t
        \/ client.cache[t] = memory[t] /\ (t \in client.changed \/ client.shown[t] = memory[t])
    BY <1>1, <1>5 DEF Heard, Follows
  <2>2. CASE t = s
    BY <1>1, <1>2, <1>5, <1>6, <2>1, <2>2
  <2>3. CASE t # s
    BY <1>1, <1>2, <1>5, <1>6, <1>7, <2>1, <2>3
  <2>4. QED
    BY <2>2, <2>3
<1>9. QED
  BY <1>3, <1>8 DEF Heard

LEMMA AnsweredHeard == ASSUME IInv, Heard, NEW k \in Call, Answered(k) PROVE Heard'
<1>1. TypeOK /\ call[k] \in CallState /\ call \in [Call -> CallState] /\ call[k].pc = "answered"
  BY DEF IInv, TypeOK, Answered
<1>2. UNCHANGED <<up, memory, file, history>> /\ Parsed(file)' = Parsed(file)
  BY DEF Answered, Parsed
<1>3. call'[k] = Idle /\ \A j \in Call \ {k} : call'[j] = call[j]
  BY <1>1 DEF Answered
<1>4. \A j \in Call : Running(j)' = Running(j) /\ (Running(j) => call'[j] = call[j])
  BY <1>1, <1>3 DEF Running, Idle
<1>5. Restarts'
  BY <1>2 DEF Heard, Restarts
<1>6. Clicks'
  BY <1>2, <1>3, <1>4 DEF Heard, Clicks, Idle
<1>7. PICK s \in Setting : s = call[k].op
  BY <1>1 DEF Heard, Clicks
<1>8. s \notin history.client => call[k].no = memory[s]
  BY <1>1, <1>7 DEF Heard, Clicks
<1>9. /\ client'.pc = client.pc /\ client'.cache = client.cache /\ client'.changed = client.changed
      /\ client'.shown[s] = call[k].no
      /\ \A t \in Setting \ {s} : client'.shown[t] = client.shown[t]
  BY <1>1, <1>7 DEF Answered, TypeOK
<1>10. Follows'
  BY <1>2, <1>4, <1>8, <1>9 DEF Heard, Follows
<1>11. QED
  BY <1>5, <1>6, <1>10 DEF Heard

LEMMA StepHeard == IInv /\ Heard /\ [Next]_vars => Heard'
<1> SUFFICES ASSUME IInv, Heard, [Next]_vars PROVE Heard'
  OBVIOUS
<1>1. CASE Start \/ Crash
  BY <1>1, StartHeard, CrashHeard
<1>2. ASSUME NEW k \in Call, NEW op \in Setting \cup {Save}, NEW gui \in BOOLEAN, NEW bad \in BOOLEAN,
             Request(k, op, gui, bad)
      PROVE  Heard'
  BY <1>2, RequestHeard
<1>3. ASSUME NEW k \in Call, Handle(k) PROVE Heard'
  BY <1>3, HandleHeard, StoreHeard, NotifyHeard DEF Handle
<1>4. ASSUME NEW k \in Call, Answered(k) PROVE Heard'
  BY <1>4, AnsweredHeard
<1>5. CASE Subscribe \/ Fetch \/ \E s \in Setting : Changed(s)
  BY <1>5, ConnectHeard, ChangedHeard
<1>6. ASSUME NEW pc \in {"live", "deaf"}, FetchFails(pc) PROVE Heard'
  BY <1>6, FetchFailsHeard
<1>7. CASE UNCHANGED vars
  BY <1>7 DEF vars, Heard, Restarts, Clicks, Follows, Running, Parsed
<1>8. QED
  BY <1>1, <1>2, <1>3, <1>4, <1>5, <1>6, <1>7 DEF Next

(***************************************************************************)
(* The theorems                                                            *)
(***************************************************************************)

(* The invariant: numbers only grow from the file over a saved copy to memory, *)
(* a call is where its locks let it be, and what the file or the kernel lacks  *)
(* is on its way.                                                             *)
THEOREM StoreInvariant == Spec => []IInv
<1>1. Init => IInv
  BY InitHas
<1>2. IInv /\ [Next]_vars => IInv'
  BY StepKeeps
<1>3. QED
  BY <1>1, <1>2, PTL DEF Spec

(* save_to_file: no setting that was answered is ever lost from the file, nor  *)
(* replaced there by an older value, by overlapping saves, faults or crashes.  *)
THEOREM AnswersAreDurable == Spec => []AnsweredIsSaved
<1>1. IInv => AnsweredIsSaved
  BY DEF IInv
<1>2. QED
  BY <1>1, StoreInvariant, PTL

(* Between calls memory, file and kernel agree, unless a step failed.          *)
THEOREM CallsSettle == Spec => []SettledAgree
<1>1. IInv => SettledAgree
  <2> SUFFICES ASSUME IInv, up, \A k \in Call : ~Running(k)
               PROVE  /\ history.file \/ Parsed(file) = memory
                      /\ history.kernel \/ kernel = memory[Nvidia]
                      /\ tmp = {}
    BY DEF SettledAgree
  <2>1. ~WillSave /\ Saving = {} /\ \A k \in Call : call[k].pc \notin {"map", "rename"}
    BY DEF WillSave, Saving, Running
  <2>2. tmp \subseteq Call
    BY DEF IInv, TypeOK
  <2>3. QED
    BY <2>1, <2>2 DEF IInv, OnItsWay
<1>2. QED
  BY <1>1, StoreInvariant, PTL

(* config_sub and Message::FetchedSetting: a client that has heard everything  *)
(* shows the daemon's settings, through crashes and failed saves, except those *)
(* it may have missed.                                                        *)
THEOREM ClientFollows == Spec => []ShowsDaemon
<1>1. Init => Heard
  BY HeardInit
<1>2. IInv /\ Heard /\ [Next]_vars => Heard'
  BY StepHeard
<1>3. Heard => ShowsDaemon
  BY DEF Heard, Follows, ShowsDaemon, Running
<1>4. QED
  BY <1>1, <1>2, <1>3, StoreInvariant, PTL DEF Spec

=============================================================================
