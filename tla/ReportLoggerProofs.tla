------------------------- MODULE ReportLoggerProofs -------------------------
(* What TLAPS proves of ReportLogger, for every set of pids, every size of     *)
(* the ring, the semaphore and the two lists, and without a bound on events    *)
(* and on processes that end.                                                 *)
EXTENDS ReportLogger, SequenceTheorems, FiniteSetTheorems, WellFoundedInduction, TLAPS

(***************************************************************************)
(* The invariant                                                           *)
(***************************************************************************)

(* A pid is entered in reported_pids before anything else knows of it, waits, *)
(* has a task or is in the log, and is in the log once.                       *)
OnePlace ==
  /\ \A i, j \in DOMAIN log : log[i] = log[j] => i = j
  /\ \A i \in DOMAIN log : log[i] \in reported /\ task[log[i]] \in {"none", "signal"}
  /\ \A p \in Pid : task[p] # "none" => p \in reported
  /\ \A p \in Pid : task[p] = "signal" => p \in Range(log)
  /\ \A i \in DOMAIN waiting :
       waiting[i] \in reported \ Range(log) /\ task[waiting[i]] = "none"

(* The semaphore, and that a task which is about to signal an entry other     *)
(* than the newest leaves the newest entry's own permit to others.            *)
Behind == {p \in Pid : task[p] = "signal" /\ p # log[Len(log)]}
PermitsHeld ==
  /\ IsFiniteSet(Running) /\ Cardinality(Running) <= Permits
  /\ log # <<>> => Cardinality(Behind) < Permits

News(m) == inbox[m].kind = "NewLog"

(* A copy of report_vec made when the log had fetchedAt entries.              *)
CopiedAtFetch(s) ==
  /\ Len(s) = IF gui.fetchedAt > MaxEntries THEN MaxEntries ELSE gui.fetchedAt
  /\ \A j \in DOMAIN s : s[j] = log[gui.fetchedAt - Len(s) + j]

(* The fetched history is the first message to the update loop, and signals   *)
(* are heard after the subscription.                                         *)
Stages ==
  /\ gui.fetchedAt <= Len(log)
  /\ gui.pc = "closed" => gui.fetchedAt = 0
  /\ gui.pc \in {"closed", "fetching"} => inbox = <<>> /\ shown = <<>>
  /\ gui.pc = "fetching" => CopiedAtFetch(gui.reply)
  /\ \A m \in DOMAIN inbox :
       IF News(m) THEN gui.pc = "live"
                  ELSE m = 1 /\ shown = <<>> /\ CopiedAtFetch(inbox[m].logs)
  /\ \A i \in 1..gui.fetchedAt : task[log[i]] = "signal" => log[i] \in gui.unsignalled

(* Signalled to the client; what it had already fetched was not signalled     *)
(* when it was fetched.                                                      *)
Told(p) ==
  /\ p \in Range(log) /\ task[p] = "none"
  /\ \A i \in 1..gui.fetchedAt : log[i] = p => p \in gui.unsignalled

(* The first n entries shown were fetched, each of another pid; the others    *)
(* were signalled, each of another pid, like those still in the inbox.        *)
ListedFrom(n) ==
  /\ \A i, j \in 1..n : shown[i] = shown[j] => i = j
  /\ \A i \in 1..n : \E k \in 1..gui.fetchedAt : shown[i] = log[k]
  /\ \A i, j \in (n + 1)..Len(shown) : shown[i] = shown[j] => i = j
  /\ \A i \in (n + 1)..Len(shown) : Told(shown[i])
  /\ \A m \in DOMAIN inbox : News(m) =>
       Told(inbox[m].log) /\ \A i \in (n + 1)..Len(shown) : shown[i] # inbox[m].log
  /\ \A l, m \in DOMAIN inbox : News(l) /\ News(m) /\ inbox[l].log = inbox[m].log => l = m
Listing == \E n \in 0..Len(shown) : ListedFrom(n)

(* The entries the client is to list.                                        *)
Due(i) ==
  \/ gui.pc \in {"fetched", "live"} /\ i \in (gui.fetchedAt - MaxEntries + 1)..gui.fetchedAt
  \/ gui.pc = "live" /\ i > gui.subscribedAt /\ task[log[i]] = "none" /\ log[i] \notin lost

(* Each is shown, on its way, or the list is full.                            *)
FetchedComes == inbox # <<>> /\ ~News(1)
Reaches ==
  \A i \in DOMAIN log : Due(i) =>
    \/ Len(shown) = MaxGuiEntries
    \/ \E k \in DOMAIN shown : shown[k] = log[i]
    \/ \E m \in DOMAIN inbox : News(m) /\ inbox[m].log = log[i]
    \/ FetchedComes /\ \E j \in DOMAIN inbox[1].logs : inbox[1].logs[j] = log[i]

(* The newest entry is shown or on its way, and what follows it and may still *)
(* follow it is too little to push it out.                                   *)
Leads ==
  log # <<>> /\ Due(Len(log)) =>
    \/ \E k \in DOMAIN shown :
         /\ shown[k] = log[Len(log)]
         /\ Len(shown) - k + Len(inbox) + Cardinality(Behind) < Permits
    \/ \E m \in DOMAIN inbox :
         /\ News(m) /\ inbox[m].log = log[Len(log)]
         /\ Len(inbox) - m + Cardinality(Behind) < Permits
    \/ /\ FetchedComes
       /\ inbox[1].logs # <<>> /\ inbox[1].logs[Len(inbox[1].logs)] = log[Len(log)]
       /\ Len(inbox) - 1 + Cardinality(Behind) < Permits

IInv == TypeOK /\ OnePlace /\ PermitsHeld /\ Stages /\ Listing /\ Reaches /\ Leads

(***************************************************************************)
(* Small facts                                                             *)
(***************************************************************************)

LEMMA Places ==
  ASSUME NEW S, NEW s \in Seq(S)
  PROVE  /\ Len(s) \in Nat /\ DOMAIN s = 1..Len(s)
         /\ s = <<>> <=> Len(s) = 0
         /\ \A i \in DOMAIN s : s[i] \in S
OBVIOUS

LEMMA Appended ==
  ASSUME NEW S, NEW s \in Seq(S), NEW e \in S
  PROVE  /\ Append(s, e) \in Seq(S)
         /\ Len(Append(s, e)) = Len(s) + 1 /\ DOMAIN Append(s, e) = 1..(Len(s) + 1)
         /\ \A i \in 1..Len(s) : Append(s, e)[i] = s[i]
         /\ Append(s, e)[Len(s) + 1] = e
OBVIOUS

LEMMA Shifted ==
  ASSUME NEW S, NEW s \in Seq(S), s # <<>>
  PROVE  /\ Head(s) = s[1] /\ 1 \in DOMAIN s
         /\ Tail(s) \in Seq(S)
         /\ Len(Tail(s)) = Len(s) - 1 /\ DOMAIN Tail(s) = 1..(Len(s) - 1)
         /\ \A i \in 1..(Len(s) - 1) : Tail(s)[i] = s[i + 1]
OBVIOUS

LEMMA RangeOfAppended ==
  ASSUME NEW S, NEW s \in Seq(S), NEW e \in S
  PROVE  Range(Append(s, e)) = Range(s) \cup {e}
<1>1. DOMAIN s = 1..Len(s) /\ Len(s) \in Nat
  BY Places
<1>2. \A x : x \in Range(Append(s, e)) <=> \E i \in 1..(Len(s) + 1) : x = Append(s, e)[i]
  BY Appended DEF Range
<1>3. \A x : x \in Range(s) <=> \E i \in 1..Len(s) : x = s[i]
  BY <1>1 DEF Range
<1>4. 1..(Len(s) + 1) = 1..Len(s) \cup {Len(s) + 1}
  BY <1>1
<1>5. QED
  BY <1>2, <1>3, <1>4, Appended

(* The newest n of a sequence: it without its first d.                        *)
LEMMA NewestDrops ==
  ASSUME NEW S, NEW s \in Seq(S), NEW n \in Nat \ {0}
  PROVE  /\ Newest(s, n) \in Seq(S)
         /\ Len(Newest(s, n)) <= n
         /\ \E d \in 0..Len(s) :
              /\ Len(Newest(s, n)) = Len(s) - d
              /\ d > 0 => Len(s) - d = n
              /\ \A j \in 1..(Len(s) - d) : Newest(s, n)[j] = s[j + d]
<1>1. Len(s) \in Nat /\ \A i \in 1..Len(s) : s[i] \in S
  BY Places
<1> DEFINE Drops(d) == /\ Len(Newest(s, n)) = Len(s) - d
                       /\ d > 0 => Len(s) - d = n
                       /\ \A j \in 1..(Len(s) - d) : Newest(s, n)[j] = s[j + d]
<1>2. ASSUME Len(s) > n
      PROVE  Newest(s, n) \in Seq(S) /\ Len(Newest(s, n)) <= n /\ \E d \in 0..Len(s) : Drops(d)
  <2>1. Len(s) - n + 1 \in 1..Len(s) /\ Len(s) - n \in 0..Len(s)
    BY <1>1, <1>2
  <2>2. PICK m \in 1..Len(s) : m = Len(s) - n + 1
    BY <2>1
  <2>3. Newest(s, n) = SubSeq(s, m, Len(s))
    BY <1>2, <2>2 DEF Newest
  <2>4. Len(s) - m + 1 = n /\ m <= Len(s) /\ \A i \in m..Len(s) : s[i] \in S
    BY <1>1, <2>2
  <2>5. /\ SubSeq(s, m, Len(s)) \in Seq(S)
        /\ Len(SubSeq(s, m, Len(s))) = n
        /\ \A i \in 1..n : SubSeq(s, m, Len(s))[i] = s[m + i - 1]
    BY <1>1, <2>4, SubSeqProperties
  <2>6. PICK d \in 0..Len(s) : d = Len(s) - n
    BY <2>1
  <2>7. Len(s) - d = n
    BY <1>1, <2>6
  <2>8. ASSUME NEW j \in 1..n PROVE Newest(s, n)[j] = s[j + d]
    <3>1. m + j - 1 = j + d
      BY <1>1, <2>2, <2>6
    <3>2. QED
      BY <2>3, <2>5, <3>1
  <2>9. Drops(d)
    BY <2>3, <2>5, <2>7, <2>8
  <2>10. n <= n
    OBVIOUS
  <2> HIDE DEF Drops
  <2>11. QED
    BY <2>3, <2>5, <2>9, <2>10
<1>3. ASSUME ~(Len(s) > n)
      PROVE  Newest(s, n) \in Seq(S) /\ Len(Newest(s, n)) <= n /\ \E d \in 0..Len(s) : Drops(d)
  <2>1. Newest(s, n) = SubSeq(s, 1, Len(s))
    BY <1>3 DEF Newest
  <2>2. Newest(s, n) = s
    BY <2>1, SubSeqFull
  <2>3. Drops(0)
    <3>1. Len(s) - 0 = Len(s) /\ \A j \in 1..Len(s) : j + 0 = j
      BY <1>1
    <3>2. QED
      BY <2>2, <3>1
  <2>4. 0 \in 0..Len(s)
    BY <1>1
  <2>5. Len(s) <= n
    BY <1>1, <1>3
  <2> HIDE DEF Drops
  <2>6. QED
    BY <2>2, <2>3, <2>4, <2>5
<1>4. QED
  BY <1>2, <1>3

LEMMA Bounds ==
  /\ RingSize \in Nat \ {0} /\ Permits \in Nat \ {0}
  /\ MaxEntries \in Nat \ {0} /\ MaxGuiEntries \in Nat \ {0}
  /\ Permits <= MaxGuiEntries /\ MaxEvents \in Nat /\ MaxDeaths \in Nat
BY ReportAssumption

LEMMA Typed ==
  ASSUME TypeOK
  PROVE  /\ Len(log) \in Nat /\ DOMAIN log = 1..Len(log) /\ \A i \in DOMAIN log : log[i] \in Pid
         /\ Len(shown) \in Nat /\ DOMAIN shown = 1..Len(shown) /\ Len(shown) <= MaxGuiEntries
         /\ Len(inbox) \in Nat /\ DOMAIN inbox = 1..Len(inbox) /\ (inbox = <<>> <=> Len(inbox) = 0)
         /\ gui.fetchedAt \in Nat /\ gui.subscribedAt \in Nat /\ gui.reply \in Seq(Pid)
         /\ gui.pc \in {"closed", "fetching", "fetched", "live"}
BY Places DEF TypeOK

(* A message is of one of the two kinds.                                     *)
LEMMA MessageTyped ==
  ASSUME TypeOK, NEW m \in DOMAIN inbox
  PROVE  /\ News(m) => inbox[m].log \in Pid
         /\ ~News(m) => inbox[m].kind = "FetchedLogs" /\ inbox[m].logs \in Seq(Pid)
<1>1. inbox[m] \in [kind : {"FetchedLogs"}, logs : Seq(Pid)] \cup [kind : {"NewLog"}, log : Pid]
  BY Places DEF TypeOK
<1>2. QED
  BY <1>1 DEF News

(* Most steps of the world do not reach the daemon and the client.            *)
LEMMA Steps ==
  ASSUME [Next]_vars
  PROVE  \/ UNCHANGED <<reported, waiting, task, log, lost, gui, inbox, shown>>
         \/ TakeReport \/ StartTask \/ \E p \in Pid : Work(p)
         \/ Fetch \/ Fetched \/ Subscribe \/ Update
<1>1. \A p \in Pid : Blocked(p) \/ Die(p) \/ Spawn(p) =>
        UNCHANGED <<reported, waiting, task, log, lost, gui, inbox, shown>>
  BY DEF Blocked, Die, Spawn, daemonVars, guiVars
<1>2. QED
  BY <1>1 DEF Next, vars, daemonVars, guiVars

(***************************************************************************)
(* What the client's steps do                                              *)
(***************************************************************************)

LEMMA FetchDoes ==
  ASSUME TypeOK, Fetch
  PROVE  /\ UNCHANGED <<daemonVars, inbox, shown>> /\ gui.pc = "closed"
         /\ gui' \in [pc : {"closed", "fetching", "fetched", "live"}, reply : Seq(Pid),
                      fetchedAt : Nat, subscribedAt : Nat, unsignalled : SUBSET Pid]
         /\ gui'.pc = "fetching" /\ gui'.reply = Newest(log, MaxEntries)
         /\ gui'.fetchedAt = Len(log) /\ gui'.unsignalled = {p \in Pid : task[p] = "signal"}
<1>1. Newest(log, MaxEntries) \in Seq(Pid) /\ Len(log) \in Nat
  BY Bounds, NewestDrops, Typed DEF TypeOK
<1>2. {p \in Pid : task[p] = "signal"} \in SUBSET Pid
  OBVIOUS
<1>3. PICK r \in Seq(Pid), u \in SUBSET Pid, n \in Nat :
        r = Newest(log, MaxEntries) /\ u = {p \in Pid : task[p] = "signal"} /\ n = Len(log)
  BY <1>1, <1>2
<1>4. gui' = [gui EXCEPT !.pc = "fetching", !.reply = r, !.fetchedAt = n, !.unsignalled = u]
  BY <1>3 DEF Fetch, ReportVec
<1>5. UNCHANGED <<daemonVars, inbox, shown>> /\ gui.pc = "closed"
  BY DEF Fetch
<1>6. gui \in [pc : {"closed", "fetching", "fetched", "live"}, reply : Seq(Pid),
               fetchedAt : Nat, subscribedAt : Nat, unsignalled : SUBSET Pid]
  BY DEF TypeOK
<1>7. gui' \in [pc : {"closed", "fetching", "fetched", "live"}, reply : Seq(Pid),
                fetchedAt : Nat, subscribedAt : Nat, unsignalled : SUBSET Pid]
  BY <1>4, <1>6
<1>8. /\ gui'.pc = "fetching" /\ gui'.reply = r
      /\ gui'.fetchedAt = n /\ gui'.unsignalled = u
  BY <1>4, <1>6
<1>9. QED
  BY <1>3, <1>5, <1>7, <1>8

LEMMA FetchedDoes ==
  ASSUME TypeOK, Fetched
  PROVE  /\ UNCHANGED <<daemonVars, shown>> /\ gui.pc = "fetching"
         /\ gui' \in [pc : {"closed", "fetching", "fetched", "live"}, reply : Seq(Pid),
                      fetchedAt : Nat, subscribedAt : Nat, unsignalled : SUBSET Pid]
         /\ gui'.pc = "fetched" /\ gui'.fetchedAt = gui.fetchedAt
         /\ gui'.unsignalled = gui.unsignalled
         /\ inbox' = IF gui.reply = <<>> THEN inbox
                     ELSE Append(inbox, [kind |-> "FetchedLogs", logs |-> gui.reply])
<1>1. <<>> \in Seq(Pid)
  OBVIOUS
<1>2. QED
  BY <1>1 DEF Fetched, TypeOK

LEMMA SubscribeDoes ==
  ASSUME TypeOK, Subscribe
  PROVE  /\ UNCHANGED <<daemonVars, inbox, shown>> /\ gui.pc = "fetched"
         /\ gui' \in [pc : {"closed", "fetching", "fetched", "live"}, reply : Seq(Pid),
                      fetchedAt : Nat, subscribedAt : Nat, unsignalled : SUBSET Pid]
         /\ gui'.pc = "live" /\ gui'.fetchedAt = gui.fetchedAt
         /\ gui'.unsignalled = gui.unsignalled /\ gui'.subscribedAt = Len(log)
<1>1. Len(log) \in Nat
  BY Typed
<1>2. QED
  BY <1>1 DEF Subscribe, TypeOK

LEMMA UpdateDoes ==
  ASSUME TypeOK, Update
  PROVE  /\ UNCHANGED <<daemonVars, gui>>
         /\ Len(inbox) > 0 /\ Len(inbox') = Len(inbox) - 1 /\ DOMAIN inbox' = 1..(Len(inbox) - 1)
         /\ \A m \in 1..(Len(inbox) - 1) : inbox'[m] = inbox[m + 1]
         /\ shown' \in Seq(Pid) /\ Len(shown') <= MaxGuiEntries /\ inbox' = Tail(inbox)
         /\ ~News(1) => \E d \in 0..Len(inbox[1].logs) :
              /\ Len(shown') = Len(inbox[1].logs) - d
              /\ d > 0 => Len(shown') = MaxGuiEntries
              /\ \A j \in 1..Len(shown') : shown'[j] = inbox[1].logs[j + d]
         /\ News(1) => \E d \in 0..1 :
              /\ Len(shown') = Len(shown) + 1 - d
              /\ d = 1 => Len(shown') = MaxGuiEntries
              /\ shown'[Len(shown')] = inbox[1].log
              /\ \A j \in 1..(Len(shown') - 1) : j + d \in 1..Len(shown) /\ shown'[j] = shown[j + d]
<1>1. inbox # <<>> /\ inbox' = Tail(inbox) /\ UNCHANGED <<daemonVars, gui>>
  BY DEF Update
<1>2. /\ Len(inbox) > 0 /\ Len(inbox') = Len(inbox) - 1 /\ DOMAIN inbox' = 1..(Len(inbox) - 1)
      /\ \A m \in 1..(Len(inbox) - 1) : inbox'[m] = inbox[m + 1]
      /\ Head(inbox) = inbox[1] /\ 1 \in DOMAIN inbox
  BY <1>1, Shifted, Typed DEF TypeOK
<1>3. ASSUME ~News(1)
      PROVE  /\ shown' \in Seq(Pid) /\ Len(shown') <= MaxGuiEntries
             /\ \E d \in 0..Len(inbox[1].logs) :
                  /\ Len(shown') = Len(inbox[1].logs) - d
                  /\ d > 0 => Len(shown') = MaxGuiEntries
                  /\ \A j \in 1..Len(shown') : shown'[j] = inbox[1].logs[j + d]
  <2>1. inbox[1].kind = "FetchedLogs" /\ inbox[1].logs \in Seq(Pid)
    BY <1>2, <1>3, MessageTyped
  <2>2. shown' = Newest(inbox[1].logs, MaxGuiEntries)
    BY <1>2, <2>1 DEF Update
  <2>3. PICK logs \in Seq(Pid) : logs = inbox[1].logs
    BY <2>1
  <2>4. PICK d \in 0..Len(logs) :
          /\ Len(shown') = Len(logs) - d
          /\ d > 0 => Len(logs) - d = MaxGuiEntries
          /\ \A j \in 1..(Len(logs) - d) : shown'[j] = logs[j + d]
    <3>1. MaxGuiEntries \in Nat \ {0} /\ shown' = Newest(logs, MaxGuiEntries)
      BY <2>2, <2>3, Bounds
    <3>2. QED
      BY Zenon, <3>1, NewestDrops
  <2>5. shown' \in Seq(Pid) /\ Len(shown') <= MaxGuiEntries
    BY <2>1, <2>2, Bounds, NewestDrops
  <2>6. QED
    BY <2>3, <2>4, <2>5
<1>4. ASSUME News(1)
      PROVE  /\ shown' \in Seq(Pid) /\ Len(shown') <= MaxGuiEntries
             /\ \E d \in 0..1 :
                  /\ Len(shown') = Len(shown) + 1 - d
                  /\ d = 1 => Len(shown') = MaxGuiEntries
                  /\ shown'[Len(shown')] = inbox[1].log
                  /\ \A j \in 1..(Len(shown') - 1) :
                       j + d \in 1..Len(shown) /\ shown'[j] = shown[j + d]
  <2>1. inbox[1].kind = "NewLog" /\ inbox[1].log \in Pid /\ shown \in Seq(Pid)
    BY <1>2, <1>4, MessageTyped DEF News, TypeOK
  <2>2. PICK a \in Seq(Pid) : a = Append(shown, inbox[1].log)
    BY <2>1, Appended
  <2>3. shown' = Newest(a, MaxGuiEntries)
    BY <1>2, <2>1, <2>2 DEF Update
  <2>4. /\ Len(shown) \in Nat /\ Len(a) = Len(shown) + 1 /\ Len(shown) <= MaxGuiEntries
        /\ \A i \in 1..Len(shown) : a[i] = shown[i]
        /\ a[Len(shown) + 1] = inbox[1].log
    BY <2>1, <2>2, Appended, Typed
  <2>5. PICK d \in 0..Len(a) :
          /\ Len(shown') = Len(a) - d
          /\ d > 0 => Len(a) - d = MaxGuiEntries
          /\ \A j \in 1..(Len(a) - d) : shown'[j] = a[j + d]
    BY <2>3, Bounds, NewestDrops
  <2>6. d \in 0..1
    BY <2>4, <2>5, Bounds
  <2>7. shown' \in Seq(Pid) /\ Len(shown') <= MaxGuiEntries
    BY <2>3, Bounds, NewestDrops
  <2>8. Len(shown') > 0
    BY <2>4, <2>5, <2>6, Bounds
  <2>9. shown'[Len(shown')] = inbox[1].log
    <3>1. Len(shown') \in 1..(Len(a) - d) /\ Len(shown') + d = Len(shown) + 1
      BY <2>4, <2>5, <2>6, <2>8
    <3>2. QED
      BY <2>4, <2>5, <3>1
  <2>10. ASSUME NEW j \in 1..(Len(shown') - 1)
         PROVE  j + d \in 1..Len(shown) /\ shown'[j] = shown[j + d]
    BY <2>4, <2>5, <2>6
  <2>11. Len(shown') = Len(shown) + 1 - d /\ (d = 1 => Len(shown') = MaxGuiEntries)
    BY <2>4, <2>5, <2>6
  <2>12. QED
    BY <2>6, <2>7, <2>9, <2>10, <2>11
<1>5. QED
  BY <1>1, <1>2, <1>3, <1>4

(***************************************************************************)
(* Type correctness                                                        *)
(***************************************************************************)

LEMMA TypeHolds == Spec => []TypeOK
<1>1. Init => TypeOK
  BY Bounds DEF Init, TypeOK
<1>2. TypeOK /\ [Next]_vars => TypeOK'
  <2> SUFFICES ASSUME TypeOK, [Next]_vars PROVE TypeOK'
    OBVIOUS
  <2>1. ASSUME NEW p \in Pid, Blocked(p) PROVE TypeOK'
    <3>1. left' \in [event : Nat, death : Nat]
      <4>1. left.event - 1 \in Nat
        BY <2>1 DEF Blocked, TypeOK
      <4>2. QED
        BY <2>1, <4>1 DEF Blocked, TypeOK
    <3>2. ring' \in Seq(Pid) /\ Len(ring') <= RingSize
      BY SMTT(30), <2>1, Bounds, Appended, Places DEF Blocked, TypeOK
    <3>3. QED
      BY <2>1, <3>1, <3>2 DEF Blocked, TypeOK, daemonVars, guiVars
  <2>2. ASSUME NEW p \in Pid, Die(p) \/ Spawn(p) PROVE TypeOK'
    <3>1. left' \in [event : Nat, death : Nat]
      <4>1. CASE Die(p)
        <5>1. left.death - 1 \in Nat
          BY <4>1 DEF Die, TypeOK
        <5>2. QED
          BY <4>1, <5>1 DEF Die, TypeOK
      <4>2. CASE Spawn(p)
        BY <4>2 DEF Spawn, TypeOK
      <4>3. QED
        BY <2>2, <4>1, <4>2
    <3>2. QED
      BY <2>2, <3>1 DEF Die, Spawn, TypeOK, daemonVars, guiVars
  <2>3. CASE TakeReport
    <3>1. ring # <<>> /\ ring \in Seq(Pid) /\ ring' = Tail(ring)
      BY <2>3 DEF TakeReport, TypeOK
    <3>2. Head(ring) \in Pid /\ ring' \in Seq(Pid) /\ Len(ring') <= RingSize
      BY <3>1, Bounds, Shifted, Places DEF TypeOK
    <3>3. <<Head(ring)>> \in Seq(Pid) /\ Len(<<Head(ring)>>) = 1 /\ <<>> \in Seq(Pid) /\ Len(<<>>) = 0
      BY <3>2
    <3>4. waiting' \in Seq(Pid) /\ Len(waiting') <= 1 /\ reported' \subseteq Pid
      BY <2>3, <3>2, <3>3 DEF TakeReport, Remembered, TypeOK
    <3>5. QED
      BY <2>3, <3>2, <3>4 DEF TakeReport, TypeOK, guiVars
  <2>4. CASE StartTask
    BY <2>4 DEF StartTask, Acquire, TypeOK, guiVars
  <2>5. ASSUME NEW p \in Pid, Lookup(p) PROVE TypeOK'
    BY <2>5 DEF Lookup, TypeOK, guiVars
  <2>6. ASSUME NEW p \in Pid, Record(p) PROVE TypeOK'
    BY <2>6, Appended DEF Record, TypeOK, guiVars
  <2>7. ASSUME NEW p \in Pid, Signal(p) PROVE TypeOK'
    <3>1. [kind |-> "NewLog", log |-> p] \in
            [kind : {"FetchedLogs"}, logs : Seq(Pid)] \cup [kind : {"NewLog"}, log : Pid]
      OBVIOUS
    <3>2. \/ inbox' = inbox
          \/ inbox' = Append(inbox, [kind |-> "NewLog", log |-> p])
      BY Zenon, <2>7 DEF Signal
    <3>3. inbox' \in Seq([kind : {"FetchedLogs"}, logs : Seq(Pid)] \cup [kind : {"NewLog"}, log : Pid])
      <4>1. Append(inbox, [kind |-> "NewLog", log |-> p]) \in
              Seq([kind : {"FetchedLogs"}, logs : Seq(Pid)] \cup [kind : {"NewLog"}, log : Pid])
        BY <3>1, Appended DEF TypeOK
      <4>2. QED
        BY Zenon, <3>2, <4>1 DEF TypeOK
    <3>4. lost' \subseteq Pid
      BY <2>7 DEF Signal, TypeOK
    <3>5. QED
      BY <2>7, <3>3, <3>4 DEF Signal, TypeOK
  <2>8. CASE Fetch
    <3>1. UNCHANGED <<alive, ring, left, daemonVars, inbox, shown>>
      BY <2>8 DEF Fetch
    <3>2. gui' \in [pc : {"closed", "fetching", "fetched", "live"}, reply : Seq(Pid),
                    fetchedAt : Nat, subscribedAt : Nat, unsignalled : SUBSET Pid]
      BY <2>8, FetchDoes
    <3>3. QED
      BY <3>1, <3>2 DEF TypeOK, daemonVars
  <2>9. CASE Fetched
    <3>1. [kind |-> "FetchedLogs", logs |-> gui.reply] \in
            [kind : {"FetchedLogs"}, logs : Seq(Pid)] \cup [kind : {"NewLog"}, log : Pid]
      BY Typed
    <3>2. inbox' \in Seq([kind : {"FetchedLogs"}, logs : Seq(Pid)] \cup [kind : {"NewLog"}, log : Pid])
      <4>1. \/ inbox' = inbox
            \/ inbox' = Append(inbox, [kind |-> "FetchedLogs", logs |-> gui.reply])
        BY <2>9 DEF Fetched
      <4>2. inbox \in Seq([kind : {"FetchedLogs"}, logs : Seq(Pid)] \cup [kind : {"NewLog"}, log : Pid])
        BY DEF TypeOK
      <4>3. QED
        BY <3>1, <4>1, <4>2, Appended
    <3>3. QED
      BY <2>9, <3>2, FetchedDoes DEF Fetched, TypeOK, daemonVars
  <2>10. CASE Subscribe
    BY <2>10, SubscribeDoes DEF Subscribe, TypeOK, daemonVars
  <2>11. CASE Update
    <3>1. inbox' \in Seq([kind : {"FetchedLogs"}, logs : Seq(Pid)] \cup [kind : {"NewLog"}, log : Pid])
      BY <2>11, Shifted DEF Update, TypeOK
    <3>2. QED
      BY <2>11, <3>1, UpdateDoes DEF Update, TypeOK, daemonVars
  <2>12. CASE UNCHANGED vars
    BY <2>12 DEF TypeOK, vars, daemonVars, guiVars
  <2>13. QED
    BY <2>1, <2>2, <2>3, <2>4, <2>5, <2>6, <2>7, <2>8, <2>9, <2>10, <2>11, <2>12 DEF Next, Work
<1>3. QED
  BY <1>1, <1>2, PTL DEF Spec

(***************************************************************************)
(* Where a pid is                                                          *)
(***************************************************************************)

LEMMA PlaceHolds == Spec => []OnePlace
<1>1. Init => OnePlace
  BY DEF Init, OnePlace, Range
<1>2. TypeOK /\ OnePlace /\ [Next]_vars => OnePlace'
  <2> SUFFICES ASSUME TypeOK, OnePlace, [Next]_vars PROVE OnePlace'
    OBVIOUS
  <2>1. CASE UNCHANGED <<reported, waiting, task, log>>
    BY <2>1 DEF OnePlace
  <2>2. CASE TakeReport
    <3>1. PICK p \in Pid : p = Head(ring)
      BY <2>2, Shifted DEF TakeReport, TypeOK
    <3>2. /\ waiting' = IF p \in reported THEN <<>> ELSE <<p>>
          /\ reported' = reported \cup {p} /\ UNCHANGED <<task, log>>
      BY <2>2, <3>1 DEF TakeReport, Remembered
    <3>3. ASSUME p \notin reported PROVE task[p] = "none" /\ p \notin Range(log)
      BY <3>3 DEF OnePlace, Range
    <3>4. \A i \in DOMAIN waiting' : waiting'[i] = p /\ p \notin reported
      BY <3>2
    <3>5. QED
      BY <3>2, <3>3, <3>4 DEF OnePlace
  <2>3. CASE StartTask
    <3>1. 1 \in DOMAIN waiting /\ waiting[1] \in Pid /\ Head(waiting) = waiting[1]
      BY <2>3, Shifted, Places DEF StartTask, TypeOK
    <3>2. PICK p \in Pid : p = waiting[1]
      BY <3>1
    <3>3. p \in reported \ Range(log) /\ task[p] = "none"
      BY <3>1, <3>2 DEF OnePlace
    <3>4. /\ waiting' = <<>> /\ task' = [task EXCEPT ![p] = "lookup"]
          /\ UNCHANGED <<reported, log>>
      BY <2>3, <3>1, <3>2 DEF StartTask, Acquire
    <3>5. \A i \in DOMAIN log : task'[log[i]] = task[log[i]]
      BY <3>3, <3>4, Typed DEF TypeOK, Range
    <3>6. \A q \in Pid : /\ task'[q] # "none" => q \in reported
                         /\ task'[q] = "signal" => q \in Range(log)
      BY <3>3, <3>4 DEF TypeOK, OnePlace
    <3>7. DOMAIN waiting' = {}
      BY <3>4
    <3>8. QED
      BY <3>4, <3>5, <3>6, <3>7 DEF OnePlace
  <2>4. ASSUME NEW p \in Pid, Lookup(p) PROVE OnePlace'
    <3>1. /\ task[p] = "lookup" /\ UNCHANGED <<reported, waiting, log>>
          /\ task' = [task EXCEPT ![p] = IF p \in alive THEN "report" ELSE "none"]
      BY <2>4 DEF Lookup
    <3>2. p \in reported /\ p \notin Range(log)
      BY <3>1 DEF OnePlace, Range
    <3>3. \A i \in DOMAIN log : task'[log[i]] = task[log[i]]
      BY <3>1, <3>2, Typed DEF TypeOK, Range
    <3>4. \A q \in Pid : /\ task'[q] # "none" => q \in reported
                         /\ task'[q] = "signal" => q \in Range(log)
      BY <3>1, <3>2 DEF TypeOK, OnePlace
    <3>5. \A i \in DOMAIN waiting : waiting[i] \in Pid
      BY Places DEF TypeOK
    <3>6. \A i \in DOMAIN waiting : task'[waiting[i]] = task[waiting[i]]
      BY <3>1, <3>5 DEF TypeOK, OnePlace
    <3>7. QED
      BY <3>1, <3>3, <3>4, <3>6 DEF OnePlace
  <2>5. ASSUME NEW p \in Pid, Record(p) PROVE OnePlace'
    <3>1. /\ task[p] = "report" /\ UNCHANGED <<reported, waiting>>
          /\ task' = [task EXCEPT ![p] = "signal"] /\ log' = Append(log, p)
      BY <2>5 DEF Record
    <3>2. p \in reported /\ p \notin Range(log)
      BY <3>1 DEF OnePlace, Range
    <3>3. /\ Len(log) \in Nat /\ DOMAIN log = 1..Len(log) /\ DOMAIN log' = 1..(Len(log) + 1)
          /\ \A i \in 1..Len(log) : log'[i] = log[i] /\ log[i] \in Pid /\ log[i] # p
          /\ log'[Len(log) + 1] = p
      <4>1. log \in Seq(Pid) /\ Len(log) \in Nat /\ DOMAIN log = 1..Len(log)
            /\ \A i \in 1..Len(log) : log[i] \in Pid
        BY Typed DEF TypeOK
      <4>2. \A i \in 1..Len(log) : log[i] # p
        BY <3>2, <4>1 DEF Range
      <4>3. QED
        BY <3>1, <4>1, <4>2, Appended
    <3>4. \A i, j \in 1..(Len(log) + 1) : log'[i] = log'[j] => i = j
      <4>1. \A i \in 1..(Len(log) + 1) : i \in 1..Len(log) \/ i = Len(log) + 1
        BY <3>3
      <4>2. QED
        BY <3>3, <4>1 DEF OnePlace
    <3>5. \A i \in 1..(Len(log) + 1) : log'[i] \in reported /\ task'[log'[i]] \in {"none", "signal"}
      <4>1. \A i \in 1..(Len(log) + 1) : i \in 1..Len(log) \/ i = Len(log) + 1
        BY <3>3
      <4>2. \A i \in 1..Len(log) : task'[log[i]] = task[log[i]]
        BY <3>1, <3>3 DEF TypeOK
      <4>3. task'[p] = "signal"
        BY <3>1 DEF TypeOK
      <4>4. QED
        BY <3>2, <3>3, <4>1, <4>2, <4>3 DEF OnePlace
    <3>6. Range(log') = Range(log) \cup {p}
      BY <3>1, RangeOfAppended DEF TypeOK
    <3>7. \A q \in Pid : /\ task'[q] # "none" => q \in reported
                         /\ task'[q] = "signal" => q \in Range(log')
      BY <3>1, <3>2, <3>6 DEF TypeOK, OnePlace
    <3>8. \A i \in DOMAIN waiting : waiting[i] # p
      BY <3>1 DEF OnePlace
    <3>9. \A i \in DOMAIN waiting : waiting[i] \in Pid
      BY Places DEF TypeOK
    <3>10. \A i \in DOMAIN waiting : waiting[i] \in reported \ Range(log') /\ task'[waiting[i]] = "none"
      BY <3>1, <3>6, <3>8, <3>9 DEF TypeOK, OnePlace
    <3>11. QED
      BY <3>1, <3>3, <3>4, <3>5, <3>7, <3>10 DEF OnePlace
  <2>6. ASSUME NEW p \in Pid, Signal(p) PROVE OnePlace'
    <3>1. /\ UNCHANGED <<reported, waiting, log>>
          /\ task' = [task EXCEPT ![p] = "none"]
      BY <2>6 DEF Signal
    <3>2. \A q \in Pid : task'[q] \in {task[q], "none"}
      BY <3>1 DEF TypeOK
    <3>3. /\ \A i \in DOMAIN log : log[i] \in Pid
          /\ \A i \in DOMAIN waiting : waiting[i] \in Pid
      BY Typed, Places DEF TypeOK
    <3>4. /\ \A i \in DOMAIN log : task'[log[i]] \in {"none", "signal"}
          /\ \A i \in DOMAIN waiting : task'[waiting[i]] = "none"
      BY <3>2, <3>3 DEF OnePlace
    <3>5. \A q \in Pid : /\ task'[q] # "none" => q \in reported
                         /\ task'[q] = "signal" => q \in Range(log)
      BY <3>2 DEF OnePlace
    <3>6. QED
      BY <3>1, <3>4, <3>5 DEF OnePlace
  <2>7. Fetch \/ Fetched \/ Subscribe \/ Update => UNCHANGED <<reported, waiting, task, log>>
    BY DEF Fetch, Fetched, Subscribe, Update, daemonVars
  <2>8. QED
    BY <2>1, <2>2, <2>3, <2>4, <2>5, <2>6, <2>7, Steps DEF Work
<1>3. QED
  BY <1>1, <1>2, TypeHolds, PTL DEF Spec

(***************************************************************************)
(* The semaphore                                                           *)
(***************************************************************************)

LEMMA BehindRuns ==
  ASSUME TypeOK, IsFiniteSet(Running)
  PROVE  IsFiniteSet(Behind) /\ Cardinality(Behind) \in Nat
<1>1. Behind \in SUBSET Running
  BY DEF Behind, Running
<1>2. QED
  BY <1>1, FS_Subset, FS_CardinalityType

(* Fewer tasks, and none joins those behind the newest entry.                 *)
LEMMA FewerRun ==
  ASSUME TypeOK, PermitsHeld, Running' \subseteq Running, Behind' \subseteq Behind, UNCHANGED log
  PROVE  PermitsHeld'
<1>1. IsFiniteSet(Running') /\ Cardinality(Running') <= Cardinality(Running)
  BY FS_Subset DEF PermitsHeld
<1>2. IsFiniteSet(Behind) /\ Cardinality(Behind) \in Nat
  BY BehindRuns DEF PermitsHeld
<1>3. Cardinality(Behind') <= Cardinality(Behind) /\ Cardinality(Behind') \in Nat
  BY <1>2, FS_Subset, FS_CardinalityType
<1>4. Cardinality(Running') \in Nat /\ Cardinality(Running) \in Nat
  BY <1>1, FS_CardinalityType DEF PermitsHeld
<1>5. QED
  BY <1>1, <1>2, <1>3, <1>4, Bounds DEF PermitsHeld

LEMMA PermitsHold == Spec => []PermitsHeld
<1>1. Init => PermitsHeld
  <2> SUFFICES ASSUME Init PROVE PermitsHeld
    OBVIOUS
  <2>1. Running = {} /\ log = <<>>
    BY DEF Init, Running
  <2>2. QED
    BY <2>1, FS_EmptySet, Bounds DEF PermitsHeld
<1>2. TypeOK /\ OnePlace /\ PermitsHeld /\ [Next]_vars => PermitsHeld'
  <2> SUFFICES ASSUME TypeOK, OnePlace, PermitsHeld, [Next]_vars PROVE PermitsHeld'
    OBVIOUS
  <2>1. CASE UNCHANGED <<task, log>>
    <3>1. Running' = Running /\ Behind' = Behind
      BY <2>1 DEF Running, Behind
    <3>2. QED
      BY <2>1, <3>1 DEF PermitsHeld
  <2>2. CASE StartTask
    <3>1. 1 \in DOMAIN waiting /\ waiting[1] \in Pid /\ Head(waiting) = waiting[1]
      BY <2>2, Shifted, Places DEF StartTask, TypeOK
    <3>2. PICK p \in Pid : p = waiting[1]
      BY <3>1
    <3>3. task[p] = "none"
      BY <3>1, <3>2 DEF OnePlace
    <3>4. /\ Cardinality(Running) < Permits /\ task' = [task EXCEPT ![p] = "lookup"]
          /\ UNCHANGED log
      BY <2>2, <3>1, <3>2 DEF StartTask, Acquire
    <3>5. Running' = Running \cup {p}
      BY <3>4 DEF Running, TypeOK
    <3>6. Behind' = Behind
      BY <3>3, <3>4 DEF Behind, TypeOK
    <3>7. /\ IsFiniteSet(Running \cup {p}) /\ Cardinality(Running) \in Nat
          /\ Cardinality(Running \cup {p}) = IF p \in Running THEN Cardinality(Running)
                                                             ELSE Cardinality(Running) + 1
      BY FS_AddElement, FS_CardinalityType DEF PermitsHeld
    <3>8. Cardinality(Running') <= Permits
      BY <3>4, <3>5, <3>7, Bounds
    <3>9. QED
      BY <3>4, <3>5, <3>6, <3>7, <3>8 DEF PermitsHeld
  <2>3. ASSUME NEW p \in Pid, Lookup(p) \/ Signal(p) PROVE PermitsHeld'
    <3>1. /\ UNCHANGED log
          /\ task' = [task EXCEPT ![p] = IF task[p] = "lookup" /\ p \in alive THEN "report" ELSE "none"]
          /\ task[p] # "none"
      BY <2>3 DEF Lookup, Signal
    <3>2. Running' \subseteq Running /\ Behind' \subseteq Behind
      BY <3>1 DEF Running, Behind, TypeOK
    <3>3. QED
      BY <3>1, <3>2, FewerRun
  <2>4. ASSUME NEW p \in Pid, Record(p) PROVE PermitsHeld'
    <3>1. task[p] = "report" /\ task' = [task EXCEPT ![p] = "signal"] /\ log' = Append(log, p)
      BY <2>4 DEF Record
    <3>2. Running' = Running /\ p \in Running
      BY <3>1 DEF Running, TypeOK
    <3>3. log'[Len(log')] = p
      BY <3>1, Appended DEF TypeOK
    <3>4. Behind' \subseteq Running \ {p}
      BY <3>1, <3>3 DEF Behind, Running, TypeOK
    <3>5. IsFiniteSet(Running \ {p}) /\ Cardinality(Running \ {p}) = Cardinality(Running) - 1
      BY <3>2, FS_RemoveElement DEF PermitsHeld
    <3>6. Cardinality(Behind') <= Cardinality(Running) - 1
      BY <3>4, <3>5, FS_Subset
    <3>7. Cardinality(Behind') < Permits
      <4>1. IsFiniteSet(Behind')
        BY <3>4, <3>5, FS_Subset
      <4>2. Cardinality(Behind') \in Nat /\ Cardinality(Running) \in Nat
        BY <4>1, FS_CardinalityType DEF PermitsHeld
      <4>3. QED
        BY <3>6, <4>2, Bounds DEF PermitsHeld
    <3>8. QED
      BY <3>2, <3>7 DEF PermitsHeld
  <2>5. TakeReport \/ Fetch \/ Fetched \/ Subscribe \/ Update => UNCHANGED <<task, log>>
    BY DEF TakeReport, Fetch, Fetched, Subscribe, Update, daemonVars
  <2>6. QED
    BY <2>1, <2>2, <2>3, <2>4, <2>5, Steps DEF Work
<1>3. QED
  BY <1>1, <1>2, TypeHolds, PlaceHolds, PTL DEF Spec

(***************************************************************************)
(* The stages of the client                                                *)
(***************************************************************************)

(* Until a task signals, the client keeps what it has, the log only grows, by *)
(* an entry that is not signalled, and what is in it keeps its task.          *)
LogGrows ==
  /\ UNCHANGED <<lost, gui, inbox, shown>>
  /\ Len(log') \in {Len(log), Len(log) + 1} /\ DOMAIN log' = 1..Len(log')
  /\ \A i \in 1..Len(log) : log'[i] = log[i] /\ task'[log[i]] = task[log[i]]
  /\ \A i \in DOMAIN log' : i > Len(log) => task'[log'[i]] = "signal"
  /\ Len(log') = Len(log) => \A p \in Pid : task'[p] = "signal" <=> task[p] = "signal"

LEMMA StartGrows ==
  ASSUME TypeOK, OnePlace, StartTask
  PROVE  LogGrows
<1>1. 1 \in DOMAIN waiting /\ waiting[1] \in Pid /\ Head(waiting) = waiting[1]
  BY Shifted, Places DEF StartTask, TypeOK
<1>2. PICK p \in Pid : p = waiting[1]
  BY <1>1
<1>3. p \notin Range(log) /\ task[p] = "none"
  BY <1>1, <1>2 DEF OnePlace
<1>4. task' = [task EXCEPT ![p] = "lookup"] /\ UNCHANGED <<log, lost, gui, inbox, shown>>
  BY <1>1, <1>2 DEF StartTask, Acquire, guiVars
<1>5. \A i \in 1..Len(log) : log[i] \in Pid /\ log[i] # p
  BY <1>3, Typed DEF Range
<1>6. QED
  BY <1>3, <1>4, <1>5, Typed DEF LogGrows, TypeOK

LEMMA LookupGrows ==
  ASSUME TypeOK, OnePlace, NEW p \in Pid, Lookup(p)
  PROVE  LogGrows
<1>1. /\ task[p] = "lookup" /\ UNCHANGED <<log, lost, gui, inbox, shown>>
      /\ task' = [task EXCEPT ![p] = IF p \in alive THEN "report" ELSE "none"]
  BY DEF Lookup, guiVars
<1>2. \A i \in 1..Len(log) : log[i] \in Pid /\ log[i] # p
  BY <1>1, Typed DEF OnePlace
<1>3. QED
  BY SMTT(30), <1>1, <1>2, Typed DEF LogGrows, TypeOK

LEMMA RecordGrows ==
  ASSUME TypeOK, OnePlace, NEW p \in Pid, Record(p)
  PROVE  LogGrows
<1>1. /\ task[p] = "report" /\ UNCHANGED <<lost, gui, inbox, shown>>
      /\ task' = [task EXCEPT ![p] = "signal"] /\ log' = Append(log, p)
  BY DEF Record, guiVars
<1>2. \A i \in 1..Len(log) : log[i] \in Pid /\ log[i] # p
  BY <1>1, Typed DEF OnePlace
<1>3. /\ Len(log') = Len(log) + 1 /\ DOMAIN log' = 1..Len(log') /\ log'[Len(log) + 1] = p
      /\ \A i \in 1..Len(log) : log'[i] = log[i]
  BY <1>1, Appended DEF TypeOK
<1>4. Len(log) \in Nat /\ \A i \in DOMAIN log' : i > Len(log) => i = Len(log) + 1
  BY <1>3, Typed
<1>5. QED
  BY <1>1, <1>2, <1>3, <1>4 DEF LogGrows, TypeOK

LEMMA GrowsOr ==
  ASSUME TypeOK, OnePlace, [Next]_vars
  PROVE  LogGrows \/ (\E p \in Pid : Signal(p)) \/ Fetch \/ Fetched \/ Subscribe \/ Update
<1>1. UNCHANGED <<task, log, lost, gui, inbox, shown>> => LogGrows
  BY Typed DEF LogGrows
<1>2. TakeReport => UNCHANGED <<task, log, lost, gui, inbox, shown>>
  BY DEF TakeReport, guiVars
<1>3. \A p \in Pid : Lookup(p) \/ Record(p) => LogGrows
  BY LookupGrows, RecordGrows
<1>4. QED
  BY <1>1, <1>2, <1>3, StartGrows, Steps DEF Work

(* A signal is heard, or the client does not listen, or it is lost.           *)
LEMMA SignalDoes ==
  ASSUME TypeOK, OnePlace, NEW p \in Pid, Signal(p)
  PROVE  /\ task[p] = "signal" /\ p \in Range(log) /\ UNCHANGED <<log, gui, shown>>
         /\ task'[p] = "none" /\ \A q \in Pid : q # p => task'[q] = task[q]
         /\ lost \subseteq lost'
         /\ inbox' = inbox => gui.pc # "live" \/ p \in lost'
         /\ inbox' # inbox =>
              /\ gui.pc = "live"
              /\ Len(inbox') = Len(inbox) + 1
              /\ \A m \in 1..Len(inbox) : inbox'[m] = inbox[m]
              /\ inbox'[Len(inbox) + 1].kind = "NewLog" /\ inbox'[Len(inbox) + 1].log = p
         /\ DOMAIN inbox' = 1..Len(inbox')
<1>1. /\ task[p] = "signal" /\ UNCHANGED <<log, gui, shown>>
      /\ task' = [task EXCEPT ![p] = "none"]
  BY DEF Signal
<1>2. PICK e \in [kind : {"FetchedLogs"}, logs : Seq(Pid)] \cup [kind : {"NewLog"}, log : Pid] :
        e = [kind |-> "NewLog", log |-> p]
  OBVIOUS
<1>3. inbox \in Seq([kind : {"FetchedLogs"}, logs : Seq(Pid)] \cup [kind : {"NewLog"}, log : Pid])
  BY DEF TypeOK
<1>4. DOMAIN inbox = 1..Len(inbox) /\ Len(inbox) \in Nat
  BY Typed
<1>5. \/ gui.pc = "live" /\ inbox' = Append(inbox, e) /\ lost' = lost
      \/ gui.pc # "live" /\ inbox' = inbox /\ lost' = lost
      \/ inbox' = inbox /\ lost' = lost \cup {p}
  BY <1>2 DEF Signal
<1>6. lost \subseteq lost'
  BY <1>5
<1>7. inbox' = Append(inbox, e) =>
        /\ Len(inbox') = Len(inbox) + 1 /\ DOMAIN inbox' = 1..(Len(inbox) + 1)
        /\ \A m \in 1..Len(inbox) : inbox'[m] = inbox[m]
        /\ inbox'[Len(inbox) + 1] = e
  BY <1>3, Appended
<1>8. inbox' = inbox => gui.pc # "live" \/ p \in lost'
  <2>1. ASSUME inbox' = Append(inbox, e) PROVE inbox' # inbox
    <3>1. Len(inbox') = Len(inbox) + 1
      BY <1>7, <2>1
    <3>2. PICK n \in Nat : n = Len(inbox)
      BY <1>4
    <3>3. SUFFICES ASSUME inbox' = inbox PROVE FALSE
      OBVIOUS
    <3>4. n = n + 1
      BY Zenon, <3>1, <3>2, <3>3
    <3>5. QED
      BY <3>4
  <2>2. QED
    BY <1>5, <2>1
<1>9. e.kind = "NewLog" /\ e.log = p
  BY <1>2
<1>10. inbox' # inbox =>
         /\ gui.pc = "live"
         /\ Len(inbox') = Len(inbox) + 1
         /\ \A m \in 1..Len(inbox) : inbox'[m] = inbox[m]
         /\ inbox'[Len(inbox) + 1].kind = "NewLog" /\ inbox'[Len(inbox) + 1].log = p
  BY <1>5, <1>7, <1>9
<1>11. task'[p] = "none" /\ \A q \in Pid : q # p => task'[q] = task[q]
  BY <1>1 DEF TypeOK
<1>12. p \in Range(log)
  BY <1>1 DEF OnePlace
<1>13. DOMAIN inbox' = 1..Len(inbox')
  BY <1>4, <1>5, <1>7
<1>14. QED
  BY Zenon, <1>1, <1>6, <1>8, <1>10, <1>11, <1>12, <1>13

(* The reply to the client is the end of the log it was copied from.          *)
LEMMA FetchCopies ==
  ASSUME TypeOK, Fetch
  PROVE  CopiedAtFetch(gui.reply)'
<1>1. gui'.reply = Newest(log, MaxEntries) /\ gui'.fetchedAt = Len(log) /\ UNCHANGED log
  BY FetchDoes DEF daemonVars
<1>2. PICK s \in Seq(Pid) : s = Newest(log, MaxEntries)
  BY Bounds, NewestDrops DEF TypeOK
<1>3. PICK d \in 0..Len(log) :
        /\ Len(s) = Len(log) - d
        /\ d > 0 => Len(log) - d = MaxEntries
        /\ \A j \in 1..(Len(log) - d) : s[j] = log[j + d]
  <2>1. log \in Seq(Pid) /\ MaxEntries \in Nat \ {0}
    BY Bounds DEF TypeOK
  <2>2. QED
    BY Zenon, <1>2, <2>1, NewestDrops
<1>4. Len(s) <= MaxEntries
  BY <1>2, Bounds, NewestDrops DEF TypeOK
<1>5. Len(log) \in Nat /\ Len(s) \in Nat /\ DOMAIN s = 1..Len(s)
  BY Typed, Places
<1>6. Len(s) = IF Len(log) > MaxEntries THEN MaxEntries ELSE Len(log)
  BY <1>3, <1>4, <1>5, Bounds
<1>7. \A j \in DOMAIN s : s[j] = log[Len(log) - Len(s) + j]
  <2>1. \A j \in DOMAIN s : Len(log) - Len(s) + j = j + d /\ j \in 1..(Len(log) - d)
    BY <1>3, <1>5
  <2>2. QED
    BY <1>3, <2>1
<1>8. QED
  BY <1>1, <1>2, <1>6, <1>7 DEF CopiedAtFetch

LEMMA StagesHold == Spec => []Stages
<1>1. Init => Stages
  <2> SUFFICES ASSUME Init PROVE Stages
    OBVIOUS
  <2>1. /\ log = <<>> /\ inbox = <<>> /\ shown = <<>>
        /\ gui.pc = "closed" /\ gui.fetchedAt = 0
    BY DEF Init
  <2>2. Len(log) = 0 /\ DOMAIN inbox = {} /\ 1..0 = {}
    BY <2>1
  <2>3. QED
    BY <2>1, <2>2 DEF Stages
<1>2. TypeOK /\ OnePlace /\ Stages /\ [Next]_vars => Stages'
  <2> SUFFICES ASSUME TypeOK, OnePlace, Stages, [Next]_vars PROVE Stages'
    OBVIOUS
  <2>1. CASE LogGrows
    <3>a. UNCHANGED <<gui, inbox, shown>>
      BY Zenon, <2>1 DEF LogGrows
    <3>b. Len(log') \in {Len(log), Len(log) + 1}
      BY Zenon, <2>1 DEF LogGrows
    <3>c. \A i \in 1..Len(log) : log'[i] = log[i] /\ task'[log[i]] = task[log[i]]
      BY Zenon, <2>1 DEF LogGrows
    <3>d. gui.fetchedAt <= Len(log)
      BY Zenon DEF Stages
    <3>1. PICK n \in Nat : n = gui.fetchedAt
      BY Typed
    <3>2. n <= Len(log) /\ Len(log) <= Len(log') /\ n <= Len(log') /\ 1..n \subseteq 1..Len(log)
      BY <3>b, <3>d, <3>1, Typed
    <3>3. ASSUME NEW s \in Seq(Pid), CopiedAtFetch(s)
          PROVE  CopiedAtFetch(s)'
      <4>1. Len(s) \in Nat /\ DOMAIN s = 1..Len(s) /\ Len(s) <= n
        BY <3>1, <3>3, Bounds, Places DEF CopiedAtFetch
      <4>2. \A j \in DOMAIN s : n - Len(s) + j \in 1..n
        BY <4>1
      <4>3. \A j \in DOMAIN s : s[j] = log'[n - Len(s) + j]
        BY <3>c, <3>1, <3>2, <3>3, <4>2 DEF CopiedAtFetch
      <4>4. QED
        BY <3>a, <3>1, <3>3, <4>3 DEF CopiedAtFetch
    <3>4. gui.pc = "fetching" => CopiedAtFetch(gui.reply)'
      <4>1. PICK s \in Seq(Pid) : s = gui.reply
        BY Typed
      <4>2. gui.pc = "fetching" => CopiedAtFetch(s)
        BY <4>1 DEF Stages
      <4>3. gui.pc = "fetching" => CopiedAtFetch(s)'
        BY <3>3, <4>2
      <4>4. s = gui'.reply
        BY <3>a, <4>1
      <4>5. QED
        BY <4>3, <4>4 DEF CopiedAtFetch
    <3>5. ASSUME NEW m \in DOMAIN inbox, ~News(m)
          PROVE  CopiedAtFetch(inbox[m].logs)'
      <4>1. PICK s \in Seq(Pid) : s = inbox[m].logs
        BY <3>5, MessageTyped
      <4>2. CopiedAtFetch(s)
        BY <3>5, <4>1 DEF Stages
      <4>3. CopiedAtFetch(s)'
        BY <3>3, <4>2
      <4>4. s = inbox'[m].logs
        BY <3>a, <4>1
      <4>5. QED
        BY <4>3, <4>4 DEF CopiedAtFetch
    <3>6. \A i \in 1..n : task'[log'[i]] = task[log[i]] /\ log'[i] = log[i]
      BY <3>c, <3>2
    <3>8. \A m \in DOMAIN inbox : News(m)' <=> News(m)
      BY <3>a DEF News
    <3>9. \A m \in DOMAIN inbox : ~News(m) => m = 1 /\ shown = <<>>
      BY DEF Stages
    <3>10. \A m \in DOMAIN inbox : News(m) => gui.pc = "live"
      BY DEF Stages
    <3>11. \A m \in DOMAIN inbox' :
             IF News(m)' THEN gui'.pc = "live"
                         ELSE m = 1 /\ shown' = <<>> /\ CopiedAtFetch(inbox[m].logs)'
      BY <3>5, <3>a, <3>8, <3>9, <3>10
    <3>12. \A i \in 1..gui'.fetchedAt : task'[log'[i]] = "signal" => log'[i] \in gui'.unsignalled
      BY <3>1, <3>6, <3>a DEF Stages
    <3>13. /\ gui'.fetchedAt <= Len(log')
           /\ gui'.pc = "closed" => gui'.fetchedAt = 0
           /\ gui'.pc \in {"closed", "fetching"} => inbox' = <<>> /\ shown' = <<>>
           /\ gui'.pc = "fetching" => CopiedAtFetch(gui.reply)'
      BY <3>1, <3>2, <3>4, <3>a DEF Stages
    <3>14. QED
      BY <3>11, <3>12, <3>13 DEF Stages
  <2>2. ASSUME NEW p \in Pid, Signal(p) PROVE Stages'
    <3>1. UNCHANGED <<log, gui, shown>>
      BY <2>2, SignalDoes
    <3>2. \A i \in 1..gui.fetchedAt : task'[log[i]] = "signal" => task[log[i]] = "signal"
      <4>1. \A i \in 1..gui.fetchedAt : log[i] \in Pid
        BY Typed DEF Stages
      <4>2. QED
        BY <2>2, <4>1, SignalDoes
    <3>3. CASE inbox' # inbox
      <4>1. \A m \in DOMAIN inbox' : m \in DOMAIN inbox \/ m = Len(inbox) + 1
        BY <2>2, <3>3, SignalDoes, Typed
      <4>2. \A m \in DOMAIN inbox : inbox'[m] = inbox[m]
        BY <2>2, <3>3, SignalDoes, Typed
      <4>3. \A m \in DOMAIN inbox' : 
              News(m)' \/ (m \in DOMAIN inbox /\ inbox'[m] = inbox[m] /\ ~News(m))
        <5>1. inbox'[Len(inbox) + 1].kind = "NewLog"
          BY <2>2, <3>3, SignalDoes
        <5>2. QED
          BY <4>1, <4>2, <5>1 DEF News
      <4>4. gui.pc = "live"
        BY <2>2, <3>3, SignalDoes
      <4>5. QED
        BY <3>1, <3>2, <4>3, <4>4 DEF Stages, CopiedAtFetch
    <3>4. CASE inbox' = inbox
      <4>1. QED
        BY <3>1, <3>2, <3>4 DEF Stages, CopiedAtFetch, News
    <3>5. QED
      BY <3>3, <3>4
  <2>3. CASE Fetch
    <3>1. /\ UNCHANGED <<log, task, inbox, shown>> /\ gui.pc = "closed"
          /\ gui'.pc = "fetching" /\ gui'.fetchedAt = Len(log)
          /\ gui'.unsignalled = {p \in Pid : task[p] = "signal"}
      BY <2>3, FetchDoes DEF daemonVars
    <3>2. inbox = <<>> /\ shown = <<>> /\ DOMAIN inbox = {}
      BY <3>1, Typed DEF Stages
    <3>3. \A i \in 1..Len(log) : log[i] \in Pid
      BY Typed
    <3>4. Len(log) <= Len(log)
      BY Typed
    <3>5. CopiedAtFetch(gui.reply)'
      BY <2>3, FetchCopies
    <3>6. QED
      BY <3>1, <3>2, <3>3, <3>4, <3>5 DEF Stages
  <2>4. CASE Fetched
    <3>1. /\ UNCHANGED <<log, task, shown>> /\ gui.pc = "fetching"
          /\ gui'.pc = "fetched" /\ gui'.fetchedAt = gui.fetchedAt
          /\ gui'.unsignalled = gui.unsignalled
      BY <2>4, FetchedDoes DEF daemonVars
    <3>2. inbox = <<>> /\ shown = <<>> /\ CopiedAtFetch(gui.reply) /\ DOMAIN inbox = {}
      BY <3>1 DEF Stages
    <3>3. \A m \in DOMAIN inbox' :
            m = 1 /\ inbox'[m].kind = "FetchedLogs" /\ inbox'[m].logs = gui.reply
      <4>1. PICK e : e = [kind |-> "FetchedLogs", logs |-> gui.reply]
        OBVIOUS
      <4>2. inbox' = <<>> \/ inbox' = <<e>>
        BY <2>4, <3>2, <4>1, FetchedDoes
      <4>3. QED
        BY <4>1, <4>2
    <3>4. \A m \in DOMAIN inbox' : m = 1 /\ ~News(m)' /\ CopiedAtFetch(inbox[m].logs)'
      BY <3>1, <3>2, <3>3 DEF News, CopiedAtFetch
    <3>5. QED
      BY <3>1, <3>2, <3>4 DEF Stages
  <2>5. CASE Subscribe
    <3>1. /\ UNCHANGED <<log, task, inbox, shown>> /\ gui.pc = "fetched"
          /\ gui'.pc = "live" /\ gui'.fetchedAt = gui.fetchedAt
          /\ gui'.unsignalled = gui.unsignalled
      BY <2>5, SubscribeDoes DEF daemonVars
    <3>2. QED
      BY <3>1 DEF Stages, CopiedAtFetch, News
  <2>6. CASE Update
    <3>1. UNCHANGED <<log, task, gui>>
      BY <2>6, UpdateDoes DEF daemonVars
    <3>2. inbox # <<>>
      BY <2>6 DEF Update
    <3>3. gui.pc \notin {"closed", "fetching"}
      BY <3>2 DEF Stages
    <3>4. \A m \in DOMAIN inbox' : m + 1 \in DOMAIN inbox /\ inbox'[m] = inbox[m + 1] /\ m + 1 # 1
      <4>1. /\ Len(inbox) \in Nat /\ DOMAIN inbox = 1..Len(inbox)
            /\ DOMAIN inbox' = 1..(Len(inbox) - 1)
            /\ \A m \in 1..(Len(inbox) - 1) : inbox'[m] = inbox[m + 1]
        BY <2>6, UpdateDoes, Typed
      <4>2. QED
        BY <4>1
    <3>5. \A m \in DOMAIN inbox' : News(m)' /\ gui.pc = "live"
      BY <3>4 DEF Stages, News
    <3>6. QED
      BY <3>1, <3>3, <3>5 DEF Stages
  <2>7. QED
    BY <2>1, <2>2, <2>3, <2>4, <2>5, <2>6, GrowsOr
<1>3. QED
  BY <1>1, <1>2, TypeHolds, PlaceHolds, PTL DEF Spec
(***************************************************************************)
(* What is listed                                                          *)
(***************************************************************************)

LEMMA ToldStays ==
  ASSUME TypeOK, OnePlace, Stages, LogGrows, NEW q \in Pid, Told(q)
  PROVE  Told(q)'
<1>1. UNCHANGED gui
  BY Zenon DEF LogGrows
<1>2. \A i \in 1..Len(log) : log'[i] = log[i] /\ task'[log[i]] = task[log[i]]
  BY Zenon DEF LogGrows
<1>3. DOMAIN log' = 1..Len(log')
  BY Zenon DEF LogGrows
<1>a. Len(log') \in {Len(log), Len(log) + 1}
  BY Zenon DEF LogGrows
<1>4. PICK i \in 1..Len(log) : log[i] = q
  BY Typed DEF Told, Range
<1>5. i \in DOMAIN log' /\ log'[i] = q /\ task'[q] = task[q]
  <2>1. Len(log) \in Nat
    BY Typed
  <2>2. Len(log') \in Nat /\ i \in 1..Len(log')
    BY <1>a, <2>1
  <2>3. QED
    BY <1>2, <1>3, <1>4, <2>2
<1>6. q \in Range(log') /\ task'[q] = "none"
  BY <1>5 DEF Told, Range
<1>7. 1..gui.fetchedAt \subseteq 1..Len(log)
  BY Typed DEF Stages
<1>8. \A k \in 1..gui.fetchedAt : log'[k] = q => q \in gui.unsignalled
  BY <1>2, <1>7 DEF Told
<1>9. QED
  BY <1>1, <1>6, <1>8 DEF Told

LEMMA ToldOutlives ==
  ASSUME TypeOK, OnePlace, Stages, NEW p \in Pid, Signal(p), NEW q \in Pid, Told(q) \/ q = p
  PROVE  Told(q)'
<1>1. UNCHANGED <<log, gui>> /\ task[p] = "signal" /\ p \in Range(log)
  BY SignalDoes
<1>2. task'[q] = "none"
  BY SignalDoes DEF Told
<1>3. q = p => \A i \in 1..gui.fetchedAt : log[i] = q => q \in gui.unsignalled
  BY <1>1 DEF Stages
<1>4. QED
  BY <1>1, <1>2, <1>3 DEF Told

LEMMA ListingHolds == Spec => []Listing
<1>1. Init => Listing
  <2> SUFFICES ASSUME Init PROVE Listing
    OBVIOUS
  <2>1. inbox = <<>> /\ shown = <<>>
    BY DEF Init
  <2>2. Len(shown) = 0 /\ DOMAIN inbox = {} /\ 1..0 = {} /\ (0 + 1)..0 = {} /\ 0 \in 0..0
    BY <2>1
  <2>3. ListedFrom(0)
    BY <2>2 DEF ListedFrom
  <2>4. QED
    BY <2>2, <2>3 DEF Listing
<1>2. TypeOK /\ OnePlace /\ Stages /\ Listing /\ [Next]_vars => Listing'
  <2> SUFFICES ASSUME TypeOK, OnePlace, Stages, Listing, [Next]_vars PROVE Listing'
    OBVIOUS
  <2>1. PICK n \in 0..Len(shown) : ListedFrom(n)
    BY DEF Listing
  <2>2. n \in Nat /\ n <= Len(shown) /\ \A i \in DOMAIN shown : shown[i] \in Pid
    BY <2>1, Typed, Places DEF TypeOK
  <2>3. \A i \in (n + 1)..Len(shown) : i \in DOMAIN shown
    BY <2>1, Typed
  <2>4. CASE LogGrows
    <3>1. UNCHANGED <<gui, inbox, shown>>
      BY Zenon, <2>4 DEF LogGrows
    <3>2. \A i \in 1..Len(log) : log'[i] = log[i]
      BY Zenon, <2>4 DEF LogGrows
    <3>3. 1..gui.fetchedAt \subseteq 1..Len(log)
      BY Typed DEF Stages
    <3>4. \A i \in 1..n : \E k \in 1..gui.fetchedAt : shown[i] = log'[k]
      BY SMTT(30), <2>1, <3>2, <3>3 DEF ListedFrom
    <3>5. \A q \in Pid : Told(q) => Told(q)'
      BY <2>4, ToldStays
    <3>6. \A i \in (n + 1)..Len(shown) : Told(shown[i])'
      <4>1. ASSUME NEW i \in (n + 1)..Len(shown) PROVE Told(shown[i])'
        <5>1. PICK q \in Pid : q = shown[i]
          BY <2>2, <2>3
        <5>2. Told(q)
          BY <2>1, <5>1 DEF ListedFrom
        <5>3. Told(q)'
          BY <3>5, <5>2
        <5>4. q = shown'[i]
          BY <3>1, <5>1
        <5>5. QED
          BY <5>3, <5>4 DEF Told
      <4>2. QED
        BY <4>1
    <3>7. ASSUME NEW m \in DOMAIN inbox, News(m) PROVE Told(inbox[m].log)'
      <4>1. PICK q \in Pid : q = inbox[m].log
        BY <3>7, MessageTyped
      <4>2. Told(q)
        BY <2>1, <3>7, <4>1 DEF ListedFrom
      <4>3. Told(q)'
        BY <3>5, <4>2
      <4>4. q = inbox'[m].log
        BY <3>1, <4>1
      <4>5. QED
        BY <4>3, <4>4 DEF Told
    <3>8. ListedFrom(n)'
      BY <2>1, <3>1, <3>4, <3>6, <3>7 DEF ListedFrom, News
    <3>9. QED
      BY <2>1, <3>1, <3>8 DEF Listing
  <2>5. ASSUME NEW p \in Pid, Signal(p) PROVE Listing'
    <3>1. UNCHANGED <<log, gui, shown>> /\ task[p] = "signal"
      BY <2>5, SignalDoes
    <3>2. \A q \in Pid : Told(q) \/ q = p => Told(q)'
      BY <2>5, ToldOutlives
    <3>3. ~Told(p)
      BY <3>1 DEF Told
    <3>4. ASSUME NEW i \in (n + 1)..Len(shown) PROVE Told(shown[i])' /\ shown[i] # p
      <4>1. PICK q \in Pid : q = shown[i]
        BY <2>2, <2>3
      <4>2. Told(q)
        BY <2>1, <4>1 DEF ListedFrom
      <4>3. Told(q)' /\ q # p
        BY <3>2, <3>3, <4>2
      <4>4. q = shown'[i]
        BY <3>1, <4>1
      <4>5. QED
        BY <4>1, <4>3, <4>4 DEF Told
    <3>5. \A m \in DOMAIN inbox' : News(m)' =>
            \/ m \in DOMAIN inbox /\ News(m) /\ inbox'[m] = inbox[m]
            \/ inbox'[m].log = p /\ m = Len(inbox) + 1 /\ gui.pc = "live"
      <4>1. Len(inbox) \in Nat /\ DOMAIN inbox = 1..Len(inbox)
        BY Typed
      <4>2. CASE inbox' # inbox
        <5>1. /\ DOMAIN inbox' = 1..(Len(inbox) + 1) /\ inbox'[Len(inbox) + 1].log = p
              /\ gui.pc = "live" /\ \A m \in 1..Len(inbox) : inbox'[m] = inbox[m]
          BY <2>5, <4>2, SignalDoes
        <5>2. \A m \in DOMAIN inbox' : m \in DOMAIN inbox \/ m = Len(inbox) + 1
          BY <4>1, <5>1
        <5>3. QED
          BY <4>1, <5>1, <5>2 DEF News
      <4>3. CASE inbox' = inbox
        <5>1. QED
          BY <4>3 DEF News
      <4>4. QED
        BY <4>2, <4>3
    <3>6. ASSUME NEW m \in DOMAIN inbox, News(m)
          PROVE  inbox[m].log # p /\ \A q : q = inbox[m].log => Told(q)'
      <4>1. PICK q \in Pid : q = inbox[m].log
        BY <3>6, MessageTyped
      <4>2. Told(q)
        BY <2>1, <3>6, <4>1 DEF ListedFrom
      <4>3. Told(q)' /\ q # p
        BY <3>2, <3>3, <4>2
      <4>4. QED
        BY <4>1, <4>3
    <3>7. ASSUME NEW m \in DOMAIN inbox', News(m)' PROVE Told(inbox[m].log)'
      <4>1. PICK q : q = inbox'[m].log
        OBVIOUS
      <4>2. Told(q)'
        BY <3>2, <3>5, <3>6, <3>7, <4>1
      <4>3. QED
        BY <4>1, <4>2 DEF Told
    <3>8. \A m \in DOMAIN inbox' : News(m)' => \A i \in (n + 1)..Len(shown) : shown[i] # inbox'[m].log
      <4>1. \A m \in DOMAIN inbox : News(m) => \A i \in (n + 1)..Len(shown) : shown[i] # inbox[m].log
        BY <2>1 DEF ListedFrom
      <4>2. QED
        BY <3>4, <3>5, <4>1
    <3>9. \A l, m \in DOMAIN inbox' :
            News(l)' /\ News(m)' /\ inbox'[l].log = inbox'[m].log => l = m
      <4>1. \A l, m \in DOMAIN inbox : News(l) /\ News(m) /\ inbox[l].log = inbox[m].log => l = m
        BY <2>1 DEF ListedFrom
      <4>2. \A m \in DOMAIN inbox : News(m) => inbox[m].log # p
        BY <3>6
      <4>3. QED
        BY <3>5, <4>1, <4>2
    <3>10. ListedFrom(n)'
      BY <2>1, <3>1, <3>4, <3>7, <3>8, <3>9 DEF ListedFrom
    <3>11. QED
      BY <2>1, <3>1, <3>10 DEF Listing
  <2>6. CASE Fetch \/ Fetched
    <3>1. gui.pc \in {"closed", "fetching"} /\ UNCHANGED shown
      BY <2>6, FetchDoes, FetchedDoes
    <3>2. inbox = <<>> /\ shown' = <<>>
      BY <3>1 DEF Stages
    <3>3. \A m \in DOMAIN inbox' : ~News(m)'
      <4>1. CASE Fetch
        BY <3>2, <4>1, FetchDoes
      <4>2. CASE Fetched
        <5>1. PICK e : e = [kind |-> "FetchedLogs", logs |-> gui.reply]
          OBVIOUS
        <5>2. inbox' = <<>> \/ inbox' = <<e>>
          BY <3>2, <4>2, <5>1, FetchedDoes
        <5>3. \A m \in DOMAIN inbox' : inbox'[m].kind = "FetchedLogs"
          BY <5>1, <5>2
        <5>4. QED
          BY <5>3 DEF News
      <4>3. QED
        BY <2>6, <4>1, <4>2
    <3>4. Len(shown') = 0 /\ 1..0 = {} /\ (0 + 1)..0 = {} /\ 0 \in 0..0
      BY <3>2
    <3>5. ListedFrom(0)'
      BY <3>3, <3>4 DEF ListedFrom
    <3>6. QED
      BY <3>4, <3>5 DEF Listing
  <2>7. CASE Subscribe
    <3>1. UNCHANGED <<log, task, inbox, shown>> /\ gui'.fetchedAt = gui.fetchedAt
          /\ gui'.unsignalled = gui.unsignalled
      BY <2>7, SubscribeDoes DEF daemonVars
    <3>2. ListedFrom(n)'
      BY <2>1, <3>1 DEF ListedFrom, Told, News
    <3>3. QED
      BY <2>1, <3>1, <3>2 DEF Listing
  <2>8. CASE Update
    <3>1. UNCHANGED <<log, task, gui>> /\ \A q : Told(q)' <=> Told(q)
      BY <2>8, UpdateDoes DEF daemonVars, Told
    <3>2. /\ Len(inbox) \in Nat /\ DOMAIN inbox = 1..Len(inbox) /\ 1 \in DOMAIN inbox
          /\ DOMAIN inbox' = 1..(Len(inbox) - 1)
          /\ \A m \in 1..(Len(inbox) - 1) : inbox'[m] = inbox[m + 1]
      BY <2>8, UpdateDoes, Typed
    <3>3. \A m \in DOMAIN inbox' : m + 1 \in DOMAIN inbox /\ inbox'[m] = inbox[m + 1] /\ m + 1 # 1
      BY <3>2
    <3>4. Len(shown') \in Nat /\ DOMAIN shown' = 1..Len(shown')
      BY <2>8, UpdateDoes, Places
    <3>5. \A m \in DOMAIN inbox' : News(m)' <=> News(m + 1)
      BY <3>3 DEF News
    <3>6. /\ \A m \in DOMAIN inbox' : News(m)' => Told(inbox'[m].log)
          /\ \A l, m \in DOMAIN inbox' :
               News(l)' /\ News(m)' /\ inbox'[l].log = inbox'[m].log => l = m
      <4>1. \A m \in DOMAIN inbox : News(m) => Told(inbox[m].log)
        BY <2>1 DEF ListedFrom
      <4>2. \A l, m \in DOMAIN inbox : News(l) /\ News(m) /\ inbox[l].log = inbox[m].log => l = m
        BY <2>1 DEF ListedFrom
      <4>3. \A l, m \in DOMAIN inbox' : l + 1 = m + 1 => l = m
        BY <3>2
      <4>4. QED
        BY <3>3, <3>5, <4>1, <4>2, <4>3
    <3>7. CASE ~News(1)
      <4>1. CopiedAtFetch(inbox[1].logs) /\ inbox[1].logs \in Seq(Pid)
        BY <3>2, <3>7, MessageTyped DEF Stages
      <4>2. PICK s \in Seq(Pid) : s = inbox[1].logs
        BY <4>1
      <4>3. PICK d \in 0..Len(s) :
              Len(shown') = Len(s) - d /\ \A j \in 1..Len(shown') : shown'[j] = s[j + d]
        BY <2>8, <3>7, <4>2, UpdateDoes
      <4>4. /\ Len(s) \in Nat /\ DOMAIN s = 1..Len(s) /\ Len(s) <= gui.fetchedAt
            /\ \A j \in DOMAIN s : s[j] = log[gui.fetchedAt - Len(s) + j]
        BY <4>1, <4>2, Bounds, Places, Typed, SMTT(30) DEF CopiedAtFetch
      <4>5. \A j \in 1..Len(shown') :
              /\ gui.fetchedAt - Len(s) + (j + d) \in 1..gui.fetchedAt
              /\ j + d \in DOMAIN s
        BY <3>4, <4>3, <4>4, Typed, SMTT(30)
      <4>6. \A j \in 1..Len(shown') : shown'[j] = log[gui.fetchedAt - Len(s) + (j + d)]
        BY <4>3, <4>4, <4>5
      <4>7. 1..gui.fetchedAt \subseteq DOMAIN log
        BY Typed DEF Stages
      <4>8. \A i, j \in 1..Len(shown') : shown'[i] = shown'[j] => i = j
        <5>1. ASSUME NEW i \in 1..Len(shown'), NEW j \in 1..Len(shown'), shown'[i] = shown'[j]
              PROVE  i = j
          <6>1. PICK a \in DOMAIN log, b \in DOMAIN log :
                  /\ a = gui.fetchedAt - Len(s) + (i + d)
                  /\ b = gui.fetchedAt - Len(s) + (j + d)
            BY <4>5, <4>7
          <6>2. log[a] = log[b]
            BY <4>6, <5>1, <6>1
          <6>3. a = b
            BY <6>2 DEF OnePlace
          <6>4. i \in Nat /\ j \in Nat /\ d \in Nat /\ gui.fetchedAt \in Nat
            BY <3>4, <4>4, Typed
          <6>5. QED
            BY <4>4, <6>1, <6>3, <6>4
        <5>2. QED
          BY <5>1
      <4>9. \A i \in 1..Len(shown') : \E k \in 1..gui.fetchedAt : shown'[i] = log[k]
        <5>1. ASSUME NEW i \in 1..Len(shown') PROVE \E k \in 1..gui.fetchedAt : shown'[i] = log[k]
          <6>1. PICK k \in 1..gui.fetchedAt : k = gui.fetchedAt - Len(s) + (i + d)
            BY <4>5
          <6>2. QED
            BY <4>6, <6>1
        <5>2. QED
          BY <5>1
      <4>10. PICK k \in 0..Len(shown') : k = Len(shown')
        <5>1. Len(shown') \in 0..Len(shown')
          BY <3>4
        <5>2. QED
          BY Zenon, <5>1
      <4>11. (k + 1)..Len(shown') = {}
        BY <3>4, <4>10
      <4>12. ListedFrom(k)'
        BY <3>1, <3>6, <4>8, <4>9, <4>10, <4>11 DEF ListedFrom
      <4>13. QED
        BY <4>10, <4>12 DEF Listing
    <3>8. CASE News(1)
      <4>1. PICK d \in 0..1 :
              /\ Len(shown') = Len(shown) + 1 - d
              /\ d = 1 => Len(shown') = MaxGuiEntries
              /\ shown'[Len(shown')] = inbox[1].log
              /\ \A j \in 1..(Len(shown') - 1) : j + d \in 1..Len(shown) /\ shown'[j] = shown[j + d]
        BY <2>8, <3>8, UpdateDoes
      <4>a. d = 0 \/ d = 1
        BY <4>1
      <4>b. (IF n >= d THEN n - d ELSE 0) \in Nat
        BY <2>2, <4>a
      <4>2. PICK k \in Nat : k = IF n >= d THEN n - d ELSE 0
        BY <4>b
      <4>3. k \in 0..Len(shown') /\ k <= Len(shown') - 1
        <5>1. Len(shown) \in Nat /\ Len(shown') \in Nat /\ Len(shown') = Len(shown) + 1 - d
          BY <3>4, <4>1, Typed
        <5>2. k <= Len(shown') - 1
          BY <2>2, <4>1, <4>a, <4>2, <5>1, Bounds
        <5>3. QED
          BY <5>1, <5>2
      <4>4. \A i \in 1..k : i \in 1..(Len(shown') - 1) /\ i + d \in 1..n /\ shown'[i] = shown[i + d]
        BY <2>2, <3>4, <4>1, <4>2, <4>3, Typed
      <4>5. \A i \in (k + 1)..Len(shown') :
              \/ i = Len(shown') /\ shown'[i] = inbox[1].log
              \/ i # Len(shown') /\ i + d \in (n + 1)..Len(shown) /\ shown'[i] = shown[i + d]
        <5>1. \A i \in (k + 1)..Len(shown') :
                i # Len(shown') => i \in 1..(Len(shown') - 1) /\ i + d >= n + 1
          BY <2>2, <3>4, <4>1, <4>2
        <5>2. QED
          BY SMTT(30), <2>2, <4>1, <5>1, Typed
      <4>6. \A i, j \in 1..k : shown'[i] = shown'[j] => i = j
        <5>1. \A i, j \in 1..n : shown[i] = shown[j] => i = j
          BY <2>1 DEF ListedFrom
        <5>2. \A i, j \in 1..k : i + d = j + d => i = j
          BY <4>1, <4>2
        <5>3. QED
          BY <4>4, <5>1, <5>2
      <4>7. \A i \in 1..k : \E l \in 1..gui.fetchedAt : shown'[i] = log[l]
        BY <2>1, <4>4 DEF ListedFrom
      <4>8. /\ \A i, j \in (n + 1)..Len(shown) : shown[i] = shown[j] => i = j
            /\ \A i \in (n + 1)..Len(shown) : Told(shown[i]) /\ shown[i] # inbox[1].log
            /\ Told(inbox[1].log)
        BY <2>1, <3>2, <3>8 DEF ListedFrom
      <4>9. \A i, j \in (k + 1)..Len(shown') : shown'[i] = shown'[j] => i = j
        <5>1. \A i, j \in (k + 1)..Len(shown') : i + d = j + d => i = j
          BY <4>1, <4>2
        <5>2. QED
          BY <4>5, <4>8, <5>1
      <4>10. \A i \in (k + 1)..Len(shown') : Told(shown'[i])
        BY <4>5, <4>8
      <4>11. \A m \in DOMAIN inbox' : News(m)' =>
               \A i \in (k + 1)..Len(shown') : shown'[i] # inbox'[m].log
        <5>1. \A m \in DOMAIN inbox : News(m) /\ m # 1 =>
                /\ inbox[m].log # inbox[1].log
                /\ \A i \in (n + 1)..Len(shown) : shown[i] # inbox[m].log
          BY <2>1, <3>2, <3>8 DEF ListedFrom
        <5>2. QED
          BY <3>3, <3>5, <4>5, <5>1
      <4>12. ListedFrom(k)'
        BY <3>1, <3>6, <4>6, <4>7, <4>9, <4>10, <4>11 DEF ListedFrom
      <4>13. QED
        BY <4>3, <4>12 DEF Listing
    <3>9. QED
      BY <3>7, <3>8
  <2>9. QED
    BY <2>4, <2>5, <2>6, <2>7, <2>8, GrowsOr
<1>3. QED
  BY <1>1, <1>2, TypeHolds, PlaceHolds, StagesHold, PTL DEF Spec

(***************************************************************************)
(* What must be listed                                                     *)
(***************************************************************************)

(* What the client is to list, it was to list before the log grew.            *)
LEMMA DueStays ==
  ASSUME TypeOK, Stages, LogGrows, NEW i \in DOMAIN log', Due(i)'
  PROVE  i \in 1..Len(log) /\ log'[i] = log[i] /\ Due(i)
<1>1. UNCHANGED <<gui, lost>>
  BY Zenon DEF LogGrows
<1>2. \A k \in 1..Len(log) : log'[k] = log[k] /\ task'[log[k]] = task[log[k]]
  BY Zenon DEF LogGrows
<1>3. \A k \in DOMAIN log' : k > Len(log) => task'[log'[k]] = "signal"
  BY Zenon DEF LogGrows
<1>4. DOMAIN log' = 1..Len(log')
  BY Zenon DEF LogGrows
<1>5. gui.fetchedAt \in Nat /\ gui.fetchedAt <= Len(log) /\ Len(log) \in Nat
  BY Typed DEF Stages
<1>6. i > Len(log) => ~Due(i)'
  BY <1>1, <1>3, <1>5 DEF Due
<1>7. i \in Nat /\ i >= 1
  BY <1>4
<1>8. i \in 1..Len(log)
  BY <1>5, <1>6, <1>7
<1>9. QED
  BY <1>1, <1>2, <1>8 DEF Due

(* What the fetched messages and the signals in the inbox are after the reply *)
(* to the client arrived.                                                    *)
LEMMA FetchedComesFirst ==
  ASSUME TypeOK, Stages, Fetched, NEW i \in DOMAIN log, Due(i)'
  PROVE  /\ FetchedComes' /\ Len(inbox') = 1 /\ inbox'[1].logs = gui.reply
         /\ gui.fetchedAt - Len(gui.reply) < i /\ i <= gui.fetchedAt
         /\ gui.reply # <<>>
<1>1. /\ UNCHANGED <<log, task, shown>> /\ gui.pc = "fetching"
      /\ gui'.pc = "fetched" /\ gui'.fetchedAt = gui.fetchedAt
  BY FetchedDoes DEF daemonVars
<1>2. inbox = <<>> /\ CopiedAtFetch(gui.reply)
  BY <1>1 DEF Stages
<1>3. i \in (gui.fetchedAt - MaxEntries + 1)..gui.fetchedAt
  BY <1>1 DEF Due
<1>4. PICK s \in Seq(Pid) : s = gui.reply
  BY Typed
<1>5. Len(s) = IF gui.fetchedAt > MaxEntries THEN MaxEntries ELSE gui.fetchedAt
  BY <1>2, <1>4 DEF CopiedAtFetch
<1>6. i \in Nat /\ i >= 1 /\ gui.fetchedAt \in Nat /\ MaxEntries \in Nat
  BY Typed, Bounds
<1>7. gui.fetchedAt - Len(s) < i /\ i <= gui.fetchedAt /\ Len(s) > 0
  BY <1>3, <1>5, <1>6, Bounds
<1>8. s # <<>>
  BY <1>7, Places
<1>9. PICK e : e = [kind |-> "FetchedLogs", logs |-> s]
  OBVIOUS
<1>10. inbox' = <<e>>
  BY <1>2, <1>4, <1>8, <1>9, FetchedDoes
<1>11. Len(inbox') = 1 /\ inbox'[1] = e /\ inbox' # <<>>
  BY <1>10
<1>12. e.kind # "NewLog" /\ e.logs = s
  BY <1>9
<1>13. QED
  BY <1>4, <1>7, <1>8, <1>11, <1>12 DEF FetchedComes, News

LEMMA ReachesHolds == Spec => []Reaches
<1>1. Init => Reaches
  <2>1. Init => DOMAIN log = {}
    BY DEF Init
  <2>2. QED
    BY <2>1 DEF Reaches
<1>2. TypeOK /\ OnePlace /\ Stages /\ Reaches /\ [Next]_vars => Reaches'
  <2> SUFFICES ASSUME TypeOK, OnePlace, Stages, Reaches, [Next]_vars PROVE Reaches'
    OBVIOUS
  <2> DEFINE Comes(q) == \/ Len(shown) = MaxGuiEntries
                         \/ \E k \in DOMAIN shown : shown[k] = q
                         \/ \E m \in DOMAIN inbox : News(m) /\ inbox[m].log = q
                         \/ FetchedComes /\ \E j \in DOMAIN inbox[1].logs : inbox[1].logs[j] = q
  <2>a. \A i \in DOMAIN log : Due(i) => Comes(log[i])
    BY DEF Reaches
  <2>b. (\A i \in DOMAIN log' : Due(i)' => \E q \in Pid : q = log'[i] /\ Comes(q)') => Reaches'
    BY DEF Reaches
  <2>1. CASE LogGrows
    <3>1. UNCHANGED <<inbox, shown>>
      BY Zenon, <2>1 DEF LogGrows
    <3>2. \A q : Comes(q)' <=> Comes(q)
      BY <3>1 DEF FetchedComes, News
    <3>3. \A i \in DOMAIN log' : Due(i)' => i \in DOMAIN log /\ log'[i] = log[i] /\ Due(i)
      BY <2>1, DueStays, Typed
    <3>4. \A i \in DOMAIN log : log[i] \in Pid
      BY Typed
    <3> HIDE DEF Comes
    <3>5. QED
      BY <2>a, <2>b, <3>2, <3>3, <3>4
  <2>2. ASSUME NEW p \in Pid, Signal(p) PROVE Reaches'
    <3>1. UNCHANGED <<log, gui, shown>>
      BY <2>2, SignalDoes
    <3>2. \A i \in DOMAIN log : log[i] \in Pid
      BY Typed
    <3>3. \A i \in DOMAIN log : Due(i)' => Due(i) \/ (log[i] = p /\ gui.pc = "live" /\ p \notin lost')
      BY <2>2, <3>1, <3>2, SignalDoes DEF Due
    <3>4. CASE inbox' # inbox
      <4>1. /\ DOMAIN inbox = 1..Len(inbox) /\ Len(inbox) \in Nat
            /\ DOMAIN inbox' = 1..(Len(inbox) + 1)
            /\ inbox'[Len(inbox) + 1].kind = "NewLog" /\ inbox'[Len(inbox) + 1].log = p
            /\ \A m \in DOMAIN inbox : inbox'[m] = inbox[m]
        BY <2>2, <3>4, SignalDoes, Typed
      <4>2. /\ Len(inbox) + 1 \in DOMAIN inbox' /\ \A m \in DOMAIN inbox : m \in DOMAIN inbox'
            /\ inbox # <<>> => 1 \in DOMAIN inbox
        BY <4>1, Typed
      <4>3. Comes(p)'
        BY <4>1, <4>2 DEF News
      <4>4. FetchedComes => FetchedComes' /\ inbox'[1] = inbox[1]
        BY <4>1, <4>2 DEF FetchedComes, News
      <4>5. \A q \in Pid : Comes(q) => Comes(q)'
        BY <3>1, <4>1, <4>2, <4>4 DEF News
      <4> HIDE DEF Comes
      <4>6. QED
        BY <2>a, <2>b, <3>1, <3>2, <3>3, <4>3, <4>5
    <3>5. CASE inbox' = inbox
      <4>1. gui.pc # "live" \/ p \in lost'
        BY <2>2, <3>5, SignalDoes
      <4>2. \A q : Comes(q)' <=> Comes(q)
        BY <3>1, <3>5 DEF FetchedComes, News
      <4> HIDE DEF Comes
      <4>3. QED
        BY <2>a, <2>b, <3>1, <3>2, <3>3, <4>1, <4>2
    <3>6. QED
      BY <3>4, <3>5
  <2>3. CASE Fetch
    <3>1. gui'.pc = "fetching"
      BY <2>3, FetchDoes
    <3>2. QED
      BY <3>1 DEF Reaches, Due
  <2>4. CASE Fetched
    <3>1. UNCHANGED <<log, task, shown>> /\ gui.pc = "fetching"
      BY <2>4, FetchedDoes DEF daemonVars
    <3>2. ASSUME NEW i \in DOMAIN log, Due(i)' PROVE Comes(log[i])'
      <4>1. /\ FetchedComes' /\ inbox'[1].logs = gui.reply
            /\ gui.fetchedAt - Len(gui.reply) < i /\ i <= gui.fetchedAt
        BY <2>4, <3>2, FetchedComesFirst
      <4>2. PICK s \in Seq(Pid) : s = gui.reply
        BY Typed
      <4>3. \A j \in DOMAIN s : s[j] = log[gui.fetchedAt - Len(s) + j]
        BY <3>1, <4>2 DEF Stages, CopiedAtFetch
      <4>4. PICK j \in Int : j = i - (gui.fetchedAt - Len(s))
        BY Typed, Places
      <4>5. j \in DOMAIN s /\ gui.fetchedAt - Len(s) + j = i
        <5>1. gui.fetchedAt \in Nat /\ Len(s) \in Nat /\ DOMAIN s = 1..Len(s) /\ i \in Nat
          BY Typed, Places
        <5>2. QED
          BY <4>1, <4>2, <4>4, <5>1
      <4>6. s[j] = log'[i] /\ inbox'[1].logs = s
        BY <3>1, <4>1, <4>2, <4>3, <4>5
      <4>7. QED
        BY <4>1, <4>5, <4>6
    <3>3. \A i \in DOMAIN log : log[i] \in Pid
      BY Typed
    <3> HIDE DEF Comes
    <3>4. QED
      BY <2>b, <3>1, <3>2, <3>3
  <2>5. CASE Subscribe
    <3>1. /\ UNCHANGED <<log, task, inbox, shown>> /\ gui.pc = "fetched"
          /\ gui'.fetchedAt = gui.fetchedAt /\ gui'.subscribedAt = Len(log)
      BY <2>5, SubscribeDoes DEF daemonVars
    <3>2. \A i \in DOMAIN log : Due(i)' => Due(i)
      BY <3>1, Typed DEF Due
    <3>3. \A q : Comes(q)' <=> Comes(q)
      BY <3>1 DEF FetchedComes, News
    <3>4. \A i \in DOMAIN log : log[i] \in Pid
      BY Typed
    <3> HIDE DEF Comes
    <3>5. QED
      BY <2>a, <2>b, <3>1, <3>2, <3>3, <3>4
  <2>6. CASE Update
    <3>1. UNCHANGED <<log, task, gui>> /\ \A i : Due(i)' <=> Due(i)
      BY <2>6, UpdateDoes DEF daemonVars, Due
    <3>2. /\ Len(inbox) \in Nat /\ DOMAIN inbox = 1..Len(inbox) /\ 1 \in DOMAIN inbox
          /\ DOMAIN inbox' = 1..(Len(inbox) - 1)
          /\ \A m \in 1..(Len(inbox) - 1) : inbox'[m] = inbox[m + 1]
      BY <2>6, UpdateDoes, Typed
    <3>3. \A m \in DOMAIN inbox : m # 1 => m - 1 \in DOMAIN inbox' /\ inbox'[m - 1] = inbox[m]
      BY <3>2
    <3>4. /\ Len(shown') \in Nat /\ DOMAIN shown' = 1..Len(shown')
          /\ Len(shown) \in Nat /\ DOMAIN shown = 1..Len(shown) /\ Len(shown) <= MaxGuiEntries
          /\ Len(shown') <= MaxGuiEntries
      BY <2>6, UpdateDoes, Places, Typed
    <3>5. ASSUME NEW q \in Pid, NEW m \in DOMAIN inbox, m # 1, News(m), inbox[m].log = q
          PROVE  Comes(q)'
      <4>1. PICK l \in DOMAIN inbox' : inbox'[l] = inbox[m]
        BY <3>3, <3>5
      <4>2. News(l)' /\ inbox'[l].log = q
        BY <3>5, <4>1 DEF News
      <4>3. QED
        BY <4>2
    <3>6. CASE ~News(1)
      <4>1. shown = <<>> /\ inbox[1].logs \in Seq(Pid) /\ Len(shown) = 0 /\ MaxGuiEntries > 0
        BY <3>2, <3>6, MessageTyped, Bounds DEF Stages
      <4>2. PICK s \in Seq(Pid) : s = inbox[1].logs
        BY <4>1
      <4>3. PICK d \in 0..Len(s) :
              /\ Len(shown') = Len(s) - d
              /\ d > 0 => Len(shown') = MaxGuiEntries
              /\ \A j \in 1..Len(shown') : shown'[j] = s[j + d]
        BY <2>6, <3>6, <4>2, UpdateDoes
      <4>4. DOMAIN s = 1..Len(s) /\ Len(s) \in Nat
        BY Places
      <4>5. \A j \in DOMAIN s : Len(shown') = MaxGuiEntries \/ (j \in DOMAIN shown' /\ shown'[j] = s[j])
        <5>1. d > 0 \/ d = 0
          BY <4>3, <4>4
        <5>2. d = 0 => \A j \in DOMAIN s : j + d = j /\ j \in 1..Len(shown')
          BY <3>4, <4>3, <4>4
        <5>3. QED
          BY <3>4, <4>3, <5>1, <5>2
      <4>6. ASSUME NEW q \in Pid, Comes(q) PROVE Comes(q)'
        <5>1. CASE \E m \in DOMAIN inbox : News(m) /\ inbox[m].log = q
          BY <3>5, <3>6, <5>1
        <5>2. CASE \E j \in DOMAIN inbox[1].logs : inbox[1].logs[j] = q
          BY <4>2, <4>5, <5>2
        <5>3. DOMAIN shown = {} /\ Len(shown) # MaxGuiEntries
          BY <3>4, <4>1
        <5>4. QED
          BY <4>6, <5>1, <5>2, <5>3
      <4>7. \A i \in DOMAIN log : log[i] \in Pid
        BY Typed
      <4> HIDE DEF Comes
      <4>8. QED
        BY <2>a, <2>b, <3>1, <4>6, <4>7
    <3>7. CASE News(1)
      <4>1. PICK d \in 0..1 :
              /\ Len(shown') = Len(shown) + 1 - d
              /\ d = 1 => Len(shown') = MaxGuiEntries
              /\ shown'[Len(shown')] = inbox[1].log
              /\ \A j \in 1..(Len(shown') - 1) : j + d \in 1..Len(shown) /\ shown'[j] = shown[j + d]
        BY <2>6, <3>7, UpdateDoes
      <4>2. d = 0 \/ d = 1
        BY <4>1
      <4>3. Len(shown) = MaxGuiEntries => Len(shown') = MaxGuiEntries
        BY <3>4, <4>1, <4>2
      <4>4. \A k \in DOMAIN shown :
              Len(shown') = MaxGuiEntries \/ (k \in DOMAIN shown' /\ shown'[k] = shown[k])
        <5>1. d = 0 => \A k \in DOMAIN shown : k + d = k /\ k \in 1..(Len(shown') - 1) /\ k \in DOMAIN shown'
          BY <3>4, <4>1
        <5>2. QED
          BY <4>1, <4>2, <5>1
      <4>5. Len(shown') \in DOMAIN shown'
        BY <3>4, <4>1, <4>2, Bounds
      <4>6. ASSUME NEW q \in Pid, Comes(q) PROVE Comes(q)'
        <5>1. CASE \E m \in DOMAIN inbox : m # 1 /\ News(m) /\ inbox[m].log = q
          BY <3>5, <5>1
        <5>2. CASE inbox[1].log = q
          BY <4>1, <4>5, <5>2
        <5>3. CASE \E k \in DOMAIN shown : shown[k] = q
          BY <4>4, <5>3
        <5>4. ~FetchedComes
          BY <3>7 DEF FetchedComes
        <5>5. QED
          BY <4>3, <4>6, <5>1, <5>2, <5>3, <5>4
      <4>7. \A i \in DOMAIN log : log[i] \in Pid
        BY Typed
      <4> HIDE DEF Comes
      <4>8. QED
        BY <2>a, <2>b, <3>1, <4>6, <4>7
    <3>8. QED
      BY <3>6, <3>7
  <2>7. QED
    BY <2>1, <2>2, <2>3, <2>4, <2>5, <2>6, GrowsOr
<1>3. QED
  BY <1>1, <1>2, TypeHolds, PlaceHolds, StagesHold, PTL DEF Spec

(***************************************************************************)
(* The newest entry                                                        *)
(***************************************************************************)

LEMMA LeadsHolds == Spec => []Leads
<1>1. Init => Leads
  BY DEF Init, Leads
<1>2. TypeOK /\ TypeOK' /\ OnePlace /\ PermitsHeld /\ Stages /\ Leads /\ [Next]_vars => Leads'
  <2> SUFFICES ASSUME TypeOK, TypeOK', OnePlace, PermitsHeld, Stages, Leads, [Next]_vars PROVE Leads'
    OBVIOUS
  <2> DEFINE OnList(q, b)  == \E k \in DOMAIN shown :
                                shown[k] = q /\ Len(shown) - k + Len(inbox) + b < Permits
             InInbox(q, b) == \E m \in DOMAIN inbox :
                                News(m) /\ inbox[m].log = q /\ Len(inbox) - m + b < Permits
             InReply(q, b) == /\ FetchedComes
                              /\ inbox[1].logs # <<>> /\ inbox[1].logs[Len(inbox[1].logs)] = q
                              /\ Len(inbox) - 1 + b < Permits
             Leading(q, b) == OnList(q, b) \/ InInbox(q, b) \/ InReply(q, b)
  <2>a. log # <<>> /\ Due(Len(log)) => Leading(log[Len(log)], Cardinality(Behind))
    BY DEF Leads
  <2>b. ASSUME log' # <<>> /\ Due(Len(log))' =>
                 \E q \in Pid, b \in Nat : q = log'[Len(log')] /\ b = Cardinality(Behind') /\ Leading(q, b)'
        PROVE  Leads'
    BY <2>b DEF Leads
  <2>c. IsFiniteSet(Behind) /\ Cardinality(Behind) \in Nat /\ Permits \in Nat
    BY BehindRuns, Bounds DEF PermitsHeld
  <2>d. Len(log) \in Nat /\ DOMAIN log = 1..Len(log) /\ \A i \in DOMAIN log : log[i] \in Pid
    BY Typed
  <2>e. log # <<>> => Len(log) \in DOMAIN log /\ log[Len(log)] \in Pid
    <3>1. log # <<>> => Len(log) # 0
      BY Places DEF TypeOK
    <3>2. QED
      BY <2>d, <3>1
  <2>1. CASE LogGrows
    <3>1. UNCHANGED <<inbox, shown>>
      BY Zenon, <2>1 DEF LogGrows
    <3>2. DOMAIN log' = 1..Len(log')
      BY Zenon, <2>1 DEF LogGrows
    <3>3. Len(log') \in {Len(log), Len(log) + 1}
      BY Zenon, <2>1 DEF LogGrows
    <3>4. SUFFICES ASSUME log' # <<>>, Due(Len(log))' PROVE Leads'
      BY DEF Leads
    <3>5. PICK n \in Nat : n = Len(log')
      BY <2>d, <3>3
    <3>6. n # 0
      BY <3>4, <3>5, Places DEF TypeOK
    <3>7. n \in DOMAIN log' /\ Due(n)'
      BY <3>2, <3>4, <3>5, <3>6 DEF Due
    <3>8. n \in 1..Len(log) /\ log'[n] = log[n] /\ Due(n)
      BY <2>1, <3>7, DueStays
    <3>9. n = Len(log) /\ log # <<>>
      <4>1. log = <<>> => Len(log) = 0
        BY Places DEF TypeOK
      <4>2. PICK l \in Nat : l = Len(log)
        BY <2>d
      <4>3. l >= 1 /\ n <= l /\ (n = l \/ n = l + 1)
        BY <3>3, <3>5, <3>8, <4>2
      <4>4. n = l
        BY <4>3
      <4>5. QED
        BY <4>1, <4>2, <4>3, <4>4
    <3>10. \A p \in Pid : task'[p] = "signal" <=> task[p] = "signal"
      BY Zenon, <2>1, <3>5, <3>9 DEF LogGrows
    <3>11. Behind' = Behind
      BY <3>5, <3>8, <3>9, <3>10 DEF Behind
    <3>12. PICK q \in Pid, b \in Nat : q = log[n] /\ b = Cardinality(Behind)
      BY <2>c, <2>e, <3>9
    <3>13. Leading(q, b)
      BY <2>a, <3>8, <3>9, <3>12
    <3>14. Leading(q, b)'
      BY <3>1, <3>13 DEF FetchedComes, News
    <3>15. q = log'[Len(log')] /\ b = Cardinality(Behind')
      BY <3>5, <3>8, <3>11, <3>12
    <3> HIDE DEF Leading
    <3>16. QED
      BY <2>b, <3>14, <3>15
  <2>2. ASSUME NEW p \in Pid, Signal(p) PROVE Leads'
    <3>1. UNCHANGED <<log, gui, shown>> /\ task[p] = "signal" /\ p \in Range(log)
      BY <2>2, SignalDoes
    <3>2. log # <<>>
      BY <3>1, <2>d DEF Range
    <3>3. PICK q \in Pid : q = log[Len(log)]
      BY <2>e, <3>2
    <3>4. Behind' = Behind \ {p}
      BY <2>2, <3>1, SignalDoes DEF Behind
    <3>5. /\ Len(inbox) \in Nat /\ DOMAIN inbox = 1..Len(inbox)
          /\ Len(shown) \in Nat /\ DOMAIN shown = 1..Len(shown)
      BY Typed
    <3>6. CASE inbox' # inbox
      <4>1. /\ Len(inbox') = Len(inbox) + 1 /\ DOMAIN inbox' = 1..(Len(inbox) + 1)
            /\ inbox'[Len(inbox) + 1].kind = "NewLog" /\ inbox'[Len(inbox) + 1].log = p
            /\ \A m \in DOMAIN inbox : inbox'[m] = inbox[m]
        BY <2>2, <3>5, <3>6, SignalDoes
      <4>2. CASE p = q
        <5>1. p \notin Behind /\ Behind' = Behind
          BY <3>3, <3>4, <4>2 DEF Behind
        <5>2. PICK b \in Nat : b = Cardinality(Behind)
          BY <2>c
        <5>3. b < Permits
          BY <3>2, <5>2 DEF PermitsHeld
        <5>4. PICK m \in Nat : m = Len(inbox) + 1
          BY <3>5
        <5>5. /\ m \in DOMAIN inbox' /\ News(m)' /\ inbox'[m].log = q
              /\ Len(inbox') - m + b < Permits
          BY <2>c, <3>5, <4>1, <4>2, <5>3, <5>4 DEF News
        <5>6. Leading(q, b)'
          BY <5>5
        <5> HIDE DEF Leading
        <5>7. QED
          BY <2>b, <3>1, <3>3, <5>1, <5>2, <5>6
      <4>3. CASE p # q
        <5>1. p \in Behind
          BY <3>1, <3>3, <4>3 DEF Behind
        <5>2. Cardinality(Behind') = Cardinality(Behind) - 1 /\ IsFiniteSet(Behind')
          BY <2>c, <3>4, <5>1, FS_RemoveElement
        <5>3. PICK b \in Nat, c \in Nat : b = Cardinality(Behind) /\ c = Cardinality(Behind')
          BY <2>c, <5>2, FS_CardinalityType
        <5>4. b = c + 1
          BY <5>2, <5>3
        <5>5. task'[q] = task[q] /\ lost \subseteq lost'
          BY <2>2, <4>3, SignalDoes
        <5>6. Due(Len(log))' => Due(Len(log))
          BY <3>1, <3>3, <5>5 DEF Due
        <5>7. ASSUME OnList(q, b) PROVE OnList(q, c)'
          <6>1. PICK k \in DOMAIN shown :
                  shown[k] = q /\ Len(shown) - k + Len(inbox) + b < Permits
            BY <5>7
          <6>2. Len(shown) - k + Len(inbox') + c < Permits
            BY <2>c, <3>5, <4>1, <5>4, <6>1
          <6>3. QED
            BY <3>1, <6>1, <6>2
        <5>8. ASSUME InInbox(q, b) PROVE InInbox(q, c)'
          <6>1. PICK m \in DOMAIN inbox :
                  News(m) /\ inbox[m].log = q /\ Len(inbox) - m + b < Permits
            BY <5>8
          <6>2. Len(inbox') - m + c < Permits /\ m \in DOMAIN inbox' /\ inbox'[m] = inbox[m]
            BY <2>c, <3>5, <4>1, <5>4, <6>1
          <6>3. QED
            BY <6>1, <6>2 DEF News
        <5>9. ASSUME InReply(q, b) PROVE InReply(q, c)'
          <6>1. 1 \in DOMAIN inbox /\ inbox'[1] = inbox[1]
            BY <3>5, <4>1, <5>9, Typed DEF FetchedComes
          <6>2. Len(inbox') # 0 /\ Len(inbox') - 1 + c < Permits
            BY <2>c, <3>5, <4>1, <5>4, <5>9
          <6>3. FetchedComes'
            BY <5>9, <6>1, <6>2 DEF FetchedComes, News
          <6>4. QED
            BY <5>9, <6>1, <6>2, <6>3
        <5> HIDE DEF OnList, InInbox, InReply
        <5>10. Due(Len(log))' => Leading(q, c)'
          BY <2>a, <3>2, <3>3, <5>3, <5>6, <5>7, <5>8, <5>9
        <5> HIDE DEF Leading
        <5>11. QED
          BY <2>b, <3>1, <3>3, <5>3, <5>10
      <4>4. QED
        BY <4>2, <4>3
    <3>7. CASE inbox' = inbox
      <4>1. /\ gui.pc # "live" \/ p \in lost'
            /\ lost \subseteq lost' /\ \A r \in Pid : r # p => task'[r] = task[r]
        BY <2>2, <3>7, SignalDoes
      <4>2. Behind' \subseteq Behind
        BY <3>4
      <4>3. IsFiniteSet(Behind') /\ Cardinality(Behind') <= Cardinality(Behind)
        BY <2>c, <4>2, FS_Subset
      <4>4. PICK b \in Nat, c \in Nat : b = Cardinality(Behind) /\ c = Cardinality(Behind')
        BY <2>c, <4>3, FS_CardinalityType
      <4>5. c <= b
        BY <4>3, <4>4
      <4>6. Due(Len(log))' => Due(Len(log))
        BY <3>1, <3>3, <4>1 DEF Due
      <4>7. ASSUME OnList(q, b) PROVE OnList(q, c)'
        <5>1. PICK k \in DOMAIN shown :
                shown[k] = q /\ Len(shown) - k + Len(inbox) + b < Permits
          BY <4>7
        <5>2. Len(shown) - k + Len(inbox) + c < Permits
          BY <2>c, <3>5, <4>5, <5>1
        <5>3. QED
          BY <3>1, <3>7, <5>1, <5>2
      <4>8. ASSUME InInbox(q, b) PROVE InInbox(q, c)'
        <5>1. PICK m \in DOMAIN inbox :
                News(m) /\ inbox[m].log = q /\ Len(inbox) - m + b < Permits
          BY <4>8
        <5>2. Len(inbox) - m + c < Permits
          BY <2>c, <3>5, <4>5, <5>1
        <5>3. QED
          BY <3>7, <5>1, <5>2 DEF News
      <4>9. ASSUME InReply(q, b) PROVE InReply(q, c)'
        <5>1. Len(inbox) - 1 + c < Permits
          BY <2>c, <3>5, <4>5, <4>9
        <5>2. QED
          BY <3>7, <4>9, <5>1 DEF FetchedComes, News
      <4> HIDE DEF OnList, InInbox, InReply
      <4>10. Due(Len(log))' => Leading(q, c)'
        BY <2>a, <3>2, <3>3, <4>4, <4>6, <4>7, <4>8, <4>9
      <4> HIDE DEF Leading
      <4>11. QED
        BY <2>b, <3>1, <3>3, <4>4, <4>10
    <3>8. QED
      BY <3>6, <3>7
  <2>3. CASE Fetch
    <3>1. gui'.pc = "fetching"
      BY <2>3, FetchDoes
    <3>2. QED
      BY <3>1 DEF Leads, Due
  <2>4. CASE Fetched
    <3>1. UNCHANGED <<log, task, shown>> /\ gui.pc = "fetching"
      BY <2>4, FetchedDoes DEF daemonVars
    <3>2. SUFFICES ASSUME log # <<>>, Due(Len(log))' PROVE Leads'
      BY <3>1 DEF Leads
    <3>3. PICK n \in DOMAIN log : n = Len(log)
      BY <2>e, <3>2
    <3>4. Due(n)'
      BY <3>1, <3>2, <3>3 DEF Due
    <3>5. /\ FetchedComes' /\ Len(inbox') = 1 /\ inbox'[1].logs = gui.reply
          /\ gui.reply # <<>> /\ n <= gui.fetchedAt
      BY <2>4, <3>4, FetchedComesFirst
    <3>6. gui.fetchedAt = n
      BY <3>3, <3>5, Typed DEF Stages
    <3>7. PICK s \in Seq(Pid) : s = gui.reply
      BY Typed
    <3>8. \A j \in DOMAIN s : s[j] = log[n - Len(s) + j]
      BY <3>1, <3>6, <3>7 DEF Stages, CopiedAtFetch
    <3>9. Len(s) \in DOMAIN s /\ n - Len(s) + Len(s) = n
      BY <2>d, <3>5, <3>7, Places
    <3>10. s[Len(s)] = log[n]
      BY <3>8, <3>9
    <3>11. PICK q \in Pid, b \in Nat : q = log[n] /\ b = Cardinality(Behind)
      BY <2>c, <2>d
    <3>12. b < Permits /\ Behind' = Behind
      BY <3>1, <3>2, <3>11 DEF PermitsHeld, Behind
    <3>13. Len(inbox') - 1 + b < Permits
      BY <3>5, <3>12, <2>c
    <3>14. Leading(q, b)'
      BY <3>5, <3>7, <3>10, <3>11, <3>13
    <3> HIDE DEF Leading
    <3>15. QED
      BY <2>b, <3>1, <3>3, <3>11, <3>12, <3>14
  <2>5. CASE Subscribe
    <3>1. /\ UNCHANGED <<log, task, inbox, shown>> /\ gui.pc = "fetched"
          /\ gui'.fetchedAt = gui.fetchedAt /\ gui'.subscribedAt = Len(log)
      BY <2>5, SubscribeDoes DEF daemonVars
    <3>2. Due(Len(log))' => Due(Len(log))
      BY <3>1, Typed DEF Due
    <3>3. Behind' = Behind
      BY <3>1 DEF Behind
    <3>4. QED
      BY <3>1, <3>2, <3>3 DEF Leads, FetchedComes, News
  <2>6. CASE Update
    <3>1. UNCHANGED <<log, task, gui>> /\ \A i : Due(i)' <=> Due(i)
      BY <2>6, UpdateDoes DEF daemonVars, Due
    <3>2. Behind' = Behind
      BY <3>1 DEF Behind
    <3>3. SUFFICES ASSUME log # <<>>, Due(Len(log)) PROVE Leads'
      BY <3>1 DEF Leads
    <3>4. PICK q \in Pid, b \in Nat : q = log[Len(log)] /\ b = Cardinality(Behind)
      BY <2>c, <2>e, <3>3
    <3>5. Leading(q, b)
      BY <2>a, <3>3, <3>4
    <3>6. /\ Len(inbox) \in Nat /\ DOMAIN inbox = 1..Len(inbox) /\ 1 \in DOMAIN inbox
          /\ DOMAIN inbox' = 1..(Len(inbox) - 1) /\ Len(inbox') = Len(inbox) - 1
          /\ \A m \in 1..(Len(inbox) - 1) : inbox'[m] = inbox[m + 1]
      BY <2>6, UpdateDoes, Typed
    <3>7. /\ Len(shown') \in Nat /\ DOMAIN shown' = 1..Len(shown')
          /\ Len(shown) \in Nat /\ DOMAIN shown = 1..Len(shown) /\ Len(shown) <= MaxGuiEntries
      BY <2>6, UpdateDoes, Places, Typed
    <3>8. ASSUME NEW m \in DOMAIN inbox, m # 1, News(m), inbox[m].log = q,
                 Len(inbox) - m + b < Permits
          PROVE  InInbox(q, b)'
      <4>1. m - 1 \in DOMAIN inbox' /\ inbox'[m - 1] = inbox[m] /\ Len(inbox') - (m - 1) + b < Permits
        BY <2>c, <3>6, <3>8
      <4>2. PICK l \in DOMAIN inbox' : inbox'[l] = inbox[m] /\ Len(inbox') - l + b < Permits
        BY <4>1
      <4>3. QED
        BY <3>8, <4>2 DEF News
    <3>9. CASE ~News(1)
      <4>1. shown = <<>> /\ inbox[1].logs \in Seq(Pid) /\ Len(shown) = 0
        BY <3>6, <3>9, MessageTyped DEF Stages
      <4>2. ~OnList(q, b)
        BY <3>7, <4>1
      <4>3. InInbox(q, b) => InInbox(q, b)'
        BY <3>8, <3>9
      <4>4. ASSUME InReply(q, b) PROVE OnList(q, b)'
        <5>1. PICK s \in Seq(Pid) : s = inbox[1].logs
          BY <4>1
        <5>2. s # <<>> /\ s[Len(s)] = q /\ Len(inbox) - 1 + b < Permits
          BY <4>4, <5>1
        <5>3. PICK d \in 0..Len(s) :
                /\ Len(shown') = Len(s) - d
                /\ d > 0 => Len(shown') = MaxGuiEntries
                /\ \A j \in 1..Len(shown') : shown'[j] = s[j + d]
          BY <2>6, <3>9, <5>1, UpdateDoes
        <5>4. Len(s) \in Nat /\ Len(s) # 0
          BY <5>2, Places
        <5>5. Len(shown') \in 1..Len(shown') /\ Len(shown') + d = Len(s)
          BY <3>7, <5>3, <5>4, Bounds
        <5>6. shown'[Len(shown')] = q
          BY <5>2, <5>3, <5>5
        <5>7. Len(shown') - Len(shown') + Len(inbox') + b < Permits
          BY <2>c, <3>6, <3>7, <5>2
        <5>8. QED
          BY <3>7, <5>5, <5>6, <5>7
      <4> HIDE DEF OnList, InInbox, InReply
      <4>5. Leading(q, b)'
        BY <3>5, <4>2, <4>3, <4>4
      <4> HIDE DEF Leading
      <4>6. QED
        BY <2>b, <3>1, <3>2, <3>4, <4>5
    <3>10. CASE News(1)
      <4>1. PICK d \in 0..1 :
              /\ Len(shown') = Len(shown) + 1 - d
              /\ d = 1 => Len(shown') = MaxGuiEntries
              /\ shown'[Len(shown')] = inbox[1].log
              /\ \A j \in 1..(Len(shown') - 1) : j + d \in 1..Len(shown) /\ shown'[j] = shown[j + d]
        BY <2>6, <3>10, UpdateDoes
      <4>2. d = 0 \/ d = 1
        BY <4>1
      <4>c. ASSUME NEW k \in Nat, NEW j \in Nat, k = j + d,
                   Len(shown) - k + Len(inbox) + b < Permits
            PROVE  Len(shown') - j + Len(inbox') + b < Permits
        <5>1. PICK x \in Nat, y \in Nat, z \in Nat :
                x = Len(shown') /\ y = Len(shown) /\ z = Len(inbox)
          BY <3>6, <3>7
        <5>2. x = y + 1 - d /\ Len(inbox') = z - 1 /\ y - k + z + b < Permits
          BY <3>6, <4>1, <4>c, <5>1
        <5>3. x - j + (z - 1) + b < Permits
          BY <2>c, <4>2, <4>c, <5>2
        <5>4. QED
          BY <5>1, <5>2, <5>3
      <4>3. ASSUME OnList(q, b) PROVE OnList(q, b)'
        <5>1. PICK k \in DOMAIN shown :
                shown[k] = q /\ Len(shown) - k + Len(inbox) + b < Permits
          BY <4>3
        <5>2. k - d \in 1..(Len(shown') - 1)
          <6>1. CASE d = 0
            BY <3>7, <4>1, <5>1, <6>1
          <6>2. CASE d = 1
            <7>1. Len(shown) = MaxGuiEntries /\ Permits <= MaxGuiEntries
              <8>1. Len(shown') = MaxGuiEntries /\ Len(shown') = Len(shown) + 1 - 1
                BY <4>1, <6>2
              <8>2. QED
                BY <3>7, <8>1, Bounds
            <7>2. k # 1
              BY <2>c, <3>6, <3>7, <5>1, <7>1, Bounds
            <7>3. QED
              BY <3>7, <4>1, <5>1, <6>2, <7>2
          <6>3. QED
            BY <4>2, <6>1, <6>2
        <5>3. PICK j \in 1..(Len(shown') - 1) : j = k - d
          BY <5>2
        <5>4. j + d = k /\ j \in DOMAIN shown'
          BY SMTT(30), <3>7, <4>2, <5>1, <5>3
        <5>5. shown'[j] = q
          BY <4>1, <5>1, <5>3, <5>4
        <5>6. Len(shown') - j + Len(inbox') + b < Permits
          <6>1. k \in Nat /\ j \in Nat /\ k = j + d
            BY SMTT(30), <3>7, <4>2, <5>1, <5>3, <5>4
          <6>2. QED
            BY Zenon, <4>c, <5>1, <6>1
        <5>7. QED
          BY <5>4, <5>5, <5>6
      <4>4. ASSUME InInbox(q, b) PROVE InInbox(q, b)' \/ OnList(q, b)'
        <5>1. PICK m \in DOMAIN inbox :
                News(m) /\ inbox[m].log = q /\ Len(inbox) - m + b < Permits
          BY <4>4
        <5>2. CASE m # 1
          BY <3>8, <5>1, <5>2
        <5>3. CASE m = 1
          <6>1. Len(shown') \in DOMAIN shown'
            BY <3>7, <4>1, <4>2, Bounds
          <6>2. Len(shown') - Len(shown') + Len(inbox') + b < Permits
            BY <2>c, <3>6, <3>7, <5>1, <5>3
          <6>3. QED
            BY <4>1, <5>1, <5>3, <6>1, <6>2
        <5>4. QED
          BY <5>2, <5>3
      <4>5. ~InReply(q, b)
        BY <3>10 DEF FetchedComes
      <4> HIDE DEF OnList, InInbox, InReply
      <4>6. Leading(q, b)'
        BY <3>5, <4>3, <4>4, <4>5
      <4> HIDE DEF Leading
      <4>7. QED
        BY <2>b, <3>1, <3>2, <3>4, <4>6
    <3>11. QED
      BY <3>9, <3>10
  <2>7. QED
    BY <2>1, <2>2, <2>3, <2>4, <2>5, <2>6, GrowsOr
<1>3. QED
  BY <1>1, <1>2, TypeHolds, PlaceHolds, PermitsHold, StagesHold, PTL DEF Spec

(***************************************************************************)
(* Results                                                                 *)
(***************************************************************************)

(* The parts of the inductive invariant hold together.                        *)
LEMMA InvariantHolds == Spec => []IInv
BY TypeHolds, PlaceHolds, PermitsHold, StagesHold, ListingHolds, ReachesHolds, LeadsHolds, PTL DEF IInv

(* A set of positions, each of the same entry, none of which repeats it.      *)
LEMMA AtMostOne ==
  ASSUME NEW D \in SUBSET Nat, \A i, j \in D : i = j
  PROVE  IsFiniteSet(D) /\ Cardinality(D) \in Nat /\ Cardinality(D) <= 1
<1>1. CASE D = {}
  BY <1>1, FS_EmptySet
<1>2. CASE D # {}
  <2>1. PICK i \in D : D = {i}
    <3>1. PICK i \in D : TRUE
      BY <1>2
    <3>2. D = {i}
      BY <3>1
    <3>3. QED
      BY <3>2
  <2>2. IsFiniteSet(D) /\ Cardinality(D) = 1
    BY <2>1, FS_Singleton
  <2>3. QED
    BY <2>2
<1>3. QED
  BY <1>1, <1>2

(* A pid that was blocked is in the log once and in the list of the client    *)
(* once, or twice if it was recorded and not yet signalled when the client    *)
(* fetched the history, however its tasks, its signals and the client's       *)
(* messages interleave (report_logger, report_blocked, logger_sub).           *)
THEOREM RecordedAndListedOnce == Spec => []ListedOnce
<1>1. IInv => ListedOnce
  <2> SUFFICES ASSUME IInv, NEW p \in Pid
               PROVE  /\ Times(log, p) <= 1
                      /\ Times(shown, p) <= IF p \in gui.unsignalled THEN 2 ELSE 1
    BY DEF ListedOnce
  <2>1. TypeOK /\ OnePlace /\ Listing
    BY DEF IInv
  <2>2. Times(log, p) <= 1
    <3>1. {i \in DOMAIN log : log[i] = p} \in SUBSET Nat
      BY <2>1, Typed
    <3>2. \A i, j \in {k \in DOMAIN log : log[k] = p} : i = j
      BY <2>1 DEF OnePlace
    <3>3. QED
      BY <3>1, <3>2, AtMostOne DEF Times
  <2>3. PICK n \in 0..Len(shown) : ListedFrom(n)
    BY <2>1 DEF Listing
  <2>4. Len(shown) \in Nat /\ DOMAIN shown = 1..Len(shown) /\ n \in Nat
    BY <2>1, <2>3, Typed
  <2> DEFINE All     == {i \in DOMAIN shown : shown[i] = p}
             Early   == {i \in 1..n : shown[i] = p}
             Later   == {i \in (n + 1)..Len(shown) : shown[i] = p}
  <2>5. All = Early \cup Later
    BY <2>3, <2>4
  <2>6. IsFiniteSet(Early) /\ Cardinality(Early) \in Nat /\ Cardinality(Early) <= 1
    <3>1. Early \in SUBSET Nat /\ \A i, j \in Early : i = j
      BY <2>3, <2>4 DEF ListedFrom
    <3>2. QED
      BY <3>1, AtMostOne
  <2>7. IsFiniteSet(Later) /\ Cardinality(Later) \in Nat /\ Cardinality(Later) <= 1
    <3>1. Later \in SUBSET Nat /\ \A i, j \in Later : i = j
      BY <2>3, <2>4 DEF ListedFrom
    <3>2. QED
      BY <3>1, AtMostOne
  <2>8. ASSUME p \notin gui.unsignalled PROVE Early = {} \/ Later = {}
    <3>1. ASSUME NEW i \in Early, NEW j \in Later PROVE FALSE
      <4>1. PICK k \in 1..gui.fetchedAt : log[k] = p
        BY <2>3, <3>1 DEF ListedFrom
      <4>2. Told(p)
        BY <2>3, <3>1 DEF ListedFrom
      <4>3. QED
        BY <2>8, <4>1, <4>2 DEF Told
    <3>2. QED
      BY <3>1
  <2>9. Times(shown, p) = Cardinality(Early \cup Later)
    BY <2>5 DEF Times
  <2> HIDE DEF Early, Later, All
  <2>10. Cardinality(Early \cup Later) <= 2
    <3>1. /\ Cardinality(Early \cup Later) = Cardinality(Early) + Cardinality(Later)
                                             - Cardinality(Early \cap Later)
          /\ IsFiniteSet(Early \cap Later)
      BY <2>6, <2>7, FS_Union, FS_Intersection
    <3>2. Cardinality(Early \cap Later) \in Nat
      BY <3>1, FS_CardinalityType
    <3>3. QED
      BY <2>6, <2>7, <3>1, <3>2
  <2>11. p \notin gui.unsignalled => Cardinality(Early \cup Later) <= 1
    <3>1. Early = {} => Early \cup Later = Later
      OBVIOUS
    <3>2. Later = {} => Early \cup Later = Early
      OBVIOUS
    <3>3. QED
      BY <2>6, <2>7, <2>8, <3>1, <3>2
  <2>12. QED
    BY <2>2, <2>9, <2>10, <2>11
<1>2. QED
  BY <1>1, InvariantHolds, PTL

(* A client that has heard everything lists each entry of the history it      *)
(* fetched and each entry signalled after it subscribed, unless its list is   *)
(* full of others, and always lists the newest one: the semaphore admits too  *)
(* few tasks for older entries, signalled late, to push it out.               *)
THEOREM SignalledIsListed == Spec => []ListsSignalled
<1>1. IInv => ListsSignalled
  <2> SUFFICES ASSUME IInv, CaughtUp, NEW i \in DOMAIN log, task[log[i]] # "signal",
                      \/ i \in (gui.fetchedAt - MaxEntries + 1)..gui.fetchedAt
                      \/ i > gui.subscribedAt /\ log[i] \notin lost
               PROVE  log[i] \in Range(shown) \/ (Len(shown) = MaxGuiEntries /\ i < Len(log))
    BY DEF ListsSignalled
  <2>1. TypeOK /\ OnePlace /\ Reaches /\ Leads
    BY DEF IInv
  <2>2. inbox = <<>> /\ gui.pc = "live" /\ DOMAIN inbox = {}
    BY DEF CaughtUp
  <2>3. task[log[i]] = "none"
    BY <2>1 DEF OnePlace
  <2>4. Due(i)
    BY <2>2, <2>3 DEF Due
  <2>5. \/ Len(shown) = MaxGuiEntries
        \/ \E k \in DOMAIN shown : shown[k] = log[i]
    BY <2>1, <2>2, <2>4 DEF Reaches, FetchedComes
  <2>6. i = Len(log) => \E k \in DOMAIN shown : shown[k] = log[i]
    BY <2>1, <2>2, <2>4, Typed DEF Leads, FetchedComes
  <2>7. i <= Len(log) /\ i \in Nat /\ Len(log) \in Nat
    BY <2>1, Typed
  <2>8. QED
    BY <2>5, <2>6, <2>7 DEF Range
<1>2. QED
  BY <1>1, InvariantHolds, PTL

(* Every state has the types the module gives its variables.                  *)
THEOREM TypeCorrect == Spec => []TypeOK
BY TypeHolds

(***************************************************************************)
(* Progress                                                                *)
(***************************************************************************)

(* What FairSpec assumes, with the guards of the actions in place of ENABLED:  *)
(* an action whose guard holds from some time on is taken.                     *)
CanTake  == waiting = <<>> /\ ring # <<>>
CanStart == waiting # <<>> /\ Cardinality(Running) < Permits
Idles(p) == task[p] = "none"
WorkGoesOn(p) == []<>Idles(p) \/ []<><<Work(p)>>_vars
WorkFairness == \A p \in Pid : WorkGoesOn(p)
GuardFairness ==
  /\ []<>(~CanTake) \/ []<><<TakeReport>>_vars
  /\ []<>(~CanStart) \/ []<><<StartTask>>_vars
  /\ []WorkFairness

(* The places of a pid on its way, and its end.                               *)
In(p, i)   == i \in DOMAIN ring /\ ring[i] = p /\ p \notin reported
Waits(p)   == waiting = <<p>>
At(p, pc)  == task[p] = pc
Over(p)    == p \in Range(log) \/ p \notin alive
Free       == Cardinality(Running) < Permits

LEMMA LookupStep ==
  ASSUME NEW p \in Pid, TypeOK, At(p, "lookup"), [Next]_vars
  PROVE  At(p, "lookup")' \/ At(p, "report")' \/ Over(p)'
<1>1. ASSUME NEW q \in Pid, Lookup(q) PROVE At(p, "lookup")' \/ At(p, "report")' \/ Over(p)'
  BY <1>1 DEF Lookup, At, Over, TypeOK
<1>2. ASSUME NEW q \in Pid, Record(q) \/ Signal(q) PROVE At(p, "lookup")'
  BY <1>2 DEF Record, Signal, At, TypeOK
<1>3. CASE StartTask
  BY <1>3 DEF StartTask, Acquire, At, TypeOK
<1>4. ASSUME UNCHANGED task PROVE At(p, "lookup")'
  BY <1>4 DEF At
<1>5. QED
  BY <1>1, <1>2, <1>3, <1>4, Steps DEF Work, TakeReport, Fetch, Fetched, Subscribe, Update, daemonVars

LEMMA StartsWaiting ==
  ASSUME TypeOK, OnePlace, waiting # <<>>
  PROVE  Head(waiting) \in Pid /\ At(Head(waiting), "none") /\ waiting = <<Head(waiting)>>
<1>1. Head(waiting) = waiting[1] /\ 1 \in DOMAIN waiting /\ Len(waiting) = 1
  <2>1. PICK n \in Nat : n = Len(waiting)
    BY Places DEF TypeOK
  <2>2. n <= 1 /\ n # 0
    BY <2>1, Places DEF TypeOK
  <2>3. QED
    BY <2>1, <2>2, Shifted DEF TypeOK
<1>2. waiting = <<waiting[1]>>
  BY <1>1 DEF TypeOK
<1>3. QED
  BY <1>1, <1>2, Places DEF OnePlace, At, TypeOK

LEMMA ReportStep ==
  ASSUME NEW p \in Pid, TypeOK, OnePlace, At(p, "report"), [Next]_vars
  PROVE  At(p, "report")' \/ Over(p)'
<1>1. ASSUME NEW q \in Pid, Record(q) PROVE At(p, "report")' \/ Over(p)'
  <2>1. log' = Append(log, q) /\ log \in Seq(Pid)
    BY <1>1 DEF Record, TypeOK
  <2>2. Range(log') = Range(log) \cup {q}
    BY <2>1, RangeOfAppended
  <2>3. QED
    BY <1>1, <2>2 DEF Record, At, Over, TypeOK
<1>2. ASSUME NEW q \in Pid, Lookup(q) \/ Signal(q) PROVE At(p, "report")'
  BY <1>2 DEF Lookup, Signal, At, TypeOK
<1>3. CASE StartTask
  BY <1>3, StartsWaiting DEF StartTask, Acquire, At, TypeOK
<1>4. ASSUME UNCHANGED task PROVE At(p, "report")'
  BY <1>4 DEF At
<1>5. QED
  BY <1>1, <1>2, <1>3, <1>4, Steps DEF Work, TakeReport, Fetch, Fetched, Subscribe, Update, daemonVars

(* While the reader waits nobody else takes a permit. *)
LEMMA PermitsReturn ==
  ASSUME TypeOK, OnePlace, PermitsHeld, waiting # <<>>, [Next]_vars
  PROVE  \/ UNCHANGED waiting /\ Running' \subseteq Running /\ (Free => Free')
         \/ StartTask
<1>1. CASE StartTask
  BY <1>1
<1>2. CASE ~StartTask
  <2>1. UNCHANGED waiting /\ Running' \subseteq Running
    <3>1. ASSUME NEW q \in Pid, Work(q) PROVE UNCHANGED waiting /\ Running' \subseteq Running
      BY <3>1 DEF Work, Lookup, Record, Signal, Running, TypeOK
    <3>2. ~TakeReport
      BY DEF TakeReport
    <3>3. ASSUME UNCHANGED <<waiting, task>> PROVE UNCHANGED waiting /\ Running' \subseteq Running
      BY <3>3 DEF Running
    <3>4. QED
      BY <1>2, <3>1, <3>2, <3>3, Steps DEF Fetch, Fetched, Subscribe, Update, daemonVars
  <2>2. Free => Free'
    <3>1. IsFiniteSet(Running) /\ Cardinality(Running') <= Cardinality(Running) /\ IsFiniteSet(Running')
      BY <2>1, FS_Subset DEF PermitsHeld
    <3>2. Cardinality(Running) \in Nat /\ Cardinality(Running') \in Nat
      BY <3>1, FS_CardinalityType
    <3>3. QED
      BY <3>1, <3>2, Bounds DEF Free
  <2>3. QED
    BY <2>1, <2>2
<1>3. QED
  BY <1>1, <1>2

(* A task that ends frees a permit. *)
LEMMA EndFrees ==
  ASSUME TypeOK, PermitsHeld, NEW q \in Pid, At(q, "signal") \/ At(q, "lookup"), Work(q), At(q, "none")'
  PROVE  Free'
<1>1. q \in Running /\ Running' = Running \ {q}
  BY DEF At, Work, Lookup, Record, Signal, Running, TypeOK
<1>2. Cardinality(Running') = Cardinality(Running) - 1 /\ Cardinality(Running) \in Nat
  BY <1>1, FS_RemoveElement, FS_CardinalityType DEF PermitsHeld
<1>3. QED
  BY <1>2, Bounds DEF PermitsHeld, Free

(* A task does not stop: it records its entry, or the process has ended. *)
LEMMA LookedUpIsRecorded ==
  ASSUME NEW p \in Pid
  PROVE  []IInv /\ [][Next]_vars /\ GuardFairness => ((At(p, "lookup") \/ At(p, "report")) ~> Over(p))
<1>1. IInv /\ At(p, "lookup") /\ [Next]_vars => At(p, "lookup")' \/ At(p, "report")' \/ Over(p)'
  BY LookupStep DEF IInv
<1>2. IInv /\ At(p, "report") /\ [Next]_vars => At(p, "report")' \/ Over(p)'
  BY ReportStep DEF IInv
<1>3. IInv /\ At(p, "lookup") /\ <<Work(p)>>_vars => At(p, "report")' \/ Over(p)'
  BY DEF At, Over, Work, Lookup, Record, Signal, IInv, TypeOK
<1>4. IInv /\ At(p, "report") /\ <<Work(p)>>_vars => Over(p)'
  <2> SUFFICES ASSUME TypeOK, At(p, "report"), Work(p) PROVE Over(p)'
    BY DEF IInv
  <2>1. log' = Append(log, p) /\ log \in Seq(Pid)
    BY DEF Record, TypeOK, Work, Lookup, Signal, At
  <2>2. QED
    BY <2>1, RangeOfAppended DEF Over
<1>5. At(p, "lookup") \/ At(p, "report") => ~Idles(p)
  BY DEF At, Idles
<1>6. WorkFairness => WorkGoesOn(p)
  BY DEF WorkFairness
<1>7. QED
  BY <1>1, <1>2, <1>3, <1>4, <1>5, <1>6, PTL DEF GuardFairness, WorkGoesOn

Started(p) == waiting = <<>> /\ At(p, "lookup")
Ready(p)   == Waits(p) /\ Free
Full(p, q, pc) == Waits(p) /\ ~Free /\ At(q, pc)
GetsTask(p) == Waits(p) ~> Started(p)

LEMMA WaitStep ==
  ASSUME NEW p \in Pid, TypeOK, OnePlace, PermitsHeld, Waits(p), [Next]_vars
  PROVE  \/ Waits(p)' /\ (Free => Free')
         \/ Started(p)'
<1>1. waiting # <<>> /\ Head(waiting) = p
  BY DEF Waits
<1>2. StartTask => Started(p)'
  BY <1>1 DEF StartTask, Acquire, Started, At, TypeOK
<1>3. QED
  BY <1>1, <1>2, PermitsReturn DEF Waits

(* As long as no permit is free, a task that runs goes on or its end frees one. *)
LEMMA FullStep ==
  ASSUME NEW p \in Pid, NEW q \in Pid, NEW pc \in {"lookup", "report", "signal"},
         IInv, Full(p, q, pc), [Next]_vars
  PROVE  \/ Ready(p)' \/ Started(p)'
         \/ ~Work(q) /\ Full(p, q, pc)'
         \/ pc = "lookup" /\ Full(p, q, "report")'
         \/ pc = "report" /\ Full(p, q, "signal")'
<1>1. TypeOK /\ OnePlace /\ PermitsHeld
  BY DEF IInv
<1>2. CASE Started(p)'
  BY <1>2
<1>3. CASE Waits(p)' /\ Free'
  BY <1>3 DEF Ready
<1>4. CASE Waits(p)' /\ ~Free'
  <2>1. CASE StartTask
    BY <1>1, <2>1, <1>4 DEF StartTask, Waits
  <2>2. CASE ~StartTask /\ ~Work(q)
    <3>1. task'[q] = task[q]
      <4>1. ASSUME NEW r \in Pid \ {q}, Work(r) PROVE task'[q] = task[q]
        BY <1>1, <4>1 DEF Work, Lookup, Record, Signal, TypeOK
      <4>2. QED
        BY <2>2, <4>1, Steps DEF TakeReport, Fetch, Fetched, Subscribe, Update, daemonVars
    <3>2. QED
      BY <1>4, <2>2, <3>1 DEF Full, At
  <2>3. CASE Work(q)
    <3>1. \/ pc = "lookup" /\ (At(q, "report")' \/ At(q, "none")')
          \/ pc = "report" /\ At(q, "signal")'
          \/ pc = "signal" /\ At(q, "none")'
      BY <1>1, <2>3 DEF Full, At, Work, Lookup, Record, Signal, TypeOK
    <3>2. pc # "report" => ~At(q, "none")'
      BY <1>1, <1>4, <2>3, EndFrees DEF Full
    <3>3. QED
      BY <1>4, <3>1, <3>2 DEF Full
  <2>4. QED
    BY <2>1, <2>2, <2>3
<1>5. QED
  BY <1>1, <1>2, <1>3, <1>4, WaitStep DEF Full

(* The event the reader waits with gets its task: another task ends, and what  *)
(* that frees nobody else takes.                                              *)
LEMMA WaitingStarts ==
  ASSUME NEW p \in Pid
  PROVE  []IInv /\ [][Next]_vars /\ GuardFairness => GetsTask(p)
<1> SUFFICES ASSUME []IInv, [][Next]_vars, []GuardFairness
             PROVE  Waits(p) ~> Started(p)
  BY PTL DEF GuardFairness, GetsTask, WorkGoesOn
<1>1. ASSUME NEW q \in Pid
      PROVE  Full(p, q, "lookup") \/ Full(p, q, "report") \/ Full(p, q, "signal")
               => <>(Ready(p) \/ Started(p))
  <2>0. <<Work(q)>>_vars => Work(q) /\ [Next]_vars
    BY DEF Next
  <2>1. IInv /\ Full(p, q, "lookup") /\ [Next]_vars =>
          \/ Full(p, q, "lookup")' \/ Full(p, q, "report")' \/ Ready(p)' \/ Started(p)'
    BY FullStep
  <2>2. IInv /\ Full(p, q, "report") /\ [Next]_vars =>
          \/ Full(p, q, "report")' \/ Full(p, q, "signal")' \/ Ready(p)' \/ Started(p)'
    BY FullStep
  <2>3. IInv /\ Full(p, q, "signal") /\ [Next]_vars =>
          Full(p, q, "signal")' \/ Ready(p)' \/ Started(p)'
    BY FullStep
  <2>4. IInv /\ Full(p, q, "lookup") /\ <<Work(q)>>_vars =>
          Full(p, q, "report")' \/ Ready(p)' \/ Started(p)'
    BY <2>0, FullStep
  <2>5. IInv /\ Full(p, q, "report") /\ <<Work(q)>>_vars =>
          Full(p, q, "signal")' \/ Ready(p)' \/ Started(p)'
    BY <2>0, FullStep
  <2>6. IInv /\ Full(p, q, "signal") /\ <<Work(q)>>_vars => Ready(p)' \/ Started(p)'
    BY <2>0, FullStep
  <2>7. Full(p, q, "lookup") \/ Full(p, q, "report") \/ Full(p, q, "signal") => ~Idles(q)
    BY DEF Full, At, Idles
  <2>8. WorkFairness => WorkGoesOn(q)
    BY DEF WorkFairness
  <2>9. QED
    BY <2>1, <2>2, <2>3, <2>4, <2>5, <2>6, <2>7, <2>8, PTL DEF GuardFairness, WorkGoesOn
<1>2. IInv /\ Waits(p) =>
        \/ Ready(p)
        \/ \E q \in Pid : Full(p, q, "lookup") \/ Full(p, q, "report") \/ Full(p, q, "signal")
  <2> SUFFICES ASSUME IInv, Waits(p), ~Ready(p)
               PROVE  \E q \in Pid : Full(p, q, "lookup") \/ Full(p, q, "report") \/ Full(p, q, "signal")
    OBVIOUS
  <2>1. Running # {}
    BY FS_EmptySet, Bounds DEF Ready, Free
  <2>2. PICK q \in Pid : task[q] # "none"
    BY <2>1 DEF Running
  <2>3. QED
    BY <2>2 DEF Full, Ready, At, IInv, TypeOK
<1>3. IInv /\ Waits(p) => Ready(p) \/ <>(Ready(p) \/ Started(p))
  BY <1>1, <1>2
<1>4. IInv /\ Ready(p) /\ [Next]_vars => Ready(p)' \/ Started(p)'
  BY WaitStep DEF Ready, IInv
<1>5. Ready(p) => CanStart
  BY DEF Ready, Waits, Free, CanStart
<1>6. IInv /\ Ready(p) /\ <<StartTask>>_vars => Started(p)'
  BY DEF Ready, Waits, StartTask, Acquire, Started, At, IInv, TypeOK
<1>7. QED
  BY <1>3, <1>4, <1>5, <1>6, PTL DEF GuardFairness, WorkGoesOn

(* An event of a pid that was not reported yet, first in the ring or not.      *)
Rest(p, i) == In(p, i) /\ waiting = <<>>
Advances(p, i) == In(p, i) ~> (In(p, i - 1) \/ Waits(p))

LEMMA RingStep ==
  ASSUME NEW p \in Pid, NEW i \in Nat \ {0}, TypeOK, In(p, i), [Next]_vars
  PROVE  \/ ~TakeReport /\ In(p, i)' /\ (waiting = <<>> => waiting' = <<>>)
         \/ In(p, i - 1)' \/ Waits(p)'
<1>1. ring \in Seq(Pid) /\ i \in 1..Len(ring) /\ Len(ring) \in Nat /\ ring[i] = p /\ p \notin reported
  BY Places DEF TypeOK, In
<1>2. ASSUME NEW q \in Pid, Blocked(q) PROVE In(p, i)' /\ waiting' = waiting
  <2>1. ring' = ring \/ ring' = Append(ring, q)
    BY <1>2 DEF Blocked
  <2>2. i \in DOMAIN ring' /\ ring'[i] = p
    BY <1>1, <2>1, Appended, Places
  <2>3. QED
    BY <1>1, <1>2, <2>2 DEF Blocked, In, daemonVars
<1>3. CASE TakeReport
  <2>1. ring # <<>> /\ ring' = Tail(ring) /\ Head(ring) = ring[1]
    BY <1>1, <1>3 DEF TakeReport
  <2>2. CASE Head(ring) = p
    BY <1>1, <1>3, <2>2 DEF TakeReport, Waits
  <2>3. CASE Head(ring) # p
    <3>1. i # 1 /\ i - 1 \in 1..(Len(ring) - 1)
      BY <1>1, <2>1, <2>3
    <3>2. i - 1 \in DOMAIN ring' /\ ring'[i - 1] = p
      BY <1>1, <2>1, <3>1, Shifted
    <3>3. p \notin reported'
      BY <1>1, <1>3, <2>3 DEF TakeReport, Remembered
    <3>4. QED
      BY <3>2, <3>3 DEF In
  <2>4. QED
    BY <2>2, <2>3
<1>4. ASSUME ~TakeReport, ~(\E q \in Pid : Blocked(q)) PROVE UNCHANGED <<ring, reported>>
  BY <1>4 DEF Next, vars, daemonVars, guiVars, Die, Spawn, Work, Lookup, Record, Signal, StartTask,
              Fetch, Fetched, Subscribe, Update
<1>5. ASSUME ~TakeReport, waiting = <<>> PROVE waiting' = <<>>
  BY <1>5 DEF Next, vars, daemonVars, guiVars, Blocked, Die, Spawn, Work, Lookup, Record, Signal,
              StartTask, Fetch, Fetched, Subscribe, Update
<1>6. QED
  <2>1. CASE TakeReport
    BY <1>3, <2>1
  <2>2. CASE ~TakeReport
    <3>1. In(p, i)'
      BY <1>1, <1>2, <1>4, <2>2 DEF In
    <3>2. QED
      BY <1>5, <2>2, <3>1
  <2>3. QED
    BY <2>1, <2>2

(* What the ring took comes nearer to its head until the reader has it.        *)
LEMMA RingAdvances ==
  ASSUME NEW p \in Pid, NEW i \in Nat \ {0}
  PROVE  []IInv /\ [][Next]_vars /\ GuardFairness => Advances(p, i)
<1> SUFFICES ASSUME []IInv, [][Next]_vars, []GuardFairness
             PROVE  In(p, i) ~> (In(p, i - 1) \/ Waits(p))
  BY PTL DEF GuardFairness, Advances
<1> DEFINE Moved == In(p, i - 1) \/ Waits(p)
           Taken == waiting = <<>>
<1>1. ASSUME NEW q \in Pid PROVE Waits(q) => <>Taken
  <2>1. []IInv /\ [][Next]_vars /\ GuardFairness => GetsTask(q)
    BY WaitingStarts
  <2>2. Started(q) => Taken
    BY DEF Started
  <2>3. QED
    BY <2>1, <2>2, PTL DEF GetsTask
<1>2. IInv => Taken \/ \E q \in Pid : Waits(q)
  <2>1. IInv /\ waiting # <<>> => Head(waiting) \in Pid /\ waiting = <<Head(waiting)>>
    BY StartsWaiting DEF IInv
  <2>2. QED
    BY <2>1 DEF Waits
<1>3. IInv => Taken \/ <>Taken
  <2> HIDE DEF Taken
  <2>1. QED
    BY <1>1, <1>2
<1>4. IInv /\ In(p, i) /\ [Next]_vars => In(p, i)' \/ Moved'
  BY RingStep DEF IInv
<1>5. IInv /\ Rest(p, i) /\ [Next]_vars => Rest(p, i)' \/ Moved'
  BY RingStep DEF IInv, Rest
<1>6. IInv /\ Rest(p, i) /\ <<TakeReport>>_vars => Moved'
  BY RingStep DEF IInv, Rest, Next
<1>7. Rest(p, i) => CanTake
  BY DEF Rest, In, CanTake
<1>8. In(p, i) /\ Taken => Rest(p, i)
  BY DEF Rest
<1> HIDE DEF Moved, Taken
<1>9. In(p, i) ~> Moved
  BY <1>3, <1>4, <1>5, <1>6, <1>7, <1>8, PTL DEF GuardFairness
<1>10. QED
  BY <1>9 DEF Moved

(* Everything the reader took is recorded, or its process has ended: the part  *)
(* of QueuedIsRecorded from the ring's end on, without a bound on how many      *)
(* tasks run, end or wait (report_logger).                                     *)
Recorded(p) == (Waits(p) \/ At(p, "lookup") \/ At(p, "report")) ~> Over(p)
EveryTakenRecorded == \A p \in Pid : Recorded(p)
THEOREM TakenIsRecorded == Spec /\ GuardFairness => EveryTakenRecorded
<1>1. ASSUME NEW p \in Pid PROVE Spec /\ GuardFairness => Recorded(p)
  <2>1. []IInv /\ [][Next]_vars /\ GuardFairness => GetsTask(p)
    BY WaitingStarts
  <2>2. []IInv /\ [][Next]_vars /\ GuardFairness => (At(p, "lookup") \/ At(p, "report") ~> Over(p))
    BY LookedUpIsRecorded
  <2>3. Started(p) => At(p, "lookup")
    BY DEF Started
  <2>4. QED
    BY <2>1, <2>2, <2>3, InvariantHolds, PTL DEF Spec, GetsTask, Recorded
<1>2. QED
  BY <1>1 DEF EveryTakenRecorded

(* A set of numbers that is not empty has a least one.                        *)
LEMMA LeastNumber ==
  ASSUME NEW V \in SUBSET Nat, V # {}
  PROVE  \E k \in V : \A m \in V : k <= m
<1> DEFINE R == OpToRel(<, Nat)
<1>1. IsWellFoundedOn(R, Nat)
  BY NatLessThanWellFounded
<1>2. \A a, b \in Nat : a < b => <<a, b>> \in R
  BY DEF OpToRel
<1> HIDE DEF R
<1>3. PICK k \in V : \A m \in V : ~(<<m, k>> \in R)
  BY <1>1, WFMin
<1>4. ASSUME NEW m \in V PROVE k <= m
  <2>1. m \in Nat /\ k \in Nat
    OBVIOUS
  <2>2. ~(<<m, k>> \in R)
    BY <1>3
  <2>3. ~(m < k)
    BY <1>2, <2>1, <2>2
  <2>4. QED
    BY <2>1, <2>3
<1>5. QED
  BY <1>4

(* The places of the ring where an event of p will ever be form a set.  This   *)
(* holds of every behaviour whatever the specification; TLA+ builds no set     *)
(* from a temporal formula, so it is a hypothesis where a least place is        *)
(* needed, in the place of an induction over places.                            *)
Comes(p, i) == <>In(p, i)
PlacesOf(p, V) == \A i \in Nat : i \in V <=> Comes(p, i)
PlacesFormSets == \A p \in Pid : \E V \in SUBSET Nat : PlacesOf(p, V)

Queued(p)  == p \in Range(ring) /\ p \notin reported

LEMMA QueuedIsTaken ==
  ASSUME NEW p \in Pid
  PROVE  []IInv /\ [][Next]_vars /\ GuardFairness /\ []PlacesFormSets => (Queued(p) ~> Waits(p))
<1> SUFFICES ASSUME []IInv, [][Next]_vars, []GuardFairness, []PlacesFormSets
             PROVE  Queued(p) ~> Waits(p)
  BY PTL DEF GuardFairness
<1>1. ~Comes(p, 0)
  <2>1. IInv => ~In(p, 0)
    BY DEF In, IInv, TypeOK
  <2>2. QED
    BY <2>1, PTL DEF Comes
<1>2. ASSUME NEW i \in Nat \ {0} PROVE Advances(p, i)
  <2>1. []IInv /\ [][Next]_vars /\ GuardFairness => Advances(p, i)
    BY RingAdvances
  <2>2. QED
    BY <2>1, PTL
<1>3. ASSUME NEW V \in SUBSET Nat, PlacesOf(p, V), NEW i \in Nat, In(p, i)
      PROVE  <>Waits(p)
  <2>1. Comes(p, i)
    BY <1>3, PTL DEF Comes
  <2>2. V # {}
    BY <1>3, <2>1 DEF PlacesOf
  <2>3. PICK k \in V : \A m \in V : k <= m
    BY <2>2, LeastNumber
  <2>4. k \in Nat /\ Comes(p, k)
    BY <1>3 DEF PlacesOf
  <2>5. k \in Nat \ {0}
    BY <1>1, <2>4
  <2>6. Advances(p, k)
    BY <1>2, <2>5
  <2>7. k - 1 \in Nat /\ k - 1 \notin V
    BY <2>3, <2>5
  <2>8. ~Comes(p, k - 1)
    BY <1>3, <2>7 DEF PlacesOf
  <2>9. QED
    BY <2>4, <2>6, <2>8, PTL DEF Comes, Advances
<1>4. IInv /\ PlacesFormSets /\ Queued(p) => <>Waits(p)
  <2>1. IInv /\ Queued(p) => \E i \in Nat : In(p, i)
    BY Places DEF IInv, TypeOK, Queued, In, Range
  <2>2. PlacesFormSets => \E V \in SUBSET Nat : PlacesOf(p, V)
    BY DEF PlacesFormSets
  <2>3. QED
    BY <1>3, <2>1, <2>2
<1>5. QED
  BY <1>4, PTL

(* The first event of a pid that the ring took is recorded, unless the process *)
(* ends: from what is reported by induction over the places of the ring, then  *)
(* over the stages of its task.                                               *)
THEOREM QueuedAlwaysRecorded == Spec /\ GuardFairness /\ []PlacesFormSets => QueuedIsRecorded
<1>1. ASSUME NEW p \in Pid
      PROVE  Spec /\ GuardFairness /\ []PlacesFormSets =>
               ((p \in Range(ring) /\ p \notin reported) ~> (p \in Range(log) \/ p \notin alive))
  <2>1. []IInv /\ [][Next]_vars /\ GuardFairness /\ []PlacesFormSets => (Queued(p) ~> Waits(p))
    BY QueuedIsTaken
  <2>2. Spec /\ GuardFairness => Recorded(p)
    BY TakenIsRecorded DEF EveryTakenRecorded
  <2>3. QED
    BY <2>1, <2>2, InvariantHolds, PTL DEF Spec, Queued, Over, Recorded
<1>2. QED
  BY <1>1 DEF QueuedIsRecorded
=============================================================================
