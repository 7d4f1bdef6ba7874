----------------------------- MODULE DirentScan -----------------------------
(***************************************************************************)
(* Directory listings.  getdents64 returns a buffer of records to a thread;  *)
(* the eBPF program at its entry notes the thread in CW_DIRENT, the one at    *)
(* its exit walks the buffer and hides a record by adding its length to the   *)
(* one before it.  Mode and grants change while a call is under way.          *)
(*                                                                          *)
(* A buffer is a list of records; record i begins at off[i], the buffer ends  *)
(* at off[n + 1], and entry[i] is what the key of the record has in the maps. *)
(***************************************************************************)
EXTENDS AccessPolicy, FiniteSets, Sequences, Integers

CONSTANTS
  Thread,      \* threads that list directories, each of a process of its own
  Exempt,      \* the daemon's and those of whitelisted programs
  Mode,        \* the modes that CW_MODE takes
  Listing,     \* the buffers the kernel may return to a thread
  Header,      \* sizeof(linux_dirent64)
  MaxRecord,   \* the longest record that counts as well formed
  MaxBuffer,   \* GETDENTS_BUF_MAX
  Word,        \* d_reclen is a number below Word
  Slots,       \* entries CW_DIRENT has room for
  MaxChanges,  \* bound: changes of the mode or of a grant
  MaxFaults    \* bound: failing reads and writes of user memory

Size(l)   == l.off[Len(l.entry) + 1]
Record(l) == 1..Len(l.entry)

(* What the kernel returns: records one after the other, none shorter than a  *)
(* header, each with the length to the next.                                 *)
IsBuffer(l) ==
  /\ l = [entry |-> l.entry, off |-> l.off]
  /\ l.entry \in Seq(SUBSET [gpu : Nat, blocked : BOOLEAN])
  /\ l.off \in [1..(Len(l.entry) + 1) -> Nat]
  /\ l.off[1] = 0
  /\ \A i \in Record(l) : \A j \in (i + 1)..(Len(l.entry) + 1) : l.off[i] + Header <= l.off[j]

ASSUME DirentAssumption ==
  /\ Exempt \subseteq Thread /\ Thread # {} /\ Thread \cap {0} = {}
  /\ {Header, MaxRecord, MaxBuffer, Word, Slots, MaxChanges, MaxFaults} \subseteq Nat
  /\ Header > 0 /\ MaxBuffer < Word /\ MaxRecord < Word
  /\ \A t \in Thread : \A l \in Listing[t] : IsBuffer(l)

MaxDirents == MaxBuffer \div Header + 1

VARIABLES
  mode,    \* CW_MODE
  allowed, \* CW_ALLOWED_PID
  dirent,  \* the threads that CW_DIRENT has an entry for
  pc,      \* "user", "kernel" between the two programs, "scan" in the second
  list,    \* the buffer of the thread's call as the kernel filled it
  reclen,  \* the lengths its records have now
  scan,    \* ScanCtx: the record under the cursor, the last visible one, its length
  gone,    \* history: records of list found blocked
  cause,   \* history: why records may have been left unexamined
  calm,    \* history: threads for which nothing changed since their call began
  left     \* what the bounds leave of changes and faults

callVars == <<pc, list, reclen, scan, gone, cause>>
vars == <<mode, allowed, dirent, callVars, calm, left>>

NoListing == [entry |-> <<>>, off |-> <<0>>]
Causes == {"none", "full", "large", "bound", "malformed", "fault"}

TypeOK ==
  /\ mode \in Mode /\ allowed \subseteq Thread /\ dirent \subseteq Thread
  /\ pc \in [Thread -> {"user", "kernel", "scan"}]
  /\ list = [t \in Thread |-> list[t]] /\ \A t \in Thread : list[t] \in Listing[t] \cup {NoListing}
  /\ reclen \in [Thread -> Seq(Nat)] /\ \A t \in Thread : Len(reclen[t]) = Len(list[t].entry)
  /\ gone \in [Thread -> SUBSET Nat]
  /\ scan \in [Thread -> [cur : Nat \ {0}, prev : Nat, len : Nat]]
  /\ cause \in [Thread -> Causes] /\ calm \subseteq Thread
  /\ left \in [change : Nat, fault : Nat]

Lengths(l) == [i \in Record(l) |-> l.off[i + 1] - l.off[i]]
ScanStart  == [cur |-> 1, prev |-> 0, len |-> 0]

Init ==
  /\ mode \in Mode /\ allowed = {} /\ dirent = {}
  /\ pc = [t \in Thread |-> "user"]
  /\ list = [t \in Thread |-> NoListing]
  /\ reclen = [t \in Thread |-> <<>>]
  /\ scan = [t \in Thread |-> ScanStart]
  /\ gone = [t \in Thread |-> {}]
  /\ cause = [t \in Thread |-> "none"]
  /\ calm = {}
  /\ left = [change |-> MaxChanges, fault |-> MaxFaults]

Spend(kind) == left[kind] > 0 /\ left' = [left EXCEPT ![kind] = @ - 1]

-----------------------------------------------------------------------------
(* The daemon and the exec hook write the maps at any moment.                 *)

SwitchMode(m) ==
  /\ m # mode /\ Spend("change")
  /\ mode' = m /\ calm' = {}
  /\ UNCHANGED <<allowed, dirent, callVars>>

ChangeGrant(t) ==
  /\ Spend("change")
  /\ allowed' = IF t \in allowed THEN allowed \ {t} ELSE allowed \cup {t}
  /\ calm' = calm \ {t}
  /\ UNCHANGED <<mode, dirent, callVars>>

-----------------------------------------------------------------------------
SkipsCall_Exempt(t) == mode = "hybrid"
SkipsCall(t)        == t \in Exempt \/ mode = "hybrid"

(* try_tracepoint_enter_getdents64: exempt programs and Hybrid mode leave no  *)
(* entry, nor does a full map.  The thread gives up its last buffer.          *)
Enter(t) ==
  /\ pc[t] = "user"
  /\ LET skip == SkipsCall(t)
         full == Cardinality(dirent) >= Slots
     IN  /\ dirent' = IF skip \/ full THEN dirent ELSE dirent \cup {t}
         /\ cause' = [cause EXCEPT ![t] = IF ~skip /\ full THEN "full" ELSE "none"]
  /\ pc' = [pc EXCEPT ![t] = "kernel"]
  /\ calm' = calm \cup {t}
  /\ list' = [list EXCEPT ![t] = NoListing]
  /\ reclen' = [reclen EXCEPT ![t] = <<>>]
  /\ scan' = [scan EXCEPT ![t] = ScanStart]
  /\ gone' = [gone EXCEPT ![t] = {}]
  /\ UNCHANGED <<mode, allowed, left>>

(* The retval guard of the exit hook.                                         *)
TooLarge(l) == Size(l) > MaxBuffer

(* try_tracepoint_exit_getdents64 up to bpf_loop: the entry goes first.       *)
Drained_LateOnly(t, scans) == IF scans THEN dirent \ {t} ELSE dirent
Drained(t, scans)          == dirent \ {t}

Exit(t, l) ==
  /\ pc[t] = "kernel"
  /\ LET scans == t \in dirent /\ Size(l) # 0 /\ ~TooLarge(l)
     IN  /\ dirent' = Drained(t, scans)
         /\ pc' = [pc EXCEPT ![t] = IF scans THEN "scan" ELSE "user"]
         /\ cause' = [cause EXCEPT ![t] = IF t \in dirent /\ TooLarge(l) THEN "large" ELSE @]
  /\ list' = [list EXCEPT ![t] = l]
  /\ reclen' = [reclen EXCEPT ![t] = Lengths(l)]
  /\ UNCHANGED <<mode, allowed, scan, gone, calm, left>>

-----------------------------------------------------------------------------
(* scan_dirent, one call per record.                                         *)

InBuffer(t)   == list[t].off[scan[t].cur] + Header <= Size(list[t])
WellFormed(t) == reclen[t][scan[t].cur] \in Header..MaxRecord
Examines(t)   == pc[t] = "scan" /\ scan[t].cur <= MaxDirents /\ InBuffer(t) /\ WellFormed(t)

(* is_inode_blocked for a process without a forced GPU, or with none of its   *)
(* own and a parent that has no grant.                                        *)
BlockedRecord(t) ==
  \E e \in list[t].entry[scan[t].cur] : IsInodeBlocked(mode, e, allowed, <<>>, t, 0)

Advance(t, prev, len) == scan' = [scan EXCEPT ![t] = [cur |-> @.cur + 1, prev |-> prev, len |-> len]]

Show(t) ==
  /\ Examines(t) /\ ~BlockedRecord(t)
  /\ Advance(t, scan[t].cur, reclen[t][scan[t].cur])
  /\ UNCHANGED <<mode, allowed, dirent, pc, list, reclen, gone, cause, calm, left>>

(* A record with a visible one before it is merged into that one; the ones at *)
(* the head of the buffer stay.                                              *)
Merged_Forgotten(t) == /\ reclen' = [reclen EXCEPT ![t][scan[t].prev] = (scan[t].len + reclen[t][scan[t].cur]) % Word]
                       /\ Advance(t, scan[t].prev, scan[t].len)
Merged(t) ==
  LET sum == (scan[t].len + reclen[t][scan[t].cur]) % Word
  IN  /\ reclen' = [reclen EXCEPT ![t][scan[t].prev] = sum]
      /\ Advance(t, scan[t].prev, sum)

Hide(t) ==
  /\ Examines(t) /\ BlockedRecord(t)
  /\ IF scan[t].prev # 0 THEN Merged(t)
                         ELSE Advance(t, 0, scan[t].len) /\ UNCHANGED reclen
  /\ gone' = [gone EXCEPT ![t] = @ \cup {scan[t].cur}]
  /\ UNCHANGED <<mode, allowed, dirent, pc, list, cause, calm, left>>

Finish(t, why) ==
  /\ pc' = [pc EXCEPT ![t] = "user"]
  /\ cause' = [cause EXCEPT ![t] = why]
  /\ UNCHANGED <<mode, allowed, dirent, list, reclen, scan, gone, calm>>

(* The loop ends: by its bound, past the last record, at a malformed one, or  *)
(* when a record cannot be read or a length cannot be written.                *)
Stop(t) ==
  /\ pc[t] = "scan" /\ ~Examines(t)
  /\ Finish(t, IF scan[t].cur > MaxDirents THEN "bound" ELSE IF InBuffer(t) THEN "malformed" ELSE "none")
  /\ UNCHANGED left
Fail(t) == Examines(t) /\ Spend("fault") /\ Finish(t, "fault")

Next ==
  \/ \E m \in Mode : SwitchMode(m)
  \/ \E t \in Thread : \/ ChangeGrant(t) \/ Enter(t) \/ Show(t) \/ Hide(t) \/ Stop(t) \/ Fail(t)
                       \/ \E l \in Listing[t] : Exit(t, l)

Spec == Init /\ [][Next]_vars

-----------------------------------------------------------------------------
(* Properties                                                                *)

(* Records found blocked with a visible one before them.                      *)
Hidden(t) == {i \in gone[t] : 1..i \ gone[t] # {}}
Stays(t)  == Record(list[t]) \ Hidden(t)

(* At any moment a reader who follows the lengths from the first record meets *)
(* every record that was not found blocked, and after the head of the buffer  *)
(* no other: the next one met is the next that stays (scan_dirent).           *)
NextMet(t, i, j) ==
  /\ list[t].off[i] + reclen[t][i] = list[t].off[j]
  /\ j \in Stays(t) \cup {Len(list[t].entry) + 1}
  /\ \A k \in (i + 1)..(j - 1) : k \notin Stays(t)
ReaderMeetsRest ==
  \A t \in Thread : \A i \in Stays(t) : \E j \in (i + 1)..(Len(list[t].entry) + 1) : NextMet(t, i, j)

(* A listing during which nothing changed agrees with the other hooks: behind *)
(* its head it has the entries that a program can open and no other, unless   *)
(* the map was full, the buffer too large or user memory failed.              *)
Openable(t, i) == ~HookBlocks(mode, t \in Exempt, list[t].entry[i], allowed, <<>>, t, 0)
ListsWhatOpens ==
  \A t \in calm : pc[t] = "user" /\ cause[t] = "none" =>
    \A i \in Record(list[t]) :
      i \in Stays(t) <=> Openable(t, i) \/ \A k \in 1..i : ~Openable(t, k)

(* No entry outlives its call, whatever the kernel returned, so CW_DIRENT     *)
(* never fills up with calls that are over.                                   *)
NoneLeftBehind == \A t \in dirent : pc[t] = "kernel"

(* The bound of the loop cuts no buffer short (MAX_DIRENTS).                  *)
BoundNeverCuts == \A t \in Thread : cause[t] # "bound"

-----------------------------------------------------------------------------
(* What ReaderMeetsRest needs to be inductive.  Records before the cursor are *)
(* judged; those between the last visible one and the cursor are merged into  *)
(* it; before it every record that stays leads to the next that stays; the    *)
(* others are as the kernel returned them.                                   *)
CursorInv(t) ==
  LET c == scan[t].cur  p == scan[t].prev
  IN  /\ c \in 1..(Len(list[t].entry) + 1)
      /\ Header * (c - 1) <= list[t].off[c]
      /\ p < c /\ gone[t] \subseteq 1..(c - 1) /\ p \notin gone[t]
      /\ (p + 1)..(c - 1) \subseteq gone[t]
Untouched(t, i) == list[t].off[i] + reclen[t][i] = list[t].off[i + 1]
LengthInv(t) ==
  LET c == scan[t].cur  p == scan[t].prev
  IN  /\ \A i \in Record(list[t]) : i >= c \/ p = 0 => Untouched(t, i)
      /\ p # 0 => reclen[t][p] = scan[t].len /\ list[t].off[p] + scan[t].len = list[t].off[c]
      /\ \A i \in Stays(t) : i < p => \E j \in (i + 1)..p : NextMet(t, i, j)
ScanInv ==
  /\ TypeOK
  /\ \A t \in Thread : CursorInv(t) /\ LengthInv(t)
  /\ \A t \in Thread : /\ pc[t] = "kernel" => list[t] = NoListing
                       /\ pc[t] = "scan" => ~TooLarge(list[t])
=============================================================================
