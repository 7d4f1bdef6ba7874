-------------------------- MODULE DirentScanProofs --------------------------
(***************************************************************************)
(* Theorems about DirentScan, for every set of threads and buffers, every    *)
(* size of header, buffer and length field and every size of CW_DIRENT.      *)
(***************************************************************************)
EXTENDS DirentScan, TLAPS

(* A buffer is one the kernel returns, or none. *)
LEMMA BufferFacts ==
  ASSUME NEW t \in Thread, NEW l \in Listing[t] \cup {NoListing}
  PROVE  /\ IsBuffer(l)
         /\ Len(l.entry) \in Nat
         /\ l.off \in [1..(Len(l.entry) + 1) -> Nat]
         /\ l.off[1] = 0
         /\ \A i \in Record(l) : \A j \in (i + 1)..(Len(l.entry) + 1) : l.off[i] + Header <= l.off[j]
<1>1. CASE l = NoListing
  <2>1. /\ NoListing.entry = <<>> /\ NoListing.off = <<0>> /\ Len(<<>>) = 0
        /\ NoListing = [entry |-> NoListing.entry, off |-> NoListing.off]
    BY DEF NoListing
  <2>2. <<>> \in Seq(SUBSET [gpu : Nat, blocked : BOOLEAN])
    OBVIOUS
  <2>3. <<0>> \in [1..1 -> Nat] /\ <<0>>[1] = 0
    OBVIOUS
  <2>4. IsBuffer(NoListing)
    BY <2>1, <2>2, <2>3 DEF IsBuffer, Record
  <2> QED BY <1>1, <2>1, <2>2, <2>4 DEF IsBuffer
<1>2. CASE l \in Listing[t]
  <2>1. IsBuffer(l)
    BY <1>2, DirentAssumption
  <2> QED BY <2>1 DEF IsBuffer
<1> QED BY <1>1, <1>2

(* What is true of a thread stays true while its own part of the state does. *)
LEMMA Frame ==
  ASSUME NEW t \in Thread,
         list'[t] = list[t], reclen'[t] = reclen[t], scan'[t] = scan[t], gone'[t] = gone[t]
  PROVE  /\ CursorInv(t) => CursorInv(t)'
         /\ LengthInv(t) => LengthInv(t)'
<1>1. Stays(t)' = Stays(t)
  BY DEF Stays, Hidden
<1>2. \A i, j : NextMet(t, i, j) <=> NextMet(t, i, j)'
  BY <1>1 DEF NextMet
<1>3. CursorInv(t) => CursorInv(t)'
  BY DEF CursorInv
<1>4. LengthInv(t) => LengthInv(t)'
  BY <1>1, <1>2 DEF LengthInv, Untouched
<1> QED BY <1>3, <1>4

(* At the start of a call and of a scan the buffer is as the kernel left it. *)
LEMMA Fresh ==
  ASSUME NEW t \in Thread, TypeOK', scan'[t].cur = 1, scan'[t].prev = 0, gone'[t] = {},
         reclen'[t] = Lengths(list'[t])
  PROVE  CursorInv(t)' /\ LengthInv(t)'
<1> DEFINE l == list'[t]
<1>0. l \in Listing[t] \cup {NoListing}
  BY DEF TypeOK
<1>1. Len(l.entry) \in Nat /\ l.off \in [1..(Len(l.entry) + 1) -> Nat] /\ l.off[1] = 0
  BY <1>0, BufferFacts
<1>2. Header \in Nat
  BY DirentAssumption
<1>3. CursorInv(t)'
  BY <1>1, <1>2 DEF CursorInv
<1>4. \A i \in Record(l) : Untouched(t, i)'
  <2> SUFFICES ASSUME NEW i \in Record(l) PROVE Untouched(t, i)'
    OBVIOUS
  <2>1. i \in Nat /\ l.off[i] \in Nat /\ l.off[i + 1] \in Nat
    <3> DEFINE n == Len(l.entry)
    <3>1. i \in 1..n /\ n \in Nat /\ l.off \in [1..(n + 1) -> Nat]
      BY <1>1 DEF Record
    <3> HIDE DEF n, l
    <3> QED BY <3>1
  <2>2. reclen'[t][i] = l.off[i + 1] - l.off[i]
    BY DEF Lengths
  <2> QED BY <2>1, <2>2 DEF Untouched
<1>5. LengthInv(t)'
  BY <1>1, <1>4 DEF LengthInv, Stays, Record, Hidden
<1> QED BY <1>3, <1>5

(* A record under the cursor is one of the buffer, which is not too large. *)
LEMMA UnderCursor ==
  ASSUME ScanInv, NEW t \in Thread, Examines(t)
  PROVE  /\ scan[t].cur \in Record(list[t]) /\ scan[t].prev \in Nat /\ scan[t].len \in Nat
         /\ Len(list[t].entry) \in Nat /\ Len(reclen[t]) = Len(list[t].entry)
         /\ list[t].off \in [1..(Len(list[t].entry) + 1) -> Nat]
         /\ reclen[t] \in [1..Len(list[t].entry) -> Nat]
         /\ list[t].off[scan[t].cur] + Header <= list[t].off[scan[t].cur + 1]
         /\ list[t].off[scan[t].cur + 1] < Word
<1> DEFINE l == list[t]  c == scan[t].cur  n == Len(l.entry)
<1>1. l \in Listing[t] \cup {NoListing} /\ c \in Nat \ {0} /\ reclen[t] \in Seq(Nat) /\ Len(reclen[t]) = n
      /\ scan[t].prev \in Nat /\ scan[t].len \in Nat
  BY DEF ScanInv, TypeOK
<1>2. n \in Nat /\ l.off \in [1..(n + 1) -> Nat]
      /\ \A i \in Record(l) : \A j \in (i + 1)..(n + 1) : l.off[i] + Header <= l.off[j]
  BY <1>1, BufferFacts
<1>3. c \in 1..(n + 1)
  BY DEF ScanInv, CursorInv
<1>4. Header \in Nat \ {0} /\ MaxBuffer \in Nat /\ Word \in Nat /\ MaxBuffer < Word
  BY DirentAssumption
<1>5. l.off[c] + Header <= l.off[n + 1]
  BY DEF Examines, InBuffer, Size
<1>6. l.off[n + 1] \in Nat /\ n + 1 \in 1..(n + 1)
  BY <1>2
<1>7. l.off[n + 1] <= MaxBuffer
  <2>1. ~(l.off[n + 1] > MaxBuffer)
    BY DEF ScanInv, Examines, TooLarge, Size
  <2> QED BY <2>1, <1>4, <1>6
<1>8. \A i \in 1..n : \A j \in (i + 1)..(n + 1) : l.off[i] + Header <= l.off[j]
  BY <1>2 DEF Record
<1>9. reclen[t] \in [1..n -> Nat]
  BY <1>1
<1> HIDE DEF l, c, n
<1>10. c \in 1..n
  <2>1. c # n + 1
    BY <1>4, <1>5, <1>6
  <2> QED BY <2>1, <1>2, <1>3
<1>11. l.off[c] + Header <= l.off[c + 1] /\ l.off[c + 1] \in Nat
  <2>1. c + 1 \in (c + 1)..(n + 1) /\ c + 1 \in 1..(n + 1)
    BY <1>2, <1>10
  <2> QED BY <2>1, <1>2, <1>8, <1>10
<1>12. l.off[c + 1] <= l.off[n + 1]
  <2>1. CASE c = n
    BY <2>1, <1>6
  <2>2. CASE c # n
    <3>1. c + 1 \in 1..n /\ n + 1 \in (c + 1 + 1)..(n + 1)
      BY <2>2, <1>2, <1>10
    <3>2. l.off[c + 1] + Header <= l.off[n + 1]
      BY <3>1, <1>8
    <3> QED BY <3>2, <1>4, <1>6, <1>11
  <2> QED BY <2>1, <2>2
<1>13. l.off[c + 1] < Word
  BY <1>4, <1>6, <1>7, <1>11, <1>12
<1> QED BY <1>1, <1>2, <1>9, <1>10, <1>11, <1>13 DEF l, c, n, Record

(* Once the record under the cursor is judged, the cursor is at the next. *)
LEMMA CursorStep ==
  ASSUME ScanInv, NEW t \in Thread, Show(t) \/ Hide(t)
  PROVE  CursorInv(t)'
<1> DEFINE l == list[t]  c == scan[t].cur  p == scan[t].prev  n == Len(l.entry)
           g == gone[t]  C == scan'[t].cur  P == scan'[t].prev  G == gone'[t]
<1>1. Examines(t) /\ list' = list
  BY DEF Show, Hide
<1>2. /\ c \in 1..n /\ p \in Nat /\ n \in Nat
      /\ l.off \in [1..(n + 1) -> Nat] /\ l.off[c] + Header <= l.off[c + 1]
  BY <1>1, UnderCursor DEF Record
<1>3. /\ Header * (c - 1) <= l.off[c] /\ p < c /\ g \subseteq 1..(c - 1) /\ p \notin g
      /\ (p + 1)..(c - 1) \subseteq g
  BY DEF ScanInv, CursorInv
<1>4. Header \in Nat
  BY DirentAssumption
<1>5. scan \in [Thread -> [cur : Nat \ {0}, prev : Nat, len : Nat]] /\ gone \in [Thread -> SUBSET Nat]
  BY DEF ScanInv, TypeOK
<1>6. C = c + 1 /\ ((P = c /\ G = g) \/ (P = p /\ G = g \cup {c}))
  <2>1. CASE Show(t)
    <3>1. scan' = [scan EXCEPT ![t] = [cur |-> c + 1, prev |-> c, len |-> reclen[t][c]]] /\ gone' = gone
      BY <2>1 DEF Show, Advance
    <3>2. scan'[t] = [cur |-> c + 1, prev |-> c, len |-> reclen[t][c]]
      BY <3>1, <1>5
    <3> QED BY <3>1, <3>2
  <2>2. CASE Hide(t)
    <3>1. G = g \cup {c}
      BY <1>5, <2>2 DEF Hide
    <3>2. CASE p # 0
      BY <3>1, <3>2, <1>5, <2>2 DEF Hide, Merged, Advance
    <3>3. CASE p = 0
      BY <3>1, <3>3, <1>5, <2>2 DEF Hide, Advance
    <3> QED BY <3>2, <3>3
  <2> QED BY <2>1, <2>2
<1> HIDE DEF l, c, p, n, g, C, P, G
<1>7. Header * (C - 1) <= l.off[C]
  <2>1. c \in Nat /\ l.off[c] \in Nat /\ l.off[c + 1] \in Nat
    BY <1>2
  <2>2. Header * c = Header * (c - 1) + Header /\ Header * (c - 1) \in Int /\ Header * c \in Int
    BY <2>1, <1>4
  <2>3. Header * c <= l.off[c + 1]
    <3> DEFINE x == Header * (c - 1)  y == Header * c
    <3>1. y = x + Header /\ x \in Int /\ x <= l.off[c] /\ l.off[c] + Header <= l.off[c + 1]
      BY <2>2, <1>2, <1>3
    <3> HIDE DEF x, y
    <3>2. y <= l.off[c + 1]
      BY <3>1, <2>1, <1>4
    <3> QED BY <3>2 DEF y
  <2>4. C - 1 = c
    BY <2>1, <1>6
  <2> QED BY <2>3, <2>4, <1>6
<1>8. C \in 1..(n + 1)
  BY <1>2, <1>6
<1>9. P < C /\ G \subseteq 1..(C - 1) /\ P \notin G /\ (P + 1)..(C - 1) \subseteq G
  <2>1. C - 1 = c /\ c \in 1..(C - 1) /\ \A i \in 1..(c - 1) : i \in 1..(C - 1) /\ i # c
    BY <1>2, <1>6
  <2>2. CASE P = c /\ G = g
    <3>1. (P + 1)..(C - 1) = {}
      BY <2>1, <2>2, <1>2
    <3> QED BY <3>1, <2>1, <2>2, <1>2, <1>3, <1>6
  <2>3. CASE P = p /\ G = g \cup {c}
    <3>1. \A i \in (P + 1)..(C - 1) : i \in (p + 1)..(c - 1) \/ i = c
      BY <2>1, <2>3, <1>2
    <3>2. P < C /\ P # c
      BY <2>3, <1>2, <1>3, <1>6
    <3> QED BY <3>1, <3>2, <2>1, <2>3, <1>3
  <2> QED BY <2>2, <2>3, <1>6
<1> QED BY <1>1, <1>7, <1>8, <1>9 DEF CursorInv, l, n, C, P, G

(* Every record from the cursor on stays; those between the last visible one  *)
(* and the cursor do not; with none visible yet, all of them do.              *)
LEMMA StaysFacts ==
  ASSUME ScanInv, NEW t \in Thread
  PROVE  /\ \A i \in Record(list[t]) : i >= scan[t].cur \/ scan[t].prev = 0 => i \in Stays(t)
         /\ scan[t].prev # 0 => \A k \in (scan[t].prev + 1)..(scan[t].cur - 1) : k \notin Stays(t)
<1> DEFINE n == Len(list[t].entry)  c == scan[t].cur  p == scan[t].prev  g == gone[t]
<1>1. n \in Nat
  BY BufferFacts DEF ScanInv, TypeOK
<1>2. c \in 1..(n + 1) /\ p < c /\ g \subseteq 1..(c - 1) /\ p \notin g /\ (p + 1)..(c - 1) \subseteq g
  BY DEF ScanInv, CursorInv
<1>3. p \in Nat
  BY DEF ScanInv, TypeOK
<1>4. Stays(t) = 1..n \ {i \in g : 1..i \ g # {}}
  BY DEF Stays, Hidden, Record
<1> HIDE DEF n, c, p, g
<1>5. \A i \in 1..n : i >= c => i \in Stays(t)
  BY <1>1, <1>2, <1>4
<1>6. p = 0 => \A i \in 1..n : i \in Stays(t)
  <2> SUFFICES ASSUME p = 0, NEW i \in 1..n, i \in g PROVE 1..i \ g = {}
    BY <1>4
  <2>1. \A k \in 1..i : k \in (p + 1)..(c - 1)
    BY <1>1, <1>2
  <2> QED BY <2>1, <1>2
<1>7. p # 0 => \A k \in (p + 1)..(c - 1) : k \notin Stays(t)
  <2> SUFFICES ASSUME p # 0, NEW k \in (p + 1)..(c - 1) PROVE k \notin Stays(t)
    OBVIOUS
  <2>1. k \in g /\ p \in 1..k /\ p \notin g
    BY <1>1, <1>2, <1>3
  <2> QED BY <2>1, <1>4
<1> QED BY <1>5, <1>6, <1>7 DEF n, c, p, Record

(* The record that stays next is the one a reader meets next; up to the cursor *)
(* the reader stays before it.                                                *)
LEMMA NextExists ==
  ASSUME ScanInv, NEW t \in Thread, NEW i \in Stays(t)
  PROVE  \E j \in (i + 1)..(Len(list[t].entry) + 1) :
           NextMet(t, i, j) /\ (i < scan[t].cur => j <= scan[t].cur)
<1> DEFINE n == Len(list[t].entry)  c == scan[t].cur  p == scan[t].prev
<1>1. n \in Nat /\ list[t].off \in [1..(n + 1) -> Nat]
  BY BufferFacts DEF ScanInv, TypeOK
<1>2. c \in 1..(n + 1) /\ p < c
  BY DEF ScanInv, CursorInv
<1>3. p \in Nat
  BY DEF ScanInv, TypeOK
<1>4. i \in 1..n
  BY DEF Stays, Record
<1>5. /\ \A k \in 1..n : k >= c \/ p = 0 => Untouched(t, k)
      /\ p # 0 => reclen[t][p] = scan[t].len /\ list[t].off[p] + scan[t].len = list[t].off[c]
      /\ \A k \in Stays(t) : k < p => \E j \in (k + 1)..p : NextMet(t, k, j)
  BY DEF ScanInv, LengthInv, Record
<1>6. /\ \A k \in 1..n : k >= c \/ p = 0 => k \in Stays(t)
      /\ p # 0 => \A k \in (p + 1)..(c - 1) : k \notin Stays(t)
  BY StaysFacts DEF Record
<1> HIDE DEF n, c, p
<1>7. CASE i < p
  <2>1. PICK j \in (i + 1)..p : NextMet(t, i, j)
    BY <1>5, <1>7
  <2>2. j \in (i + 1)..(n + 1) /\ j <= c
    BY <1>1, <1>2, <1>3, <1>4
  <2> QED BY <2>1, <2>2 DEF n, c
<1>8. CASE i = p
  <2>1. c \in (i + 1)..(n + 1) /\ c <= c /\ p # 0
    BY <1>1, <1>2, <1>3, <1>4, <1>8
  <2>2. c \in Stays(t) \cup {n + 1}
    BY <1>1, <1>2, <1>6
  <2>3. list[t].off[i] + reclen[t][i] = list[t].off[c] /\ \A k \in (i + 1)..(c - 1) : k \notin Stays(t)
    BY <2>1, <1>5, <1>6, <1>8
  <2> QED BY <2>1, <2>2, <2>3 DEF NextMet, n, c
<1>9. CASE i > p
  <2>1. i >= c \/ p = 0
    <3> SUFFICES ASSUME i < c, p # 0 PROVE FALSE
      BY <1>1, <1>2, <1>4
    <3>1. i \in (p + 1)..(c - 1)
      BY <1>2, <1>3, <1>4, <1>9
    <3> QED BY <3>1, <1>6
  <2>2. list[t].off[i] + reclen[t][i] = list[t].off[i + 1]
    BY <2>1, <1>4, <1>5 DEF Untouched
  <2>3. i + 1 \in (i + 1)..(n + 1) /\ (i < c => i + 1 <= c) /\ (i + 1)..((i + 1) - 1) = {}
    BY <1>1, <1>2, <1>4
  <2>4. i + 1 \in Stays(t) \cup {n + 1}
    BY <2>1, <1>1, <1>2, <1>4, <1>6
  <2> QED BY <2>2, <2>3, <2>4 DEF NextMet, n, c
<1> QED BY <1>3, <1>4, <1>7, <1>8, <1>9

LEMMA Remainder == ASSUME NEW w \in Nat, NEW x \in 0..(w - 1) PROVE x % w = x
  BY SMT

(* The length a record is merged into reaches the next record and fits.       *)
LEMMA MergedLength ==
  ASSUME ScanInv, NEW t \in Thread, Examines(t), scan[t].prev # 0
  PROVE  /\ (scan[t].len + reclen[t][scan[t].cur]) % Word = scan[t].len + reclen[t][scan[t].cur]
         /\ list[t].off[scan[t].prev] + (scan[t].len + reclen[t][scan[t].cur]) = list[t].off[scan[t].cur + 1]
<1> DEFINE n == Len(list[t].entry)  c == scan[t].cur  p == scan[t].prev
           a == list[t].off[p]  b == list[t].off[c]  e == list[t].off[c + 1]  x == scan[t].len  y == reclen[t][c]
<1>1. /\ c \in 1..n /\ n \in Nat /\ p \in Nat /\ x \in Nat /\ e < Word
      /\ list[t].off \in [1..(n + 1) -> Nat] /\ reclen[t] \in [1..n -> Nat]
  BY UnderCursor DEF Record
<1>2. p < c /\ p # 0
  BY DEF ScanInv, CursorInv
<1>3. a \in Nat /\ b \in Nat /\ e \in Nat /\ y \in Nat
  <2>1. p \in 1..(n + 1) /\ c \in 1..(n + 1) /\ c + 1 \in 1..(n + 1)
    <3>1. c \in 1..n /\ n \in Nat /\ p \in Nat /\ p < c /\ p # 0
      BY <1>1, <1>2
    <3> HIDE DEF p, c, n
    <3>2. p >= 1 /\ p <= n
      BY <3>1
    <3> QED BY <3>1, <3>2
  <2> QED BY <1>1, <2>1
<1>4. a + x = b
  BY DEF ScanInv, LengthInv
<1>5. b + y = e
  <2>1. c \in Nat /\ c \in Record(list[t])
    BY <1>1 DEF Record
  <2>2. Untouched(t, c)
    BY <2>1 DEF ScanInv, LengthInv
  <2> QED BY <2>2 DEF Untouched
<1>6. Word \in Nat
  BY DirentAssumption
<1> HIDE DEF a, b, e, x, y
<1>7. x + y \in 0..(Word - 1)
  BY <1>1, <1>3, <1>4, <1>5, <1>6
<1>8. (x + y) % Word = x + y
  BY <1>6, <1>7, Remainder
<1>9. a + (x + y) = e
  BY <1>1, <1>3, <1>4, <1>5
<1> QED BY <1>8, <1>9 DEF a, b, e, x, y

LEMMA ShowLengths ==
  ASSUME ScanInv, NEW t \in Thread, Show(t)
  PROVE  LengthInv(t)'
<1> DEFINE n == Len(list[t].entry)  c == scan[t].cur  l == list[t]
<1>1. Examines(t) /\ list' = list /\ reclen' = reclen /\ gone' = gone
  BY DEF Show
<1>2. c \in 1..n /\ n \in Nat /\ l.off \in [1..(n + 1) -> Nat]
  BY <1>1, UnderCursor DEF Record
<1>3. scan'[t] = [cur |-> c + 1, prev |-> c, len |-> reclen[t][c]]
  BY DEF Show, Advance, ScanInv, TypeOK
<1>4. Stays(t)' = Stays(t) /\ \A i, j : NextMet(t, i, j) <=> NextMet(t, i, j)'
  BY <1>1 DEF Stays, Hidden, NextMet
<1>5. \A i \in 1..n : i >= c => Untouched(t, i)
  BY DEF ScanInv, LengthInv, Record
<1>6. \A i \in Stays(t) : i < c => \E j \in (i + 1)..c : NextMet(t, i, j)
  <2> SUFFICES ASSUME NEW i \in Stays(t), i < c PROVE \E j \in (i + 1)..c : NextMet(t, i, j)
    OBVIOUS
  <2>1. PICK j \in (i + 1)..(n + 1) : NextMet(t, i, j) /\ j <= c
    BY NextExists
  <2>2. j \in (i + 1)..c
    BY <2>1, <1>2 DEF Stays, Record
  <2> QED BY <2>1, <2>2
<1> HIDE DEF n, c, l
<1>7. \A i \in 1..n : i >= c + 1 => Untouched(t, i)'
  BY SMTT(30), <1>1, <1>2, <1>5 DEF Untouched
<1>8. l.off[c] + reclen[t][c] = l.off[c + 1]
  BY <1>2, <1>5 DEF Untouched, l
<1> QED BY <1>1, <1>2, <1>3, <1>4, <1>6, <1>7, <1>8 DEF LengthInv, n, l, Record

(* At the head of the buffer hiding a record changes no length. *)
LEMMA HeadLengths ==
  ASSUME ScanInv, NEW t \in Thread, Hide(t), scan[t].prev = 0
  PROVE  LengthInv(t)'
<1> DEFINE n == Len(list[t].entry)  c == scan[t].cur
<1>1. Examines(t) /\ list' = list /\ reclen' = reclen
  BY DEF Hide
<1>2. scan'[t] = [cur |-> c + 1, prev |-> 0, len |-> scan[t].len]
  BY DEF Hide, Advance, ScanInv, TypeOK
<1>3. \A i \in Record(list[t]) : Untouched(t, i)
  BY DEF ScanInv, LengthInv
<1>4. \A i \in Stays(t)' : ~(i < 0)
  BY BufferFacts, <1>1 DEF Stays, Record
<1> QED BY <1>1, <1>2, <1>3, <1>4 DEF LengthInv, Untouched

LEMMA MergeLengths ==
  ASSUME ScanInv, NEW t \in Thread, Hide(t), scan[t].prev # 0
  PROVE  LengthInv(t)'
<1> DEFINE n == Len(list[t].entry)  c == scan[t].cur  p == scan[t].prev  l == list[t]  z == scan[t].len + reclen[t][c]
<1>1. Examines(t) /\ list' = list
  BY DEF Hide
<1>2. c \in 1..n /\ n \in Nat /\ p \in Nat /\ reclen[t] \in [1..n -> Nat]
  BY <1>1, UnderCursor DEF Record
<1>3. p < c /\ p # 0 /\ gone[t] \subseteq 1..(c - 1)
  BY DEF ScanInv, CursorInv
<1>4. z % Word = z /\ l.off[p] + z = l.off[c + 1]
  BY <1>1, MergedLength
<1>5. Merged(t) /\ gone'[t] = gone[t] \cup {c}
  BY DEF Hide, ScanInv, TypeOK
<1>6. scan'[t] = [cur |-> c + 1, prev |-> p, len |-> z]
  BY <1>4, <1>5 DEF Merged, Advance, ScanInv, TypeOK
<1>7. reclen'[t] = [reclen[t] EXCEPT ![p] = z]
  BY <1>4, <1>5 DEF Merged, ScanInv, TypeOK
<1>8. \A i \in 1..n : i # p => reclen'[t][i] = reclen[t][i]
  BY <1>2, <1>7
<1>9. reclen'[t][p] = z
  BY <1>2, <1>3, <1>7
<1>10. Stays(t)' \subseteq Stays(t) /\ \A i \in Stays(t) : i # c => i \in Stays(t)'
  <2> DEFINE g == gone[t]  G == gone'[t]
  <2>1. /\ Stays(t) = 1..n \ {i \in g : 1..i \ g # {}}
        /\ Stays(t)' = 1..n \ {i \in G : 1..i \ G # {}}
    BY <1>1 DEF Stays, Hidden, Record
  <2>2. G = g \cup {c} /\ g \subseteq 1..(c - 1)
    BY <1>3, <1>5
  <2> HIDE DEF g, G, c, n
  <2>3. \A i \in g : c \notin 1..i
    BY <2>2, <1>2
  <2>4. \A i \in g : 1..i \ G = 1..i \ g
    BY <2>2, <2>3
  <2>5. \A i \in 1..n : i # c => (i \in g <=> i \in G)
    BY <2>2
  <2> QED BY <2>1, <2>2, <2>4, <2>5
<1>11. /\ \A i \in 1..n : i >= c => Untouched(t, i)
       /\ \A i \in Stays(t) : i < p => \E j \in (i + 1)..p : NextMet(t, i, j)
  BY DEF ScanInv, LengthInv, Record
<1> HIDE DEF n, c, p, l, z
<1>12. \A i \in 1..n : i >= c + 1 => Untouched(t, i)'
  <2> SUFFICES ASSUME NEW i \in 1..n, i >= c + 1 PROVE Untouched(t, i)'
    OBVIOUS
  <2>1. i # p /\ i >= c
    BY <1>2, <1>3
  <2>2. Untouched(t, i)
    BY <2>1, <1>11
  <2>3. reclen'[t][i] = reclen[t][i]
    BY <2>1, <1>8
  <2> QED BY <2>2, <2>3, <1>1 DEF Untouched
<1>13. \A i \in Stays(t)' : i < p => \E j \in (i + 1)..p : NextMet(t, i, j)'
  <2> SUFFICES ASSUME NEW i \in Stays(t)', i < p PROVE \E j \in (i + 1)..p : NextMet(t, i, j)'
    OBVIOUS
  <2>1. i \in Stays(t) /\ i \in 1..n
    BY <1>10 DEF Stays, Record, n
  <2>2. PICK j \in (i + 1)..p : NextMet(t, i, j)
    BY <2>1, <1>11
  <2>3. reclen'[t][i] = reclen[t][i]
    BY <2>1, <1>2, <1>8
  <2>4. j \in Stays(t)'
    <3>1. j # n + 1 /\ j # c
      BY <2>1, <2>2, <1>2, <1>3
    <3>2. j \in Stays(t) \cup {n + 1}
      BY <2>2 DEF NextMet, n
    <3> QED BY <3>1, <3>2, <1>10
  <2>5. NextMet(t, i, j)'
    BY <2>2, <2>3, <2>4, <1>1, <1>10 DEF NextMet
  <2> QED BY <2>2, <2>5
<1> QED BY <1>1, <1>2, <1>3, <1>4, <1>6, <1>9, <1>12, <1>13 DEF LengthInv, n, l, Record

-----------------------------------------------------------------------------
(* The judgement of one record keeps the types. *)
LEMMA JudgeType ==
  ASSUME ScanInv, NEW t \in Thread, Show(t) \/ Hide(t)
  PROVE  TypeOK'
<1> DEFINE n == Len(list[t].entry)  c == scan[t].cur  p == scan[t].prev
<1>1. Examines(t) /\ UNCHANGED <<mode, allowed, dirent, pc, list, cause, calm, left>>
  BY DEF Show, Hide
<1>2. /\ c \in 1..n /\ n \in Nat /\ p \in Nat /\ scan[t].len \in Nat
      /\ Len(reclen[t]) = n /\ reclen[t] \in [1..n -> Nat]
  BY <1>1, UnderCursor DEF Record
<1>3. /\ scan \in [Thread -> [cur : Nat \ {0}, prev : Nat, len : Nat]] /\ gone \in [Thread -> SUBSET Nat]
      /\ reclen \in [Thread -> Seq(Nat)] /\ \A u \in Thread : Len(reclen[u]) = Len(list[u].entry)
  BY DEF ScanInv, TypeOK
<1>4. gone' \in [Thread -> SUBSET Nat]
  <2>1. gone' = gone \/ gone' = [gone EXCEPT ![t] = @ \cup {c}]
    BY DEF Show, Hide
  <2>2. c \in Nat
    BY <1>2
  <2> QED BY ZenonT(30), <2>1, <2>2, <1>3
<1>5. \/ \E v \in Nat, x \in Nat : scan' = [scan EXCEPT ![t] = [cur |-> c + 1, prev |-> v, len |-> x]] /\ reclen' = reclen
      \/ p # 0 /\ Merged(t)
  <2>1. c \in Nat /\ reclen[t][c] \in Nat
    BY <1>2
  <2>2. CASE Show(t)
    BY <2>1, <2>2 DEF Show, Advance
  <2>3. CASE Hide(t)
    BY <2>3, <1>2 DEF Hide, Advance
  <2> QED BY <2>2, <2>3
<1>6. /\ scan' \in [Thread -> [cur : Nat \ {0}, prev : Nat, len : Nat]]
      /\ reclen' \in [Thread -> Seq(Nat)] /\ \A u \in Thread : Len(reclen'[u]) = Len(list[u].entry)
  <2>0. c + 1 \in Nat \ {0}
    BY <1>2
  <2>1. CASE ~(p # 0 /\ Merged(t))
    <3>1. PICK v \in Nat, x \in Nat : scan' = [scan EXCEPT ![t] = [cur |-> c + 1, prev |-> v, len |-> x]] /\ reclen' = reclen
      BY <2>1, <1>5
    <3>2. [cur |-> c + 1, prev |-> v, len |-> x] \in [cur : Nat \ {0}, prev : Nat, len : Nat]
      BY <2>0
    <3> QED BY <3>1, <3>2, <1>3
  <2>2. CASE p # 0 /\ Merged(t)
    <3> DEFINE z == scan[t].len + reclen[t][c]
    <3>1. z % Word = z
      BY <2>2, <1>1, MergedLength
    <3>2. z \in Nat
      BY <1>2
    <3>3. scan' = [scan EXCEPT ![t] = [cur |-> c + 1, prev |-> p, len |-> z]]
      BY <2>2, <3>1 DEF Merged, Advance
    <3>4. [cur |-> c + 1, prev |-> p, len |-> z] \in [cur : Nat \ {0}, prev : Nat, len : Nat]
      BY <2>0, <3>2, <1>2
    <3>5. reclen' = [reclen EXCEPT ![t] = [reclen[t] EXCEPT ![p] = z]]
      BY <2>2, <3>1 DEF Merged
    <3>6. [reclen[t] EXCEPT ![p] = z] \in Seq(Nat) /\ Len([reclen[t] EXCEPT ![p] = z]) = n
      <4> HIDE DEF z
      <4>1. [reclen[t] EXCEPT ![p] = z] \in [1..n -> Nat]
        BY <3>2, <1>2
      <4> QED BY SMTT(30), <4>1, <1>2
    <3> QED BY <3>3, <3>4, <3>5, <3>6, <1>3
  <2> QED BY <2>1, <2>2
<1> QED BY <1>1, <1>4, <1>6 DEF ScanInv, TypeOK

(* What the kernel returns is well typed. *)
LEMMA ReturnedType ==
  ASSUME NEW t \in Thread, NEW l \in Listing[t]
  PROVE  Lengths(l) \in Seq(Nat) /\ Len(Lengths(l)) = Len(l.entry)
<1> DEFINE n == Len(l.entry)
<1>1. n \in Nat /\ l.off \in [1..(n + 1) -> Nat]
      /\ \A i \in Record(l) : \A j \in (i + 1)..(n + 1) : l.off[i] + Header <= l.off[j]
  BY BufferFacts
<1>2. Header \in Nat
  BY DirentAssumption
<1>3. \A i \in 1..n : l.off[i + 1] - l.off[i] \in Nat
  <2> SUFFICES ASSUME NEW i \in 1..n PROVE l.off[i + 1] - l.off[i] \in Nat
    OBVIOUS
  <2> HIDE DEF n
  <2>1. i + 1 \in (i + 1)..(n + 1) /\ l.off[i] \in Nat /\ l.off[i + 1] \in Nat
    BY <1>1
  <2>2. l.off[i] + Header <= l.off[i + 1]
    BY <2>1, <1>1 DEF Record, n
  <2> QED BY <2>1, <2>2, <1>2
<1>4. Lengths(l) \in [1..n -> Nat]
  BY <1>3 DEF Lengths, Record
<1> QED BY <1>1, <1>4

LEMMA TypeStep == ScanInv /\ [Next]_vars => TypeOK'
<1> SUFFICES ASSUME ScanInv, [Next]_vars PROVE TypeOK'
  OBVIOUS
<1>0. TypeOK /\ Thread \cap {0} = {}
  BY DirentAssumption DEF ScanInv
<1>s. \A kind \in {"change", "fault"} : Spend(kind) => left' \in [change : Nat, fault : Nat]
  <2>1. left \in [change : Nat, fault : Nat]
    BY <1>0 DEF TypeOK
  <2>2. ASSUME Spend("change") PROVE left' \in [change : Nat, fault : Nat]
    <3>1. left["change"] > 0 /\ left' = [left EXCEPT !["change"] = left["change"] - 1]
      BY <2>2 DEF Spend
    <3>2. left["change"] \in Nat
      BY <2>1
    <3>3. left["change"] - 1 \in Nat
      BY <3>1, <3>2
    <3> QED BY <2>1, <3>1, <3>3
  <2>3. ASSUME Spend("fault") PROVE left' \in [change : Nat, fault : Nat]
    <3>1. left["fault"] > 0 /\ left' = [left EXCEPT !["fault"] = left["fault"] - 1]
      BY <2>3 DEF Spend
    <3>2. left["fault"] \in Nat
      BY <2>1
    <3>3. left["fault"] - 1 \in Nat
      BY <3>1, <3>2
    <3> QED BY <2>1, <3>1, <3>3
  <2> QED BY <2>2, <2>3
<1>1. ASSUME NEW m \in Mode, SwitchMode(m) PROVE TypeOK'
  BY <1>0, <1>s, <1>1 DEF SwitchMode, TypeOK, callVars
<1>2. ASSUME NEW t \in Thread, ChangeGrant(t) PROVE TypeOK'
  BY <1>0, <1>s, <1>2 DEF ChangeGrant, TypeOK, callVars
<1>3. ASSUME NEW t \in Thread, Enter(t) PROVE TypeOK'
  <2>1. /\ dirent' \subseteq Thread /\ cause' \in [Thread -> Causes] /\ pc' \in [Thread -> {"user", "kernel", "scan"}]
        /\ calm' \subseteq Thread /\ UNCHANGED <<mode, allowed, left>> /\ gone' \in [Thread -> SUBSET Nat]
    BY <1>0, <1>3 DEF Enter, TypeOK, Causes
  <2>2. ScanStart \in [cur : Nat \ {0}, prev : Nat, len : Nat]
    BY DEF ScanStart
  <2>3. scan' \in [Thread -> [cur : Nat \ {0}, prev : Nat, len : Nat]]
    BY <1>0, <1>3, <2>2 DEF Enter, TypeOK
  <2>4. list' = [u \in Thread |-> list'[u]] /\ \A u \in Thread : list'[u] \in Listing[u] \cup {NoListing}
    BY <1>0, <1>3 DEF Enter, TypeOK
  <2>5. <<>> \in Seq(Nat) /\ Len(<<>>) = 0 /\ Len(NoListing.entry) = 0
    BY DEF NoListing
  <2>6. reclen' \in [Thread -> Seq(Nat)] /\ \A u \in Thread : Len(reclen'[u]) = Len(list'[u].entry)
    BY <1>0, <1>3, <2>5 DEF Enter, TypeOK
  <2> QED BY <1>0, <2>1, <2>3, <2>4, <2>6 DEF TypeOK
<1>4. ASSUME NEW t \in Thread, NEW l \in Listing[t], Exit(t, l) PROVE TypeOK'
  <2>1. /\ dirent' \subseteq Thread /\ cause' \in [Thread -> Causes] /\ pc' \in [Thread -> {"user", "kernel", "scan"}]
        /\ UNCHANGED <<mode, allowed, scan, gone, calm, left>>
    BY <1>0, <1>4 DEF Exit, Drained, TypeOK, Causes
  <2>2. list' = [u \in Thread |-> list'[u]] /\ \A u \in Thread : list'[u] \in Listing[u] \cup {NoListing}
    BY <1>0, <1>4 DEF Exit, TypeOK
  <2>3. Lengths(l) \in Seq(Nat) /\ Len(Lengths(l)) = Len(l.entry)
    BY ReturnedType
  <2>4. reclen' \in [Thread -> Seq(Nat)] /\ \A u \in Thread : Len(reclen'[u]) = Len(list'[u].entry)
    BY <1>0, <1>4, <2>3 DEF Exit, TypeOK
  <2> QED BY <1>0, <2>1, <2>2, <2>4 DEF TypeOK
<1>5. ASSUME NEW t \in Thread, Show(t) \/ Hide(t) PROVE TypeOK'
  BY <1>5, JudgeType
<1>6. ASSUME NEW t \in Thread, NEW why \in Causes, Finish(t, why) PROVE UNCHANGED left \/ Spend("fault") => TypeOK'
  BY <1>0, <1>s, <1>6 DEF Finish, TypeOK
<1>7. ASSUME NEW t \in Thread, Stop(t) PROVE TypeOK'
  BY <1>6, <1>7 DEF Stop, Causes
<1>8. ASSUME NEW t \in Thread, Fail(t) PROVE TypeOK'
  BY <1>6, <1>8 DEF Fail, Causes
<1>9. CASE UNCHANGED vars
  BY <1>0, <1>9 DEF vars, callVars, TypeOK
<1> QED BY <1>1, <1>2, <1>3, <1>4, <1>5, <1>7, <1>8, <1>9 DEF Next

(* What ScanInv says of one thread. *)
ThreadInv(t) ==
  /\ CursorInv(t) /\ LengthInv(t)
  /\ pc[t] = "kernel" => list[t] = NoListing
  /\ pc[t] = "scan" => ~TooLarge(list[t])

LEMMA ThreadFrame ==
  ASSUME NEW t \in Thread, ThreadInv(t), pc'[t] = pc[t] \/ pc'[t] = "user",
         list'[t] = list[t], reclen'[t] = reclen[t], scan'[t] = scan[t], gone'[t] = gone[t]
  PROVE  ThreadInv(t)'
  BY Frame DEF ThreadInv, TooLarge, Size

LEMMA ThreadStep == ScanInv /\ [Next]_vars => \A t \in Thread : ThreadInv(t)'
<1> SUFFICES ASSUME ScanInv, [Next]_vars, NEW t \in Thread PROVE ThreadInv(t)'
  OBVIOUS
<1>0. TypeOK /\ TypeOK' /\ \A u \in Thread : ThreadInv(u)
  BY TypeStep DEF ScanInv, ThreadInv
<1>1. CASE \E m \in Mode : SwitchMode(m)
  BY <1>0, <1>1, ThreadFrame DEF SwitchMode, callVars
<1>2. ASSUME NEW u \in Thread, ChangeGrant(u) PROVE ThreadInv(t)'
  BY <1>0, <1>2, ThreadFrame DEF ChangeGrant, callVars
<1>3. ASSUME NEW u \in Thread, Enter(u) PROVE ThreadInv(t)'
  <2>1. CASE u # t
    BY <2>1, <1>0, <1>3, ThreadFrame DEF Enter, TypeOK
  <2>2. CASE u = t
    <3>1. /\ scan'[t] = ScanStart /\ gone'[t] = {} /\ list'[t] = NoListing /\ reclen'[t] = <<>> /\ pc'[t] = "kernel"
      BY <2>2, <1>0, <1>3 DEF Enter, TypeOK
    <3>2. <<>> = Lengths(NoListing)
      BY DEF Lengths, NoListing, Record
    <3>3. CursorInv(t)' /\ LengthInv(t)'
      BY <3>1, <3>2, <1>0, Fresh DEF ScanStart
    <3> QED BY <3>1, <3>3 DEF ThreadInv
  <2> QED BY <2>1, <2>2
<1>4. ASSUME NEW u \in Thread, NEW l \in Listing[u], Exit(u, l) PROVE ThreadInv(t)'
  <2>1. CASE u # t
    BY <2>1, <1>0, <1>4, ThreadFrame DEF Exit, TypeOK
  <2>2. CASE u = t
    <3>1. /\ list[t] = NoListing /\ CursorInv(t)
          /\ UNCHANGED <<scan, gone>> /\ list'[t] = l /\ reclen'[t] = Lengths(l)
          /\ pc'[t] = "user" \/ (pc'[t] = "scan" /\ ~TooLarge(l))
      BY <2>2, <1>0, <1>4 DEF Exit, TypeOK, ThreadInv
    <3>2. scan[t].cur = 1 /\ scan[t].prev = 0 /\ gone[t] = {}
      <4>1. Len(NoListing.entry) = 0 /\ scan[t].prev \in Nat
        BY <1>0 DEF NoListing, TypeOK
      <4>2. scan[t].cur \in 1..1 /\ scan[t].prev < scan[t].cur /\ gone[t] \subseteq 1..(scan[t].cur - 1)
        BY <3>1, <4>1 DEF CursorInv
      <4> QED BY <4>1, <4>2
    <3>3. CursorInv(t)' /\ LengthInv(t)'
      BY <3>1, <3>2, <1>0, Fresh
    <3> QED BY <3>1, <3>3 DEF ThreadInv, TooLarge, Size
  <2> QED BY <2>1, <2>2
<1>5. ASSUME NEW u \in Thread, Show(u) \/ Hide(u) PROVE ThreadInv(t)'
  <2>1. UNCHANGED <<list, pc>>
    BY <1>5 DEF Show, Hide
  <2>2. CASE u # t
    <3>0. /\ scan \in [Thread -> [cur : Nat \ {0}, prev : Nat, len : Nat]]
          /\ gone \in [Thread -> SUBSET Nat] /\ reclen \in [Thread -> Seq(Nat)]
      BY <1>0 DEF TypeOK
    <3>1. reclen'[t] = reclen[t] /\ scan'[t] = scan[t] /\ gone'[t] = gone[t]
      <4>1. CASE Show(u)
        BY <4>1, <2>2, <3>0 DEF Show, Advance
      <4>2. CASE Hide(u)
        <5>1. gone'[t] = gone[t]
          BY <4>2, <2>2, <3>0 DEF Hide
        <5>2. reclen'[t] = reclen[t] /\ scan'[t] = scan[t]
          BY <4>2, <2>2, <3>0 DEF Hide, Merged, Advance
        <5> QED BY <5>1, <5>2
      <4> QED BY <4>1, <4>2, <1>5
    <3> QED BY <2>1, <3>1, <1>0, ThreadFrame
  <2>3. CASE u = t
    <3>1. CursorInv(t)'
      BY <2>3, <1>5, CursorStep
    <3>2. LengthInv(t)'
      BY <2>3, <1>5, ShowLengths, HeadLengths, MergeLengths
    <3> QED BY <3>1, <3>2, <2>1, <1>0 DEF ThreadInv, TooLarge, Size
  <2> QED BY <2>2, <2>3
<1>6. ASSUME NEW u \in Thread, Stop(u) \/ Fail(u) PROVE ThreadInv(t)'
  <2>1. /\ pc'[t] = pc[t] \/ pc'[t] = "user"
        /\ UNCHANGED <<list, reclen, scan, gone>>
    BY <1>0, <1>6 DEF Stop, Fail, Finish, TypeOK
  <2> QED BY <2>1, <1>0, ThreadFrame
<1>7. CASE UNCHANGED vars
  BY <1>0, <1>7, ThreadFrame DEF vars, callVars
<1> QED BY <1>1, <1>2, <1>3, <1>4, <1>5, <1>6, <1>7 DEF Next

LEMMA InitScan == Init => ScanInv
<1> SUFFICES ASSUME Init PROVE ScanInv
  OBVIOUS
<1>1. TypeOK
  <2>1. Len(NoListing.entry) = 0 /\ <<>> \in Seq(Nat) /\ Len(<<>>) = 0 /\ ScanStart \in [cur : Nat \ {0}, prev : Nat, len : Nat]
    BY DEF NoListing, ScanStart
  <2> QED BY <2>1, DirentAssumption DEF Init, TypeOK, Causes
<1>2. ASSUME NEW t \in Thread PROVE CursorInv(t) /\ LengthInv(t)
  <2>1. scan[t].cur = 1 /\ scan[t].prev = 0 /\ gone[t] = {} /\ list[t] = NoListing
    BY DEF Init, ScanStart
  <2>2. Len(NoListing.entry) = 0 /\ NoListing.off[1] = 0 /\ Record(NoListing) = {}
    BY DEF NoListing, Record
  <2>3. Header * (1 - 1) <= 0
    BY DirentAssumption
  <2>4. CursorInv(t)
    BY <2>1, <2>2, <2>3 DEF CursorInv
  <2> QED BY <2>1, <2>2, <2>4 DEF LengthInv, Stays
<1> QED BY <1>1, <1>2 DEF ScanInv, Init

THEOREM ScanInvariant == Spec => []ScanInv
<1>1. ScanInv /\ [Next]_vars => ScanInv'
  BY TypeStep, ThreadStep DEF ScanInv, ThreadInv
<1> QED BY InitScan, <1>1, PTL DEF Spec

(* Whatever the kernel returns and whatever changes meanwhile, the lengths of *)
(* a buffer lead a reader through exactly the records that are to be seen.    *)
THEOREM ReadersMeetTheRest == Spec => []ReaderMeetsRest
<1>1. ScanInv => ReaderMeetsRest
  BY NextExists DEF ReaderMeetsRest
<1> QED BY <1>1, ScanInvariant, PTL

(* CW_DIRENT has entries of calls under way only.                             *)
THEOREM NoEntryLeftBehind == Spec => []NoneLeftBehind
<1>1. Init => NoneLeftBehind
  BY DEF Init, NoneLeftBehind
<1>2. NoneLeftBehind /\ TypeOK /\ [Next]_vars => NoneLeftBehind'
  <2> SUFFICES ASSUME NoneLeftBehind, TypeOK, [Next]_vars PROVE NoneLeftBehind'
    OBVIOUS
  <2>1. ASSUME NEW t \in Thread, Enter(t) PROVE NoneLeftBehind'
    BY <2>1 DEF Enter, NoneLeftBehind, TypeOK
  <2>2. ASSUME NEW t \in Thread, NEW l \in Listing[t], Exit(t, l) PROVE NoneLeftBehind'
    BY <2>2 DEF Exit, Drained, NoneLeftBehind, TypeOK
  <2>3. ASSUME NEW t \in Thread, Stop(t) \/ Fail(t) PROVE NoneLeftBehind'
    BY <2>3 DEF Stop, Fail, Examines, Finish, NoneLeftBehind, TypeOK
  <2>4. CASE UNCHANGED <<dirent, pc>>
    BY <2>4 DEF NoneLeftBehind
  <2> QED BY <2>1, <2>2, <2>3, <2>4 DEF Next, SwitchMode, ChangeGrant, Show, Hide, vars, callVars
<1> QED BY <1>1, <1>2, ScanInvariant, PTL DEF Spec, ScanInv

(* The bound of the loop is never what ends a scan.                           *)
LEMMA WithinBound ==
  ASSUME ScanInv, NEW t \in Thread, pc[t] = "scan"
  PROVE  ~(scan[t].cur > MaxDirents)
<1> DEFINE l == list[t]  n == Len(l.entry)  c == scan[t].cur  q == MaxBuffer \div Header
<1>1. n \in Nat /\ l.off \in [1..(n + 1) -> Nat]
      /\ \A i \in Record(l) : \A j \in (i + 1)..(n + 1) : l.off[i] + Header <= l.off[j]
  BY BufferFacts DEF ScanInv, TypeOK
<1>2. c \in 1..(n + 1) /\ Header * (c - 1) <= l.off[c]
  BY DEF ScanInv, CursorInv
<1>3. Header \in Nat \ {0} /\ MaxBuffer \in Nat
  BY DirentAssumption
<1>4. ~(l.off[n + 1] > MaxBuffer)
  BY DEF ScanInv, TooLarge, Size
<1>5. \A i \in 1..n : \A j \in (i + 1)..(n + 1) : l.off[i] + Header <= l.off[j]
  BY <1>1 DEF Record
<1> HIDE DEF l, n, c
<1>6. c \in Nat /\ l.off[c] \in Nat /\ l.off[n + 1] \in Nat
  BY <1>1, <1>2
<1>7. l.off[c] <= MaxBuffer
  <2>1. CASE c = n + 1
    BY <2>1, <1>3, <1>4, <1>6
  <2>2. CASE c # n + 1
    <3>1. c \in 1..n /\ n + 1 \in (c + 1)..(n + 1)
      BY <2>2, <1>1, <1>2
    <3>2. l.off[c] + Header <= l.off[n + 1]
      BY <3>1, <1>5
    <3> QED BY <3>2, <1>3, <1>4, <1>6
  <2> QED BY <2>1, <2>2
<1>8. q \in Nat /\ MaxBuffer < Header * (q + 1)
  BY <1>3
<1> HIDE DEF q
<1>9. ~(c > q + 1)
  <2> SUFFICES ASSUME c > q + 1 PROVE FALSE
    OBVIOUS
  <2>1. c - 1 \in Nat /\ q + 1 \in Nat /\ q + 1 <= c - 1
    BY <1>6, <1>8
  <2>2. Header * (q + 1) <= Header * (c - 1) /\ Header * (q + 1) \in Nat /\ Header * (c - 1) \in Nat
    BY <2>1, <1>3
  <2> QED BY <2>2, <1>2, <1>3, <1>6, <1>7, <1>8
<1> QED BY <1>6, <1>8, <1>9 DEF MaxDirents, q, c

THEOREM TheBoundNeverCuts == Spec => []BoundNeverCuts
<1>1. Init => BoundNeverCuts
  BY DEF Init, BoundNeverCuts
<1>2. BoundNeverCuts /\ ScanInv /\ [Next]_vars => BoundNeverCuts'
  <2> SUFFICES ASSUME BoundNeverCuts, ScanInv, [Next]_vars, NEW u \in Thread PROVE cause'[u] # "bound"
    BY DEF BoundNeverCuts
  <2>1. cause \in [Thread -> Causes] /\ cause[u] # "bound"
    BY DEF ScanInv, TypeOK, BoundNeverCuts
  <2>2. ASSUME NEW t \in Thread, Enter(t) PROVE cause'[u] # "bound"
    BY <2>1, <2>2 DEF Enter
  <2>3. ASSUME NEW t \in Thread, NEW l \in Listing[t], Exit(t, l) PROVE cause'[u] # "bound"
    BY <2>1, <2>3 DEF Exit
  <2>4. ASSUME NEW t \in Thread, Stop(t) PROVE cause'[u] # "bound"
    <3>1. ~(scan[t].cur > MaxDirents)
      BY <2>4, WithinBound DEF Stop
    <3> QED BY <2>1, <2>4, <3>1 DEF Stop, Finish
  <2>5. ASSUME NEW t \in Thread, Fail(t) PROVE cause'[u] # "bound"
    BY <2>1, <2>5 DEF Fail, Finish
  <2>6. CASE UNCHANGED cause
    BY <2>1, <2>6
  <2> QED BY <2>2, <2>3, <2>4, <2>5, <2>6 DEF Next, SwitchMode, ChangeGrant, Show, Hide, vars, callVars
<1> QED BY <1>1, <1>2, ScanInvariant, PTL DEF Spec

-----------------------------------------------------------------------------
(* A calm call: what the entry program decided still holds, and the records   *)
(* judged so far were found blocked exactly if the other hooks block them.    *)
JudgedRight(t, i) == i \in gone[t] <=> ~Openable(t, i)
CalmInv(t) ==
  t \in calm =>
    /\ pc[t] = "kernel" => IF t \in dirent THEN ~SkipsCall(t) ELSE cause[t] = "none" => SkipsCall(t)
    /\ pc[t] = "scan" => ~SkipsCall(t) /\ \A i \in Record(list[t]) : i < scan[t].cur => JudgedRight(t, i)
    /\ pc[t] = "user" /\ cause[t] = "none" => \A i \in Record(list[t]) : JudgedRight(t, i)

LEMMA CalmFrame ==
  ASSUME NEW t \in Thread, CalmInv(t), t \in calm' => t \in calm, 0 \notin allowed, 0 \notin allowed',
         t \in calm' => UNCHANGED mode /\ (t \in allowed' <=> t \in allowed),
         t \in dirent' <=> t \in dirent, pc'[t] = pc[t], cause'[t] = cause[t],
         list'[t] = list[t], scan'[t] = scan[t], gone'[t] = gone[t]
  PROVE  CalmInv(t)'
<1> SUFFICES ASSUME t \in calm' PROVE CalmInv(t)'
  BY DEF CalmInv
<1>1. mode' = mode /\ t \in calm /\ (t \in allowed' <=> t \in allowed)
  OBVIOUS
<1>2. SkipsCall(t)' <=> SkipsCall(t)
  BY <1>1 DEF SkipsCall
<1>3. Lets(allowed', t, 0) <=> Lets(allowed, t, 0)
  BY <1>1 DEF Lets
<1>4. \A i : JudgedRight(t, i)' <=> JudgedRight(t, i)
  <2>1. \A e : IsInodeBlocked(mode', e, allowed', <<>>, t, 0) <=> IsInodeBlocked(mode, e, allowed, <<>>, t, 0)
    BY <1>1, <1>3 DEF IsInodeBlocked
  <2>2. \A i : Openable(t, i)' <=> Openable(t, i)
    BY <1>1, <2>1 DEF Openable, HookBlocks
  <2> QED BY <2>2 DEF JudgedRight
<1>5. Record(list[t])' = Record(list[t])
  BY DEF Record
<1> QED BY <1>1, <1>2, <1>4, <1>5 DEF CalmInv

(* A record under the cursor is blocked exactly if the other hooks block it. *)
LEMMA JudgedAlike ==
  ASSUME NEW t \in Thread, ~SkipsCall(t)
  PROVE  BlockedRecord(t) <=> ~Openable(t, scan[t].cur)
  BY DEF SkipsCall, BlockedRecord, Openable, HookBlocks

LEMMA CalmJudge ==
  ASSUME ScanInv, NEW t \in Thread, CalmInv(t), Show(t) \/ Hide(t)
  PROVE  CalmInv(t)'
<1> DEFINE c == scan[t].cur  n == Len(list[t].entry)
<1>1. Examines(t) /\ UNCHANGED <<mode, allowed, dirent, pc, list, cause, calm, left>>
  BY DEF Show, Hide
<1>2. pc[t] = "scan" /\ c \in 1..n /\ n \in Nat /\ gone[t] \subseteq 1..(c - 1)
  BY <1>1, UnderCursor DEF Examines, Record, ScanInv, CursorInv
<1> SUFFICES ASSUME t \in calm PROVE CalmInv(t)'
  BY <1>1 DEF CalmInv
<1>3. ~SkipsCall(t) /\ \A i \in 1..n : i < c => JudgedRight(t, i)
  BY <1>2 DEF CalmInv, Record
<1>4. SkipsCall(t)' = SkipsCall(t) /\ \A i : Openable(t, i)' = Openable(t, i)
  BY <1>1 DEF SkipsCall, Openable
<1>5. scan'[t].cur = c + 1
  BY DEF Show, Hide, Merged, Advance, ScanInv, TypeOK
<1>6. IF BlockedRecord(t) THEN gone'[t] = gone[t] \cup {c} ELSE gone'[t] = gone[t]
  BY DEF Show, Hide, ScanInv, TypeOK
<1>7. BlockedRecord(t) <=> ~Openable(t, c)
  BY <1>3, JudgedAlike
<1>8. \A i \in 1..n : i < c + 1 => JudgedRight(t, i)'
  <2> SUFFICES ASSUME NEW i \in 1..n, i < c + 1 PROVE JudgedRight(t, i)'
    OBVIOUS
  <2> HIDE DEF c, n
  <2>1. CASE i = c
    <3>1. c \notin gone[t]
      BY <1>2
    <3> QED BY <2>1, <3>1, <1>4, <1>6, <1>7 DEF JudgedRight
  <2>2. CASE i # c
    <3>1. i < c
      BY <2>2, <1>2
    <3>2. i \in gone[t] <=> ~Openable(t, i)
      BY <3>1, <1>3 DEF JudgedRight
    <3> QED BY <2>2, <3>2, <1>4, <1>6 DEF JudgedRight
  <2> QED BY <2>1, <2>2
<1> QED BY <1>1, <1>2, <1>3, <1>4, <1>5, <1>8 DEF CalmInv, Record

LEMMA CalmEnter ==
  ASSUME ScanInv, NoneLeftBehind, NEW t \in Thread, Enter(t)
  PROVE  CalmInv(t)'
<1>1. pc'[t] = "kernel" /\ t \notin dirent /\ UNCHANGED mode
  BY DEF Enter, NoneLeftBehind, ScanInv, TypeOK
<1>2. SkipsCall(t)' = SkipsCall(t)
  BY <1>1 DEF SkipsCall
<1>3. IF t \in dirent' THEN ~SkipsCall(t) ELSE cause'[t] = "none" => SkipsCall(t)
  BY <1>1 DEF Enter, ScanInv, TypeOK
<1> QED BY <1>1, <1>2, <1>3 DEF CalmInv

LEMMA CalmExit ==
  ASSUME ScanInv, NEW t \in Thread, NEW l \in Listing[t], CalmInv(t), Exit(t, l)
  PROVE  CalmInv(t)'
<1> SUFFICES ASSUME t \in calm' PROVE CalmInv(t)'
  BY DEF CalmInv
<1>1. /\ t \in calm /\ pc[t] = "kernel" /\ UNCHANGED <<mode, allowed, scan, gone>> /\ list'[t] = l
      /\ list[t] = NoListing
  BY DEF Exit, ScanInv, TypeOK
<1>2. IF t \in dirent THEN ~SkipsCall(t) ELSE cause[t] = "none" => SkipsCall(t)
  BY <1>1 DEF CalmInv
<1>3. scan[t].cur = 1 /\ gone[t] = {}
  <2>1. Len(NoListing.entry) = 0
    BY DEF NoListing
  <2>2. scan[t].cur \in 1..1 /\ gone[t] \subseteq 1..(scan[t].cur - 1)
    BY <1>1, <2>1 DEF ScanInv, CursorInv
  <2> QED BY <2>2
<1>4. SkipsCall(t)' = SkipsCall(t)
  BY <1>1 DEF SkipsCall
<1>5. CASE t \in dirent /\ Size(l) # 0 /\ ~TooLarge(l)
  <2>1. pc'[t] = "scan"
    BY <1>5 DEF Exit, ScanInv, TypeOK
  <2>2. \A i \in Record(l) : ~(i < 1)
    BY BufferFacts DEF Record
  <2> QED BY <2>1, <2>2, <1>1, <1>2, <1>3, <1>4, <1>5 DEF CalmInv
<1>6. CASE ~(t \in dirent /\ Size(l) # 0 /\ ~TooLarge(l))
  <2>1. pc'[t] = "user"
    BY <1>6 DEF Exit, ScanInv, TypeOK
  <2>2. cause'[t] = "none" => Record(l) = {} \/ SkipsCall(t)
    <3>1. CASE t \in dirent
      <4>1. cause'[t] = "none" => ~TooLarge(l)
        BY <3>1 DEF Exit, ScanInv, TypeOK
      <4>2. Size(l) = 0 => Record(l) = {}
        <5> DEFINE n == Len(l.entry)
        <5>1. n \in Nat /\ l.off[1] = 0
              /\ \A i \in Record(l) : \A j \in (i + 1)..(n + 1) : l.off[i] + Header <= l.off[j]
          BY BufferFacts
        <5>2. CASE n = 0
          BY <5>2 DEF Record
        <5>3. CASE n # 0
          <6>1. 1 \in Record(l) /\ n + 1 \in (1 + 1)..(n + 1)
            BY <5>1, <5>3 DEF Record
          <6>2. 0 + Header <= Size(l)
            BY <5>1, <6>1 DEF Size
          <6> QED BY <6>2, DirentAssumption
        <5> QED BY <5>2, <5>3
      <4> QED BY <3>1, <4>1, <4>2, <1>6
    <3>2. CASE t \notin dirent
      BY <3>2, <1>2 DEF Exit, ScanInv, TypeOK
    <3> QED BY <3>1, <3>2
  <2>3. SkipsCall(t) => \A i : Openable(t, i)'
    BY <1>1 DEF SkipsCall, Openable, HookBlocks
  <2>4. cause'[t] = "none" => \A i \in Record(l) : JudgedRight(t, i)'
    BY <2>2, <2>3, <1>1, <1>3 DEF JudgedRight
  <2> QED BY <2>1, <2>4, <1>1 DEF CalmInv
<1> QED BY <1>5, <1>6

LEMMA CalmStop ==
  ASSUME ScanInv, NEW t \in Thread, CalmInv(t), Stop(t) \/ Fail(t)
  PROVE  CalmInv(t)'
<1> SUFFICES ASSUME t \in calm', cause'[t] = "none" PROVE CalmInv(t)'
  BY DEF CalmInv, Stop, Fail, Examines, Finish, ScanInv, TypeOK
<1>1. Stop(t) /\ pc[t] = "scan" /\ t \in calm /\ pc'[t] = "user" /\ UNCHANGED <<mode, allowed, list, scan, gone>>
  BY DEF Stop, Fail, Finish, ScanInv, TypeOK
<1>2. ~InBuffer(t)
  <2>1. cause'[t] = IF scan[t].cur > MaxDirents THEN "bound" ELSE IF InBuffer(t) THEN "malformed" ELSE "none"
    BY <1>1 DEF Stop, Finish, ScanInv, TypeOK
  <2> QED BY <2>1
<1> DEFINE l == list[t]  n == Len(l.entry)  c == scan[t].cur
<1>3. n \in Nat /\ \A i \in Record(l) : \A j \in (i + 1)..(n + 1) : l.off[i] + Header <= l.off[j]
  BY BufferFacts DEF ScanInv, TypeOK
<1>4. c \in 1..(n + 1)
  BY DEF ScanInv, CursorInv
<1>5. c = n + 1
  <2> SUFFICES ASSUME c # n + 1 PROVE FALSE
    OBVIOUS
  <2>1. c \in 1..n /\ n + 1 \in (c + 1)..(n + 1)
    <3> HIDE DEF c, n
    <3> QED BY <1>3, <1>4
  <2>2. l.off[c] + Header <= l.off[n + 1]
    BY <2>1, <1>3 DEF Record
  <2> QED BY <2>2, <1>2 DEF InBuffer, Size
<1>6. \A i \in Record(l) : i < c
  BY <1>3, <1>5 DEF Record
<1>7. \A i \in Record(l) : JudgedRight(t, i)
  BY <1>1, <1>6 DEF CalmInv
<1>8. \A i : JudgedRight(t, i)' <=> JudgedRight(t, i)
  BY <1>1 DEF JudgedRight, Openable
<1> QED BY <1>1, <1>7, <1>8 DEF CalmInv

(* A calm call lists what a program can open and, at its head, what cannot be *)
(* merged into a record before it.                                           *)
THEOREM CalmListsWhatOpens == Spec => []ListsWhatOpens
<1> DEFINE Calm == \A t \in Thread : CalmInv(t)
<1>1. Init => Calm
  BY DEF Init, CalmInv
<1>2. Calm /\ ScanInv /\ NoneLeftBehind /\ [Next]_vars => Calm'
  <2> SUFFICES ASSUME Calm, ScanInv, NoneLeftBehind, [Next]_vars, NEW t \in Thread PROVE CalmInv(t)'
    OBVIOUS
  <2>0. TypeOK /\ CalmInv(t) /\ 0 \notin allowed /\ 0 \notin allowed'
    BY TypeStep, DirentAssumption DEF ScanInv, TypeOK
  <2> HIDE DEF Calm
  <2>1. ASSUME NEW m \in Mode, SwitchMode(m) PROVE CalmInv(t)'
    BY <2>1 DEF SwitchMode, CalmInv
  <2>2. ASSUME NEW u \in Thread, ChangeGrant(u) PROVE CalmInv(t)'
    <3>1. CASE u = t
      BY <3>1, <2>2 DEF ChangeGrant, CalmInv
    <3>2. CASE u # t
      <4>1. /\ (t \in calm' => t \in calm) /\ UNCHANGED mode /\ (t \in allowed' <=> t \in allowed)
            /\ UNCHANGED <<dirent, callVars>>
        BY <3>2, <2>2 DEF ChangeGrant
      <4> QED BY <4>1, <2>0, CalmFrame DEF callVars
    <3> QED BY <3>1, <3>2
  <2>3. ASSUME NEW u \in Thread, Enter(u) PROVE CalmInv(t)'
    <3>1. CASE u = t
      BY <3>1, <2>3, CalmEnter
    <3>2. CASE u # t
      <4>1. /\ (t \in calm' => t \in calm) /\ UNCHANGED <<mode, allowed>> /\ (t \in dirent' <=> t \in dirent)
            /\ pc'[t] = pc[t] /\ cause'[t] = cause[t] /\ list'[t] = list[t] /\ scan'[t] = scan[t] /\ gone'[t] = gone[t]
        BY <3>2, <2>0, <2>3 DEF Enter, TypeOK
      <4> QED BY <4>1, <2>0, CalmFrame
    <3> QED BY <3>1, <3>2
  <2>4. ASSUME NEW u \in Thread, NEW l \in Listing[u], Exit(u, l) PROVE CalmInv(t)'
    <3>1. CASE u = t
      BY <3>1, <2>0, <2>4, CalmExit
    <3>2. CASE u # t
      <4>1. /\ UNCHANGED <<mode, allowed, calm, scan, gone>> /\ (t \in dirent' <=> t \in dirent)
            /\ pc'[t] = pc[t] /\ cause'[t] = cause[t] /\ list'[t] = list[t]
        BY <3>2, <2>0, <2>4 DEF Exit, Drained, TypeOK
      <4> QED BY <4>1, <2>0, CalmFrame
    <3> QED BY <3>1, <3>2
  <2>5. ASSUME NEW u \in Thread, Show(u) \/ Hide(u) PROVE CalmInv(t)'
    <3>1. CASE u = t
      BY <3>1, <2>0, <2>5, CalmJudge
    <3>2. CASE u # t
      <4>1. /\ UNCHANGED <<mode, allowed, calm, dirent, pc, cause, list>>
            /\ scan'[t] = scan[t] /\ gone'[t] = gone[t]
        BY <3>2, <2>0, <2>5 DEF Show, Hide, Merged, Advance, TypeOK
      <4> QED BY <4>1, <2>0, CalmFrame
    <3> QED BY <3>1, <3>2
  <2>6. ASSUME NEW u \in Thread, Stop(u) \/ Fail(u) PROVE CalmInv(t)'
    <3>1. CASE u = t
      BY <3>1, <2>0, <2>6, CalmStop
    <3>2. CASE u # t
      <4>1. /\ UNCHANGED <<mode, allowed, calm, dirent, list, scan, gone>>
            /\ pc'[t] = pc[t] /\ cause'[t] = cause[t]
        BY <3>2, <2>0, <2>6 DEF Stop, Fail, Finish, TypeOK
      <4> QED BY <4>1, <2>0, CalmFrame
    <3> QED BY <3>1, <3>2
  <2>7. CASE UNCHANGED vars
    BY <2>0, <2>7, CalmFrame DEF vars, callVars
  <2> QED BY <2>1, <2>2, <2>3, <2>4, <2>5, <2>6, <2>7 DEF Next
<1>3. Calm /\ ScanInv => ListsWhatOpens
  <2> SUFFICES ASSUME Calm, ScanInv, NEW t \in calm, pc[t] = "user", cause[t] = "none", NEW i \in Record(list[t])
               PROVE i \in Stays(t) <=> Openable(t, i) \/ \A k \in 1..i : ~Openable(t, k)
    BY DEF ListsWhatOpens
  <2>1. t \in Thread
    BY DEF ScanInv, TypeOK
  <2>2. \A k \in Record(list[t]) : k \in gone[t] <=> ~Openable(t, k)
    BY <2>1 DEF CalmInv, JudgedRight
  <2>3. \A k \in 1..i : k \in Record(list[t])
    BY <2>1, BufferFacts DEF Record, ScanInv, TypeOK
  <2>4. (\A k \in 1..i : ~Openable(t, k)) <=> 1..i \ gone[t] = {}
    BY <2>2, <2>3
  <2> QED BY <2>2, <2>4 DEF Stays, Hidden
<1> QED BY <1>1, <1>2, <1>3, ScanInvariant, NoEntryLeftBehind, PTL DEF Spec
=============================================================================
