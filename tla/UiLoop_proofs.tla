---------------------------- MODULE UiLoop_proofs ----------------------------
(***************************************************************************)
(* Theorems about UiLoop, for any number of lines, any ring of trades and  *)
(* any connection.  First the ring by itself: it is the log of the last Cap*)
(* records.  Then the lines on their way to the screen, each of which is at*)
(* one place, and the trades behind them.                                  *)
(***************************************************************************)
EXTENDS UiLoop, FiniteSetTheorems, SequenceTheorems, TLAPS

-----------------------------------------------------------------------------
(* The ring of trades.                                                     *)

\* % Cap, on the numbers it is applied to.
Wrap(x) == IF x < Cap THEN x ELSE x - Cap

LEMMA Remainder ==
  ASSUME NEW x \in 0..(2 * Cap - 1)
  PROVE  x % Cap = Wrap(x) /\ Wrap(x) \in 0..(Cap - 1)
<1>1. Cap \in Nat \ {0}
  BY StoreAssumption DEF StoreAssumption
<1> QED
  BY <1>1 DEF Wrap

\* The place of the oldest record.
OldestAt == IF count < Cap THEN 0 ELSE cursor

\* Records from the oldest on, wrapping around, are the last of those added.
RingHolds ==
  /\ count = IF Len(added) < Cap THEN Len(added) ELSE Cap
  /\ \A i \in 1..count :
        records[Wrap(OldestAt + i - 1)] = added[Len(added) - count + i]

StoreInv == StoreTypeOK /\ RingHolds

LEMMA StoreInitially == StoreInit => StoreInv
<1> SUFFICES ASSUME StoreInit
             PROVE  StoreInv
  OBVIOUS
<1>1. Cap \in Nat \ {0} /\ Len(added) = 0 /\ added \in Seq(Record)
  BY StoreAssumption DEF StoreAssumption, StoreInit
<1> QED
  BY <1>1 DEF StoreInit, StoreInv, StoreTypeOK, RingHolds

LEMMA AddKeeps ==
  ASSUME StoreInv, NEW r \in Record, Add(r)
  PROVE  StoreInv'
<1> DEFINE n == Len(added)
<1>1. /\ Cap \in Nat \ {0} /\ n \in Nat /\ added \in Seq(Record)
      /\ cursor \in 0..(Cap - 1) /\ count \in 0..Cap /\ (count < Cap => cursor = count)
      /\ records \in [0..(Cap - 1) -> Record \cup {NoRecord}]
      /\ count = IF n < Cap THEN n ELSE Cap
  BY StoreAssumption, LenProperties DEF StoreAssumption, StoreInv, StoreTypeOK, RingHolds
<1>2. cursor' = Wrap(cursor + 1) /\ cursor' \in 0..(Cap - 1)
  <2>1. cursor + 1 \in 0..(2 * Cap - 1)
    BY <1>1
  <2> QED
    BY <2>1, Remainder DEF Add, Advance
<1>3. /\ added' \in Seq(Record) /\ Len(added') = n + 1 /\ added'[n + 1] = r
      /\ \A i \in 1..n : added'[i] = added[i]
  BY <1>1, AppendProperties DEF Add
<1>4. /\ records' \in [0..(Cap - 1) -> Record \cup {NoRecord}]
      /\ records'[cursor] = r
      /\ \A x \in 0..(Cap - 1) : x # cursor => records'[x] = records[x]
  BY <1>1 DEF Add
<1>5. /\ count' = (IF n + 1 < Cap THEN n + 1 ELSE Cap)
      /\ count' = IF count < Cap THEN count + 1 ELSE count
  BY <1>1 DEF Add, Counted
<1>6. count = Cap => count' = Cap /\ n >= Cap
  <2>1. /\ n \in Nat /\ Cap \in Nat \ {0} /\ count = IF n < Cap THEN n ELSE Cap
        /\ count' = IF count < Cap THEN count + 1 ELSE count
    BY <1>1, <1>5
  <2> HIDE DEF n
  <2> QED
    BY <2>1
<1>7. StoreTypeOK'
  BY <1>1, <1>2, <1>3, <1>4, <1>5 DEF StoreTypeOK, Wrap
<1>8. ASSUME NEW i \in 1..count'
      PROVE  records'[Wrap(OldestAt' + i - 1)] = added'[(n + 1) - count' + i]
  <2>1. CASE count < Cap
    <3>1. OldestAt = 0 /\ OldestAt' = 0 /\ cursor = count /\ count' = count + 1 /\ n = count
      BY <2>1, <1>1, <1>2, <1>5 DEF OldestAt, Wrap
    <3>2. Wrap(OldestAt' + i - 1) = i - 1 /\ i - 1 \in 0..(Cap - 1)
      BY <2>1, <3>1, <1>1 DEF Wrap
    <3>3. CASE i = count + 1
      BY <3>1, <3>2, <3>3, <1>1, <1>3, <1>4
    <3>4. CASE i \in 1..count
      <4>1. records[i - 1] = added[i]
        <5>1. records[Wrap(0 + i - 1)] = added[n - n + i]
          BY <3>1, <3>4 DEF StoreInv, RingHolds
        <5>2. Wrap(0 + i - 1) = i - 1 /\ n - n + i = i
          BY <3>2, <3>4, <3>1, <1>1
        <5> HIDE DEF n
        <5> QED
          BY <5>1, <5>2
      <4>2. records'[i - 1] = records[i - 1]
        BY <3>1, <3>2, <3>4, <1>1, <1>4
      <4>3. added'[i] = added[i] /\ (n + 1) - count' + i = i
        <5>1. i \in 1..n /\ n \in Nat /\ count' = n + 1
          BY <3>1, <3>4, <1>1
        <5> HIDE DEF n
        <5> QED
          BY <5>1, <1>3
      <4> QED
        BY <4>1, <4>2, <4>3, <3>2
    <3> QED
      BY <3>1, <3>3, <3>4, <1>1
  <2>2. CASE count = Cap
    <3>1. /\ OldestAt = cursor /\ OldestAt' = cursor' /\ count' = Cap
          /\ n >= Cap
      <4>1. count' = Cap /\ n >= Cap
        BY <2>2, <1>6
      <4>2. ~(count < Cap) /\ ~(count' < Cap)
        BY <4>1, <2>2, <1>1
      <4> QED
        BY <4>1, <4>2 DEF OldestAt
    <3>2. CASE i = Cap
      <4>1. Wrap(OldestAt' + i - 1) = cursor
        BY <3>1, <3>2, <1>1, <1>2 DEF Wrap
      <4> QED
        BY <4>1, <3>1, <3>2, <1>1, <1>3, <1>4
    <3>3. CASE i \in 1..(Cap - 1)
      <4> DEFINE x == Wrap(OldestAt' + i - 1)
      <4>1. /\ i + 1 \in 1..count
            /\ x = Wrap(OldestAt + (i + 1) - 1)
            /\ x \in 0..(Cap - 1) /\ x # cursor
        <5>1. i + 1 \in 1..count
          BY <3>3, <2>2, <1>1
        <5>2. cursor' = IF cursor + 1 < Cap THEN cursor + 1 ELSE 0
          BY <1>1, <1>2 DEF Wrap
        <5>3. x = Wrap(cursor' + i - 1) /\ Wrap(OldestAt + (i + 1) - 1) = Wrap(cursor + i)
          BY <3>1, <3>3, <1>1
        <5>4. Wrap(cursor' + i - 1) = Wrap(cursor + i)
          BY <5>2, <3>3, <1>1 DEF Wrap
        <5>5. Wrap(cursor + i) \in 0..(Cap - 1) /\ Wrap(cursor + i) # cursor
          BY <3>3, <1>1 DEF Wrap
        <5> HIDE DEF x
        <5> QED
          BY <5>1, <5>3, <5>4, <5>5
      <4>2. records[Wrap(OldestAt + (i + 1) - 1)] = added[n - count + (i + 1)]
        BY <4>1 DEF StoreInv, RingHolds
      <4>3. n - count + (i + 1) \in 1..n /\ n - count + (i + 1) = (n + 1) - count' + i
        BY <3>1, <3>3, <2>2, <1>1
      <4> QED
        BY <4>1, <4>2, <4>3, <1>3, <1>4
    <3> QED
      BY <3>1, <3>2, <3>3, <1>1
  <2> QED
    BY <2>1, <2>2, <1>1
<1>9. RingHolds'
  BY <1>3, <1>5, <1>8 DEF RingHolds
<1> QED
  BY <1>7, <1>9 DEF StoreInv

\* What Recent returns.
LEMMA RecentIsLatest ==
  StoreInv => Recent(Cap) = [i \in 1..count |-> added[Len(added) - count + i]]
<1> SUFFICES ASSUME StoreInv
             PROVE  Recent(Cap) = [i \in 1..count |-> added[Len(added) - count + i]]
  OBVIOUS
<1>1. /\ Cap \in Nat \ {0} /\ cursor \in 0..(Cap - 1) /\ count \in 0..Cap
      /\ (count < Cap => cursor = count)
  BY StoreAssumption DEF StoreAssumption, StoreInv, StoreTypeOK
<1>2. Start(count) = OldestAt
  <2>1. cursor - count + Cap \in 0..(2 * Cap - 1)
    BY <1>1
  <2>2. Start(count) = Wrap(cursor - count + Cap)
    BY <2>1, Remainder DEF Start
  <2> QED
    BY <2>2, <1>1 DEF Wrap, OldestAt
<1>3. ASSUME NEW i \in 1..count
      PROVE  records[(Start(count) + i - 1) % Cap] = added[Len(added) - count + i]
  <2>1. OldestAt + i - 1 \in 0..(2 * Cap - 1)
    BY <1>1 DEF OldestAt
  <2>2. (Start(count) + i - 1) % Cap = Wrap(OldestAt + i - 1)
    BY <2>1, <1>2, Remainder
  <2> QED
    BY <2>2 DEF StoreInv, RingHolds
<1>4. (IF Cap > count THEN count ELSE Cap) = count
  BY <1>1
<1>5. Recent(Cap) = [i \in 1..count |-> records[(Start(count) + i - 1) % Cap]]
  BY <1>4 DEF Recent
<1> QED
  BY <1>3, <1>5

\* Adding to the ring is adding to the log that BoundedLog describes.
LEMMA AddIsLogAdd ==
  ASSUME StoreInv, NEW r \in Record, Add(r)
  PROVE  Recent(Cap)' = Log!Latest(Append(Recent(Cap), r), Cap)
<1> DEFINE n == Len(added)
           R == [i \in 1..count |-> added[n - count + i]]
           A == Append(R, r)
           L == Log!Latest(A, Cap)
<1>1. /\ Cap \in Nat \ {0} /\ n \in Nat /\ added \in Seq(Record)
      /\ count \in 0..Cap /\ count <= n
      /\ count' = IF count < Cap THEN count + 1 ELSE count
      /\ Len(added') = n + 1 /\ added'[n + 1] = r
      /\ \A i \in 1..n : added'[i] = added[i] /\ added[i] \in Record
  BY StoreAssumption, LenProperties, AppendProperties
  DEF StoreAssumption, StoreInv, StoreTypeOK, RingHolds, Add, Counted
<1>2. Recent(Cap)' = [i \in 1..count' |-> added'[(n + 1) - count' + i]]
  <2>1. StoreInv'
    BY AddKeeps
  <2>2. StoreInv' => (Recent(Cap) = [i \in 1..count |-> added[Len(added) - count + i]])'
    BY RecentIsLatest, PTL
  <2> QED
    BY <2>1, <2>2, <1>1
<1>3. /\ R \in Seq(Record) /\ Len(R) = count
      /\ \A i \in 1..count : R[i] = added[n - count + i]
  <2>1. \A i \in 1..count : n - count + i \in 1..n
    BY <1>1
  <2>2. R \in [1..count -> Record]
    BY <2>1, <1>1
  <2> QED
    BY <2>2, <1>1, IsASeq, LenProperties
<1>4. /\ A \in Seq(Record) /\ Len(A) = count + 1 /\ A[count + 1] = r
      /\ \A i \in 1..count : A[i] = added[n - count + i]
  <2> HIDE DEF R
  <2> QED
    BY <1>1, <1>3, AppendProperties
<1>5. L = [i \in 1..count' |-> added'[(n + 1) - count' + i]]
  <2> HIDE DEF R, A
  <2>1. CASE count < Cap
    <3>1. L = A /\ count' = count + 1
      BY <2>1, <1>1, <1>4 DEF Log!Latest
    <3>2. ASSUME NEW i \in 1..(count + 1)
          PROVE  A[i] = added'[(n + 1) - (count + 1) + i]
      <4>1. CASE i = count + 1
        BY <4>1, <1>1, <1>4
      <4>2. CASE i \in 1..count
        <5>1. n - count + i \in 1..n /\ (n + 1) - (count + 1) + i = n - count + i
          BY <4>2, <1>1
        <5> QED
          BY <5>1, <4>2, <1>1, <1>4
      <4> QED
        BY <4>1, <4>2, <1>1
    <3>3. A = [i \in 1..(count + 1) |-> A[i]]
      BY <1>4, LenProperties
    <3> QED
      BY <3>1, <3>2, <3>3
  <2>2. CASE count = Cap
    <3>1. count' = Cap /\ Len(A) = Cap + 1
      BY <2>2, <1>1, <1>4
    <3>2. L = SubSeq(A, 2, Cap + 1)
      BY <3>1, <1>1 DEF Log!Latest
    <3>3. L = [i \in 1..Cap |-> A[i + 1]]
      BY <3>1, <3>2, <1>1, <1>4
    <3>4. ASSUME NEW i \in 1..Cap
          PROVE  A[i + 1] = added'[(n + 1) - Cap + i]
      <4>1. CASE i = Cap
        <5>1. i + 1 = count + 1 /\ (n + 1) - Cap + i = n + 1
          BY <4>1, <2>2, <1>1
        <5> QED
          BY <5>1, <1>1, <1>4
      <4>2. CASE i \in 1..(Cap - 1)
        <5>1. /\ i + 1 \in 1..count /\ n - count + (i + 1) \in 1..n
              /\ n - count + (i + 1) = (n + 1) - Cap + i
          BY <4>2, <2>2, <1>1
        <5> QED
          BY <5>1, <1>1, <1>4
      <4> QED
        BY <4>1, <4>2, <1>1
    <3> QED
      BY <3>1, <3>3, <3>4
  <2> QED
    BY <2>1, <2>2, <1>1
<1>6. Recent(Cap) = R
  BY RecentIsLatest
<1> QED
  BY <1>2, <1>5, <1>6

-----------------------------------------------------------------------------
(* The lines.  Each line that was handed over is at one place: in the      *)
(* buffer, on its way with FlushCmd's message, on the screen, or it came   *)
(* when the program was over.  A line that is still being logged is at     *)
(* none, and is the next of its goroutine.                                 *)

In(s) == {s[i] : i \in DOMAIN s}

Logging(g) == pc[g] \in {"logging", "sending"}

Handled ==
  {l \in Lines : /\ l[2] <= logged[l[1]]
                 /\ l[2] < logged[l[1]] \/ ~Logging(l[1])}

OnTheWay == IF flushing THEN In(flush) ELSE {}

Ascends(s) ==
  \A i, j \in DOMAIN s : i < j /\ s[i][1] = s[j][1] => s[i][2] < s[j][2]

EachOnce(s) == \A i, j \in DOMAIN s : s[i] = s[j] => i = j

PlacesInv ==
  /\ Handled = In(buf) \cup OnTheWay \cup In(shown) \cup unshown
  /\ In(buf) \cap (OnTheWay \cup In(shown) \cup unshown) = {}
  /\ OnTheWay \cap (In(shown) \cup unshown) = {}
  /\ In(shown) \cap unshown = {}
  /\ EachOnce(shown)

OrderInv ==
  /\ Ascends(buf) /\ Ascends(flush)
  /\ \A i, j \in DOMAIN shown :
        i < j /\ shown[i][1] = shown[j][1] /\ shown[i][2] > shown[j][2]
           => shown[j] \in In(flush)

LinesInv == PlacesInv /\ OrderInv

LoopTyped ==
  /\ ui \in {"setup", "starting", "waiting", "saving", "locking", "connecting",
             "asking", "stopping", "closing", "stopped", "done"}
  /\ program \in BOOLEAN
  /\ holder \in Loggers \cup {Nobody}
  /\ pc \in [Loggers -> {"idle", "logging", "sending", "notifying",
                         "relaying", "writing"}]
  /\ logged \in [Loggers -> Nat]
  /\ reading \in BOOLEAN /\ flushing \in BOOLEAN /\ quitting \in BOOLEAN
  /\ buf \in Seq(Lines) /\ flush \in Seq(Lines) /\ shown \in Seq(Lines)
  /\ unshown \subseteq Lines
  /\ link \in {"open", "stuck", "broken", "dialing", "ended"}

\* The steps of the connection.
ConnectionStep ==
  \/ ServerStalls \/ ServerReads \/ ConnectionBreaks \/ SessionEnds
  \/ Dialed \/ DialCancelled

\* The locks, and what is not yet begun.
LocksInv ==
  /\ \A g \in Loggers : logged[g] <= MaxLines[g] /\ (Logging(g) => logged[g] > 0)
  /\ \A g \in Loggers : holder = g <=> pc[g] = "sending"
  /\ ~(pc[Session] = "writing" /\ pc[Worker] = "writing")
  /\ ui \in {"asking", "closing"} => \A g \in Loggers : pc[g] # "writing"
  /\ ui \in {"setup", "starting"} => ~flushing /\ flush = << >>

\* The worker records a trade before it logs it, and numbers both alike.
TradesInv ==
  /\ StoreInv
  /\ Len(added) = logged[Worker]
  /\ \A i \in 1..Len(added) : added[i] = i

UiInv == LoopTyped /\ LocksInv /\ LinesInv /\ TradesInv
-----------------------------------------------------------------------------
(* Sequences of lines.                                                     *)

LEMMA AppendedLine ==
  ASSUME NEW s \in Seq(Lines), NEW x \in Lines
  PROVE  /\ Append(s, x) \in Seq(Lines)
         /\ In(Append(s, x)) = In(s) \cup {x}
         /\ EachOnce(s) /\ x \notin In(s) => EachOnce(Append(s, x))
         /\ Ascends(s) /\ (\A l \in In(s) : l[1] = x[1] => l[2] < x[2])
               => Ascends(Append(s, x))
<1> DEFINE a == Append(s, x)
           n == Len(s)
<1>1. /\ n \in Nat /\ DOMAIN s = 1..n /\ a \in Seq(Lines)
      /\ DOMAIN a = 1..(n + 1) /\ a[n + 1] = x /\ \A i \in 1..n : a[i] = s[i]
  BY LenProperties, AppendProperties
<1> HIDE DEF a, n
<1>2. In(a) = In(s) \cup {x}
  <2>1. /\ \A i \in DOMAIN a : (i \in DOMAIN s /\ a[i] = s[i]) \/ a[i] = x
        /\ \A i \in DOMAIN s : i \in DOMAIN a /\ a[i] = s[i]
        /\ n + 1 \in DOMAIN a /\ a[n + 1] = x
    BY <1>1
  <2> QED
    BY <2>1, Zenon DEF In
<1>3. EachOnce(s) /\ x \notin In(s) => EachOnce(a)
  BY <1>1 DEF EachOnce, In
<1>4. ASSUME Ascends(s), \A l \in In(s) : l[1] = x[1] => l[2] < x[2],
             NEW i \in DOMAIN a, NEW j \in DOMAIN a, i < j, a[i][1] = a[j][1]
      PROVE  a[i][2] < a[j][2]
  <2>1. i \in 1..n
    BY <1>1, <1>4
  <2>2. CASE j = n + 1
    BY <2>1, <2>2, <1>1, <1>4 DEF In
  <2>3. CASE j \in 1..n
    BY <2>1, <2>3, <1>1, <1>4 DEF Ascends
  <2> QED
    BY <2>2, <2>3, <1>1, <1>4
<1>5. Ascends(s) /\ (\A l \in In(s) : l[1] = x[1] => l[2] < x[2]) => Ascends(a)
  BY <1>4 DEF Ascends
<1> QED
  BY <1>1, <1>2, <1>3, <1>5 DEF a

LEMMA JoinedLines ==
  ASSUME NEW s \in Seq(Lines), NEW t \in Seq(Lines)
  PROVE  /\ s \o t \in Seq(Lines) /\ Len(s) \in Nat /\ DOMAIN s = 1..Len(s)
         /\ In(s \o t) = In(s) \cup In(t)
         /\ EachOnce(s) /\ EachOnce(t) /\ In(s) \cap In(t) = {} => EachOnce(s \o t)
         /\ \A i \in DOMAIN (s \o t) :
               \/ i \in DOMAIN s /\ (s \o t)[i] = s[i]
               \/ i > Len(s) /\ i - Len(s) \in DOMAIN t /\ (s \o t)[i] = t[i - Len(s)]
<1> DEFINE c == s \o t
           m == Len(s)
           n == Len(t)
<1>1. /\ m \in Nat /\ n \in Nat /\ DOMAIN s = 1..m /\ DOMAIN t = 1..n
      /\ c \in Seq(Lines) /\ DOMAIN c = 1..(m + n)
      /\ \A i \in 1..m : c[i] = s[i]
      /\ \A i \in (m + 1)..(m + n) : c[i] = t[i - m]
  BY LenProperties, ConcatProperties
<1> HIDE DEF c, m, n
<1>2. \A i \in DOMAIN c :
         \/ i \in DOMAIN s /\ c[i] = s[i]
         \/ i > m /\ i - m \in DOMAIN t /\ c[i] = t[i - m]
  BY <1>1
<1>3. \A i \in DOMAIN t : m + i \in DOMAIN c /\ c[m + i] = t[i]
  <2>1. \A i \in 1..n : m + i \in (m + 1)..(m + n) /\ (m + i) - m = i
    BY <1>1
  <2> QED
    BY <2>1, <1>1
<1>4. \A i \in DOMAIN s : i \in DOMAIN c /\ c[i] = s[i]
  BY <1>1
<1>5. In(c) = In(s) \cup In(t)
  <2>1. ASSUME NEW i \in DOMAIN c
        PROVE  c[i] \in In(s) \cup In(t)
    BY <1>2 DEF In
  <2>2. ASSUME NEW i \in DOMAIN s
        PROVE  s[i] \in In(c)
    BY <1>4 DEF In
  <2>3. ASSUME NEW i \in DOMAIN t
        PROVE  t[i] \in In(c)
    BY <1>3 DEF In
  <2> QED
    BY <2>1, <2>2, <2>3 DEF In
<1>6. ASSUME EachOnce(s), EachOnce(t), In(s) \cap In(t) = {},
             NEW i \in DOMAIN c, NEW j \in DOMAIN c, c[i] = c[j]
      PROVE  i = j
  <2>1. CASE i \in DOMAIN s /\ c[i] = s[i]
    <3>1. j \in DOMAIN s /\ c[j] = s[j]
      BY <1>2, <1>6, <2>1 DEF In
    <3> QED
      BY <1>6, <2>1, <3>1 DEF EachOnce
  <2>2. CASE i > m /\ i - m \in DOMAIN t /\ c[i] = t[i - m]
    <3>1. j > m /\ j - m \in DOMAIN t /\ c[j] = t[j - m]
      BY <1>2, <1>6, <2>2 DEF In
    <3>2. i - m = j - m
      BY <1>6, <2>2, <3>1 DEF EachOnce
    <3> QED
      BY <3>2, <1>1
  <2> QED
    BY <1>2, <2>1, <2>2
<1>7. EachOnce(s) /\ EachOnce(t) /\ In(s) \cap In(t) = {} => EachOnce(c)
  BY <1>6 DEF EachOnce
<1> QED
  BY <1>1, <1>2, <1>5, <1>7 DEF c, m

LEMMA AscendingOnce ==
  ASSUME NEW s \in Seq(Lines), Ascends(s)
  PROVE  EachOnce(s)
<1> SUFFICES ASSUME NEW i \in DOMAIN s, NEW j \in DOMAIN s, s[i] = s[j], i # j
             PROVE  FALSE
  BY DEF EachOnce
<1>1. i \in Nat /\ j \in Nat /\ s[i] \in Lines
  BY LenProperties, ElementOfSeq
<1>2. s[i][2] \in Nat
  BY <1>1 DEF Lines
<1> QED
  BY <1>1, <1>2 DEF Ascends

LEMMA OccursOnce ==
  ASSUME NEW s, EachOnce(s), NEW line
  PROVE  Occurrences(line, s) = IF line \in In(s) THEN 1 ELSE 0
<1> DEFINE at == {i \in DOMAIN s : s[i] = line}
<1>1. CASE line \in In(s)
  <2>1. PICK i \in DOMAIN s : s[i] = line
    BY <1>1 DEF In
  <2>2. at = {i}
    BY <2>1 DEF EachOnce
  <2> QED
    BY <1>1, <2>2, FS_Singleton DEF Occurrences
<1>2. CASE line \notin In(s)
  <2>1. at = {}
    BY <1>2 DEF In
  <2> QED
    BY <1>2, <2>1, FS_EmptySet DEF Occurrences
<1> QED
  BY <1>1, <1>2

-----------------------------------------------------------------------------
(* Steps that hand over no line.                                           *)

LEMMA QuietLines ==
  ASSUME LinesInv, UNCHANGED textVars, Handled' = Handled
  PROVE  LinesInv'
<1>1. OnTheWay' = OnTheWay
  BY DEF OnTheWay, textVars, In
<1>2. PlacesInv'
  BY <1>1 DEF LinesInv, PlacesInv, textVars, In, EachOnce
<1>3. OrderInv'
  BY DEF LinesInv, OrderInv, textVars, In, Ascends
<1> QED
  BY <1>2, <1>3 DEF LinesInv

LEMMA QuietTrades ==
  ASSUME TradesInv, UNCHANGED storeVars, logged'[Worker] = logged[Worker]
  PROVE  TradesInv'
  BY DEF TradesInv, StoreInv, StoreTypeOK, RingHolds, OldestAt, storeVars

\* A step of the main goroutine, of the validation or of the connection.
LEMMA MainKeeps ==
  ASSUME UiInv, UNCHANGED <<holder, pc, logged, textVars, storeVars>>,
         ui' \in {"setup", "starting", "waiting", "saving", "locking", "connecting",
                 "asking", "stopping", "closing", "stopped", "done"},
         program' \in BOOLEAN, reading' \in BOOLEAN, quitting' \in BOOLEAN,
         link' \in {"open", "stuck", "broken", "dialing", "ended"},
         ui' \in {"asking", "closing"} => ui' = ui \/ ConnFree,
         ui' \in {"setup", "starting"} => ui \in {"setup", "starting"}
  PROVE  UiInv'
<1>1. LoopTyped'
  BY DEF UiInv, LoopTyped, textVars
<1>2. LocksInv'
  BY DEF UiInv, LocksInv, ConnFree, Logging, textVars
<1>3. Handled' = Handled
  BY DEF Handled, Logging
<1>4. LinesInv' /\ TradesInv'
  BY <1>3, QuietLines, QuietTrades DEF UiInv
<1> QED
  BY <1>1, <1>2, <1>4 DEF UiInv

LEMMA MainStepsKeep ==
  ASSUME UiInv,
         \/ ConfirmEdit \/ AskConn \/ RequestQuit \/ SetProgram \/ Saved \/ UpdateLimits
         \/ SendPause \/ PauseSent \/ StopCloses \/ StopClosed \/ StopReturns \/ Quit
  PROVE  UiInv'
<1> USE DEF MainMoves
<1>1. LoopTyped
  BY DEF UiInv
<1>2. CASE ConfirmEdit \/ Saved \/ UpdateLimits \/ AskConn
  BY <1>1, <1>2, MainKeeps DEF LoopTyped, ConfirmEdit, Saved, UpdateLimits, AskConn
<1>3. CASE SendPause \/ PauseSent \/ Quit
  BY <1>1, <1>3, MainKeeps DEF LoopTyped, SendPause, PauseSent, Quit
<1>4. CASE StopCloses \/ StopClosed \/ StopReturns
  BY <1>1, <1>4, MainKeeps DEF LoopTyped, StopCloses, StopClosed, StopReturns
<1>5. CASE RequestQuit \/ SetProgram
  BY <1>1, <1>5, MainKeeps DEF LoopTyped, RequestQuit, SetProgram, Stopping
<1> QED
  BY <1>2, <1>3, <1>4, <1>5

LEMMA LinkStepsKeep ==
  ASSUME UiInv,
         ConnectionStep \/ BeginValidate \/ EndValidate
  PROVE  UiInv'
<1>1. LoopTyped
  BY DEF UiInv
<1>2. CASE ConnectionStep
  <2>1. /\ UNCHANGED <<ui, program, holder, pc, logged, reading, textVars, quitting, storeVars>>
        /\ link' \in {"open", "stuck", "broken", "dialing", "ended"}
    BY <1>2
    DEF ConnectionStep, ServerStalls, ServerReads, ConnectionBreaks, SessionEnds,
        AfterSession, Dialed, DialCancelled, Link
  <2> QED
    BY <1>1, <2>1, MainKeeps DEF LoopTyped
<1>3. CASE BeginValidate \/ EndValidate
  BY <1>1, <1>3, MainKeeps DEF LoopTyped, BeginValidate, EndValidate, Reads
<1> QED
  BY <1>2, <1>3

\* A goroutine goes on, neither with a line nor to one.
LEMMA MoveKeeps ==
  ASSUME UiInv, NEW g \in Loggers, ~Logging(g),
         NEW p \in {"idle", "notifying", "relaying", "writing"},
         pc' = [pc EXCEPT ![g] = p], p = "writing" => ConnFree,
         UNCHANGED <<ui, program, holder, logged, reading, textVars, quitting, storeVars, link>>
  PROVE  UiInv'
<1>1. LoopTyped'
  BY DEF UiInv, LoopTyped, textVars
<1>2. \A h \in Loggers : /\ h # g => pc'[h] = pc[h]
                         /\ h = g => pc'[h] = p
  BY DEF UiInv, LoopTyped
<1>3. \A h \in Loggers : Logging(h)' <=> Logging(h)
  BY <1>2 DEF Logging
<1>4. LocksInv'
  <2>1. Session \in Loggers /\ Worker \in Loggers /\ Session # Worker
    BY UiAssumption DEF UiAssumption, Loggers
  <2>2. \A h \in Loggers : (holder = h <=> pc[h] = "sending")'
    BY <1>2 DEF UiInv, LocksInv, Logging
  <2>3. ~(pc'[Session] = "writing" /\ pc'[Worker] = "writing")
    BY <2>1, <1>2 DEF UiInv, LocksInv, ConnFree
  <2>4. ui' \in {"asking", "closing"} => \A h \in Loggers : pc'[h] # "writing"
    BY <1>2 DEF UiInv, LocksInv, ConnFree
  <2> QED
    BY <1>3, <2>2, <2>3, <2>4 DEF UiInv, LocksInv, textVars
<1>5. Handled' = Handled
  <2>1. \A l \in Lines : l[1] \in Loggers
    BY DEF Lines
  <2> QED
    BY <1>3, <2>1 DEF Handled
<1>6. LinesInv' /\ TradesInv'
  BY <1>5, QuietLines, QuietTrades DEF UiInv
<1> QED
  BY <1>1, <1>4, <1>6 DEF UiInv

LEMMA MovesKeep ==
  ASSUME UiInv, NEW g \in Loggers,
         \/ BeginWrite(g) \/ TakeConn(g) \/ Written(g)
         \/ g = Session /\ (Notify \/ Notified)
  PROVE  UiInv'
<1>1. /\ ~Logging(g)
      /\ UNCHANGED <<ui, program, holder, logged, reading, textVars, quitting, storeVars, link>>
      /\ \E p \in {"idle", "notifying", "relaying", "writing"} :
            pc' = [pc EXCEPT ![g] = p] /\ (p = "writing" => ConnFree)
  <2> USE DEF Moves, Others, Logging
  <2>1. CASE BeginWrite(g)
    BY <2>1 DEF BeginWrite, Begins
  <2>2. CASE TakeConn(g)
    BY <2>2 DEF TakeConn
  <2>3. CASE Written(g)
    BY <2>3 DEF Written
  <2>4. CASE g = Session /\ Notify
    BY <2>4 DEF Notify, Begins
  <2>5. CASE g = Session /\ Notified
    BY <2>5 DEF Notified
  <2> QED
    BY <2>1, <2>2, <2>3, <2>4, <2>5
<1> QED
  BY <1>1, MoveKeeps

-----------------------------------------------------------------------------
(* Steps that hand over lines.                                             *)

\* A goroutine begins to log: its line is handed over later.
LEMMA LogsKeep ==
  ASSUME UiInv, NEW g \in Loggers, Logs(g)
  PROVE  LoopTyped' /\ LocksInv' /\ LinesInv'
<1>1. /\ pc[g] = "idle" /\ pc' = [pc EXCEPT ![g] = "logging"]
      /\ logged[g] < MaxLines[g] /\ logged' = [logged EXCEPT ![g] = @ + 1]
      /\ UNCHANGED <<ui, program, holder, reading, textVars, quitting, link>>
  BY DEF Logs, Begins, Moves
<1>2. /\ pc \in [Loggers -> {"idle", "logging", "sending", "notifying", "relaying", "writing"}]
      /\ logged \in [Loggers -> Nat] /\ MaxLines[g] \in Nat
  BY UiAssumption DEF UiAssumption, UiInv, LoopTyped
<1>3. LoopTyped'
  BY <1>1, <1>2 DEF UiInv, LoopTyped, textVars
<1>4. \A h \in Loggers :
         /\ h # g => pc'[h] = pc[h] /\ logged'[h] = logged[h]
         /\ h = g => pc'[h] = "logging" /\ logged'[h] = logged[h] + 1
  BY <1>1, <1>2
<1>5. LocksInv'
  <2>1. Session \in Loggers /\ Worker \in Loggers
    BY DEF Loggers
  <2>2. \A h \in Loggers :
           logged'[h] <= MaxLines[h] /\ (Logging(h)' => logged'[h] > 0)
    BY <1>1, <1>2, <1>4 DEF UiInv, LocksInv, Logging
  <2>3. \A h \in Loggers : (holder = h <=> pc[h] = "sending")'
    BY <1>1, <1>4 DEF UiInv, LocksInv
  <2> QED
    BY <2>1, <2>2, <2>3, <1>1, <1>4 DEF UiInv, LocksInv, textVars
<1>6. Handled' = Handled
  <2>1. ASSUME NEW l \in Lines
        PROVE  l \in Handled' <=> l \in Handled
    <3>1. l[1] \in Loggers /\ l[2] \in Nat /\ logged[l[1]] \in Nat
      BY <1>2 DEF Lines
    <3> QED
      BY <3>1, <1>1, <1>4 DEF Handled, Logging
  <2> QED
    BY <2>1 DEF Handled
<1> QED
  BY <1>1, <1>3, <1>5, <1>6, QuietLines DEF UiInv

LEMMA SessionLogsKeep == UiInv /\ SessionLogs => UiInv'
<1> SUFFICES ASSUME UiInv, SessionLogs
             PROVE  UiInv'
  OBVIOUS
<1>1. LoopTyped' /\ LocksInv' /\ LinesInv'
  BY LogsKeep DEF SessionLogs, Loggers
<1>2. logged'[Worker] = logged[Worker]
  BY UiAssumption DEF UiAssumption, SessionLogs, Logs, UiInv, LoopTyped, Loggers
<1> QED
  BY <1>1, <1>2, QuietTrades DEF UiInv, SessionLogs

LEMMA RecordStepKeeps == UiInv /\ RecordStep => UiInv'
<1> SUFFICES ASSUME UiInv, RecordStep
             PROVE  UiInv'
  OBVIOUS
<1> DEFINE r == logged[Worker] + 1
<1>1. LoopTyped' /\ LocksInv' /\ LinesInv'
  BY LogsKeep DEF RecordStep, Loggers
<1>2. /\ logged[Worker] \in Nat /\ logged'[Worker] = r /\ r <= MaxLines[Worker]
      /\ MaxLines[Worker] \in Nat /\ 1..MaxLines[Worker] \subseteq Record
  BY UiAssumption DEF UiAssumption, RecordStep, Logs, UiInv, LoopTyped, Loggers
<1>3. r \in Record /\ Add(r)
  BY <1>2 DEF RecordStep
<1>4. StoreInv'
  BY <1>3, AddKeeps DEF UiInv, TradesInv
<1>5. /\ Len(added') = r /\ added'[r] = r
      /\ \A i \in 1..(r - 1) : added'[i] = i
  BY <1>2, <1>3, AppendProperties DEF Add, UiInv, TradesInv, StoreInv, StoreTypeOK
<1>6. TradesInv'
  BY <1>2, <1>4, <1>5 DEF TradesInv
<1> QED
  BY <1>1, <1>6 DEF UiInv

\* Logging a line ends when it is handed over, and it is the newest of its
\* goroutine.
LEMMA HandedOver ==
  ASSUME LoopTyped, LocksInv, NEW g \in Loggers, Logging(g),
         NEW p \in {"idle", "relaying"}, pc' = [pc EXCEPT ![g] = p], UNCHANGED logged
  PROVE  /\ Line(g) \in Lines /\ Line(g) \notin Handled
         /\ Handled' = Handled \cup {Line(g)}
         /\ \A l \in Handled : l[1] = g => l[2] < Line(g)[2]
<1>1. /\ pc \in [Loggers -> {"idle", "logging", "sending", "notifying", "relaying", "writing"}]
      /\ logged \in [Loggers -> Nat] /\ logged[g] > 0
  BY DEF LoopTyped, LocksInv
<1>2. Line(g) \in Lines /\ Line(g)[1] = g /\ Line(g)[2] = logged[g]
  BY <1>1 DEF Line, Lines
<1>3. ASSUME NEW l \in Handled, l[1] = g
      PROVE  l[2] < Line(g)[2]
  BY <1>2, <1>3 DEF Handled
<1>4. ASSUME NEW l \in Lines
      PROVE  l \in Handled' <=> l \in Handled \/ l = Line(g)
  <2>1. l[1] \in Loggers /\ l[2] \in Nat \ {0} /\ l = <<l[1], l[2]>> /\ logged[l[1]] \in Nat
    BY <1>1 DEF Lines
  <2>2. CASE l[1] # g
    BY <2>1, <2>2, <1>1, <1>2 DEF Handled, Logging
  <2>3. CASE l[1] = g
    <3>1. l = Line(g) <=> l[2] = logged[g]
      BY <2>1, <2>3 DEF Line
    <3>2. ~Logging(g)' /\ Logging(g)
      BY <1>1 DEF Logging
    <3> QED
      BY <2>1, <2>3, <3>1, <3>2 DEF Handled
  <2> QED
    BY <2>2, <2>3
<1>5. Line(g) \notin Handled
  BY <1>1, <1>2 DEF Handled
<1>6. Handled' = Handled \cup {Line(g)}
  BY <1>2, <1>4 DEF Handled
<1> QED
  BY <1>2, <1>3, <1>5, <1>6

\* Locks and types when a line is taken into the buffer, sent, or delivered.
LEMMA LineStepLocks ==
  ASSUME UiInv, NEW g \in Loggers, Logging(g), NEW p \in {"idle", "relaying", "sending"},
         pc' = [pc EXCEPT ![g] = p], UNCHANGED <<ui, logged, flush, flushing>>,
         p = "sending" => holder = Nobody /\ holder' = g,
         p # "sending" => \/ holder = g /\ holder' = Nobody
                          \/ holder = Nobody /\ holder' = Nobody
  PROVE  LocksInv' /\ holder' \in Loggers \cup {Nobody}
<1>1. \A h \in Loggers : /\ h # g => pc'[h] = pc[h]
                         /\ h = g => pc'[h] = p
  BY DEF UiInv, LoopTyped
<1>2. Session \in Loggers /\ Worker \in Loggers /\ Nobody \notin Loggers
  BY UiAssumption DEF UiAssumption, Loggers
<1>3. \A h \in Loggers : (holder = h <=> pc[h] = "sending")'
  BY <1>1, <1>2 DEF UiInv, LocksInv
<1>4. \A h \in Loggers : Logging(h)' => Logging(h)
  BY <1>1 DEF Logging
<1> QED
  BY <1>1, <1>2, <1>3, <1>4 DEF UiInv, LocksInv

LEMMA BufferKeeps == ASSUME UiInv, NEW g \in Loggers, Buffer(g) PROVE UiInv'
<1>1. PICK p \in {"idle", "relaying"} : pc' = [pc EXCEPT ![g] = p]
  BY DEF Buffer, Moves, Relayed
<1>2. /\ Logging(g) /\ buf' = Append(buf, Line(g)) /\ holder = Nobody
      /\ UNCHANGED <<ui, program, holder, logged, reading, flush, flushing, shown, unshown,
                     quitting, link, storeVars>>
  BY DEF Buffer, Moves, Logging
<1>3. /\ Line(g) \in Lines /\ Line(g) \notin Handled
      /\ Handled' = Handled \cup {Line(g)}
      /\ \A l \in Handled : l[1] = g => l[2] < Line(g)[2]
  BY <1>1, <1>2, HandedOver DEF UiInv
<1>4. /\ buf' \in Seq(Lines) /\ In(buf') = In(buf) \cup {Line(g)}
      /\ Ascends(buf')
  <2>1. Ascends(buf) /\ In(buf) \subseteq Handled /\ buf \in Seq(Lines) /\ Line(g)[1] = g
    BY DEF UiInv, LoopTyped, LinesInv, PlacesInv, OrderInv, Line
  <2> DEFINE x == Line(g)
  <2>2. x \in Lines /\ x \notin In(buf) /\ buf' = Append(buf, x)
    BY <2>1, <1>2, <1>3
  <2>3. \A l \in In(buf) : l[1] = x[1] => l[2] < x[2]
    BY <2>1, <1>3
  <2> HIDE DEF x
  <2>4. Append(buf, x) \in Seq(Lines)
    BY <2>1, <2>2
  <2>5. In(Append(buf, x)) = In(buf) \cup {x} /\ Ascends(Append(buf, x))
    BY ONLY <2>1, <2>2, <2>3, AppendedLine
  <2> QED
    BY <2>2, <2>4, <2>5 DEF x
<1>5. LoopTyped' /\ LocksInv'
  <2>1. LocksInv' /\ holder' \in Loggers \cup {Nobody}
    BY <1>1, <1>2, LineStepLocks
  <2>2. LoopTyped
    BY DEF UiInv
  <2> QED
    BY ONLY <2>1, <2>2, <1>1, <1>2, <1>4 DEF LoopTyped
<1>6. PlacesInv'
  <2>1. OnTheWay' = OnTheWay /\ In(shown)' = In(shown) /\ EachOnce(shown)' = EachOnce(shown)
    BY <1>2 DEF OnTheWay, In, EachOnce
  <2>2. (In(buf) \cup OnTheWay \cup In(shown) \cup unshown) = Handled
    BY DEF UiInv, LinesInv, PlacesInv
  <2>3. In(buf)' = In(buf) \cup {Line(g)}
    BY <1>4 DEF In
  <2> QED
    BY <2>1, <2>2, <2>3, <1>2, <1>3 DEF UiInv, LinesInv, PlacesInv
<1>7. OrderInv'
  BY <1>2, <1>4 DEF UiInv, LinesInv, OrderInv, Ascends, In
<1> QED
  BY <1>2, <1>5, <1>6, <1>7, QuietTrades DEF UiInv, LinesInv

LEMMA SendKeeps == ASSUME UiInv, NEW g \in Loggers, Send(g) PROVE UiInv'
<1>1. /\ pc[g] = "logging" /\ pc' = [pc EXCEPT ![g] = "sending"]
      /\ holder = Nobody /\ holder' = g
      /\ UNCHANGED <<ui, program, logged, reading, textVars, quitting, link, storeVars>>
  BY DEF Send, Moves
<1>2. LoopTyped' /\ LocksInv'
  <2>1. LoopTyped'
    BY <1>1 DEF UiInv, LoopTyped, textVars
  <2>2. flushing' = flushing /\ flush' = flush
    BY <1>1 DEF textVars
  <2> QED
    BY <1>1, <2>1, <2>2, LineStepLocks DEF UiInv, Logging
<1>3. Handled' = Handled
  <2>1. \A h \in Loggers : Logging(h)' <=> Logging(h)
    BY <1>1 DEF UiInv, LoopTyped, Logging
  <2>2. \A l \in Lines : l[1] \in Loggers
    BY DEF Lines
  <2> QED
    BY <1>1, <2>1, <2>2 DEF Handled
<1> QED
  BY <1>1, <1>2, <1>3, QuietLines, QuietTrades DEF UiInv

LEMMA SentKeeps == ASSUME UiInv, NEW g \in Loggers, Sent(g) PROVE UiInv'
<1>1. PICK p \in {"idle", "relaying"} : pc' = [pc EXCEPT ![g] = p]
  BY DEF Sent, Moves, Relayed
<1>2. /\ Logging(g) /\ holder = g /\ holder' = Nobody
      /\ UNCHANGED <<ui, program, logged, reading, buf, flush, flushing, quitting, link,
                     storeVars>>
  BY DEF Sent, Moves, Logging, UiInv, LocksInv
<1>3. /\ Line(g) \in Lines /\ Line(g) \notin Handled
      /\ Handled' = Handled \cup {Line(g)}
      /\ \A l \in Handled : l[1] = g => l[2] < Line(g)[2]
  BY <1>1, <1>2, HandedOver DEF UiInv
<1>4. LocksInv' /\ holder' \in Loggers \cup {Nobody}
  BY <1>1, <1>2, LineStepLocks
<1>5. /\ buf \in Seq(Lines) /\ flush \in Seq(Lines) /\ shown \in Seq(Lines)
      /\ OnTheWay' = OnTheWay /\ In(buf)' = In(buf)
      /\ Handled = In(buf) \cup OnTheWay \cup In(shown) \cup unshown
      /\ EachOnce(shown)
  BY <1>2 DEF UiInv, LoopTyped, LinesInv, PlacesInv, OnTheWay, In
<1>6. CASE shown' = Append(shown, Line(g)) /\ UNCHANGED unshown
  <2>1. /\ shown' \in Seq(Lines) /\ In(shown') = In(shown) \cup {Line(g)}
        /\ EachOnce(shown')
    BY <1>3, <1>5, <1>6, AppendedLine
  <2>2. PlacesInv'
    <3>1. In(shown)' = In(shown) \cup {Line(g)} /\ EachOnce(shown)'
      BY <2>1 DEF In, EachOnce
    <3> QED
      BY <3>1, <1>3, <1>5, <1>6 DEF UiInv, LinesInv, PlacesInv
  <2>3. LoopTyped'
    BY <2>1, <1>1, <1>2, <1>4, <1>6 DEF UiInv, LoopTyped
  <2>4. ASSUME NEW i \in DOMAIN shown', NEW j \in DOMAIN shown', i < j,
               shown'[i][1] = shown'[j][1], shown'[i][2] > shown'[j][2]
        PROVE  shown'[j] \in In(flush)
    <3> DEFINE n == Len(shown)
    <3>1. /\ n \in Nat /\ DOMAIN shown = 1..n /\ DOMAIN shown' = 1..(n + 1)
          /\ shown'[n + 1] = Line(g) /\ \A k \in 1..n : shown'[k] = shown[k]
      BY <1>3, <1>5, <1>6, LenProperties, AppendProperties
    <3> HIDE DEF n
    <3>2. i \in 1..n /\ shown'[i] = shown[i]
      BY <2>4, <3>1
    <3>3. j # n + 1
      <4> SUFFICES ASSUME j = n + 1
                   PROVE  FALSE
        OBVIOUS
      <4>1. shown[i] \in Handled /\ shown[i] \in Lines /\ shown[i][1] = Line(g)[1]
        BY <3>1, <3>2, <2>4, <1>5 DEF In, Handled
      <4>2. shown[i][2] < Line(g)[2]
        BY <4>1, <1>3 DEF Line
      <4>3. shown[i][2] \in Nat /\ Line(g)[2] \in Nat
        BY <4>1, <1>3 DEF Lines
      <4> QED
        BY <4>2, <4>3, <3>1, <3>2, <2>4
    <3>4. j \in 1..n /\ shown'[j] = shown[j]
      BY <3>1, <3>3, <2>4
    <3> QED
      BY <3>1, <3>2, <3>4, <2>4 DEF UiInv, LinesInv, OrderInv
  <2>5. OrderInv'
    BY <2>4, <1>2 DEF UiInv, LinesInv, OrderInv, Ascends, In
  <2> QED
    BY <2>2, <2>3, <2>5, <1>2, <1>4, QuietTrades DEF UiInv, LinesInv
<1>7. CASE unshown' = unshown \cup {Line(g)} /\ UNCHANGED shown
  <2>1. PlacesInv'
    <3>1. In(shown)' = In(shown) /\ EachOnce(shown)'
      BY <1>5, <1>7 DEF In, EachOnce
    <3> QED
      BY <3>1, <1>3, <1>5, <1>7 DEF UiInv, LinesInv, PlacesInv
  <2>2. OrderInv'
    BY <1>2, <1>7 DEF UiInv, LinesInv, OrderInv, Ascends, In
  <2>3. LoopTyped'
    BY <1>1, <1>2, <1>3, <1>4, <1>7 DEF UiInv, LoopTyped
  <2> QED
    BY <2>1, <2>2, <2>3, <1>2, <1>4, QuietTrades DEF UiInv, LinesInv
<1> QED
  BY <1>6, <1>7 DEF Sent

\* What was buffered before the program was set goes on its way, once.
LEMMA FlushKeeps == UiInv /\ FlushCmd => UiInv'
<1> SUFFICES ASSUME UiInv, FlushCmd
             PROVE  UiInv'
  OBVIOUS
<1>1. /\ ui = "starting" /\ ui' = "waiting" /\ ~flushing /\ flush = << >>
      /\ flush' = buf /\ buf' = << >> /\ flushing' = (buf # << >>)
      /\ UNCHANGED <<program, holder, pc, logged, reading, shown, unshown, quitting, link,
                     storeVars>>
  BY DEF FlushCmd, UiInv, LocksInv
<1>2. /\ << >> \in Seq(Lines) /\ In(<< >>) = {} /\ Ascends(<< >>)
      /\ buf \in Seq(Lines)
  BY EmptySeq DEF In, Ascends, UiInv, LoopTyped
<1>3. LoopTyped'
  BY <1>1, <1>2 DEF UiInv, LoopTyped
<1>4. LocksInv'
  BY <1>1 DEF UiInv, LocksInv, Logging
<1>5. OnTheWay = {} /\ OnTheWay' = In(buf) /\ In(buf') = {} /\ Handled' = Handled
  BY <1>1, <1>2 DEF OnTheWay, In, Handled, Logging
<1>6. PlacesInv'
  BY <1>1, <1>5 DEF UiInv, LinesInv, PlacesInv, In, EachOnce
<1>7. OrderInv'
  <2>1. Ascends(flush)' /\ Ascends(buf)'
    BY <1>1, <1>2 DEF UiInv, LinesInv, OrderInv, Ascends
  <2>2. \A i, j \in DOMAIN shown :
           ~(i < j /\ shown[i][1] = shown[j][1] /\ shown[i][2] > shown[j][2])
    BY <1>1, <1>2 DEF UiInv, LinesInv, OrderInv
  <2> QED
    BY <2>1, <2>2, <1>1 DEF OrderInv
<1> QED
  BY <1>1, <1>3, <1>4, <1>6, <1>7, QuietTrades DEF UiInv, LinesInv

\* ... and comes to the screen behind what got there meanwhile.
LEMMA ReceiveFlushKeeps == UiInv /\ ReceiveFlush => UiInv'
<1> SUFFICES ASSUME UiInv, ReceiveFlush
             PROVE  UiInv'
  OBVIOUS
<1>1. /\ ui = "waiting" /\ flushing /\ flushing' = FALSE /\ shown' = shown \o flush
      /\ UNCHANGED <<ui, program, holder, pc, logged, reading, buf, flush, unshown, quitting,
                     link, storeVars>>
  BY DEF ReceiveFlush
<1>2. /\ shown \in Seq(Lines) /\ flush \in Seq(Lines) /\ Ascends(flush) /\ EachOnce(flush)
      /\ EachOnce(shown) /\ In(shown) \cap In(flush) = {}
      /\ OnTheWay = In(flush) /\ OnTheWay' = {}
  BY <1>1, AscendingOnce DEF UiInv, LoopTyped, LinesInv, PlacesInv, OrderInv, OnTheWay
<1>3. /\ shown' \in Seq(Lines) /\ EachOnce(shown') /\ In(shown') = In(shown) \cup In(flush)
      /\ Len(shown) \in Nat /\ DOMAIN shown = 1..Len(shown)
      /\ \A i \in DOMAIN shown' :
            \/ i \in DOMAIN shown /\ shown'[i] = shown[i]
            \/ i > Len(shown) /\ i - Len(shown) \in DOMAIN flush
               /\ shown'[i] = flush[i - Len(shown)]
  BY <1>1, <1>2, JoinedLines
<1>4. LoopTyped' /\ LocksInv'
  BY <1>1, <1>3 DEF UiInv, LoopTyped, LocksInv, Logging
<1>5. PlacesInv'
  <2>1. In(shown)' = In(shown) \cup In(flush)
    BY <1>3 DEF In
  <2>2. EachOnce(shown)'
    BY <1>3 DEF EachOnce
  <2>3. In(buf)' = In(buf)
    BY <1>1 DEF In
  <2>4. Handled' = Handled
    BY <1>1 DEF Handled, Logging
  <2> QED
    BY <2>1, <2>2, <2>3, <2>4, <1>1, <1>2 DEF UiInv, LinesInv, PlacesInv
<1>6. ASSUME NEW i \in DOMAIN shown', NEW j \in DOMAIN shown', i < j,
             shown'[i][1] = shown'[j][1], shown'[i][2] > shown'[j][2]
      PROVE  shown'[j] \in In(flush)
  <2>1. CASE j \in DOMAIN shown /\ shown'[j] = shown[j]
    <3>1. i \in DOMAIN shown' /\ i \in Int /\ DOMAIN shown' = 1..Len(shown')
      BY <1>3, LenProperties
    <3>2. ~(i > Len(shown))
      BY <2>1, <3>1, <1>3, <1>6
    <3>3. i \in DOMAIN shown /\ shown'[i] = shown[i]
      BY <3>2, <1>3
    <3> QED
      BY <2>1, <3>3, <1>6 DEF UiInv, LinesInv, OrderInv
  <2>2. CASE j - Len(shown) \in DOMAIN flush /\ shown'[j] = flush[j - Len(shown)]
    BY <2>2 DEF In
  <2> QED
    BY <2>1, <2>2, <1>3
<1>7. OrderInv'
  BY <1>1, <1>6 DEF UiInv, LinesInv, OrderInv, Ascends, In
<1> QED
  BY <1>1, <1>4, <1>5, <1>7, QuietTrades DEF UiInv, LinesInv

-----------------------------------------------------------------------------
LEMMA UiInitially == Init => UiInv
<1> SUFFICES ASSUME Init
             PROVE  UiInv
  OBVIOUS
<1>1. << >> \in Seq(Lines) /\ In(<< >>) = {} /\ Ascends(<< >>) /\ EachOnce(<< >>)
  BY EmptySeq DEF In, Ascends, EachOnce
<1>2. LoopTyped
  BY <1>1 DEF Init, LoopTyped
<1>3. LocksInv
  BY UiAssumption DEF UiAssumption, Init, LocksInv, Logging, Loggers
<1>4. Handled = {}
  BY DEF Init, Handled, Lines
<1>5. PlacesInv /\ OrderInv
  BY <1>1, <1>4 DEF Init, PlacesInv, OrderInv, OnTheWay
<1>6. TradesInv
  BY StoreInitially DEF Init, StoreInit, TradesInv, Loggers
<1> QED
  BY <1>2, <1>3, <1>5, <1>6 DEF UiInv, LinesInv

LEMMA UiNextInv == UiInv /\ [Next]_vars => UiInv'
<1> SUFFICES ASSUME UiInv, [Next]_vars
             PROVE  UiInv'
  OBVIOUS
<1>1. CASE UserStep \/ Quit
  BY <1>1, MainStepsKeep DEF UserStep
<1>2. CASE MainStep
  BY <1>2, MainStepsKeep, FlushKeeps DEF MainStep
<1>3. CASE \E g \in Loggers : HandlerStep(g) \/ BeginWrite(g)
  BY <1>3, BufferKeeps, SendKeeps, SentKeeps, MovesKeep, LinkStepsKeep DEF HandlerStep
<1>4. CASE Notify
  BY <1>4, MovesKeep DEF Loggers
<1>5. CASE BeginValidate \/ ConnectionStep
  BY <1>5, LinkStepsKeep
<1>6. CASE UNCHANGED vars
  <2>1. UNCHANGED <<ui, program, holder, pc, logged, reading, textVars, quitting, link, storeVars>>
    BY <1>6 DEF vars, textVars, storeVars
  <2>2. LoopTyped
    BY DEF UiInv
  <2> QED
    BY <2>1, <2>2, MainKeeps DEF LoopTyped
<1> QED
  BY <1>1, <1>2, <1>3, <1>4, <1>5, <1>6, ReceiveFlushKeeps, SessionLogsKeep,
     RecordStepKeeps DEF Next, ConnectionStep

LEMMA UiKeepsInv == Spec => []UiInv
  BY UiInitially, UiNextInv, PTL DEF Spec

-----------------------------------------------------------------------------
(* What the invariant says of the screen.                                  *)

\* At any time the locks of the loop, the log handler and the connection are
\* held by whom the program counters say (one writer under connMu, h.mu with the
\* goroutine that sends: loghandler.go:93, client.go:509), and the ring is well
\* formed.
THEOREM UiTypeCorrect == Spec => []TypeOK
<1>1. ASSUME UiInv
      PROVE  Cardinality({g \in Loggers : pc[g] = "writing"})
             + (IF ui \in {"asking", "closing"} THEN 1 ELSE 0) <= 1
  <2> DEFINE W == {g \in Loggers : pc[g] = "writing"}
  <2>1. W = {} \/ W = {Session} \/ W = {Worker}
    BY <1>1 DEF UiInv, LocksInv, Loggers
  <2>2. Cardinality(W) = 0 \/ Cardinality(W) = 1
    BY <2>1, FS_EmptySet, FS_Singleton
  <2>3. ui \in {"asking", "closing"} => Cardinality(W) = 0
    <3>1. ui \in {"asking", "closing"} => W = {}
      BY <1>1 DEF UiInv, LocksInv
    <3> QED
      BY <3>1, FS_EmptySet
  <2>4. CASE Cardinality(W) = 0
    BY <2>4
  <2>5. CASE Cardinality(W) = 1
    <3>1. ~(ui \in {"asking", "closing"})
      BY <2>3, <2>5
    <3> QED
      BY <2>5, <3>1
  <2> QED
    BY <2>2, <2>4, <2>5
<1>2. UiInv => TypeOK
  BY <1>1 DEF UiInv, LoopTyped, LocksInv, TradesInv, StoreInv, TypeOK
<1> QED
  BY <1>2, UiKeepsInv, PTL

\* A line handed to TUILogHandler is in its buffer, with FlushCmd's message, on
\* the screen, or came when the program was over: at one of these, once; and only
\* a line that was buffered may come behind a later one of its goroutine
\* (loghandler.go:37, 93, tui.go:301).
THEOREM UiLinesKept == Spec => []LinesKept
<1>1. ASSUME UiInv
      PROVE  /\ EachOnce(buf) /\ EachOnce(flush) /\ EachOnce(shown)
  BY <1>1, AscendingOnce DEF UiInv, LoopTyped, LinesInv, PlacesInv, OrderInv
<1>2. ASSUME UiInv, NEW g \in Loggers, NEW n \in 1..logged[g],
             n < logged[g] \/ pc[g] \notin {"logging", "sending"}
      PROVE  Occurrences(<<g, n>>, buf) + Occurrences(<<g, n>>, shown)
             + (IF flushing THEN Occurrences(<<g, n>>, flush) ELSE 0)
             + (IF <<g, n>> \in unshown THEN 1 ELSE 0) = 1
  <2> DEFINE l == <<g, n>>
  <2>1. l \in Handled
    <3>1. logged[g] \in Nat /\ n \in Nat \ {0} /\ n <= logged[g]
      BY <1>2 DEF UiInv, LoopTyped
    <3> QED
      BY <3>1, <1>2 DEF Handled, Logging, Lines
  <2>2. /\ l \in In(buf) \cup OnTheWay \cup In(shown) \cup unshown
        /\ In(buf) \cap (OnTheWay \cup In(shown) \cup unshown) = {}
        /\ OnTheWay \cap (In(shown) \cup unshown) = {}
        /\ In(shown) \cap unshown = {}
    BY <2>1, <1>2 DEF UiInv, LinesInv, PlacesInv
  <2>3. /\ Occurrences(l, buf) = IF l \in In(buf) THEN 1 ELSE 0
        /\ Occurrences(l, shown) = IF l \in In(shown) THEN 1 ELSE 0
        /\ Occurrences(l, flush) = IF l \in In(flush) THEN 1 ELSE 0
    BY <1>1, <1>2, OccursOnce
  <2>4. (IF flushing THEN Occurrences(l, flush) ELSE 0) = IF l \in OnTheWay THEN 1 ELSE 0
    BY <2>3 DEF OnTheWay
  <2> HIDE DEF l
  <2> QED
    BY <2>2, <2>3, <2>4 DEF l
<1>3. ASSUME UiInv, NEW i \in DOMAIN shown, NEW j \in DOMAIN shown,
             i < j, shown[i][1] = shown[j][1], shown[i][2] > shown[j][2]
      PROVE  Occurrences(shown[j], flush) = 1
  <2>1. shown[j] \in In(flush)
    BY <1>3 DEF UiInv, LinesInv, OrderInv
  <2> QED
    BY <2>1, <1>1, <1>3, OccursOnce
<1>4. UiInv => LinesKept
  BY <1>2, <1>3 DEF LinesKept
<1> QED
  BY <1>4, UiKeepsInv, PTL

\* A line of the worker on the screen has its record among those the trades view
\* reads, unless Cap newer ones have come: a trade is recorded before it is logged
\* (executor.go:29 before 58, tradestore.go:34).
THEOREM UiTradesCoverLog == Spec => []TradesCoverLog
<1>1. ASSUME UiInv, NEW i \in DOMAIN shown, shown[i][1] = Worker
      PROVE  \/ \E j \in DOMAIN Recent(Cap) : Recent(Cap)[j] = shown[i][2]
             \/ Len(added) >= shown[i][2] + Cap
  <2> DEFINE n == Len(added)
             k == shown[i][2]
             R == [j \in 1..count |-> added[n - count + j]]
  <2>1. shown[i] \in Handled /\ shown[i] \in Lines
    BY <1>1 DEF UiInv, LinesInv, PlacesInv, In, Handled
  <2>2. /\ n \in Nat /\ k \in 1..n /\ Cap \in Nat \ {0} /\ count \in 0..Cap
        /\ count = IF n < Cap THEN n ELSE Cap
        /\ \A j \in 1..n : added[j] = j
    <3>1. n = logged[Worker] /\ n \in Nat /\ \A j \in 1..n : added[j] = j
      BY <1>1, UiAssumption DEF UiInv, LoopTyped, TradesInv, Loggers
    <3>2. k \in Nat \ {0} /\ k <= logged[Worker]
      BY <2>1, <1>1 DEF Lines, Handled
    <3>3. Cap \in Nat \ {0} /\ count \in 0..Cap /\ count = IF n < Cap THEN n ELSE Cap
      BY <1>1, StoreAssumption
      DEF StoreAssumption, UiInv, TradesInv, StoreInv, StoreTypeOK, RingHolds
    <3> HIDE DEF n, k
    <3> QED
      BY <3>1, <3>2, <3>3
  <2>3. Recent(Cap) = R
    BY <1>1, RecentIsLatest DEF UiInv, TradesInv
  <2>4. CASE k > n - count
    <3>1. k - (n - count) \in 1..count /\ n - count + (k - (n - count)) = k
      <4> HIDE DEF n, k
      <4> QED
        BY <2>2, <2>4
    <3>2. R[k - (n - count)] = k
      BY <3>1, <2>2
    <3> QED
      BY <3>1, <3>2, <2>3
  <2>5. CASE k <= n - count
    <3>1. n >= k + Cap
      <4> HIDE DEF n, k
      <4> QED
        BY <2>2, <2>5
    <3> QED
      BY <3>1
  <2>6. n \in Int /\ k \in Int /\ count \in Int
    BY <2>2
  <2> HIDE DEF n, k
  <2>7. k > n - count \/ k <= n - count
    BY <2>6
  <2> QED
    BY <2>4, <2>5, <2>7
<1>2. UiInv => TradesCoverLog
  BY <1>1 DEF TradesCoverLog
<1> QED
  BY <1>2, UiKeepsInv, PTL

\* The ring of tradestore.go, as Recent shows it, is the abstract log of the last
\* Cap trades: a step of the worker appends to it and drops the oldest of a full
\* one, and no other step of the program changes it (tradestore.go:34, 57).
THEOREM UiImplementsLog == Spec => ImplementsLog
<1>1. ASSUME Init
      PROVE  Log!LogInit
  <2>1. StoreInv /\ count = 0
    BY <1>1, StoreInitially DEF Init, StoreInit
  <2>2. Recent(Cap) = [i \in 1..0 |-> added[Len(added) - count + i]]
    BY <2>1, RecentIsLatest
  <2> QED
    BY <2>2 DEF Log!LogInit
<1>2. ASSUME UNCHANGED storeVars
      PROVE  UNCHANGED Recent(Cap)
  BY <1>2 DEF storeVars, Recent, Start
<1>3. ASSUME UiInv, RecordStep
      PROVE  Log!LogNext
  <2> DEFINE r == logged'[Worker]
  <2>1. /\ logged[Worker] \in Nat /\ r = logged[Worker] + 1 /\ r <= MaxLines[Worker]
        /\ MaxLines[Worker] \in Nat /\ 1..MaxLines[Worker] \subseteq Record
    BY <1>3, UiAssumption DEF UiAssumption, RecordStep, Logs, UiInv, LoopTyped, Loggers
  <2>2. r \in Record /\ Add(r) /\ StoreInv
    <3> HIDE DEF r
    <3>1. r \in Record
      BY <2>1
    <3> QED
      BY <3>1, <1>3 DEF r, RecordStep, UiInv, TradesInv
  <2>3. Recent(Cap)' = Log!Latest(Append(Recent(Cap), r), Cap)
    BY <2>2, AddIsLogAdd
  <2> QED
    BY <2>2, <2>3 DEF Log!LogNext, Log!LogAdd
<1>4. ASSUME UiInv, [Next]_vars
      PROVE  [Log!LogNext]_(Recent(Cap))
  <2>1. CASE RecordStep
    BY <2>1, <1>3, <1>4
  <2>2. CASE UNCHANGED storeVars
    BY <2>2, <1>2
  <2>3. [Next]_vars => RecordStep \/ UNCHANGED storeVars
    <3>1. UserStep \/ MainStep \/ Quit \/ ReceiveFlush => UNCHANGED storeVars
      BY DEF UserStep, ConfirmEdit, AskConn, RequestQuit, MainStep, SetProgram, FlushCmd,
         Saved, UpdateLimits, SendPause, PauseSent, StopCloses, StopClosed, StopReturns,
         Quit, ReceiveFlush, MainMoves
    <3>2. ASSUME NEW g \in Loggers, HandlerStep(g) \/ BeginWrite(g)
          PROVE  UNCHANGED storeVars
      BY <3>2 DEF HandlerStep, Buffer, Send, Sent, TakeConn, Written, Notified, EndValidate,
         Reads, BeginWrite, Others
    <3>3. SessionLogs \/ Notify \/ BeginValidate => UNCHANGED storeVars
      BY DEF SessionLogs, Notify, Others, BeginValidate, Reads
    <3>4. ConnectionStep => UNCHANGED storeVars
      BY DEF ConnectionStep, ServerStalls, ServerReads, ConnectionBreaks, SessionEnds, Dialed,
         DialCancelled, Link
    <3>5. UNCHANGED vars => UNCHANGED storeVars
      BY DEF vars, storeVars
    <3> QED
      BY <3>1, <3>2, <3>3, <3>4, <3>5 DEF Next, ConnectionStep
  <2> QED
    BY <2>1, <2>2, <2>3, <1>4
<1> QED
  BY <1>1, <1>4, UiKeepsInv, PTL DEF Spec, ImplementsLog, Log!LogSpec

-----------------------------------------------------------------------------
(* The circles.                                                            *)

\* What the circles rest on: where the goroutines can be, and that the program
\* is set before its loop is asked for anything.
Placed ==
  /\ pc \in [Loggers -> {"idle", "logging", "sending", "notifying",
                         "relaying", "writing"}]
  /\ program <=> ui # "setup"

\* A step of the main goroutine leaves everybody else where he is, and none is
\* possible for it in a circle.
LEMMA MainInCircle ==
  ASSUME UserStep \/ MainStep \/ Quit \/ ReceiveFlush
  PROVE  /\ StartCircle => StartCircle'
         /\ EditCircle => EditCircle'
         /\ PeerCircle => PeerCircle'
<1>1. UNCHANGED <<holder, pc, reading>>
  BY DEF UserStep, MainStep, Quit, ReceiveFlush, ConfirmEdit, AskConn, RequestQuit,
         SetProgram, FlushCmd, Saved, UpdateLimits, SendPause, PauseSent, StopCloses,
         StopClosed, StopReturns, MainMoves
<1>2. CASE UNCHANGED <<ui, link>>
  BY <1>1, <1>2 DEF StartCircle, EditCircle, PeerCircle, ConnFree
<1>3. CASE ConfirmEdit \/ AskConn \/ Quit
  BY <1>1, <1>3 DEF ConfirmEdit, AskConn, Quit, MainMoves, StartCircle, EditCircle,
                    PeerCircle, ConnFree
<1>4. CASE SetProgram \/ FlushCmd \/ Saved \/ UpdateLimits
  BY <1>1, <1>4 DEF SetProgram, FlushCmd, Saved, UpdateLimits, MainMoves, StartCircle,
                    EditCircle, PeerCircle, ConnFree
<1>5. CASE SendPause \/ PauseSent
  BY <1>1, <1>5 DEF SendPause, PauseSent, MainMoves, StartCircle, EditCircle,
                    PeerCircle, ConnFree
<1>6. CASE StopCloses \/ StopClosed \/ StopReturns
  BY <1>1, <1>6 DEF StopCloses, StopClosed, StopReturns, MainMoves, StartCircle,
                    EditCircle, PeerCircle, ConnFree
<1> QED
  BY <1>2, <1>3, <1>4, <1>5, <1>6
     DEF UserStep, MainStep, RequestQuit, ReceiveFlush

LEMMA InitPlaced == Init => Placed
  BY DEF Init, Placed

LEMMA NextPlaced == ASSUME Placed, [Next]_vars PROVE Placed'
<1>1. ASSUME NEW g \in Loggers,
             \E p \in {"idle", "logging", "sending", "notifying", "relaying", "writing"} :
                pc' = [pc EXCEPT ![g] = p],
             UNCHANGED <<ui, program>>
      PROVE  Placed'
  BY <1>1 DEF Placed
<1>2. CASE UNCHANGED <<ui, program, pc>>
  BY <1>2 DEF Placed
<1>3. CASE UserStep \/ MainStep \/ Quit \/ ReceiveFlush
  BY <1>3
  DEF Placed, UserStep, MainStep, Quit, ReceiveFlush, ConfirmEdit, AskConn, RequestQuit,
      SetProgram, FlushCmd, Saved, UpdateLimits, SendPause, PauseSent, StopCloses,
      StopClosed, StopReturns, MainMoves
<1>4. ASSUME NEW g \in Loggers, HandlerStep(g) \/ BeginWrite(g)
      PROVE  Placed'
  <2>1. CASE Buffer(g) \/ Send(g) \/ Sent(g)
    BY <2>1, <1>1 DEF Buffer, Send, Sent, Moves, Relayed
  <2>2. CASE TakeConn(g) \/ Written(g) \/ BeginWrite(g)
    BY <2>2, <1>1 DEF TakeConn, Written, BeginWrite, Begins, Moves, Others
  <2>3. CASE g = Session /\ Notified
    BY <2>3, <1>1 DEF Notified, Moves, Others
  <2>4. CASE EndValidate
    BY <2>4, <1>2 DEF EndValidate, Reads
  <2> QED
    BY <1>4, <2>1, <2>2, <2>3, <2>4 DEF HandlerStep
<1>5. CASE SessionLogs \/ RecordStep \/ Notify
  <2>1. Session \in Loggers /\ Worker \in Loggers
    BY DEF Loggers
  <2> QED
    BY <1>5, <2>1, <1>1 DEF SessionLogs, RecordStep, Notify, Logs, Begins, Moves, Others
<1>6. CASE BeginValidate \/ ConnectionStep \/ UNCHANGED vars
  BY <1>6, <1>2 DEF BeginValidate, Reads, ConnectionStep, ServerStalls, ServerReads,
                    ConnectionBreaks, SessionEnds, Dialed, DialCancelled, Link, vars
<1> QED
  BY <1>3, <1>4, <1>5, <1>6 DEF Next, ConnectionStep

\* A goroutine that takes a step in a circle is not one that waits in it.
LEMMA LoggerInCircle ==
  ASSUME Placed, NEW g \in Loggers, HandlerStep(g) \/ BeginWrite(g)
  PROVE  /\ StartCircle => StartCircle'
         /\ EditCircle => EditCircle'
         /\ PeerCircle => PeerCircle'
<1>1. Session \in Loggers /\ pc[Session] \in {"idle", "logging", "sending", "notifying",
                                               "relaying", "writing"}
  BY DEF Placed, Loggers
<1>2. \A p : pc' = [pc EXCEPT ![g] = p] =>
           \A h \in Loggers : pc'[h] = IF h = g THEN p ELSE pc[h]
  BY DEF Placed
<1>3. CASE Buffer(g)
  <2>1. ui = "setup" /\ ui' = ui /\ link' = link
    BY <1>3 DEF Buffer, Placed
  <2> QED
    BY <1>3, <2>1, <1>1, <1>2
       DEF Buffer, Moves, Relayed, StartCircle, EditCircle, PeerCircle, ConnFree
<1>4. CASE Send(g)
  BY <1>4, <1>1, <1>2 DEF Send, Moves, StartCircle, EditCircle, PeerCircle, ConnFree
<1>5. CASE Sent(g)
  BY <1>5, <1>1, <1>2
     DEF Sent, Moves, Relayed, Stopping, StartCircle, EditCircle, PeerCircle, ConnFree
<1>6. CASE TakeConn(g) \/ Written(g) \/ BeginWrite(g)
  BY <1>6, <1>1, <1>2
     DEF TakeConn, Written, BeginWrite, Begins, Moves, Others, StartCircle, EditCircle,
         PeerCircle, ConnFree
<1>7. CASE g = Session /\ Notified
  BY <1>7, <1>1, <1>2
     DEF Notified, Moves, Others, Stopping, StartCircle, EditCircle, PeerCircle, ConnFree
<1>8. CASE g = Session /\ EndValidate
  BY <1>8 DEF EndValidate, Reads, StartCircle, EditCircle, PeerCircle, ConnFree
<1> QED
  BY <1>3, <1>4, <1>5, <1>6, <1>7, <1>8 DEF HandlerStep

\* What begins, and what the connection does.
LEMMA OthersInCircle ==
  ASSUME Placed,
         SessionLogs \/ RecordStep \/ Notify \/ BeginValidate
            \/ ConnectionStep
  PROVE  /\ StartCircle => StartCircle'
         /\ EditCircle => EditCircle'
         /\ PeerCircle => PeerCircle' \/ link' \in {"open", "broken"}
<1>1. Session \in Loggers /\ Worker \in Loggers
  BY DEF Loggers
<1>2. ASSUME NEW g \in Loggers, NEW p \in {"logging", "notifying"}, Begins(g, p),
             UNCHANGED <<ui, holder, reading, link>>
      PROVE  /\ StartCircle => StartCircle'
             /\ EditCircle => EditCircle'
             /\ PeerCircle => PeerCircle'
  <2>1. /\ pc[g] = "idle"
        /\ \A h \in Loggers : pc'[h] = IF h = g THEN p ELSE pc[h]
    BY <1>2 DEF Begins, Moves, Placed
  <2> QED
    BY <1>1, <1>2, <2>1 DEF StartCircle, EditCircle, PeerCircle, ConnFree
<1>3. CASE SessionLogs \/ RecordStep \/ Notify
  BY <1>1, <1>2, <1>3 DEF SessionLogs, RecordStep, Notify, Logs, Others
<1>4. CASE BeginValidate
  BY <1>4 DEF BeginValidate, Reads, StartCircle, EditCircle, PeerCircle, ConnFree
<1>5. CASE ConnectionStep
  BY <1>1, <1>5
     DEF ConnectionStep, ServerStalls, ServerReads, ConnectionBreaks, SessionEnds, Dialed,
         DialCancelled, Link, StartCircle, EditCircle, PeerCircle, ConnFree
<1> QED
  BY <1>3, <1>4, <1>5

\* Two of the circles are closed for good, and no step of the program opens the third:
\* only a server that reads or a connection that breaks does
\* (loghandler.go:39 and 97, validator.go:36, client.go:509).
THEOREM UiFrozenForGood == Spec => FrozenForGood
<1>1. ASSUME Placed, [Next]_vars
      PROVE  [/\ StartCircle => StartCircle'
              /\ EditCircle => EditCircle'
              /\ PeerCircle => PeerCircle' \/ link' \in {"open", "broken"}]_vars
  <2>1. CASE UserStep \/ MainStep \/ Quit \/ ReceiveFlush
    BY <2>1, MainInCircle
  <2>2. CASE \E g \in Loggers : HandlerStep(g) \/ BeginWrite(g)
    BY <1>1, <2>2, LoggerInCircle
  <2>3. CASE SessionLogs \/ RecordStep \/ Notify \/ BeginValidate
             \/ ConnectionStep
    BY <1>1, <2>3, OthersInCircle
  <2> QED
    BY <1>1, <2>1, <2>2, <2>3 DEF Next, ConnectionStep
<1>2. Placed /\ [Next]_vars => Placed'
  BY NextPlaced
<1> QED
  BY <1>1, <1>2, InitPlaced, PTL DEF Spec, FrozenForGood

\* Before the program is set nobody sends to its loop, and the session sends no
\* message of its own while it validates.
WaitInv ==
  /\ Placed
  /\ ~program => holder = Nobody /\ pc[Session] # "notifying"
  /\ reading => pc[Session] # "notifying"

LEMMA InitWait == Init => WaitInv
<1> SUFFICES ASSUME Init PROVE WaitInv
  OBVIOUS
<1>1. Session \in Loggers
  BY DEF Loggers
<1> QED
  BY <1>1, InitPlaced DEF Init, WaitInv

LEMMA NextWait == WaitInv /\ [Next]_vars => WaitInv'
<1> SUFFICES ASSUME WaitInv, [Next]_vars PROVE WaitInv'
  OBVIOUS
<1>1. Placed /\ Placed' /\ Session \in Loggers /\ Worker \in Loggers
  BY NextPlaced DEF WaitInv, Loggers
<1>2. CASE UserStep \/ MainStep \/ Quit \/ ReceiveFlush
  <2>1. UNCHANGED <<holder, pc, reading>> /\ (program => program')
    BY <1>2
    DEF UserStep, MainStep, Quit, ReceiveFlush, ConfirmEdit, AskConn, RequestQuit,
        SetProgram, FlushCmd, Saved, UpdateLimits, SendPause, PauseSent, StopCloses,
        StopClosed, StopReturns, MainMoves
  <2> QED
    BY <1>1, <2>1 DEF WaitInv
<1>3. ASSUME NEW g \in Loggers, HandlerStep(g) \/ BeginWrite(g)
      PROVE  WaitInv'
  <2>1. \A p : pc' = [pc EXCEPT ![g] = p] =>
             \A h \in Loggers : pc'[h] = IF h = g THEN p ELSE pc[h]
    BY <1>1 DEF Placed
  <2>2. CASE Buffer(g) \/ Send(g) \/ Sent(g)
    <3>1. /\ program' = program /\ reading' = reading
          /\ holder' # Nobody => program
          /\ \E p \in {"idle", "relaying", "sending"} : pc' = [pc EXCEPT ![g] = p]
      BY <2>2 DEF Buffer, Send, Sent, Moves, Relayed
    <3>2. pc'[Session] = "notifying" => pc[Session] = "notifying"
      BY <1>1, <2>1, <3>1
    <3> QED
      BY <1>1, <3>1, <3>2 DEF WaitInv
  <2>3. CASE TakeConn(g) \/ Written(g) \/ BeginWrite(g) \/ (g = Session /\ Notified)
    BY <1>1, <2>1, <2>3 DEF TakeConn, Written, BeginWrite, Begins, Notified, Moves, Others, WaitInv
  <2>4. CASE EndValidate
    BY <1>1, <2>4 DEF EndValidate, Reads, WaitInv
  <2> QED
    BY <1>3, <2>2, <2>3, <2>4 DEF HandlerStep
<1>4. CASE SessionLogs \/ RecordStep \/ Notify
  <2>1. \A g, p : pc' = [pc EXCEPT ![g] = p] =>
             \A h \in Loggers : pc'[h] = IF h = g THEN p ELSE pc[h]
    BY <1>1 DEF Placed
  <2>2. CASE SessionLogs \/ RecordStep
    BY <1>1, <2>1, <2>2 DEF SessionLogs, RecordStep, Logs, Begins, Moves, WaitInv
  <2>3. CASE Notify
    BY <1>1, <2>1, <2>3 DEF Notify, Begins, Moves, Others, WaitInv
  <2> QED
    BY <1>4, <2>2, <2>3
<1>5. CASE BeginValidate
  BY <1>1, <1>5 DEF BeginValidate, Reads, WaitInv
<1>6. CASE ConnectionStep \/ UNCHANGED vars
  BY <1>1, <1>6 DEF ConnectionStep, ServerStalls, ServerReads, ConnectionBreaks, SessionEnds,
                    Dialed, DialCancelled, Link, vars, WaitInv
<1> QED
  BY <1>2, <1>3, <1>4, <1>5, <1>6 DEF Next, ConnectionStep

\* What may stand in a goroutine's way.
LEMMA WhoGoesOn ==
  ASSUME UiInv, WaitInv
  PROVE  BlockedOnlyInCircle
<1> SUFFICES ASSUME ~Circle, ~Outlived, ~MainGoesOn, \A g \in Loggers : ~GoesOn(g)
             PROVE  ui \in {"waiting", "done"} /\ \A g \in Loggers : pc[g] = "idle"
  BY DEF BlockedOnlyInCircle
<1>1. /\ Session \in Loggers /\ Nobody \notin Loggers /\ holder \in Loggers \cup {Nobody}
      /\ \A g \in Loggers : pc[g] \in {"idle", "logging", "sending", "notifying",
                                       "relaying", "writing"}
      /\ \A g \in Loggers : holder = g <=> pc[g] = "sending"
      /\ program <=> ui # "setup"
      /\ link \in {"open", "stuck", "broken", "dialing", "ended"}
      /\ ui \in {"setup", "starting", "waiting", "saving", "locking", "connecting",
                 "asking", "stopping", "closing", "stopped", "done"}
  BY UiAssumption DEF UiInv, LoopTyped, LocksInv, WaitInv, Placed, Loggers, UiAssumption
<1>2. ui # "setup"
  BY <1>1 DEF MainGoesOn, WaitInv
<1>3. ui # "starting" /\ ui # "saving" /\ (ui = "locking" => reading)
  BY <1>1 DEF MainGoesOn, Circle, StartCircle
<1>4. ui \in {"waiting"} \/ Stopping => \A g \in Loggers : pc[g] \notin {"logging", "sending", "notifying"}
  BY <1>1 DEF GoesOn
<1>5. ConnFree
  <2> SUFFICES ASSUME ~ConnFree PROVE FALSE
    OBVIOUS
  <2>1. link = "stuck"
    BY DEF ConnFree, GoesOn, MainGoesOn
  <2>2. pc[Session] \in {"logging", "sending", "notifying"}
    BY <1>1, <2>1 DEF GoesOn, Circle, PeerCircle
  <2>3. ui \in {"locking", "connecting", "asking"}
    BY <1>1, <1>2, <1>3, <1>4, <2>2 DEF Stopping
  <2>4. ui # "connecting" /\ ui # "asking"
    BY <2>1, <2>2 DEF Circle, PeerCircle
  <2>5. reading /\ pc[Session] \in {"logging", "sending"}
    BY <1>3, <2>2, <2>3, <2>4 DEF WaitInv
  <2> QED
    BY <2>3, <2>4, <2>5 DEF Circle, EditCircle
<1>6. \A g \in Loggers : pc[g] \notin {"relaying", "writing"}
  BY <1>5 DEF ConnFree, GoesOn
<1>7. ui \notin {"connecting", "asking", "stopping", "closing"}
  BY <1>5 DEF ConnFree, MainGoesOn
<1>8. ui # "locking"
  <2> SUFFICES ASSUME ui = "locking" PROVE FALSE
    OBVIOUS
  <2>1. reading /\ pc[Session] # "notifying" /\ pc[Session] # "idle"
    BY <1>1, <1>3 DEF WaitInv, GoesOn
  <2> QED
    BY <1>1, <1>6, <2>1 DEF Circle, EditCircle
<1>9. ui \in {"waiting", "stopped", "done"}
  BY <1>1, <1>2, <1>3, <1>7, <1>8
<1>10. \A g \in Loggers : pc[g] = "idle"
  BY <1>1, <1>4, <1>6, <1>9 DEF Stopping
<1>11. ui # "stopped"
  BY <1>1, <1>10 DEF MainGoesOn, GoesOn, Outlived, Cancelled
<1> QED
  BY <1>9, <1>10, <1>11

\* Whoever waits for a lock, for the loop or for the server is not waited for by the
\* one that holds it, except in the three circles, and Stop waits for an idle client
\* only where a dial has outlived it (loghandler.go:97, validator.go:36 and 98,
\* client.go:151 and 509).
THEOREM UiBlockedOnlyInCircle == Spec => []BlockedOnlyInCircle
<1>1. UiInv /\ WaitInv => BlockedOnlyInCircle
  BY WhoGoesOn
<1> QED
  BY <1>1, UiKeepsInv, InitWait, NextWait, PTL DEF Spec
=============================================================================
