-------------------------- MODULE Admission_proofs --------------------------
(***************************************************************************)
(* Theorems about Admission, for all limits, windows, cooldowns and times. *)
(* First the guards by themselves: the limiter and the signature failures  *)
(* share one argument, that what a window still lists is the end of the    *)
(* history and what it has dropped from it is expired.  Then Admission: it *)
(* uses the duplicate filter as InstructionDedup describes it and the      *)
(* guards as AdmissionGuards does, so that what is proved about each holds *)
(* here, and a message that is sent again passes once.                     *)
(***************************************************************************)
EXTENDS Admission, InstructionDedup_proofs, FiniteSetTheorems, SequenceTheorems, TLAPS

Listed(times, all) ==
    /\ times \in Seq(Nat) /\ all \in Seq(Nat)
    /\ Len(times) <= Len(all)
    /\ \A i \in 1..Len(times) : times[i] = all[Len(all) - Len(times) + i]
    /\ \A i \in 1..(Len(all) - Len(times)) : Expired(all[i])

\* Any two times of which the second is k places later are a window apart.
Spaced(all, k) ==
    \A i \in 1..Len(all) : i + k \in 1..Len(all) => all[i + k] - all[i] > Window

Ascending(all) ==
    /\ \A i, j \in 1..Len(all) : i <= j => all[i] <= all[j]
    /\ \A i \in 1..Len(all) : all[i] <= now

\* A set of positions that has all positions before each of its own.
LEMMA InitialPositions ==
    ASSUME NEW n \in Nat, NEW E \in SUBSET (1..n), \A i \in E : 1..i \subseteq E
    PROVE  Cardinality(E) \in 0..n /\ E = 1..Cardinality(E)
  <1>1. IsFiniteSet(1..n) /\ Cardinality(1..n) = n
    BY FS_Interval
  <1>2. IsFiniteSet(E) /\ Cardinality(E) <= n /\ Cardinality(E) \in Nat
    <2>1. IsFiniteSet(E) /\ Cardinality(E) <= Cardinality(1..n)
      BY <1>1, FS_Subset
    <2>2. QED
      BY <1>1, <2>1, FS_CardinalityType
  <1>3. ASSUME NEW i \in E PROVE i <= Cardinality(E)
    <2>1. i \in Nat \ {0} /\ 1..i \in SUBSET E
      <3>1. 1..i \subseteq E
        BY <1>3
      <3>2. i \in 1..n
        BY <1>3
      <3> QED
        BY ONLY <3>1, <3>2, n \in Nat
    <2>2. Cardinality(1..i) <= Cardinality(E)
      BY <2>1, <1>2, FS_Subset
    <2>3. QED
      BY <2>1, <2>2, FS_Interval
  <1>4. E \in SUBSET (1..Cardinality(E))
    BY <1>2, <1>3
  <1>5. IsFiniteSet(1..Cardinality(E)) /\ Cardinality(1..Cardinality(E)) = Cardinality(E)
    BY <1>2, FS_Interval
  <1>6. E = 1..Cardinality(E)
    BY <1>4, <1>5, FS_Subset
  <1>7. QED
    BY <1>2, <1>6

\* Evict drops the first k times, all of them expired, up to one that is not.
LEMMA EvictDrops ==
    ASSUME NEW times \in Seq(Nat)
    PROVE  \E k \in 0..Len(times) :
              /\ Evict(times) \in Seq(Nat) /\ Len(Evict(times)) = Len(times) - k
              /\ \A i \in 1..(Len(times) - k) : Evict(times)[i] = times[k + i]
              /\ \A i \in 1..k : Expired(times[i])
              /\ k < Len(times) => ~Expired(times[k + 1])
  <1> DEFINE E == {i \in DOMAIN times : \A j \in 1..i : Expired(times[j])}
  <1>1. /\ Len(times) \in Nat /\ DOMAIN times = 1..Len(times)
        /\ \A i \in 1..Len(times) : times[i] \in Nat
    BY LenProperties
  <1>2. PICK k \in 0..Len(times) : k = Cardinality(E) /\ E = 1..k
    <2>1. E \in SUBSET (1..Len(times)) /\ \A i \in E : 1..i \subseteq E
      BY <1>1
    <2> HIDE DEF E
    <2>2. QED
      BY <2>1, <1>1, InitialPositions
  <1>3. Evict(times) = SubSeq(times, k + 1, Len(times))
    BY <1>2 DEF Evict
  <1>4. \A i \in 1..k : Expired(times[i])
    BY <1>2
  <1>5. ASSUME k < Len(times) PROVE ~Expired(times[k + 1])
    <2>1. k + 1 \in DOMAIN times /\ k + 1 \notin 1..k
      BY <1>1, <1>5
    <2>2. k + 1 \notin E
      BY <2>1, <1>2
    <2>3. ~\A j \in 1..(k + 1) : Expired(times[j])
      BY <2>1, <2>2
    <2>4. QED
      BY <2>3, <1>4
  <1>6. /\ SubSeq(times, k + 1, Len(times)) \in Seq(Nat)
        /\ Len(SubSeq(times, k + 1, Len(times))) = Len(times) - k
        /\ \A i \in 1..(Len(times) - k) : SubSeq(times, k + 1, Len(times))[i] = times[k + i]
    <2>1. \A i \in (k + 1)..Len(times) : times[i] \in Nat
      BY <1>1
    <2>2. k + 1 \in Int /\ Len(times) \in Int
      BY <1>1
    <2> HIDE DEF E
    <2>3. /\ SubSeq(times, k + 1, Len(times)) \in Seq(Nat)
          /\ Len(SubSeq(times, k + 1, Len(times)))
                = IF k + 1 <= Len(times) THEN Len(times) - (k + 1) + 1 ELSE 0
          /\ \A i \in 1..(Len(times) - (k + 1) + 1) :
                SubSeq(times, k + 1, Len(times))[i] = times[(k + 1) + i - 1]
      BY ONLY <2>1, <2>2, SubSeqProperties
    <2>4. /\ Len(times) - (k + 1) + 1 = Len(times) - k
          /\ (IF k + 1 <= Len(times) THEN Len(times) - (k + 1) + 1 ELSE 0) = Len(times) - k
      <3>1. Len(times) \in Nat /\ k \in 0..Len(times)
        BY <1>1
      <3>2. Len(times) - (k + 1) + 1 = Len(times) - k
        BY <3>1
      <3>3. k + 1 <= Len(times) \/ Len(times) - k = 0
        BY <3>1
      <3>4. QED
        BY <3>2, <3>3
    <2>5. \A i \in 1..(Len(times) - k) : (k + 1) + i - 1 = k + i
      BY <1>1
    <2>6. QED
      BY <2>3, <2>4, <2>5
  <1>7. QED
    BY <1>3, <1>4, <1>5, <1>6

\* After an eviction the list is still the end of the history.
LEMMA EvictListed ==
    ASSUME NEW times, NEW all, Listed(times, all)
    PROVE  Listed(Evict(times), all) /\ Len(Evict(times)) <= Len(times)
  <1> DEFINE d == Len(all) - Len(times)
  <1>1. /\ times \in Seq(Nat) /\ all \in Seq(Nat) /\ d \in Nat
        /\ Len(times) \in Nat /\ Len(all) \in Nat
    BY LenProperties DEF Listed
  <1>2. PICK k \in 0..Len(times) :
              /\ Evict(times) \in Seq(Nat) /\ Len(Evict(times)) = Len(times) - k
              /\ \A i \in 1..(Len(times) - k) : Evict(times)[i] = times[k + i]
              /\ \A i \in 1..k : Expired(times[i])
    BY <1>1, EvictDrops
  <1>3. \A i \in 1..(Len(times) - k) : Evict(times)[i] = all[d + k + i]
    <2>1. ASSUME NEW i \in 1..(Len(times) - k) PROVE times[k + i] = all[d + (k + i)]
      BY <1>1, <1>2 DEF Listed
    <2>2. QED
      BY <2>1, <1>1, <1>2
  <1>4. \A i \in 1..(d + k) : Expired(all[i])
    <2>1. ASSUME NEW i \in 1..(d + k), i > d PROVE Expired(all[i])
      <3>1. i - d \in 1..k /\ i - d \in 1..Len(times)
        BY <2>1, <1>1
      <3>2. times[i - d] = all[d + (i - d)]
        BY <3>1 DEF Listed
      <3>3. d + (i - d) = i
        BY <2>1, <1>1
      <3>4. QED
        BY <3>1, <3>2, <3>3, <1>2
    <2>2. ASSUME NEW i \in 1..(d + k), i <= d PROVE Expired(all[i])
      BY <2>2, <1>1 DEF Listed
    <2>3. QED
      BY <2>1, <2>2, <1>1
  <1>5. Len(all) - Len(Evict(times)) = d + k
    BY <1>1, <1>2
  <1>6. QED
    BY <1>1, <1>2, <1>3, <1>4, <1>5 DEF Listed

\* A time that joins both joins them at the end.
LEMMA AppendListed ==
    ASSUME NEW times, NEW all, Listed(times, all), now \in Nat
    PROVE  Listed(Append(times, now), Append(all, now))
  <1> DEFINE n == Len(times)  m == Len(all)
  <1>1. times \in Seq(Nat) /\ all \in Seq(Nat) /\ n \in Nat /\ m \in Nat /\ n <= m
    BY LenProperties DEF Listed
  <1>2. /\ Append(times, now) \in Seq(Nat) /\ Len(Append(times, now)) = n + 1
        /\ \A i \in 1..n : Append(times, now)[i] = times[i]
        /\ Append(times, now)[n + 1] = now
    BY <1>1, AppendProperties
  <1>3. /\ Append(all, now) \in Seq(Nat) /\ Len(Append(all, now)) = m + 1
        /\ \A i \in 1..m : Append(all, now)[i] = all[i]
        /\ Append(all, now)[m + 1] = now
    BY <1>1, AppendProperties
  <1>4. \A i \in 1..(n + 1) : Append(times, now)[i] = Append(all, now)[m - n + i]
    <2>1. ASSUME NEW i \in 1..n PROVE Append(times, now)[i] = Append(all, now)[m - n + i]
      <3>1. m - n + i \in 1..m
        BY <1>1
      <3>2. times[i] = all[m - n + i]
        BY DEF Listed
      <3>3. QED
        BY <3>1, <3>2, <1>2, <1>3
    <2>2. m - n + (n + 1) = m + 1
      BY <1>1
    <2>3. \A i \in 1..(n + 1) : i \in 1..n \/ i = n + 1
      BY <1>1
    <2>4. QED
      BY <2>1, <2>2, <2>3, <1>2, <1>3
  <1>5. \A i \in 1..(m - n) : Expired(Append(all, now)[i])
    <2>1. \A i \in 1..(m - n) : i \in 1..m
      BY <1>1
    <2>2. QED
      BY <2>1, <1>3 DEF Listed
  <1>6. (m + 1) - (n + 1) = m - n /\ n + 1 <= m + 1
    BY <1>1
  <1> HIDE DEF n, m
  <1>7. QED
    BY <1>2, <1>3, <1>4, <1>5, <1>6 DEF Listed

\* A time that joins a list of less than k is a window later than the time k
\* places before it.
LEMMA AppendSpaced ==
    ASSUME NEW times, NEW all, NEW k \in Nat,
           Listed(times, all), Spaced(all, k), Len(times) < k, now \in Nat, Window \in Nat
    PROVE  Spaced(Append(all, now), k)
  <1> DEFINE m == Len(all)
  <1>1. /\ all \in Seq(Nat) /\ m \in Nat /\ Len(times) \in Nat
        /\ \A i \in 1..m : all[i] \in Nat
    BY LenProperties DEF Listed
  <1>2. /\ Len(Append(all, now)) = m + 1
        /\ \A i \in 1..m : Append(all, now)[i] = all[i]
        /\ Append(all, now)[m + 1] = now
    BY <1>1, AppendProperties
  <1> SUFFICES ASSUME NEW i \in 1..(m + 1), i + k \in 1..(m + 1)
               PROVE  Append(all, now)[i + k] - Append(all, now)[i] > Window
    BY <1>2 DEF Spaced
  <1>3. k > 0
    BY <1>1
  <1>4. i \in 1..m
    BY <1>1, <1>3
  <1>5. CASE i + k \in 1..m
    BY <1>2, <1>4, <1>5 DEF Spaced
  <1>6. CASE i + k = m + 1
    <2>1. i \in 1..(m - Len(times))
      BY <1>1, <1>4, <1>6
    <2>2. all[i] < now - Window
      BY <2>1 DEF Listed, Expired
    <2>3. QED
      BY <2>2, <1>1, <1>2, <1>4, <1>6
  <1>7. i + k \in 1..m \/ i + k = m + 1
    <2>1. m \in Nat
      BY <1>1
    <2> HIDE DEF m
    <2>2. QED
      BY <2>1
  <1>8. QED
    BY <1>5, <1>6, <1>7

LEMMA AppendAscending ==
    ASSUME NEW all \in Seq(Nat), Ascending(all), now \in Nat
    PROVE  Ascending(Append(all, now))
  <1>1. /\ Len(all) \in Nat /\ \A i \in 1..Len(all) : all[i] \in Nat
        /\ Len(Append(all, now)) = Len(all) + 1
        /\ \A i \in 1..Len(all) : Append(all, now)[i] = all[i]
        /\ Append(all, now)[Len(all) + 1] = now
    BY LenProperties, AppendProperties
  <1>2. \A i \in 1..(Len(all) + 1) : i \in 1..Len(all) \/ i = Len(all) + 1
    BY <1>1
  <1>3. \A i \in 1..(Len(all) + 1) : Append(all, now)[i] <= now
    BY <1>1, <1>2 DEF Ascending
  <1>4. ASSUME NEW i \in 1..(Len(all) + 1), NEW j \in 1..(Len(all) + 1), i <= j
        PROVE  Append(all, now)[i] <= Append(all, now)[j]
    <2>1. CASE j = Len(all) + 1
      BY <1>1, <1>3, <2>1
    <2>2. CASE j \in 1..Len(all)
      <3>1. i \in 1..Len(all)
        BY <1>1, <1>4, <2>2
      <3>2. QED
        BY <1>1, <1>4, <2>2, <3>1 DEF Ascending
    <2>3. QED
      BY <1>2, <2>1, <2>2
  <1>5. QED
    BY <1>1, <1>3, <1>4 DEF Ascending

-----------------------------------------------------------------------------
\* Limiter and failures.

Numbers ==
    /\ Limit \in Nat \ {0} /\ Window \in Nat \ {0} /\ SigFailThreshold \in Nat \ {0}
    /\ SigFailThreshold - 1 \in Nat

LEMMA NumbersHold == Numbers
  BY GuardsAssumption DEF GuardsAssumption, Numbers, Limit

LimitInv ==
    /\ Listed(timestamps, grants) /\ Len(timestamps) <= Limit
    /\ Spaced(grants, Limit) /\ Ascending(grants)

SigInv ==
    /\ Listed(sigFailures, badSignatures) /\ Len(sigFailures) < SigFailThreshold
    /\ Spaced(badSignatures, SigFailThreshold - 1) /\ Ascending(badSignatures)

WindowInv ==
    /\ now \in Nat /\ now <= MaxTime
    /\ denied \in Nat /\ disconnects \in Nat
    /\ LimitInv /\ SigInv

\* What is listed stays listed as time goes on.
LEMMA Later ==
    ASSUME NEW times, NEW all, Listed(times, all), now \in Nat, now' \in Nat, now <= now'
    PROVE  Listed(times, all)'
  <1>1. \A i \in 1..(Len(all) - Len(times)) : all[i] < now - Window
    BY DEF Listed, Expired
  <1>2. \A i \in 1..(Len(all) - Len(times)) : all[i] \in Nat
    <2>1. Len(all) \in Nat /\ Len(times) \in Nat /\ \A i \in 1..Len(all) : all[i] \in Nat
      BY LenProperties DEF Listed
    <2>2. QED
      BY <2>1
  <1>3. \A i \in 1..(Len(all) - Len(times)) : all[i] < now' - Window
    BY <1>1, <1>2, NumbersHold DEF Numbers
  <1>4. QED
    BY <1>3 DEF Listed, Expired

LEMMA AllowKeeps ==
    ASSUME WindowInv, Allow
    PROVE  LimitInv' /\ denied' \in Nat
  <1> DEFINE recent == Evict(timestamps)
  <1>1. /\ Listed(recent, grants) /\ Len(recent) <= Len(timestamps)
        /\ now \in Nat /\ now' = now /\ denied \in Nat
    BY EvictListed DEF WindowInv, LimitInv, Allow
  <1>2. /\ Len(recent) \in Nat /\ Len(timestamps) \in Nat /\ Len(timestamps) <= Limit
        /\ Limit \in Nat /\ Window \in Nat /\ grants \in Seq(Nat)
    BY <1>1, LenProperties, NumbersHold DEF WindowInv, LimitInv, Listed, Numbers
  <1>3. CASE Len(recent) >= Limit
    <2>1. timestamps' = recent /\ grants' = grants /\ denied' = denied + 1
      BY <1>3 DEF Allow
    <2> HIDE DEF recent
    <2>2. Listed(timestamps, grants)' /\ (Len(timestamps) <= Limit)'
      BY <2>1, <1>1, <1>2 DEF Listed, Expired, Limit
    <2>3. Spaced(grants, Limit)' /\ Ascending(grants)'
      BY <2>1, <1>1 DEF WindowInv, LimitInv, Spaced, Ascending, Limit
    <2>4. QED
      BY <2>1, <2>2, <2>3, <1>1 DEF LimitInv
  <1>4. CASE ~(Len(recent) >= Limit)
    <2>1. timestamps' = Append(recent, now) /\ grants' = Append(grants, now) /\ denied' = denied
      BY <1>4 DEF Allow
    <2> HIDE DEF recent
    <2>2. Len(recent) < Limit
      BY <1>2, <1>4
    <2>3. Listed(Append(recent, now), Append(grants, now))
      BY <1>1, AppendListed
    <2>4. Spaced(Append(grants, now), Limit)
      BY <1>1, <1>2, <2>2, AppendSpaced DEF WindowInv, LimitInv
    <2>5. Ascending(Append(grants, now))
      BY <1>1, <1>2, AppendAscending DEF WindowInv, LimitInv
    <2>6. Len(Append(recent, now)) <= Limit
      <3>1. Len(Append(recent, now)) = Len(recent) + 1
        BY <1>1, AppendProperties DEF Listed
      <3>2. QED
        BY <3>1, <2>2, <1>2
    <2>7. Listed(timestamps, grants)' /\ (Len(timestamps) <= Limit)'
      BY <2>1, <2>3, <2>6, <1>1 DEF Listed, Expired, Limit
    <2>8. Spaced(grants, Limit)' /\ Ascending(grants)'
      BY <2>1, <2>4, <2>5, <1>1 DEF Spaced, Ascending, Limit
    <2>9. QED
      BY <2>1, <2>7, <2>8, <1>1 DEF LimitInv
  <1>5. QED
    BY <1>3, <1>4

LEMMA RecordKeeps ==
    ASSUME WindowInv, RecordSigFailure
    PROVE  SigInv' /\ disconnects' \in Nat
  <1> DEFINE recent == Evict(sigFailures)
  <1>1. /\ Listed(recent, badSignatures) /\ now \in Nat /\ now' = now
        /\ disconnects \in Nat /\ badSignatures \in Seq(Nat)
    BY EvictListed DEF WindowInv, SigInv, Listed, RecordSigFailure
  <1>2. /\ Len(recent) \in Nat /\ Len(Append(recent, now)) = Len(recent) + 1
        /\ SigFailThreshold \in Nat /\ SigFailThreshold - 1 \in Nat /\ Window \in Nat
    BY <1>1, LenProperties, AppendProperties, NumbersHold DEF Listed, Numbers
  <1>3. CASE TooMany(Append(recent, now))
    <2>1. sigFailures' = << >> /\ badSignatures' = << >> /\ disconnects' \in Nat
      BY <1>1, <1>3 DEF RecordSigFailure
    <2>2. << >> \in Seq(Nat) /\ Len(<< >>) = 0 /\ 0 < SigFailThreshold
      BY EmptySeq, NumbersHold DEF Numbers
    <2>3. QED
      BY <2>1, <2>2 DEF SigInv, Listed, Spaced, Ascending
  <1>4. CASE ~TooMany(Append(recent, now))
    <2>1. sigFailures' = Append(recent, now) /\ badSignatures' = Append(badSignatures, now)
          /\ disconnects' \in Nat
      BY <1>1, <1>4 DEF RecordSigFailure
    <2>2. Len(recent) < SigFailThreshold - 1
      BY <1>2, <1>4 DEF TooMany
    <2> HIDE DEF recent
    <2>3. Listed(Append(recent, now), Append(badSignatures, now))
      BY <1>1, AppendListed
    <2>4. Spaced(Append(badSignatures, now), SigFailThreshold - 1)
      BY <1>1, <1>2, <2>2, AppendSpaced DEF WindowInv, SigInv
    <2>5. Ascending(Append(badSignatures, now))
      BY <1>1, AppendAscending DEF WindowInv, SigInv
    <2>6. Len(Append(recent, now)) < SigFailThreshold
      BY <1>2, <2>2
    <2>7. Listed(sigFailures, badSignatures)' /\ (Len(sigFailures) < SigFailThreshold)'
      BY <2>1, <2>3, <2>6, <1>1 DEF Listed, Expired
    <2>8. Spaced(badSignatures, SigFailThreshold - 1)' /\ Ascending(badSignatures)'
      BY <2>1, <2>4, <2>5, <1>1 DEF Spaced, Ascending
    <2>9. QED
      BY <2>1, <2>7, <2>8 DEF SigInv
  <1>5. QED
    BY <1>3, <1>4

LEMMA WindowInvKept ==
    ASSUME WindowInv, [GuardsNext]_guardVars
    PROVE  WindowInv'
  <1>1. CASE GuardsTick
    <2>1. /\ now \in Nat /\ now' \in Nat /\ now <= now' /\ now' <= MaxTime
          /\ UNCHANGED <<limitVars, sigVars>>
      BY <1>1, ClockAssumption DEF GuardsTick, Advance, WindowInv, ClockAssumption
    <2>2. Listed(timestamps, grants)' /\ Listed(sigFailures, badSignatures)'
      <3>1. Listed(timestamps, grants) /\ Listed(sigFailures, badSignatures)
        BY DEF WindowInv, LimitInv, SigInv
      <3>2. QED
        BY <3>1, <2>1, Later DEF limitVars, sigVars
    <2>3. /\ Spaced(grants, Limit)' /\ Spaced(badSignatures, SigFailThreshold - 1)'
          /\ (Len(timestamps) <= Limit)' /\ (Len(sigFailures) < SigFailThreshold)'
          /\ (denied \in Nat)' /\ (disconnects \in Nat)'
      BY <2>1 DEF WindowInv, LimitInv, SigInv, limitVars, sigVars, Spaced, Limit
    <2>4. Ascending(grants)' /\ Ascending(badSignatures)'
      <3>1. /\ \A i \in 1..Len(grants) : grants[i] \in Nat
            /\ \A i \in 1..Len(badSignatures) : badSignatures[i] \in Nat
        BY LenProperties DEF WindowInv, LimitInv, SigInv, Listed
      <3>2. QED
        BY <2>1, <3>1 DEF WindowInv, LimitInv, SigInv, limitVars, sigVars, Ascending
    <2>5. QED
      BY <2>1, <2>2, <2>3, <2>4 DEF WindowInv, LimitInv, SigInv
  <1>2. CASE GuardsRestart
    <2>1. << >> \in Seq(Nat) /\ Len(<< >>) = 0 /\ 0 <= Limit /\ 0 < SigFailThreshold
      BY EmptySeq, NumbersHold DEF Numbers
    <2>2. QED
      BY <1>2, <2>1 DEF GuardsRestart, WindowInv, LimitInv, SigInv, Listed, Spaced, Ascending, Limit
  <1>3. CASE Allow
    <2>1. UNCHANGED <<now, sigVars>>
      BY <1>3 DEF Allow
    <2>2. SigInv'
      BY <2>1 DEF WindowInv, SigInv, sigVars, Listed, Spaced, Ascending, Expired
    <2>3. QED
      BY <1>3, <2>1, <2>2, AllowKeeps DEF WindowInv, sigVars
  <1>4. CASE RecordSigFailure
    <2>1. UNCHANGED <<now, limitVars>>
      BY <1>4 DEF RecordSigFailure
    <2>2. LimitInv'
      BY <2>1 DEF WindowInv, LimitInv, limitVars, Listed, Spaced, Ascending, Expired, Limit
    <2>3. QED
      BY <1>4, <2>1, <2>2, RecordKeeps DEF WindowInv, limitVars
  <1>5. ASSUME UNCHANGED <<now, limitVars, sigVars>>
        PROVE  WindowInv'
    BY <1>5 DEF WindowInv, LimitInv, SigInv, limitVars, sigVars, Listed, Spaced, Ascending, Expired, Limit
  <1>6. ASSUME NEW ok \in BOOLEAN, OrderExecuted(ok) PROVE WindowInv'
    BY <1>5, <1>6 DEF OrderExecuted
  <1>7. CASE UNCHANGED guardVars
    BY <1>5, <1>7 DEF guardVars
  <1>8. QED
    BY <1>1, <1>2, <1>3, <1>4, <1>6, <1>7 DEF GuardsNext

LEMMA WindowInvInitially == GuardsInit => WindowInv
  <1>1. /\ << >> \in Seq(Nat) /\ Len(<< >>) = 0 /\ 0 <= Limit
        /\ 0 < SigFailThreshold /\ 0 <= MaxTime
    BY EmptySeq, NumbersHold, ClockAssumption DEF Numbers, ClockAssumption
  <1>2. QED
    BY <1>1 DEF GuardsInit, ClockInit, WindowInv, LimitInv, SigInv, Listed, Spaced, Ascending, Limit

-----------------------------------------------------------------------------
\* The breaker.

Failing(i) == \A j \in i..Len(orders) : ~orders[j].ok

\* Every order from the i-th on failed: they have all been counted, unless the
\* breaker has tripped since.
Counted ==
    \A i \in 1..Len(orders) : Failing(i) =>
        fails >= Len(orders) - i + 1 \/ trippedAt >= orders[i].at

BreakerInv ==
    /\ now \in Nat
    /\ orders \in Seq([at : Nat, ok : BOOLEAN])
    /\ \A i \in 1..Len(orders) : orders[i].at <= now
    /\ fails \in Nat /\ trippedAt \in {Never} \cup 0..now
    /\ MaxConsecutive > 0 => Counted
    /\ StreakTrips

LEMMA OrderKeeps ==
    ASSUME BreakerInv, NEW ok \in BOOLEAN, OrderExecuted(ok)
    PROVE  BreakerInv'
  <1> DEFINE n == Len(orders)  order == [at |-> now, ok |-> ok]
  <1>1. /\ n \in Nat /\ now \in Nat /\ now' = now /\ MaxConsecutive \in Nat /\ Cooldown \in Nat \ {0}
        /\ fails \in Nat /\ trippedAt \in {Never} \cup 0..now
        /\ \A i \in 1..n : orders[i].at \in Nat /\ orders[i].at <= now
    <2>1. n \in Nat /\ \A i \in 1..n : orders[i] \in [at : Nat, ok : BOOLEAN]
      BY LenProperties DEF BreakerInv
    <2>2. \A i \in 1..n : orders[i].at \in Nat
      BY <2>1
    <2>3. QED
      BY <2>1, <2>2, GuardsAssumption DEF BreakerInv, OrderExecuted, GuardsAssumption
  <1>2. /\ orders' \in Seq([at : Nat, ok : BOOLEAN]) /\ Len(orders') = n + 1
        /\ \A i \in 1..n : orders'[i] = orders[i]
        /\ orders'[n + 1] = order
    <2>1. order \in [at : Nat, ok : BOOLEAN] /\ orders' = Append(orders, order)
      BY <1>1 DEF OrderExecuted
    <2>2. QED
      BY <2>1, AppendProperties DEF BreakerInv
  <1>3. /\ fails' \in Nat /\ trippedAt' \in {Never} \cup 0..now
        /\ trippedAt' = trippedAt \/ trippedAt' = now
    BY <1>1 DEF OrderExecuted, RecordSuccess, RecordFailure
  <1>4. \A i \in 1..(n + 1) : orders'[i].at <= now /\ orders'[i].at \in Nat
    <2>1. \A i \in 1..(n + 1) : i \in 1..n \/ i = n + 1
      BY <1>1
    <2>2. orders'[n + 1].at = now
      BY <1>2
    <2>3. QED
      BY <2>1, <2>2, <1>1, <1>2
  <1>5. ASSUME MaxConsecutive > 0, NEW i \in 1..(n + 1), Failing(i)'
        PROVE  /\ fails' >= (n + 1) - i + 1 \/ trippedAt' >= orders'[i].at
               /\ (n + 1) - i + 1 >= MaxConsecutive =>
                     /\ trippedAt' # Never
                     /\ trippedAt' >= orders'[i].at \/ now - trippedAt' < Cooldown
    <2>1. /\ ~ok
          /\ \A j \in i..n : ~orders[j].ok
      <3>1. n + 1 \in i..(n + 1) /\ \A j \in i..n : j \in i..(n + 1) /\ j \in 1..n
        BY <1>1
      <3>2. \A j \in i..(n + 1) : ~orders'[j].ok
        BY <1>2, <1>5 DEF Failing
      <3>3. QED
        BY <3>1, <3>2, <1>2
    <2>2. RecordFailure
      BY <1>1, <1>5, <2>1 DEF OrderExecuted
    <2>3. CASE trippedAt' = now
      BY <2>3, <1>1, <1>4 DEF Never
    <2>4. CASE fails' = fails + 1 /\ trippedAt' = trippedAt /\ ~(fails + 1 >= MaxConsecutive /\ CooledDown)
      <3>1. fails >= n - i + 1 \/ trippedAt >= orders'[i].at
        <4>1. CASE i = n + 1
          BY <4>1, <1>1
        <4>2. CASE i \in 1..n
          BY <4>2, <1>2, <1>5, <2>1 DEF BreakerInv, Counted, Failing
        <4>3. QED
          BY <4>1, <4>2, <1>1
      <3>2. CASE trippedAt >= orders'[i].at
        BY <3>2, <2>4, <1>1, <1>4 DEF Never
      <3>3. CASE fails >= n - i + 1
        <4>1. fails' >= (n + 1) - i + 1
          BY <3>3, <2>4, <1>1
        <4>2. ASSUME (n + 1) - i + 1 >= MaxConsecutive
              PROVE  trippedAt' # Never /\ now - trippedAt' < Cooldown
          <5>1. fails + 1 >= MaxConsecutive
            BY <3>3, <4>2, <1>1
          <5>2. ~CooledDown
            BY <5>1, <2>4
          <5>3. QED
            BY <5>2, <2>4, <1>1 DEF CooledDown, Never
        <4>3. QED
          BY <4>1, <4>2
      <3>4. QED
        BY <3>1, <3>2, <3>3
    <2>5. QED
      BY <2>2, <2>3, <2>4 DEF RecordFailure
  <1>6. MaxConsecutive > 0 => Counted'
    BY <1>2, <1>5 DEF Counted
  <1>7. StreakTrips'
    <2>1. PICK k \in Int : k = n + 1 - MaxConsecutive + 1
      BY <1>1
    <2>2. SUFFICES ASSUME MaxConsecutive > 0, n + 1 >= MaxConsecutive,
                          \A j \in k..(n + 1) : ~orders'[j].ok
                   PROVE  /\ trippedAt' # Never
                          /\ trippedAt' >= orders'[k].at \/ orders'[n + 1].at - trippedAt' < Cooldown
      <3>1. Len(orders') = n + 1 /\ (n + 1) - MaxConsecutive + 1 = k
        BY <1>1, <1>2, <2>1
      <3> HIDE DEF n
      <3>2. QED
        BY <3>1, Zenon DEF StreakTrips
    <2>3. k \in 1..(n + 1) /\ (n + 1) - k + 1 >= MaxConsecutive
      BY <1>1, <2>1, <2>2
    <2>4. Failing(k)'
      BY <1>2, <2>2 DEF Failing
    <2>5. orders'[n + 1].at = now
      BY <1>2
    <2>6. /\ trippedAt' # Never
          /\ trippedAt' >= orders'[k].at \/ now - trippedAt' < Cooldown
      BY <2>2, <2>3, <2>4, <1>5
    <2>7. QED
      BY <2>5, <2>6
  <1>8. QED
    BY <1>1, <1>2, <1>3, <1>4, <1>6, <1>7 DEF BreakerInv

LEMMA BreakerInvKept ==
    ASSUME BreakerInv, [GuardsNext]_guardVars
    PROVE  BreakerInv'
  <1>1. CASE GuardsTick
    <2>1. now' \in Nat /\ now <= now' /\ UNCHANGED <<orders, fails, trippedAt>> /\ now \in Nat
      BY <1>1 DEF GuardsTick, Advance, BreakerInv, breakerVars
    <2>2. \A i \in 1..Len(orders) : orders[i].at \in Nat
      <3>1. \A i \in 1..Len(orders) : orders[i] \in [at : Nat, ok : BOOLEAN]
        BY LenProperties DEF BreakerInv
      <3>2. QED
        BY <3>1
    <2>3. (\A i \in 1..Len(orders) : orders[i].at <= now)'
      BY <2>1, <2>2 DEF BreakerInv
    <2>4. trippedAt' \in {Never} \cup 0..now'
      BY <2>1 DEF BreakerInv, Never
    <2>5. (MaxConsecutive > 0 => Counted)' /\ StreakTrips'
      BY <2>1 DEF BreakerInv, Counted, Failing, StreakTrips
    <2>6. QED
      BY <2>1, <2>3, <2>4, <2>5 DEF BreakerInv
  <1>2. CASE GuardsRestart
    <2>1. << >> \in Seq([at : Nat, ok : BOOLEAN]) /\ Len(<< >>) = 0
      BY EmptySeq
    <2>2. orders' = << >> /\ fails' = 0 /\ trippedAt' = Never /\ now' = now
      BY <1>2 DEF GuardsRestart
    <2>3. (MaxConsecutive > 0 => Counted)' /\ StreakTrips'
      BY <2>1, <2>2, GuardsAssumption DEF Counted, StreakTrips, GuardsAssumption
    <2>4. QED
      BY <2>1, <2>2, <2>3 DEF BreakerInv
  <1>3. ASSUME UNCHANGED <<now, breakerVars>> PROVE BreakerInv'
    BY <1>3 DEF breakerVars, BreakerInv, Counted, Failing, StreakTrips
  <1>4. CASE Allow \/ RecordSigFailure \/ UNCHANGED guardVars
    BY <1>3, <1>4 DEF Allow, RecordSigFailure, guardVars
  <1>5. QED
    BY <1>1, <1>2, <1>4, OrderKeeps DEF GuardsNext

LEMMA BreakerInvInitially == GuardsInit => BreakerInv
  <1>1. << >> \in Seq([at : Nat, ok : BOOLEAN]) /\ Len(<< >>) = 0
    BY EmptySeq
  <1>2. GuardsInit => orders = << >> /\ fails = 0 /\ trippedAt = Never /\ now = 0
    BY DEF GuardsInit, ClockInit
  <1>3. GuardsInit => Counted /\ StreakTrips
    BY <1>1, <1>2, GuardsAssumption DEF Counted, StreakTrips, GuardsAssumption
  <1>4. QED
    BY <1>1, <1>2, <1>3 DEF BreakerInv

-----------------------------------------------------------------------------
GuardsInv == WindowInv /\ BreakerInv

LEMMA GuardsInvInitially == GuardsInit => GuardsInv
  BY WindowInvInitially, BreakerInvInitially DEF GuardsInv

LEMMA GuardsInvKept == GuardsInv /\ [GuardsNext]_guardVars => GuardsInv'
  BY WindowInvKept, BreakerInvKept DEF GuardsInv

\* The sliding windows are exact at every length and limit, and no streak is
\* missed (Allow, recordSigFailure, RecordFailure).
LEMMA GuardsHold ==
    ASSUME GuardsInv
    PROVE  NeverOverLimit /\ BurstDisconnects /\ StreakTrips
  <1>1. DOMAIN grants = 1..Len(grants) /\ DOMAIN badSignatures = 1..Len(badSignatures)
    BY LenProperties DEF GuardsInv, WindowInv, LimitInv, SigInv, Listed
  <1>2. NeverOverLimit
    BY <1>1 DEF GuardsInv, WindowInv, LimitInv, Spaced, NeverOverLimit
  <1>3. BurstDisconnects
    BY <1>1 DEF GuardsInv, WindowInv, SigInv, Spaced, BurstDisconnects
  <1>4. QED
    BY <1>2, <1>3 DEF GuardsInv, BreakerInv

\* What is left after an eviction is the last minute: the list is sorted.
LEMMA DeniedHolds ==
    ASSUME WindowInv, [GuardsNext]_guardVars, denied' > denied
    PROVE  Cardinality({i \in DOMAIN grants : grants[i] >= now - Window}) = Limit
  <1>1. Allow
    <2>1. denied \in Nat /\ denied' # denied /\ denied' # 0
      BY DEF WindowInv
    <2>2. QED
      BY <2>1 DEF GuardsNext, GuardsTick, GuardsRestart, RecordSigFailure, OrderExecuted,
         limitVars, guardVars
  <1> DEFINE recent == Evict(timestamps)
             d == Len(grants) - Len(recent)
  <1>2. Len(recent) >= Limit
    BY <1>1 DEF Allow, WindowInv
  <1>3. /\ timestamps \in Seq(Nat) /\ grants \in Seq(Nat) /\ now \in Nat
        /\ Len(timestamps) \in Nat /\ Len(grants) \in Nat /\ Len(timestamps) <= Limit
        /\ \A i \in 1..Len(grants) : grants[i] \in Nat
        /\ DOMAIN grants = 1..Len(grants)
        /\ Limit \in Nat /\ Window \in Nat
    BY LenProperties, NumbersHold DEF WindowInv, LimitInv, Listed, Numbers
  <1>4. PICK k \in 0..Len(timestamps) :
           /\ Len(recent) = Len(timestamps) - k
           /\ k < Len(timestamps) => ~Expired(timestamps[k + 1])
    BY <1>3, EvictDrops
  <1>5. k = 0 /\ Len(recent) = Limit /\ Len(timestamps) = Limit
    BY <1>2, <1>3, <1>4
  <1>6. Listed(timestamps, grants) /\ Ascending(grants)
    BY DEF WindowInv, LimitInv
  <1>7. d \in Nat /\ d = Len(grants) - Len(timestamps)
    BY <1>3, <1>5, <1>6 DEF Listed
  <1>8. {i \in DOMAIN grants : grants[i] >= now - Window} = (d + 1)..Len(grants)
    <2>1. ASSUME NEW i \in 1..Len(grants), i <= d PROVE ~(grants[i] >= now - Window)
      <3>1. grants[i] < now - Window
        BY <2>1, <1>6, <1>7 DEF Listed, Expired
      <3>2. QED
        BY <3>1, <1>3
    <2>2. ASSUME NEW i \in 1..Len(grants), i > d PROVE grants[i] >= now - Window
      <3>1. 0 < Len(timestamps) /\ 1 \in 1..Len(timestamps) /\ d + 1 \in 1..Len(grants) /\ d + 1 <= i
        BY <2>2, <1>3, <1>6, <1>7
      <3>2. timestamps[1] = grants[d + 1] /\ ~Expired(timestamps[1])
        BY <3>1, <1>4, <1>5, <1>6, <1>7 DEF Listed
      <3>3. grants[d + 1] <= grants[i]
        BY <3>1, <1>6 DEF Ascending
      <3>4. grants[d + 1] \in Nat /\ grants[i] \in Nat /\ now - Window \in Int
        BY <3>1, <1>3
      <3>5. ~(grants[d + 1] < now - Window)
        BY <3>2 DEF Expired
      <3>6. QED
        BY ONLY <3>3, <3>4, <3>5
    <2>3. QED
      BY <2>1, <2>2, <1>3, <1>7
  <1>9. Cardinality((d + 1)..Len(grants)) = Limit
    <2>1. d + 1 \in Int /\ Len(grants) \in Int /\ Len(grants) - (d + 1) + 1 = Limit
      BY <1>3, <1>5, <1>7
    <2>2. Cardinality((d + 1)..Len(grants))
             = IF d + 1 > Len(grants) THEN 0 ELSE Len(grants) - (d + 1) + 1
      BY <2>1, FS_Interval
    <2>3. QED
      BY <2>1, <2>2, <1>3, <1>7, NumbersHold DEF Numbers
  <1>10. QED
    BY <1>8, <1>9

-----------------------------------------------------------------------------
(* Admission: the filter and the guards under handleInstruction.           *)

LEMMA StepIsDedupStep == [Next]_vars => [DedupNext]_dedupVars
<1> SUFFICES ASSUME [Next]_vars PROVE [DedupNext]_dedupVars
  OBVIOUS
<1>1. ASSUME NEW id \in Ids, handleInstruction(id)
      PROVE  DedupNext
  BY <1>1 DEF handleInstruction, RejectDuplicate, Drop, RejectSignature, Limited,
              DedupNext, Check
<1>2. ASSUME NEW ok \in BOOLEAN, ExecuteOrder(ok)
      PROVE  UNCHANGED dedupVars
  BY <1>2 DEF ExecuteOrder, OrderExecuted, dedupVars
<1>3. CASE Tick
  BY <1>3 DEF Tick, DedupNext
<1>4. CASE SetWallClock
  BY <1>4 DEF SetWallClock, guardVars, dedupVars
<1>5. CASE Restart
  BY <1>5 DEF Restart, DedupNext
<1>6. CASE UNCHANGED vars
  BY <1>6 DEF vars, guardVars, dedupVars
<1> QED
  BY <1>1, <1>2, <1>3, <1>4, <1>5, <1>6 DEF Next

\* handleInstruction, the orders and the restarts use the filter as specified.
THEOREM AdmissionImplementsDedup == Spec => DedupSpec
<1>1. Init => DedupInit
  BY DEF Init
<1> QED
  BY <1>1, StepIsDedupStep, PTL DEF Spec, DedupSpec

\* An id that passed was accepted not before its message could be in time.
PassedInTime ==
    /\ offset \in 0..Drift
    /\ passed \subseteq Ids
    /\ \A id \in passed : acceptedAt[id] + Drift + MaxAhead >= SentAt[id]

PassInv == DedupInv /\ PassedInTime

LEMMA InitPassInv == Init => PassInv
<1>1. Init => DedupInv
  BY InitInv DEF Init
<1>2. Init => PassedInTime
  BY DEF Init, PassedInTime
<1> QED
  BY <1>1, <1>2 DEF PassInv

LEMMA NextPassInv ==
    ASSUME EmptyId \notin Ids, PassInv, [Next]_vars
    PROVE  PassInv'
<1> USE DedupAssumption, AdmissionAssumption DEF DedupAssumption, AdmissionAssumption
<1>1. DedupInv'
  BY StepIsDedupStep, NextInv DEF PassInv
<1>2. /\ now \in Nat /\ acceptedAt \in [Ids -> -TTL..now]
      /\ offset \in 0..Drift /\ passed \subseteq Ids
      /\ \A id \in passed : acceptedAt[id] + Drift + MaxAhead >= SentAt[id]
  BY DEF PassInv, DedupInv, DedupTypeOK, PassedInTime
<1>3. ASSUME NEW id \in Ids, Accept(id), offset' = offset, passed' = passed
      PROVE  PassedInTime'
  BY <1>2, <1>3 DEF Accept, PassedInTime
<1>4. ASSUME NEW id \in Ids, Limited(id)
      PROVE  PassedInTime'
  <2>1. now + offset - SentAt[id] >= -MaxAhead
    BY <1>4 DEF Limited, Timely, Age
  <2>2. acceptedAt' = [acceptedAt EXCEPT ![id] = now] /\ offset' = offset
        /\ passed' \subseteq passed \cup {id}
    BY <1>4 DEF Limited, Accept
  <2>3. now + Drift + MaxAhead >= SentAt[id]
    BY <1>2, <2>1
  <2> QED
    BY <1>2, <2>2, <2>3 DEF PassedInTime
<1>5. ASSUME NEW id \in Ids, handleInstruction(id)
      PROVE  PassedInTime'
  <2>1. CASE RejectDuplicate(id)
    BY <1>2, <2>1 DEF RejectDuplicate, Reject, dedupVars, messageVars, PassedInTime
  <2>2. CASE Drop(id) \/ RejectSignature(id)
    BY <1>3, <2>2 DEF Drop, RejectSignature, messageVars
  <2> QED
    BY <1>4, <1>5, <2>1, <2>2 DEF handleInstruction
<1>6. ASSUME NEW ok \in BOOLEAN, ExecuteOrder(ok)
      PROVE  PassedInTime'
  BY <1>2, <1>6 DEF ExecuteOrder, messageVars, PassedInTime
<1>7. PassedInTime'
  <2>1. CASE Tick
    BY <1>2, <2>1 DEF Tick, DedupTick, messageVars, PassedInTime
  <2>2. CASE SetWallClock
    BY <1>2, <2>2 DEF SetWallClock, PassedInTime
  <2>3. CASE Restart
    BY <1>2, <2>3 DEF Restart, PassedInTime
  <2>4. CASE UNCHANGED vars
    BY <1>2, <2>4 DEF vars, messageVars, PassedInTime
  <2> QED
    BY <1>5, <1>6, <2>1, <2>2, <2>3, <2>4 DEF Next
<1> QED
  BY <1>1, <1>7 DEF PassInv

\* When a message that has passed is in time again, its id is still remembered
\* unless the filter overflowed.
LEMMA AgainOnlyByOverflow ==
    ASSUME PassInv, NEW id \in Ids, Limited(id), id \in passed
    PROVE  Cardinality(AcceptedSince(id)) >= MaxSize
<1> USE DedupAssumption, AdmissionAssumption DEF DedupAssumption, AdmissionAssumption
<1>1. /\ now \in Nat /\ acceptedAt[id] \in -TTL..now /\ offset \in 0..Drift
      /\ acceptedAt[id] + Drift + MaxAhead >= SentAt[id]
  BY DEF PassInv, DedupInv, DedupTypeOK, PassedInTime
<1>2. now + offset - SentAt[id] <= MaxAge
  BY DEF Limited, Timely, Age
<1>3. now - acceptedAt[id] < TTL
  BY <1>1, <1>2
<1>4. Fresh(acceptedAt[id])
  BY <1>3 DEF Fresh
<1>5. id \notin DOMAIN seen
  BY <1>4 DEF Limited, Accept, Duplicate, PassInv, DedupInv, Synced
<1> QED
  BY <1>4, <1>5 DEF PassInv, DedupInv, Forgotten

\* A message that is sent again with its timestamp passes once, until the filter
\* overflows or the bot restarts.
THEOREM AdmissionPassesOnce == ASSUME EmptyId \notin Ids PROVE Spec => PassesOnce
<1>1. PassInv => [\A id \in Ids : Limited(id) /\ id \in passed /\ denied' = denied =>
                     Cardinality(AcceptedSince(id)) >= MaxSize]_vars
  BY AgainOnlyByOverflow
<1> QED
  BY <1>1, InitPassInv, NextPassInv, PTL DEF Spec, PassesOnce

-----------------------------------------------------------------------------
LEMMA StepIsGuardsStep == [Next]_vars => [GuardsNext]_guardVars
<1> SUFFICES ASSUME [Next]_vars PROVE [GuardsNext]_guardVars
  OBVIOUS
<1>1. ASSUME NEW id \in Ids, handleInstruction(id), RoomForMessage
      PROVE  [GuardsNext]_guardVars
  <2>1. CASE RejectDuplicate(id) \/ Drop(id)
    BY <2>1 DEF RejectDuplicate, Reject, Drop, Accept, guardVars, dedupVars
  <2>2. CASE RejectSignature(id) \/ Limited(id)
    BY <1>1, <2>2 DEF RejectSignature, Limited, GuardsNext
  <2> QED
    BY <1>1, <2>1, <2>2 DEF handleInstruction
<1>2. ASSUME NEW ok \in BOOLEAN, ExecuteOrder(ok), RoomForOrder
      PROVE  GuardsNext
  BY <1>2 DEF ExecuteOrder, GuardsNext
<1>3. CASE Tick \/ SetWallClock \/ Restart \/ UNCHANGED vars
  BY <1>3 DEF Tick, SetWallClock, Restart, GuardsNext, vars, guardVars
<1> QED
  BY <1>1, <1>2, <1>3 DEF Next

LEMMA SpecKeepsGuards == Spec => []GuardsInv
<1>1. Init => GuardsInv
  BY GuardsInvInitially DEF Init
<1>2. GuardsInv /\ [Next]_vars => GuardsInv'
  BY StepIsGuardsStep, GuardsInvKept
<1> QED
  BY <1>1, <1>2, PTL DEF Spec

\* No window of the limiter sees more instructions admitted than the limit (Allow).
THEOREM AdmissionNeverOverLimit == Spec => []NeverOverLimit
<1>1. GuardsInv => NeverOverLimit
  BY GuardsHold
<1> QED
  BY <1>1, SpecKeepsGuards, PTL

\* A connection that is kept has seen no burst of signature failures, counted
\* over earlier connections too (recordSigFailure).
THEOREM AdmissionBurstDisconnects == Spec => []BurstDisconnects
<1>1. GuardsInv => BurstDisconnects
  BY GuardsHold
<1> QED
  BY <1>1, SpecKeepsGuards, PTL

\* The breaker misses no streak, at any threshold and cooldown (RecordFailure).
THEOREM AdmissionStreakTrips == Spec => []StreakTrips
<1>1. GuardsInv => StreakTrips
  BY GuardsHold
<1> QED
  BY <1>1, SpecKeepsGuards, PTL

\* An instruction is refused only when the limit was used up within the window:
\* refusals are not counted (Allow).
THEOREM AdmissionDeniedOnlyWhenFull == Spec => DeniedOnlyWhenFull
<1>1. GuardsInv /\ [Next]_vars =>
        [denied' > denied =>
            Cardinality({i \in DOMAIN grants : grants[i] >= now - Window}) = Limit]_guardVars
  BY StepIsGuardsStep, DeniedHolds DEF GuardsInv
<1> QED
  BY <1>1, SpecKeepsGuards, PTL DEF Spec, DeniedOnlyWhenFull

-----------------------------------------------------------------------------
LEMMA WithinRange ==
    ASSUME NEW S, NEW T, NEW s \in Seq(S), \A i \in 1..Len(s) : s[i] \in T
    PROVE  s \in Seq(T)
  BY SMT

\* What ascends up to now is a sorted list of times.
LEMMA TimesSorted ==
    ASSUME NEW all \in Seq(Nat), Ascending(all), now \in Nat
    PROVE  all \in Seq(0..now) /\ Sorted(all)
  <1>1. Len(all) \in Nat /\ DOMAIN all = 1..Len(all) /\ \A i \in 1..Len(all) : all[i] \in Nat
    BY LenProperties
  <1>2. \A i \in 1..Len(all) : all[i] \in 0..now
    BY <1>1 DEF Ascending
  <1>3. all \in Seq(0..now)
    BY <1>2, WithinRange
  <1>4. Sorted(all)
    BY <1>1 DEF Ascending, Sorted
  <1>5. QED
    BY <1>3, <1>4

\* The end of an ascending list ascends.
LEMMA ListedAscends ==
    ASSUME NEW times, NEW all, Listed(times, all), Ascending(all)
    PROVE  Ascending(times)
  <1> DEFINE d == Len(all) - Len(times)
  <1>1. Len(all) \in Nat /\ Len(times) \in Nat /\ Len(times) <= Len(all)
    BY LenProperties DEF Listed
  <1>2. ASSUME NEW i \in 1..Len(times) PROVE d + i \in 1..Len(all) /\ times[i] = all[d + i]
    BY <1>1 DEF Listed
  <1>3. ASSUME NEW i \in 1..Len(times), NEW j \in 1..Len(times), i <= j
        PROVE  times[i] <= times[j]
    <2>1. d + i <= d + j
      BY <1>1, <1>3
    <2>2. QED
      BY <2>1, <1>2 DEF Ascending
  <1>4. \A i \in 1..Len(times) : times[i] <= now
    BY <1>2 DEF Ascending
  <1>5. QED
    BY <1>3, <1>4 DEF Ascending

LEMMA GuardsTyped ==
    ASSUME GuardsInv
    PROVE  GuardsTypeOK
  <1>1. now \in Nat /\ now \in 0..MaxTime /\ denied \in Nat /\ disconnects \in Nat
    BY ClockAssumption DEF ClockAssumption, GuardsInv, WindowInv
  <1>2. /\ Listed(timestamps, grants) /\ Ascending(grants) /\ Len(timestamps) <= Limit
        /\ Listed(sigFailures, badSignatures) /\ Ascending(badSignatures)
        /\ Len(sigFailures) < SigFailThreshold
    BY DEF GuardsInv, WindowInv, LimitInv, SigInv
  <1>3. /\ timestamps \in Seq(0..now) /\ Sorted(timestamps) /\ grants \in Seq(0..now)
    BY <1>1, <1>2, TimesSorted, ListedAscends DEF Listed
  <1>4. /\ sigFailures \in Seq(0..now) /\ Sorted(sigFailures) /\ badSignatures \in Seq(0..now)
    BY <1>1, <1>2, TimesSorted, ListedAscends DEF Listed
  <1>5. /\ orders \in Seq([at : Nat, ok : BOOLEAN]) /\ fails \in Nat
        /\ trippedAt \in {Never} \cup 0..now /\ \A i \in 1..Len(orders) : orders[i].at <= now
    BY DEF GuardsInv, BreakerInv
  <1>6. orders \in Seq([at : 0..now, ok : BOOLEAN])
    <2>1. ASSUME NEW i \in 1..Len(orders) PROVE orders[i] \in [at : 0..now, ok : BOOLEAN]
      <3>1. orders[i] \in [at : Nat, ok : BOOLEAN] /\ orders[i].at <= now
        BY <1>5, ElementOfSeq
      <3>2. QED
        BY <3>1, <1>1
    <2>2. QED
      BY <2>1, <1>5, WithinRange
  <1>7. QED
    BY <1>1, <1>2, <1>3, <1>4, <1>5, <1>6 DEF GuardsTypeOK

MessagesTyped == offset \in 0..Drift /\ passed \subseteq Ids

\* The filter, the guards and the messages have their types: limiter and failure
\* list stay short and sorted, whatever arrives and however the wall clock is set
\* (handleInstruction, Allow, recordSigFailure).
THEOREM AdmissionTypeCorrect == Spec => []TypeOK
<1>1. Init => MessagesTyped
  BY DEF Init, MessagesTyped
<1>2. MessagesTyped /\ [Next]_vars => MessagesTyped'
  <2> SUFFICES ASSUME MessagesTyped, [Next]_vars
               PROVE  MessagesTyped'
    OBVIOUS
  <2>1. ASSUME NEW id \in Ids, handleInstruction(id)
        PROVE  MessagesTyped'
    BY <2>1 DEF handleInstruction, RejectDuplicate, Drop, RejectSignature, Limited,
                messageVars, MessagesTyped
  <2>2. ASSUME NEW ok \in BOOLEAN, ExecuteOrder(ok)
        PROVE  MessagesTyped'
    BY <2>2 DEF ExecuteOrder, messageVars, MessagesTyped
  <2>3. CASE Tick \/ SetWallClock \/ Restart \/ UNCHANGED vars
    BY <2>3 DEF Tick, SetWallClock, Restart, vars, messageVars, MessagesTyped
  <2> QED
    BY <2>1, <2>2, <2>3 DEF Next
<1>3. GuardsInv => GuardsTypeOK
  BY GuardsTyped
<1>4. MessagesTyped /\ DedupTypeOK /\ SizeBound /\ GuardsTypeOK => TypeOK
  BY DEF MessagesTyped, TypeOK
<1> QED
  BY <1>1, <1>2, <1>3, <1>4, SpecKeepsGuards, AdmissionImplementsDedup,
     DedupTypeCorrect, DedupSizeBounded, PTL DEF Spec
=============================================================================
