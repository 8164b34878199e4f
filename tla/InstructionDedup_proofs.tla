----------------------- MODULE InstructionDedup_proofs -----------------------
(***************************************************************************)
(* Proofs about InstructionDedup, for every set of ids, capacity and TTL.  *)
(* Types and size do not depend on which entry the second eviction picks;  *)
(* that a recent id is kept does, and needs the empty id never to arrive.  *)
(***************************************************************************)
EXTENDS InstructionDedup, FiniteSetTheorems, TLAPS

\* The map agrees with the history of acceptances.
Synced == \A k \in DOMAIN seen : seen[k] = acceptedAt[k]

\* ForgottenOnlyByOverflow without the detour through Duplicate.
Forgotten ==
    \A x \in Ids : Fresh(acceptedAt[x]) /\ x \notin DOMAIN seen
                      => Cardinality(AcceptedSince(x)) >= MaxSize

Bounded == DedupTypeOK /\ SizeBound

DedupInv == DedupTypeOK /\ SizeBound /\ Synced /\ Forgotten

\* A superset of a finite set with at least n elements has at least n too.
LEMMA LargerSet ==
    ASSUME NEW S, NEW T, S \subseteq T, IsFiniteSet(T), NEW n \in Nat,
           Cardinality(S) >= n
    PROVE  Cardinality(T) >= n
<1>1. Cardinality(S) <= Cardinality(T) /\ IsFiniteSet(S)
  BY FS_Subset
<1>2. Cardinality(S) \in Nat /\ Cardinality(T) \in Nat
  BY <1>1, FS_CardinalityType
<1> QED
  BY <1>1, <1>2

\* What the first eviction leaves is part of the map, and what it takes away
\* is expired.
LEMMA UnexpiredProperties ==
    ASSUME DedupTypeOK
    PROVE  /\ DOMAIN Unexpired \subseteq DOMAIN seen
           /\ \A k \in DOMAIN Unexpired : Unexpired[k] = seen[k]
           /\ \A k \in DOMAIN seen : Fresh(seen[k]) => k \in DOMAIN Unexpired
           /\ IsFiniteSet(DOMAIN seen)
           /\ IsFiniteSet(DOMAIN Unexpired)
           /\ Cardinality(DOMAIN Unexpired) <= Cardinality(DOMAIN seen)
           /\ Cardinality(DOMAIN seen) >= MaxSize =>
                 \A k \in DOMAIN Unexpired : Fresh(seen[k])
<1>1. /\ DOMAIN Unexpired \subseteq DOMAIN seen
      /\ \A k \in DOMAIN Unexpired : Unexpired[k] = seen[k]
      /\ \A k \in DOMAIN seen : Fresh(seen[k]) => k \in DOMAIN Unexpired
      /\ Cardinality(DOMAIN seen) >= MaxSize =>
            \A k \in DOMAIN Unexpired : Fresh(seen[k])
  BY DEF Unexpired, Restrict
<1>2. IsFiniteSet(DOMAIN seen)
  BY FS_Subset, DedupAssumption DEF DedupTypeOK, DedupAssumption
<1>3. IsFiniteSet(DOMAIN Unexpired)
      /\ Cardinality(DOMAIN Unexpired) <= Cardinality(DOMAIN seen)
  BY <1>1, <1>2, FS_Subset
<1> QED
  BY <1>1, <1>2, <1>3

\* Accepting an id only adds to the ids accepted since any other one.
LEMMA AcceptedSinceGrows ==
    ASSUME DedupTypeOK, NEW id \in Ids, NEW x \in Ids, x # id,
           acceptedAt' = [acceptedAt EXCEPT ![id] = now]
    PROVE  /\ AcceptedSince(x) \cup {id} \subseteq AcceptedSince(x)'
           /\ IsFiniteSet(AcceptedSince(x)')
           /\ acceptedAt'[x] = acceptedAt[x]
<1>1. AcceptedSince(x) \cup {id} \subseteq AcceptedSince(x)'
  BY DedupAssumption DEF AcceptedSince, DedupTypeOK, DedupAssumption
<1>2. IsFiniteSet(AcceptedSince(x)')
  BY FS_Subset, DedupAssumption DEF AcceptedSince, DedupAssumption
<1> QED
  BY <1>1, <1>2 DEF DedupTypeOK

\* Accepting an id keeps the map within its bounds, whatever it drops.
LEMMA AcceptBounded ==
    ASSUME Bounded, NEW id \in Ids, Accept(id)
    PROVE  Bounded'
<1> USE DedupAssumption DEF DedupAssumption
<1>1. DedupTypeOK /\ now' = now /\ acceptedAt' = [acceptedAt EXCEPT ![id] = now]
  BY DEF Bounded, Accept
<1>2. CASE Cardinality(DOMAIN Unexpired) < MaxSize /\ seen' = Stamp(Unexpired, id)
  <2>1. DOMAIN seen' = DOMAIN Unexpired \cup {id}
        /\ \A k \in DOMAIN seen' : seen'[k] = IF k = id THEN now ELSE seen[k]
    BY <1>1, <1>2, UnexpiredProperties DEF Stamp
  <2>2. DedupTypeOK'
    BY <1>1, <1>2, <2>1, UnexpiredProperties DEF DedupTypeOK, Stamp
  <2>3. IsFiniteSet(DOMAIN Unexpired) /\ Cardinality(DOMAIN Unexpired) \in Nat
    BY <1>1, UnexpiredProperties, FS_CardinalityType
  <2>4. Cardinality(DOMAIN Unexpired \cup {id}) =
           IF id \in DOMAIN Unexpired THEN Cardinality(DOMAIN Unexpired)
           ELSE Cardinality(DOMAIN Unexpired) + 1
    BY <2>3, FS_AddElement
  <2>5. Cardinality(DOMAIN Unexpired \cup {id}) <= MaxSize
    BY <1>2, <2>3, <2>4
  <2> QED
    BY <2>1, <2>2, <2>5 DEF Bounded, SizeBound
<1>3. ASSUME Cardinality(DOMAIN Unexpired) >= MaxSize,
             NEW k \in DropCandidates(Unexpired),
             seen' = Stamp(Without(Unexpired, k), id)
      PROVE  Bounded'
  <2> DEFINE Kept == DOMAIN Unexpired \ {k}
  <2>1. k \in DOMAIN Unexpired
    BY <1>3 DEF DropCandidates, Oldest
  <2>2. DOMAIN seen' = Kept \cup {id}
        /\ \A j \in DOMAIN seen' : seen'[j] = IF j = id THEN now ELSE seen[j]
    BY <1>1, <1>3, UnexpiredProperties DEF Stamp, Without, Restrict
  <2>3. DedupTypeOK'
    BY <1>1, <1>3, <2>2, UnexpiredProperties DEF DedupTypeOK, Stamp, Without, Restrict
  <2>4. Cardinality(DOMAIN Unexpired) = MaxSize
    BY <1>1, <1>3, UnexpiredProperties, FS_CardinalityType DEF Bounded, SizeBound
  <2>5. IsFiniteSet(Kept) /\ Cardinality(Kept) = MaxSize - 1
    BY <1>1, <2>1, <2>4, UnexpiredProperties, FS_RemoveElement
  <2> HIDE DEF Kept
  <2>6. Cardinality(Kept \cup {id}) \in {Cardinality(Kept), Cardinality(Kept) + 1}
    BY <2>5, FS_AddElement
  <2>7. Cardinality(Kept \cup {id}) <= MaxSize
    BY <2>5, <2>6
  <2> QED
    BY <2>2, <2>3, <2>7 DEF Bounded, SizeBound
<1> QED
  BY <1>2, <1>3 DEF Accept

LEMMA BoundedInitially == DedupInit => Bounded
  BY FS_EmptySet, DedupAssumption
  DEF DedupInit, ClockInit, EmptyMap, NeverAccepted, DedupTypeOK, SizeBound, Bounded,
      DedupAssumption

LEMMA BoundedStays ==
    ASSUME Bounded, [DedupNext]_dedupVars
    PROVE  Bounded'
<1>1. CASE DedupTick
  BY <1>1, DedupAssumption
  DEF DedupTick, Advance, Bounded, DedupTypeOK, SizeBound, DedupAssumption
<1>2. ASSUME NEW id \in Ids, Check(id)
      PROVE  Bounded'
  BY <1>2, AcceptBounded DEF Check, Reject, dedupVars, Bounded, DedupTypeOK, SizeBound
<1>3. CASE DedupRestart
  BY <1>3, FS_EmptySet, DedupAssumption
  DEF DedupRestart, EmptyMap, NeverAccepted, DedupTypeOK, SizeBound, Bounded,
      DedupAssumption
<1>4. CASE UNCHANGED dedupVars
  BY <1>4 DEF dedupVars, Bounded, DedupTypeOK, SizeBound
<1> QED
  BY <1>1, <1>2, <1>3, <1>4 DEF DedupNext

LEMMA InitInv == DedupInit => DedupInv
<1> SUFFICES ASSUME DedupInit PROVE DedupInv
  OBVIOUS
<1>1. DedupTypeOK /\ SizeBound
  BY BoundedInitially DEF Bounded
<1>2. Synced
  BY DEF DedupInit, EmptyMap, Synced
<1>3. Forgotten
  BY DedupAssumption DEF DedupInit, ClockInit, EmptyMap, NeverAccepted, Forgotten, Fresh, DedupAssumption
<1> QED
  BY <1>1, <1>2, <1>3 DEF DedupInv

\* Accept without overflow: nothing fresh leaves the map.
LEMMA AcceptWithRoom ==
    ASSUME DedupInv, NEW id \in Ids, ~Duplicate(id),
           Cardinality(DOMAIN Unexpired) < MaxSize,
           seen' = Stamp(Unexpired, id),
           acceptedAt' = [acceptedAt EXCEPT ![id] = now],
           now' = now
    PROVE  DedupInv'
<1> USE DedupAssumption DEF DedupAssumption
<1>1. DedupTypeOK
  BY DEF DedupInv
<1>2. DOMAIN seen' = DOMAIN Unexpired \cup {id}
      /\ \A k \in DOMAIN seen' : seen'[k] = IF k = id THEN now ELSE seen[k]
  BY <1>1, UnexpiredProperties DEF Stamp
<1>3. DedupTypeOK' /\ SizeBound'
  BY AcceptBounded DEF DedupInv, Bounded, Accept
<1>4. Synced'
  BY <1>1, <1>2, UnexpiredProperties DEF Synced, DedupTypeOK, DedupInv
<1>5. Forgotten'
  <2> SUFFICES ASSUME NEW x \in Ids, Fresh(acceptedAt[x])',
                      x \notin DOMAIN seen'
               PROVE  Cardinality(AcceptedSince(x)') >= MaxSize
    BY DEF Forgotten
  <2>1. x # id /\ x \notin DOMAIN Unexpired
    BY <1>2
  <2>2. Fresh(acceptedAt[x])
    BY <1>1, <2>1, AcceptedSinceGrows DEF Fresh
  <2>3. x \notin DOMAIN seen
    BY <1>1, <2>1, <2>2, UnexpiredProperties DEF Synced, DedupInv
  <2>4. Cardinality(AcceptedSince(x)) >= MaxSize
    BY <2>2, <2>3 DEF DedupInv, Forgotten
  <2> QED
    BY <1>1, <2>1, <2>4, AcceptedSinceGrows, LargerSet
<1> QED
  BY <1>3, <1>4, <1>5 DEF DedupInv

\* Accept on a map full of fresh entries: the one dropped is the oldest, so
\* all that stay, and the new one, were accepted no earlier.
LEMMA AcceptWithOverflow ==
    ASSUME DedupInv, EmptyId \notin Ids, NEW id \in Ids, ~Duplicate(id),
           Cardinality(DOMAIN Unexpired) >= MaxSize,
           NEW k \in DropCandidates(Unexpired),
           seen' = Stamp(Without(Unexpired, k), id),
           acceptedAt' = [acceptedAt EXCEPT ![id] = now],
           now' = now
    PROVE  DedupInv'
<1> USE DedupAssumption DEF DedupAssumption
<1> DEFINE Kept == DOMAIN Unexpired \ {k}
<1>1. DedupTypeOK
  BY DEF DedupInv
<1>2. k \in DOMAIN Unexpired
      /\ \A j \in DOMAIN Unexpired : seen[k] <= seen[j]
  <2>1. EmptyId \notin DOMAIN Unexpired
    BY <1>1, UnexpiredProperties DEF DedupTypeOK
  <2>2. k \in Oldest(Unexpired, DOMAIN Unexpired)
    BY <2>1 DEF DropCandidates
  <2> QED
    BY <2>2, <1>1, UnexpiredProperties DEF Oldest
<1>3. id \notin DOMAIN Unexpired
  <2>1. Cardinality(DOMAIN seen) >= MaxSize
    BY <1>1, UnexpiredProperties, LargerSet
  <2> QED
    BY <1>1, <2>1, UnexpiredProperties DEF Duplicate
<1>4. DOMAIN seen' = Kept \cup {id}
      /\ \A j \in DOMAIN seen' : seen'[j] = IF j = id THEN now ELSE seen[j]
  BY <1>1, UnexpiredProperties DEF Stamp, Without, Restrict
<1>5. Cardinality(Kept \cup {id}) = MaxSize /\ IsFiniteSet(Kept \cup {id})
  <2>1. Cardinality(DOMAIN Unexpired) = MaxSize
    BY <1>1, UnexpiredProperties, FS_CardinalityType DEF DedupInv, SizeBound
  <2>2. IsFiniteSet(Kept) /\ Cardinality(Kept) = MaxSize - 1
    BY <1>1, <1>2, <2>1, UnexpiredProperties, FS_RemoveElement
  <2>3. id \notin Kept
    BY <1>3
  <2> HIDE DEF Kept
  <2>4. IsFiniteSet(Kept \cup {id})
        /\ Cardinality(Kept \cup {id}) = Cardinality(Kept) + 1
    BY <2>2, <2>3, FS_AddElement
  <2> QED
    BY <2>2, <2>4
<1>6. DedupTypeOK' /\ SizeBound'
  BY AcceptBounded DEF DedupInv, Bounded, Accept
<1>7. Synced'
  BY <1>1, <1>4, UnexpiredProperties DEF Synced, DedupTypeOK, DedupInv
<1>8. Forgotten'
  <2> SUFFICES ASSUME NEW x \in Ids, Fresh(acceptedAt[x])',
                      x \notin DOMAIN seen'
               PROVE  Cardinality(AcceptedSince(x)') >= MaxSize
    BY DEF Forgotten
  <2>1. x # id /\ x \notin Kept
    BY <1>4
  <2>2. Fresh(acceptedAt[x])
    BY <1>1, <2>1, AcceptedSinceGrows DEF Fresh
  <2>3. CASE x = k
    <3>1. Kept \subseteq AcceptedSince(x)
      BY <1>1, <1>2, <2>3, UnexpiredProperties
      DEF AcceptedSince, DedupInv, Synced, DedupTypeOK
    <3>2. Kept \cup {id} \subseteq AcceptedSince(x)'
      BY <1>1, <2>1, <3>1, AcceptedSinceGrows
    <3>3. IsFiniteSet(AcceptedSince(x)')
      BY <1>1, <2>1, AcceptedSinceGrows
    <3>4. Cardinality(Kept \cup {id}) >= MaxSize /\ MaxSize \in Nat
      BY <1>5
    <3> HIDE DEF Kept
    <3> QED
      BY <3>2, <3>3, <3>4, LargerSet
  <2>4. CASE x # k
    <3>1. x \notin DOMAIN seen
      BY <1>1, <2>1, <2>2, <2>4, UnexpiredProperties DEF Synced, DedupInv
    <3>2. Cardinality(AcceptedSince(x)) >= MaxSize
      BY <2>2, <3>1 DEF DedupInv, Forgotten
    <3> QED
      BY <1>1, <2>1, <3>2, AcceptedSinceGrows, LargerSet
  <2> QED
    BY <2>3, <2>4
<1> QED
  BY <1>6, <1>7, <1>8 DEF DedupInv

LEMMA NextInv ==
    ASSUME EmptyId \notin Ids, DedupInv, [DedupNext]_dedupVars
    PROVE  DedupInv'
<1>1. CASE DedupTick
  BY <1>1, DedupAssumption
  DEF DedupTick, Advance, DedupInv, DedupTypeOK, SizeBound, Synced, Forgotten, AcceptedSince, Fresh,
      DedupAssumption
<1>2. ASSUME NEW id \in Ids, Accept(id)
      PROVE  DedupInv'
  <2>1. CASE Cardinality(DOMAIN Unexpired) < MaxSize
             /\ seen' = Stamp(Unexpired, id)
    BY <1>2, <2>1, AcceptWithRoom DEF Accept
  <2>2. CASE Cardinality(DOMAIN Unexpired) >= MaxSize
             /\ \E k \in DropCandidates(Unexpired) :
                   seen' = Stamp(Without(Unexpired, k), id)
    BY <1>2, <2>2, AcceptWithOverflow DEF Accept
  <2> QED
    BY <1>2, <2>1, <2>2 DEF Accept
<1>3. ASSUME NEW id \in Ids, Reject(id)
      PROVE  DedupInv'
  BY <1>3 DEF Reject, dedupVars, DedupInv, DedupTypeOK, SizeBound, Synced, Forgotten,
              AcceptedSince, Fresh
<1>4. CASE UNCHANGED dedupVars
  BY <1>4 DEF dedupVars, DedupInv, DedupTypeOK, SizeBound, Synced, Forgotten, AcceptedSince,
              Fresh
<1>5. CASE DedupRestart
  <2>1. DedupTypeOK' /\ SizeBound'
    BY <1>5, BoundedStays DEF DedupInv, Bounded, DedupNext
  <2>2. Synced'
    BY <1>5 DEF DedupRestart, EmptyMap, Synced
  <2>3. Forgotten'
    BY <1>5, DedupAssumption
    DEF DedupRestart, NeverAccepted, DedupInv, DedupTypeOK, Forgotten, Fresh,
        DedupAssumption
  <2> QED
    BY <2>1, <2>2, <2>3 DEF DedupInv
<1> QED
  BY <1>1, <1>2, <1>3, <1>4, <1>5 DEF DedupNext, Check

\* Types, for every finite set of ids, the empty one included (Check).
THEOREM DedupTypeCorrect == DedupSpec => []DedupTypeOK
<1>1. Bounded => DedupTypeOK
  BY DEF Bounded
<1> QED
  BY <1>1, BoundedInitially, BoundedStays, PTL DEF DedupSpec

\* The map never holds more than MaxSize entries, whichever entry an eviction
\* takes for the oldest (Check).
THEOREM DedupSizeBounded == DedupSpec => []SizeBound
<1>1. Bounded => SizeBound
  BY DEF Bounded
<1> QED
  BY <1>1, BoundedInitially, BoundedStays, PTL DEF DedupSpec

\* A recent id is forgotten only after MaxSize other acceptances.
THEOREM DedupForgetsOnlyByOverflow ==
    ASSUME EmptyId \notin Ids PROVE DedupSpec => []ForgottenOnlyByOverflow
<1>1. DedupInv => ForgottenOnlyByOverflow
  BY DEF DedupInv, Synced, Forgotten, ForgottenOnlyByOverflow, Duplicate
<1> QED
  BY <1>1, InitInv, NextInv, PTL DEF DedupSpec
=============================================================================
