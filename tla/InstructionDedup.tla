-------------------------- MODULE InstructionDedup --------------------------
(***************************************************************************)
(* The duplicate filter of the relay client (internal/relay/dedup.go): a   *)
(* map from instruction ids to the time each was accepted, bounded in size *)
(* and in age.  The whole of Check runs under one mutex, so one call is one*)
(* action.  A definition whose name starts with Faulty is a variant of the *)
(* one that follows it, for the mutation runs only.                        *)
(***************************************************************************)
EXTENDS Clock, FiniteSets, Functions

CONSTANTS
    Ids,        \* the instruction ids that can arrive
    EmptyId,    \* the id of a message without an instruction_id field
    MaxSize,    \* capacity of the map (NewClient passes 1000)
    TTL         \* ticks an id is remembered (NewClient passes 5 minutes)

ASSUME DedupAssumption ==
    /\ IsFiniteSet(Ids)
    /\ MaxSize \in Nat \ {0}
    /\ TTL \in Nat \ {0}

VARIABLES
    seen,       \* d.seen: a partial function from Ids to times
    acceptedAt  \* history: when Check last returned true for an id, since the start

dedupVars == <<now, seen, acceptedAt>>

-----------------------------------------------------------------------------
Fresh(t) == now - t < TTL

Duplicate(id) == id \in DOMAIN seen /\ Fresh(seen[id])

\* The first eviction: when the map is full, every expired entry goes.
Unexpired ==
    IF Cardinality(DOMAIN seen) >= MaxSize
    THEN Restrict(seen, {k \in DOMAIN seen : Fresh(seen[k])})
    ELSE seen

FaultyNewest(m, K) == {k \in K : \A j \in K : m[j] <= m[k]}

Oldest(m, K) == {k \in K : \A j \in K : m[k] <= m[j]}

\* The key the second eviction can pick, over all iteration orders of the
\* map.  The loop keeps its candidate in `oldest` and takes "" to mean "no
\* candidate yet", so a candidate whose key is "" is overwritten by whatever
\* key comes next.
DropCandidates(m) ==
    LET named == DOMAIN m \ {EmptyId}
    IN  IF EmptyId \in DOMAIN m /\ \A k \in named : m[EmptyId] < m[k]
        THEN DOMAIN m
        ELSE Oldest(m, named)

FaultyWithoutNone(m, k) == m

Without(m, k) == Restrict(m, DOMAIN m \ {k})

FaultyStampExpiry(m, id) ==
    [k \in DOMAIN m \cup {id} |-> IF k = id THEN now + TTL ELSE m[k]]

Stamp(m, id) == [k \in DOMAIN m \cup {id} |-> IF k = id THEN now ELSE m[k]]

EmptyMap == [k \in {} |-> 0]

NeverAccepted == [id \in Ids |-> -TTL]      \* not within any TTL

DedupInit ==
    /\ ClockInit
    /\ seen = EmptyMap
    /\ acceptedAt = NeverAccepted

Reject(id) ==
    /\ Duplicate(id)
    /\ UNCHANGED dedupVars

Accept(id) ==
    /\ ~Duplicate(id)
    /\ \/ /\ Cardinality(DOMAIN Unexpired) < MaxSize
          /\ seen' = Stamp(Unexpired, id)
       \/ /\ Cardinality(DOMAIN Unexpired) >= MaxSize
          /\ \E k \in DropCandidates(Unexpired) :
                seen' = Stamp(Without(Unexpired, k), id)
    /\ acceptedAt' = [acceptedAt EXCEPT ![id] = now]
    /\ UNCHANGED now

Check(id) == Accept(id) \/ Reject(id)

DedupTick == Advance /\ UNCHANGED <<seen, acceptedAt>>

\* The map is in memory only: a bot that starts again has an empty one.
DedupRestart ==
    /\ seen' = EmptyMap
    /\ acceptedAt' = NeverAccepted
    /\ UNCHANGED now

DedupNext == DedupTick \/ DedupRestart \/ \E id \in Ids : Check(id)

DedupSpec == DedupInit /\ [][DedupNext]_dedupVars

-----------------------------------------------------------------------------
\* Types; the map holds times of acceptance, none of them in the future
\* (an entry stamped ahead would block its id for longer than the TTL).
DedupTypeOK ==
    /\ now \in Nat
    /\ DOMAIN seen \subseteq Ids
    /\ seen \in [DOMAIN seen -> 0..now]
    /\ acceptedAt \in [Ids -> -TTL..now]

\* The map never outgrows its capacity, whatever ids arrive and however they
\* are spaced: the client runs for months on one map.
SizeBound == Cardinality(DOMAIN seen) <= MaxSize

\* The other ids accepted no earlier than id was.
AcceptedSince(id) == {k \in Ids \ {id} : acceptedAt[k] >= acceptedAt[id]}

\* The promise of the filter.  An id accepted less than TTL ago is rejected
\* if it comes again, unless at least MaxSize other ids were accepted since:
\* neither expiry nor eviction ever forgets a recent id in a map that was not
\* flooded.  (It needs the empty id never to arrive: see DropCandidates.)
ForgottenOnlyByOverflow ==
    \A id \in Ids :
        Fresh(acceptedAt[id]) /\ ~Duplicate(id)
            => Cardinality(AcceptedSince(id)) >= MaxSize
=============================================================================
