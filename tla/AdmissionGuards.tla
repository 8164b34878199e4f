--------------------------- MODULE AdmissionGuards ---------------------------
(***************************************************************************)
(* The three guards of the relay client that look at the clock: the rate   *)
(* limiter and the count of signature failures (internal/relay/client.go), *)
(* which slide a window over the last minute, and the circuit breaker      *)
(* (circuitbreaker.go) with its cooldown.  RelayClient abstracts their     *)
(* clocks; here time is discrete and is all that matters.  A definition    *)
(* whose name starts with Faulty is a variant of the one that follows it.  *)
(***************************************************************************)
EXTENDS Clock, SequencesExt

CONSTANTS
    PerMinute,          \* max_per_minute; 30 when it is not positive
    Window,             \* a minute, of the limiter and of the failures
    SigFailThreshold,   \* 5
    MaxConsecutive,     \* 0 disables the breaker
    Cooldown,
    MaxMessages,        \* bounds of the model: messages that reach a guard ...
    MaxEvents           \* ... and these and the orders executed, since the start

ASSUME GuardsAssumption ==
    /\ PerMinute \in Int /\ MaxConsecutive \in Nat
    /\ {Window, SigFailThreshold, Cooldown} \subseteq Nat \ {0}
    /\ {MaxMessages, MaxEvents} \subseteq Nat

Limit == IF PerMinute <= 0 THEN 30 ELSE PerMinute

Never == -1

VARIABLES
    timestamps,     \* rateLimiter.timestamps
    grants,         \* history: the times of all grants since the start
    denied,         \* history: number of denials
    sigFailures,    \* c.sigFailures
    badSignatures,  \* history: times of the failures since the last disconnection
    disconnects,    \* history: number of disconnections
    fails,          \* circuitBreaker.consecutiveFails
    trippedAt,      \* circuitBreaker.trippedAt
    orders          \* history: [at, ok] of every order

limitVars == <<timestamps, grants, denied>>
sigVars == <<sigFailures, badSignatures, disconnects>>
breakerVars == <<fails, trippedAt, orders>>
guardVars == <<now, limitVars, sigVars, breakerVars>>

GuardsInit ==
    /\ ClockInit
    /\ timestamps = << >> /\ grants = << >> /\ denied = 0
    /\ sigFailures = << >> /\ badSignatures = << >> /\ disconnects = 0
    /\ fails = 0 /\ trippedAt = Never /\ orders = << >>

Messages == Len(grants) + denied + Len(badSignatures) + disconnects

RoomForMessage == Messages < MaxMessages /\ Messages + Len(orders) < MaxEvents

RoomForOrder == Messages + Len(orders) < MaxEvents

GuardsTick == Advance /\ UNCHANGED <<limitVars, sigVars, breakerVars>>

\* A bot that starts again has counted nothing.
GuardsRestart ==
    /\ timestamps' = << >> /\ grants' = << >> /\ denied' = 0
    /\ sigFailures' = << >> /\ badSignatures' = << >> /\ disconnects' = 0
    /\ fails' = 0 /\ trippedAt' = Never /\ orders' = << >>
    /\ UNCHANGED now

-----------------------------------------------------------------------------
FaultyExpired(t) == t <= now - Window

Expired(t) == t < now - Window

\* Drops the expired times at the front; what lies behind a later one stays.
Evict(times) ==
    LET expired == {i \in DOMAIN times : \A j \in 1..i : Expired(times[j])}
    IN  SubSeq(times, Cardinality(expired) + 1, Len(times))

FaultyAllow ==
    LET recent == Evict(timestamps)
    IN  /\ timestamps' = Append(recent, now)
        /\ IF Len(recent) >= Limit
           THEN denied' = denied + 1 /\ UNCHANGED grants
           ELSE grants' = Append(grants, now) /\ UNCHANGED denied
        /\ UNCHANGED <<now, sigVars, breakerVars>>

Allow ==
    LET recent == Evict(timestamps)
    IN  /\ IF Len(recent) >= Limit
           THEN /\ timestamps' = recent
                /\ denied' = denied + 1
                /\ UNCHANGED grants
           ELSE /\ timestamps' = Append(recent, now)
                /\ grants' = Append(grants, now)
                /\ UNCHANGED denied
        /\ UNCHANGED <<now, sigVars, breakerVars>>

TooMany(failures) == Len(failures) >= SigFailThreshold

RecordSigFailure ==
    LET failures == Append(Evict(sigFailures), now)
    IN  /\ IF TooMany(failures)
           THEN /\ sigFailures' = << >> /\ badSignatures' = << >>
                /\ disconnects' = disconnects + 1
           ELSE /\ sigFailures' = failures
                /\ badSignatures' = Append(badSignatures, now)
                /\ UNCHANGED disconnects
        /\ UNCHANGED <<now, limitVars, breakerVars>>

-----------------------------------------------------------------------------
\* The zero time is longer ago than any cooldown.
CooledDown == trippedAt = Never \/ now - trippedAt >= Cooldown

RecordSuccess == fails' = 0

FaultyRecordFailure ==
    IF fails + 1 >= MaxConsecutive
    THEN /\ fails' = 0
         /\ IF CooledDown
            THEN trippedAt' = now
            ELSE UNCHANGED trippedAt
    ELSE fails' = fails + 1 /\ UNCHANGED trippedAt

RecordFailure ==
    IF fails + 1 >= MaxConsecutive /\ CooledDown
    THEN fails' = 0 /\ trippedAt' = now
    ELSE fails' = fails + 1 /\ UNCHANGED trippedAt

OrderExecuted(ok) ==
    /\ orders' = Append(orders, [at |-> now, ok |-> ok])
    /\ IF MaxConsecutive = 0
       THEN UNCHANGED <<fails, trippedAt>>
       ELSE IF ok
       THEN RecordSuccess /\ UNCHANGED trippedAt
       ELSE RecordFailure
    /\ UNCHANGED <<now, limitVars, sigVars>>

-----------------------------------------------------------------------------
GuardsNext ==
    \/ GuardsTick
    \/ GuardsRestart
    \/ RoomForMessage /\ Allow
    \/ RoomForMessage /\ RecordSigFailure
    \/ RoomForOrder /\ \E ok \in BOOLEAN : OrderExecuted(ok)

GuardsSpec == GuardsInit /\ [][GuardsNext]_guardVars

-----------------------------------------------------------------------------
Sorted(times) == \A i, j \in DOMAIN times : i < j => times[i] <= times[j]

\* Types, sizes and order: the limiter keeps at most Limit times and the failure
\* list stays below its threshold, both sorted, so that evicting a prefix evicts
\* all that has expired.
GuardsTypeOK ==
    /\ now \in 0..MaxTime /\ denied \in Nat /\ disconnects \in Nat
    /\ timestamps \in Seq(0..now) /\ Len(timestamps) <= Limit /\ Sorted(timestamps)
    /\ grants \in Seq(0..now)
    /\ sigFailures \in Seq(0..now) /\ Len(sigFailures) < SigFailThreshold
    /\ Sorted(sigFailures)
    /\ badSignatures \in Seq(0..now)
    /\ fails \in Nat /\ trippedAt \in {Never} \cup 0..now
    /\ orders \in Seq([at : 0..now, ok : BOOLEAN])

\* No minute, wherever it starts, sees more instructions admitted than the limit
\* (Allow): a sliding window, not one count per calendar minute.
NeverOverLimit ==
    \A i \in DOMAIN grants :
        i + Limit \in DOMAIN grants => grants[i + Limit] - grants[i] > Window

\* An instruction is refused only when the limit was really used up within the
\* last minute: refusals do not count against it (Allow).
DeniedOnlyWhenFull ==
    [][denied' > denied =>
          Cardinality({i \in DOMAIN grants : grants[i] >= now - Window}) = Limit]_guardVars

\* While the connection is kept, no minute has seen the threshold of signature
\* failures, also counting those of earlier connections (recordSigFailure).
BurstDisconnects ==
    LET k == SigFailThreshold - 1
    IN  \A i \in DOMAIN badSignatures :
            i + k \in DOMAIN badSignatures =>
                badSignatures[i + k] - badSignatures[i] > Window

\* The breaker misses no streak: when the last MaxConsecutive orders failed, it
\* tripped on one of them or within the cooldown before the last of them
\* (RecordFailure, which goes on counting while it is cooling down).
StreakTrips ==
    LET n == Len(orders)
    IN  MaxConsecutive > 0 /\ n >= MaxConsecutive
            /\ (\A i \in (n - MaxConsecutive + 1)..n : ~orders[i].ok)
        => /\ trippedAt # Never
           /\ \/ trippedAt >= orders[n - MaxConsecutive + 1].at
              \/ orders[n].at - trippedAt < Cooldown
=============================================================================
