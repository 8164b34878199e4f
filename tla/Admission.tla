------------------------------ MODULE Admission ------------------------------
(***************************************************************************)
(* handleInstruction up to the risk checks (internal/relay/client.go): the *)
(* duplicate filter, the age of the message, its signature and the rate    *)
(* limiter in their order and on one clock.  The age compares the server's *)
(* timestamp with the wall clock, which is now + offset; whoever sets the  *)
(* wall clock changes the offset.  The pause flag, whose origin is in      *)
(* RelayClient, may be set or not at any message, and a signature may be   *)
(* right or wrong.  The worker's orders and the circuit breaker go on      *)
(* beside it.                                                              *)
(***************************************************************************)
EXTENDS InstructionDedup, AdmissionGuards

CONSTANTS
    MaxAge,     \* 60 s
    MaxAhead,   \* 10 s
    Drift,      \* how far the wall clock is set back or forth
    SentAt      \* the timestamp of each message; 0 stands for a missing one

\* 60 + 10 < 300 leaves almost four minutes for corrections of the wall clock.
ASSUME AdmissionAssumption ==
    /\ {MaxAge, MaxAhead, Drift} \subseteq Nat
    /\ MaxAge + MaxAhead + Drift < TTL
    /\ SentAt \in [Ids -> Nat]

VARIABLES
    offset,     \* wall clock - monotonic clock
    passed      \* history: the ids that went on to the risk checks since the start

messageVars == <<offset, passed>>
vars == <<guardVars, seen, acceptedAt, messageVars>>

Init ==
    /\ DedupInit /\ GuardsInit
    /\ offset \in 0..Drift
    /\ passed = {}

-----------------------------------------------------------------------------
Age(t) == now + offset - t

\* A clock that is behind the server's is taken to be any distance behind.
FaultyTimely(id) == SentAt[id] > 0 /\ Age(SentAt[id]) <= MaxAge + TTL

Timely(id) ==
    /\ SentAt[id] > 0
    /\ Age(SentAt[id]) <= MaxAge
    /\ Age(SentAt[id]) >= -MaxAhead

RejectDuplicate(id) == Reject(id) /\ UNCHANGED <<limitVars, sigVars, breakerVars, messageVars>>

\* Paused, without a timestamp, stale or from the future: the id is remembered
\* all the same.
Drop(id) == Accept(id) /\ UNCHANGED <<limitVars, sigVars, breakerVars, messageVars>>

RejectSignature(id) == Accept(id) /\ Timely(id) /\ RecordSigFailure /\ UNCHANGED messageVars

Limited(id) ==
    /\ Accept(id)
    /\ Timely(id)
    /\ Allow
    /\ passed' = IF denied' = denied THEN passed \cup {id} ELSE passed
    /\ UNCHANGED offset

handleInstruction(id) ==
    RejectDuplicate(id) \/ Drop(id) \/ RejectSignature(id) \/ Limited(id)

ExecuteOrder(ok) == OrderExecuted(ok) /\ UNCHANGED <<seen, acceptedAt, messageVars>>

Tick == DedupTick /\ GuardsTick /\ UNCHANGED messageVars

SetWallClock ==
    /\ offset' \in 0..Drift
    /\ UNCHANGED <<guardVars, seen, acceptedAt, passed>>

Restart ==
    /\ DedupRestart /\ GuardsRestart
    /\ passed' = {}
    /\ UNCHANGED offset

Next ==
    \/ Tick \/ SetWallClock \/ Restart
    \/ RoomForMessage /\ \E id \in Ids : handleInstruction(id)
    \/ RoomForOrder /\ \E ok \in BOOLEAN : ExecuteOrder(ok)

Spec == Init /\ [][Next]_vars

-----------------------------------------------------------------------------
\* Types, those of the filter and of the guards included.
TypeOK ==
    /\ DedupTypeOK /\ SizeBound /\ GuardsTypeOK
    /\ offset \in 0..Drift
    /\ passed \subseteq Ids

\* A message that the server sends again with its timestamp gets through to the
\* risk checks once: when the filter has forgotten its id the message is too
\* old, wherever the wall clock is set to.  Only a filter that overflowed in
\* between, or a restart of the bot, lets it through again (client.go:359, 372).
PassesOnce ==
    [][\A id \in Ids : Limited(id) /\ id \in passed /\ denied' = denied =>
          Cardinality(AcceptedSince(id)) >= MaxSize]_vars
=============================================================================
