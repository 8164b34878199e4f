----------------------------- MODULE RelayClient -----------------------------
(***************************************************************************)
(* The relay client (internal/relay/client.go, executor.go): the goroutine *)
(* that keeps the WebSocket session and handles instructions, the worker   *)
(* that executes them on the exchange, the circuit breaker between them and*)
(* the pause flag, and Stop.  The server, the network and the exchange are *)
(* the environment and may act at any time.                                *)
(*                                                                         *)
(* Clocks are abstracted to what they decide: the horizon of a behaviour   *)
(* lies within the duplicate filter's TTL and capacity (InstructionDedup   *)
(* says what happens beyond), a dial, an answer or a back-off ends at some *)
(* time, the breaker's cooldown elapses at some time, and any number of    *)
(* signature failures may have left their window.  A definition whose name *)
(* starts with Faulty is a variant of the one that follows it, for the     *)
(* mutation runs only.                                                     *)
(***************************************************************************)
EXTENDS Naturals, FiniteSets, SequencesExt

CONSTANTS
    Ids,                \* instruction ids
    NoInstr,            \* stands for "no instruction"
    StepsOf,            \* the actions of each instruction's steps, in order;
                        \* "cancel" stands for both actions that cancel
    QueueCap,           \* capacity of execQueue (16)
    MaxConsecutive,     \* failed orders that trip the breaker; 0 disables it
    SigFailThreshold    \* signature failures that close the connection (5)

Actions == {"place_order", "modify_order", "cancel", "update_leverage"}

ASSUME RelayAssumption ==
    /\ NoInstr \notin Ids
    /\ StepsOf \in [Ids -> Seq(Actions)]
    /\ \A id \in Ids : StepsOf[id] # << >>       \* Validate refuses no steps
    /\ QueueCap \in Nat \ {0}
    /\ MaxConsecutive \in Nat
    /\ SigFailThreshold \in Nat \ {0}

VARIABLES
    connPc,     \* where the session goroutine is
    conn,       \* c.conn: "nil", "open" or "closed"
    connected,  \* c.connected
    cur,        \* the instruction handleInstruction is admitting
    seen,       \* the ids the duplicate filter has accepted
    sigFailures,\* len(c.sigFailures)
    execQueue,  \* c.execQueue
    workerPc,   \* where the worker is
    workerInstr,\* the instruction the worker executes
    started,    \* history: instructions in the order the worker took them
    requests,   \* history: per instruction, the steps sent to the exchange
    stepLog,    \* per instruction, the outcome of each step executed so far
    applied,    \* the exchange: the steps <<id, k>> it carried out in full
    replies,    \* history: per instruction, the results the server received
    fails,      \* circuitBreaker.consecutiveFails
    cooling,    \* less than the cooldown has passed since the last trip
    tripping,   \* onTrip goroutines that have not run yet
    paused,     \* c.paused
    takenPaused,\* history: instructions the worker took since the pause
    ctxDone,    \* c.ctx is cancelled
    stopPc,     \* where Stop is
    raced       \* history: Stop closed c.conn while a dial was in flight

connVars == <<connPc, conn, connected>>
admitVars == <<cur, seen, sigFailures>>
workerVars == <<workerPc, workerInstr, started>>
stepVars == <<requests, stepLog, applied>>
breakerVars == <<fails, cooling, tripping>>
pauseVars == <<paused, takenPaused>>
stopVars == <<ctxDone, stopPc, raced>>

vars == <<connPc, conn, connected, cur, seen, sigFailures, execQueue, workerPc,
          workerInstr, started, requests, stepLog, applied, replies, fails,
          cooling, tripping, paused, takenPaused, ctxDone, stopPc, raced>>

-----------------------------------------------------------------------------
(* Shared helpers.                                                         *)

\* sendJSON of an instruction_result.  An error is ignored and nothing is sent
\* again, so a result is lost with its connection.
Reply(id, result) ==
    replies' = IF conn = "open"
               THEN [replies EXCEPT ![id] = Append(@, result)]
               ELSE replies

FaultyRemember(id) == seen' = seen

Remember(id) == seen' = seen \cup {id}

SetPaused(p) ==
    /\ paused' = p
    /\ takenPaused' = IF p /\ paused THEN takenPaused ELSE 0

Init ==
    /\ connPc = "top" /\ conn = "nil" /\ connected = FALSE
    /\ cur = NoInstr /\ seen = {} /\ sigFailures = 0
    /\ execQueue = << >>
    /\ workerPc = "idle" /\ workerInstr = NoInstr /\ started = << >>
    /\ requests = [id \in Ids |-> << >>]
    /\ stepLog = [id \in Ids |-> << >>]
    /\ applied = {}
    /\ replies = [id \in Ids |-> << >>]
    /\ fails = 0 /\ cooling = FALSE /\ tripping = 0
    /\ paused = FALSE /\ takenPaused = 0
    /\ ctxDone = FALSE /\ stopPc = "no" /\ raced = FALSE

-----------------------------------------------------------------------------
(* The session goroutine: connectLoop, connect, readLoop.                  *)

ConnStep(from, to) ==
    /\ connPc = from
    /\ connPc' = to
    /\ UNCHANGED <<admitVars, execQueue, workerVars, stepVars, replies,
                   breakerVars, pauseVars, stopVars>>

LoopTop ==
    /\ ConnStep("top", IF ctxDone THEN "done" ELSE "dialing")
    /\ UNCHANGED <<conn, connected>>

DialFails == ConnStep("dialing", "backoff") /\ UNCHANGED <<conn, connected>>

\* The dial has a deadline of its own and may end well after ctx is cancelled.
DialSucceeds == ConnStep("dialing", "dialed") /\ UNCHANGED <<conn, connected>>

\* c.conn is replaced before the auth message is sent on it.  A failure to
\* send it has the same effect as AuthFails.
AssignConn ==
    /\ ConnStep("dialed", "auth")
    /\ conn' = "open"
    /\ UNCHANGED connected

AuthSucceeds ==
    /\ conn = "open"
    /\ ConnStep("auth", "read")
    /\ connected' = TRUE
    /\ UNCHANGED conn

FaultyAuthFails ==
    /\ ConnStep("auth", "done")
    /\ conn' = "closed"
    /\ UNCHANGED connected

\* Auth not sent, no answer in time, a refusal, or a closed connection.
AuthFails ==
    /\ ConnStep("auth", "backoff")
    /\ conn' = "closed"
    /\ UNCHANGED connected

BackoffEnds ==
    /\ \/ ConnStep("backoff", "top")
       \/ ctxDone /\ ConnStep("backoff", "done")
    /\ UNCHANGED <<conn, connected>>

\* ReadMessage fails, readLoop returns and the loop starts over.
ReadFails ==
    /\ conn = "closed"
    /\ ConnStep("read", "top")
    /\ connected' = FALSE
    /\ UNCHANGED conn

\* The server, the network or the read deadline ends the connection.
ConnectionLost ==
    /\ conn = "open"
    /\ conn' = "closed"
    /\ UNCHANGED <<connPc, connected, admitVars, execQueue, workerVars, stepVars,
                   replies, breakerVars, pauseVars, stopVars>>

\* A config_update that carries a pause flag.
ConfigUpdate(p) ==
    /\ connPc = "read" /\ conn = "open"
    /\ SetPaused(p)
    /\ UNCHANGED <<connVars, admitVars, execQueue, workerVars, stepVars, replies,
                   breakerVars, stopVars>>

-----------------------------------------------------------------------------
(* handleInstruction, up to the first check that another goroutine can     *)
(* overtake.                                                               *)

FaultyReceivable(id) == connPc = "read" /\ conn = "open"

Receivable(id) == connPc = "read" /\ conn = "open" /\ id \notin seen

Unadmitted ==
    UNCHANGED <<connected, cur, execQueue, workerVars, stepVars, breakerVars,
                pauseVars, stopVars>>

\* The filter remembers an id before the other checks look at the message:
\* what they drop cannot be sent again.
DropPaused(id) ==
    /\ Receivable(id) /\ paused
    /\ Remember(id)
    /\ UNCHANGED <<connPc, conn, sigFailures, replies>>
    /\ Unadmitted

DropUntimely(id) ==         \* no timestamp, too old, or from the future
    /\ Receivable(id) /\ ~paused
    /\ Remember(id)
    /\ UNCHANGED <<connPc, conn, sigFailures, replies>>
    /\ Unadmitted

\* recordSigFailure: `kept` earlier failures are still in the window; at the
\* threshold the list is cleared and the connection closed.
RecordSigFailure ==
    \E kept \in 0..sigFailures :
        IF kept + 1 >= SigFailThreshold
        THEN sigFailures' = 0 /\ conn' = "closed"
        ELSE sigFailures' = kept + 1 /\ UNCHANGED conn

\* A signature that is missing or wrong is answered, one that is not hexadecimal
\* is not.
RejectSignature(id) ==
    /\ Receivable(id) /\ ~paused
    /\ Remember(id)
    /\ Reply(id, "rejected") \/ UNCHANGED replies
    /\ RecordSigFailure
    /\ UNCHANGED connPc
    /\ Unadmitted

FaultyUnpaused == TRUE

Unpaused == ~paused

AcceptInstruction(id) ==
    /\ Receivable(id) /\ Unpaused
    /\ Remember(id)
    /\ cur' = id
    /\ connPc' = "admit"
    /\ UNCHANGED <<conn, connected, sigFailures, execQueue, workerVars, stepVars,
                   replies, breakerVars, pauseVars, stopVars>>

(* The rest of handleInstruction: rate limit, risk checks (one of them a   *)
(* call to the exchange's HTTP API) and the queue.                         *)

Admitted ==
    /\ connPc = "admit"
    /\ connPc' = "read"
    /\ cur' = NoInstr
    /\ UNCHANGED <<conn, connected, seen, sigFailures, workerVars, stepVars,
                   breakerVars, pauseVars, stopVars>>

RejectInstruction ==        \* rate limit, Validate or ValidatePortfolio
    /\ Admitted
    /\ Reply(cur, "rejected")
    /\ UNCHANGED execQueue

FaultyRoom == TRUE

Room == Len(execQueue) < QueueCap

Enqueue ==
    /\ Admitted /\ Room
    /\ execQueue' = Append(execQueue, cur)
    /\ UNCHANGED replies

QueueFull ==
    /\ Admitted /\ ~Room
    /\ Reply(cur, "rejected")
    /\ UNCHANGED execQueue

-----------------------------------------------------------------------------
(* The worker: execWorker, executeInstruction and the circuit breaker.     *)

\* With both channels ready, select picks either.
WorkerStops ==
    /\ workerPc = "idle" /\ ctxDone
    /\ workerPc' = "done"
    /\ UNCHANGED <<connVars, admitVars, execQueue, workerInstr, started, stepVars,
                   replies, breakerVars, pauseVars, stopVars>>

TakeInstruction ==
    /\ workerPc = "idle" /\ execQueue # << >>
    /\ workerPc' = "step"
    /\ workerInstr' = Head(execQueue)
    /\ started' = Append(started, Head(execQueue))
    /\ execQueue' = Tail(execQueue)
    /\ takenPaused' = IF paused THEN takenPaused + 1 ELSE 0
    /\ UNCHANGED <<connVars, admitVars, stepVars, replies, breakerVars, paused,
                   stopVars>>

NextStep == Len(stepLog[workerInstr]) + 1

\* A request made under a cancelled context never leaves.
Sendable == workerPc = "step" /\ ~ctxDone

SendStep ==
    /\ Sendable
    /\ workerPc' = "waiting"
    /\ requests' = [requests EXCEPT ![workerInstr] = Append(@, NextStep)]
    /\ UNCHANGED <<connVars, admitVars, execQueue, workerInstr, started, stepLog,
                   applied, replies, breakerVars, pauseVars, stopVars>>

\* The exchange acts on a request that was sent and that it has not refused,
\* possibly long after the client gave up waiting.
ExchangeApplies(id, k) ==
    /\ k \in 1..Len(requests[id])
    /\ k \in DOMAIN stepLog[id] => stepLog[id][k] = "unknown"
    /\ applied' = applied \cup {<<id, k>>}
    /\ UNCHANGED <<connVars, admitVars, execQueue, workerVars, requests, stepLog,
                   replies, breakerVars, pauseVars, stopVars>>

FaultyRecordSuccess == UNCHANGED breakerVars

RecordSuccess ==
    /\ fails' = IF MaxConsecutive = 0 THEN fails ELSE 0
    /\ UNCHANGED <<cooling, tripping>>

RecordFailure ==
    IF MaxConsecutive = 0
    THEN UNCHANGED breakerVars
    ELSE IF fails + 1 >= MaxConsecutive /\ ~cooling
    THEN fails' = 0 /\ cooling' = TRUE /\ tripping' = tripping + 1
    ELSE fails' = fails + 1 /\ UNCHANGED <<cooling, tripping>>

\* One turn of the loop over the steps: log the outcome, tell the breaker of
\* an order, go on only after a success.
FaultyAfterStep(outcome) ==
    IF NextStep = Len(StepsOf[workerInstr]) THEN "reply" ELSE "step"

AfterStep(outcome) ==
    IF outcome # "ok" \/ NextStep = Len(StepsOf[workerInstr])
    THEN "reply" ELSE "step"

StepEnds(outcome) ==
    /\ workerPc' = AfterStep(outcome)
    /\ stepLog' = [stepLog EXCEPT ![workerInstr] = Append(@, outcome)]
    /\ IF StepsOf[workerInstr][NextStep] = "place_order"
       THEN IF outcome = "ok" THEN RecordSuccess ELSE RecordFailure
       ELSE UNCHANGED breakerVars
    /\ UNCHANGED <<connVars, admitVars, execQueue, workerInstr, started, requests,
                   applied, replies, pauseVars, stopVars>>

\* The step fails before a request leaves: unknown action, unknown asset,
\* context expired or cancelled.
StepNotSent ==
    /\ workerPc = "step"
    /\ StepEnds("failed")

FaultyTellsAll(action) == action = "update_leverage"

\* The answer to a batch has one status per item.  Only those of new orders are
\* looked at: a modification or a cancellation that was refused for each of its
\* items is reported as a success.
TellsAll(action) == action \in {"place_order", "update_leverage"}

\* The exchange answers with "ok", once it has acted on the request.
StepSucceeds ==
    /\ workerPc = "waiting"
    /\ TellsAll(StepsOf[workerInstr][NextStep]) => <<workerInstr, NextStep>> \in applied
    /\ StepEnds("ok")

\* The exchange answers with an error.  A batch of orders can fail in part,
\* so some of it may have taken effect.
StepFails ==
    /\ workerPc = "waiting"
    /\ StepEnds("failed")

FaultyStepUnanswered ==
    /\ workerPc = "waiting" /\ ctxDone
    /\ StepEnds("unknown")

\* Timeout, cancellation or a broken connection: no answer.
StepUnanswered ==
    /\ workerPc = "waiting"
    /\ StepEnds("unknown")

SendResult ==
    /\ workerPc = "reply"
    /\ Reply(workerInstr, "result")
    /\ workerPc' = "idle"
    /\ workerInstr' = NoInstr
    /\ UNCHANGED <<connVars, admitVars, execQueue, started, stepVars, breakerVars,
                   pauseVars, stopVars>>

CooldownElapses ==
    /\ cooling
    /\ cooling' = FALSE
    /\ UNCHANGED <<connVars, admitVars, execQueue, workerVars, stepVars, replies,
                   fails, tripping, pauseVars, stopVars>>

\* onTrip runs in a goroutine of its own.  Its message to the server changes
\* nothing here: the server may pause or resume the client at any time.
OnTrip ==
    /\ tripping > 0
    /\ tripping' = tripping - 1
    /\ SetPaused(TRUE)
    /\ UNCHANGED <<connVars, admitVars, execQueue, workerVars, stepVars, replies,
                   fails, cooling, stopVars>>

-----------------------------------------------------------------------------
(* Stop.                                                                   *)

StopCancels ==
    /\ stopPc = "no"
    /\ stopPc' = "cancelled"
    /\ ctxDone' = TRUE
    /\ UNCHANGED <<connVars, admitVars, execQueue, workerVars, stepVars, replies,
                   breakerVars, pauseVars, raced>>

FaultyStopCloses ==
    /\ stopPc = "cancelled"
    /\ stopPc' = "waiting"
    /\ raced' = (connPc \in {"dialing", "dialed"})
    /\ UNCHANGED <<connVars, admitVars, execQueue, workerVars,
                   stepVars, replies, breakerVars, pauseVars, ctxDone>>

StopCloses ==
    /\ stopPc = "cancelled"
    /\ stopPc' = "waiting"
    /\ conn' = IF conn = "nil" THEN "nil" ELSE "closed"
    /\ raced' = (connPc \in {"dialing", "dialed"})
    /\ UNCHANGED <<connPc, connected, admitVars, execQueue, workerVars, stepVars,
                   replies, breakerVars, pauseVars, ctxDone>>

StopReturns ==
    /\ stopPc = "waiting"
    /\ connPc = "done" /\ workerPc = "done"
    /\ stopPc' = "returned"
    /\ UNCHANGED <<connVars, admitVars, execQueue, workerVars, stepVars, replies,
                   breakerVars, pauseVars, ctxDone, raced>>

\* After Stop nothing is left to do.
Stopped == stopPc = "returned" /\ UNCHANGED vars

-----------------------------------------------------------------------------
Connect ==
    \/ LoopTop \/ DialFails \/ DialSucceeds \/ AssignConn
    \/ AuthSucceeds \/ AuthFails \/ BackoffEnds \/ ReadFails

Receive(id) ==
    \/ DropPaused(id) \/ DropUntimely(id) \/ RejectSignature(id)
    \/ AcceptInstruction(id)

Admit == RejectInstruction \/ Enqueue \/ QueueFull

Worker ==
    \/ WorkerStops \/ TakeInstruction \/ SendStep \/ StepNotSent
    \/ StepSucceeds \/ StepFails \/ StepUnanswered \/ SendResult

Stop == StopCancels \/ StopCloses \/ StopReturns

Environment ==
    \/ ConnectionLost
    \/ \E p \in BOOLEAN : ConfigUpdate(p)
    \/ \E id \in Ids : \E k \in 1..Len(StepsOf[id]) : ExchangeApplies(id, k)

Next ==
    \/ Connect
    \/ \E id \in Ids : Receive(id)
    \/ Admit
    \/ Worker
    \/ OnTrip
    \/ CooldownElapses
    \/ Stop
    \/ Environment
    \/ Stopped

Spec == Init /\ [][Next]_vars

\* What the client does by itself, or at the latest when the wait's own timeout
\* ends it: the dial and the auth answer have ten seconds, the back-off at most
\* thirty, an instruction's requests thirty, an HTTP call the client's timeout.
ConnectTimely ==
    LoopTop \/ DialFails \/ AssignConn \/ AuthFails \/ BackoffEnds \/ ReadFails

WorkerTimely ==
    \/ WorkerStops \/ TakeInstruction \/ SendStep \/ StepNotSent
    \/ StepUnanswered \/ SendResult

\* Every goroutine runs when it can, and Stop, once called, is carried out.
\* Nothing is assumed of the server, the network and the exchange.
FairSpec ==
    /\ Spec
    /\ WF_vars(ConnectTimely)
    /\ WF_vars(Admit)
    /\ WF_vars(WorkerTimely)
    /\ WF_vars(OnTrip)
    /\ WF_vars(StopCloses \/ StopReturns)

-----------------------------------------------------------------------------
ConnPcs == {"top", "dialing", "dialed", "auth", "backoff", "read",
            "admit", "done"}

\* Types, the queue's capacity, and the fields that go with a program counter:
\* an instruction is in the handler or in the worker exactly while one of
\* their counters says so, and c.connected is true only in a session.
TypeOK ==
    /\ connPc \in ConnPcs
    /\ conn \in {"nil", "open", "closed"}
    /\ connected \in BOOLEAN
    /\ connected <=> connPc \in {"read", "admit"}
    /\ cur \in Ids \cup {NoInstr}
    /\ cur # NoInstr <=> connPc = "admit"
    /\ seen \subseteq Ids
    /\ sigFailures \in 0..(SigFailThreshold - 1)
    /\ execQueue \in Seq(Ids) /\ Len(execQueue) <= QueueCap
    /\ workerPc \in {"idle", "step", "waiting", "reply", "done"}
    /\ workerInstr \in Ids \cup {NoInstr}
    /\ workerInstr # NoInstr <=> workerPc \in {"step", "waiting", "reply"}
    /\ started \in Seq(Ids)
    /\ requests \in [Ids -> Seq(Nat)]
    /\ stepLog \in [Ids -> Seq({"ok", "failed", "unknown"})]
    /\ applied \subseteq Ids \X Nat
    /\ replies \in [Ids -> Seq({"rejected", "result"})]
    /\ fails \in Nat /\ cooling \in BOOLEAN /\ tripping \in Nat
    /\ paused \in BOOLEAN /\ takenPaused \in Nat
    /\ ctxDone \in BOOLEAN /\ raced \in BOOLEAN
    /\ stopPc \in {"no", "cancelled", "waiting", "returned"}
    /\ ctxDone <=> stopPc # "no"

\* However the server repeats a message, in whichever sessions, no instruction
\* is started twice (dedup.Check in handleInstruction, one queue, one worker).
StartedOnce == IsInjective(started)

\* The requests of an instruction leave in the order of its steps, each once,
\* and none leaves after one that did not succeed: a protective order is never
\* placed on top of an entry that failed (the break in executeInstruction).
RequestsInOrder ==
    \A id \in Ids :
        /\ \A k \in DOMAIN requests[id] : requests[id][k] = k
        /\ \A k \in DOMAIN requests[id] :
              k < Len(requests[id]) =>
                  k \in DOMAIN stepLog[id] /\ stepLog[id][k] = "ok"

\* What the server is told of an instruction is true for good: it gets at most
\* one result; a rejected instruction never reaches the exchange, not even
\* later from the queue; and a reported execution is over, with every order
\* reported as placed accepted by the exchange, and every leverage reported as set
\* in force.  Of what was to be modified or cancelled it says nothing
\* (executor.go:102, 152, client.go of hyperliquid:107).
RepliesHonest ==
    \A id \in Ids :
        /\ Len(replies[id]) <= 1
        /\ replies[id] = <<"rejected">> =>
              id \notin Range(started \o execQueue) /\ requests[id] = << >>
        /\ replies[id] = <<"result">> =>
              /\ workerInstr # id
              /\ Len(requests[id]) <= Len(stepLog[id])
              /\ \A k \in DOMAIN stepLog[id] :
                    /\ stepLog[id][k] = "ok"
                    /\ StepsOf[id][k] \in {"place_order", "update_leverage"}
                    => <<id, k>> \in applied

\* Pausing is not immediate, but what it lets through is bounded: after a
\* pause the worker starts at most the instructions that were queued and the
\* one handleInstruction had already let past its check of c.paused.
PauseBounded == paused => takenPaused <= QueueCap + 1

\* The steps executed so far that place orders: <<instruction's turn, step>>.
OrdersPlaced ==
    UNION {{<<i, k>> : k \in {j \in DOMAIN stepLog[started[i]] :
                                 StepsOf[started[i]][j] = "place_order"}} :
           i \in DOMAIN started}

Outcome(o) == stepLog[started[o[1]]][o[2]]

\* The worker executes o, or has executed it, when it comes to p.
NotBefore(p, o) == p[1] > o[1] \/ (p[1] = o[1] /\ p[2] >= o[2])

\* The orders since the last one that succeeded.
Streak ==
    {o \in OrdersPlaced : \A p \in OrdersPlaced : NotBefore(p, o) => Outcome(p) # "ok"}

\* The breaker trips only when the last MaxConsecutive orders all failed, over
\* instructions and sessions, and never twice in one cooldown.
TripsOnStreak ==
    [][tripping' > tripping => ~cooling /\ Cardinality(Streak') >= MaxConsecutive]_vars

-----------------------------------------------------------------------------
\* Where an instruction is, as the variables of the three goroutines show it.
Status(id) ==
    CASE id \notin seen -> "new"
      [] id = cur -> "checking"
      [] id \in Range(execQueue) -> "queued"
      [] id = workerInstr -> "running"
      [] id \in Range(started) \ {workerInstr} -> "done"
      [] id \in seen \ ({cur} \cup Range(execQueue) \cup Range(started)) -> "refused"

Life ==
    INSTANCE InstructionLife
    WITH Steps <- [id \in Ids |-> Len(StepsOf[id])],
         status <- [id \in Ids |-> Status(id)],
         line <- execQueue,
         acts <- [id \in Ids |-> Len(requests[id])],
         told <- replies

\* Session, worker, breaker, pause and Stop together: an instruction goes through its
\* life in order and once, whatever the connection, the exchange and the server do
\* (handleInstruction, execWorker, executeInstruction).
ImplementsLife == Life!LifeSpec

-----------------------------------------------------------------------------
\* Stop returns, unless a dial was in flight when it closed c.conn: the new
\* connection is then left open and its read loop does not look at the context.
StopTerminates == stopPc = "cancelled" ~> (stopPc = "returned" \/ raced)

\* An instruction that waits in the queue is started, unless the client is
\* stopped: no instruction before it can hold the worker for ever.  Every one
\* that is started comes to its result, stopped or not.
ResultFollows ==
    \A id \in Ids :
        /\ id \in Range(execQueue) ~> (id \in Range(started) \/ ctxDone)
        /\ workerInstr = id ~> workerInstr # id

\* Without a session the client dials again and again until it is stopped,
\* whatever made the last attempt fail.
KeepsDialing == ~connected ~> (connPc = "dialing" \/ connected \/ ctxDone)
=============================================================================
