------------------------- MODULE RelayClient_proofs -------------------------
(***************************************************************************)
(* Proofs about RelayClient, for every set of instructions, queue capacity *)
(* and thresholds.                                                         *)
(***************************************************************************)
EXTENDS RelayClient, FiniteSetTheorems, TLAPS

-----------------------------------------------------------------------------
LEMMA InitType == Init => TypeOK
<1> SUFFICES ASSUME Init PROVE TypeOK
  OBVIOUS
<1> USE RelayAssumption DEF RelayAssumption
<1>1. /\ connPc = "top" /\ connected = FALSE /\ conn = "nil"
      /\ workerPc = "idle" /\ stopPc = "no" /\ ctxDone = FALSE
      /\ cur = NoInstr /\ workerInstr = NoInstr
      /\ cooling = FALSE /\ paused = FALSE /\ raced = FALSE
  BY DEF Init
<1>2. /\ execQueue \in Seq(Ids) /\ Len(execQueue) <= QueueCap
      /\ started \in Seq(Ids)
      /\ requests \in [Ids -> Seq(Nat)]
      /\ stepLog \in [Ids -> Seq({"ok", "failed", "unknown"})]
      /\ replies \in [Ids -> Seq({"rejected", "result"})]
  BY DEF Init
<1>3. /\ seen \subseteq Ids /\ sigFailures \in 0..(SigFailThreshold - 1)
      /\ applied \subseteq Ids \X Nat
      /\ fails \in Nat /\ tripping \in Nat /\ takenPaused \in Nat
  BY DEF Init
<1> QED
  BY <1>1, <1>2, <1>3 DEF TypeOK, ConnPcs

LEMMA NextType == TypeOK /\ [Next]_vars => TypeOK'
<1> SUFFICES ASSUME TypeOK, [Next]_vars PROVE TypeOK'
  OBVIOUS
<1> USE RelayAssumption DEF RelayAssumption
<1>1. CASE Connect
  <2>1. CASE LoopTop
    BY <2>1
    DEF LoopTop, ConnStep, TypeOK, ConnPcs, connVars, admitVars, workerVars,
        stepVars, breakerVars, pauseVars, stopVars
  <2>2. CASE DialFails
    BY <2>2
    DEF DialFails, ConnStep, TypeOK, ConnPcs, connVars, admitVars, workerVars,
        stepVars, breakerVars, pauseVars, stopVars
  <2>3. CASE DialSucceeds
    BY <2>3
    DEF DialSucceeds, ConnStep, TypeOK, ConnPcs, connVars, admitVars,
        workerVars, stepVars, breakerVars, pauseVars, stopVars
  <2>4. CASE AssignConn
    BY <2>4
    DEF AssignConn, ConnStep, TypeOK, ConnPcs, connVars, admitVars, workerVars,
        stepVars, breakerVars, pauseVars, stopVars
  <2>5. CASE AuthSucceeds
    BY <2>5
    DEF AuthSucceeds, ConnStep, TypeOK, ConnPcs, connVars, admitVars,
        workerVars, stepVars, breakerVars, pauseVars, stopVars
  <2>6. CASE AuthFails
    BY <2>6
    DEF AuthFails, ConnStep, TypeOK, ConnPcs, connVars, admitVars, workerVars,
        stepVars, breakerVars, pauseVars, stopVars
  <2>7. CASE BackoffEnds
    <3>1. /\ connPc' \in ConnPcs
          /\ connPc' \notin {"read", "admit"}
          /\ connPc \notin {"read", "admit"}
          /\ UNCHANGED <<conn, connected>>
      BY <2>7 DEF BackoffEnds, ConnStep, ConnPcs
    <3>2. UNCHANGED <<admitVars, execQueue, workerVars, stepVars, replies,
                      breakerVars, pauseVars, stopVars>>
      BY <2>7 DEF BackoffEnds, ConnStep
    <3> QED
      BY <3>1, <3>2
      DEF TypeOK, ConnPcs, admitVars, workerVars, stepVars, breakerVars,
          pauseVars, stopVars
  <2>8. CASE ReadFails
    BY <2>8
    DEF ReadFails, ConnStep, TypeOK, ConnPcs, connVars, admitVars, workerVars,
        stepVars, breakerVars, pauseVars, stopVars
  <2> QED
    BY <1>1, <2>1, <2>2, <2>3, <2>4, <2>5, <2>6, <2>7, <2>8 DEF Connect
<1>2. ASSUME NEW id \in Ids, Receive(id)
      PROVE  TypeOK'
  <2>1. CASE DropPaused(id)
    BY <2>1
    DEF DropPaused, Unadmitted, Receivable, Remember, TypeOK, ConnPcs,
        connVars, admitVars, workerVars, stepVars, breakerVars, pauseVars,
        stopVars
  <2>2. CASE DropUntimely(id)
    BY <2>2
    DEF DropUntimely, Unadmitted, Receivable, Remember, TypeOK, ConnPcs,
        connVars, admitVars, workerVars, stepVars, breakerVars, pauseVars,
        stopVars
  <2>3. CASE RejectSignature(id)
    <3>1. /\ seen' \subseteq Ids /\ connPc' = connPc
          /\ replies' \in [Ids -> Seq({"rejected", "result"})]
      <4>1. /\ seen \subseteq Ids /\ replies \in [Ids -> Seq({"rejected", "result"})]
            /\ Remember(id) /\ connPc' = connPc
            /\ Reply(id, "rejected") \/ replies' = replies
        BY <2>3 DEF RejectSignature, TypeOK
      <4> QED
        BY ONLY <4>1, id \in Ids DEF Remember, Reply
    <3>2. sigFailures' \in 0..(SigFailThreshold - 1) /\ conn' \in {"nil", "open", "closed"}
      <4>1. /\ RecordSigFailure /\ sigFailures \in 0..(SigFailThreshold - 1)
            /\ conn \in {"nil", "open", "closed"}
        BY <2>3 DEF RejectSignature, TypeOK
      <4> QED
        BY ONLY <4>1, RelayAssumption DEF RecordSigFailure, RelayAssumption
    <3>3. UNCHANGED <<connected, cur, execQueue, workerVars, stepVars, breakerVars,
                      pauseVars, stopVars>>
      BY <2>3 DEF RejectSignature, Unadmitted
    <3> QED
      BY <3>1, <3>2, <3>3
      DEF TypeOK, workerVars, stepVars, breakerVars, pauseVars, stopVars
  <2>4. CASE AcceptInstruction(id)
    BY <2>4
    DEF AcceptInstruction, Receivable, Remember, TypeOK, ConnPcs, connVars,
        admitVars, workerVars, stepVars, breakerVars, pauseVars, stopVars
  <2> QED
    BY <1>2, <2>1, <2>2, <2>3, <2>4 DEF Receive
<1>3. CASE Admit
  <2>1. CASE RejectInstruction \/ QueueFull
    <3>1. /\ connPc' = "read" /\ cur \in Ids /\ cur' = NoInstr
          /\ Reply(cur, "rejected") /\ replies \in [Ids -> Seq({"rejected", "result"})]
          /\ UNCHANGED <<conn, connected, seen, sigFailures, execQueue, workerVars,
                         stepVars, breakerVars, pauseVars, stopVars>>
      BY <2>1 DEF RejectInstruction, QueueFull, Admitted, TypeOK
    <3>2. replies' \in [Ids -> Seq({"rejected", "result"})]
      BY ONLY <3>1 DEF Reply
    <3> QED
      BY <3>1, <3>2
      DEF TypeOK, ConnPcs, workerVars, stepVars, breakerVars, pauseVars, stopVars
  <2>2. CASE Enqueue
    <3>1. /\ connPc = "admit" /\ connPc' = "read" /\ cur \in Ids /\ cur' = NoInstr
          /\ UNCHANGED <<conn, connected, seen, sigFailures, replies, workerVars, stepVars,
                         breakerVars, pauseVars, stopVars>>
      BY <2>2 DEF Enqueue, Admitted, TypeOK
    <3>2. execQueue' \in Seq(Ids) /\ Len(execQueue') <= QueueCap
      <4>1. /\ execQueue \in Seq(Ids) /\ Len(execQueue) < QueueCap
            /\ execQueue' = Append(execQueue, cur)
        BY <2>2 DEF Enqueue, Room, TypeOK
      <4> QED
        BY ONLY <3>1, <4>1, RelayAssumption DEF RelayAssumption
    <3> QED
      BY <3>1, <3>2
      DEF TypeOK, ConnPcs, workerVars, stepVars, breakerVars, pauseVars, stopVars
  <2> QED
    BY <1>3, <2>1, <2>2 DEF Admit
<1>4. CASE Worker
  <2>1. CASE WorkerStops
    BY <2>1
    DEF WorkerStops, TypeOK, ConnPcs, connVars, admitVars, workerVars,
        stepVars, breakerVars, pauseVars, stopVars
  <2>2. CASE TakeInstruction
    <3>1. /\ Head(execQueue) \in Ids
          /\ Tail(execQueue) \in Seq(Ids) /\ Len(Tail(execQueue)) <= QueueCap
          /\ Append(started, Head(execQueue)) \in Seq(Ids)
      BY <2>2 DEF TypeOK, TakeInstruction
    <3>2. takenPaused' \in Nat
      BY <2>2 DEF TypeOK, TakeInstruction
    <3>3. /\ workerPc' = "step" /\ workerInstr' \in Ids /\ NoInstr \notin Ids
          /\ execQueue' \in Seq(Ids) /\ Len(execQueue') <= QueueCap
          /\ started' \in Seq(Ids)
      BY <2>2, <3>1, RelayAssumption DEF TakeInstruction, RelayAssumption
    <3>4. UNCHANGED <<connVars, admitVars, stepVars, replies, breakerVars, paused, stopVars>>
      BY <2>2 DEF TakeInstruction
    <3> QED
      BY <3>2, <3>3, <3>4
      DEF TypeOK, connVars, admitVars, stepVars, breakerVars, stopVars
  <2>3. CASE SendStep
    <3>1. workerPc = "step" /\ workerPc' = "waiting" /\ workerInstr' = workerInstr
      BY <2>3 DEF SendStep, Sendable
    <3>2. NextStep \in Nat /\ workerInstr \in Ids
      BY <3>1 DEF TypeOK, NextStep
    <3>3. requests' \in [Ids -> Seq(Nat)]
      BY <2>3, <3>2 DEF SendStep, TypeOK
    <3>4. UNCHANGED <<connVars, admitVars, execQueue, started, stepLog, applied, replies,
                      breakerVars, pauseVars, stopVars>>
      BY <2>3 DEF SendStep
    <3> QED
      BY <3>1, <3>3, <3>4
      DEF TypeOK, connVars, admitVars, breakerVars, pauseVars, stopVars
  <2>4. ASSUME NEW o \in {"ok", "failed", "unknown"}, StepEnds(o),
               workerPc \in {"step", "waiting"}
        PROVE  TypeOK'
    <3>1. stepLog' \in [Ids -> Seq({"ok", "failed", "unknown"})]
      BY <2>4 DEF StepEnds, TypeOK
    <3>2. fails' \in Nat /\ tripping' \in Nat
      BY <2>4 DEF StepEnds, RecordSuccess, RecordFailure, breakerVars, TypeOK
    <3>3. cooling' \in BOOLEAN
      BY <2>4 DEF StepEnds, RecordSuccess, RecordFailure, breakerVars, TypeOK
    <3>4. workerPc' \in {"step", "reply"}
      BY <2>4 DEF StepEnds, AfterStep
    <3>5. UNCHANGED <<connVars, admitVars, execQueue, workerInstr, started, requests,
                      applied, replies, pauseVars, stopVars>>
      BY <2>4 DEF StepEnds
    <3> QED
      BY <2>4, <3>1, <3>2, <3>3, <3>4, <3>5
      DEF TypeOK, connVars, admitVars, pauseVars, stopVars
  <2>5. CASE SendResult
    <3>1. workerInstr \in Ids
      BY <2>5 DEF SendResult, TypeOK
    <3>2. replies' \in [Ids -> Seq({"rejected", "result"})]
      BY <2>5, <3>1 DEF SendResult, Reply, TypeOK
    <3>3. /\ workerPc' = "idle" /\ workerInstr' = NoInstr
          /\ UNCHANGED <<connVars, admitVars, execQueue, started, stepVars,
                         breakerVars, pauseVars, stopVars>>
      BY <2>5 DEF SendResult
    <3> QED
      BY <3>2, <3>3
      DEF TypeOK, ConnPcs, connVars, admitVars, stepVars, breakerVars,
          pauseVars, stopVars
  <2> QED
    BY <1>4, <2>1, <2>2, <2>3, <2>4, <2>5
    DEF Worker, StepNotSent, StepSucceeds, StepFails, StepUnanswered
<1>5. CASE OnTrip
  <2>1. /\ tripping' \in Nat /\ paused' \in BOOLEAN /\ takenPaused' \in Nat
    BY <1>5 DEF OnTrip, SetPaused, TypeOK
  <2>2. UNCHANGED <<connVars, admitVars, execQueue, workerVars, stepVars,
                    replies, fails, cooling, stopVars>>
    BY <1>5 DEF OnTrip
  <2> QED
    BY <2>1, <2>2
    DEF TypeOK, ConnPcs, connVars, admitVars, workerVars, stepVars, stopVars
<1>6. CASE CooldownElapses
  <2>1. cooling' \in BOOLEAN
    BY <1>6 DEF CooldownElapses
  <2>2. UNCHANGED <<connVars, admitVars, execQueue, workerVars, stepVars,
                    replies, fails, tripping, pauseVars, stopVars>>
    BY <1>6 DEF CooldownElapses
  <2> QED
    BY <2>1, <2>2
    DEF TypeOK, ConnPcs, connVars, admitVars, workerVars, stepVars, pauseVars,
        stopVars
<1>7. CASE Stop
  <2>1. CASE StopCancels
    BY <2>1
    DEF StopCancels, TypeOK, ConnPcs, connVars, admitVars, workerVars,
        stepVars, breakerVars, pauseVars, stopVars
  <2>2. CASE StopCloses
    BY <2>2
    DEF StopCloses, TypeOK, ConnPcs, connVars, admitVars, workerVars, stepVars,
        breakerVars, pauseVars, stopVars
  <2>3. CASE StopReturns
    BY <2>3
    DEF StopReturns, TypeOK, ConnPcs, connVars, admitVars, workerVars,
        stepVars, breakerVars, pauseVars, stopVars
  <2> QED
    BY <1>7, <2>1, <2>2, <2>3 DEF Stop
<1>8. CASE Environment
  <2>1. CASE ConnectionLost
    BY <2>1
    DEF ConnectionLost, TypeOK, ConnPcs, connVars, admitVars, workerVars,
        stepVars, breakerVars, pauseVars, stopVars
  <2>2. ASSUME NEW p \in BOOLEAN, ConfigUpdate(p)
        PROVE  TypeOK'
    BY <2>2
    DEF ConfigUpdate, SetPaused, TypeOK, ConnPcs, connVars, admitVars,
        workerVars, stepVars, breakerVars, pauseVars, stopVars
  <2>3. ASSUME NEW id \in Ids, NEW k \in 1..Len(StepsOf[id]), ExchangeApplies(id, k)
        PROVE  TypeOK'
    <3>1. applied' \subseteq Ids \X Nat
      <4>1. applied' = applied \cup {<<id, k>>} /\ applied \subseteq Ids \X Nat /\ k \in Nat
        BY <2>3, RelayAssumption DEF ExchangeApplies, TypeOK, RelayAssumption
      <4> QED
        BY ONLY <4>1, id \in Ids
    <3>2. UNCHANGED <<connVars, admitVars, execQueue, workerVars, requests, stepLog,
                      replies, breakerVars, pauseVars, stopVars>>
      BY <2>3 DEF ExchangeApplies
    <3> QED
      BY <3>1, <3>2
      DEF TypeOK, ConnPcs, connVars, admitVars, workerVars, breakerVars, pauseVars, stopVars
  <2> QED
    BY <1>8, <2>1, <2>2, <2>3 DEF Environment
<1>9. CASE UNCHANGED vars
  BY <1>9 DEF vars, TypeOK
<1>10. CASE Stopped
  BY <1>9, <1>10 DEF Stopped
<1> QED
  BY <1>1, <1>2, <1>3, <1>4, <1>5, <1>6, <1>7, <1>8, <1>9,
     <1>10 DEF Next

\* The program counters, the queue and all fields keep their types for ever.
THEOREM RelayTypeCorrect == Spec => []TypeOK
  BY InitType, NextType, PTL DEF Spec

-----------------------------------------------------------------------------
(* A pause lets through what is queued and the instruction past its check. *)

PauseInv ==
    /\ paused => takenPaused + Len(execQueue)
                     + (IF connPc = "admit" THEN 1 ELSE 0) <= QueueCap + 1
    /\ ~paused => takenPaused = 0

LEMMA NextPause == TypeOK /\ PauseInv /\ [Next]_vars => PauseInv'
<1> SUFFICES ASSUME TypeOK, PauseInv, [Next]_vars PROVE PauseInv'
  OBVIOUS
<1> USE RelayAssumption DEF RelayAssumption
<1>0. /\ takenPaused \in Nat /\ Len(execQueue) \in Nat /\ QueueCap \in Nat
      /\ Len(execQueue) <= QueueCap /\ execQueue \in Seq(Ids) /\ cur \in Ids \cup {NoInstr}
  BY DEF TypeOK
<1>1. ASSUME UNCHANGED <<execQueue, paused, takenPaused>>,
             connPc' = "admit" => connPc = "admit" \/ ~paused
      PROVE  PauseInv'
  BY <1>0, <1>1 DEF PauseInv
<1>2. ASSUME NEW p \in BOOLEAN, SetPaused(p), UNCHANGED <<execQueue, connPc>>
      PROVE  PauseInv'
  <2>1. connPc' = connPc /\ execQueue' = execQueue /\ (paused' <=> p)
    BY <1>2 DEF SetPaused
  <2>2. CASE p /\ paused
    <3>1. takenPaused' = takenPaused
      BY <1>2, <2>2 DEF SetPaused
    <3> QED
      BY <2>1, <2>2, <3>1 DEF PauseInv
  <2>3. CASE ~(p /\ paused)
    <3>1. takenPaused' = 0
      BY <1>2, <2>3 DEF SetPaused
    <3>2. takenPaused' + Len(execQueue')
             + (IF connPc' = "admit" THEN 1 ELSE 0) <= QueueCap + 1
      BY <1>0, <2>1, <3>1
    <3> QED
      BY <3>1, <3>2 DEF PauseInv
  <2> QED
    BY <2>2, <2>3
<1>3. CASE Connect
  BY <1>1, <1>3
  DEF Connect, ConnStep, LoopTop, DialFails, DialSucceeds, AssignConn,
      AuthSucceeds, AuthFails, BackoffEnds, ReadFails, pauseVars
<1>4. ASSUME NEW id \in Ids, Receive(id)
      PROVE  PauseInv'
  BY <1>1, <1>4
  DEF Receive, DropPaused, DropUntimely, RejectSignature, AcceptInstruction,
      Unpaused, Unadmitted, pauseVars
<1>5. CASE Admit
  <2>1. CASE RejectInstruction \/ QueueFull
    BY <1>1, <2>1 DEF RejectInstruction, QueueFull, Admitted, pauseVars
  <2>2. CASE Enqueue
    <3>1. connPc = "admit" /\ connPc' = "read" /\ cur \in Ids
      BY <1>0, <2>2 DEF Enqueue, Admitted, TypeOK
    <3>2. Len(execQueue') = Len(execQueue) + 1
      BY <1>0, <2>2, <3>1 DEF Enqueue
    <3> QED
      BY <1>0, <2>2, <3>1, <3>2 DEF Enqueue, Admitted, PauseInv, pauseVars
  <2> QED
    BY <1>5, <2>1, <2>2 DEF Admit
<1>6. CASE Worker
  <2>1. CASE TakeInstruction
    <3>1. Len(execQueue') = Len(execQueue) - 1
      BY <1>0, <2>1 DEF TakeInstruction
    <3>2. connPc' = connPc /\ (paused' <=> paused)
      BY <2>1 DEF TakeInstruction, connVars
    <3>3. CASE paused
      <4>1. takenPaused' = takenPaused + 1
        BY <2>1, <3>3 DEF TakeInstruction
      <4> QED
        BY <1>0, <3>1, <3>2, <3>3, <4>1 DEF PauseInv
    <3>4. CASE ~paused
      <4>1. takenPaused' = 0
        BY <2>1, <3>4 DEF TakeInstruction
      <4> QED
        BY <3>2, <3>4, <4>1 DEF PauseInv
    <3> QED
      BY <3>3, <3>4
  <2>2. CASE WorkerStops \/ SendStep \/ SendResult
    BY <1>1, <2>2 DEF WorkerStops, SendStep, SendResult, connVars, pauseVars
  <2>3. CASE StepNotSent \/ StepSucceeds \/ StepFails \/ StepUnanswered
    BY <1>1, <2>3
    DEF StepNotSent, StepSucceeds, StepFails, StepUnanswered, StepEnds, connVars,
        pauseVars
  <2> QED
    BY <1>6, <2>1, <2>2, <2>3 DEF Worker
<1>7. CASE OnTrip
  BY <1>2, <1>7 DEF OnTrip, connVars
<1>8. CASE CooldownElapses \/ Stop
  BY <1>1, <1>8
  DEF CooldownElapses, Stop, StopCancels, StopCloses, StopReturns, connVars,
      pauseVars
<1>9. CASE Environment
  BY <1>1, <1>2, <1>9
  DEF Environment, ConnectionLost, ConfigUpdate, ExchangeApplies, connVars, pauseVars
<1>10. CASE UNCHANGED vars
  BY <1>1, <1>10 DEF vars
<1> QED
  BY <1>3, <1>4, <1>5, <1>6, <1>7, <1>8, <1>9, <1>10 DEF Next, Stopped

\* After a pause at most QueueCap + 1 instructions are started.
THEOREM RelayPauseBounded == Spec => []PauseBounded
<1>1. Init => PauseInv
  BY DEF Init, PauseInv
<1>2. TypeOK /\ PauseInv => PauseBounded
  <2> SUFFICES ASSUME TypeOK, PauseInv, paused
               PROVE  takenPaused <= QueueCap + 1
    BY DEF PauseBounded
  <2>1. takenPaused \in Nat /\ Len(execQueue) \in Nat /\ QueueCap \in Nat
    BY RelayAssumption DEF TypeOK, RelayAssumption
  <2> QED
    BY <2>1 DEF PauseInv
<1> QED
  BY <1>1, <1>2, InitType, NextType, NextPause, PTL DEF Spec

-----------------------------------------------------------------------------
(* An instruction is in one place only: not yet seen, in the handler, in   *)
(* the queue, or taken by the worker.                                      *)

OnceInv ==
    /\ \A i, j \in DOMAIN started : started[i] = started[j] => i = j
    /\ \A i, j \in DOMAIN execQueue : execQueue[i] = execQueue[j] => i = j
    /\ \A i \in DOMAIN started, j \in DOMAIN execQueue : started[i] # execQueue[j]
    /\ \A i \in DOMAIN started : started[i] \in seen /\ started[i] # cur
    /\ \A j \in DOMAIN execQueue : execQueue[j] \in seen /\ execQueue[j] # cur
    /\ cur # NoInstr => cur \in seen

\* The steps that leave the instructions where they are.
LEMMA InstructionsStay ==
    ASSUME [Next]_vars, ~TakeInstruction, ~Admit,
           \A id \in Ids : ~Receive(id)
    PROVE  UNCHANGED <<started, execQueue, seen, cur>>
<1>1. CASE Connect
  BY <1>1
  DEF Connect, ConnStep, LoopTop, DialFails, DialSucceeds, AssignConn,
      AuthSucceeds, AuthFails, BackoffEnds, ReadFails, workerVars, admitVars
<1>2. CASE Worker
  BY <1>2
  DEF Worker, WorkerStops, SendStep, StepNotSent, StepSucceeds, StepFails,
      StepUnanswered, StepEnds, SendResult, workerVars, admitVars
<1>3. CASE OnTrip \/ CooldownElapses \/ Stop
  BY <1>3
  DEF OnTrip, CooldownElapses, Stop, StopCancels, StopCloses, StopReturns,
      workerVars, admitVars
<1>4. CASE Environment
  BY <1>4
  DEF Environment, ConnectionLost, ConfigUpdate, ExchangeApplies, workerVars,
      admitVars
<1>5. CASE UNCHANGED vars
  BY <1>5 DEF vars
<1> QED
  BY <1>1, <1>2, <1>3, <1>4, <1>5 DEF Next, Stopped

LEMMA NextOnce == TypeOK /\ OnceInv /\ [Next]_vars => OnceInv'
<1> SUFFICES ASSUME TypeOK, OnceInv, [Next]_vars PROVE OnceInv'
  OBVIOUS
<1> USE RelayAssumption DEF RelayAssumption
<1>0. /\ started \in Seq(Ids) /\ execQueue \in Seq(Ids)
      /\ cur \in Ids \cup {NoInstr} /\ NoInstr \notin Ids /\ seen \subseteq Ids
  BY DEF TypeOK
<1>1. ASSUME NEW id \in Ids, Receive(id)
      PROVE  OnceInv'
  <2>1. /\ started' = started /\ execQueue' = execQueue
        /\ seen' = seen \cup {id} /\ id \notin seen /\ cur' \in {cur, id}
    BY <1>1
    DEF Receive, DropPaused, DropUntimely, RejectSignature, AcceptInstruction,
        Receivable, Remember, Unadmitted, workerVars
  <2> QED
    BY <1>0, <2>1 DEF OnceInv
<1>2. CASE RejectInstruction \/ QueueFull
  <2>1. /\ started' = started /\ execQueue' = execQueue /\ seen' = seen
        /\ cur' = NoInstr
    BY <1>2 DEF RejectInstruction, QueueFull, Admitted, workerVars
  <2> QED
    BY <1>0, <2>1 DEF OnceInv
<1>3. CASE Enqueue
  <2>1. /\ started' = started /\ execQueue' = Append(execQueue, cur)
        /\ seen' = seen /\ cur' = NoInstr /\ cur \in Ids
    BY <1>0, <1>3 DEF Enqueue, Admitted, TypeOK, workerVars
  <2>2. /\ DOMAIN execQueue' = 1..(Len(execQueue) + 1)
        /\ \A j \in DOMAIN execQueue' :
              execQueue'[j] = IF j = Len(execQueue) + 1 THEN cur ELSE execQueue[j]
        /\ DOMAIN execQueue = 1..Len(execQueue) /\ Len(execQueue) \in Nat
    BY <1>0, <2>1
  <2> QED
    BY <1>0, <2>1, <2>2 DEF OnceInv
<1>4. CASE TakeInstruction
  <2>1. /\ started' = Append(started, Head(execQueue))
        /\ execQueue' = Tail(execQueue) /\ execQueue # << >>
        /\ seen' = seen /\ cur' = cur
    BY <1>4 DEF TakeInstruction, admitVars
  <2>2. /\ DOMAIN started' = 1..(Len(started) + 1)
        /\ \A j \in DOMAIN started' :
              started'[j] = IF j = Len(started) + 1 THEN execQueue[1] ELSE started[j]
        /\ DOMAIN started = 1..Len(started) /\ Len(started) \in Nat
    BY <1>0, <2>1
  <2>3. /\ DOMAIN execQueue' = 1..(Len(execQueue) - 1)
        /\ \A j \in DOMAIN execQueue' : execQueue'[j] = execQueue[j + 1]
        /\ DOMAIN execQueue = 1..Len(execQueue)
        /\ Len(execQueue) \in Nat /\ Len(execQueue) >= 1
    BY <1>0, <2>1
  <2>4. \A i, j \in DOMAIN started' : started'[i] = started'[j] => i = j
    BY <2>2, <2>3 DEF OnceInv
  <2>5. \A i, j \in DOMAIN execQueue' : execQueue'[i] = execQueue'[j] => i = j
    BY <2>3 DEF OnceInv
  <2>6. \A i \in DOMAIN started', j \in DOMAIN execQueue' :
           started'[i] # execQueue'[j]
    BY <2>2, <2>3 DEF OnceInv
  <2>7. \A i \in DOMAIN started' : started'[i] \in seen /\ started'[i] # cur
    BY <2>2, <2>3 DEF OnceInv
  <2>8. \A j \in DOMAIN execQueue' : execQueue'[j] \in seen /\ execQueue'[j] # cur
    BY <2>3 DEF OnceInv
  <2> QED
    BY <2>1, <2>4, <2>5, <2>6, <2>7, <2>8 DEF OnceInv
<1>5. CASE UNCHANGED <<started, execQueue, seen, cur>>
  BY <1>5 DEF OnceInv
<1> QED
  BY <1>1, <1>2, <1>3, <1>4, <1>5, InstructionsStay DEF Admit

LEMMA InitOnce == Init => OnceInv
  BY DEF Init, OnceInv

\* No instruction is started twice.
THEOREM RelayStartedOnce == Spec => []StartedOnce
<1>1. OnceInv => StartedOnce
  BY DEF OnceInv, StartedOnce, IsInjective
<1> QED
  BY <1>1, InitType, NextType, InitOnce, NextOnce, PTL DEF Spec


-----------------------------------------------------------------------------
(* The requests of an instruction follow the outcomes it has logged.       *)

AllOk(id) == \A k \in DOMAIN stepLog[id] : stepLog[id][k] = "ok"

Waiting(id) == workerInstr = id /\ workerPc = "waiting"

IsStarted(id) == \E i \in DOMAIN started : started[i] = id

LogOf(id) ==
    /\ \A k \in DOMAIN requests[id] : requests[id][k] = k
    /\ \A k \in DOMAIN requests[id] :
          k < Len(requests[id]) =>
              k \in DOMAIN stepLog[id] /\ stepLog[id][k] = "ok"
    /\ workerInstr = id /\ workerPc \in {"step", "waiting"} => AllOk(id)
    /\ workerInstr = id /\ workerPc = "step" =>
          Len(requests[id]) = Len(stepLog[id])
    /\ Waiting(id) => Len(requests[id]) = Len(stepLog[id]) + 1
    /\ ~Waiting(id) => Len(requests[id]) <= Len(stepLog[id])
    /\ workerInstr = id => IsStarted(id)
    /\ ~IsStarted(id) => requests[id] = << >> /\ stepLog[id] = << >>

LogInv == \A id \in Ids : LogOf(id)

\* The steps that leave the worker and its logs alone.
LEMMA WorkerStays ==
    ASSUME [Next]_vars, ~Worker
    PROVE  UNCHANGED <<requests, stepLog, workerPc, workerInstr, started>>
<1>1. CASE Connect
  BY <1>1
  DEF Connect, ConnStep, LoopTop, DialFails, DialSucceeds, AssignConn,
      AuthSucceeds, AuthFails, BackoffEnds, ReadFails, workerVars, stepVars
<1>2. CASE \E id \in Ids : Receive(id)
  BY <1>2
  DEF Receive, DropPaused, DropUntimely, RejectSignature, AcceptInstruction,
      Unadmitted, workerVars, stepVars
<1>3. CASE Admit
  BY <1>3 DEF Admit, RejectInstruction, QueueFull, Enqueue, Admitted, workerVars,
              stepVars
<1>4. CASE OnTrip \/ CooldownElapses \/ Stop
  BY <1>4
  DEF OnTrip, CooldownElapses, Stop, StopCancels, StopCloses, StopReturns,
      workerVars, stepVars
<1>5. CASE Environment
  BY <1>5
  DEF Environment, ConnectionLost, ConfigUpdate, ExchangeApplies, workerVars, stepVars
<1>6. CASE UNCHANGED vars
  BY <1>6 DEF vars
<1> QED
  BY <1>1, <1>2, <1>3, <1>4, <1>5, <1>6 DEF Next, Stopped

LEMMA NextLog == TypeOK /\ OnceInv /\ LogInv /\ [Next]_vars => LogInv'
<1> SUFFICES ASSUME TypeOK, OnceInv, LogInv, [Next]_vars PROVE LogInv'
  OBVIOUS
<1>0. /\ requests \in [Ids -> Seq(Nat)]
      /\ stepLog \in [Ids -> Seq({"ok", "failed", "unknown"})]
      /\ started \in Seq(Ids) /\ execQueue \in Seq(Ids)
      /\ workerInstr \in Ids \cup {NoInstr} /\ NoInstr \notin Ids
      /\ workerInstr # NoInstr <=> workerPc \in {"step", "waiting", "reply"}
  BY RelayAssumption DEF TypeOK, RelayAssumption
<1>1. CASE UNCHANGED <<requests, stepLog, workerPc, workerInstr, started>>
  BY <1>1 DEF LogInv, LogOf, AllOk, Waiting, IsStarted
<1>2. CASE WorkerStops
  BY <1>0, <1>2 DEF WorkerStops, LogInv, LogOf, AllOk, Waiting, IsStarted, stepVars
<1>3. CASE TakeInstruction
  <2> DEFINE e == Head(execQueue)
  <2>1. /\ e \in Ids /\ e = execQueue[1] /\ 1 \in DOMAIN execQueue
        /\ started' = Append(started, e) /\ workerInstr' = e /\ workerPc' = "step"
        /\ requests' = requests /\ stepLog' = stepLog /\ workerPc = "idle"
    BY <1>0, <1>3 DEF TakeInstruction, stepVars
  <2>2. ~IsStarted(e)
    BY <2>1 DEF IsStarted, OnceInv
  <2>3. \A id : IsStarted(id)' <=> IsStarted(id) \/ id = e
    <3>1. /\ DOMAIN started' = 1..(Len(started) + 1)
          /\ DOMAIN started = 1..Len(started) /\ Len(started) \in Nat
          /\ \A j \in DOMAIN started' :
                started'[j] = IF j = Len(started) + 1 THEN e ELSE started[j]
      BY <1>0, <2>1
    <3> HIDE DEF e
    <3> QED
      BY <3>1 DEF IsStarted
  <2>4. requests[e] = << >> /\ stepLog[e] = << >>
    BY <2>1, <2>2 DEF LogInv, LogOf
  <2> HIDE DEF e
  <2>5. ASSUME NEW id \in Ids, id = e
        PROVE  LogOf(id)'
    <3>1. /\ requests'[id] = << >> /\ stepLog'[id] = << >>
          /\ ~(workerPc' = "waiting") /\ IsStarted(id)'
      BY <2>1, <2>3, <2>4, <2>5
    <3>2. ~Waiting(id)'
      BY <3>1 DEF Waiting
    <3>3. AllOk(id)'
      BY <3>1 DEF AllOk
    <3> QED
      BY ONLY <3>1, <3>2, <3>3 DEF LogOf
  <2>6. ASSUME NEW id \in Ids, id # e
        PROVE  LogOf(id)'
    <3>1. LogOf(id) /\ (IsStarted(id)' <=> IsStarted(id))
      BY <2>3, <2>6 DEF LogInv
    <3>2. /\ requests' = requests /\ stepLog' = stepLog /\ workerPc' # "waiting"
          /\ workerInstr' # id /\ workerPc # "waiting"
      BY <2>1, <2>6
    <3>3. ~Waiting(id) /\ ~Waiting(id)'
      BY <3>2 DEF Waiting
    <3> QED
      BY ONLY <3>1, <3>2, <3>3 DEF LogOf
  <2> QED
    BY <2>5, <2>6 DEF LogInv
<1>4. CASE SendStep
  <2> DEFINE w == workerInstr
  <2>1. /\ w \in Ids /\ workerPc = "step" /\ workerPc' = "waiting"
        /\ requests' = [requests EXCEPT ![w] = Append(@, Len(stepLog[w]) + 1)]
        /\ stepLog' = stepLog /\ started' = started /\ workerInstr' = w
    BY <1>0, <1>4 DEF SendStep, Sendable, NextStep
  <2>2. /\ Len(requests[w]) = Len(stepLog[w]) /\ AllOk(w) /\ IsStarted(w)
    BY <2>1 DEF LogInv, LogOf
  <2>3. /\ Len(requests'[w]) = Len(stepLog[w]) + 1
        /\ DOMAIN requests'[w] = 1..(Len(stepLog[w]) + 1)
        /\ \A k \in DOMAIN requests'[w] : requests'[w][k] = k
        /\ DOMAIN stepLog[w] = 1..Len(stepLog[w]) /\ Len(stepLog[w]) \in Nat
    BY <1>0, <2>1, <2>2 DEF LogInv, LogOf
  <2>4. \A id \in Ids : id # w => requests'[id] = requests[id]
    BY <1>0, <2>1
  <2>5. \A id \in Ids : IsStarted(id)' <=> IsStarted(id)
    BY <2>1 DEF IsStarted
  <2> HIDE DEF w
  <2>6. ASSUME NEW id \in Ids, id # w
        PROVE  /\ \A k \in DOMAIN requests'[id] : requests'[id][k] = k
               /\ \A k \in DOMAIN requests'[id] :
                     k < Len(requests'[id]) =>
                         k \in DOMAIN stepLog[id] /\ stepLog[id][k] = "ok"
               /\ Len(requests'[id]) <= Len(stepLog[id])
               /\ ~IsStarted(id) => requests'[id] = << >> /\ stepLog[id] = << >>
    BY <2>1, <2>4, <2>6 DEF LogInv, LogOf, Waiting, w
  <2> QED
    BY <2>1, <2>2, <2>3, <2>5, <2>6 DEF LogInv, LogOf, AllOk, Waiting, IsStarted
<1>5. ASSUME NEW o \in {"ok", "failed", "unknown"}, StepEnds(o),
             workerPc \in {"step", "waiting"}, o = "ok" => workerPc = "waiting"
      PROVE  LogInv'
  <2>0. PICK w \in Ids : w = workerInstr
    BY <1>0, <1>5
  <2>1. /\ workerInstr = w
        /\ workerPc' = AfterStep(o) /\ AfterStep(o) \in {"step", "reply"}
        /\ AfterStep(o) = "step" => o = "ok"
        /\ stepLog' = [stepLog EXCEPT ![w] = Append(@, o)]
        /\ requests' = requests /\ started' = started /\ workerInstr' = w
    BY <1>0, <1>5, <2>0 DEF StepEnds, AfterStep
  <2>2. /\ AllOk(w) /\ IsStarted(w)
        /\ workerPc = "step" => Len(requests[w]) = Len(stepLog[w])
        /\ workerPc = "waiting" => Len(requests[w]) = Len(stepLog[w]) + 1
    BY <1>5, <2>1 DEF LogInv, LogOf, Waiting
  <2>3. /\ DOMAIN stepLog[w] = 1..Len(stepLog[w]) /\ Len(stepLog[w]) \in Nat
        /\ DOMAIN stepLog'[w] = 1..(Len(stepLog[w]) + 1)
        /\ Len(stepLog'[w]) = Len(stepLog[w]) + 1
        /\ \A k \in DOMAIN stepLog'[w] :
              stepLog'[w][k] = IF k = Len(stepLog[w]) + 1 THEN o ELSE "ok"
    BY <1>0, <2>1, <2>2 DEF AllOk
  <2>4. \A id \in Ids : id # w => stepLog'[id] = stepLog[id]
    BY <1>0, <2>1
  <2>5. \A id \in Ids : IsStarted(id)' <=> IsStarted(id)
    BY <2>1 DEF IsStarted
  <2>6. Len(requests[w]) \in Nat /\ DOMAIN requests[w] = 1..Len(requests[w])
    BY <1>0, <2>1
  <2>7. /\ \A k \in DOMAIN requests'[w] : requests'[w][k] = k
        /\ \A k \in DOMAIN requests'[w] :
              k < Len(requests'[w]) =>
                  k \in DOMAIN stepLog'[w] /\ stepLog'[w][k] = "ok"
    BY <1>5, <2>1, <2>2, <2>3, <2>6 DEF LogInv, LogOf
  <2>8. /\ workerPc' = "step" => AllOk(w)' /\ Len(requests'[w]) = Len(stepLog'[w])
        /\ Len(requests'[w]) <= Len(stepLog'[w])
    BY <1>5, <2>1, <2>2, <2>3, <2>6 DEF AllOk
  <2>9. ASSUME NEW id \in Ids, id # w
        PROVE  /\ \A k \in DOMAIN requests'[id] : requests'[id][k] = k
               /\ \A k \in DOMAIN requests'[id] :
                     k < Len(requests'[id]) =>
                         k \in DOMAIN stepLog'[id] /\ stepLog'[id][k] = "ok"
               /\ Len(requests'[id]) <= Len(stepLog'[id])
               /\ ~IsStarted(id) => requests'[id] = << >> /\ stepLog'[id] = << >>
    BY <2>1, <2>4, <2>9 DEF LogInv, LogOf, Waiting
  <2> QED
    BY <2>1, <2>2, <2>5, <2>7, <2>8, <2>9 DEF LogInv, LogOf, Waiting
<1>6. CASE SendResult
  BY <1>0, <1>6 DEF SendResult, LogInv, LogOf, AllOk, Waiting, IsStarted, stepVars
<1> QED
  BY <1>1, <1>2, <1>3, <1>4, <1>5, <1>6, WorkerStays
  DEF Worker, StepNotSent, StepSucceeds, StepFails, StepUnanswered

LEMMA InitLog == Init => LogInv
  BY RelayAssumption DEF Init, LogInv, LogOf, AllOk, Waiting, IsStarted, RelayAssumption

\* Requests leave in step order, once each, and never after a failure.
THEOREM RelayRequestsInOrder == Spec => []RequestsInOrder
<1>1. LogInv => RequestsInOrder
  BY DEF LogInv, LogOf, RequestsInOrder
<1> QED
  BY <1>1, InitType, NextType, InitOnce, NextOnce, InitLog, NextLog, PTL DEF Spec


-----------------------------------------------------------------------------
(* A result is sent when an instruction leaves the client, and only then.  *)

InQueue(id) == \E j \in DOMAIN execQueue : execQueue[j] = id

\* The client has not finished with id, or has never seen it.
Unsettled(id) == id \notin seen \/ id = cur \/ InQueue(id) \/ workerInstr = id

\* The step was reported as a success, and by its own outcome.
Vouched(id, k) ==
    stepLog[id][k] = "ok" /\ StepsOf[id][k] \in {"place_order", "update_leverage"}

ReplyInv ==
    \A id \in Ids :
        /\ Len(replies[id]) <= 1
        /\ Unsettled(id) => replies[id] = << >>
        /\ replies[id] = <<"rejected">> => ~IsStarted(id)
        /\ \A k \in DOMAIN stepLog[id] : Vouched(id, k) => <<id, k>> \in applied

\* Answering one instruction for the first time.
LEMMA FirstReply ==
    ASSUME TypeOK, ReplyInv, NEW r \in Ids, replies[r] = << >>,
           NEW result \in {"rejected", "result"}, Reply(r, result)
    PROVE  /\ Len(replies'[r]) <= 1
           /\ replies'[r] \in {<< >>, <<result>>}
           /\ \A id \in Ids : id # r => replies'[id] = replies[id]
<1>1. CASE conn = "open"
  <2>1. replies' = [replies EXCEPT ![r] = Append(@, result)]
    BY <1>1 DEF Reply
  <2>2. replies'[r] = <<result>>
    BY <2>1 DEF TypeOK
  <2> QED
    BY <2>1, <2>2 DEF TypeOK
<1>2. CASE conn # "open"
  BY <1>2 DEF Reply
<1> QED
  BY <1>1, <1>2

LEMMA NextReply ==
    TypeOK /\ OnceInv /\ LogInv /\ ReplyInv /\ [Next]_vars => ReplyInv'
<1> SUFFICES ASSUME TypeOK, OnceInv, LogInv, ReplyInv, [Next]_vars PROVE ReplyInv'
  OBVIOUS
<1>0. /\ started \in Seq(Ids) /\ execQueue \in Seq(Ids)
      /\ stepLog \in [Ids -> Seq({"ok", "failed", "unknown"})]
      /\ cur \in Ids \cup {NoInstr} /\ NoInstr \notin Ids
      /\ workerInstr \in Ids \cup {NoInstr}
      /\ workerInstr # NoInstr <=> workerPc \in {"step", "waiting", "reply"}
      /\ cur # NoInstr <=> connPc = "admit"
  BY RelayAssumption DEF TypeOK, RelayAssumption
<1>1. \A id \in Ids : id \notin seen \/ id = cur \/ InQueue(id) => ~IsStarted(id)
  BY DEF OnceInv, IsStarted, InQueue
<1>2. \A id \in Ids : workerInstr = id => IsStarted(id)
  BY DEF LogInv, LogOf
<1>3. ASSUME NEW id \in Ids, Receive(id)
      PROVE  ReplyInv'
  <2>1. /\ execQueue' = execQueue /\ started' = started
        /\ workerInstr' = workerInstr /\ stepLog' = stepLog /\ applied' = applied
        /\ seen' = seen \cup {id} /\ id \notin seen /\ cur' \in {cur, id}
    BY <1>3
    DEF Receive, DropPaused, DropUntimely, RejectSignature, AcceptInstruction,
        Receivable, Remember, Unadmitted, workerVars, stepVars
  <2>2. replies[id] = << >> /\ ~IsStarted(id) /\ ~InQueue(id)
        /\ id # cur /\ workerInstr # id
    BY <1>0, <1>1, <1>2, <2>1 DEF ReplyInv, Unsettled, OnceInv, InQueue
  <2>3. CASE RejectSignature(id)
    <3>1. /\ Len(replies'[id]) <= 1
          /\ replies'[id] \in {<< >>, <<"rejected">>}
          /\ \A x \in Ids : x # id => replies'[x] = replies[x]
      <4>1. CASE Reply(id, "rejected")
        BY <2>2, <4>1, FirstReply
      <4>2. CASE UNCHANGED replies
        BY <2>2, <4>2
      <4> QED
        BY <2>3, <4>1, <4>2 DEF RejectSignature
    <3>2. cur' = cur
      BY <2>3 DEF RejectSignature, Unadmitted
    <3> QED
      BY <2>1, <2>2, <3>1, <3>2
      DEF ReplyInv, Unsettled, InQueue, IsStarted, Vouched
  <2>4. CASE UNCHANGED replies
    BY <2>1, <2>2, <2>4 DEF ReplyInv, Unsettled, InQueue, IsStarted, Vouched
  <2> QED
    BY <1>3, <2>3, <2>4
    DEF Receive, DropPaused, DropUntimely, AcceptInstruction
<1>4. CASE RejectInstruction \/ QueueFull
  <2>1. /\ execQueue' = execQueue /\ started' = started
        /\ workerInstr' = workerInstr /\ stepLog' = stepLog /\ applied' = applied
        /\ seen' = seen /\ cur' = NoInstr /\ cur \in Ids /\ Reply(cur, "rejected")
    BY <1>0, <1>4 DEF RejectInstruction, QueueFull, Admitted, workerVars, stepVars
  <2>2. replies[cur] = << >> /\ ~IsStarted(cur) /\ ~InQueue(cur)
        /\ workerInstr # cur /\ cur \in seen
    BY <1>0, <1>1, <1>2, <2>1 DEF ReplyInv, Unsettled, OnceInv, InQueue
  <2>3. /\ Len(replies'[cur]) <= 1
        /\ replies'[cur] \in {<< >>, <<"rejected">>}
        /\ \A x \in Ids : x # cur => replies'[x] = replies[x]
    BY <2>1, <2>2, FirstReply
  <2> QED
    BY <1>0, <2>1, <2>2, <2>3 DEF ReplyInv, Unsettled, InQueue, IsStarted, Vouched
<1>5. CASE Enqueue
  <2>1. /\ started' = started /\ replies' = replies
        /\ workerInstr' = workerInstr /\ stepLog' = stepLog /\ applied' = applied
        /\ seen' = seen /\ cur' = NoInstr /\ cur \in Ids
        /\ execQueue' = Append(execQueue, cur)
    BY <1>0, <1>5 DEF Enqueue, Admitted, workerVars, stepVars
  <2>2. \A x \in Ids : InQueue(x)' => InQueue(x) \/ x = cur
    BY <1>0, <2>1 DEF InQueue
  <2> QED
    BY <1>0, <2>1, <2>2 DEF ReplyInv, Unsettled, IsStarted, Vouched
<1>6. CASE TakeInstruction
  <2>0. PICK e \in Ids : e = execQueue[1] /\ 1 \in DOMAIN execQueue
    BY <1>0, <1>6 DEF TakeInstruction
  <2>1. /\ e = Head(execQueue) /\ execQueue' = Tail(execQueue)
        /\ started' = Append(started, e) /\ workerInstr' = e
        /\ stepLog' = stepLog /\ applied' = applied /\ replies' = replies
        /\ seen' = seen /\ cur' = cur /\ workerInstr = NoInstr
    BY <1>0, <1>6, <2>0 DEF TakeInstruction, admitVars, stepVars
  <2>2. \A x \in Ids : InQueue(x)' => InQueue(x)
    BY <1>0, <2>0, <2>1 DEF InQueue
  <2>3. \A x \in Ids : IsStarted(x)' => IsStarted(x) \/ x = e
    BY <1>0, <2>1 DEF IsStarted
  <2>4. replies[e] = << >>
    BY <2>0 DEF ReplyInv, Unsettled, InQueue
  <2>5. replies[e] # <<"rejected">> /\ Len(replies[e]) <= 1
    BY <2>4
  <2>6. \A x \in Ids : Unsettled(x)' => Unsettled(x) \/ x = e
    BY <2>1, <2>2 DEF Unsettled
  <2> QED
    BY <2>1, <2>3, <2>4, <2>5, <2>6 DEF ReplyInv, Vouched
<1>7. CASE WorkerStops \/ SendStep
  BY <1>7
  DEF WorkerStops, SendStep, admitVars, stepVars, ReplyInv, Unsettled, InQueue,
      IsStarted, Vouched
<1>8. ASSUME NEW o \in {"ok", "failed", "unknown"}, StepEnds(o),
             workerPc \in {"step", "waiting"},
             o = "ok" /\ TellsAll(StepsOf[workerInstr][NextStep]) =>
                <<workerInstr, NextStep>> \in applied
      PROVE  ReplyInv'
  <2>0. PICK w \in Ids : w = workerInstr
    BY <1>0, <1>8
  <2>1. /\ stepLog' = [stepLog EXCEPT ![w] = Append(@, o)]
        /\ UNCHANGED <<execQueue, started, workerInstr, applied, replies, seen, cur>>
        /\ o = "ok" /\ TellsAll(StepsOf[w][Len(stepLog[w]) + 1]) =>
              <<w, Len(stepLog[w]) + 1>> \in applied
    BY <1>8, <2>0 DEF StepEnds, NextStep, admitVars
  <2>2. \A k \in DOMAIN stepLog'[w] : Vouched(w, k)' => <<w, k>> \in applied
    <3>1. /\ DOMAIN stepLog[w] = 1..Len(stepLog[w]) /\ Len(stepLog[w]) \in Nat
          /\ DOMAIN stepLog'[w] = 1..(Len(stepLog[w]) + 1)
          /\ \A k \in DOMAIN stepLog'[w] :
                stepLog'[w][k] = IF k = Len(stepLog[w]) + 1 THEN o
                                 ELSE stepLog[w][k]
      BY <1>0, <2>1
    <3> QED
      BY <2>1, <3>1 DEF ReplyInv, Vouched, TellsAll
  <2>3. \A id \in Ids : id # w => stepLog'[id] = stepLog[id]
    BY <1>0, <2>1
  <2> QED
    BY <2>1, <2>2, <2>3 DEF ReplyInv, Unsettled, InQueue, IsStarted, Vouched
<1>9. CASE SendResult
  <2>0. PICK w \in Ids : w = workerInstr
    BY <1>0, <1>9 DEF SendResult
  <2>1. /\ UNCHANGED <<execQueue, started, stepLog, applied, seen, cur>>
        /\ workerInstr' = NoInstr /\ Reply(w, "result")
    BY <1>9, <2>0 DEF SendResult, admitVars, stepVars
  <2>2. replies[w] = << >> /\ ~Unsettled(w)'
    BY <1>0, <1>1, <1>2, <2>0, <2>1 DEF ReplyInv, Unsettled, InQueue
  <2>3. /\ Len(replies'[w]) <= 1
        /\ replies'[w] \in {<< >>, <<"result">>}
        /\ \A x \in Ids : x # w => replies'[x] = replies[x]
    BY <2>1, <2>2, FirstReply
  <2>4. replies'[w] # <<"rejected">>
    BY <2>3
  <2> QED
    BY <1>0, <2>1, <2>2, <2>3, <2>4 DEF ReplyInv, Unsettled, InQueue, IsStarted, Vouched
<1>10. ASSUME NEW x \in Ids, NEW k \in 1..Len(StepsOf[x]), ExchangeApplies(x, k)
       PROVE  ReplyInv'
  BY <1>10
  DEF ExchangeApplies, workerVars, admitVars, ReplyInv, Unsettled, InQueue, IsStarted, Vouched
<1>11. CASE UNCHANGED <<execQueue, started, stepLog, applied, seen, cur, workerInstr,
                        replies>>
  BY <1>11 DEF ReplyInv, Unsettled, InQueue, IsStarted, Vouched
<1>12. CASE Connect
  BY <1>11, <1>12
  DEF Connect, ConnStep, LoopTop, DialFails, DialSucceeds, AssignConn,
      AuthSucceeds, AuthFails, BackoffEnds, ReadFails, workerVars, stepVars, admitVars
<1>13. CASE OnTrip \/ CooldownElapses \/ Stop \/ ConnectionLost
            \/ \E p \in BOOLEAN : ConfigUpdate(p)
  BY <1>11, <1>13
  DEF OnTrip, CooldownElapses, Stop, StopCancels, StopCloses, StopReturns,
      ConnectionLost, ConfigUpdate, workerVars, stepVars, admitVars
<1>14. CASE UNCHANGED vars
  BY <1>11, <1>14 DEF vars
<1>15. CASE Worker
  BY <1>6, <1>7, <1>8, <1>9, <1>15
  DEF Worker, StepNotSent, StepSucceeds, StepFails, StepUnanswered
<1> QED
  BY <1>3, <1>4, <1>5, <1>10, <1>12, <1>13, <1>14, <1>15
  DEF Next, Admit, Environment, Stopped

LEMMA InitReply == Init => ReplyInv
  BY DEF Init, ReplyInv, Unsettled, InQueue, IsStarted, Vouched, Vouched

\* What the server is told of an instruction is told once, and true: one that is
\* rejected never starts, and of one with a result the orders and the leverage
\* that are reported as successes have taken effect.
THEOREM RelayRepliesHonest == Spec => []RepliesHonest
<1>1. TypeOK /\ OnceInv /\ LogInv /\ ReplyInv => RepliesHonest
  <2> SUFFICES ASSUME TypeOK, OnceInv, LogInv, ReplyInv, NEW id \in Ids
               PROVE  /\ Len(replies[id]) <= 1
                      /\ replies[id] = <<"rejected">> =>
                            id \notin Range(started \o execQueue)
                            /\ requests[id] = << >>
                      /\ replies[id] = <<"result">> =>
                            /\ workerInstr # id
                            /\ Len(requests[id]) <= Len(stepLog[id])
                            /\ \A k \in DOMAIN stepLog[id] :
                                  Vouched(id, k) => <<id, k>> \in applied
    BY DEF RepliesHonest, Vouched
  <2>1. started \in Seq(Ids) /\ execQueue \in Seq(Ids)
    BY DEF TypeOK
  <2>2. ASSUME replies[id] = <<"rejected">>
        PROVE  id \notin Range(started \o execQueue) /\ requests[id] = << >>
    <3>1. ~IsStarted(id) /\ ~InQueue(id)
      BY <2>2 DEF ReplyInv, Unsettled
    <3>2. \A i \in DOMAIN (started \o execQueue) : (started \o execQueue)[i] # id
      <4> SUFFICES ASSUME NEW i \in DOMAIN (started \o execQueue)
                   PROVE  (started \o execQueue)[i] # id
        OBVIOUS
      <4>1. CASE i <= Len(started)
        BY <2>1, <3>1, <4>1 DEF IsStarted
      <4>2. CASE i > Len(started)
        <5>1. /\ (started \o execQueue)[i] = execQueue[i - Len(started)]
              /\ i - Len(started) \in DOMAIN execQueue
          BY <2>1, <4>2
        <5> QED
          BY <3>1, <5>1 DEF InQueue
      <4> QED
        BY <2>1, <4>1, <4>2
    <3> QED
      BY <3>1, <3>2 DEF Range, LogInv, LogOf
  <2>3. ASSUME replies[id] = <<"result">>
        PROVE  workerInstr # id /\ Len(requests[id]) <= Len(stepLog[id])
    <3>1. replies[id] # << >>
      BY <2>3
    <3>2. workerInstr # id
      BY <3>1 DEF ReplyInv, Unsettled
    <3> QED
      BY <3>2 DEF LogInv, LogOf, Waiting
  <2> QED
    BY <2>2, <2>3 DEF ReplyInv
<1> QED
  BY <1>1, InitType, NextType, InitOnce, NextOnce, InitLog, NextLog, InitReply,
     NextReply, PTL DEF Spec

-----------------------------------------------------------------------------
(* The breaker counts what it is told: never more than the orders that have *)
(* failed since the last one that succeeded.                                *)

StreakInv ==
    /\ workerInstr # NoInstr => started # << >> /\ workerInstr = started[Len(started)]
    /\ IsFiniteSet(OrdersPlaced)
    /\ fails <= Cardinality(Streak)
    /\ MaxConsecutive = 0 => fails = 0

LEMMA OrderPlaced ==
    ASSUME NEW o
    PROVE  o \in OrdersPlaced <=>
              \E i, k : /\ i \in DOMAIN started /\ k \in DOMAIN stepLog[started[i]]
                        /\ StepsOf[started[i]][k] = "place_order" /\ o = <<i, k>>
<1>1. o \in OrdersPlaced <=>
         \E i \in DOMAIN started :
             o \in {<<i, k>> : k \in {j \in DOMAIN stepLog[started[i]] :
                                         StepsOf[started[i]][j] = "place_order"}}
  BY DEF OrdersPlaced
<1> QED
  BY <1>1

\* What counts is the orders and their outcomes, and their turns.
LEMMA SameStreak ==
    ASSUME OrdersPlaced' = OrdersPlaced,
           \A o \in OrdersPlaced : Outcome(o)' = Outcome(o)
    PROVE  Streak' = Streak
  BY DEF Streak, NotBefore

\* The steps that leave the breaker alone.
LEMMA BreakerStays ==
    ASSUME [Next]_vars, ~Worker, ~OnTrip, ~CooldownElapses
    PROVE  UNCHANGED <<fails, tripping>>
<1>1. CASE Connect
  BY <1>1
  DEF Connect, ConnStep, LoopTop, DialFails, DialSucceeds, AssignConn,
      AuthSucceeds, AuthFails, BackoffEnds, ReadFails, breakerVars
<1>2. CASE \E id \in Ids : Receive(id)
  BY <1>2
  DEF Receive, DropPaused, DropUntimely, RejectSignature, AcceptInstruction,
      Unadmitted, breakerVars
<1>3. CASE Admit
  BY <1>3 DEF Admit, RejectInstruction, QueueFull, Enqueue, Admitted, breakerVars
<1>4. CASE Stop
  BY <1>4 DEF Stop, StopCancels, StopCloses, StopReturns, breakerVars
<1>5. CASE Environment
  BY <1>5 DEF Environment, ConnectionLost, ConfigUpdate, ExchangeApplies, breakerVars
<1>6. CASE UNCHANGED vars
  BY <1>6 DEF vars
<1> QED
  BY <1>1, <1>2, <1>3, <1>4, <1>5, <1>6 DEF Next, Stopped

Trips == tripping' > tripping => ~cooling /\ Cardinality(Streak') >= MaxConsecutive

\* Nothing is executed: neither the orders nor the counter move.
LEMMA StreakStays ==
    ASSUME TypeOK, StreakInv, UNCHANGED <<started, stepLog, fails>>,
           workerInstr' \in {workerInstr, NoInstr}, tripping' \in {tripping, tripping - 1}
    PROVE  StreakInv' /\ Trips
<1>1. OrdersPlaced' = OrdersPlaced
  BY DEF OrdersPlaced
<1>2. Streak' = Streak
  BY <1>1, SameStreak DEF Outcome
<1>3. tripping \in Nat /\ ~(tripping' > tripping)
  BY DEF TypeOK
<1> QED
  BY <1>1, <1>2, <1>3 DEF StreakInv, Trips

\* An instruction taken from the queue has no orders yet.
LEMMA StreakAfterTake ==
    ASSUME TypeOK, OnceInv, LogInv, StreakInv, TakeInstruction
    PROVE  StreakInv' /\ Trips
<1> DEFINE e == Head(execQueue)
<1>0. started \in Seq(Ids) /\ execQueue \in Seq(Ids) /\ tripping \in Nat
  BY DEF TypeOK
<1>1. /\ e \in Ids /\ e = execQueue[1] /\ 1 \in DOMAIN execQueue
      /\ started' = Append(started, e) /\ workerInstr' = e
      /\ stepLog' = stepLog /\ fails' = fails /\ tripping' = tripping
  BY <1>0 DEF TakeInstruction, stepVars, breakerVars
<1>2. stepLog[e] = << >>
  BY <1>1 DEF IsStarted, OnceInv, LogInv, LogOf
<1> HIDE DEF e
<1>3. /\ DOMAIN started' = 1..(Len(started) + 1) /\ Len(started') = Len(started) + 1
      /\ DOMAIN started = 1..Len(started) /\ Len(started) \in Nat /\ started' # << >>
      /\ \A j \in DOMAIN started' :
            started'[j] = IF j = Len(started) + 1 THEN e ELSE started[j]
  BY <1>0, <1>1
<1>4. DOMAIN stepLog[e] = {}
  BY <1>2
<1>5. OrdersPlaced' = OrdersPlaced
  <2>1. ASSUME NEW o \in OrdersPlaced'
        PROVE  o \in OrdersPlaced
    <3>1. PICK i, k : /\ i \in DOMAIN started' /\ k \in DOMAIN stepLog[started'[i]]
                      /\ StepsOf[started'[i]][k] = "place_order" /\ o = <<i, k>>
      BY <1>1, <2>1 DEF OrdersPlaced
    <3>2. i \in DOMAIN started /\ started'[i] = started[i]
      BY <3>1, <1>3, <1>4
    <3> QED
      BY <3>1, <3>2, OrderPlaced
  <2>2. ASSUME NEW o \in OrdersPlaced
        PROVE  o \in OrdersPlaced'
    <3>1. PICK i, k : /\ i \in DOMAIN started /\ k \in DOMAIN stepLog[started[i]]
                      /\ StepsOf[started[i]][k] = "place_order" /\ o = <<i, k>>
      BY <2>2, OrderPlaced
    <3>2. i \in DOMAIN started' /\ started'[i] = started[i]
      BY <3>1, <1>3
    <3> QED
      BY <3>1, <3>2, <1>1 DEF OrdersPlaced
  <2> QED
    BY <2>1, <2>2
<1>6. ASSUME NEW o \in OrdersPlaced
      PROVE  Outcome(o)' = Outcome(o)
  <2>1. o[1] \in DOMAIN started /\ started'[o[1]] = started[o[1]]
    BY <1>3, OrderPlaced
  <2> QED
    BY <2>1, <1>1 DEF Outcome
<1>7. Streak' = Streak
  BY <1>5, <1>6, SameStreak
<1> QED
  BY <1>0, <1>1, <1>3, <1>5, <1>7 DEF StreakInv, Trips

\* A step that ends is logged last, behind all orders so far.
LEMMA OrderLogged ==
    ASSUME TypeOK, OnceInv, StreakInv, NEW o \in {"ok", "failed", "unknown"}, StepEnds(o),
           workerPc \in {"step", "waiting"}, NEW new, new = <<Len(started), NextStep>>
    PROVE  LET place == StepsOf[workerInstr][NextStep] = "place_order"
           IN  /\ OrdersPlaced' = IF place THEN OrdersPlaced \cup {new} ELSE OrdersPlaced
               /\ new \notin OrdersPlaced
               /\ \A p \in OrdersPlaced : /\ Outcome(p)' = Outcome(p)
                                          /\ NotBefore(new, p) /\ ~NotBefore(p, new)
               /\ Outcome(new)' = o /\ NotBefore(new, new)
               /\ workerInstr' = workerInstr /\ started' = started
<1> DEFINE w == workerInstr
           n == Len(started)
           m == NextStep
<1>1. /\ w \in Ids /\ started \in Seq(Ids)
      /\ stepLog \in [Ids -> Seq({"ok", "failed", "unknown"})]
      /\ started # << >> /\ w = started[n]
  BY RelayAssumption DEF TypeOK, StreakInv, RelayAssumption
<1>2. /\ stepLog' = [stepLog EXCEPT ![w] = Append(@, o)] /\ started' = started
      /\ workerInstr' = w
  BY DEF StepEnds
<1>3. n \in Nat \ {0} /\ DOMAIN started = 1..n /\ n \in DOMAIN started
  BY <1>1
<1>4. /\ m \in Nat \ {0} /\ DOMAIN stepLog[w] = 1..(m - 1)
      /\ DOMAIN stepLog'[w] = 1..m /\ stepLog'[w][m] = o
      /\ \A k \in 1..(m - 1) : stepLog'[w][k] = stepLog[w][k]
  BY <1>1, <1>2 DEF NextStep
<1>5. \A i \in DOMAIN started : i # n => /\ started[i] # w /\ started[i] \in Ids
                                         /\ stepLog'[started[i]] = stepLog[started[i]]
  BY <1>1, <1>2, <1>3 DEF OnceInv
<1>0. new = <<n, m>> /\ new[1] = n /\ new[2] = m
  OBVIOUS
<1> HIDE DEF n, m, w
<1>6. /\ m \in DOMAIN stepLog'[w] /\ m \notin DOMAIN stepLog[w]
      /\ \A k : k \in DOMAIN stepLog'[w] <=> k \in DOMAIN stepLog[w] \/ k = m
  BY <1>4
<1>7. new \notin OrdersPlaced
  <2> SUFFICES ASSUME new \in OrdersPlaced
               PROVE  FALSE
    OBVIOUS
  <2>1. PICK i, k : i \in DOMAIN started /\ k \in DOMAIN stepLog[started[i]] /\ new = <<i, k>>
    BY OrderPlaced
  <2>2. i = n /\ k = m
    BY <2>1, <1>0
  <2> QED
    BY <2>1, <2>2, <1>1, <1>6
<1>8. ASSUME NEW p \in OrdersPlaced
      PROVE  Outcome(p)' = Outcome(p) /\ NotBefore(new, p) /\ ~NotBefore(p, new)
  <2>1. PICK i, k : i \in DOMAIN started /\ k \in DOMAIN stepLog[started[i]] /\ p = <<i, k>>
    BY OrderPlaced
  <2>2. p[1] = i /\ p[2] = k /\ new[1] = n /\ new[2] = m
    BY <2>1, <1>0
  <2>3. CASE i = n
    <3>1. k \in 1..(m - 1) /\ stepLog'[w][k] = stepLog[w][k] /\ started[i] = w
      BY <2>1, <2>3, <1>1, <1>4
    <3>2. Outcome(p)' = Outcome(p)
      BY <3>1, <2>2, <1>2 DEF Outcome
    <3>3. k < m
      BY <3>1, <1>4
    <3> QED
      BY <3>1, <3>2, <3>3, <2>2, <2>3, <1>3, <1>4 DEF NotBefore
  <2>4. CASE i # n
    <3>1. stepLog'[started[i]] = stepLog[started[i]] /\ i < n /\ i \in Nat
      BY <2>1, <2>4, <1>3, <1>5
    <3>2. Outcome(p)' = Outcome(p)
      BY <3>1, <2>2, <1>2 DEF Outcome
    <3> QED
      BY <3>1, <3>2, <2>2, <1>3 DEF NotBefore
  <2> QED
    BY <2>3, <2>4
<1>9. Outcome(new)' = o /\ NotBefore(new, new)
  <2>1. stepLog'[started'[n]][m] = o
    BY <1>1, <1>2, <1>4
  <2>2. Outcome(new)' = stepLog'[started'[n]][m]
    BY <1>0 DEF Outcome
  <2> QED
    BY <2>1, <2>2, <1>0, <1>3, <1>4 DEF NotBefore
<1>10. ASSUME NEW p
       PROVE  p \in OrdersPlaced' <=>
                 p \in OrdersPlaced \/ (p = new /\ StepsOf[w][m] = "place_order")
  <2>1. p \in OrdersPlaced' <=>
           \E i, k : /\ i \in DOMAIN started /\ k \in DOMAIN stepLog'[started[i]]
                     /\ StepsOf[started[i]][k] = "place_order" /\ p = <<i, k>>
    BY <1>2 DEF OrdersPlaced
  <2>2. ASSUME p \in OrdersPlaced'
        PROVE  p \in OrdersPlaced \/ (p = new /\ StepsOf[w][m] = "place_order")
    <3>1. PICK i, k : /\ i \in DOMAIN started /\ k \in DOMAIN stepLog'[started[i]]
                      /\ StepsOf[started[i]][k] = "place_order" /\ p = <<i, k>>
      BY <2>1, <2>2
    <3>2. k \in DOMAIN stepLog[started[i]] \/ (i = n /\ k = m)
      BY <3>1, <1>1, <1>5, <1>6
    <3> QED
      BY <3>1, <3>2, <1>0, <1>1, OrderPlaced
  <2>3. ASSUME p \in OrdersPlaced
        PROVE  p \in OrdersPlaced'
    <3>1. PICK i, k : /\ i \in DOMAIN started /\ k \in DOMAIN stepLog[started[i]]
                      /\ StepsOf[started[i]][k] = "place_order" /\ p = <<i, k>>
      BY <2>3, OrderPlaced
    <3>2. k \in DOMAIN stepLog'[started[i]]
      BY <3>1, <1>1, <1>5, <1>6
    <3> QED
      BY <2>1, <3>1, <3>2
  <2>4. ASSUME p = new, StepsOf[w][m] = "place_order"
        PROVE  p \in OrdersPlaced'
    BY <2>1, <2>4, <1>0, <1>1, <1>3, <1>6
  <2> QED
    BY <2>2, <2>3, <2>4
<1>11. OrdersPlaced' = IF StepsOf[w][m] = "place_order" THEN OrdersPlaced \cup {new}
                       ELSE OrdersPlaced
  BY <1>10
<1> QED
  BY <1>2, <1>7, <1>8, <1>9, <1>11 DEF w, m

LEMMA StreakAfterStep ==
    ASSUME TypeOK, OnceInv, StreakInv, NEW o \in {"ok", "failed", "unknown"}, StepEnds(o),
           workerPc \in {"step", "waiting"}
    PROVE  StreakInv' /\ Trips
<1> DEFINE place == StepsOf[workerInstr][NextStep] = "place_order"
<1>0. PICK new : new = <<Len(started), NextStep>>
  OBVIOUS
<1>1. /\ OrdersPlaced' = IF place THEN OrdersPlaced \cup {new} ELSE OrdersPlaced
      /\ new \notin OrdersPlaced
      /\ \A p \in OrdersPlaced : /\ Outcome(p)' = Outcome(p)
                                 /\ NotBefore(new, p) /\ ~NotBefore(p, new)
      /\ Outcome(new)' = o /\ NotBefore(new, new)
      /\ workerInstr' = workerInstr /\ started' = started
  BY <1>0, OrderLogged
<1>2. IF place THEN IF o = "ok" THEN RecordSuccess ELSE RecordFailure
      ELSE UNCHANGED breakerVars
  BY DEF StepEnds
<1>3. fails \in Nat /\ tripping \in Nat /\ MaxConsecutive \in Nat
  BY RelayAssumption DEF TypeOK, RelayAssumption
<1> HIDE DEF place
<1>4. IsFiniteSet(OrdersPlaced) /\ IsFiniteSet(OrdersPlaced')
  BY <1>1, FS_AddElement DEF StreakInv
<1>5. /\ IsFiniteSet(Streak) /\ Cardinality(Streak) \in Nat
      /\ IsFiniteSet(Streak') /\ Cardinality(Streak') \in Nat
  <2>1. Streak \subseteq OrdersPlaced /\ Streak' \subseteq OrdersPlaced'
    BY DEF Streak
  <2>2. IsFiniteSet(Streak) /\ IsFiniteSet(Streak')
    BY <1>4, <2>1, FS_Subset
  <2> QED
    BY <2>2, FS_CardinalityType
<1>6. workerInstr' # NoInstr => started' # << >> /\ workerInstr' = started'[Len(started')]
  BY <1>1 DEF StreakInv
<1>7. CASE ~place
  <2>1. UNCHANGED <<fails, tripping>> /\ Streak' = Streak
    BY <1>1, <1>2, <1>7, SameStreak DEF breakerVars
  <2> QED
    BY <1>3, <1>4, <1>6, <2>1 DEF StreakInv, Trips
<1>8. CASE place /\ o = "ok"
  <2>1. fails' = 0 /\ tripping' = tripping
    BY <1>2, <1>8 DEF RecordSuccess, StreakInv
  <2> QED
    BY <1>3, <1>4, <1>5, <1>6, <2>1 DEF StreakInv, Trips
<1>9. CASE place /\ o # "ok"
  <2>1. Streak' = Streak \cup {new}
    <3>1. OrdersPlaced' = OrdersPlaced \cup {new} /\ Outcome(new)' # "ok"
      BY <1>1, <1>9
    <3>2. \A p, q : NotBefore(p, q)' <=> NotBefore(p, q)
      BY DEF NotBefore
    <3>3. \A p \in OrdersPlaced : p \in Streak' <=> p \in Streak
      BY <1>1, <3>1, <3>2 DEF Streak
    <3>4. new \in Streak'
      BY <1>1, <3>1, <3>2 DEF Streak
    <3>5. Streak \subseteq OrdersPlaced /\ Streak' \subseteq OrdersPlaced \cup {new}
      BY <3>1 DEF Streak
    <3> QED
      BY <3>3, <3>4, <3>5
  <2>2. new \notin Streak
    BY <1>1 DEF Streak
  <2>3. Cardinality(Streak') = Cardinality(Streak) + 1
    BY <1>5, <2>1, <2>2, FS_AddElement
  <2>4. fails + 1 <= Cardinality(Streak')
    BY <1>3, <1>5, <2>3 DEF StreakInv
  <2>5. CASE MaxConsecutive = 0
    <3>1. UNCHANGED <<fails, tripping>>
      BY <1>2, <1>9, <2>5 DEF RecordFailure, breakerVars
    <3> QED
      BY <1>3, <1>4, <1>5, <1>6, <2>4, <2>5, <3>1 DEF StreakInv, Trips
  <2>6. CASE MaxConsecutive # 0 /\ fails + 1 >= MaxConsecutive /\ ~cooling
    <3>1. fails' = 0 /\ Cardinality(Streak') >= MaxConsecutive
      BY <1>2, <1>3, <1>5, <1>9, <2>4, <2>6 DEF RecordFailure
    <3> QED
      BY <1>4, <1>5, <1>6, <2>6, <3>1 DEF StreakInv, Trips
  <2>7. CASE MaxConsecutive # 0 /\ ~(fails + 1 >= MaxConsecutive /\ ~cooling)
    <3>1. fails' = fails + 1 /\ tripping' = tripping
      BY <1>2, <1>9, <2>7 DEF RecordFailure
    <3> QED
      BY <1>3, <1>4, <1>6, <2>4, <2>7, <3>1 DEF StreakInv, Trips
  <2> QED
    BY <2>5, <2>6, <2>7
<1> QED
  BY <1>7, <1>8, <1>9

LEMMA NextStreak ==
    ASSUME TypeOK, OnceInv, LogInv, StreakInv, [Next]_vars
    PROVE  StreakInv' /\ Trips
<1>0. tripping \in Nat
  BY DEF TypeOK
<1>1. CASE TakeInstruction
  BY <1>1, StreakAfterTake
<1>2. CASE StepNotSent \/ StepSucceeds \/ StepFails \/ StepUnanswered
  BY <1>2, StreakAfterStep DEF StepNotSent, StepSucceeds, StepFails, StepUnanswered
<1>3. CASE WorkerStops \/ SendStep \/ SendResult
  <2>1. /\ UNCHANGED <<started, stepLog, fails, tripping>>
        /\ workerInstr' \in {workerInstr, NoInstr}
    BY <1>3 DEF WorkerStops, SendStep, SendResult, stepVars, breakerVars
  <2> QED
    BY <1>0, <2>1, StreakStays
<1>4. CASE OnTrip \/ CooldownElapses
  <2>1. /\ UNCHANGED <<started, stepLog, fails, workerInstr>>
        /\ tripping' \in {tripping, tripping - 1}
    BY <1>4 DEF OnTrip, CooldownElapses, workerVars, stepVars
  <2> QED
    BY <1>0, <2>1, StreakStays
<1>5. CASE ~Worker /\ ~OnTrip /\ ~CooldownElapses
  <2>1. UNCHANGED <<started, stepLog, workerInstr, fails, tripping>>
    BY <1>5, WorkerStays, BreakerStays
  <2> QED
    BY <1>0, <2>1, StreakStays
<1> QED
  BY <1>1, <1>2, <1>3, <1>4, <1>5 DEF Worker

LEMMA InitStreak == Init => StreakInv
<1> SUFFICES ASSUME Init
             PROVE  StreakInv
  OBVIOUS
<1>1. started = << >> /\ workerInstr = NoInstr /\ fails = 0
  BY DEF Init
<1>2. OrdersPlaced = {}
  BY <1>1 DEF OrdersPlaced
<1>3. Streak = {}
  BY <1>2 DEF Streak
<1>4. IsFiniteSet({}) /\ Cardinality({}) = 0
  BY FS_EmptySet
<1> QED
  BY <1>1, <1>2, <1>3, <1>4 DEF StreakInv

\* The breaker trips only on a streak of failed orders, and never while it
\* cools down (circuitbreaker.go).
THEOREM RelayTripsOnStreak == Spec => TripsOnStreak
<1>1. TypeOK /\ OnceInv /\ LogInv /\ StreakInv /\ [Next]_vars =>
         [tripping' > tripping =>
             ~cooling /\ Cardinality(Streak') >= MaxConsecutive]_vars
  BY NextStreak DEF Trips
<1>2. TypeOK /\ OnceInv /\ LogInv /\ StreakInv /\ [Next]_vars => StreakInv'
  BY NextStreak
<1> QED
  BY <1>1, <1>2, InitType, NextType, InitOnce, NextOnce, InitLog, NextLog, InitStreak, PTL
  DEF Spec, TripsOnStreak
-----------------------------------------------------------------------------
(* The life of an instruction.                                             *)

\* The places are apart, the worker is at something it has started, and has a
\* step left to send.
LifeInv ==
    /\ TypeOK /\ OnceInv /\ LogInv
    /\ workerPc \in {"step", "waiting"} =>
          Len(stepLog[workerInstr]) < Len(StepsOf[workerInstr])

LEMMA InitLifeInv == Init => LifeInv
  BY InitType, InitOnce, InitLog DEF LifeInv, Init

LEMMA NextLifeInv == LifeInv /\ [Next]_vars => LifeInv'
<1> SUFFICES ASSUME LifeInv, [Next]_vars PROVE LifeInv'
  OBVIOUS
<1>1. TypeOK' /\ OnceInv' /\ LogInv'
  BY NextType, NextOnce, NextLog DEF LifeInv
<1>2. /\ workerInstr \in Ids \cup {NoInstr} /\ NoInstr \notin Ids
      /\ workerInstr # NoInstr <=> workerPc \in {"step", "waiting", "reply"}
      /\ stepLog \in [Ids -> Seq({"ok", "failed", "unknown"})]
      /\ \A id \in Ids : StepsOf[id] \in Seq(Actions) /\ StepsOf[id] # << >>
  BY RelayAssumption DEF LifeInv, TypeOK, RelayAssumption
<1>3. CASE UNCHANGED <<workerPc, workerInstr, stepLog>>
  BY <1>1, <1>3 DEF LifeInv
<1>4. CASE TakeInstruction
  <2> DEFINE e == Head(execQueue)
  <2>1. /\ e \in Ids /\ workerInstr' = e /\ stepLog' = stepLog
        /\ e = execQueue[1] /\ 1 \in DOMAIN execQueue
    BY <1>4 DEF TakeInstruction, stepVars, LifeInv, TypeOK
  <2>2. ~IsStarted(e)
    BY <2>1 DEF IsStarted, OnceInv, LifeInv
  <2>3. stepLog[e] = << >> /\ Len(StepsOf[e]) > 0
    <3>1. stepLog[e] = << >>
      BY <2>1, <2>2 DEF LifeInv, LogInv, LogOf
    <3>2. StepsOf[e] \in Seq(Actions) /\ StepsOf[e] # << >>
      BY <1>2, <2>1
    <3> HIDE DEF e
    <3>3. Len(StepsOf[e]) > 0
      BY ONLY <3>2
    <3> QED
      BY <3>1, <3>3
  <2> HIDE DEF e
  <2> QED
    BY <1>1, <2>1, <2>3 DEF LifeInv
<1>5. ASSUME NEW o \in {"ok", "failed", "unknown"}, StepEnds(o),
             workerPc \in {"step", "waiting"}
      PROVE  LifeInv'
  <2> DEFINE w == workerInstr
             n == Len(stepLog[workerInstr])
             m == Len(StepsOf[workerInstr])
  <2>1. w \in Ids /\ n \in Nat /\ m \in Nat /\ n < m /\ workerInstr' = workerInstr
    BY <1>2, <1>5 DEF LifeInv, StepEnds
  <2>2. Len(stepLog'[w]) = n + 1
    BY <1>2, <1>5, <2>1 DEF StepEnds
  <2>3. workerPc' \in {"step", "waiting"} => n + 1 # m
    BY <1>5 DEF StepEnds, AfterStep, NextStep
  <2>4. workerPc' \in {"step", "waiting"} => Len(stepLog'[w]) < Len(StepsOf[w])
    <3> HIDE DEF w, n
    <3>1. m = Len(StepsOf[w])
      BY DEF w
    <3> HIDE DEF m
    <3> QED
      BY ONLY <2>1, <2>2, <2>3, <3>1
  <2> QED
    BY <1>1, <2>1, <2>4 DEF LifeInv
<1>6. CASE SendStep
  BY <1>1, <1>6 DEF SendStep, Sendable, LifeInv
<1>7. CASE WorkerStops \/ SendResult
  BY <1>1, <1>7 DEF WorkerStops, SendResult, LifeInv
<1>8. CASE ~Worker
  BY <1>3, <1>8, WorkerStays
<1> QED
  BY <1>4, <1>5, <1>6, <1>7, <1>8
  DEF Worker, StepNotSent, StepSucceeds, StepFails, StepUnanswered

\* One place at a time.
HasStatus(id) ==
    /\ id \notin seen => Status(id) = "new"
    /\ id = cur => Status(id) = "checking"
    /\ id \in Range(execQueue) => Status(id) = "queued"
    /\ id = workerInstr => Status(id) = "running"
    /\ id \in Range(started) /\ id # workerInstr => Status(id) = "done"
    /\ id \in seen /\ id # cur /\ id \notin Range(execQueue) /\ id \notin Range(started)
          => Status(id) = "refused"

Places ==
    /\ \A id \in Ids : HasStatus(id)
    /\ Range(execQueue) \subseteq seen /\ Range(started) \subseteq seen
    /\ Range(execQueue) \cap Range(started) = {}
    /\ cur # NoInstr => cur \in seen \ (Range(execQueue) \cup Range(started))
    /\ workerInstr # NoInstr => workerInstr \in Range(started)

LEMMA StatusPlaced == LifeInv => Places
<1> SUFFICES ASSUME LifeInv
             PROVE  Places
  OBVIOUS
<1>1. /\ Range(execQueue) \subseteq seen /\ Range(started) \subseteq seen
      /\ Range(execQueue) \cap Range(started) = {}
      /\ cur \notin Range(execQueue) /\ cur \notin Range(started)
      /\ cur # NoInstr => cur \in seen
  BY DEF LifeInv, OnceInv, Range
<1>2. workerInstr # NoInstr => workerInstr \in Range(started)
  BY DEF LifeInv, TypeOK, LogInv, LogOf, IsStarted, Range
<1>3. NoInstr \notin Ids
  BY RelayAssumption DEF RelayAssumption
<1>4. ASSUME NEW id \in Ids
      PROVE  HasStatus(id)
  <2> DEFINE Q == Range(execQueue)
             D == Range(started)
  <2>1. /\ Q \subseteq seen /\ D \subseteq seen /\ Q \cap D = {} /\ cur \notin Q /\ cur \notin D
        /\ id = cur => id \in seen /\ id # workerInstr
        /\ id = workerInstr => id \in D
    BY <1>1, <1>2, <1>3
  <2>2. Status(id) = CASE id \notin seen -> "new"
                       [] id = cur -> "checking"
                       [] id \in Q -> "queued"
                       [] id = workerInstr -> "running"
                       [] id \in D \ {workerInstr} -> "done"
                       [] id \in seen \ ({cur} \cup Q \cup D) -> "refused"
    BY DEF Status
  <2> HIDE DEF Q, D
  <2>3. /\ id \notin seen => Status(id) = "new"
        /\ id = cur => Status(id) = "checking"
    BY ONLY <2>1, <2>2
  <2>4. /\ id \in Q => Status(id) = "queued"
        /\ id = workerInstr => Status(id) = "running"
    BY ONLY <2>1, <2>2
  <2>5. /\ id \in D /\ id # workerInstr => Status(id) = "done"
        /\ id \in seen /\ id # cur /\ id \notin Q /\ id \notin D => Status(id) = "refused"
    BY ONLY <2>1, <2>2
  <2> QED
    BY <2>3, <2>4, <2>5 DEF HasStatus, Q, D
<1> QED
  BY <1>1, <1>2, <1>4 DEF Places

\* An instruction that stays where it is.
Stays(id) ==
    /\ id \in seen' <=> id \in seen
    /\ id = cur' <=> id = cur
    /\ id \in Range(execQueue') <=> id \in Range(execQueue)
    /\ id \in Range(started') <=> id \in Range(started)
    /\ id = workerInstr' <=> id = workerInstr

LEMMA StatusStays ==
    ASSUME Places, Places', NEW id \in Ids, Stays(id)
    PROVE  Status(id)' = Status(id)
<1>1. HasStatus(id) /\ HasStatus(id)'
  BY DEF Places
<1>2. Range(execQueue)' = Range(execQueue') /\ Range(started)' = Range(started')
  BY DEF Range
<1>3. /\ id \in Range(execQueue) => id \in seen /\ id # cur /\ id \notin Range(started)
      /\ id \in Range(started) => id \in seen /\ id # cur
      /\ id = cur => id \in seen
  BY RelayAssumption DEF Places, RelayAssumption
<1> QED
  BY <1>1, <1>2, <1>3 DEF HasStatus, Stays

LEMMA StatusBecomes ==
    ASSUME Places, Places', NEW e \in Ids, \A id \in Ids \ {e} : Stays(id),
           NEW from, NEW to, Status(e) = from, Status(e)' = to
    PROVE  Life!Becomes(e, from, to)
<1>1. \A id \in Ids \ {e} : Status(id)' = Status(id)
  BY StatusStays
<1> QED
  BY <1>1 DEF Life!Becomes

LEMMA AppendedRange ==
    ASSUME NEW s \in Seq(Ids), NEW e \in Ids
    PROVE  Range(Append(s, e)) = Range(s) \cup {e}
<1> DEFINE a == Append(s, e)
           n == Len(s)
<1>1. /\ n \in Nat /\ DOMAIN s = 1..n /\ DOMAIN a = 1..(n + 1)
      /\ a[n + 1] = e /\ \A k \in 1..n : a[k] = s[k]
  OBVIOUS
<1> HIDE DEF a, n
<1>2. /\ \A k \in DOMAIN a : a[k] = e \/ (k \in DOMAIN s /\ a[k] = s[k])
      /\ \A k \in DOMAIN s : k \in DOMAIN a /\ a[k] = s[k]
      /\ n + 1 \in DOMAIN a
  BY <1>1
<1>3. Range(a) \subseteq Range(s) \cup {e}
  BY <1>2 DEF Range
<1>4. Range(s) \subseteq Range(a)
  BY <1>2 DEF Range
<1>5. e \in Range(a)
  BY <1>1, <1>2 DEF Range
<1> QED
  BY <1>3, <1>4, <1>5 DEF a

\* The session: an instruction is looked at, refused or queued.
LEMMA ReceiveLives ==
    ASSUME LifeInv, Places, Places', NEW id \in Ids, Receive(id)
    PROVE  Life!LifeNext
<1>1. /\ id \notin seen /\ seen' = seen \cup {id} /\ cur = NoInstr /\ NoInstr \notin Ids
      /\ UNCHANGED <<execQueue, workerInstr, started, requests>>
      /\ \/ cur' = cur /\ replies' \in {replies, [replies EXCEPT ![id] = Append(@, "rejected")]}
         \/ cur' = id /\ replies' = replies
  BY RelayAssumption
  DEF Receive, DropPaused, DropUntimely, RejectSignature, AcceptInstruction, Receivable,
      Remember, Reply, Unadmitted, workerVars, stepVars, LifeInv, TypeOK, RelayAssumption
<1>2. \A j \in Ids \ {id} : Stays(j)
  BY <1>1 DEF Stays
<1>3. HasStatus(id) /\ HasStatus(id)' /\ id \notin Range(execQueue) /\ id \notin Range(started)
      /\ id # workerInstr
  BY <1>1 DEF Places
<1>4. Status(id) = "new" /\ Range(execQueue)' = Range(execQueue) /\ Range(started)' = Range(started)
  BY <1>1, <1>3 DEF HasStatus, Range
<1>5. UNCHANGED <<execQueue, [j \in Ids |-> Len(requests[j])]>>
  BY <1>1
<1>6. CASE cur' = cur
  <2>1. Status(id)' = "refused"
    BY <1>1, <1>3, <1>4, <1>6 DEF HasStatus
  <2>2. Life!Becomes(id, "new", "refused")
    BY <1>2, <1>4, <2>1, StatusBecomes
  <2>3. Life!MayTell(id, "rejected")
    BY <1>1, <1>6 DEF Life!MayTell
  <2> QED
    BY <1>5, <2>2, <2>3 DEF Life!LifeNext, Life!Refuse
<1>7. CASE cur' = id /\ replies' = replies
  <2>1. Status(id)' = "checking"
    BY <1>3, <1>7 DEF HasStatus
  <2>2. Life!Becomes(id, "new", "checking")
    BY <1>2, <1>4, <2>1, StatusBecomes
  <2>3. Life!Nobody("checking")
    BY <1>1 DEF Life!Nobody, Places, HasStatus
  <2> QED
    BY <1>5, <1>7, <2>2, <2>3 DEF Life!LifeNext, Life!Look
<1> QED
  BY <1>1, <1>6, <1>7

LEMMA AdmitLives ==
    ASSUME LifeInv, Places, Places', Admit
    PROVE  Life!LifeNext
<1>1. PICK e \in Ids : e = cur
  BY DEF Admit, RejectInstruction, Enqueue, QueueFull, Admitted, LifeInv, TypeOK
<1>2. /\ cur' = NoInstr /\ NoInstr \notin Ids /\ execQueue \in Seq(Ids)
      /\ UNCHANGED <<seen, workerInstr, started, requests>>
  BY RelayAssumption
  DEF Admit, RejectInstruction, Enqueue, QueueFull, Admitted, workerVars, stepVars,
      LifeInv, TypeOK, RelayAssumption
<1>3. /\ Status(e) = "checking" /\ e \in seen /\ e \notin Range(execQueue)
      /\ e \notin Range(started) /\ e # workerInstr /\ HasStatus(e)'
  BY <1>1, <1>2 DEF Places, HasStatus
<1>4. Range(started)' = Range(started) /\ Range(execQueue)' = Range(execQueue')
  BY <1>2 DEF Range
<1>5. UNCHANGED [j \in Ids |-> Len(requests[j])]
  BY <1>2
<1>6. CASE /\ execQueue' = execQueue
           /\ replies' \in {replies, [replies EXCEPT ![cur] = Append(@, "rejected")]}
  <2>1. \A j \in Ids \ {e} : Stays(j)
    BY <1>1, <1>2, <1>6 DEF Stays
  <2>2. Status(e)' = "refused"
    BY <1>2, <1>3, <1>4, <1>6 DEF HasStatus
  <2>3. Life!Becomes(e, "checking", "refused")
    BY <1>3, <2>1, <2>2, StatusBecomes
  <2>4. Life!MayTell(e, "rejected")
    BY <1>1, <1>6 DEF Life!MayTell
  <2> QED
    BY <1>5, <1>6, <2>3, <2>4 DEF Life!LifeNext, Life!Refuse
<1>7. CASE execQueue' = Append(execQueue, cur) /\ replies' = replies
  <2>1. \A j \in Ids : j \in Range(execQueue') <=> j \in Range(execQueue) \/ j = e
    BY <1>1, <1>2, <1>7, AppendedRange
  <2>2. \A j \in Ids \ {e} : Stays(j)
    BY <1>1, <1>2, <2>1 DEF Stays
  <2>3. Status(e)' = "queued"
    BY <1>3, <1>4, <2>1 DEF HasStatus
  <2>4. Life!Becomes(e, "checking", "queued")
    BY <1>3, <2>2, <2>3, StatusBecomes
  <2> QED
    BY <1>1, <1>5, <1>7, <2>4 DEF Life!LifeNext, Life!Queue
<1> QED
  BY <1>6, <1>7 DEF Admit, RejectInstruction, Enqueue, QueueFull, Reply

\* The worker: an instruction is started, acted upon and ended.
LEMMA TakeLives ==
    ASSUME LifeInv, Places, Places', TakeInstruction
    PROVE  Life!LifeNext
<1>1. /\ execQueue \in Seq(Ids) /\ started \in Seq(Ids) /\ execQueue # << >>
      /\ workerInstr = NoInstr /\ NoInstr \notin Ids
      /\ execQueue' = Tail(execQueue) /\ started' = Append(started, Head(execQueue))
      /\ workerInstr' = Head(execQueue)
      /\ UNCHANGED <<seen, cur, requests, replies>>
  BY RelayAssumption
  DEF TakeInstruction, LifeInv, TypeOK, RelayAssumption, admitVars, stepVars
<1>2. PICK e \in Ids : e = Head(execQueue)
  BY <1>1
<1>3. \A j \in Ids : /\ j \in Range(execQueue) <=> j \in Range(execQueue') \/ j = e
                     /\ j \in Range(started') <=> j \in Range(started) \/ j = e
  <2>1. /\ DOMAIN execQueue = 1..Len(execQueue) /\ Len(execQueue) \in Nat \ {0}
        /\ execQueue[1] = e /\ DOMAIN execQueue' = 1..(Len(execQueue) - 1)
        /\ \A k \in DOMAIN execQueue' : execQueue'[k] = execQueue[k + 1]
    BY <1>1, <1>2
  <2>2. Range(started') = Range(started) \cup {e}
    BY <1>1, <1>2, AppendedRange
  <2>3. \A k \in DOMAIN execQueue : k = 1 \/ (k - 1 \in DOMAIN execQueue' /\ (k - 1) + 1 = k)
    BY ONLY <2>1
  <2>4. \A k \in DOMAIN execQueue' : k + 1 \in DOMAIN execQueue
    BY ONLY <2>1
  <2>5. 1 \in DOMAIN execQueue
    BY ONLY <2>1
  <2>6. \A j \in Ids : j \in Range(execQueue) <=> j \in Range(execQueue') \/ j = e
    BY <2>1, <2>3, <2>4, <2>5 DEF Range
  <2>7. \A j \in Ids : j \in Range(started') <=> j \in Range(started) \/ j = e
    BY <2>2
  <2> QED
    BY <2>6, <2>7
<1>4. \A j \in Ids \ {e} : Stays(j)
  BY <1>1, <1>2, <1>3 DEF Stays
<1>5. e \in Range(execQueue) /\ Status(e) = "queued" /\ Status(e)' = "running"
  BY <1>1, <1>2, <1>3 DEF Places, HasStatus
<1>6. Life!Becomes(e, "queued", "running")
  BY <1>4, <1>5, StatusBecomes
<1>7. Life!Nobody("running")
  BY <1>1 DEF Life!Nobody, Places, HasStatus
<1>8. UNCHANGED <<[j \in Ids |-> Len(requests[j])], replies>>
  BY <1>1
<1> QED
  BY <1>1, <1>2, <1>6, <1>7, <1>8 DEF Life!LifeNext, Life!Start

LEMMA SendLives ==
    ASSUME LifeInv, Places, Places', SendStep
    PROVE  Life!LifeNext
<1>1. PICK w \in Ids : w = workerInstr
  BY DEF SendStep, Sendable, LifeInv, TypeOK
<1>2. /\ requests \in [Ids -> Seq(Nat)] /\ NextStep \in Nat
      /\ requests' = [requests EXCEPT ![w] = Append(@, NextStep)]
      /\ UNCHANGED <<seen, cur, execQueue, started, workerInstr, replies>>
  BY <1>1 DEF SendStep, NextStep, LifeInv, TypeOK, admitVars
<1>3. Len(requests[w]) < Len(StepsOf[w])
  <2>1. workerPc = "step" /\ LogOf(w)
    BY <1>1 DEF SendStep, Sendable, LifeInv, LogInv
  <2> QED
    BY <1>1, <2>1 DEF LogOf, LifeInv
<1>4. Status(w) = "running" /\ \A j \in Ids : Status(j)' = Status(j)
  <2>1. \A j \in Ids : Stays(j)
    BY <1>2 DEF Stays
  <2> QED
    BY <1>1, <2>1, StatusStays DEF Places, HasStatus
<1>5. \A j \in Ids : Len(requests'[j]) = IF j = w THEN Len(requests[j]) + 1 ELSE Len(requests[j])
  BY <1>2
<1>6. [j \in Ids |-> Len(requests'[j])]
         = [[j \in Ids |-> Len(requests[j])] EXCEPT ![w] = @ + 1]
  BY <1>5
<1> QED
  BY <1>2, <1>3, <1>4, <1>6 DEF Life!LifeNext, Life!Act

LEMMA ResultLives ==
    ASSUME LifeInv, Places, Places', SendResult
    PROVE  Life!LifeNext
<1>1. PICK w \in Ids : w = workerInstr
  BY DEF SendResult, LifeInv, TypeOK
<1>2. /\ workerInstr' = NoInstr /\ NoInstr \notin Ids
      /\ replies' \in {replies, [replies EXCEPT ![w] = Append(@, "result")]}
      /\ UNCHANGED <<seen, cur, execQueue, started, requests>>
  BY <1>1, RelayAssumption DEF SendResult, Reply, RelayAssumption, admitVars, stepVars
<1>3. \A j \in Ids \ {w} : Stays(j)
  BY <1>1, <1>2 DEF Stays
<1>4. Status(w) = "running" /\ Status(w)' = "done"
  <2>1. w \in Range(started) /\ HasStatus(w) /\ HasStatus(w)' /\ Range(started)' = Range(started)
    BY <1>1, <1>2 DEF Places, Range
  <2> QED
    BY <1>1, <1>2, <2>1 DEF HasStatus
<1>5. Life!Becomes(w, "running", "done")
  BY <1>3, <1>4, StatusBecomes
<1>6. UNCHANGED <<execQueue, [j \in Ids |-> Len(requests[j])]>> /\ Life!MayTell(w, "result")
  BY <1>2 DEF Life!MayTell
<1> QED
  BY <1>5, <1>6 DEF Life!LifeNext, Life!Finish

\* Connections, answers of the exchange, trips, pauses and Stop change no life.
LEMMA LivesStay ==
    ASSUME Places, Places', UNCHANGED <<seen, cur, execQueue, started, workerInstr, requests, replies>>
    PROVE  UNCHANGED Life!lifeVars
<1>1. \A j \in Ids : Status(j)' = Status(j)
  <2>1. \A j \in Ids : Stays(j)
    BY DEF Stays
  <2> QED
    BY <2>1, StatusStays
<1> QED
  BY <1>1 DEF Life!lifeVars

LEMMA StepLives ==
    ASSUME LifeInv, Places, Places', [Next]_vars
    PROVE  [Life!LifeNext]_(Life!lifeVars)
<1> DEFINE Same == UNCHANGED <<seen, cur, execQueue, started, workerInstr, requests, replies>>
<1>1. CASE Connect
  <2>1. Same
    BY <1>1
    DEF Connect, ConnStep, LoopTop, DialFails, DialSucceeds, AssignConn,
        AuthSucceeds, AuthFails, BackoffEnds, ReadFails, workerVars, admitVars, stepVars
  <2> QED
    BY <2>1, LivesStay
<1>2. CASE \E id \in Ids : Receive(id)
  BY <1>2, ReceiveLives
<1>3. CASE Admit
  BY <1>3, AdmitLives
<1>4. CASE Worker
  <2>1. CASE WorkerStops \/ StepNotSent \/ StepSucceeds \/ StepFails \/ StepUnanswered
    <3>1. Same
      BY <2>1
      DEF WorkerStops, StepNotSent, StepSucceeds, StepFails, StepUnanswered, StepEnds,
          admitVars, stepVars
    <3> QED
      BY <3>1, LivesStay
  <2> QED
    BY <1>4, <2>1, TakeLives, SendLives, ResultLives DEF Worker
<1>5. CASE OnTrip \/ CooldownElapses \/ Stop \/ Environment \/ UNCHANGED vars
  <2>1. Same
    BY <1>5
    DEF OnTrip, CooldownElapses, Stop, StopCancels, StopCloses, StopReturns, Environment,
        ConnectionLost, ConfigUpdate, ExchangeApplies, admitVars, workerVars, stepVars, vars
  <2> QED
    BY <2>1, LivesStay
<1> QED
  BY <1>1, <1>2, <1>3, <1>4, <1>5 DEF Next, Stopped

\* The client takes every instruction through its life in order and once: looked at
\* once, started in turn and alone, no more requests than steps, one answer at most
\* (handleInstruction, execWorker, executeInstruction).
THEOREM RelayImplementsLife == Spec => ImplementsLife
<1>1. Init => Life!LifeInit
  <2> SUFFICES ASSUME Init PROVE Life!LifeInit
    OBVIOUS
  <2>1. \A id \in Ids : Status(id) = "new"
    BY InitLifeInv, StatusPlaced DEF Init, Places, HasStatus
  <2>2. \A id \in Ids : Len(requests[id]) = 0
    BY DEF Init
  <2> QED
    BY <2>1, <2>2 DEF Init, Life!LifeInit
<1>2. LifeInv /\ LifeInv' /\ [Next]_vars => [Life!LifeNext]_(Life!lifeVars)
  <2>1. LifeInv => Places
    BY StatusPlaced
  <2>2. LifeInv' => Places'
    BY StatusPlaced, PTL
  <2> QED
    BY <2>1, <2>2, StepLives
<1> QED
  BY <1>1, <1>2, InitLifeInv, NextLifeInv, PTL DEF Spec, ImplementsLife, Life!LifeSpec
=============================================================================
