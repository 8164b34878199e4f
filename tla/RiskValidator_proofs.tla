------------------------- MODULE RiskValidator_proofs -------------------------
(***************************************************************************)
(* Theorems about the risk checks, for all instructions, limits and cache  *)
(* contents: an order is checked when the instruction is, leverage is      *)
(* bounded all the way through the queue to the exchange, and so is what   *)
(* may be traded beyond the total limit.                                   *)
(***************************************************************************)
EXTENDS RiskValidator, FiniteSetTheorems, SequenceTheorems, TLAPS

\* What a leverage may be in an instruction on its way: what the clamp left, for
\* whichever asset it is.
Allowed(h, leverage) ==
    /\ leverage <= h.limit
    /\ h.instr.market \in Markets /\ h.max[h.instr.market] > 0 =>
          leverage <= h.max[h.instr.market]

Bounded(h) ==
    \A k \in 1..Len(h.instr.steps) :
        h.instr.steps[k].action = "update_leverage" => Allowed(h, h.instr.steps[k].leverage)

Carried == [instr : Instruction, limit : Int, max : [Markets -> Int]]

Held == {h \in Carried : h.instr.steps # << >> /\ Bounded(h)}

LevInv ==
    /\ limits \in LimitChoices /\ cache \in CacheChoices
    /\ checking # NoInstr => checking \in Held
    /\ queue \in Seq(Held)
    /\ executing # NoInstr => executing \in Held
    /\ LeverageWithinBound

LEMMA MinOfTwo ==
    ASSUME NEW a \in Int, NEW b \in Int
    PROVE  /\ Min({a, b}) \in Int /\ Min({a, b}) <= a /\ Min({a, b}) <= b
           /\ Min({a, b}) = a \/ Min({a, b}) = b
  <1>1. \E x \in {a, b} : \A y \in {a, b} : x <= y
    <2>1. CASE a <= b
      BY <2>1
    <2>2. CASE b <= a
      BY <2>2
    <2>3. QED
      BY <2>1, <2>2
  <1>2. Min({a, b}) \in {a, b} /\ \A y \in {a, b} : Min({a, b}) <= y
    BY <1>1 DEF Min
  <1>3. QED
    BY <1>2

\* The numbers a validation looks at.
LEMMA Amounts ==
    ASSUME LevInv
    PROVE  /\ limits.maxLev \in Int /\ limits.maxOrder \in Int /\ limits.maxDev \in Int
           /\ cache.oracle \in [Markets -> Int] /\ cache.maxLev \in [Markets -> Int]
  BY ValidatorAssumption DEF LevInv, ValidatorAssumption

\* An instruction that was just validated, with the bounds of this moment.
Now(i) == [instr |-> i, limit |-> limits.maxLev, max |-> cache.maxLev]

\* Clamping changes leverages only, and none of them above the bound is left.
LEMMA ClampBounds ==
    ASSUME LevInv, NEW i \in Instructions, Valid(i)
    PROVE  /\ Clamped(i) \in Instruction
           /\ Len(Clamped(i).steps) = Len(i.steps)
           /\ \A k \in 1..Len(i.steps) : /\ Clamped(i).steps[k].action = i.steps[k].action
                                         /\ Clamped(i).steps[k].orders = i.steps[k].orders
           /\ Now(Clamped(i)) \in Held
  <1>1. i \in Instruction /\ i.steps \in Seq(Step) /\ Len(i.steps) \in Nat
        /\ DOMAIN i.steps = 1..Len(i.steps) /\ \A k \in 1..Len(i.steps) : i.steps[k] \in Step
    <2>1. i \in Instruction /\ i.steps \in Seq(Step)
      BY ValidatorAssumption DEF ValidatorAssumption, Instruction
    <2>2. QED
      BY <2>1, LenProperties
  <1>2. ASSUME NEW step \in Step
        PROVE  /\ Clamp(step, i.market) \in Step /\ Clamp(step, i.market).action = step.action
               /\ Clamp(step, i.market).orders = step.orders
    <2>1. step.leverage \in Int
      BY DEF Step
    <2>2. ASSUME i.market \in Markets PROVE Min({step.leverage, cache.maxLev[i.market]}) \in Int
      BY <2>1, <2>2, Amounts, MinOfTwo
    <2>3. QED
      BY <2>2 DEF Step, Clamp
  <1>3. Clamped(i) = [i EXCEPT !.steps = [k \in 1..Len(i.steps) |-> Clamp(i.steps[k], i.market)]]
    BY <1>1 DEF Clamped
  <1>4. /\ Clamped(i).steps = [k \in 1..Len(i.steps) |-> Clamp(i.steps[k], i.market)]
        /\ Clamped(i).market = i.market
    BY <1>1, <1>3 DEF Instruction
  <1>5. /\ Clamped(i).steps \in Seq(Step) /\ Len(Clamped(i).steps) = Len(i.steps)
        /\ \A k \in 1..Len(i.steps) : Clamped(i).steps[k] = Clamp(i.steps[k], i.market)
    <2>1. [k \in 1..Len(i.steps) |-> Clamp(i.steps[k], i.market)] \in [1..Len(i.steps) -> Step]
      BY <1>1, <1>2
    <2>2. QED
      BY <2>1, <1>1, <1>4
  <1>6. Clamped(i) \in Instruction
    BY <1>1, <1>3, <1>4, <1>5 DEF Instruction
  <1>7. ASSUME NEW k \in 1..Len(i.steps), i.steps[k].action = "update_leverage"
        PROVE  /\ Clamp(i.steps[k], i.market).leverage <= limits.maxLev
               /\ i.market \in Markets /\ cache.maxLev[i.market] > 0 =>
                     Clamp(i.steps[k], i.market).leverage <= cache.maxLev[i.market]
    <2>1. ValidStep(i.steps[k])
      BY <1>1 DEF Valid, Range
    <2>2. i.steps[k].leverage <= limits.maxLev /\ i.steps[k].leverage \in Int
      BY <2>1, <1>1, <1>7 DEF ValidStep, Step
    <2>3. CASE i.market \in Markets /\ cache.maxLev[i.market] > 0
      <3>1. Clamp(i.steps[k], i.market).leverage = Min({i.steps[k].leverage, cache.maxLev[i.market]})
        BY <1>1, <1>7, <2>3 DEF Step, Clamp
      <3>2. cache.maxLev[i.market] \in Int /\ limits.maxLev \in Int
        BY <2>3, Amounts
      <3>3. /\ Clamp(i.steps[k], i.market).leverage \in Int
            /\ Clamp(i.steps[k], i.market).leverage <= i.steps[k].leverage
            /\ Clamp(i.steps[k], i.market).leverage <= cache.maxLev[i.market]
        BY <3>1, <3>2, <2>2, MinOfTwo
      <3>4. QED
        BY <3>2, <3>3, <2>2
    <2>4. CASE ~(i.market \in Markets /\ cache.maxLev[i.market] > 0)
      BY <2>2, <2>4, <1>7 DEF Clamp
    <2>5. QED
      BY <2>3, <2>4
  <1>8. Clamped(i).steps # << >>
    <2>1. i.steps # << >>
      BY DEF Valid
    <2>2. QED
      BY <2>1, <1>1, <1>5, EmptySeq
  <1>9. Now(Clamped(i)) \in Held
    <2>1. /\ Now(Clamped(i)) \in Carried
          /\ Now(Clamped(i)).instr = Clamped(i) /\ Now(Clamped(i)).limit = limits.maxLev
          /\ Now(Clamped(i)).max = cache.maxLev
      BY <1>6, Amounts DEF Now, Carried
    <2>2. Bounded(Now(Clamped(i)))
      BY <2>1, <1>1, <1>2, <1>4, <1>5, <1>7 DEF Bounded, Allowed
    <2>3. QED
      BY <2>1, <2>2, <1>8 DEF Held
  <1>10. QED
    BY <1>1, <1>2, <1>5, <1>6, <1>9

-----------------------------------------------------------------------------
\* Of what is left of an instruction: its next step and what comes after it.
LEMMA StepsLeft ==
    ASSUME NEW h \in Held
    PROVE  /\ h.instr.steps \in Seq(Step) /\ Head(h.instr.steps) \in Step
           /\ Head(h.instr.steps).action = "update_leverage" =>
                 Allowed(h, Head(h.instr.steps).leverage)
           /\ Len(h.instr.steps) # 1 => [h EXCEPT !.instr.steps = Tail(@)] \in Held
  <1> DEFINE steps == h.instr.steps
             left == [h EXCEPT !.instr.steps = Tail(@)]
  <1>1. /\ h \in Carried /\ steps \in Seq(Step) /\ steps # << >> /\ h.instr \in Instruction
        /\ Bounded(h)
    BY DEF Held, Carried, Instruction
  <1>2. /\ Len(steps) \in Nat \ {0} /\ Head(steps) = steps[1] /\ steps[1] \in Step
        /\ Tail(steps) \in Seq(Step) /\ Len(Tail(steps)) = Len(steps) - 1
        /\ \A k \in 1..Len(Tail(steps)) : Tail(steps)[k] = steps[k + 1]
    BY <1>1, EmptySeq, LenProperties, HeadTailProperties
  <1>3. Head(steps).action = "update_leverage" => Allowed(h, Head(steps).leverage)
    BY <1>1, <1>2 DEF Bounded
  <1>4. ASSUME Len(steps) # 1 PROVE left \in Held
    <2>1. /\ left \in Carried /\ left.instr \in Instruction /\ left.instr.steps = Tail(steps)
          /\ left.instr.market = h.instr.market /\ left.limit = h.limit /\ left.max = h.max
      BY <1>1, <1>2 DEF Carried, Instruction
    <2>2. Tail(steps) # << >>
      <3>1. Len(Tail(steps)) # 0
        BY <1>2, <1>4
      <3>2. QED
        BY <3>1, <1>2, EmptySeq
    <2>3. Bounded(left)
      <3>1. \A k \in 1..Len(Tail(steps)) : k + 1 \in 1..Len(steps)
        BY <1>2
      <3>2. ASSUME NEW k \in 1..Len(Tail(steps)), Tail(steps)[k].action = "update_leverage"
            PROVE  Allowed(left, Tail(steps)[k].leverage)
        <4>1. Allowed(h, steps[k + 1].leverage)
          BY <3>1, <3>2, <1>1, <1>2 DEF Bounded
        <4>2. QED
          BY <4>1, <1>2, <2>1 DEF Allowed
      <3>3. QED
        BY <3>2, <2>1 DEF Bounded
    <2>4. QED
      BY <2>1, <2>2, <2>3 DEF Held
  <1>5. QED
    BY <1>1, <1>2, <1>3, <1>4

LEMMA WhatIsSent ==
    ASSUME LevInv, executing # NoInstr, Reaches(Head(executing.instr.steps))
    PROVE  LeverageWithinBound'
  <1> DEFINE step == Head(executing.instr.steps)
  <1>1. executing \in Held /\ (step.action = "update_leverage" => Allowed(executing, step.leverage))
    BY StepsLeft DEF LevInv
  <1>2. SUFFICES ASSUME step.action = "update_leverage"
                 PROVE  LeverageWithinBound'
    BY DEF Reaches, LeverageWithinBound
  <1>3. sent' = {[leverage |-> step.leverage, limit |-> executing.limit,
                  max |-> MaximumOf(step.asset), own |-> step.asset = executing.instr.market]}
    BY <1>2 DEF Reaches
  <1>4. /\ step.leverage <= executing.limit
        /\ step.asset = executing.instr.market /\ MaximumOf(step.asset) > 0 =>
              step.leverage <= MaximumOf(step.asset)
    BY <1>1, <1>2 DEF Allowed, MaximumOf
  <1> DEFINE record == [leverage |-> step.leverage, limit |-> executing.limit,
                        max |-> MaximumOf(step.asset),
                        own |-> step.asset = executing.instr.market]
  <1>5. /\ record.leverage = step.leverage /\ record.limit = executing.limit
        /\ record.max = MaximumOf(step.asset)
        /\ record.own <=> step.asset = executing.instr.market
    OBVIOUS
  <1>6. \A s \in sent' : s = record
    BY <1>3
  <1> HIDE DEF record, step
  <1>7. /\ record.leverage <= record.limit
        /\ record.own /\ record.max > 0 => record.leverage <= record.max
    BY <1>4, <1>5
  <1>8. QED
    BY <1>6, <1>7 DEF LeverageWithinBound

LEMMA LevInvKept ==
    ASSUME LevInv, [Next]_vars
    PROVE  LevInv'
  <1>1. ASSUME NEW i \in Instructions, Validate(i)
        PROVE  LevInv'
    <2>1. checking' \in Held
      BY <1>1, ClampBounds DEF Validate, Now
    <2>2. QED
      BY <1>1, <2>1 DEF Validate, LevInv, LeverageWithinBound
  <1>2. CASE SkipPortfolio \/ PassPortfolio \/ PassUnlooked
    BY <1>2 DEF SkipPortfolio, PassPortfolio, PassUnlooked, Passed, LevInv, LeverageWithinBound
  <1>3. CASE RefuseByPortfolio \/ RefuseByQueue
    BY <1>3 DEF RefuseByPortfolio, RefuseByQueue, Refuse, LevInv, LeverageWithinBound
  <1>4. CASE Enqueue
    <2>1. Append(queue, checking) \in Seq(Held)
      BY <1>4, AppendProperties DEF Enqueue, LevInv
    <2>2. QED
      BY <1>4, <2>1 DEF Enqueue, LevInv, LeverageWithinBound
  <1>5. CASE Take
    <2>1. Head(queue) \in Held /\ Tail(queue) \in Seq(Held)
      BY <1>5, HeadTailProperties DEF Take, LevInv
    <2>2. QED
      BY <1>5, <2>1 DEF Take, LevInv, LeverageWithinBound
  <1>6. CASE ExecuteStep
    <2>1. LeverageWithinBound'
      BY <1>6, WhatIsSent DEF ExecuteStep
    <2>2. executing' # NoInstr => executing' \in Held
      BY <1>6, StepsLeft DEF ExecuteStep, LevInv
    <2>3. QED
      BY <1>6, <2>1, <2>2 DEF ExecuteStep, LevInv
  <1>7. CASE StepFails
    <2>1. LeverageWithinBound'
      <3>1. CASE Reaches(Head(executing.instr.steps))
        BY <1>7, <3>1, WhatIsSent DEF StepFails
      <3>2. CASE UNCHANGED <<open, sent>>
        BY <3>2 DEF LevInv, LeverageWithinBound
      <3>3. QED
        BY <1>7, <3>1, <3>2 DEF StepFails
    <2>2. QED
      BY <1>7, <2>1 DEF StepFails, LevInv
  <1>8. CASE \E m \in Markets : Settle(m)
    BY <1>8 DEF Settle, LevInv, LeverageWithinBound
  <1>9. CASE (\E l \in LimitChoices : UpdateLimits(l)) \/ RefreshAssets
    BY <1>9 DEF UpdateLimits, RefreshAssets, LevInv, LeverageWithinBound
  <1>10. CASE UNCHANGED vars
    BY <1>10 DEF vars, LevInv, LeverageWithinBound
  <1>11. QED
    BY <1>1, <1>2, <1>3, <1>4, <1>5, <1>6, <1>7, <1>8, <1>9, <1>10 DEF Next

LEMMA LevInvInitially == Init => LevInv
  <1>1. << >> \in Seq(Held)
    BY EmptySeq
  <1>2. QED
    BY <1>1 DEF Init, LevInv, LeverageWithinBound

\* The leverage set on the exchange is at most what the limits allowed when the
\* instruction was validated, and the exchange for the instruction's own market,
\* however long it waited in the queue and whatever the limits and the cache have
\* become since (Validate, validateLeverage).
THEOREM RiskLeverageWithinBound == Spec => []LeverageWithinBound
  <1>1. LevInv => LeverageWithinBound
    BY DEF LevInv
  <1>2. LevInv /\ [Next]_vars => LevInv'
    BY LevInvKept
  <1>3. QED
    BY <1>1, <1>2, LevInvInitially, PTL DEF Spec

-----------------------------------------------------------------------------
\* A price in its band, in the two ways of saying it.
LEMMA Band ==
    ASSUME NEW price \in Int, NEW oracle \in Int, NEW percent \in Int,
           ~(Abs(price - oracle) * 100 > percent * oracle)
    PROVE  100 * price \in (oracle * (100 - percent))..(oracle * (100 + percent))
  <1> DEFINE P == percent * oracle
  <1>1. P \in Int /\ oracle * (100 - percent) = 100 * oracle - P
        /\ oracle * (100 + percent) = 100 * oracle + P
    OBVIOUS
  <1> HIDE DEF P
  <1>2. 100 * price - 100 * oracle <= P /\ 100 * oracle - 100 * price <= P
    BY <1>1 DEF Abs, P
  <1>3. QED
    BY <1>1, <1>2

LEMMA ValidWithinLimits ==
    ASSUME LevInv, NEW o \in Order, ValidOrder(o), ~o.isTrigger => o.trigger = 0
    PROVE  WithinLimits(o)
  <1>1. /\ o.price \in Int /\ o.size \in Int /\ o.trigger \in Int
        /\ o.market \in Markets
    BY DEF Order, ValidOrder
  <1>2. cache.oracle[o.market] \in Int /\ limits.maxDev \in Int /\ 2 * limits.maxDev \in Int
    BY <1>1, Amounts
  <1>3. CASE o.isTrigger
    <2>1. o.size * PriceOf(o) <= limits.maxOrder
      BY DEF ValidOrder, Value
    <2>2. PriceOf(o) = IF o.isTrigger /\ o.trigger > 0 THEN o.trigger ELSE o.price
      BY <1>3 DEF PriceOf
    <2>3. cache.oracle[o.market] > 0 =>
             o.trigger > 0 /\ ~Deviates(o.trigger, o.market, 2 * limits.maxDev)
      BY <1>3 DEF ValidOrder
    <2>4. cache.oracle[o.market] > 0 =>
             100 * o.trigger \in (cache.oracle[o.market] * (100 - 2 * limits.maxDev))..
                                 (cache.oracle[o.market] * (100 + 2 * limits.maxDev))
      <3> DEFINE pct == 2 * limits.maxDev
                 oracle == cache.oracle[o.market]
      <3>1. pct \in Int /\ oracle \in Int /\ o.trigger \in Int
        BY <1>1, <1>2
      <3>2. oracle > 0 => ~(Abs(o.trigger - oracle) * 100 > pct * oracle)
        BY <2>3 DEF Deviates
      <3> HIDE DEF pct, oracle
      <3>3. oracle > 0 => 100 * o.trigger \in (oracle * (100 - pct))..(oracle * (100 + pct))
        BY <3>1, <3>2, Band
      <3> QED
        BY <3>3 DEF pct, oracle
    <2>5. /\ (IF o.isTrigger /\ o.trigger > 0 THEN o.trigger ELSE o.price) = PriceOf(o)
          /\ (IF o.isTrigger THEN 2 * limits.maxDev ELSE limits.maxDev) = 2 * limits.maxDev
          /\ cache.oracle[o.market] > 0 => PriceOf(o) = o.trigger
      BY <1>3, <2>2, <2>3
    <2>6. QED
      BY ONLY <1>1, <2>1, <2>4, <2>5, Zenon DEF WithinLimits
  <1>4. CASE ~o.isTrigger
    <2>1. o.size * o.price <= limits.maxOrder
      BY <1>1, <1>4 DEF ValidOrder, Value, PriceOf
    <2>2. cache.oracle[o.market] > 0 => ~Deviates(o.price, o.market, limits.maxDev)
      BY <1>4 DEF ValidOrder
    <2>3. cache.oracle[o.market] > 0 =>
             100 * o.price \in (cache.oracle[o.market] * (100 - limits.maxDev))..
                               (cache.oracle[o.market] * (100 + limits.maxDev))
      <3> DEFINE oracle == cache.oracle[o.market]
      <3>1. limits.maxDev \in Int /\ oracle \in Int /\ o.price \in Int
        BY <1>1, <1>2
      <3>2. oracle > 0 => ~(Abs(o.price - oracle) * 100 > limits.maxDev * oracle)
        BY <2>2 DEF Deviates
      <3> HIDE DEF oracle
      <3>3. oracle > 0 => 100 * o.price \in
               (oracle * (100 - limits.maxDev))..(oracle * (100 + limits.maxDev))
        BY <3>1, <3>2, Band
      <3> QED
        BY <3>3 DEF oracle
    <2>4. /\ (IF o.isTrigger /\ o.trigger > 0 THEN o.trigger ELSE o.price) = o.price
          /\ (IF o.isTrigger THEN 2 * limits.maxDev ELSE limits.maxDev) = limits.maxDev
      BY <1>4
    <2>5. QED
      BY ONLY <1>1, <2>1, <2>3, <2>4, Zenon DEF WithinLimits
  <1>5. QED
    BY <1>3, <1>4

LEMMA ValidatedWithinLimits ==
    ASSUME LevInv, NEW i \in Instructions, Validate(i)
    PROVE  \A step \in Range(checking'.instr.steps) :
              step.action \in {"place_order", "modify_order"} =>
                  \A o \in Range(step.orders) : WithinLimits(o)
  <1>1. Valid(i) /\ checking'.instr = Clamped(i)
    BY DEF Validate
  <1>2. /\ Clamped(i) \in Instruction
        /\ Len(Clamped(i).steps) = Len(i.steps)
        /\ \A k \in 1..Len(i.steps) : /\ Clamped(i).steps[k].action = i.steps[k].action
                                      /\ Clamped(i).steps[k].orders = i.steps[k].orders
    BY <1>1, ClampBounds
  <1>3. DOMAIN Clamped(i).steps = 1..Len(i.steps) /\ DOMAIN i.steps = 1..Len(i.steps)
        /\ \A k \in 1..Len(i.steps) : i.steps[k] \in Step
    <2>1. Clamped(i).steps \in Seq(Step) /\ i.steps \in Seq(Step)
      BY <1>2, ValidatorAssumption DEF ValidatorAssumption, Instruction
    <2>2. QED
      BY <2>1, <1>2, LenProperties
  <1>4. SUFFICES ASSUME NEW k \in 1..Len(i.steps),
                        i.steps[k].action \in {"place_order", "modify_order"},
                        NEW o \in Range(i.steps[k].orders)
                 PROVE  WithinLimits(o)
    BY <1>1, <1>2, <1>3 DEF Range
  <1>5. i.steps[k] \in Range(i.steps)
    BY <1>3 DEF Range
  <1>6. ValidOrder(o)
    <2>1. ValidStep(i.steps[k])
      BY <1>1, <1>5 DEF Valid
    <2>2. QED
      BY <2>1, <1>4 DEF ValidStep
  <1>7. o \in Order
    <2>1. i.steps[k].orders \in Seq(Order)
      BY <1>3 DEF Step
    <2>2. QED
      BY <2>1, LenProperties DEF Range
  <1>8. ~o.isTrigger => o.trigger = 0
    BY <1>5, ValidatorAssumption DEF ValidatorAssumption
  <1>9. QED
    BY <1>6, <1>7, <1>8, ValidWithinLimits

\* No order is accepted that is worth more than the limit or priced outside of
\* its band, placed or modified, trigger or not (validateOrder).
THEOREM RiskOrdersWithinLimits == Spec => OrdersWithinLimits
  <1>1. LevInv /\ [Next]_vars =>
          [checking = NoInstr /\ checking' # NoInstr =>
              \A step \in Range(checking'.instr.steps) :
                  step.action \in {"place_order", "modify_order"} =>
                      \A o \in Range(step.orders) : WithinLimits(o)]_vars
    <2> SUFFICES ASSUME LevInv, Next, checking = NoInstr, checking' # NoInstr
                 PROVE  \A step \in Range(checking'.instr.steps) :
                            step.action \in {"place_order", "modify_order"} =>
                                \A o \in Range(step.orders) : WithinLimits(o)
      BY DEF vars
    <2>1. \E i \in Instructions : Validate(i)
      BY DEF Next, SkipPortfolio, PassPortfolio, PassUnlooked, Passed, RefuseByPortfolio,
         RefuseByQueue, Enqueue, Take, ExecuteStep, StepFails, Settle, UpdateLimits,
         RefreshAssets
    <2>2. QED
      BY <2>1, ValidatedWithinLimits
  <1>2. LevInv /\ [Next]_vars => LevInv'
    BY LevInvKept
  <1>3. QED
    BY <1>1, <1>2, LevInvInitially, PTL DEF Spec, OrdersWithinLimits

-----------------------------------------------------------------------------
(* Sums.  SumFunctionOnSet(f, S) adds f[x] for x \in S in some order; that  *)
(* the recursion behind it defines a function, and that the order does not  *)
(* matter, is shown by looking at a smallest set for which it fails.        *)

\* Among subsets of a finite set there is one with no other inside it.
LEMMA Smallest ==
  ASSUME NEW S, IsFiniteSet(S), NEW T, T \subseteq SUBSET S, T # {}
  PROVE  \E m \in T : \A t \in T : t \subseteq m => t = m
  <1>1. IsWellFoundedOn(StrictSubsetOrdering(S), SUBSET S)
    BY FS_StrictSubsetOrderingWellFounded, FS_FiniteSubsetsOfFinite
  <1>2. PICK m \in T : \A t \in T : ~(<<t, m>> \in StrictSubsetOrdering(S))
    BY <1>1, WFMin
  <1>3. QED
    BY <1>2 DEF StrictSubsetOrdering

Some(s) == CHOOSE x \in s : TRUE

Solves(g, f, S) ==
  g = [s \in SUBSET S |-> IF s = {} THEN 0 ELSE f[Some(s)] + g[s \ {Some(s)}]]

Partial(f, S) == CHOOSE g : Solves(g, f, S)

LEMMA SomeIn ==
  ASSUME NEW s, s # {}
  PROVE  Some(s) \in s
  BY DEF Some

LEMMA SumUnfolds ==
  ASSUME NEW f, NEW S
  PROVE  SumFunctionOnSet(f, S) = Partial(f, S)[S]
  BY DEF SumFunctionOnSet, FoldFunctionOnSet, MapThenFoldSet, Partial, Solves, Some

LEMMA SolutionsAgree ==
  ASSUME NEW f, NEW S, IsFiniteSet(S), NEW U, NEW g, NEW h,
         Solves(g, f, S), Solves(h, f, U), NEW s, s \subseteq S, s \subseteq U
  PROVE  g[s] = h[s]
  <1> DEFINE T == {t \in SUBSET S : t \subseteq U /\ g[t] # h[t]}
  <1>1. SUFFICES ASSUME T # {}
                 PROVE  FALSE
    OBVIOUS
  <1>2. PICK m \in T : \A t \in T : t \subseteq m => t = m
    <2>1. T \subseteq SUBSET S
      OBVIOUS
    <2> HIDE DEF T
    <2>2. QED
      BY <1>1, <2>1, Smallest
  <1>3. CASE m = {}
    BY <1>2, <1>3 DEF Solves
  <1>4. CASE m # {}
    <2> DEFINE x == Some(m)
    <2>1. x \in m
      BY <1>4, SomeIn
    <2>2. g[m \ {x}] = h[m \ {x}]
      BY <1>2, <2>1
    <2>3. g[m] = f[x] + g[m \ {x}] /\ h[m] = f[x] + h[m \ {x}]
      BY <1>2, <1>4 DEF Solves
    <2>4. QED
      BY <1>2, <2>2, <2>3
  <1>5. QED
    BY <1>3, <1>4

LEMMA SolutionExists ==
  ASSUME NEW f, NEW S, IsFiniteSet(S)
  PROVE  Solves(Partial(f, S), f, S)
  <1> DEFINE T == {t \in SUBSET S : ~ \E g : Solves(g, f, t)}
  <1>1. SUFFICES ASSUME T # {}
                 PROVE  FALSE
    <2>1. S \in SUBSET S
      OBVIOUS
    <2>2. QED
      BY <2>1 DEF Partial
  <1>2. PICK m \in T : \A t \in T : t \subseteq m => t = m
    <2>1. T \subseteq SUBSET S
      OBVIOUS
    <2> HIDE DEF T
    <2>2. QED
      BY <1>1, <2>1, Smallest
  <1>3. ASSUME NEW t, t \subseteq m, t # m
        PROVE  Solves(Partial(f, t), f, t)
    <2>1. t \in SUBSET S /\ t \notin T
      BY <1>2, <1>3
    <2>2. \E g : Solves(g, f, t)
      BY <2>1
    <2>3. QED
      BY <2>2 DEF Partial
  <1> DEFINE P(t) == Partial(f, t)[t]
             h == [t \in SUBSET m |-> IF t = {} THEN 0
                                      ELSE f[Some(t)] + P(t \ {Some(t)})]
  <1>4. ASSUME NEW t, t \subseteq m, t # {}
        PROVE  P(t \ {Some(t)}) = h[t \ {Some(t)}]
    <2> DEFINE u == t \ {Some(t)}
    <2>1. u \subseteq m /\ u # m /\ Some(t) \in t
      BY <1>4, SomeIn
    <2>2. Solves(Partial(f, u), f, u)
      BY <2>1, <1>3
    <2>3. CASE u = {}
      BY <2>1, <2>2, <2>3 DEF Solves
    <2>4. CASE u # {}
      <3> DEFINE v == u \ {Some(u)}
      <3>1. Some(u) \in u /\ v \subseteq u /\ v # m /\ v \subseteq m
        BY <2>1, <2>4, SomeIn
      <3>2. Solves(Partial(f, v), f, v)
        BY <3>1, <1>3
      <3>3. IsFiniteSet(u)
        BY <2>1, <1>2, FS_Subset
      <3>4. Partial(f, u)[v] = Partial(f, v)[v]
        <4>1. v \subseteq v /\ v \subseteq u
          BY <3>1
        <4> HIDE DEF u, v
        <4>2. QED
          BY <4>1, <3>2, <3>3, <2>2, SolutionsAgree
      <3>5. Partial(f, u)[u] = f[Some(u)] + Partial(f, u)[v]
        BY <2>2, <2>4 DEF Solves
      <3>6. h[u] = f[Some(u)] + P(v)
        BY <2>1, <2>4
      <3>7. QED
        BY <3>4, <3>5, <3>6
    <2>5. QED
      BY <2>3, <2>4
  <1>5. Solves(h, f, m)
    <2>1. \A t \in SUBSET m :
             h[t] = IF t = {} THEN 0 ELSE f[Some(t)] + h[t \ {Some(t)}]
      BY <1>4
    <2>2. h = [t \in SUBSET m |-> h[t]]
      OBVIOUS
    <2> HIDE DEF h
    <2>3. QED
      BY <2>1, <2>2 DEF Solves
  <1>6. QED
    BY <1>2, <1>5

Total(f, S) == SumFunctionOnSet(f, S)

LEMMA SumByRecursion ==
  ASSUME NEW f, NEW S, IsFiniteSet(S)
  PROVE  /\ S = {} => Total(f, S) = 0
         /\ S # {} => Some(S) \in S /\ Total(f, S) = f[Some(S)] + Total(f, S \ {Some(S)})
  <1>1. Total(f, S) = Partial(f, S)[S] /\ Solves(Partial(f, S), f, S)
    BY SumUnfolds, SolutionExists DEF Total
  <1>2. CASE S = {}
    BY <1>1, <1>2 DEF Solves
  <1>3. CASE S # {}
    <2> DEFINE v == S \ {Some(S)}
    <2>1. Some(S) \in S /\ v \subseteq S /\ IsFiniteSet(v)
      BY <1>3, SomeIn, FS_Subset
    <2>2. Total(f, v) = Partial(f, v)[v] /\ Solves(Partial(f, v), f, v)
      BY <2>1, SumUnfolds, SolutionExists DEF Total
    <2>3. Partial(f, S)[v] = Partial(f, v)[v]
      BY <1>1, <2>1, <2>2, SolutionsAgree
    <2>4. Partial(f, S)[S] = f[Some(S)] + Partial(f, S)[v]
      BY <1>1, <1>3 DEF Solves
    <2>5. QED
      BY <1>1, <1>3, <2>1, <2>2, <2>3, <2>4
  <1>4. QED
    BY <1>2, <1>3

\* Of a sum that is not as claimed, the smallest part that is not.
LEMMA SumInt ==
  ASSUME NEW f, NEW S, IsFiniteSet(S), \A x \in S : f[x] \in Int
  PROVE  Total(f, S) \in Int
  <1> DEFINE T == {t \in SUBSET S : Total(f, t) \notin Int}
  <1>1. SUFFICES ASSUME T # {}
                 PROVE  FALSE
    OBVIOUS
  <1>2. PICK m \in T : \A t \in T : t \subseteq m => t = m
    <2>1. T \subseteq SUBSET S
      OBVIOUS
    <2> HIDE DEF T
    <2>2. QED
      BY <1>1, <2>1, Smallest
  <1>3. IsFiniteSet(m)
    BY <1>2, FS_Subset
  <1>4. m # {}
    <2>1. m = {} => Total(f, m) = 0
      BY <1>3, SumByRecursion
    <2>2. QED
      BY <1>2, <2>1
  <1>5. Some(m) \in m /\ Total(f, m) = f[Some(m)] + Total(f, m \ {Some(m)})
    BY <1>3, <1>4, SumByRecursion
  <1>6. Total(f, m \ {Some(m)}) \in Int
    BY <1>2, <1>5
  <1>7. QED
    BY <1>2, <1>5, <1>6

\* The order does not matter.
LEMMA SumRemove ==
  ASSUME NEW f, NEW S, IsFiniteSet(S), \A x \in S : f[x] \in Int, NEW p \in S
  PROVE  Total(f, S) = f[p] + Total(f, S \ {p})
  <1> DEFINE T == {t \in SUBSET S : \E q \in t : Total(f, t) # f[q] + Total(f, t \ {q})}
  <1>1. SUFFICES ASSUME T # {}
                 PROVE  FALSE
    OBVIOUS
  <1>2. PICK m \in T : \A t \in T : t \subseteq m => t = m
    <2>1. T \subseteq SUBSET S
      OBVIOUS
    <2> HIDE DEF T
    <2>2. QED
      BY <1>1, <2>1, Smallest
  <1>3. PICK q \in m : Total(f, m) # f[q] + Total(f, m \ {q})
    BY <1>2
  <1> DEFINE c == Some(m)
             rest == (m \ {q}) \ {c}
  <1>4. m \subseteq S /\ IsFiniteSet(m)
    BY <1>2, FS_Subset
  <1>5. c \in m /\ Total(f, m) = f[c] + Total(f, m \ {c})
    BY <1>3, <1>4, SumByRecursion
  <1>6. c # q
    BY <1>3, <1>5
  <1>7. Total(f, m \ {c}) = f[q] + Total(f, (m \ {c}) \ {q})
    BY <1>2, <1>3, <1>5, <1>6
  <1>8. Total(f, m \ {q}) = f[c] + Total(f, rest)
    BY <1>2, <1>3, <1>5, <1>6
  <1>9. (m \ {c}) \ {q} = rest
    OBVIOUS
  <1>10. f[c] \in Int /\ f[q] \in Int /\ Total(f, rest) \in Int
    <2>1. rest \subseteq S /\ IsFiniteSet(rest)
      BY <1>4, FS_Subset
    <2>2. QED
      BY <2>1, <1>3, <1>4, <1>5, SumInt
  <1>11. Total(f, m) = f[c] + (f[q] + Total(f, rest)) /\ Total(f, m \ {q}) = f[c] + Total(f, rest)
    BY <1>5, <1>7, <1>8, <1>9
  <1>12. \A a, b, d \in Int : a + (b + d) = b + (a + d)
    OBVIOUS
  <1> HIDE DEF c, rest
  <1>13. Total(f, m) = f[q] + (f[c] + Total(f, rest))
    BY <1>10, <1>11, <1>12
  <1>14. QED
    BY <1>3, <1>11, <1>13

LEMMA SumAdds ==
  ASSUME NEW f, NEW g, NEW h, NEW S, IsFiniteSet(S),
         \A x \in S : f[x] \in Int /\ g[x] \in Int /\ h[x] = f[x] + g[x]
  PROVE  Total(h, S) = Total(f, S) + Total(g, S)
  <1> DEFINE T == {t \in SUBSET S : Total(h, t) # Total(f, t) + Total(g, t)}
  <1>1. SUFFICES ASSUME T # {}
                 PROVE  FALSE
    OBVIOUS
  <1>2. PICK m \in T : \A t \in T : t \subseteq m => t = m
    <2>1. T \subseteq SUBSET S
      OBVIOUS
    <2> HIDE DEF T
    <2>2. QED
      BY <1>1, <2>1, Smallest
  <1>3. IsFiniteSet(m)
    BY <1>2, FS_Subset
  <1>4. m # {}
    <2>1. m = {} => Total(f, m) = 0 /\ Total(g, m) = 0 /\ Total(h, m) = 0
      BY <1>3, SumByRecursion
    <2>2. QED
      BY <1>2, <2>1
  <1> DEFINE c == Some(m)
             v == m \ {c}
  <1>5. /\ c \in m /\ Total(h, m) = h[c] + Total(h, v)
        /\ Total(f, m) = f[c] + Total(f, v) /\ Total(g, m) = g[c] + Total(g, v)
    BY <1>3, <1>4, SumByRecursion
  <1>6. Total(h, v) = Total(f, v) + Total(g, v)
    BY <1>2, <1>5
  <1>7. /\ f[c] \in Int /\ g[c] \in Int /\ h[c] = f[c] + g[c]
        /\ Total(f, v) \in Int /\ Total(g, v) \in Int
    <2>1. IsFiniteSet(v) /\ v \subseteq S
      BY <1>2, <1>3, FS_Subset
    <2>2. QED
      BY <2>1, <1>2, <1>5, SumInt
  <1>8. Total(h, m) # Total(f, m) + Total(g, m)
    BY <1>2
  <1> HIDE DEF c, v
  <1>9. QED
    BY <1>5, <1>6, <1>7, <1>8

LEMMA SumAtMost ==
  ASSUME NEW f, NEW g, NEW S, IsFiniteSet(S),
         \A x \in S : f[x] \in Int /\ g[x] \in Int /\ f[x] <= g[x]
  PROVE  Total(f, S) <= Total(g, S)
  <1> DEFINE T == {t \in SUBSET S : ~(Total(f, t) <= Total(g, t))}
  <1>1. SUFFICES ASSUME T # {}
                 PROVE  FALSE
    OBVIOUS
  <1>2. PICK m \in T : \A t \in T : t \subseteq m => t = m
    <2>1. T \subseteq SUBSET S
      OBVIOUS
    <2> HIDE DEF T
    <2>2. QED
      BY <1>1, <2>1, Smallest
  <1>3. IsFiniteSet(m)
    BY <1>2, FS_Subset
  <1>4. m # {}
    <2>1. m = {} => Total(f, m) = 0 /\ Total(g, m) = 0
      BY <1>3, SumByRecursion
    <2>2. QED
      BY <1>2, <2>1
  <1> DEFINE c == Some(m)
             v == m \ {c}
  <1>5. /\ c \in m
        /\ Total(f, m) = f[c] + Total(f, v) /\ Total(g, m) = g[c] + Total(g, v)
    BY <1>3, <1>4, SumByRecursion
  <1>6. Total(f, v) <= Total(g, v)
    BY <1>2, <1>5
  <1>7. /\ f[c] \in Int /\ g[c] \in Int /\ f[c] <= g[c]
        /\ Total(f, v) \in Int /\ Total(g, v) \in Int
    <2>1. IsFiniteSet(v) /\ v \subseteq S
      BY <1>2, <1>3, FS_Subset
    <2>2. QED
      BY <2>1, <1>2, <1>5, SumInt
  <1>8. ~(Total(f, m) <= Total(g, m))
    BY <1>2
  <1> HIDE DEF c, v
  <1>9. QED
    BY <1>5, <1>6, <1>7, <1>8

LEMMA SumZero ==
  ASSUME NEW f, NEW S, IsFiniteSet(S), \A x \in S : f[x] = 0
  PROVE  Total(f, S) = 0
  <1>1. Total(f, S) = Total(f, S) + Total(f, S)
    BY SumAdds
  <1>2. PICK n \in Int : Total(f, S) = n
    BY SumInt
  <1>3. n = n + n
    BY <1>1, <1>2
  <1>4. n = 0
    BY <1>3
  <1>5. QED
    BY <1>2, <1>4

LEMMA SumNat ==
  ASSUME NEW f, NEW S, IsFiniteSet(S), \A x \in S : f[x] \in Nat
  PROVE  Total(f, S) \in Nat
  <1> DEFINE z == [x \in S |-> 0]
  <1>1. Total(z, S) = 0 /\ Total(f, S) \in Int
    BY SumZero, SumInt
  <1>2. Total(z, S) <= Total(f, S)
    BY SumAtMost
  <1>3. QED
    BY <1>1, <1>2

\* A part of what is not negative adds up to less.
LEMMA SumSubset ==
  ASSUME NEW f, NEW S, IsFiniteSet(S), \A x \in S : f[x] \in Nat, NEW R, R \subseteq S
  PROVE  Total(f, R) <= Total(f, S)
  <1> DEFINE T == {t \in SUBSET S : ~(Total(f, R \cap t) <= Total(f, t))}
  <1>1. SUFFICES ASSUME T # {}
                 PROVE  FALSE
    <2>1. R \cap S = R
      OBVIOUS
    <2>2. QED
      BY <2>1
  <1>2. PICK m \in T : \A t \in T : t \subseteq m => t = m
    <2>1. T \subseteq SUBSET S
      OBVIOUS
    <2> HIDE DEF T
    <2>2. QED
      BY <1>1, <2>1, Smallest
  <1>3. /\ IsFiniteSet(m) /\ IsFiniteSet(R \cap m) /\ m \subseteq S
        /\ Total(f, R \cap m) \in Nat /\ Total(f, m) \in Nat
    <2>1. IsFiniteSet(m) /\ m \subseteq S
      BY <1>2, FS_Subset
    <2>2. IsFiniteSet(R \cap m)
      BY <2>1, FS_Subset
    <2>3. QED
      BY <2>1, <2>2, SumNat
  <1>4. PICK c : c \in m /\ c \notin R
    <2>1. ~(Total(f, R \cap m) <= Total(f, m))
      BY <1>2
    <2>2. R \cap m # m
      BY <2>1, <1>3
    <2>3. QED
      BY <2>2
  <1> DEFINE v == m \ {c}
  <1>5. Total(f, m) = f[c] + Total(f, v) /\ f[c] \in Nat
    <2>1. \A x \in m : f[x] \in Int
      BY <1>3
    <2>2. QED
      BY <2>1, <1>3, <1>4, SumRemove
  <1>6. R \cap m = R \cap v
    BY <1>4
  <1>7. Total(f, R \cap v) <= Total(f, v)
    BY <1>2, <1>3, <1>4
  <1>8. Total(f, v) \in Nat
    <2>1. IsFiniteSet(v) /\ v \subseteq S
      BY <1>3, FS_Subset
    <2>2. QED
      BY <2>1, SumNat
  <1>9. Total(f, R \cap m) <= Total(f, v)
    BY <1>6, <1>7
  <1> HIDE DEF v
  <1>10. Total(f, R \cap m) <= Total(f, m)
    BY <1>3, <1>5, <1>8, <1>9
  <1>11. QED
    BY <1>2, <1>10

\* Equal on S.
LEMMA SumEqual ==
  ASSUME NEW f, NEW g, NEW S, IsFiniteSet(S), \A x \in S : f[x] \in Int /\ g[x] = f[x]
  PROVE  Total(g, S) = Total(f, S)
  <1>1. Total(g, S) <= Total(f, S) /\ Total(f, S) <= Total(g, S)
    BY SumAtMost
  <1>2. Total(g, S) \in Int /\ Total(f, S) \in Int
    BY SumInt
  <1>3. QED
    BY <1>1, <1>2

\* A function that is zero everywhere but at p.
LEMMA SumOfOne ==
  ASSUME NEW f, NEW S, IsFiniteSet(S), NEW p \in S, f[p] \in Int,
         \A x \in S \ {p} : f[x] = 0
  PROVE  Total(f, S) = f[p]
  <1>1. Total(f, S \ {p}) = 0
    <2>1. IsFiniteSet(S \ {p})
      BY FS_RemoveElement
    <2>2. QED
      BY <2>1, SumZero
  <1>2. Total(f, S) = f[p] + Total(f, S \ {p})
    BY SumRemove
  <1>3. QED
    BY <1>1, <1>2

\* The values v[x] for x \in A, added up group by group: in[m] has those of m.
Grouped(v, A, M, group, in, sums) ==
  /\ IsFiniteSet(A) /\ IsFiniteSet(M)
  /\ \A x \in A : v[x] \in Int /\ group[x] \in M
  /\ \A m \in M : \A x \in A : in[m][x] = IF group[x] = m THEN v[x] ELSE 0
  /\ \A m \in M : sums[m] = Total(in[m], A)

LEMMA SumOfGroups ==
  ASSUME NEW v, NEW A, NEW M, NEW group, NEW in, NEW sums, Grouped(v, A, M, group, in, sums)
  PROVE  Total(sums, M) = Total(v, A)
  <1> USE DEF Grouped
  <1> DEFINE by(t) == [m \in M |-> Total(in[m], t)]
             T == {t \in SUBSET A : Total(by(t), M) # Total(v, t)}
  <1>1. SUFFICES ASSUME T # {}
                 PROVE  FALSE
    <2>1. \A m \in M : by(A)[m] \in Int /\ sums[m] = by(A)[m]
      <3>1. ASSUME NEW m \in M
            PROVE  Total(in[m], A) \in Int
        <4>1. \A x \in A : in[m][x] \in Int
          OBVIOUS
        <4>2. QED
          BY <4>1, SumInt
      <3>2. QED
        BY <3>1
    <2>2. Total(sums, M) = Total(by(A), M)
      <3> DEFINE all == by(A)
      <3>1. \A m \in M : all[m] \in Int /\ sums[m] = all[m]
        BY <2>1
      <3> HIDE DEF all
      <3>2. Total(sums, M) = Total(all, M)
        BY <3>1, SumEqual
      <3>3. QED
        BY <3>2 DEF all
    <2>3. A \in SUBSET A
      OBVIOUS
    <2>4. QED
      BY <2>2, <2>3
  <1>2. PICK m \in T : \A t \in T : t \subseteq m => t = m
    <2>1. T \subseteq SUBSET A
      OBVIOUS
    <2> HIDE DEF T
    <2>2. QED
      BY <1>1, <2>1, Smallest
  <1>3. m \subseteq A /\ IsFiniteSet(m)
    BY <1>2, FS_Subset
  <1>4. Total(by(m), M) # Total(v, m)
    BY <1>2
  <1>5. CASE m = {}
    <2>1. \A k \in M : by(m)[k] = 0
      BY <1>3, <1>5, SumByRecursion
    <2>2. Total(by(m), M) = 0
      BY <2>1, SumZero
    <2>3. QED
      BY <2>2, <1>3, <1>4, <1>5, SumByRecursion
  <1>6. CASE m # {}
    <2>1. PICK p \in m : TRUE
      BY <1>6
    <2> DEFINE u == m \ {p}
               one == [k \in M |-> in[k][p]]
    <2>2. IsFiniteSet(u) /\ u \subseteq A /\ p \in A /\ u \subseteq m /\ u # m
      BY <2>1, <1>3, FS_RemoveElement
    <2>3. Total(by(u), M) = Total(v, u)
      BY <2>2, <1>2
    <2>4. Total(v, m) = v[p] + Total(v, u)
      BY <2>1, <1>3, SumRemove
    <2>5. ASSUME NEW k \in M
          PROVE  /\ by(m)[k] = one[k] + by(u)[k]
                 /\ one[k] \in Int /\ by(u)[k] \in Int
                 /\ one[k] = IF k = group[p] THEN v[p] ELSE 0
      <3>1. \A x \in A : in[k][x] \in Int
        OBVIOUS
      <3>2. Total(in[k], m) = in[k][p] + Total(in[k], u)
        BY <3>1, <2>1, <1>3, SumRemove
      <3>3. Total(in[k], u) \in Int
        BY <3>1, <2>2, SumInt
      <3>4. QED
        BY <3>1, <3>2, <3>3, <2>2
    <2>6. Total(by(m), M) = Total(one, M) + Total(by(u), M)
      <3> DEFINE all == by(m)
                 but == by(u)
      <3>1. \A k \in M : one[k] \in Int /\ but[k] \in Int /\ all[k] = one[k] + but[k]
        BY <2>5
      <3> HIDE DEF one, all, but, T, u
      <3>2. Total(all, M) = Total(one, M) + Total(but, M)
        BY <3>1, SumAdds
      <3>3. QED
        BY <3>2 DEF all, but
    <2>7. Total(one, M) = v[p]
      <3>1. /\ group[p] \in M /\ one[group[p]] = v[p] /\ v[p] \in Int
            /\ \A k \in M \ {group[p]} : one[k] = 0
        BY <2>2, <2>5
      <3> HIDE DEF one
      <3>2. QED
        BY <3>1, SumOfOne
    <2>8. QED
      BY <2>3, <2>4, <2>6, <2>7, <1>4
  <1>7. QED
    BY <1>5, <1>6

LEMMA Least ==
  ASSUME NEW T, T \subseteq Nat, T # {}
  PROVE  \E n \in T : \A k \in T : n <= k
  <1>1. PICK n \in T : \A k \in T : ~(<<k, n>> \in OpToRel(<, Nat))
    BY NatLessThanWellFounded, WFMin
  <1>2. \A k \in T : ~(k < n)
    BY <1>1 DEF OpToRel
  <1>3. QED
    BY <1>2

\* Sums over lists.
LEMMA SumAppended ==
  ASSUME NEW n \in Nat, NEW f, \A k \in 1..(n + 1) : f[k] \in Int
  PROVE  Total(f, 1..(n + 1)) = f[n + 1] + Total(f, 1..n)
  <1>1. IsFiniteSet(1..(n + 1)) /\ n + 1 \in 1..(n + 1) /\ (1..(n + 1)) \ {n + 1} = 1..n
    BY FS_Interval
  <1>2. QED
    BY <1>1, SumRemove

LEMMA SumOfTail ==
  ASSUME NEW n \in Nat, NEW f, NEW g, \A k \in 1..(n + 1) : f[k] \in Int,
         \A k \in 1..n : g[k] = f[k + 1]
  PROVE  Total(f, 1..(n + 1)) = f[1] + Total(g, 1..n)
  <1> DEFINE Fails(k) == Total(f, 1..(k + 1)) # f[1] + Total(g, 1..k)
             T == {k \in 0..n : Fails(k)}
  <1>1. SUFFICES ASSUME T # {}
                 PROVE  FALSE
    OBVIOUS
  <1>2. PICK m \in T : \A k \in T : m <= k
    <2>1. T \subseteq Nat
      OBVIOUS
    <2> HIDE DEF T
    <2>2. QED
      BY <1>1, <2>1, Least
  <1>3. m \in 0..n /\ Fails(m)
    BY <1>2
  <1>4. Total(f, 1..(m + 1)) = f[m + 1] + Total(f, 1..m)
    BY <1>3, SumAppended
  <1>5. CASE m = 0
    <2>1. Total(f, 1..m) = 0 /\ Total(g, 1..m) = 0
      <3>1. 1..m = {} /\ IsFiniteSet(1..m)
        BY <1>5, FS_EmptySet
      <3>2. QED
        BY <3>1, SumByRecursion
    <2>2. QED
      BY <2>1, <1>3, <1>4, <1>5
  <1>6. CASE m \in 1..n
    <2>1. m - 1 \in 0..n /\ (m - 1) + 1 = m /\ ~(m <= m - 1)
      BY <1>6
    <2>2. ~Fails(m - 1)
      BY <1>2, <2>1
    <2>3. Total(f, 1..m) = f[1] + Total(g, 1..(m - 1))
      BY <2>1, <2>2
    <2>4. Total(g, 1..m) = g[m] + Total(g, 1..(m - 1))
      <3>1. m - 1 \in Nat /\ \A k \in 1..((m - 1) + 1) : g[k] \in Int
        BY <1>6
      <3>2. QED
        BY <3>1, <2>1, SumAppended
    <2>5. g[m] = f[m + 1] /\ f[m + 1] \in Int /\ f[1] \in Int
      BY <1>6
    <2>6. Total(g, 1..(m - 1)) \in Int
      <3>1. IsFiniteSet(1..(m - 1))
        BY <1>6, FS_Interval
      <3>2. \A k \in 1..(m - 1) : g[k] \in Int
        BY <1>6
      <3>3. QED
        BY <3>1, <3>2, SumInt
    <2>7. QED
      BY <1>3, <1>4, <2>3, <2>4, <2>5, <2>6
  <1>7. QED
    BY <1>3, <1>5, <1>6

LEMMA SumOfMany ==
  ASSUME NEW n \in Nat, NEW f, NEW b \in Int, \A k \in 1..n : f[k] \in Int /\ f[k] <= b
  PROVE  Total(f, 1..n) <= n * b
  <1> DEFINE Fails(k) == ~(Total(f, 1..k) <= k * b)
             T == {k \in 0..n : Fails(k)}
  <1>1. SUFFICES ASSUME T # {}
                 PROVE  FALSE
    OBVIOUS
  <1>2. PICK m \in T : \A k \in T : m <= k
    <2>1. T \subseteq Nat
      OBVIOUS
    <2> HIDE DEF T
    <2>2. QED
      BY <1>1, <2>1, Least
  <1>3. m \in 0..n /\ Fails(m)
    BY <1>2
  <1>4. CASE m = 0
    <2>1. 1..m = {} /\ IsFiniteSet(1..m)
      BY <1>4, FS_EmptySet
    <2>2. Total(f, 1..m) = 0
      BY <2>1, SumByRecursion
    <2>3. m * b = 0
      BY <1>4
    <2>4. QED
      BY <2>2, <2>3, <1>3
  <1>5. CASE m \in 1..n
    <2> DEFINE c == m - 1
    <2>1. c \in 0..n /\ c + 1 = m /\ ~(m <= c) /\ c \in Nat
      BY <1>5
    <2>2. ~Fails(c)
      BY <1>2, <2>1
    <2>3. \A k \in 1..(c + 1) : f[k] \in Int
      BY <1>5
    <2>4. Total(f, 1..m) = f[m] + Total(f, 1..c)
      <3> HIDE DEF c
      <3>1. QED
        BY <2>1, <2>3, SumAppended
    <2>5. Total(f, 1..c) \in Int
      <3>1. \A k \in 1..c : f[k] \in Int
        BY <1>5
      <3> HIDE DEF c
      <3>2. IsFiniteSet(1..c)
        BY <2>1, FS_Interval
      <3>3. QED
        BY <3>1, <3>2, SumInt
    <2>6. m * b = c * b + b /\ c * b \in Int /\ m * b \in Int
      BY <2>1, <1>5
    <2>7. f[m] \in Int /\ f[m] <= b
      BY <1>5
    <2>8. Total(f, 1..c) <= c * b
      BY <2>2
    <2> DEFINE cb == c * b
               mb == m * b
               tc == Total(f, 1..c)
    <2>9. Total(f, 1..m) <= mb
      <3>1. tc <= cb /\ mb = cb + b /\ Total(f, 1..m) = f[m] + tc /\ tc \in Int /\ cb \in Int
        BY <2>4, <2>5, <2>6, <2>8
      <3> HIDE DEF cb, mb, tc
      <3>2. QED
        BY <3>1, <2>7
    <2>10. QED
      BY <2>9, <1>3
  <1>6. QED
    BY <1>3, <1>4, <1>5

\* The largest of a finite set of numbers.
LEMMA MaxOfFinite ==
  ASSUME NEW S, S \subseteq Int, IsFiniteSet(S), S # {}
  PROVE  Max(S) \in S /\ \A y \in S : y <= Max(S)
  <1> DEFINE Tops(t) == {x \in t : \A y \in t : y <= x}
             T == {t \in SUBSET S : t # {} /\ Tops(t) = {}}
  <1>1. SUFFICES ASSUME T # {}
                 PROVE  FALSE
    <2>1. S \notin T => \E x \in S : \A y \in S : y <= x
      OBVIOUS
    <2>2. QED
      BY <2>1 DEF Max
  <1>2. PICK m \in T : \A t \in T : t \subseteq m => t = m
    <2>1. T \subseteq SUBSET S
      OBVIOUS
    <2> HIDE DEF T, Tops
    <2>2. QED
      BY ONLY IsFiniteSet(S), <1>1, <2>1, Smallest
  <1>3. PICK c \in m : TRUE
    BY <1>2
  <1>4. CASE m = {c}
    <2>1. c \in Tops(m)
      BY <1>2, <1>4
    <2>2. QED
      BY <2>1, <1>2
  <1>5. CASE m # {c}
    <2>1. m \ {c} \in SUBSET S /\ m \ {c} # {} /\ m \ {c} \notin T
      BY <1>2, <1>3, <1>5
    <2>2. PICK x \in m \ {c} : \A y \in m \ {c} : y <= x
      BY <2>1
    <2>3. x \in Int /\ c \in Int /\ \A y \in m : y \in Int
      BY <2>2, <1>2, <1>3
    <2>4. x \in Tops(m) \/ c \in Tops(m)
      BY <2>2, <2>3, <1>3
    <2>5. QED
      BY <2>4, <1>2
  <1>6. QED
    BY <1>4, <1>5

-----------------------------------------------------------------------------
(* What is traded.  Orders are worth something once they are validated, and *)
(* what was looked at and is not executed yet is counted with the exposure. *)

\* An order in a market the bot knows, worth something.
Sound(o) == o.market \in Markets /\ Value(o) \in Nat

Priced(i) ==
    \A k \in 1..Len(i.steps) : Trades(i.steps[k]) =>
        \A j \in 1..Len(i.steps[k].orders) : Sound(i.steps[k].orders[j])

\* Nobody has passed without a look at the account.
Looked == limits.maxExposure > 0 /\ ~unchecked

\* What the queue, the worker and the handler hold after the look.
Queued == [k \in 1..Len(queue) |-> Notional(queue[k].instr)]

InQueue == Total(Queued, 1..Len(queue))

AtWorker == IF executing # NoInstr THEN Notional(executing.instr) ELSE 0

AtHandler == IF fetched THEN Notional(checking.instr) ELSE 0

\* What the account has and what may still be added to it.
AtExchange == Exposure + Resting

\* The limit, and what may pass on top of it.
Most == limits.maxExposure + (QueueCap + 1) * LargestNotional + rested

PricedInv ==
    /\ fetched \in BOOLEAN /\ unchecked \in BOOLEAN
    /\ fetched => checking # NoInstr
    /\ Len(queue) <= QueueCap
    /\ positions \in [Markets -> Nat] /\ open \in [Markets -> Nat] /\ rested \in Nat
    /\ checking # NoInstr => Priced(checking.instr)
    /\ \A k \in 1..Len(queue) : Priced(queue[k].instr)
    /\ executing # NoInstr => Priced(executing.instr)

\* An instruction that was looked at.
Small(i) == Notional(i) <= LargestNotional /\ ~Modifies(i)

ExposureInv ==
    Looked =>
        /\ checking # NoInstr => Notional(checking.instr) <= LargestNotional
        /\ fetched => Small(checking.instr)
        /\ \A k \in 1..Len(queue) : Small(queue[k].instr)
        /\ executing # NoInstr => Small(executing.instr)
        /\ AtExchange + InQueue + AtWorker + AtHandler <= Most

LEMMA OrdersOf ==
    ASSUME NEW step \in Step
    PROVE  /\ Len(step.orders) \in Nat /\ DOMAIN step.orders = 1..Len(step.orders)
           /\ IsFiniteSet(1..Len(step.orders))
           /\ \A k \in 1..Len(step.orders) :
                 step.orders[k] \in Order /\ Value(step.orders[k]) \in Int
  <1>1. step.orders \in Seq(Order)
    BY DEF Step
  <1>2. ASSUME NEW o \in Order
        PROVE  Value(o) \in Int
    <2>1. o.size \in Int /\ PriceOf(o) \in Int
      BY DEF Order, PriceOf
    <2>2. QED
      BY <2>1 DEF Value
  <1>3. Len(step.orders) \in Nat /\ DOMAIN step.orders = 1..Len(step.orders)
    BY <1>1, LenProperties
  <1>4. IsFiniteSet(1..Len(step.orders))
    <2> DEFINE n == Len(step.orders)
    <2>1. n \in Nat
      BY <1>3
    <2> HIDE DEF n
    <2>2. IsFiniteSet(1..n)
      BY <2>1, FS_Interval
    <2>3. QED
      BY <2>2 DEF n
  <1>5. \A k \in 1..Len(step.orders) : step.orders[k] \in Order
    BY <1>1, ElementOfSeq
  <1>6. QED
    BY <1>2, <1>3, <1>4, <1>5

LEMMA StepsOf ==
    ASSUME NEW i \in Instruction
    PROVE  /\ i.steps \in Seq(Step) /\ Len(i.steps) \in Nat
           /\ DOMAIN i.steps = 1..Len(i.steps) /\ IsFiniteSet(1..Len(i.steps))
           /\ \A k \in 1..Len(i.steps) : i.steps[k] \in Step
  <1>1. i.steps \in Seq(Step)
    BY DEF Instruction
  <1>2. Len(i.steps) \in Nat /\ DOMAIN i.steps = 1..Len(i.steps)
    BY <1>1, LenProperties
  <1>3. QED
    BY <1>1, <1>2, ElementOfSeq, FS_Interval

\* The values behind Worth, WorthIn and Notional.
Values(step) == [k \in DOMAIN step.orders |-> Value(step.orders[k])]

ValuesIn(step, m) ==
    [k \in DOMAIN step.orders |->
        IF step.orders[k].market = m THEN Value(step.orders[k]) ELSE 0]

Worths(i) ==
    [k \in DOMAIN i.steps |->
        IF i.steps[k].action = "place_order" THEN Worth(i.steps[k]) ELSE 0]

LEMMA WorthIsTotal ==
    ASSUME NEW step \in Step
    PROVE  /\ Worth(step) = Total(Values(step), 1..Len(step.orders))
           /\ \A m : WorthIn(step, m) = Total(ValuesIn(step, m), 1..Len(step.orders))
           /\ Worth(step) \in Int
  <1>1. DOMAIN step.orders = 1..Len(step.orders)
    BY OrdersOf
  <1>2. Worth(step) = Total(Values(step), 1..Len(step.orders))
    BY <1>1 DEF Worth, Values, SumFunction, Total
  <1>3. \A m : WorthIn(step, m) = Total(ValuesIn(step, m), 1..Len(step.orders))
    BY <1>1 DEF WorthIn, ValuesIn, SumFunction, Total
  <1>4. Total(Values(step), 1..Len(step.orders)) \in Int
    <2>1. \A k \in 1..Len(step.orders) : Values(step)[k] \in Int
      BY OrdersOf DEF Values
    <2>2. QED
      BY <2>1, OrdersOf, SumInt
  <1>5. QED
    BY <1>2, <1>3, <1>4

LEMMA NotionalIsTotal ==
    ASSUME NEW i \in Instruction
    PROVE  /\ Notional(i) = Total(Worths(i), 1..Len(i.steps))
           /\ \A k \in 1..Len(i.steps) : Worths(i)[k] \in Int
           /\ Notional(i) \in Int
  <1>1. DOMAIN i.steps = 1..Len(i.steps)
    BY StepsOf
  <1>2. Notional(i) = Total(Worths(i), 1..Len(i.steps))
    BY <1>1 DEF Notional, Worths, SumFunction, Total
  <1>3. \A k \in 1..Len(i.steps) : Worths(i)[k] \in Int
    BY StepsOf, WorthIsTotal DEF Worths
  <1>4. Total(Worths(i), 1..Len(i.steps)) \in Int
    BY <1>3, StepsOf, SumInt
  <1>5. QED
    BY <1>2, <1>3, <1>4

\* What is worth something adds up to something.
LEMMA PricedWorth ==
    ASSUME NEW i \in Instruction, Priced(i)
    PROVE  /\ Notional(i) \in Nat
           /\ \A k \in 1..Len(i.steps) : Trades(i.steps[k]) => Worth(i.steps[k]) \in Nat
  <1>1. ASSUME NEW k \in 1..Len(i.steps), Trades(i.steps[k])
        PROVE  Worth(i.steps[k]) \in Nat
    <2>1. i.steps[k] \in Step
      BY StepsOf
    <2>2. \A j \in 1..Len(i.steps[k].orders) : Values(i.steps[k])[j] \in Nat
      BY <1>1, <2>1, OrdersOf DEF Priced, Sound, Values
    <2>3. QED
      BY <2>1, <2>2, OrdersOf, WorthIsTotal, SumNat
  <1>2. \A k \in 1..Len(i.steps) : Worths(i)[k] \in Nat
    BY <1>1, StepsOf DEF Worths, Trades
  <1>3. Notional(i) \in Nat
    BY <1>2, StepsOf, NotionalIsTotal, SumNat
  <1>4. QED
    BY <1>1, <1>3

\* When a step is taken away, so is its worth.
LEMMA NotionalOfTail ==
    ASSUME NEW i \in Instruction, i.steps # << >>
    PROVE  LET rest == [i EXCEPT !.steps = Tail(@)]
           IN  /\ rest \in Instruction
               /\ Head(i.steps) = i.steps[1] /\ 1 \in 1..Len(i.steps)
               /\ Notional(i) = Notional(rest) + (IF Head(i.steps).action = "place_order"
                                                  THEN Worth(Head(i.steps)) ELSE 0)
               /\ Priced(i) => Priced(rest)
               /\ Modifies(rest) => Modifies(i)
  <1> DEFINE steps == i.steps
             n == Len(steps) - 1
             rest == [i EXCEPT !.steps = Tail(@)]
  <1>1. /\ steps \in Seq(Step) /\ n \in Nat /\ Len(steps) = n + 1 /\ DOMAIN steps = 1..(n + 1)
        /\ Head(steps) = steps[1] /\ Tail(steps) \in Seq(Step) /\ Len(Tail(steps)) = n
        /\ DOMAIN Tail(steps) = 1..n
        /\ \A k \in 1..n : k + 1 \in 1..(n + 1) /\ Tail(steps)[k] = steps[k + 1]
    BY StepsOf, EmptySeq, LenProperties, HeadTailProperties
  <1>2. rest \in Instruction /\ rest.steps = Tail(steps)
    BY <1>1 DEF Instruction
  <1> HIDE DEF rest, n, steps
  <1>3. \A k \in 1..n : Worths(rest)[k] = Worths(i)[k + 1]
    BY <1>1, <1>2 DEF Worths, steps
  <1>4. Total(Worths(i), 1..(n + 1)) = Worths(i)[1] + Total(Worths(rest), 1..n)
    <2>1. \A k \in 1..(n + 1) : Worths(i)[k] \in Int
      BY <1>1, NotionalIsTotal DEF steps
    <2>2. QED
      BY <1>1, <1>3, <2>1, SumOfTail
  <1>5. /\ Notional(i) = Total(Worths(i), 1..(n + 1)) /\ Notional(rest) = Total(Worths(rest), 1..n)
        /\ Notional(rest) \in Int
    BY <1>1, <1>2, NotionalIsTotal DEF steps
  <1>6. /\ 1 \in 1..(n + 1) /\ Worths(i)[1] \in Int
        /\ Worths(i)[1] = IF Head(steps).action = "place_order" THEN Worth(Head(steps)) ELSE 0
    <2>1. 1 \in 1..(n + 1)
      BY <1>1
    <2>2. QED
      BY <2>1, <1>1, NotionalIsTotal DEF Worths, steps
  <1>7. Priced(i) => Priced(rest)
    BY <1>1, <1>2 DEF Priced, steps
  <1>8. Modifies(rest) => Modifies(i)
    BY <1>1, <1>2 DEF Modifies, Range, steps
  <1>9. Notional(i) = Notional(rest) + Worths(i)[1]
    BY <1>4, <1>5, <1>6
  <1>10. Notional(i) = Notional(rest) + (IF Head(steps).action = "place_order"
                                         THEN Worth(Head(steps)) ELSE 0)
    BY <1>6, <1>9
  <1>11. Head(steps) = steps[1] /\ 1 \in 1..Len(steps)
    BY <1>1, <1>6
  <1>12. QED
    BY <1>2, <1>7, <1>8, <1>10, <1>11 DEF rest, steps

LEMMA ProductNat ==
    ASSUME NEW a \in Nat, NEW b \in Nat
    PROVE  a * b \in Nat
  OBVIOUS

\* LargestNotional is what it says.
LEMMA LargestIsLargest ==
    /\ LargestNotional \in Nat
    /\ \A i \in Instructions :
          (\A step \in Range(i.steps) : step.action = "place_order" =>
              \A o \in Range(step.orders) : Value(o) <= limits.maxOrder)
          => Notional(i) <= LargestNotional
  <1> DEFINE Passes(i) == \A step \in Range(i.steps) : step.action = "place_order" =>
                             \A o \in Range(step.orders) : Value(o) <= limits.maxOrder
             J == {j \in Instructions : Passes(j)}
             N == {Notional(i) : i \in J}
             f == [i \in J |-> Notional(i)]
  <1>1. IsFiniteSet(J)
    <2>1. IsFiniteSet(Instructions) /\ J \subseteq Instructions
      BY ValidatorAssumption DEF ValidatorAssumption
    <2> HIDE DEF J
    <2>2. QED
      BY <2>1, FS_Subset
  <1>2. f \in Surjection(J, N)
    BY DEF Surjection
  <1>3. IsFiniteSet(N)
    <2> HIDE DEF J, N, f
    <2>1. QED
      BY <1>1, <1>2, FS_Surjection
  <1>4. N \subseteq Int
    BY NotionalIsTotal, ValidatorAssumption DEF ValidatorAssumption
  <1>5. IsFiniteSet({0} \cup N) /\ {0} \cup N \subseteq Int /\ {0} \cup N # {}
    <2>1. IsFiniteSet(N \cup {0})
      BY <1>3, FS_AddElement
    <2>2. N \cup {0} = {0} \cup N
      OBVIOUS
    <2>3. QED
      BY <2>1, <2>2, <1>4
  <1>6. LargestNotional = Max({0} \cup N)
    BY DEF LargestNotional
  <1>7. LargestNotional \in {0} \cup N /\ \A y \in {0} \cup N : y <= LargestNotional
    <2> HIDE DEF N
    <2>1. QED
      BY <1>5, <1>6, MaxOfFinite
  <1>8. LargestNotional \in Nat
    <2>1. LargestNotional \in Int /\ 0 <= LargestNotional
      BY <1>5, <1>7
    <2>2. QED
      BY <2>1
  <1>9. QED
    BY <1>7, <1>8

LEMMA ValidIsPriced ==
    ASSUME LevInv, NEW i \in Instructions, Valid(i)
    PROVE  Priced(Clamped(i)) /\ Notional(Clamped(i)) <= LargestNotional
  <1> DEFINE c == Clamped(i)
  <1>1. /\ c \in Instruction /\ i \in Instruction /\ Len(c.steps) = Len(i.steps)
        /\ \A k \in 1..Len(i.steps) : /\ c.steps[k].action = i.steps[k].action
                                      /\ c.steps[k].orders = i.steps[k].orders
    BY ClampBounds, ValidatorAssumption DEF ValidatorAssumption
  <1>2. /\ DOMAIN i.steps = 1..Len(i.steps) /\ DOMAIN c.steps = 1..Len(i.steps)
        /\ \A k \in 1..Len(i.steps) : i.steps[k] \in Step
    BY <1>1, StepsOf
  <1> HIDE DEF c
  <1>3. ASSUME NEW k \in 1..Len(i.steps), Trades(i.steps[k]), NEW o \in Range(i.steps[k].orders)
        PROVE  ValidOrder(o) /\ o \in Order
    <2>1. ValidStep(i.steps[k])
      BY <1>2 DEF Valid, Range
    <2>2. ValidOrder(o)
      BY <2>1, <1>3 DEF ValidStep, Trades
    <2>3. i.steps[k].orders \in Seq(Order)
      BY <1>2 DEF Step
    <2>4. QED
      BY <2>2, <2>3, LenProperties DEF Range
  <1>4. ASSUME NEW o \in Order, ValidOrder(o)
        PROVE  Sound(o)
    <2>1. o.market \in Markets /\ o.size \in Nat /\ PriceOf(o) \in Nat
      BY <1>4 DEF ValidOrder, Order, PriceOf
    <2>2. QED
      BY <2>1, ProductNat DEF Sound, Value
  <1>5. Priced(c)
    <2> SUFFICES ASSUME NEW k \in 1..Len(i.steps), Trades(i.steps[k]),
                        NEW j \in 1..Len(i.steps[k].orders)
                 PROVE  Sound(i.steps[k].orders[j])
      BY <1>1 DEF Priced, Trades
    <2>1. i.steps[k].orders[j] \in Range(i.steps[k].orders)
      BY <1>2, OrdersOf DEF Range
    <2>2. QED
      BY <2>1, <1>3, <1>4
  <1>6. Worths(c) = Worths(i)
    BY <1>1, <1>2 DEF Worths, Worth
  <1>7. Notional(c) = Notional(i)
    BY <1>1, <1>6, NotionalIsTotal
  <1>8. Notional(i) <= LargestNotional
    <2>1. ASSUME NEW step \in Range(i.steps), step.action = "place_order",
                 NEW o \in Range(step.orders)
          PROVE  Value(o) <= limits.maxOrder
      <3>1. PICK k \in 1..Len(i.steps) : step = i.steps[k]
        BY <1>2 DEF Range
      <3>2. ValidOrder(o)
        BY <3>1, <2>1, <1>3 DEF Trades
      <3>3. QED
        BY <3>2 DEF ValidOrder
    <2>2. QED
      BY <2>1, LargestIsLargest
  <1>9. QED
    BY <1>5, <1>7, <1>8 DEF c

\* What is covered is some of the markets.
LEMMA CoveredFinite == IsFiniteSet(Markets) /\ IsFiniteSet(Covered) /\ Covered \subseteq Markets
  BY FS_Subset, ValidatorAssumption DEF ValidatorAssumption

\* When the orders of a step reach the exchange, no more than its worth is added
\* to what rests, whatever the markets of the orders.
LEMMA TradesAdd ==
    ASSUME NEW step \in Step, open \in [Markets -> Nat],
           \A j \in 1..Len(step.orders) : Sound(step.orders[j]),
           open' = [m \in Markets |-> open[m] + WorthIn(step, m)]
    PROVE  /\ open' \in [Markets -> Nat]
           /\ Resting \in Nat /\ Resting' \in Nat /\ Resting' <= Resting + Worth(step)
  <1> DEFINE A == 1..Len(step.orders)
             v == Values(step)
             group == [k \in A |-> step.orders[k].market]
             in == [m \in Markets |-> ValuesIn(step, m)]
             w == [m \in Markets |-> WorthIn(step, m)]
  <1>1. DOMAIN step.orders = A /\ IsFiniteSet(A) /\ IsFiniteSet(Markets)
    BY OrdersOf, CoveredFinite
  <1>2. \A k \in A : v[k] \in Nat /\ group[k] \in Markets
    BY <1>1 DEF Values, Sound
  <1>3. \A m \in Markets : \A k \in A : in[m][k] = IF group[k] = m THEN v[k] ELSE 0
    BY <1>1 DEF Values, ValuesIn
  <1>4. \A m \in Markets : w[m] = Total(in[m], A)
    BY WorthIsTotal
  <1>5. Worth(step) = Total(v, A)
    BY WorthIsTotal
  <1> HIDE DEF A, v, group, in
  <1>6. \A m \in Markets : w[m] \in Nat
    <2> HIDE DEF w
    <2> SUFFICES ASSUME NEW m \in Markets
                 PROVE  w[m] \in Nat
      OBVIOUS
    <2>1. \A k \in A : in[m][k] \in Nat
      BY <1>2, <1>3
    <2>2. QED
      BY <2>1, <1>1, <1>4, SumNat
  <1>7. Total(w, Markets) = Worth(step)
    <2> HIDE DEF w
    <2>1. \A k \in A : v[k] \in Int /\ group[k] \in Markets
      BY <1>2
    <2>2. Total(w, Markets) = Total(v, A)
      <3>1. Grouped(v, A, Markets, group, in, w)
        BY <2>1, <1>1, <1>3, <1>4 DEF Grouped
      <3>2. QED
        BY <3>1, SumOfGroups
    <2>3. QED
      BY <2>2, <1>5
  <1>8. /\ Resting = Total(open, Covered) /\ Resting' = Total(open', Covered)
        /\ IsFiniteSet(Covered) /\ Covered \subseteq Markets
    BY CoveredFinite DEF Resting, Total
  <1>9. \A m \in Markets : open[m] \in Nat /\ w[m] \in Nat /\ open'[m] = open[m] + w[m]
    BY <1>6
  <1>10. open' \in [Markets -> Nat]
    BY <1>9
  <1> HIDE DEF w
  <1>11. Total(open', Covered) = Total(open, Covered) + Total(w, Covered)
    <2> DEFINE after == open'
    <2>1. \A m \in Covered : open[m] \in Int /\ w[m] \in Int /\ after[m] = open[m] + w[m]
      BY <1>8, <1>9
    <2> HIDE DEF after
    <2>2. Total(after, Covered) = Total(open, Covered) + Total(w, Covered)
      BY <2>1, <1>8, SumAdds
    <2>3. QED
      BY <2>2 DEF after
  <1>12. Total(w, Covered) <= Worth(step)
    BY <1>1, <1>6, <1>7, <1>8, SumSubset
  <1>13. /\ Total(w, Covered) \in Nat /\ Worth(step) \in Nat
         /\ Total(open, Covered) \in Nat /\ Total(open', Covered) \in Nat
    <2>1. Total(w, Markets) \in Nat
      BY <1>1, <1>6, SumNat
    <2>2. QED
      BY <2>1, <1>7, <1>8, <1>9, <1>10, SumNat
  <1>14. QED
    BY <1>8, <1>10, <1>11, <1>12, <1>13

\* What fills or goes was open: no more is at the exchange than before.
LEMMA Settled ==
    ASSUME NEW m \in Markets, Settle(m),
           positions \in [Markets -> Nat], open \in [Markets -> Nat]
    PROVE  /\ positions' \in [Markets -> Nat] /\ open' \in [Markets -> Nat]
           /\ AtExchange' \in Int /\ AtExchange' <= AtExchange
  <1> DEFINE all == [x \in Markets |-> positions[x] + open[x]]
             after == [x \in Markets |-> positions'[x] + open'[x]]
  <1>1. PICK worth \in FillSizes \ {0} :
           /\ worth <= open[m] /\ open' = [open EXCEPT ![m] = @ - worth]
           /\ \E p \in {positions[m], positions[m] + worth, Abs(positions[m] - worth)} :
                 positions' = [positions EXCEPT ![m] = p]
    BY DEF Settle
  <1>2. PICK p \in {positions[m], positions[m] + worth, Abs(positions[m] - worth)} :
           positions' = [positions EXCEPT ![m] = p]
    BY <1>1
  <1>3. /\ worth \in Nat /\ open[m] \in Nat /\ positions[m] \in Nat
        /\ open[m] - worth \in Nat /\ p \in Nat /\ p <= positions[m] + worth
    <2>1. worth \in Nat /\ open[m] \in Nat /\ positions[m] \in Nat
      BY ValidatorAssumption DEF ValidatorAssumption
    <2>2. QED
      BY <2>1, <1>1, <1>2 DEF Abs
  <1>4. positions' \in [Markets -> Nat] /\ open' \in [Markets -> Nat]
    BY <1>1, <1>2, <1>3
  <1>5. \A x \in Markets : positions'[x] + open'[x] <= positions[x] + open[x]
    <2> SUFFICES ASSUME NEW x \in Markets
                 PROVE  positions'[x] + open'[x] <= positions[x] + open[x]
      OBVIOUS
    <2>1. CASE x = m
      BY <2>1, <1>1, <1>2, <1>3
    <2>2. CASE x # m
      BY <2>2, <1>1, <1>2
    <2>3. QED
      BY <2>1, <2>2
  <1>6. \A x \in Covered : /\ positions[x] \in Int /\ open[x] \in Int /\ all[x] = positions[x] + open[x]
                           /\ positions'[x] \in Int /\ open'[x] \in Int
                           /\ after[x] = positions'[x] + open'[x] /\ after[x] <= all[x]
                           /\ after[x] \in Int /\ all[x] \in Int
    BY <1>4, <1>5, CoveredFinite
  <1> HIDE DEF all, after
  <1>7. Total(all, Covered) = AtExchange
    BY <1>6, CoveredFinite, SumAdds DEF AtExchange, Exposure, Resting, Total
  <1>8. Total(after, Covered) = AtExchange'
    <2>1. Total(after, Covered) = Total(positions', Covered) + Total(open', Covered)
      BY <1>6, CoveredFinite, SumAdds
    <2>2. QED
      BY <2>1 DEF AtExchange, Exposure, Resting, Total
  <1>9. Total(after, Covered) <= Total(all, Covered) /\ Total(after, Covered) \in Int
    BY <1>6, CoveredFinite, SumAtMost, SumInt
  <1>10. QED
    BY <1>4, <1>7, <1>8, <1>9

-----------------------------------------------------------------------------
\* What is checked, queued and executed, and its first step.
LEMMA HeldHere ==
    ASSUME LevInv
    PROVE  /\ checking # NoInstr => checking.instr \in Instruction
           /\ Len(queue) \in Nat /\ DOMAIN queue = 1..Len(queue)
           /\ \A k \in 1..Len(queue) : queue[k].instr \in Instruction
           /\ executing # NoInstr => /\ executing.instr \in Instruction
                                     /\ executing.instr.steps # << >>
  <1>1. queue \in Seq(Held)
    BY DEF LevInv
  <1>2. \A k \in 1..Len(queue) : queue[k] \in Held
    BY <1>1, ElementOfSeq
  <1>3. Len(queue) \in Nat /\ DOMAIN queue = 1..Len(queue)
    BY <1>1, LenProperties
  <1>4. QED
    BY <1>2, <1>3 DEF LevInv, Held, Carried

\* The queue with one more, and with one less.
LEMMA Enqueued ==
    ASSUME LevInv, checking # NoInstr, queue' = Append(queue, checking)
    PROVE  /\ Len(queue') = Len(queue) + 1
           /\ queue'[Len(queue) + 1] = checking
           /\ \A k \in 1..Len(queue) : queue'[k] = queue[k]
  <1>1. queue \in Seq(Held) /\ checking \in Held
    BY DEF LevInv
  <1>2. QED
    BY <1>1, AppendProperties

LEMMA Taken ==
    ASSUME LevInv, queue # << >>, queue' = Tail(queue)
    PROVE  /\ Len(queue) \in Nat \ {0} /\ Len(queue') = Len(queue) - 1
           /\ Head(queue) = queue[1] /\ 1 \in 1..Len(queue)
           /\ \A k \in 1..(Len(queue) - 1) : k + 1 \in 1..Len(queue) /\ queue'[k] = queue[k + 1]
  <1>1. queue \in Seq(Held)
    BY DEF LevInv
  <1>2. Len(queue) \in Nat \ {0}
    BY <1>1, EmptySeq, LenProperties
  <1>3. /\ Len(queue') = Len(queue) - 1 /\ Head(queue) = queue[1]
        /\ \A k \in 1..Len(Tail(queue)) : Tail(queue)[k] = queue[k + 1]
    BY <1>1, HeadTailProperties
  <1>4. 1 \in 1..Len(queue) /\ \A k \in 1..(Len(queue) - 1) : k + 1 \in 1..Len(queue)
    BY <1>2
  <1>5. QED
    BY <1>2, <1>3, <1>4

\* A step of the worker, seen from the instruction: what is added to what rests is
\* what the rest of the instruction is worth less, unless orders are modified.
LEMMA Executed ==
    ASSUME LevInv, PricedInv, executing # NoInstr,
           Reaches(Head(executing.instr.steps)) \/ UNCHANGED open
    PROVE  LET i == executing.instr
               step == Head(i.steps)
               rest == [i EXCEPT !.steps = Tail(@)]
               worth == IF step.action = "place_order" THEN Worth(step) ELSE 0
           IN  /\ [executing EXCEPT !.instr.steps = Tail(@)].instr = rest
               /\ Priced(rest) /\ Notional(rest) \in Nat /\ worth \in Nat
               /\ Notional(i) = Notional(rest) + worth
               /\ Modifies(rest) => Modifies(i)
               /\ open' \in [Markets -> Nat] /\ Resting \in Nat /\ Resting' \in Nat
               /\ Resting' <= Resting + worth \/ Modifies(i)
  <1> DEFINE i == executing.instr
             step == Head(i.steps)
             rest == [i EXCEPT !.steps = Tail(@)]
             worth == IF step.action = "place_order" THEN Worth(step) ELSE 0
  <1>1. executing \in Held
    BY DEF LevInv
  <1>2. i \in Instruction /\ i.steps # << >> /\ Priced(i)
    BY <1>1, HeldHere DEF PricedInv
  <1>3. /\ rest \in Instruction /\ Priced(rest) /\ step = i.steps[1] /\ 1 \in 1..Len(i.steps)
        /\ Notional(i) = Notional(rest) + worth /\ (Modifies(rest) => Modifies(i))
    BY <1>2, NotionalOfTail
  <1>4. /\ step \in Step /\ (Trades(step) => Worth(step) \in Nat)
        /\ Trades(step) => \A j \in 1..Len(step.orders) : Sound(step.orders[j])
        /\ step.action = "modify_order" => Modifies(i)
    <2>1. step \in Step /\ (Trades(step) => Worth(step) \in Nat)
      BY <1>2, <1>3, StepsOf, PricedWorth
    <2>2. Trades(step) => \A j \in 1..Len(step.orders) : Sound(step.orders[j])
      BY <1>2, <1>3 DEF Priced
    <2>3. step \in Range(i.steps)
      BY <1>2, <1>3, StepsOf DEF Range
    <2>4. QED
      BY <2>1, <2>2, <2>3 DEF Modifies
  <1>5. [executing EXCEPT !.instr.steps = Tail(@)].instr = rest
    BY <1>1 DEF Held, Carried
  <1>6. Notional(rest) \in Nat /\ worth \in Nat
    BY <1>3, <1>4, PricedWorth DEF Trades
  <1>7. Resting \in Nat /\ open \in [Markets -> Nat]
    BY CoveredFinite, SumNat DEF PricedInv, Resting, Total
  <1> HIDE DEF step, rest, i
  <1>8. CASE UNCHANGED open
    <2>1. Resting' = Resting /\ open' \in [Markets -> Nat]
      BY <1>7, <1>8 DEF Resting
    <2>2. Resting' <= Resting + worth
      <3> HIDE DEF worth
      <3>1. QED
        BY <2>1, <1>6, <1>7
    <2>3. QED
      BY <2>1, <2>2, <1>3, <1>5, <1>6, <1>7 DEF i, step, rest
  <1>9. CASE /\ Trades(step)
             /\ open' = [m \in Markets |-> open[m] + WorthIn(step, m)]
    <2>1. /\ open' \in [Markets -> Nat] /\ Resting' \in Nat
          /\ Resting' <= Resting + Worth(step)
      BY <1>4, <1>7, <1>9, TradesAdd
    <2>2. Resting' <= Resting + worth \/ Modifies(i)
      BY <2>1, <1>4, <1>9 DEF Trades
    <2>3. QED
      BY <2>1, <2>2, <1>3, <1>5, <1>6, <1>7 DEF i, step, rest
  <1>10. Reaches(step) \/ UNCHANGED open
    BY DEF step, i
  <1>11. QED
    BY <1>8, <1>9, <1>10 DEF Reaches

LEMMA PricedInvKept ==
    ASSUME LevInv, PricedInv, [Next]_vars
    PROVE  PricedInv'
  <1>1. ASSUME NEW i \in Instructions, Validate(i)
        PROVE  PricedInv'
    <2>1. Priced(checking'.instr)
      BY <1>1, ValidIsPriced DEF Validate
    <2>2. QED
      BY <1>1, <2>1 DEF Validate, PricedInv
  <1>2. CASE SkipPortfolio \/ PassPortfolio \/ PassUnlooked
    <2>1. unchecked' \in BOOLEAN /\ rested' \in Nat
      <3>1. Resting \in Nat
        BY CoveredFinite, SumNat DEF PricedInv, Resting, Total
      <3>2. unchecked' \in BOOLEAN
        BY <1>2 DEF SkipPortfolio, PassPortfolio, PassUnlooked, PricedInv
      <3>3. rested' \in {rested, 0, Resting}
        BY <1>2 DEF SkipPortfolio, PassPortfolio, PassUnlooked
      <3>4. QED
        BY <3>1, <3>2, <3>3 DEF PricedInv
    <2>2. QED
      BY <1>2, <2>1 DEF SkipPortfolio, PassPortfolio, PassUnlooked, Passed, PricedInv
  <1>3. CASE RefuseByPortfolio \/ RefuseByQueue
    BY <1>3 DEF RefuseByPortfolio, RefuseByQueue, Refuse, PricedInv
  <1>4. CASE Enqueue
    <2>1. /\ checking # NoInstr /\ queue' = Append(queue, checking) /\ Len(queue) < QueueCap
          /\ checking' = NoInstr /\ fetched' = FALSE
          /\ UNCHANGED <<limits, cache, executing, positions, open, sent, rested,
                         unchecked>>
      BY <1>4 DEF Enqueue, Room
    <2>2. /\ Len(queue) \in Nat /\ Len(queue') = Len(queue) + 1
          /\ queue'[Len(queue) + 1] = checking
          /\ \A k \in 1..Len(queue) : queue'[k] = queue[k]
      BY <2>1, HeldHere, Enqueued
    <2>3. Len(queue') <= QueueCap
      BY <2>1, <2>2, ValidatorAssumption DEF ValidatorAssumption
    <2>4. ASSUME NEW k \in 1..Len(queue')
          PROVE  Priced(queue'[k].instr)
      <3>1. k \in 1..Len(queue) \/ k = Len(queue) + 1
        BY <2>2
      <3>2. QED
        BY <3>1, <2>1, <2>2 DEF PricedInv
    <2>5. QED
      BY <2>1, <2>3, <2>4 DEF PricedInv
  <1>5. CASE Take
    <2>1. /\ queue # << >> /\ executing' = Head(queue) /\ queue' = Tail(queue)
          /\ UNCHANGED <<limits, cache, checking, fetched, positions, open, sent, rested,
                         unchecked>>
      BY <1>5 DEF Take
    <2>2. /\ Len(queue) \in Nat \ {0} /\ Len(queue') = Len(queue) - 1
          /\ Head(queue) = queue[1] /\ 1 \in 1..Len(queue)
          /\ \A k \in 1..(Len(queue) - 1) : k + 1 \in 1..Len(queue) /\ queue'[k] = queue[k + 1]
      BY <2>1, Taken
    <2>3. Len(queue') <= QueueCap
      BY <2>2, ValidatorAssumption DEF ValidatorAssumption, PricedInv
    <2>4. QED
      BY <2>1, <2>2, <2>3 DEF PricedInv
  <1>6. CASE ExecuteStep
    BY <1>6, Executed DEF ExecuteStep, PricedInv
  <1>7. CASE StepFails
    BY <1>7, Executed DEF StepFails, PricedInv
  <1>7a. ASSUME NEW m \in Markets, Settle(m)
         PROVE  PricedInv'
    <2>1. positions' \in [Markets -> Nat] /\ open' \in [Markets -> Nat]
      BY <1>7a, Settled DEF PricedInv
    <2>2. QED
      BY <1>7a, <2>1 DEF Settle, PricedInv
  <1>8. ASSUME NEW l \in LimitChoices, UpdateLimits(l)
        PROVE  PricedInv'
    BY <1>8 DEF UpdateLimits, PricedInv
  <1>8a. CASE RefreshAssets
    BY <1>8a DEF RefreshAssets, PricedInv
  <1>9. CASE UNCHANGED vars
    BY <1>9 DEF vars, PricedInv
  <1>10. QED
    BY <1>1, <1>2, <1>3, <1>4, <1>5, <1>6, <1>7, <1>7a, <1>8, <1>8a, <1>9 DEF Next

LEMMA PricedInitially == Init => PricedInv
  <1> SUFFICES ASSUME Init
               PROVE  PricedInv
    OBVIOUS
  <1>1. queue = << >> /\ Len(queue) = 0 /\ QueueCap \in Nat
    BY EmptySeq, ValidatorAssumption DEF ValidatorAssumption, Init
  <1>2. Len(queue) <= QueueCap /\ 1..Len(queue) = {}
    BY <1>1
  <1>3. /\ fetched = FALSE /\ unchecked = FALSE /\ checking = NoInstr /\ executing = NoInstr
        /\ positions \in [Markets -> Nat] /\ open \in [Markets -> Nat] /\ rested = 0
    BY DEF Init
  <1>4. QED
    BY <1>2, <1>3 DEF PricedInv

\* The queue never holds more than it can, a position is never negative, and an
\* instruction being executed has steps left (client.go:461, executor.go:25).
THEOREM RiskTypeCorrect == Spec => []TypeOK
  <1>1. LevInv /\ PricedInv => TypeOK
    BY DEF LevInv, PricedInv, TypeOK, Held
  <1>2. LevInv /\ PricedInv /\ [Next]_vars => LevInv' /\ PricedInv'
    BY LevInvKept, PricedInvKept
  <1>3. QED
    BY <1>1, <1>2, LevInvInitially, PricedInitially, PTL DEF Spec

-----------------------------------------------------------------------------
\* Nothing that is held is worth less than nothing.
LEMMA AheadNat ==
    ASSUME LevInv, PricedInv
    PROVE  /\ Exposure \in Nat /\ Resting \in Nat /\ AtExchange \in Nat
           /\ InQueue \in Nat /\ AtWorker \in Nat /\ AtHandler \in Nat
           /\ \A k \in 1..Len(queue) : Queued[k] = Notional(queue[k].instr) /\ Queued[k] \in Nat
           /\ checking # NoInstr => Notional(checking.instr) \in Nat
  <1>1. Exposure \in Nat /\ Resting \in Nat /\ AtExchange \in Nat
    <2>1. \A m \in Covered : positions[m] \in Nat /\ open[m] \in Nat
      BY CoveredFinite DEF PricedInv
    <2>2. Exposure \in Nat /\ Resting \in Nat
      BY <2>1, CoveredFinite, SumNat DEF Exposure, Resting, Total
    <2>3. QED
      BY <2>2 DEF AtExchange
  <1>2. \A k \in 1..Len(queue) : Queued[k] = Notional(queue[k].instr) /\ Queued[k] \in Nat
    BY HeldHere, PricedWorth DEF PricedInv, Queued
  <1>3. InQueue \in Nat
    <2> DEFINE n == Len(queue)
    <2>1. n \in Nat /\ \A k \in 1..n : Queued[k] \in Nat
      BY <1>2, HeldHere
    <2> HIDE DEF n
    <2>2. IsFiniteSet(1..n)
      BY <2>1, FS_Interval
    <2>3. Total(Queued, 1..n) \in Nat
      BY <2>1, <2>2, SumNat
    <2>4. QED
      BY <2>3 DEF InQueue, n
  <1>4. checking # NoInstr => Notional(checking.instr) \in Nat
    BY HeldHere, PricedWorth DEF PricedInv
  <1>5. AtWorker \in Nat
    BY HeldHere, PricedWorth DEF PricedInv, AtWorker
  <1>6. AtHandler \in Nat
    BY <1>4 DEF PricedInv, AtHandler
  <1>7. QED
    BY <1>1, <1>2, <1>3, <1>4, <1>5, <1>6

LEMMA ProductGrows ==
    ASSUME NEW a \in Nat, NEW b \in Nat, NEW c \in Nat, a <= b
    PROVE  a * c <= b * c
  <1>1. PICK d \in Nat : b = a + d
    <2>1. b - a \in Nat /\ b = a + (b - a)
      OBVIOUS
    <2>2. QED
      BY <2>1
  <1>2. b * c = a * c + d * c
    BY <1>1
  <1>3. a * c \in Nat /\ d * c \in Nat
    BY ProductNat
  <1>4. QED
    BY <1>2, <1>3

\* What can be waiting behind a look at the account.
LEMMA BehindTheLook ==
    ASSUME LevInv, PricedInv, \A k \in 1..Len(queue) : Small(queue[k].instr),
           executing # NoInstr => Small(executing.instr)
    PROVE  InQueue + AtWorker <= (QueueCap + 1) * LargestNotional
  <1> DEFINE n == Len(queue)
             L == LargestNotional
  <1>1. L \in Nat /\ n \in Nat /\ n <= QueueCap /\ QueueCap \in Nat
    BY LargestIsLargest, HeldHere, ValidatorAssumption DEF ValidatorAssumption, PricedInv
  <1>2. \A k \in 1..n : Queued[k] \in Int /\ Queued[k] <= L
    BY AheadNat DEF Small
  <1>3. AtWorker \in Nat /\ AtWorker <= L /\ InQueue \in Nat
    <2>1. AtWorker <= L
      BY <1>1 DEF AtWorker, Small
    <2>2. QED
      BY <2>1, AheadNat
  <1>4. InQueue = Total(Queued, 1..n)
    BY DEF InQueue
  <1> HIDE DEF n, L
  <1>5. InQueue <= n * L
    BY <1>1, <1>2, <1>4, SumOfMany
  <1>6. n * L <= QueueCap * L
    BY <1>1, ProductGrows
  <1>7. (QueueCap + 1) * L = QueueCap * L + L
    BY <1>1
  <1>8. n * L \in Nat /\ QueueCap * L \in Nat
    BY <1>1, ProductNat
  <1>9. InQueue + AtWorker <= (QueueCap + 1) * L
    BY <1>1, <1>3, <1>5, <1>6, <1>7, <1>8
  <1>10. QED
    BY <1>9 DEF L

\* An instruction that was worth something moves from the handler to the queue,
\* and from there to the worker.
LEMMA QueueMoves ==
    ASSUME LevInv, PricedInv
    PROVE  /\ checking # NoInstr /\ queue' = Append(queue, checking) =>
                 InQueue' = InQueue + Notional(checking.instr)
           /\ queue # << >> /\ queue' = Tail(queue) =>
                 InQueue = InQueue' + Notional(Head(queue).instr) /\ InQueue' \in Int
  <1> DEFINE n == Len(queue)
             f == Queued
             g == Queued'
  <1>1. InQueue = Total(f, 1..n) /\ InQueue' = Total(g, 1..Len(queue'))
    BY DEF InQueue
  <1>2. \A k \in 1..n : f[k] = Notional(queue[k].instr) /\ f[k] \in Int
    BY AheadNat
  <1>3. \A k \in 1..Len(queue') : g[k] = Notional(queue'[k].instr)
    BY DEF Queued
  <1>4. n \in Nat
    BY HeldHere
  <1>5. ASSUME checking # NoInstr, queue' = Append(queue, checking)
        PROVE  InQueue' = InQueue + Notional(checking.instr)
    <2>1. /\ Len(queue') = n + 1 /\ queue'[n + 1] = checking
          /\ \A k \in 1..n : queue'[k] = queue[k]
      BY <1>5, Enqueued
    <2>2. Notional(checking.instr) \in Int
      BY <1>5, AheadNat
    <2> HIDE DEF n, f, g
    <2>3. n + 1 \in 1..(n + 1) /\ \A k \in 1..n : k \in 1..(n + 1)
      BY <1>4
    <2>4. g[n + 1] = Notional(checking.instr) /\ \A k \in 1..n : g[k] = f[k]
      BY <1>2, <1>3, <2>1, <2>3
    <2>5. \A k \in 1..(n + 1) : g[k] \in Int
      <3>1. \A k \in 1..(n + 1) : k \in 1..n \/ k = n + 1
        BY <1>4
      <3>2. QED
        BY <3>1, <2>2, <2>4, <1>2
    <2>6. Total(g, 1..(n + 1)) = g[n + 1] + Total(g, 1..n)
      BY <1>4, <2>5, SumAppended
    <2>7. Total(g, 1..n) = Total(f, 1..n) /\ Total(f, 1..n) \in Int
      <3>1. IsFiniteSet(1..n)
        BY <1>4, FS_Interval
      <3>2. QED
        BY <3>1, <1>2, <2>4, SumEqual, SumInt
    <2>8. QED
      BY <1>1, <2>1, <2>2, <2>4, <2>6, <2>7
  <1>6. ASSUME queue # << >>, queue' = Tail(queue)
        PROVE  InQueue = InQueue' + Notional(Head(queue).instr) /\ InQueue' \in Int
    <2> DEFINE m == n - 1
    <2>1. /\ n \in Nat \ {0} /\ Len(queue') = m /\ Head(queue) = queue[1] /\ 1 \in 1..n
          /\ \A k \in 1..m : k + 1 \in 1..n /\ queue'[k] = queue[k + 1]
      BY <1>6, Taken
    <2> HIDE DEF n, f, g
    <2>2. m \in Nat /\ n = m + 1
      BY <2>1
    <2> HIDE DEF m
    <2>3. /\ \A k \in 1..m : g[k] = f[k + 1] /\ g[k] \in Int
          /\ f[1] = Notional(Head(queue).instr) /\ f[1] \in Int
      BY <1>2, <1>3, <2>1
    <2>4. Total(f, 1..(m + 1)) = f[1] + Total(g, 1..m)
      BY <1>2, <2>2, <2>3, SumOfTail
    <2>5. Total(g, 1..m) \in Int
      <3>1. IsFiniteSet(1..m)
        BY <2>2, FS_Interval
      <3>2. QED
        BY <3>1, <2>3, SumInt
    <2>6. QED
      BY <1>1, <2>1, <2>2, <2>3, <2>4, <2>5
  <1>7. QED
    BY <1>5, <1>6

\* A step that leaves the limits alone leaves the bound alone, and then the
\* invariant is about what is held and what is traded.
LEMMA StillLooked ==
    ASSUME LevInv, PricedInv, ExposureInv, UNCHANGED <<limits, rested>>, Looked' => Looked,
           Looked =>
              /\ checking' # NoInstr => Notional(checking'.instr) <= LargestNotional
              /\ fetched' => Small(checking'.instr)
              /\ \A k \in 1..Len(queue') : Small(queue'[k].instr)
              /\ executing' # NoInstr => Small(executing'.instr)
              /\ AtExchange' + InQueue' + AtWorker' + AtHandler' <= Most
    PROVE  ExposureInv'
  <1>1. LargestNotional' = LargestNotional
    BY DEF LargestNotional
  <1>2. Most' = Most
    BY <1>1 DEF Most
  <1>3. QED
    BY <1>1, <1>2 DEF ExposureInv, Small

LEMMA ExposureInvKept ==
    ASSUME LevInv, PricedInv, ExposureInv, [Next]_vars
    PROVE  ExposureInv'
  <1>1. /\ Exposure \in Nat /\ Resting \in Nat /\ AtExchange \in Nat /\ AtExchange = Exposure + Resting
        /\ InQueue \in Nat /\ AtWorker \in Nat /\ AtHandler \in Nat
        /\ checking # NoInstr => Notional(checking.instr) \in Nat
    BY AheadNat DEF AtExchange
  <1>2. UNCHANGED <<positions, open>> => AtExchange' = AtExchange
    BY DEF AtExchange, Exposure, Resting
  <1>3. UNCHANGED queue => InQueue' = InQueue
    BY DEF InQueue, Queued
  <1>4. UNCHANGED executing => AtWorker' = AtWorker
    BY DEF AtWorker
  <1>5. UNCHANGED <<fetched, checking>> => AtHandler' = AtHandler
    BY DEF AtHandler
  <1>6. ~fetched' => AtHandler' = 0
    BY DEF AtHandler
  <1>7. Looked => Most \in Int
    <2>1. limits.maxExposure \in Int /\ LargestNotional \in Nat /\ QueueCap \in Nat
      BY LargestIsLargest, ValidatorAssumption DEF ValidatorAssumption, LevInv
    <2>2. (QueueCap + 1) * LargestNotional \in Nat
      BY <2>1, ProductNat
    <2>3. QED
      BY <2>1, <2>2 DEF Most, PricedInv
  <1> DEFINE held == AtExchange + InQueue + AtWorker + AtHandler
  <1>7a. ASSUME held' \in Int, held' <= held
         PROVE  Looked => AtExchange' + InQueue' + AtWorker' + AtHandler' <= Most
    <2>1. held \in Int /\ (Looked => held <= Most)
      BY <1>1 DEF ExposureInv
    <2>2. Looked => held' <= Most
      <3> HIDE DEF held
      <3>1. QED
        BY <2>1, <1>7, <1>7a
    <2>3. QED
      BY <2>2
  <1>8. ASSUME NEW i \in Instructions, Validate(i)
        PROVE  ExposureInv'
    <2>1. /\ checking = NoInstr /\ Valid(i) /\ checking'.instr = Clamped(i)
          /\ UNCHANGED <<limits, cache, fetched, queue, executing, positions, open, sent, rested,
                         unchecked>>
      BY <1>8 DEF Validate
    <2>2. fetched = FALSE /\ AtHandler' = 0
      BY <2>1, <1>6 DEF PricedInv
    <2>3. Notional(checking'.instr) <= LargestNotional
      BY <2>1, ValidIsPriced
    <2>4. held' \in Int /\ held' <= held
      BY <2>1, <2>2, <1>1, <1>2, <1>3, <1>4
    <2>5. Looked => AtExchange' + InQueue' + AtWorker' + AtHandler' <= Most
      BY <2>4, <1>7a
    <2>6. QED
      BY <2>1, <2>2, <2>3, <2>5, StillLooked DEF Looked, ExposureInv
  <1>9. CASE SkipPortfolio
    <2>1. /\ checking # NoInstr /\ ~fetched /\ fetched' = TRUE /\ UNCHANGED rested
          /\ Notional(checking.instr) = 0
          /\ UNCHANGED <<limits, cache, checking, queue, executing, positions, open, sent>>
      BY <1>9 DEF SkipPortfolio, Passed
    <2>2. Looked' => Looked /\ ~Modifies(checking.instr)
      BY <1>9, <2>1 DEF SkipPortfolio, Looked, PricedInv
    <2>3. /\ AtHandler = 0 /\ AtHandler' = 0 /\ AtExchange' = AtExchange
          /\ InQueue' = InQueue /\ AtWorker' = AtWorker
      BY <2>1, <1>2, <1>3, <1>4 DEF AtHandler
    <2>4. CASE ~Looked'
      BY <2>4 DEF ExposureInv
    <2>5. CASE Looked'
      <3>1. Looked /\ Small(checking.instr)
        BY <2>1, <2>2, <2>5 DEF ExposureInv, Small
      <3>2. AtExchange' + InQueue' + AtWorker' + AtHandler' <= Most
        BY <2>3, <3>1 DEF ExposureInv
      <3>3. QED
        BY <3>1, <3>2, <2>1, StillLooked DEF ExposureInv
    <2>6. QED
      BY <2>4, <2>5
  <1>9a. CASE PassPortfolio
    <2> DEFINE N == Notional(checking.instr)
               p == (QueueCap + 1) * LargestNotional
    <2>1. /\ checking # NoInstr /\ ~fetched /\ fetched' = TRUE /\ Fits(checking.instr)
          /\ rested' = IF unchecked' THEN 0 ELSE Resting
          /\ UNCHANGED <<limits, cache, checking, queue, executing, positions, open, sent>>
      BY <1>9a DEF PassPortfolio, Passed
    <2>2. Looked' => Looked /\ ~Modifies(checking.instr) /\ rested' = Resting
      BY <1>9a, <2>1 DEF PassPortfolio, Looked, PricedInv
    <2>3. /\ AtHandler' = N /\ AtExchange' = AtExchange
          /\ InQueue' = InQueue /\ AtWorker' = AtWorker
      BY <2>1, <1>2, <1>3, <1>4 DEF AtHandler
    <2>4. CASE ~Looked'
      BY <2>4 DEF ExposureInv
    <2>5. CASE Looked'
      <3>1. Looked /\ Small(checking.instr)
        BY <2>1, <2>2, <2>5 DEF ExposureInv, Small
      <3>2. Exposure + N <= limits.maxExposure
        BY <2>1, <3>1 DEF Fits, Looked
      <3>3. InQueue + AtWorker <= p
        BY <3>1, BehindTheLook DEF ExposureInv
      <3>4. limits.maxExposure \in Int /\ p \in Nat /\ N \in Nat
        <4>1. limits.maxExposure \in Int /\ LargestNotional \in Nat /\ QueueCap \in Nat
          BY LargestIsLargest, ValidatorAssumption DEF ValidatorAssumption, LevInv
        <4>2. QED
          BY <4>1, <2>1, <1>1, ProductNat
      <3>5. LargestNotional' = LargestNotional
        BY <2>1 DEF LargestNotional
      <3>6. Most' = limits.maxExposure + p + Resting
        BY <2>1, <2>2, <2>5, <3>5 DEF Most
      <3> HIDE DEF N, p
      <3>7. AtExchange + InQueue + AtWorker + N <= limits.maxExposure + p + Resting
        BY <3>2, <3>3, <3>4, <1>1
      <3>8. AtExchange' + InQueue' + AtWorker' + AtHandler' <= Most'
        BY <3>6, <3>7, <2>3
      <3>9. QED
        BY <3>1, <3>5, <3>8, <2>1 DEF ExposureInv, Small
    <2>6. QED
      BY <2>4, <2>5
  <1>10. CASE PassUnlooked
    BY <1>10 DEF PassUnlooked, ExposureInv, Looked
  <1>11. CASE RefuseByPortfolio \/ RefuseByQueue
    <2>1. /\ checking' = NoInstr /\ fetched' = FALSE
          /\ UNCHANGED <<limits, cache, queue, executing, positions, open, sent, rested,
                         unchecked>>
      BY <1>11 DEF RefuseByPortfolio, RefuseByQueue, Refuse
    <2>2. Looked => AtExchange' + InQueue' + AtWorker' + AtHandler' <= Most
      BY <2>1, <1>1, <1>2, <1>3, <1>4, <1>6, <1>7 DEF ExposureInv
    <2>3. QED
      BY <2>1, <2>2, StillLooked DEF ExposureInv, Looked
  <1>12. CASE Enqueue
    <2>1. /\ checking # NoInstr /\ fetched /\ queue' = Append(queue, checking)
          /\ checking' = NoInstr /\ fetched' = FALSE
          /\ UNCHANGED <<limits, cache, executing, positions, open, sent, rested,
                         unchecked>>
      BY <1>12 DEF Enqueue
    <2>2. /\ Len(queue) \in Nat /\ Len(queue') = Len(queue) + 1
          /\ queue'[Len(queue) + 1] = checking
          /\ \A k \in 1..Len(queue) : queue'[k] = queue[k]
      BY <2>1, HeldHere, Enqueued
    <2>3. AtHandler = Notional(checking.instr) /\ AtHandler' = 0
      BY <2>1, <1>6 DEF AtHandler
    <2>4. InQueue' = InQueue + Notional(checking.instr)
      BY <2>1, QueueMoves
    <2>5. Looked => AtExchange' + InQueue' + AtWorker' + AtHandler' <= Most
      BY <2>1, <2>3, <2>4, <1>1, <1>2, <1>4 DEF ExposureInv
    <2>6. ASSUME Looked, NEW k \in 1..Len(queue')
          PROVE  Small(queue'[k].instr)
      <3>1. k \in 1..Len(queue) \/ k = Len(queue) + 1
        BY <2>2
      <3>2. QED
        BY <3>1, <2>1, <2>2, <2>6 DEF ExposureInv
    <2>7. QED
      BY <2>1, <2>5, <2>6, StillLooked DEF ExposureInv, Looked
  <1>13. CASE Take
    <2>1. /\ executing = NoInstr /\ queue # << >>
          /\ executing' = Head(queue) /\ queue' = Tail(queue)
          /\ UNCHANGED <<limits, cache, checking, fetched, positions, open, sent, rested,
                         unchecked>>
      BY <1>13 DEF Take
    <2>2. /\ Len(queue) \in Nat \ {0} /\ Len(queue') = Len(queue) - 1
          /\ Head(queue) = queue[1] /\ 1 \in 1..Len(queue)
          /\ \A k \in 1..(Len(queue) - 1) : k + 1 \in 1..Len(queue) /\ queue'[k] = queue[k + 1]
      BY <2>1, Taken
    <2>3. AtWorker = 0 /\ AtWorker' \in {0, Notional(Head(queue).instr)}
      BY <2>1 DEF AtWorker
    <2>4. InQueue = InQueue' + Notional(Head(queue).instr) /\ InQueue' \in Int
      BY <2>1, QueueMoves
    <2>5. Notional(Head(queue).instr) \in Nat
      BY <2>2, AheadNat
    <2>5a. held' \in Int /\ held' <= held
      BY <2>1, <2>3, <2>4, <2>5, <1>1, <1>2, <1>5
    <2>6. Looked => AtExchange' + InQueue' + AtWorker' + AtHandler' <= Most
      BY <2>5a, <1>7a
    <2>7. Looked => /\ \A k \in 1..Len(queue') : Small(queue'[k].instr)
                    /\ Small(executing'.instr)
      BY <2>1, <2>2 DEF ExposureInv
    <2>8. QED
      BY <2>1, <2>6, <2>7, StillLooked DEF ExposureInv, Looked
  <1>14. CASE ExecuteStep \/ StepFails
    <2> DEFINE i == executing.instr
               rest == [i EXCEPT !.steps = Tail(@)]
               worth == IF Head(i.steps).action = "place_order" THEN Worth(Head(i.steps)) ELSE 0
    <2>1. /\ executing # NoInstr
          /\ executing' \in {NoInstr, [executing EXCEPT !.instr.steps = Tail(@)]}
          /\ Reaches(Head(i.steps)) \/ UNCHANGED open
          /\ UNCHANGED <<limits, cache, checking, fetched, queue, positions, rested, unchecked>>
      BY <1>14 DEF ExecuteStep, StepFails
    <2>2. /\ executing' # NoInstr => executing'.instr = rest
          /\ Notional(rest) \in Nat /\ worth \in Nat /\ Notional(i) = Notional(rest) + worth
          /\ Modifies(rest) => Modifies(i)
          /\ Resting' \in Nat /\ (Resting' <= Resting + worth \/ Modifies(i))
      BY <2>1, Executed
    <2> HIDE DEF rest, worth
    <2>3. AtWorker = Notional(i) /\ AtWorker' \in {0, Notional(rest)}
      BY <2>1, <2>2 DEF AtWorker
    <2>4. Looked => Notional(i) <= LargestNotional /\ ~Modifies(i) /\ LargestNotional \in Nat
      BY <2>1, LargestIsLargest DEF ExposureInv, Small
    <2>5. AtExchange' = Exposure + Resting'
      BY <2>1 DEF AtExchange, Exposure
    <2>6. /\ InQueue' = InQueue /\ AtHandler' = AtHandler
      BY <2>1, <1>3, <1>5
    <2> HIDE DEF i
    <2>7. Looked => held' \in Int /\ held' <= held
      BY <2>2, <2>3, <2>4, <2>5, <2>6, <1>1
    <2>8. Looked => AtExchange' + InQueue' + AtWorker' + AtHandler' <= Most
      BY <2>7, <1>7a
    <2>9. Looked => (executing' # NoInstr => Small(executing'.instr))
      BY <2>2, <2>4 DEF Small
    <2>10. QED
      BY <2>1, <2>8, <2>9, StillLooked DEF ExposureInv, Looked
  <1>15. ASSUME NEW m \in Markets, Settle(m)
         PROVE  ExposureInv'
    <2>1. UNCHANGED <<limits, cache, checking, fetched, queue, executing, rested, unchecked>>
      BY <1>15 DEF Settle
    <2>2. AtExchange' \in Int /\ AtExchange' <= AtExchange
      BY <1>15, Settled DEF PricedInv
    <2>3. InQueue' = InQueue /\ AtWorker' = AtWorker /\ AtHandler' = AtHandler
      BY <2>1, <1>3, <1>4, <1>5
    <2>3a. held' \in Int /\ held' <= held
      <3>1. \A a, b \in Int : \A c, d, e \in Nat :
                a <= b => a + c + d + e \in Int /\ a + c + d + e <= b + c + d + e
        OBVIOUS
      <3>2. AtExchange \in Int
        BY <1>1
      <3>3. QED
        BY <3>1, <3>2, <2>2, <2>3, <1>1
    <2>4. Looked => AtExchange' + InQueue' + AtWorker' + AtHandler' <= Most
      BY <2>3a, <1>7a
    <2>5. QED
      BY <2>1, <2>4, StillLooked DEF ExposureInv, Looked
  <1>16. ASSUME NEW l \in LimitChoices, UpdateLimits(l)
         PROVE  ExposureInv'
    BY <1>16 DEF UpdateLimits, ExposureInv, Looked
  <1>17. CASE RefreshAssets \/ UNCHANGED vars
    <2>1. UNCHANGED <<limits, checking, fetched, queue, executing, positions, open, rested,
                    unchecked>>
      BY <1>17 DEF RefreshAssets, vars
    <2>2. AtExchange' = AtExchange /\ InQueue' = InQueue /\ AtWorker' = AtWorker
          /\ AtHandler' = AtHandler
      BY <2>1, <1>2, <1>3, <1>4, <1>5
    <2>3. QED
      BY <2>1, <2>2, StillLooked DEF ExposureInv, Looked
  <1>18. QED
    BY <1>8, <1>9, <1>9a, <1>10, <1>11, <1>12, <1>13, <1>14, <1>15, <1>16, <1>17 DEF Next

LEMMA ExposureInitially ==
    ASSUME Init, LevInv, PricedInv
    PROVE  ExposureInv
  <1>1. /\ queue = << >> /\ Len(queue) = 0 /\ checking = NoInstr /\ executing = NoInstr
        /\ fetched = FALSE
    BY EmptySeq DEF Init
  <1>2. 1..Len(queue) = {}
    BY <1>1
  <1>3. InQueue = 0 /\ AtWorker = 0 /\ AtHandler = 0
    <2>1. IsFiniteSet({}) /\ InQueue = Total(Queued, {})
      BY <1>2, FS_EmptySet DEF InQueue
    <2>2. Total(Queued, {}) = 0
      BY <2>1, SumByRecursion
    <2>3. QED
      BY <2>1, <2>2, <1>1 DEF AtWorker, AtHandler
  <1>4. AtExchange = 0
    <2>1. \A m \in Covered : positions[m] = 0 /\ open[m] = 0
      BY CoveredFinite DEF Init
    <2>2. Exposure = 0 /\ Resting = 0
      BY <2>1, CoveredFinite, SumZero DEF Exposure, Resting, Total
    <2>3. QED
      BY <2>2 DEF AtExchange
  <1>5. Looked => 0 <= Most
    <2>1. limits.maxExposure \in Int /\ LargestNotional \in Nat /\ QueueCap \in Nat
      BY LargestIsLargest, ValidatorAssumption DEF ValidatorAssumption, LevInv
    <2>2. (QueueCap + 1) * LargestNotional \in Nat
      BY <2>1, ProductNat
    <2>3. QED
      BY <2>1, <2>2 DEF Most, Looked, PricedInv
  <1>6. Looked => AtExchange + InQueue + AtWorker + AtHandler <= Most
    BY <1>3, <1>4, <1>5
  <1>7. QED
    BY <1>1, <1>2, <1>6 DEF ExposureInv

\* The total limit may be exceeded, for neither what rests nor the queue nor the
\* worker is counted when an instruction is looked at, but never by more than what
\* rested at the last look and what the queue and the worker can hold, whatever
\* fills when (ValidatePortfolio, validator.go; client.go:461).
THEOREM RiskExposureBounded == Spec => []ExposureBounded
  <1>1. LevInv /\ PricedInv /\ ExposureInv => ExposureBounded
    <2> SUFFICES ASSUME LevInv, PricedInv, ExposureInv, Looked
                 PROVE  AtExchange <= Most
      BY DEF ExposureBounded, Looked, Most, AtExchange
    <2>1. AtExchange + InQueue + AtWorker + AtHandler <= Most
      BY DEF ExposureInv
    <2>2. Most \in Int
      <3>1. limits.maxExposure \in Int /\ LargestNotional \in Nat /\ QueueCap \in Nat
        BY LargestIsLargest, ValidatorAssumption DEF ValidatorAssumption, LevInv
      <3>2. (QueueCap + 1) * LargestNotional \in Nat
        BY <3>1, ProductNat
      <3>3. QED
        BY <3>1, <3>2 DEF Most, PricedInv
    <2>3. QED
      BY <2>1, <2>2, AheadNat
  <1>2. Init => LevInv /\ PricedInv /\ ExposureInv
    BY LevInvInitially, PricedInitially, ExposureInitially
  <1>3. LevInv /\ PricedInv /\ ExposureInv /\ [Next]_vars => LevInv' /\ PricedInv' /\ ExposureInv'
    BY LevInvKept, PricedInvKept, ExposureInvKept
  <1>4. QED
    BY <1>1, <1>2, <1>3, PTL DEF Spec
=============================================================================
