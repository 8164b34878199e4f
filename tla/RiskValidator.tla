---------------------------- MODULE RiskValidator ----------------------------
(***************************************************************************)
(* The risk checks an instruction passes before it is queued (internal/    *)
(* relay/validator.go, estimateInstructionNotional in client.go), and what *)
(* happens to it afterwards: it waits in the queue while the worker trades,*)
(* the terminal UI replaces the limits and the asset cache is refreshed.   *)
(* Amounts are whole numbers and percentages exact; zero stands for a      *)
(* price, a trigger price or a limit that is not there.  An order is worth *)
(* what it was judged by; changes of prices and trades of others on the    *)
(* account are not in the model.                                           *)
(***************************************************************************)
EXTENDS Integers, FiniteSetsExt, SequencesExt

CONSTANTS
    Instructions,   \* what the server sends: [market, steps]
    NoInstr,
    Markets,
    Covered,        \* the markets an account query without a dex answers for
    UnknownMarket,  \* no market, or that of an asset ID that is not known
    LimitChoices,   \* the limits the validator may be given
    CacheChoices,   \* what the asset cache may hold: [oracle, maxLev]
    QueueCap,
    MaxTotal,       \* bound of the model: nothing executes above it
    FillSizes       \* bound of the model: what fills or goes at a time

Order == [market : Markets \cup {UnknownMarket}, price : Int, size : Int,
          isTrigger : BOOLEAN, trigger : Int]

Step == [action : STRING, orders : Seq(Order), leverage : Int,
         asset : Markets \cup {UnknownMarket}]

Instruction == [market : Markets \cup {UnknownMarket}, steps : Seq(Step)]

\* Only trigger orders have a trigger price.  A message has at most 1 MB
\* (SetReadLimit), so there are finitely many instructions.
ASSUME ValidatorAssumption ==
    /\ NoInstr \notin Instructions /\ UnknownMarket \notin Markets
    /\ QueueCap \in Nat \ {0} /\ FillSizes \subseteq Nat
    /\ Covered \subseteq Markets
    /\ Instructions \subseteq Instruction
    /\ IsFiniteSet(Instructions) /\ IsFiniteSet(Markets)
    /\ \A i \in Instructions : \A step \in Range(i.steps) : \A o \in Range(step.orders) :
          ~o.isTrigger => o.trigger = 0
    /\ \A l \in LimitChoices : {l.maxLev, l.maxOrder, l.maxDev, l.maxExposure} \subseteq Int
    /\ \A c \in CacheChoices : c.oracle \in [Markets -> Int] /\ c.maxLev \in [Markets -> Int]

VARIABLES
    limits,     \* v.limits
    cache,      \* oracle price and maximum leverage of each market, 0 if none
    checking,   \* the instruction between Validate and the queue, with what
                \* bounded its leverage
    fetched,    \* ValidatePortfolio has passed or was skipped
    queue,
    executing,  \* what is left of the instruction the worker executes
    positions,  \* the exchange: the notional of the position in each market
    open,       \* the exchange: the worth of the orders in each market that
                \* are on their way or rest
    sent,       \* history: the leverage the last step set, with what bounded it
    rested,     \* history: what rested at the last look at the account, as long
                \* as each was looked at
    unchecked   \* history: an instruction passed without a look at the account

vars == <<limits, cache, checking, fetched, queue, executing, positions, open,
          sent, rested, unchecked>>

-----------------------------------------------------------------------------
(* Validate, on one order and on a whole instruction.                      *)

FaultyPriceOf(o) == o.price

\* The price of a trigger order is a slippage price; its trigger counts.
PriceOf(o) == IF o.trigger > 0 THEN o.trigger ELSE o.price

Value(o) == o.size * PriceOf(o)

Abs(x) == IF x < 0 THEN -x ELSE x

Deviates(price, market, percent) ==
    Abs(price - cache.oracle[market]) * 100 > percent * cache.oracle[market]

ValidOrder(o) ==
    /\ o.market # UnknownMarket
    /\ o.price > 0 /\ o.size > 0
    /\ Value(o) <= limits.maxOrder
    /\ cache.oracle[o.market] > 0 =>
          IF ~o.isTrigger
          THEN ~Deviates(o.price, o.market, limits.maxDev)
          ELSE o.trigger > 0 /\ ~Deviates(o.trigger, o.market, 2 * limits.maxDev)

ValidStep(step) ==
    CASE step.action = "update_leverage" ->
            step.leverage > 0 /\ step.leverage <= limits.maxLev
      [] step.action = "place_order" ->
            /\ step.orders # << >> /\ Len(step.orders) <= limits.maxOrders
            /\ \A o \in Range(step.orders) : ValidOrder(o)
      [] step.action = "modify_order" -> \A o \in Range(step.orders) : ValidOrder(o)
      [] step.action = "cancel" -> step.orders # << >>
      [] OTHER -> FALSE

Valid(i) ==
    /\ i.steps # << >> /\ Len(i.steps) <= limits.maxSteps
    /\ \A step \in Range(i.steps) : ValidStep(step)

FaultyClamped(i) == i

Clamp(step, market) ==
    IF /\ step.action = "update_leverage"
       /\ market \in Markets /\ cache.maxLev[market] > 0
    THEN [step EXCEPT !.leverage = Min({@, cache.maxLev[market]})]
    ELSE step

\* Validate writes through a pointer to the step: what is queued is clamped, to
\* the maximum of the instruction's market, not of the step's asset.
Clamped(i) ==
    [i EXCEPT !.steps = [k \in DOMAIN i.steps |-> Clamp(i.steps[k], i.market)]]

(* ValidatePortfolio.                                                      *)

\* totalNtlPos: one net position per market.  Orders that rest are not in it.
Exposure == SumFunctionOnSet(positions, Covered)

Worth(step) == SumFunction([k \in DOMAIN step.orders |-> Value(step.orders[k])])

\* estimateInstructionNotional: orders placed, not orders modified.
Notional(i) ==
    SumFunction([k \in DOMAIN i.steps |->
                    IF i.steps[k].action = "place_order" THEN Worth(i.steps[k]) ELSE 0])

HasPosition(market) == market \in Covered /\ positions[market] # 0

FaultyFits(i) ==
    /\ limits.maxExposure > 0 => Exposure <= limits.maxExposure
    /\ limits.maxPerMarket > 0 /\ HasPosition(i.market) => 1 < limits.maxPerMarket

\* A limit of zero is not configured; a market has at most one position.
Fits(i) ==
    /\ limits.maxExposure > 0 => Exposure + Notional(i) <= limits.maxExposure
    /\ limits.maxPerMarket > 0 /\ HasPosition(i.market) => 1 < limits.maxPerMarket

\* What may still be added to the exposure: the code has no such sum.
Resting == SumFunctionOnSet(open, Covered)

Limited == limits.maxExposure > 0 \/ limits.maxPerMarket > 0

-----------------------------------------------------------------------------
Init ==
    /\ limits \in LimitChoices
    /\ cache \in CacheChoices
    /\ checking = NoInstr /\ fetched = FALSE
    /\ queue = << >> /\ executing = NoInstr
    /\ positions = [m \in Markets |-> 0] /\ open = [m \in Markets |-> 0]
    /\ sent = {} /\ rested = 0 /\ unchecked = FALSE

Refuse ==
    /\ checking' = NoInstr /\ fetched' = FALSE
    /\ UNCHANGED <<limits, cache, queue, executing, positions, open, sent, rested,
                   unchecked>>

\* Validate holds its lock for reading; the cache is locked lookup by lookup.
Validate(i) ==
    /\ checking = NoInstr
    /\ Valid(i)
    /\ checking' = [instr |-> Clamped(i), limit |-> limits.maxLev, max |-> cache.maxLev]
    /\ UNCHANGED <<limits, cache, fetched, queue, executing, positions, open, sent,
                   rested, unchecked>>

Passed ==
    /\ checking # NoInstr /\ ~fetched
    /\ fetched' = TRUE
    /\ UNCHANGED <<limits, cache, checking, queue, executing, positions, open, sent>>

Modifies(i) == \E step \in Range(i.steps) : step.action = "modify_order"

\* There is nothing to place, and what the instruction modifies is not looked at.
SkipPortfolio ==
    /\ Passed
    /\ Notional(checking.instr) = 0
    /\ unchecked' = (unchecked \/ Modifies(checking.instr))
    /\ UNCHANGED rested

PassPortfolio ==
    /\ Passed
    /\ Notional(checking.instr) > 0 /\ Limited /\ Fits(checking.instr)
    /\ unchecked' = (unchecked \/ limits.maxExposure = 0 \/ Modifies(checking.instr))
    /\ rested' = IF unchecked' THEN 0 ELSE Resting

\* No limit is configured, or the account cannot be fetched: fail-open.
PassUnlooked ==
    /\ Passed
    /\ Notional(checking.instr) > 0
    /\ unchecked' = TRUE
    /\ UNCHANGED rested

RefuseByPortfolio ==
    /\ checking # NoInstr /\ ~fetched
    /\ Notional(checking.instr) > 0
    /\ Limited /\ ~Fits(checking.instr)
    /\ Refuse

FaultyRoom == TRUE

\* The channel's buffer: the send is one case of a select with a default.
Room == Len(queue) < QueueCap

Enqueue ==
    /\ checking # NoInstr /\ fetched
    /\ Room
    /\ queue' = Append(queue, checking)
    /\ checking' = NoInstr /\ fetched' = FALSE
    /\ UNCHANGED <<limits, cache, executing, positions, open, sent, rested, unchecked>>

RefuseByQueue ==
    /\ checking # NoInstr /\ fetched
    /\ ~Room
    /\ Refuse

-----------------------------------------------------------------------------
Take ==
    /\ executing = NoInstr /\ queue # << >>
    /\ executing' = Head(queue)
    /\ queue' = Tail(queue)
    /\ UNCHANGED <<limits, cache, checking, fetched, positions, open, sent, rested,
                   unchecked>>

\* What the orders of a step in one market are worth.
WorthIn(step, m) ==
    SumFunction([k \in DOMAIN step.orders |->
                    IF step.orders[k].market = m THEN Value(step.orders[k]) ELSE 0])

Trades(step) == step.action \in {"place_order", "modify_order"}

\* The exchange's maximum for a market when the instruction was validated.
MaximumOf(market) == IF market \in Markets THEN executing.max[market] ELSE 0

\* A step reaches the exchange: leverage is set for the step's asset, orders are
\* there to fill, to rest or to be refused.
Reaches(step) ==
    /\ open' = IF Trades(step)
               THEN [m \in Markets |-> open[m] + WorthIn(step, m)] ELSE open
    /\ sent' = IF step.action = "update_leverage"
               THEN {[leverage |-> step.leverage, limit |-> executing.limit,
                      max |-> MaximumOf(step.asset),
                      own |-> step.asset = executing.instr.market]}
               ELSE {}

ExecuteStep ==
    /\ executing # NoInstr
    /\ LET steps == executing.instr.steps
       IN  /\ executing' = IF Len(steps) = 1 THEN NoInstr
                           ELSE [executing EXCEPT !.instr.steps = Tail(@)]
           /\ Reaches(Head(steps))
    /\ UNCHANGED <<limits, cache, checking, fetched, queue, positions, rested, unchecked>>

\* A step fails, in part, or is not answered: the rest is not executed.
StepFails ==
    /\ executing # NoInstr
    /\ executing' = NoInstr
    /\ Reaches(Head(executing.instr.steps)) \/ UNCHANGED <<open, sent>>
    /\ UNCHANGED <<limits, cache, checking, fetched, queue, positions, rested, unchecked>>

\* At any time a part of what is open in a market fills, on the side of the
\* position or against it, or goes: refused, cancelled, replaced.
Settle(m) ==
    /\ \E worth \in FillSizes \ {0} :
          /\ worth <= open[m]
          /\ open' = [open EXCEPT ![m] = @ - worth]
          /\ \E p \in {positions[m], positions[m] + worth, Abs(positions[m] - worth)} :
                positions' = [positions EXCEPT ![m] = p]
    /\ UNCHANGED <<limits, cache, checking, fetched, queue, executing, sent, rested,
                   unchecked>>

\* From the terminal UI.
UpdateLimits(l) ==
    /\ limits' = l
    /\ unchecked' = TRUE
    /\ UNCHANGED <<cache, checking, fetched, queue, executing, positions, open, sent,
                   rested>>

RefreshAssets ==
    /\ cache' \in CacheChoices
    /\ UNCHANGED <<limits, checking, fetched, queue, executing, positions, open, sent,
                   rested, unchecked>>

InUse == SumFunction(positions) + SumFunction(open)

Next ==
    \/ \E i \in Instructions : Validate(i)
    \/ SkipPortfolio \/ PassPortfolio \/ PassUnlooked \/ RefuseByPortfolio \/ Enqueue \/ RefuseByQueue
    \/ Take \/ (InUse < MaxTotal /\ (ExecuteStep \/ StepFails))
    \/ \E m \in Markets : Settle(m)
    \/ \E l \in LimitChoices : UpdateLimits(l)
    \/ RefreshAssets

Spec == Init /\ [][Next]_vars

-----------------------------------------------------------------------------
\* Sizes and the fields that go together.
TypeOK ==
    /\ limits \in LimitChoices /\ cache \in CacheChoices
    /\ fetched \in BOOLEAN /\ unchecked \in BOOLEAN
    /\ fetched => checking # NoInstr
    /\ Len(queue) <= QueueCap
    /\ positions \in [Markets -> Nat] /\ open \in [Markets -> Nat] /\ rested \in Nat
    /\ executing # NoInstr => executing.instr.steps # << >>

\* What the limits say of one order, as an interval around the oracle price.
WithinLimits(o) ==
    LET price == IF o.isTrigger /\ o.trigger > 0 THEN o.trigger ELSE o.price
        percent == IF o.isTrigger THEN 2 * limits.maxDev ELSE limits.maxDev
    IN  /\ o.market \in Markets
        /\ o.size * price <= limits.maxOrder
        /\ cache.oracle[o.market] > 0 =>
              100 * price \in (cache.oracle[o.market] * (100 - percent))..
                              (cache.oracle[o.market] * (100 + percent))

\* No order passes that is worth more than the limit or priced outside its band,
\* whether it is placed or modified, and a trigger order is judged by its trigger
\* price: its own price is a slippage price (validateOrder).
OrdersWithinLimits ==
    [][checking = NoInstr /\ checking' # NoInstr =>
          \A step \in Range(checking'.instr.steps) :
              step.action \in {"place_order", "modify_order"} =>
                  \A o \in Range(step.orders) : WithinLimits(o)]_vars

\* The leverage that reaches the exchange is at most what the limits allowed when
\* the instruction was validated, and what the exchange did, whatever happened to
\* both in the queue: the clamp of Validate is not lost on the way.  The maximum is
\* looked up for the instruction's market (validator.go:95) and the leverage set for
\* the step's asset (executor.go:129): where they differ, only the limit counts.
LeverageWithinBound ==
    \A s \in sent : /\ s.leverage <= s.limit
                    /\ s.own /\ s.max > 0 => s.leverage <= s.max

\* The most that one instruction in the queue can be worth, when each of its
\* orders is within the limit.
LargestNotional ==
    LET Passes(i) == \A step \in Range(i.steps) : step.action = "place_order" =>
                        \A o \in Range(step.orders) : Value(o) <= limits.maxOrder
    IN  Max({0} \cup {Notional(i) : i \in {j \in Instructions : Passes(j)}})

\* The portfolio check counts neither what is queued nor what is executed nor what
\* rests, so the total limit can be exceeded, but by no more than the queue and the
\* worker hold and what rested when it was last checked, whatever fills, goes or
\* is cut off in which order.  Not once an instruction has passed without a look at
\* the account or with a modification, which is not counted, nor once the limits
\* were replaced; and of what the account query covers only (ValidatePortfolio,
\* handleInstruction, estimateInstructionNotional).
ExposureBounded ==
    limits.maxExposure > 0 /\ ~unchecked =>
        Exposure + Resting <=
            limits.maxExposure + (QueueCap + 1) * LargestNotional + rested
=============================================================================
