--------------------------- MODULE MCRiskValidator ---------------------------
EXTENDS RiskValidator

CONSTANTS m1, builder

Limit(market, price, size) ==
    [market |-> market, price |-> price, size |-> size, isTrigger |-> FALSE,
     trigger |-> 0]

\* The order's own price is the slippage price 1.
Trigger(market, trigger, size) ==
    [market |-> market, price |-> 1, size |-> size, isTrigger |-> TRUE,
     trigger |-> trigger]

Orders(action, orders) ==
    [action |-> action, orders |-> orders, leverage |-> 0, asset |-> UnknownMarket]

Leverage(asset, n) ==
    [action |-> "update_leverage", orders |-> << >>, leverage |-> n, asset |-> asset]

Instr(market, steps) == [market |-> market, steps |-> steps]

\* An entry with leverage at the edge of its band; a trigger order at the edge of
\* its own, in a market the account query leaves out; one that is too large; a
\* modification; a price beyond its band; an unknown asset; empty lists; leverage
\* without a market.
MCInstructions ==
    { Instr(m1, <<Leverage(m1, 3), Orders("place_order", <<Limit(m1, 5, 4)>>)>>),
      Instr(builder, <<Orders("place_order", <<Trigger(builder, 2, 10)>>)>>),
      Instr(m1, <<Orders("place_order", <<Trigger(m1, 5, 6)>>)>>),
      Instr(m1, <<Orders("modify_order", <<Limit(m1, 5, 4)>>)>>),
      Instr(m1, <<Orders("place_order", <<Limit(m1, 6, 1)>>)>>),
      Instr(m1, <<Orders("place_order", <<Limit(UnknownMarket, 5, 1)>>)>>),
      Instr(m1, <<Orders("cancel", << >>)>>),
      Instr(UnknownMarket, <<Leverage(m1, 4), Orders("cancel", <<Limit(m1, 5, 1)>>)>>) }

Configured ==
    [maxLev |-> 4, maxOrder |-> 20, maxDev |-> 25, maxOrders |-> 2, maxSteps |-> 2,
     maxExposure |-> 20, maxPerMarket |-> 2]

\* What the terminal UI hands over: a new leverage, and the other limits are zero.
Edited == [Configured EXCEPT !.maxLev = 3, !.maxOrders = 0, !.maxSteps = 0, !.maxExposure = 0,
                             !.maxPerMarket = 0]

OnePerMarket == [Configured EXCEPT !.maxPerMarket = 1]

MCLimits == {Configured, Edited, OnePerMarket}

Cache(oracle2, maxLev1) ==
    [oracle |-> [m \in Markets |-> IF m = m1 THEN 4 ELSE oracle2],
     maxLev |-> [m \in Markets |-> IF m = m1 THEN maxLev1 ELSE 0]]

\* Complete; without the builder market's price.
MCCaches == {Cache(4, 2), Cache(0, 2)}
=============================================================================
