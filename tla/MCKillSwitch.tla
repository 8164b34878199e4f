---------------------------- MODULE MCKillSwitch ----------------------------
EXTENDS KillSwitch, TLC

CONSTANTS w, k1, o1, o2, m1, b1, b2

OneKill == {k1}
OneKillCallers == {w, k1}

\* One order in a market of the exchange, one in a builder's.
TwoMarkets == o1 :> m1 @@ o2 :> b1

\* One order where account queries look, one where they do not.
TwoBuilders == o1 :> b1 @@ o2 :> b2
=============================================================================
