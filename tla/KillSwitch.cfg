CONSTANTS
  w = w  k1 = k1  o1 = o1  o2 = o2  m1 = m1  b1 = b1  b2 = b2
  Worker = w
  Kills <- OneKill
  Callers <- OneKillCallers
  Orders = {o1, o2}
  NoOrder = NoOrder
  MainMarkets = {m1}
  BuilderMarkets = {b1, b2}
  Covered = {m1, b1}
  MarketOf <- TwoBuilders
  Times = {1, 2}
SPECIFICATION FairSpec
INVARIANTS TypeOK NoncesIncrease KillFlattens
PROPERTY KillAnswers
CHECK_DEADLOCK FALSE
