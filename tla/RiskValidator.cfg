CONSTANTS
  m1 = m1  builder = builder
  Instructions <- MCInstructions
  NoInstr = NoInstr
  Markets = {m1, builder}
  Covered = {m1}
  UnknownMarket = UnknownMarket
  LimitChoices <- MCLimits
  CacheChoices <- MCCaches
  QueueCap = 1
  MaxTotal = 61
  FillSizes = {20}
SPECIFICATION Spec
INVARIANTS TypeOK LeverageWithinBound ExposureBounded
PROPERTY OrdersWithinLimits
CHECK_DEADLOCK FALSE
