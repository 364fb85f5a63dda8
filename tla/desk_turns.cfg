SPECIFICATION Spec
CONSTANTS
  Turns = {t1, t2}
  Workers = {w1, w2}
  RATE_LIMIT = 1
  WINDOW = 3
  PER_SECOND = 2
  MaxClock = 5
  MaxFaults = 2
INVARIANTS
  ReadIsKept
PROPERTIES
  LimiterHolds
  EveryTurnIsRead
CHECK_DEADLOCK FALSE
