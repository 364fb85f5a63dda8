SPECIFICATION MCSpec
CONSTANTS
  RISK_WEIGHTS <- MCWeights
  Counterparties = {"SIM-0001"}
  Exposures = {0, 5, 9}
  Dates <- MCDates
  SIM_START_DATE = 3
  SIM_END_DATE = 13
  Month <- MCMonth
  Quarter <- MCQuarter
  MIN_COLLATERAL = 1
  Factors = {50}
  Thresholds = {2, 4}
  MTAs = {2}
  ReviewDays = {9}
  Grades = {0, 1, 2}
  TRIGGER_GRADE = 0
  Constituents <- MCConstituents
  VIX_SYMBOL = "VIX"
  Symbols <- MCSymbols
  Series <- MCSeries
  BATCH_SIZE = 2
  MAX_ATTEMPTS = 2
  MAX_FILL_DAYS = 1
  MaxRuns = 3
  MaxCrashes = 1
INVARIANTS
  WalkIsConsistent
  ChunksAreComplete
  BookIsRepeatable
CHECK_DEADLOCK FALSE
