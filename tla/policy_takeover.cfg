SPECIFICATION MCSpec
CONSTANTS
  Parts <- MC_Crash
  w1 = w1
  w2 = w2
  cp1 = cp1
  cp2 = cp2
  Workers <- MC_TwoWorkers
  NumEvents = 4
  Simulated <- MC_Simulated
  Daily <- MC_Daily
  CpLists <- MC_Lists
  MaxDeliveries = 3
  MaxCrashes = 1
  MaxFailures = 1
  Duplicates = TRUE
  HumansOverlap = FALSE
INVARIANTS
  OneOpenCall
SYMMETRY MC_Symmetry
CHECK_DEADLOCK FALSE
