SPECIFICATION Spec
CONSTANTS
  l1 = l1
  l2 = l2
  c1 = c1
  T1 = T1
  T2 = T2
  Loaders = {l1, l2}
  SimEnd = 1
  LastDay = 3
  Month <- MCMonth
  CALL_WINDOW_DAYS = 2
  LiveFacts <- MCFacts
  ChunkFacts <- MCFacts
  DimOrder <- MCDims
  Calls = {c1}
  RaisedOn <- MCRaisedOn
  TermsSets = {T1, T2}
  MaxRuns = 2
  Leftover = 2
  MaxJobs = 2
  MaxFaults = 1
INVARIANTS
  ReRunRepairs
  VersionInForce
SYMMETRY Symmetry
CHECK_DEADLOCK FALSE
