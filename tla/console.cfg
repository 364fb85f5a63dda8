SPECIFICATION Spec
CONSTANTS
  Threads = {"k1", "k3"}
  InstanceOf <- MCInstanceOf
  Figures = {1, 2}
  MaxEvaluations = 2
  MaxFaults = 1
  Cps = {"c1", "c2"}
  Reassigned = {"c1"}
  Users = {"ana", "app"}
  RoleOf <- MCRoleOf
  Elite = {"c1"}
  Amounts = {1}
  Adjusted = {0}
  Retriggered = {1}
  MaxRuns = 2
  ReportNames = {"exposure", "collateral", "concentration", "margin_calls", "stress"}
  CACHE_SECONDS = 2
  MaxClock = 3
  MaxRequests = 3
  Editions <- MCEditions
  Clauses = {"Rounding", "Dispute"}
  Names = {"Acme", "Beta"}
  KnownNames = {"Acme"}
  TTL = 2
  SLA = 2
  MaxTime = 3
INVARIANTS
  TraceIsHistory
  DocFollows
  FeedIsTrue
  ServedAsDue
  ToldIsScreened
  NoticeIsTrue
CHECK_DEADLOCK FALSE
