SPECIFICATION MCSpec
CONSTANTS
  RISK_WEIGHTS <- MCWeights
  Book <- MCBook
  CP = "CP-1"
  Prices = {1, 3}
  VixLevels = {5, 40}
  Ratings = {1, 2}
  CSAs <- MCCSAs
  Items <- MCItems
  Adjustments = {500}
  Moving = {"A"}
  Types = {"cash", "bond", "equity"}
  Haircuts = {0, 50, 75}
  Values = {0, 4, 8}
  Required = {0, 1, 3, 6}
  Price <- MCPrice
  Quantities <- MCQuantities
  Tolerance = 2
INVARIANTS
  TwinsAgree
  ImpactIsTheDifference
  BoardWithinRun
  CheapestToDeliver
  BreaksExplainTheGap
  NoticeAddsUp
CHECK_DEADLOCK FALSE
