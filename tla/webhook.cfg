SPECIFICATION MCSpec
CONSTANTS
  w1 = w1
  w2 = w2
  a1 = a1
  ann = ann
  bob = bob
  Workers <- MC_Workers
  Admins <- MC_OneAdmin
  Phones <- MC_Phones
  DefaultPhone = ann
  NumSends = 2
  Items <- MC_Items
  Payloads <- MC_Payloads
  MaxEdits = 2
  Times = {0, 1}
  MaxFaults = 1
  MaxCrashes = 1
  MaxTimeouts = 1
INVARIANTS
  HandledOnce
  AnswerCounts
  OnlyRecipientAnswers
SYMMETRY MC_Symmetry
CHECK_DEADLOCK FALSE
