SPECIFICATION FairSpec
CONSTANTS
  alice = alice
  bob = bob
  carol = carol
  a70 = a70
  a100 = a100
  NoUser = NoUser
  NoCall = NoCall
  Unset = Unset
  Users <- MC_Users
  Amounts <- MC_Amounts
  Requests <- MC_Serial
  Elite = TRUE
  WhatsApp = TRUE
  MaxClock = 1
  MaxFaults = 1
INVARIANTS
  TwoPeopleSigned
  PendingStepIsShown
  NoOpenCallStranded
  PendingFigureAnnounced
PROPERTIES
  SlaClockResolves
  ImplementsMarginCall
CHECK_DEADLOCK FALSE
