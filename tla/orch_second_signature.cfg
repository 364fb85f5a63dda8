SPECIFICATION Spec
CONSTANTS
  alice = alice
  bob = bob
  carol = carol
  a70 = a70
  a100 = a100
  NoUser = NoUser
  NoCall = NoCall
  Unset = Unset
  Users <- MC_Users
  Amounts <- MC_Amounts
  Requests <- MC_DoubleClick
  Elite = TRUE
  WhatsApp = FALSE
  MaxClock = 1
  MaxFaults = 0
INVARIANTS
  TwoPeopleSigned
CHECK_DEADLOCK FALSE
