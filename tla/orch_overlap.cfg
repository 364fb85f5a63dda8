SPECIFICATION Spec
CONSTANTS
  alice = alice
  bob = bob
  carol = carol
  a70 = a70
  a100 = a100
  NoUser = NoUser
  NoCall = NoCall
  Unset = Unset
  Users <- MC_Users
  Amounts <- MC_Amounts
  Requests <- MC_Overlap
  Elite = TRUE
  WhatsApp = TRUE
  MaxClock = 1
  MaxFaults = 1
INVARIANTS
  TypeOK
  EveryNoticeSigned
  NeverEscalatedEarly
CHECK_DEADLOCK FALSE
