CONSTANTS
  ann = ann
  bob = bob
  a1 = a1
  a2 = a2
  b1 = b1
  NoUser = NoUser
  Users <- TwoUsers
  Sockets <- OneTabEach
  UserOf <- OneTabOwner
  PermanentHost = ann
  ScheduledHosts = {}
  MaxCommands = 3
  DbFails = FALSE
  Restarts = TRUE
SPECIFICATION FairSpec
PROPERTY StuckIsReset
CHECK_DEADLOCK FALSE
