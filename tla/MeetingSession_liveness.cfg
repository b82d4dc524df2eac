CONSTANTS
  ann = ann
  bob = bob
  a1 = a1
  a2 = a2
  b1 = b1
  NoUser = NoUser
  Users <- TwoUsers
  Sockets <- TwoTabs
  UserOf <- TwoTabsOwner
  PermanentHost = ann
  ScheduledHosts = {bob}
  MaxCommands = 4
  DbFails = FALSE
  Restarts = TRUE
SPECIFICATION FairSpec
PROPERTIES HostEventually CleanupHeals
CHECK_DEADLOCK FALSE
