CONSTANTS
  ann = ann
  bob = bob
  a1 = a1
  a2 = a2
  b1 = b1
  NoUser = NoUser
  Users <- TwoUsers
  Sockets <- OneTabEach
  UserOf <- OneTabOwner
  PermanentHost = ann
  ScheduledHosts = {bob}
  MaxCommands = 5
  DbFails = TRUE
  Restarts = TRUE
SPECIFICATION Spec
INVARIANTS HostViewAgrees OccupantsHaveSpeakerEntry
PROPERTY ImplementsRoomHost
CHECK_DEADLOCK FALSE
