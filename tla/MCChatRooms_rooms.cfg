CONSTANTS
  ann = ann
  bob = bob
  reader = reader
  writer = writer
  n1 = n1
  k1 = k1
  k2 = k2
  u1 = u1
  u2 = u2
  e1 = e1
  e2 = e2
  t1 = t1
  t2 = t2
  r1 = r1
  r2 = r2
  c1 = c1
  c2 = c2
  Users <- MCUsers
  Names <- MCNames
  MeetingName = MeetingName
  MaxRooms = 2
  Slots <- MCSlots
  MaxRequests = 3
  Members <- MCMembers
  Readers <- MCReaders
  MaxTime = 3
  MaxMessages = 2
  MaxMarks = 2
  People <- MCPeople
  Emojis <- MCEmojis
  Toggles <- MCToggles
  MaxToggles = 3
  MaxLoads = 1
  Resources <- MCResources
  MaxSections = 2
  Clerks <- MCClerks
  MaxOrders = 5
SPECIFICATION ChatRoomsSpec
INVARIANTS OneDirectRoom MessagesSurvive   ReactionsShown InOneSection
SYMMETRY Symmetry
CHECK_DEADLOCK FALSE
