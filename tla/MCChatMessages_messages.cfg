SPECIFICATION ChatSpec
CONSTANTS
  ann = ann
  bob = bob
  a1 = a1
  a2 = a2
  b1 = b1
  hello = hello
  hi = hi
  smile = smile
  vi = vi
  NoText = NoText
  k1 = k1
  k2 = k2
  Users <- MCUsers
  Sockets <- MCSockets
  UserOf <- MCUserOf
  Contents <- MCContents
  Plain <- MCPlain
  Languages <- MCLanguages
  MaxMessages = 2
  Slots <- MCSlots
  MaxRequests = 4
INVARIANTS
  RosterAgrees
  
  DeletedStaysDeleted
 
SYMMETRY Symmetry
CHECK_DEADLOCK FALSE
