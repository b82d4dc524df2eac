SPECIFICATION PlanningSpec
CONSTANTS
  h1 = h1
  h2 = h2
  s1 = s1
  s2 = s2
  Hosts <- MCHosts
  NoHost = NoHost
  Plans <- MCPlans
  Week = 2
  Horizon = 3
  LastDate = 5
  Today = 1
  Slots <- MCSlots
  MaxRows = 4
  MaxAsked = 3
  u1 = u1
  r1 = r1
  r2 = r2
  Users <- MCUsers
  Meetings <- MCMeetings
  Changes <- MCChanges
  Delays <- MCDelays
  DayMinutes = 4
  FirstDay = 5
  LastMinute = 6
  Requests <- MCRequests
  MaxPeople = 2
  MaxChanges = 4
INVARIANTS
  OneHostPerDate
  CalledOnce
  
  AnswersSettle
PROPERTIES
  NeverStolen
  SwapExchanges
SYMMETRY Symmetry
CHECK_DEADLOCK FALSE
