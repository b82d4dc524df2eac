CONSTANTS
  r1 = r1
  r2 = r2
  s1 = s1
  s2 = s2
  ann = ann
  bob = bob
  Requests <- TwoRequests
  MaxCommands = 6
  DbFails = TRUE
  Restarts = TRUE
  Clients <- TwoClients
  Viewers <- FirstClient
  Voters <- TwoVoters
  VoterOf <- OneClientEach
  Options = {o1, o2}
  SttEnabled = TRUE
  Groq = TRUE
  MaxChunks = 2
  MaxVotes = 1
  MaxSessions = 2
SPECIFICATION CallsSpec
INVARIANTS PendingAccountedFor SubtitlesInOrder 
PROPERTIES AnswerKept PendingResolves SpeakersFreed
CHECK_DEADLOCK FALSE
