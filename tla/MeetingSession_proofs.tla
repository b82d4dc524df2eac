------------------------- MODULE MeetingSession_proofs -------------------------
(***************************************************************************)
(* Theorems about MeetingSession for every set of users and sockets, every *)
(* host, any number of commands, failing or not, restarting or not.        *)
(***************************************************************************)
EXTENDS MeetingSession, FiniteSetTheorems, TLAPS

USE UserOfAssumption, HostAssumption, NoUserAssumption, BoundAssumption

-----------------------------------------------------------------------------
\* Every handler, continuation and statement keeps the variables in their types.
LEMMA IdleJoin == Idle \in JoinStates
BY DEF Idle, JoinStates

LEMMA TypeInit == Init => TypeOK
<1> SUFFICES ASSUME Init PROVE TypeOK
  OBVIOUS
<1> USE DEF Init
<1>1. MemoryOK
  BY DEF MemoryOK
<1>2. HandlersOK
  BY IdleJoin DEF HandlersOK, Steps
<1>3. StatementsOK
  BY DEF StatementsOK
<1>4. DatabaseOK
  BY DEF DatabaseOK
<1> QED BY <1>1, <1>2, <1>3, <1>4 DEF TypeOK

LEMMA TypeClient == ASSUME TypeOK, ClientStep PROVE TypeOK'
<1> USE DEF TypeOK, Command, memory, handlers, statements, database
<1>1. ASSUME NEW s \in Sockets, Join(s) PROVE TypeOK'
  <2>1. MemoryOK'
    BY <1>1 DEF Join, FirstIn, MemoryOK
  <2>2. HandlersOK'
    <3>1. [step |-> "query", roster |-> Present \cup {UserOf[s]},
         coHosts |-> {}]
             \in JoinStates
      BY DEF JoinStates, Present, MemoryOK
    <3> QED BY <1>1, <3>1 DEF Join, FirstIn, HandlersOK
  <2>3. StatementsOK'
    BY <1>1 DEF Join, FirstIn, StatementsOK
  <2>4. DatabaseOK'
    BY <1>1 DEF Join, FirstIn, DatabaseOK
  <2> QED BY <1>1, <2>1, <2>2, <2>3, <2>4 DEF Join, FirstIn, MemoryOK
<1>2. ASSUME NEW s \in Sockets, Leave(s) PROVE TypeOK'
  <2>1. MemoryOK'
    BY <1>2 DEF Leave, WithoutSpeaker, ForgetHosts, InDemotion, MemoryOK
  <2>2. HandlersOK'
    BY <1>2 DEF Leave, WithoutSpeaker, ForgetHosts, InDemotion, HandlersOK
  <2>3. StatementsOK'
    BY <1>2 DEF Leave, WithoutSpeaker, ForgetHosts, InDemotion, StatementsOK
  <2>4. DatabaseOK'
    BY <1>2 DEF Leave, WithoutSpeaker, ForgetHosts, InDemotion, DatabaseOK
  <2> QED
    BY <1>2, <2>1, <2>2, <2>3, <2>4 DEF Leave, WithoutSpeaker, ForgetHosts, InDemotion
<1>3. ASSUME NEW s \in Sockets, Disconnect(s) PROVE TypeOK'
  <2>1. MemoryOK'
    BY <1>3 DEF Disconnect, WithoutSpeaker, ForgetHosts, InDemotion, MemoryOK
  <2>2. HandlersOK'
    BY <1>3 DEF Disconnect, WithoutSpeaker, ForgetHosts, InDemotion, HandlersOK
  <2>3. StatementsOK'
    BY <1>3 DEF Disconnect, WithoutSpeaker, ForgetHosts, InDemotion, StatementsOK
  <2>4. DatabaseOK'
    BY <1>3 DEF Disconnect, WithoutSpeaker, ForgetHosts, InDemotion, DatabaseOK
  <2> QED BY <1>3, <2>1, <2>2, <2>3, <2>4
       DEF Disconnect, WithoutSpeaker, ForgetHosts, InDemotion
<1>4. ASSUME NEW s \in Sockets, EndMeeting(s) PROVE TypeOK'
  BY <1>4 DEF EndMeeting, MemoryOK, HandlersOK, StatementsOK, DatabaseOK
<1>5. ASSUME NEW s \in Sockets, VoteCreate(s) PROVE TypeOK'
  BY <1>5 DEF VoteCreate, MemoryOK, HandlersOK, StatementsOK, DatabaseOK
<1>6. ASSUME NEW s \in Sockets, NEW on \in BOOLEAN, SpeakerState(s, on)
      PROVE TypeOK'
  BY <1>6 DEF SpeakerState, MemoryOK, HandlersOK, StatementsOK, DatabaseOK
<1>7. ASSUME NEW s \in Sockets, NEW u \in Users, TransferHost(s, u)
      PROVE TypeOK'
  BY <1>7 DEF TransferHost, ShowHost, MemoryOK, HandlersOK, StatementsOK,
       DatabaseOK
<1>8. ASSUME NEW s \in Sockets, NEW u \in Users, PromoteCoHost(s, u)
      PROVE TypeOK'
  BY <1>8 DEF PromoteCoHost, Steps, MemoryOK, HandlersOK, StatementsOK,
       DatabaseOK
<1>9. ASSUME NEW s \in Sockets, NEW u \in Users, DemoteCoHost(s, u)
      PROVE TypeOK'
  BY <1>9 DEF DemoteCoHost, Steps, MemoryOK, HandlersOK, StatementsOK,
       DatabaseOK
<1>10. ASSUME NEW u \in Users, GenerateToken(u) PROVE TypeOK'
  BY <1>10 DEF GenerateToken, MemoryOK, HandlersOK, StatementsOK, DatabaseOK
<1>11. ASSUME NEW u \in Users, AddCoHost(u) PROVE TypeOK'
  BY <1>11 DEF AddCoHost, MemoryOK, HandlersOK, StatementsOK, DatabaseOK
<1>12. ASSUME NEW u \in Users, RemoveCoHost(u) PROVE TypeOK'
  BY <1>12 DEF RemoveCoHost, MemoryOK, HandlersOK, StatementsOK, DatabaseOK
<1>13. CASE Restart
  <2>1. MemoryOK'
    BY <1>13, IdleJoin DEF Restart, Steps, MemoryOK
  <2>2. HandlersOK'
    BY <1>13, IdleJoin DEF Restart, Steps, HandlersOK
  <2>3. StatementsOK'
    BY <1>13, IdleJoin DEF Restart, Steps, StatementsOK
  <2>4. DatabaseOK'
    BY <1>13, IdleJoin DEF Restart, Steps, DatabaseOK
  <2> QED BY <1>13, <2>1, <2>2, <2>3, <2>4 DEF Restart, Steps
<1> QED BY <1>1, <1>2, <1>3, <1>4, <1>5, <1>6, <1>7, <1>8, <1>9, <1>10,
     <1>11, <1>12, <1>13 DEF ClientStep

\* A user holds finitely many sockets, so end_meeting records finitely many
\* leaves.
LEMMA TypeServer == ASSUME TypeOK, ServerStep PROVE TypeOK'
<1> USE DEF TypeOK, memory, handlers, statements, database
<1>1. ASSUME NEW s \in Sockets, JoinQuery(s) PROVE TypeOK'
  <2>1. \A ids \in SUBSET Users :
           [step |-> "resume", roster |-> joining[s].roster, coHosts |-> ids]
             \in JoinStates
    BY DEF HandlersOK, JoinStates
  <2>2. HandlersOK'
    BY <1>1, <2>1 DEF JoinQuery, HandlersOK
  <2> QED BY <1>1, <2>2 DEF JoinQuery, MemoryOK, StatementsOK, DatabaseOK
<1>2. ASSUME NEW s \in Sockets, JoinResume(s) PROVE TypeOK'
  <2>1. joining[s].coHosts \subseteq Users
    BY DEF HandlersOK, JoinStates
  <2>2. MemoryOK'
    BY <1>2, <2>1 DEF JoinResume, MemoryOK
  <2>3. HandlersOK'
    BY <1>2, IdleJoin DEF JoinResume, HandlersOK, InDemotion
  <2> QED BY <1>2, <2>2, <2>3
       DEF JoinResume, MemoryOK, StatementsOK, DatabaseOK
<1>3. ASSUME NEW s \in Sockets, EndResume(s) PROVE TypeOK'
  <2>1. \A u \in Users : Cardinality(SocketsOf(u)) \in Nat
    <3>1. \A u \in Users : SocketsOf(u) \subseteq Sockets
      BY DEF MemoryOK, SocketsOf
    <3> QED BY <3>1, FS_Subset, FS_CardinalityType, SocketsAssumption
  <2>2. MemoryOK'
    BY <1>3 DEF EndResume, ForgetHosts, MemoryOK
  <2>3. HandlersOK'
    BY <1>3 DEF EndResume, ForgetHosts, InDemotion, HandlersOK
  <2>4. StatementsOK'
    BY <1>3, <2>1 DEF EndResume, StatementsOK
  <2>5. DatabaseOK'
    BY <1>3 DEF EndResume, DatabaseOK
  <2> QED BY <1>3, <2>2, <2>3, <2>4, <2>5 DEF EndResume
<1>4. ASSUME NEW u \in Users, RecordLeave(u) PROVE TypeOK'
  BY <1>4 DEF RecordLeave, MemoryOK, HandlersOK, StatementsOK, DatabaseOK
<1>5. ASSUME NEW u \in Users, StepDown(u) PROVE TypeOK'
  BY <1>5 DEF HasRow, StepDown, MemoryOK, HandlersOK, StatementsOK, DatabaseOK
<1>6. ASSUME NEW u \in Users, PromoteWrite(u) PROVE TypeOK'
  BY <1>6 DEF HasRow, PromoteWrite, Steps, MemoryOK, HandlersOK, StatementsOK,
       DatabaseOK
<1>7. ASSUME NEW u \in Users, PromoteResume(u) PROVE TypeOK'
  BY <1>7 DEF PromoteResume, Steps, MemoryOK, HandlersOK, StatementsOK,
       DatabaseOK
<1>8. ASSUME NEW u \in Users, DemoteWrite(u) PROVE TypeOK'
  BY <1>8 DEF HasRow, DemoteWrite, Steps, MemoryOK, HandlersOK, StatementsOK,
       DatabaseOK
<1>9. ASSUME NEW u \in Users, DemoteResume(u) PROVE TypeOK'
  BY <1>9 DEF DemoteResume, Steps, MemoryOK, HandlersOK, StatementsOK,
       DatabaseOK
<1>10. CASE SetActive
  BY <1>10 DEF SetActive, MemoryOK, HandlersOK, StatementsOK, DatabaseOK
<1>11. CASE ElectHost
  BY <1>11 DEF ElectHost, Electable, ShowHost, MemoryOK, HandlersOK,
       StatementsOK, DatabaseOK
<1>12. CASE ResetToScheduled
  BY <1>12 DEF ResetToScheduled, MemoryOK, HandlersOK, StatementsOK,
       DatabaseOK
<1>13. CASE CleanupCount
  BY <1>13 DEF CleanupCount, MemoryOK, HandlersOK, StatementsOK, DatabaseOK
<1>14. CASE CleanupReset
  BY <1>14 DEF CleanupReset, MemoryOK, HandlersOK, StatementsOK, DatabaseOK
<1> QED BY <1>1, <1>2, <1>3, <1>4, <1>5, <1>6, <1>7, <1>8, <1>9, <1>10,
     <1>11, <1>12, <1>13, <1>14 DEF ServerStep

\* In every reachable state every variable has its type, whatever the users,
\* the sockets and the bounds are.
THEOREM TypeCorrect == Spec => []TypeOK
<1>1. TypeOK /\ UNCHANGED vars => TypeOK'
  BY DEF TypeOK, MemoryOK, HandlersOK, StatementsOK, DatabaseOK, vars, memory,
         handlers, statements, database
<1> QED BY TypeInit, TypeClient, TypeServer, <1>1, PTL DEF Spec, Next

-----------------------------------------------------------------------------
\* The clients in the room agree with the server about the host.  The invariant
\* is inductive: a host only changes with a broadcast to the whole room or when
\* the room is empty, and a join is answered with the host of that moment.
LEMMA HostViewInit == Init => HostViewAgrees
BY DEF Init, HostViewAgrees

LEMMA HostViewClient ==
  ASSUME TypeOK, HostViewAgrees, ClientStep PROVE HostViewAgrees'
<1> USE DEF TypeOK, MemoryOK, HandlersOK, HostViewAgrees, memory, handlers,
        database
<1>1. ASSUME NEW s \in Sockets, Join(s) PROVE HostViewAgrees'
  BY <1>1 DEF Join, FirstIn, Idle
<1>2. ASSUME NEW s \in Sockets, Leave(s) PROVE HostViewAgrees'
  BY <1>2 DEF Leave
<1>3. ASSUME NEW s \in Sockets, Disconnect(s) PROVE HostViewAgrees'
  BY <1>3 DEF Disconnect
<1>4. ASSUME NEW s \in Sockets, EndMeeting(s) \/ VoteCreate(s)
      PROVE HostViewAgrees'
  BY <1>4 DEF EndMeeting, VoteCreate
<1>5. ASSUME NEW s \in Sockets, NEW on \in BOOLEAN, SpeakerState(s, on)
      PROVE HostViewAgrees'
  BY <1>5 DEF SpeakerState
<1>6. ASSUME NEW s \in Sockets, NEW u \in Users, TransferHost(s, u)
      PROVE HostViewAgrees'
  BY <1>6 DEF TransferHost, ShowHost
<1>7. ASSUME NEW s \in Sockets, NEW u \in Users,
             PromoteCoHost(s, u) \/ DemoteCoHost(s, u)
      PROVE HostViewAgrees'
  BY <1>7 DEF PromoteCoHost, DemoteCoHost
<1>8. ASSUME NEW u \in Users,
     GenerateToken(u) \/ AddCoHost(u) \/ RemoveCoHost(u)
      PROVE HostViewAgrees'
  BY <1>8 DEF GenerateToken, AddCoHost, RemoveCoHost
<1>9. CASE Restart
  BY <1>9 DEF Restart
<1> QED BY <1>1, <1>2, <1>3, <1>4, <1>5, <1>6, <1>7, <1>8, <1>9 DEF ClientStep

LEMMA HostViewServer ==
  ASSUME TypeOK, HostViewAgrees, ServerStep PROVE HostViewAgrees'
<1> USE DEF TypeOK, MemoryOK, HandlersOK, HostViewAgrees, memory, handlers,
        database
<1>1. ASSUME NEW s \in Sockets, JoinQuery(s) PROVE HostViewAgrees'
  BY <1>1 DEF JoinQuery, Idle
<1>2. ASSUME NEW s \in Sockets, JoinResume(s) PROVE HostViewAgrees'
  BY <1>2 DEF JoinResume
<1>3. ASSUME NEW s \in Sockets, EndResume(s) PROVE HostViewAgrees'
  BY <1>3 DEF EndResume
<1>4. CASE ElectHost
  BY <1>4 DEF ElectHost, ShowHost
<1>5. ASSUME NEW u \in Users,
             \/ RecordLeave(u) \/ StepDown(u)
             \/ PromoteWrite(u) \/ PromoteResume(u)
             \/ DemoteWrite(u) \/ DemoteResume(u)
      PROVE HostViewAgrees'
  BY <1>5 DEF HasRow, RecordLeave, StepDown, PromoteWrite, PromoteResume, DemoteWrite,
              DemoteResume
<1>6. CASE SetActive \/ ResetToScheduled \/ CleanupCount \/ CleanupReset
  BY <1>6 DEF SetActive, ResetToScheduled, CleanupCount, CleanupReset
<1> QED BY <1>1, <1>2, <1>3, <1>4, <1>5, <1>6 DEF ServerStep

\* No client whose join was answered ever shows another host than the server's.
THEOREM HostViewCorrect == Spec => []HostViewAgrees
<1>1. HostViewAgrees /\ UNCHANGED vars => HostViewAgrees'
  BY DEF HostViewAgrees, vars, memory, handlers
<1> QED BY HostViewInit, HostViewClient, HostViewServer, TypeCorrect, <1>1,
     PTL
        DEF Spec, Next

-----------------------------------------------------------------------------
\* An occupied room keeps its host or the activation that will elect one: an
\* election of an earlier session that ends late counts as one of this session,
\* and the first join always adds its own.
LEMMA HostOrElectingStep ==
  ASSUME TypeOK, HostOrElecting, Next PROVE HostOrElecting'
<1> SUFFICES ASSUME ~DbFails PROVE HostOrElecting'
  BY DEF HostOrElecting
<1> USE DEF TypeOK, MemoryOK, StatementsOK, HostOrElecting, memory, handlers,
        statements
<1>1. ASSUME NEW s \in Sockets, Join(s) PROVE HostOrElecting'
  <2>1. CASE participants' = {s}
    BY <1>1, <2>1 DEF Join, FirstIn
  <2>2. CASE participants' # {s}
    <3>1. participants # {}
      BY <1>1, <2>2 DEF Join, FirstIn
    <3> QED BY <1>1, <2>2, <3>1 DEF Join, FirstIn
  <2> QED BY <2>1, <2>2
<1>2. ASSUME NEW s \in Sockets, Leave(s) \/ Disconnect(s) PROVE HostOrElecting'
  BY <1>2 DEF Leave, WithoutSpeaker, Disconnect
<1>3. ASSUME NEW s \in Sockets, NEW u \in Users, TransferHost(s, u)
      PROVE HostOrElecting'
  BY <1>3 DEF TransferHost
<1>4. ASSUME NEW s \in Sockets, NEW u \in Users,
             PromoteCoHost(s, u) \/ DemoteCoHost(s, u)
      PROVE HostOrElecting'
  BY <1>4 DEF PromoteCoHost, DemoteCoHost
<1>5. ASSUME NEW s \in Sockets, NEW on \in BOOLEAN,
             EndMeeting(s) \/ VoteCreate(s) \/ SpeakerState(s, on)
      PROVE HostOrElecting'
  BY <1>5 DEF EndMeeting, VoteCreate, SpeakerState
<1>6. ASSUME NEW u \in Users, GenerateToken(u) \/ AddCoHost(u) \/ RemoveCoHost(u)
      PROVE HostOrElecting'
  BY <1>6 DEF GenerateToken, AddCoHost, RemoveCoHost
<1>7. CASE Restart
  BY <1>7 DEF Restart
<1>8. ASSUME NEW s \in Sockets, JoinQuery(s) \/ JoinResume(s)
      PROVE HostOrElecting'
  BY <1>8 DEF JoinQuery, JoinResume
<1>9. ASSUME NEW s \in Sockets, EndResume(s) PROVE HostOrElecting'
  BY <1>9 DEF EndResume
<1>10. CASE SetActive
  BY <1>10 DEF SetActive
<1>11. CASE ElectHost
  BY <1>11 DEF ElectHost, Electable
<1>12. ASSUME NEW u \in Users,
              \/ RecordLeave(u) \/ StepDown(u)
              \/ PromoteWrite(u) \/ PromoteResume(u)
              \/ DemoteWrite(u) \/ DemoteResume(u)
       PROVE HostOrElecting'
  BY <1>12 DEF HasRow, RecordLeave, StepDown, PromoteWrite, PromoteResume, DemoteWrite,
               DemoteResume
<1>13. CASE ResetToScheduled \/ CleanupCount \/ CleanupReset
  BY <1>13 DEF ResetToScheduled, CleanupCount, CleanupReset
<1> QED BY <1>1, <1>2, <1>3, <1>4, <1>5, <1>6, <1>7, <1>8, <1>9, <1>10, <1>11,
           <1>12, <1>13 DEF Next, ClientStep, ServerStep

\* As long as the database answers, nobody waits in a room without a host that
\* no activation is about to elect.
THEOREM HostOrElectingCorrect == Spec => []HostOrElecting
<1>1. Init => HostOrElecting
  BY DEF Init, HostOrElecting
<1>2. HostOrElecting /\ UNCHANGED vars => HostOrElecting'
  BY DEF HostOrElecting, vars, memory, statements
<1> QED BY <1>1, <1>2, HostOrElectingStep, TypeCorrect, PTL DEF Spec

-----------------------------------------------------------------------------
\* The speaker entry of a user is only removed along with a socket of the user,
\* which was the only one, or when the room is emptied.
LEMMA SpeakerEntryClient ==
  ASSUME TypeOK, OccupantsHaveSpeakerEntry, ClientStep
  PROVE  OccupantsHaveSpeakerEntry'
<1> USE DEF TypeOK, MemoryOK, OccupantsHaveSpeakerEntry, OnlySocket, memory
<1>1. ASSUME NEW s \in Sockets, Join(s) PROVE OccupantsHaveSpeakerEntry'
  BY <1>1 DEF Join
<1>2. ASSUME NEW s \in Sockets, Leave(s) \/ Disconnect(s)
      PROVE OccupantsHaveSpeakerEntry'
  BY <1>2 DEF Leave, Disconnect, WithoutSpeaker
<1>3. ASSUME NEW s \in Sockets, NEW on \in BOOLEAN, SpeakerState(s, on)
      PROVE OccupantsHaveSpeakerEntry'
  BY <1>3 DEF SpeakerState
<1>4. ASSUME NEW s \in Sockets, EndMeeting(s) \/ VoteCreate(s)
      PROVE OccupantsHaveSpeakerEntry'
  BY <1>4 DEF EndMeeting, VoteCreate
<1>5. ASSUME NEW s \in Sockets, NEW u \in Users,
             TransferHost(s, u) \/ PromoteCoHost(s, u) \/ DemoteCoHost(s, u)
      PROVE OccupantsHaveSpeakerEntry'
  BY <1>5 DEF TransferHost, PromoteCoHost, DemoteCoHost
<1>6. ASSUME NEW u \in Users, GenerateToken(u) \/ AddCoHost(u) \/ RemoveCoHost(u)
      PROVE OccupantsHaveSpeakerEntry'
  BY <1>6 DEF GenerateToken, AddCoHost, RemoveCoHost
<1>7. CASE Restart
  BY <1>7 DEF Restart
<1> QED BY <1>1, <1>2, <1>3, <1>4, <1>5, <1>6, <1>7 DEF ClientStep

LEMMA SpeakerEntryServer ==
  ASSUME TypeOK, OccupantsHaveSpeakerEntry, ServerStep
  PROVE  OccupantsHaveSpeakerEntry'
<1> USE DEF OccupantsHaveSpeakerEntry, OnlySocket, memory
<1>1. ASSUME NEW s \in Sockets, EndResume(s) PROVE OccupantsHaveSpeakerEntry'
  BY <1>1 DEF EndResume
<1>2. ASSUME NEW s \in Sockets, JoinQuery(s) \/ JoinResume(s)
      PROVE OccupantsHaveSpeakerEntry'
  BY <1>2 DEF JoinQuery, JoinResume
<1>3. ASSUME NEW u \in Users,
             \/ RecordLeave(u) \/ StepDown(u)
             \/ PromoteWrite(u) \/ PromoteResume(u)
             \/ DemoteWrite(u) \/ DemoteResume(u)
      PROVE OccupantsHaveSpeakerEntry'
  BY <1>3 DEF RecordLeave, StepDown, PromoteWrite, PromoteResume, DemoteWrite,
              DemoteResume
<1>4. CASE SetActive \/ ElectHost
  BY <1>4 DEF SetActive, ElectHost
<1>5. CASE ResetToScheduled \/ CleanupCount \/ CleanupReset
  BY <1>5 DEF ResetToScheduled, CleanupCount, CleanupReset
<1> QED BY <1>1, <1>2, <1>3, <1>4, <1>5 DEF ServerStep

\* Whoever is in the room with the only socket they hold has a speaker entry,
\* however many tabs the others open and close.
THEOREM SpeakerEntryCorrect == Spec => []OccupantsHaveSpeakerEntry
<1>1. Init => OccupantsHaveSpeakerEntry
  BY DEF Init, OccupantsHaveSpeakerEntry
<1>2. OccupantsHaveSpeakerEntry /\ UNCHANGED vars => OccupantsHaveSpeakerEntry'
  BY DEF OccupantsHaveSpeakerEntry, OnlySocket, vars, memory
<1> QED BY <1>1, <1>2, SpeakerEntryClient, SpeakerEntryServer, TypeCorrect, PTL
        DEF Spec, Next

-----------------------------------------------------------------------------
\* A row of meeting_participants is never deleted while the meeting exists.
LEMMA RowsStay ==
  ASSUME TypeOK, Next
  PROVE  \A u \in Users : row[u] # "absent" => row'[u] # "absent"
<1> USE DEF TypeOK, DatabaseOK, database
<1>1. ASSUME NEW u \in Users, GenerateToken(u) \/ AddCoHost(u) \/ RecordLeave(u)
      PROVE  \A v \in Users : row[v] # "absent" => row'[v] # "absent"
  BY <1>1 DEF GenerateToken, AddCoHost, RecordLeave
<1>2. ClientStep /\ (\A u \in Users : ~GenerateToken(u) /\ ~AddCoHost(u))
        => UNCHANGED row
  BY DEF ClientStep, Join, Leave, Disconnect, EndMeeting, VoteCreate,
         SpeakerState, TransferHost, PromoteCoHost, DemoteCoHost, RemoveCoHost,
         Restart
<1>3. ServerStep /\ (\A u \in Users : ~RecordLeave(u)) => UNCHANGED row
  BY DEF ServerStep, JoinQuery, JoinResume, EndResume, StepDown, PromoteWrite,
         PromoteResume, DemoteWrite, DemoteResume, SetActive, ElectHost,
         ResetToScheduled, CleanupCount, CleanupReset
<1> QED BY <1>1, <1>2, <1>3 DEF Next

\* The rows behind the co-hosts: the invariant covers the ids a join has read
\* and the promotions that wait to resume, the two ways into the Set.
LEMMA CoHostsStep ==
  ASSUME TypeOK, CoHostsHaveRows, Next PROVE CoHostsHaveRows'
<1> USE RowsStay DEF TypeOK, MemoryOK, HandlersOK, DatabaseOK, JoinStates, Steps,
        CoHostsHaveRows, memory, handlers, database
<1>1. ASSUME NEW s \in Sockets, Join(s) PROVE CoHostsHaveRows'
  BY <1>1 DEF Join, FirstIn
<1>2. ASSUME NEW s \in Sockets, Leave(s) \/ Disconnect(s) \/ EndResume(s)
      PROVE CoHostsHaveRows'
  BY <1>2 DEF Leave, WithoutSpeaker, Disconnect, EndResume, ForgetHosts
<1>3. ASSUME NEW s \in Sockets, NEW u \in Users, TransferHost(s, u)
      PROVE CoHostsHaveRows'
  BY <1>3 DEF TransferHost
<1>4. ASSUME NEW s \in Sockets, NEW u \in Users,
             PromoteCoHost(s, u) \/ DemoteCoHost(s, u)
      PROVE CoHostsHaveRows'
  BY <1>4 DEF PromoteCoHost, DemoteCoHost
<1>5. ASSUME NEW s \in Sockets, NEW on \in BOOLEAN,
             EndMeeting(s) \/ VoteCreate(s) \/ SpeakerState(s, on)
      PROVE CoHostsHaveRows'
  BY <1>5 DEF EndMeeting, VoteCreate, SpeakerState
<1>6. ASSUME NEW u \in Users, GenerateToken(u) \/ AddCoHost(u) \/ RemoveCoHost(u)
      PROVE CoHostsHaveRows'
  BY <1>6 DEF GenerateToken, AddCoHost, RemoveCoHost
<1>7. CASE Restart
  BY <1>7 DEF Restart, Idle
<1>8. ASSUME NEW s \in Sockets, JoinQuery(s) PROVE CoHostsHaveRows'
  BY <1>8 DEF JoinQuery
<1>9. ASSUME NEW s \in Sockets, JoinResume(s) PROVE CoHostsHaveRows'
  BY <1>9 DEF JoinResume, Idle
<1>10. ASSUME NEW u \in Users, PromoteWrite(u) \/ PromoteResume(u)
       PROVE CoHostsHaveRows'
  BY <1>10 DEF HasRow, PromoteWrite, PromoteResume
<1>11. ASSUME NEW u \in Users, DemoteWrite(u) \/ DemoteResume(u) \/ StepDown(u)
       PROVE CoHostsHaveRows'
  BY <1>11 DEF HasRow, DemoteWrite, DemoteResume, StepDown
<1>12. ASSUME NEW u \in Users, RecordLeave(u) PROVE CoHostsHaveRows'
  BY <1>12 DEF RecordLeave
<1>13. CASE SetActive \/ ElectHost \/ ResetToScheduled \/ CleanupCount
            \/ CleanupReset
  BY <1>13 DEF SetActive, ElectHost, ResetToScheduled, CleanupCount, CleanupReset
<1> QED BY <1>1, <1>2, <1>3, <1>4, <1>5, <1>6, <1>7, <1>8, <1>9, <1>10, <1>11,
           <1>12, <1>13 DEF Next, ClientStep, ServerStep

\* Nobody is a co-host of the session without a participant row.
THEOREM CoHostsCorrect == Spec => []CoHostsHaveRows
<1>1. Init => CoHostsHaveRows
  BY DEF Init, CoHostsHaveRows, Idle
<1>2. CoHostsHaveRows /\ UNCHANGED vars => CoHostsHaveRows'
  BY DEF CoHostsHaveRows, vars, memory, handlers, database
<1> QED BY <1>1, <1>2, CoHostsStep, TypeCorrect, PTL DEF Spec

-----------------------------------------------------------------------------
\* A step of the session is a step of the abstract host protocol or leaves the
\* occupants and the host alone.
LEMMA RoomHostStep ==
  ASSUME TypeOK, Next
  PROVE  RH!Next \/ UNCHANGED <<participants, runtimeHost>>
<1> USE DEF TypeOK, MemoryOK, memory
<1>1. ASSUME NEW s \in Sockets, Join(s) PROVE RH!Enter(s)
  BY <1>1 DEF Join, FirstIn, RH!Enter
<1>2. ASSUME NEW s \in Sockets, Leave(s) \/ Disconnect(s) PROVE RH!Exit(s)
  BY <1>2 DEF Leave, WithoutSpeaker, Disconnect, ForgetHosts, RH!Exit
<1>3. ASSUME NEW s \in Sockets, NEW u \in Users, TransferHost(s, u)
      PROVE RH!HandOver(u)
  BY <1>3 DEF TransferHost, Present, RH!HandOver
<1>4. ASSUME NEW s \in Sockets, EndResume(s)
      PROVE RH!Close \/ UNCHANGED <<participants, runtimeHost>>
  BY <1>4 DEF EndResume, ForgetHosts, RH!Close
<1>5. CASE ElectHost
  BY <1>5 DEF ElectHost, RH!Next, RH!Elect
<1>6. CASE Restart
  BY <1>6 DEF Restart, RH!Next, RH!Close
<1>7. ASSUME NEW s \in Sockets, NEW u \in Users, NEW on \in BOOLEAN,
             \/ PromoteCoHost(s, u) \/ DemoteCoHost(s, u) \/ EndMeeting(s)
             \/ VoteCreate(s) \/ SpeakerState(s, on)
             \/ JoinQuery(s) \/ JoinResume(s)
      PROVE  UNCHANGED <<participants, runtimeHost>>
  BY <1>7 DEF PromoteCoHost, DemoteCoHost, EndMeeting, VoteCreate, SpeakerState,
              JoinQuery, JoinResume
<1>8. ASSUME NEW u \in Users,
             \/ GenerateToken(u) \/ AddCoHost(u) \/ RemoveCoHost(u)
             \/ RecordLeave(u) \/ StepDown(u)
             \/ PromoteWrite(u) \/ PromoteResume(u)
             \/ DemoteWrite(u) \/ DemoteResume(u)
      PROVE  UNCHANGED <<participants, runtimeHost>>
  BY <1>8 DEF GenerateToken, AddCoHost, RemoveCoHost, RecordLeave, StepDown,
              PromoteWrite, PromoteResume, DemoteWrite, DemoteResume
<1>9. CASE SetActive \/ ResetToScheduled \/ CleanupCount \/ CleanupReset
  BY <1>9 DEF SetActive, ResetToScheduled, CleanupCount, CleanupReset
<1> QED BY <1>1, <1>2, <1>3, <1>4, <1>5, <1>6, <1>7, <1>8, <1>9
        DEF Next, ClientStep, ServerStep, RH!Next

\* The session implements the abstract host protocol: the host is elected or
\* handed over to somebody present, and keeps office until the room is empty.
THEOREM RoomHostImplemented == Spec => ImplementsRoomHost
<1>1. Init => RH!Init
  BY DEF Init, RH!Init
<1>2. TypeOK /\ [Next]_vars => [RH!Next]_<<participants, runtimeHost>>
  BY RoomHostStep DEF vars, memory
<1> QED BY <1>1, <1>2, TypeCorrect, PTL DEF Spec, ImplementsRoomHost, RH!Spec
=============================================================================
