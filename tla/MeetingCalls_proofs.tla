-------------------------- MODULE MeetingCalls_proofs --------------------------
(***************************************************************************)
(* Theorems about meeting calls, for every set of request slots and any    *)
(* number of commands, with and without failures and restarts, and about   *)
(* what is said and voted in a meeting, for any sockets, users, options    *)
(* and bounds, with the transcription on or off.                           *)
(***************************************************************************)
EXTENDS MeetingCalls, MeetingFloor, TLAPS

USE CallBounds

-----------------------------------------------------------------------------
\* Every step keeps the variables in their types.
LEMMA StatusStep == ASSUME TypeOK, Next PROVE (status \in Statuses)'
<1> USE DEF TypeOK, RequestsOK, RequestStates, Statuses, Answers, Insert, row, invitee
<1>1. ASSUME NEW r \in Requests, Invite(r) \/ Cancel(r) PROVE (status \in Statuses)'
  BY <1>1 DEF Invite, Cancel
<1>2. ASSUME NEW r \in Requests, NEW a \in Answers, Answer(r, a)
      PROVE (status \in Statuses)'
  BY <1>2 DEF Answer
<1>3. ASSUME NEW r \in Requests, RequestStep(r) PROVE (status \in Statuses)'
  <2>1. CASE InviteRead(r) \/ InviteLoad(r) \/ InviteRing(r)
    BY <2>1 DEF InviteRead, InviteLoad, InviteRing
  <2>2. CASE InviteInsert(r) \/ InviteUpdate(r)
    BY <2>2 DEF InviteInsert, InviteUpdate, Rerings
  <2>3. CASE AnswerRead(r) \/ AnswerLoad(r) \/ AnswerStop(r)
    BY <2>3 DEF AnswerRead, AnswerLoad, AnswerStop
  <2>4. CASE AnswerInsert(r) \/ AnswerUpdate(r)
    BY <2>4 DEF AnswerInsert, AnswerUpdate
  <2>5. CASE CancelRead(r) \/ CancelDelete(r) \/ CancelStop(r)
    BY <2>5 DEF CancelRead, CancelDelete, CancelStop
  <2>6. CASE RequestFails(r)
    BY <2>6 DEF RequestFails
  <2> QED BY <1>3, <2>1, <2>2, <2>3, <2>4, <2>5, <2>6 DEF RequestStep
<1>4. ASSUME NEW id \in rings, TimerFires(id) PROVE (status \in Statuses)'
  BY <1>4 DEF TimerFires
<1>5. CASE MarkMissed
  BY <1>5 DEF MarkMissed, Missable
<1>6. CASE AutoCall \/ Enter \/ EnterDone \/ Leave \/ Restart
  BY <1>6 DEF AutoCall, AutoId, Enter, EnterDone, Leave, Restart
<1> QED BY <1>1, <1>2, <1>3, <1>4, <1>5, <1>6 DEF Next

LEMMA CommandStep == ASSUME commands \in 0..MaxCommands, Command
                     PROVE commands' \in 0..MaxCommands
BY DEF Command

LEMMA NumbersStep == ASSUME TypeOK, Next PROVE NumbersOK'
<1> USE DEF TypeOK, NumbersOK, RequestsOK, RequestStates, Insert, row, invitee
<1>1. ASSUME NEW r \in Requests, Invite(r) \/ Cancel(r) PROVE NumbersOK'
  BY <1>1, CommandStep DEF Invite, Cancel
<1>2. ASSUME NEW r \in Requests, NEW a \in Answers, Answer(r, a) PROVE NumbersOK'
  BY <1>2, CommandStep DEF Answer
<1>3. ASSUME NEW r \in Requests, RequestStep(r) PROVE NumbersOK'
  <2>1. CASE InviteRead(r)
    BY <2>1 DEF InviteRead
  <2>2. CASE InviteInsert(r)
    BY <2>2 DEF InviteInsert
  <2>3. CASE InviteUpdate(r)
    BY <2>3 DEF InviteUpdate
  <2>4. CASE InviteLoad(r)
    BY <2>4 DEF InviteLoad
  <2>5. CASE InviteRing(r)
    BY <2>5 DEF InviteRing
  <2>6. CASE AnswerRead(r)
    BY <2>6 DEF AnswerRead
  <2>7. CASE AnswerInsert(r)
    BY <2>7 DEF AnswerInsert
  <2>8. CASE AnswerUpdate(r)
    BY <2>8 DEF AnswerUpdate
  <2>9. CASE AnswerLoad(r)
    BY <2>9 DEF AnswerLoad
  <2>10. CASE AnswerStop(r)
    BY <2>10 DEF AnswerStop
  <2>11. CASE CancelRead(r)
    BY <2>11 DEF CancelRead
  <2>12. CASE CancelDelete(r)
    BY <2>12 DEF CancelDelete
  <2>13. CASE CancelStop(r)
    BY <2>13 DEF CancelStop
  <2>14. CASE RequestFails(r)
    BY <2>14 DEF RequestFails
  <2> QED BY <1>3, <2>1, <2>2, <2>3, <2>4, <2>5, <2>6, <2>7, <2>8, <2>9,
          <2>10, <2>11, <2>12, <2>13, <2>14 DEF RequestStep
<1>4. ASSUME NEW id \in rings, TimerFires(id) PROVE NumbersOK'
  BY <1>4 DEF TimerFires
<1>5. CASE MarkMissed
  BY <1>5 DEF MarkMissed, Missable
<1>6. CASE AutoCall
  BY <1>6, CommandStep DEF AutoCall, AutoId
<1>7. CASE Enter
  BY <1>7, CommandStep DEF Enter
<1>8. CASE EnterDone
  BY <1>8 DEF EnterDone
<1>9. CASE Leave
  BY <1>9, CommandStep DEF Leave
<1>10. CASE Restart
  BY <1>10, CommandStep DEF Restart
<1> QED BY <1>1, <1>2, <1>3, <1>4, <1>5, <1>6, <1>7, <1>8, <1>9, <1>10 DEF Next

LEMMA RequestsStep == ASSUME TypeOK, Next PROVE RequestsOK'
<1> USE DEF TypeOK, NumbersOK, RequestsOK, RequestStates, RequestSteps, Answers,
      At, GoTo, Done, Idle, row, invitee
<1>1. ASSUME NEW r \in Requests, Invite(r) \/ Cancel(r) PROVE RequestsOK'
  BY <1>1 DEF Invite, Cancel
<1>2. ASSUME NEW r \in Requests, NEW a \in Answers, Answer(r, a) PROVE RequestsOK'
  BY <1>2 DEF Answer
<1>3. ASSUME NEW r \in Requests, RequestStep(r) PROVE RequestsOK'
  <2>1. CASE InviteRead(r) \/ InviteLoad(r) \/ InviteRing(r)
    BY <2>1 DEF InviteRead, InviteLoad, InviteRing
  <2>2. CASE InviteInsert(r) \/ InviteUpdate(r)
    BY <2>2 DEF InviteInsert, InviteUpdate, Rerings
  <2>3. CASE AnswerRead(r) \/ AnswerLoad(r) \/ AnswerStop(r)
    BY <2>3 DEF AnswerRead, AnswerLoad, AnswerStop
  <2>4. CASE AnswerInsert(r) \/ AnswerUpdate(r)
    BY <2>4 DEF AnswerInsert, AnswerUpdate
  <2>5. CASE CancelRead(r) \/ CancelDelete(r) \/ CancelStop(r)
    BY <2>5 DEF CancelRead, CancelDelete, CancelStop
  <2>6. CASE RequestFails(r)
    BY <2>6 DEF RequestFails
  <2> QED BY <1>3, <2>1, <2>2, <2>3, <2>4, <2>5, <2>6 DEF RequestStep
<1>4. ASSUME NEW id \in rings, TimerFires(id) PROVE RequestsOK'
  BY <1>4 DEF TimerFires
<1>5. CASE MarkMissed
  BY <1>5 DEF MarkMissed, Missable
<1>6. CASE AutoCall \/ Enter \/ EnterDone \/ Leave \/ Restart
  BY <1>6 DEF AutoCall, AutoId, Enter, EnterDone, Leave, Restart
<1> QED BY <1>1, <1>2, <1>3, <1>4, <1>5, <1>6 DEF Next

LEMMA FlagsStep == ASSUME TypeOK, Next PROVE FlagsOK'
<1> USE DEF TypeOK, FlagsOK, row, invitee
<1>1. ASSUME NEW r \in Requests, Invite(r) \/ Cancel(r) PROVE FlagsOK'
  BY <1>1 DEF Invite, Cancel
<1>2. ASSUME NEW r \in Requests, NEW a \in Answers, Answer(r, a) PROVE FlagsOK'
  BY <1>2 DEF Answer
<1>3. ASSUME NEW r \in Requests, RequestStep(r) PROVE FlagsOK'
  <2>1. CASE InviteRead(r) \/ InviteLoad(r) \/ InviteRing(r)
    BY <2>1 DEF InviteRead, InviteLoad, InviteRing
  <2>2. CASE InviteInsert(r) \/ InviteUpdate(r)
    BY <2>2 DEF InviteInsert, InviteUpdate, Rerings
  <2>3. CASE AnswerRead(r) \/ AnswerLoad(r) \/ AnswerStop(r)
    BY <2>3 DEF AnswerRead, AnswerLoad, AnswerStop
  <2>4. CASE AnswerInsert(r) \/ AnswerUpdate(r)
    BY <2>4 DEF AnswerInsert, AnswerUpdate
  <2>5. CASE CancelRead(r) \/ CancelDelete(r) \/ CancelStop(r)
    BY <2>5 DEF CancelRead, CancelDelete, CancelStop
  <2>6. CASE RequestFails(r)
    BY <2>6 DEF RequestFails
  <2> QED BY <1>3, <2>1, <2>2, <2>3, <2>4, <2>5, <2>6 DEF RequestStep
<1>4. ASSUME NEW id \in rings, TimerFires(id) PROVE FlagsOK'
  BY <1>4 DEF TimerFires
<1>5. CASE MarkMissed
  BY <1>5 DEF MarkMissed, Missable
<1>6. CASE AutoCall \/ Enter \/ EnterDone \/ Leave \/ Restart
  BY <1>6 DEF AutoCall, AutoId, Enter, EnterDone, Leave, Restart
<1> QED BY <1>1, <1>2, <1>3, <1>4, <1>5, <1>6 DEF Next

LEMMA TypeStep == ASSUME TypeOK, Next PROVE TypeOK'
BY StatusStep, NumbersStep, RequestsStep, FlagsStep DEF TypeOK

LEMMA TypeInit == Init => TypeOK
<1> SUFFICES ASSUME Init PROVE TypeOK
  OBVIOUS
<1>1. status \in Statuses /\ NumbersOK
  BY DEF Init, Statuses, NumbersOK
<1>2. RequestsOK
  BY DEF Init, RequestsOK, Idle, RequestStates, RequestSteps, Answers
<1>3. FlagsOK
  BY DEF Init, FlagsOK
<1> QED BY <1>1, <1>2, <1>3 DEF TypeOK

\* The type invariant of MeetingCalls (meetings.gateway.ts, meetings.service.ts):
\* rows, timers and requests stay in their domains.
THEOREM TypeCorrect == Spec => []TypeOK
<1>1. Init => TypeOK
  BY TypeInit
<1>2. TypeOK /\ [Next]_vars => TypeOK'
  BY TypeStep DEF TypeOK, NumbersOK, RequestsOK, FlagsOK, vars, row, invitee
<1> QED BY <1>1, <1>2, PTL DEF Spec

-----------------------------------------------------------------------------
\* A timer that rings late never overwrites an answer: the UPDATE of
\* markInviteMissed names the status it expects, and no other step writes missed.
THEOREM AnswerKeptCorrect == Spec => AnswerKept
<1> DEFINE Kept == (status \in Answers) => (status' # "missed")
<1>1. ASSUME TypeOK, [Next]_vars PROVE Kept
  <2> SUFFICES ASSUME status \in Answers, status' = "missed" PROVE FALSE
    OBVIOUS
  <2> USE DEF Answers, row, vars, Insert
  <2>1. ASSUME NEW r \in Requests, RequestStep(r) PROVE FALSE
    <3> USE DEF TypeOK, RequestsOK, RequestStates
    <3>1. CASE InviteRead(r) \/ InviteLoad(r) \/ InviteRing(r) \/ RequestFails(r)
      BY <3>1 DEF InviteRead, InviteLoad, InviteRing, RequestFails
    <3>2. CASE InviteInsert(r) \/ InviteUpdate(r)
      BY <3>2 DEF InviteInsert, InviteUpdate
    <3>3. CASE AnswerRead(r) \/ AnswerLoad(r) \/ AnswerStop(r)
      BY <3>3 DEF AnswerRead, AnswerLoad, AnswerStop
    <3>4. CASE AnswerInsert(r)
      <4>1. status = "none" \/ UNCHANGED status
        BY <3>4 DEF AnswerInsert
      <4> QED BY <4>1
    <3>5. CASE AnswerUpdate(r)
      <4>1. request[r].answer \in Answers
        BY <1>1
      <4>2. status' \in Answers
        BY <3>5, <4>1 DEF AnswerUpdate
      <4> QED BY <4>2
    <3>6. CASE CancelRead(r) \/ CancelDelete(r) \/ CancelStop(r)
      BY <3>6 DEF CancelRead, CancelDelete, CancelStop
    <3> QED BY <2>1, <3>1, <3>2, <3>3, <3>4, <3>5, <3>6 DEF RequestStep
  <2>2. CASE MarkMissed
    BY <2>2 DEF MarkMissed, Missable
  <2>3. CASE \E r \in Requests : Invite(r) \/ Cancel(r)
                                  \/ \E a \in Answers : Answer(r, a)
    BY <2>3 DEF Invite, Cancel, Answer
  <2>4. CASE \E id \in rings : TimerFires(id)
    BY <2>4 DEF TimerFires
  <2>5. CASE AutoCall \/ Enter \/ EnterDone \/ Leave \/ Restart \/ UNCHANGED vars
    BY <2>5 DEF AutoCall, Enter, EnterDone, Leave, Restart
  <2> QED BY <1>1, <2>1, <2>2, <2>3, <2>4, <2>5 DEF Next
<1>2. ASSUME TypeOK, [Next]_vars PROVE [Kept]_vars
  BY <1>1, <1>2
<1> QED BY <1>2, TypeCorrect, PTL DEF Spec, AnswerKept

-----------------------------------------------------------------------------
\* Ids are given out once: what a request read is not the id of a later row.  A
\* request that is to stop the timer of a deleted row thus stops no other row's.
IdsFresh ==
    /\ inviteId < nextId
    /\ \A r \in Requests :
          /\ request[r].id < nextId
          /\ request[r].step = "cancelStop" => request[r].id \notin {0, inviteId}

PendingInv == TypeOK /\ IdsFresh /\ PendingAccountedFor

LEMMA IdsFreshStep == ASSUME TypeOK, IdsFresh, Next PROVE IdsFresh'
<1> USE DEF IdsFresh, TypeOK, NumbersOK, RequestsOK, RequestStates, row, invitee,
      Command, At, GoTo, Done, Idle, Insert
<1>1. ASSUME NEW r \in Requests, Invite(r) \/ Cancel(r) PROVE IdsFresh'
  BY <1>1 DEF Invite, Cancel
<1>2. ASSUME NEW r \in Requests, NEW a \in Answers, Answer(r, a) PROVE IdsFresh'
  BY <1>2 DEF Answer
<1>3. ASSUME NEW r \in Requests, RequestStep(r) PROVE IdsFresh'
  <2>1. CASE InviteRead(r) \/ InviteLoad(r) \/ InviteRing(r)
    BY <2>1 DEF InviteRead, InviteLoad, InviteRing
  <2>2. CASE InviteInsert(r)
    BY <2>2 DEF InviteInsert
  <2>3. CASE InviteUpdate(r)
    BY <2>3 DEF InviteUpdate, Rerings
  <2>4. CASE AnswerRead(r) \/ AnswerLoad(r) \/ AnswerStop(r)
    BY <2>4 DEF AnswerRead, AnswerLoad, AnswerStop
  <2>5. CASE AnswerInsert(r) \/ AnswerUpdate(r)
    BY <2>5 DEF AnswerInsert, AnswerUpdate
  <2>6. CASE CancelRead(r) \/ CancelDelete(r) \/ CancelStop(r)
    BY <2>6 DEF CancelRead, CancelDelete, CancelStop
  <2>7. CASE RequestFails(r)
    BY <2>7 DEF RequestFails
  <2> QED BY <1>3, <2>1, <2>2, <2>3, <2>4, <2>5, <2>6, <2>7 DEF RequestStep
<1>4. ASSUME NEW id \in rings, TimerFires(id) PROVE IdsFresh'
  BY <1>4 DEF TimerFires
<1>5. CASE MarkMissed \/ AutoCall \/ Enter \/ EnterDone \/ Leave
  BY <1>5 DEF MarkMissed, AutoCall, Enter, EnterDone, Leave
<1>6. CASE Restart
  BY <1>6 DEF Restart
<1> QED BY <1>1, <1>2, <1>3, <1>4, <1>5, <1>6 DEF Next

LEMMA PendingStep == ASSUME PendingInv, Next PROVE PendingAccountedFor'
<1> USE DEF PendingInv, PendingAccountedFor, IdsFresh, TypeOK, NumbersOK,
      RequestsOK, RequestStates, row, invitee, Command, At, GoTo, Done, Idle, Has,
      Insert
<1>1. ASSUME NEW r \in Requests, Invite(r) \/ Cancel(r) PROVE PendingAccountedFor'
  BY <1>1 DEF Invite, Cancel
<1>2. ASSUME NEW r \in Requests, NEW a \in Answers, Answer(r, a)
      PROVE PendingAccountedFor'
  BY <1>2 DEF Answer
<1>3. ASSUME NEW r \in Requests, RequestStep(r) PROVE PendingAccountedFor'
  <2>1. CASE InviteRead(r)
    BY <2>1 DEF InviteRead
  <2>2. CASE InviteInsert(r)
    BY <2>2 DEF InviteInsert
  <2>3. CASE InviteUpdate(r)
    BY <2>3 DEF InviteUpdate, Rerings
  <2>4. CASE InviteLoad(r)
    BY <2>4 DEF InviteLoad
  <2>5. CASE InviteRing(r)
    BY <2>5 DEF InviteRing
  <2>6. CASE AnswerRead(r) \/ AnswerLoad(r)
    BY <2>6 DEF AnswerRead, AnswerLoad
  <2>7. CASE AnswerInsert(r)
    BY <2>7 DEF AnswerInsert, Answers
  <2>8. CASE AnswerUpdate(r)
    BY <2>8 DEF AnswerUpdate, Answers
  <2>9. CASE AnswerStop(r)
    BY <2>9 DEF AnswerStop
  <2>10. CASE CancelRead(r) \/ CancelDelete(r)
    BY <2>10 DEF CancelRead, CancelDelete
  <2>11. CASE CancelStop(r)
    BY <2>11 DEF CancelStop
  <2>12. CASE RequestFails(r)
    BY <2>12 DEF RequestFails, DbSteps
  <2> QED BY <1>3, <2>1, <2>2, <2>3, <2>4, <2>5, <2>6, <2>7, <2>8, <2>9, <2>10,
          <2>11, <2>12 DEF RequestStep
<1>4. ASSUME NEW id \in rings, TimerFires(id) PROVE PendingAccountedFor'
  BY <1>4 DEF TimerFires
<1>5. CASE MarkMissed
  BY <1>5 DEF MarkMissed, Missable
<1>6. CASE AutoCall \/ Enter \/ EnterDone \/ Leave \/ Restart
  BY <1>6 DEF AutoCall, Enter, EnterDone, Leave, Restart
<1> QED BY <1>1, <1>2, <1>3, <1>4, <1>5, <1>6 DEF Next

\* No order of overlapping invite, answer and cancel requests, timers, joins
\* and failures leaves an invite pending with nothing on its way to resolve it,
\* unless something excused it (meetings.controller.ts:162-294).
THEOREM PendingAccountedForCorrect == Spec => []PendingAccountedFor
<1>1. Init => PendingInv
  <2>1. Init => IdsFresh /\ PendingAccountedFor
    BY DEF Init, IdsFresh, PendingAccountedFor, Idle
  <2> QED BY <2>1, TypeInit DEF PendingInv
<1>2. PendingInv /\ [Next]_vars => PendingInv'
  <2>1. ASSUME PendingInv, Next PROVE PendingInv'
    BY <2>1, TypeStep, IdsFreshStep, PendingStep DEF PendingInv
  <2>2. ASSUME PendingInv, UNCHANGED vars PROVE PendingInv'
    BY <2>2 DEF PendingInv, PendingAccountedFor, IdsFresh, TypeOK, NumbersOK,
         RequestsOK, FlagsOK, vars, row, invitee
  <2> QED BY <2>1, <2>2
<1>3. PendingInv => PendingAccountedFor
  BY DEF PendingInv
<1> QED BY <1>1, <1>2, <1>3, PTL DEF Spec

-----------------------------------------------------------------------------
(* The floor of a meeting: types.                                          *)

USE FloorAssumption

Chunk == [client: Clients, n: 1..MaxChunks, at: {"groq", "whisper", "translate"}]
Event == [of: Clients, n: 1..MaxChunks, kind: {"partial", "update"}]
Vote ==
  [id: 1..MaxVotes, by: Voters, invited: SUBSET Voters, single: BOOLEAN, open: BOOLEAN,
   cast: [Voters -> SUBSET Options], session: 0..MaxSessions]

PeopleTypes ==
  /\ inRoom \subseteq Clients /\ gone \subseteq Clients /\ inRoom \cap gone = {}
  /\ session \in 0..MaxSessions

AudioTypes ==
  /\ processing \subseteq Clients
  /\ chunks \subseteq Chunk
  /\ spoken \in [Clients -> 0..MaxChunks]
  /\ screen \in [Viewers -> Seq(Event)]

VoteTypes ==
  /\ votes \subseteq Vote
  /\ voted \in 0..MaxVotes
  /\ \A v \in votes : v.id \in 1..voted /\ v.session \in 0..session

Types == PeopleTypes /\ AudioTypes /\ VoteTypes

LEMMA TypesInit == FloorInit => Types
<1> SUFFICES ASSUME FloorInit PROVE Types
  OBVIOUS
<1>1. PeopleTypes /\ VoteTypes
  BY DEF FloorInit, PeopleTypes, VoteTypes
<1>2. AudioTypes
  BY DEF FloorInit, AudioTypes
<1> QED BY <1>1, <1>2 DEF Types

LEMMA PeopleTypesStep == Types /\ [FloorNext]_floorVars => PeopleTypes'
<1> SUFFICES ASSUME Types, [FloorNext]_floorVars PROVE PeopleTypes'
  OBVIOUS
<1> USE DEF Types, PeopleTypes
<1>1. ASSUME NEW c \in Clients, ComeIn(c) PROVE PeopleTypes'
  BY <1>1 DEF ComeIn
<1>2. ASSUME NEW c \in Clients, GoOut(c) PROVE PeopleTypes'
  BY <1>2 DEF GoOut
<1>3. ASSUME NEW c \in Clients, HangUp(c) PROVE PeopleTypes'
  BY <1>3 DEF HangUp
<1>4. CASE CloseRoom
  BY <1>4 DEF CloseRoom
<1>5. CASE AudioNext
  BY <1>5 DEF AudioNext, AudioStream, ChunkStep, Transcribed, NothingHeard, GroqFails,
              WhisperFails, Translated, TranslationFails
<1>6. CASE VotesNext
  BY <1>6 DEF VotesNext, VoteCreate, VoteCast, VoteClose
<1>7. CASE UNCHANGED floorVars
  BY <1>7 DEF floorVars
<1> QED BY <1>1, <1>2, <1>3, <1>4, <1>5, <1>6, <1>7 DEF FloorNext, PeopleNext

\* A subtitle event appends one event to each screen in the room.
LEMMA SubtitleTypes ==
  ASSUME AudioTypes, NEW x \in chunks, NEW kind \in {"partial", "update"}, Subtitle(x, kind)
  PROVE  screen' \in [Viewers -> Seq(Event)]
<1>1. [of |-> x.client, n |-> x.n, kind |-> kind] \in Event
  BY DEF AudioTypes, Chunk, Event
<1> QED BY <1>1 DEF AudioTypes, Subtitle

LEMMA AudioTypesStep == Types /\ [FloorNext]_floorVars => AudioTypes'
<1> SUFFICES ASSUME Types, [FloorNext]_floorVars PROVE AudioTypes'
  OBVIOUS
<1> USE DEF Types, AudioTypes
<1>1. CASE PeopleNext
  BY <1>1 DEF PeopleNext, ComeIn, GoOut, HangUp, CloseRoom, audioVars
<1>2. ASSUME NEW c \in Clients, AudioStream(c) PROVE AudioTypes'
  <2>1. spoken'[c] \in 1..MaxChunks /\ spoken' \in [Clients -> 0..MaxChunks]
    BY <1>2 DEF AudioStream
  <2>2. [client |-> c, n |-> spoken'[c], at |-> FirstService] \in Chunk
    BY <2>1 DEF Chunk, FirstService
  <2> QED BY <1>2, <2>1, <2>2 DEF AudioStream
<1>3. ASSUME NEW x \in chunks, ChunkStep(x) PROVE AudioTypes'
  <2>1. CASE Transcribed(x)
    <3>1. screen' \in [Viewers -> Seq(Event)]
      BY <2>1, SubtitleTypes DEF Transcribed
    <3> QED BY <2>1, <3>1 DEF Transcribed, Become, Chunk
  <2>2. CASE Translated(x)
    <3>1. screen' \in [Viewers -> Seq(Event)]
      BY <2>2, SubtitleTypes DEF Translated
    <3> QED BY <2>2, <3>1 DEF Translated, Release
  <2>3. CASE GroqFails(x)
    BY <2>3 DEF GroqFails, Become, Chunk
  <2>4. CASE NothingHeard(x) \/ WhisperFails(x) \/ TranslationFails(x)
    BY <2>4 DEF NothingHeard, WhisperFails, TranslationFails, Release
  <2> QED BY <1>3, <2>1, <2>2, <2>3, <2>4 DEF ChunkStep
<1>4. CASE VotesNext
  BY <1>4 DEF VotesNext, VoteCreate, VoteCast, VoteClose, audioVars
<1>5. CASE UNCHANGED floorVars
  BY <1>5 DEF floorVars
<1> QED BY <1>1, <1>2, <1>3, <1>4, <1>5 DEF FloorNext, AudioNext

\* A vote that is cast or closed keeps its number and its session.
LEMMA VoteChanged ==
  ASSUME NEW v \in Vote, NEW u \in Voters, NEW chosen \in SUBSET Options
  PROVE  LET cast == [v EXCEPT !.cast = [@ EXCEPT ![u] = chosen]]
             closed == [v EXCEPT !.open = FALSE]
         IN /\ cast \in Vote /\ cast.id = v.id /\ cast.session = v.session
            /\ closed \in Vote /\ closed.id = v.id /\ closed.session = v.session
<1> DEFINE ballot == [v.cast EXCEPT ![u] = chosen]
<1>1. ballot \in [Voters -> SUBSET Options]
  BY DEF Vote
<1> HIDE DEF ballot
<1>2. [v EXCEPT !.cast = ballot] \in Vote
  BY <1>1 DEF Vote
<1>3. /\ [v EXCEPT !.cast = ballot].id = v.id
      /\ [v EXCEPT !.cast = ballot].session = v.session
  BY DEF Vote
<1>4. [v EXCEPT !.open = FALSE] \in Vote
  BY DEF Vote
<1>5. [v EXCEPT !.open = FALSE].id = v.id /\ [v EXCEPT !.open = FALSE].session = v.session
  BY DEF Vote
<1> QED BY <1>2, <1>3, <1>4, <1>5 DEF ballot

LEMMA VoteTypesStep == Types /\ [FloorNext]_floorVars => VoteTypes'
<1> SUFFICES ASSUME Types, [FloorNext]_floorVars PROVE VoteTypes'
  OBVIOUS
<1> USE DEF Types, PeopleTypes, VoteTypes
<1>1. ASSUME NEW c \in Clients, ComeIn(c) PROVE VoteTypes'
  BY <1>1 DEF ComeIn, voteVars
<1>2. ASSUME NEW c \in Clients, GoOut(c) PROVE VoteTypes'
  BY <1>2 DEF GoOut
<1>3. ASSUME NEW c \in Clients, HangUp(c) PROVE VoteTypes'
  BY <1>3 DEF HangUp
<1>4. CASE CloseRoom
  BY <1>4 DEF CloseRoom
<1>5. CASE AudioNext
  BY <1>5 DEF AudioNext, AudioStream, ChunkStep, Transcribed, NothingHeard, GroqFails,
              WhisperFails, Translated, TranslationFails, voteVars
<1>6. ASSUME NEW c \in Clients, NEW invited \in SUBSET Voters, NEW single \in BOOLEAN,
             VoteCreate(c, invited, single)
      PROVE  VoteTypes'
  <2>1. voted' \in 1..MaxVotes /\ voted' = voted + 1 /\ session' = session
    BY <1>6 DEF VoteCreate
  <2>2. VoterOf[c] \in Voters /\ NoVote \in [Voters -> SUBSET Options]
    BY DEF NoVote
  <2> DEFINE w == [id |-> voted', by |-> VoterOf[c], invited |-> invited, single |-> single,
                   open |-> TRUE, cast |-> NoVote, session |-> session]
  <2>3. w \in Vote /\ w.id = voted' /\ w.session = session
    BY <2>1, <2>2 DEF Vote
  <2>4. votes' = votes \cup {w}
    BY <1>6 DEF VoteCreate
  <2> HIDE DEF w
  <2> QED BY <2>1, <2>3, <2>4
<1>7. ASSUME NEW c \in Clients, NEW v \in votes, NEW chosen \in SUBSET Options,
             VoteCast(c, v, chosen)
      PROVE  VoteTypes'
  <2>1. VoterOf[c] \in Voters /\ v \in Vote
    OBVIOUS
  <2> DEFINE w == [v EXCEPT !.cast = [@ EXCEPT ![VoterOf[c]] = chosen]]
  <2>2. w \in Vote /\ w.id = v.id /\ w.session = v.session
    BY <2>1, VoteChanged
  <2>3. votes' = (votes \ {v}) \cup {w} /\ voted' = voted /\ session' = session
    BY <1>7 DEF VoteCast
  <2> HIDE DEF w
  <2> QED BY <2>2, <2>3
<1>8. ASSUME NEW c \in Clients, NEW v \in votes, VoteClose(c, v) PROVE VoteTypes'
  <2> DEFINE w == [v EXCEPT !.open = FALSE]
  <2>1. VoterOf[c] \in Voters /\ v \in Vote
    OBVIOUS
  <2>2. w \in Vote /\ w.id = v.id /\ w.session = v.session
    BY <2>1, VoteChanged
  <2>3. votes' = (votes \ {v}) \cup {w} /\ voted' = voted /\ session' = session
    BY <1>8 DEF VoteClose
  <2> HIDE DEF w
  <2> QED BY <2>2, <2>3
<1>9. CASE UNCHANGED floorVars
  BY <1>9 DEF floorVars
<1> QED BY <1>1, <1>2, <1>3, <1>4, <1>5, <1>6, <1>7, <1>8, <1>9
        DEF FloorNext, PeopleNext, VotesNext

LEMMA TypesStep == Types /\ [FloorNext]_floorVars => Types'
BY PeopleTypesStep, AudioTypesStep, VoteTypesStep DEF Types

\* The variables of the floor have their types; in particular nobody who has
\* disconnected is in the room, and the numbers of votes and sessions count up
\* (meetings.gateway.ts, lines 183-197).
THEOREM FloorTypeCorrect == FloorSpec => []FloorTypeOK
<1>1. FloorInit => Types
  BY TypesInit
<1>2. Types /\ [FloorNext]_floorVars => Types'
  BY TypesStep
<1>3. Types => FloorTypeOK
  BY DEF Types, PeopleTypes, AudioTypes, VoteTypes, FloorTypeOK, Chunk
<1> QED BY <1>1, <1>2, <1>3, PTL DEF FloorSpec

-----------------------------------------------------------------------------
(* Votes.                                                                  *)

\* While nobody is in the room, the votes of the meeting are those known to be left over:
\* what the room holds when it fills is then of this session or known.
VotesInv ==
  \A v \in votes : v.id \in carried \/ (inRoom # {} /\ v.session = session)

LEMMA VotesInvStep == Types /\ VotesInv /\ [FloorNext]_floorVars => VotesInv'
<1> SUFFICES ASSUME Types, VotesInv, [FloorNext]_floorVars PROVE VotesInv'
  OBVIOUS
<1> USE DEF VotesInv
<1>1. ASSUME NEW c \in Clients, ComeIn(c) PROVE VotesInv'
  BY <1>1 DEF ComeIn, voteVars
<1>2. ASSUME NEW c \in Clients, GoOut(c) PROVE VotesInv'
  BY <1>2 DEF GoOut
<1>3. ASSUME NEW c \in Clients, HangUp(c) PROVE VotesInv'
  BY <1>3 DEF HangUp
<1>4. CASE CloseRoom
  BY <1>4 DEF CloseRoom
<1>5. CASE AudioNext
  BY <1>5 DEF AudioNext, AudioStream, ChunkStep, Transcribed, NothingHeard, GroqFails,
              WhisperFails, Translated, TranslationFails, voteVars
<1>6. ASSUME NEW c \in Clients, NEW invited \in SUBSET Voters, NEW single \in BOOLEAN,
             VoteCreate(c, invited, single)
      PROVE  VotesInv'
  <2> DEFINE w == [id |-> voted', by |-> VoterOf[c], invited |-> invited, single |-> single,
                   open |-> TRUE, cast |-> NoVote, session |-> session]
  <2>1. w.id = voted' /\ w.session = session
    OBVIOUS
  <2>2. /\ votes' = votes \cup {w}
        /\ carried' = IF inRoom = {} THEN carried \cup {voted'} ELSE carried
        /\ inRoom' = inRoom /\ session' = session
    BY <1>6 DEF VoteCreate
  <2> HIDE DEF w
  <2> QED BY <2>1, <2>2
<1>7. ASSUME NEW c \in Clients, NEW v \in votes, NEW chosen \in SUBSET Options,
             VoteCast(c, v, chosen)
      PROVE  VotesInv'
  <2>1. VoterOf[c] \in Voters /\ v \in Vote
    BY DEF Types, VoteTypes
  <2> DEFINE w == [v EXCEPT !.cast = [@ EXCEPT ![VoterOf[c]] = chosen]]
  <2>2. w.id = v.id /\ w.session = v.session
    BY <2>1, VoteChanged
  <2>3. votes' = (votes \ {v}) \cup {w} /\ UNCHANGED <<inRoom, carried, session>>
    BY <1>7 DEF VoteCast
  <2> HIDE DEF w
  <2> QED BY <2>2, <2>3
<1>8. ASSUME NEW c \in Clients, NEW v \in votes, VoteClose(c, v) PROVE VotesInv'
  <2> DEFINE w == [v EXCEPT !.open = FALSE]
  <2>1. VoterOf[c] \in Voters /\ v \in Vote
    BY DEF Types, VoteTypes
  <2>2. w.id = v.id /\ w.session = v.session
    BY <2>1, VoteChanged
  <2>3. votes' = (votes \ {v}) \cup {w} /\ UNCHANGED <<inRoom, carried, session>>
    BY <1>8 DEF VoteClose
  <2> HIDE DEF w
  <2> QED BY <2>2, <2>3
<1>9. CASE UNCHANGED floorVars
  BY <1>9 DEF floorVars
<1> QED BY <1>1, <1>2, <1>3, <1>4, <1>5, <1>6, <1>7, <1>8, <1>9
        DEF FloorNext, PeopleNext, VotesNext

\* A session starts with no votes of an earlier one but those leave_meeting of the last
\* participant leaves behind and those opened in an empty room (meetings.gateway.ts, lines
\* 266, 456-459 and 1006-1049).
THEOREM VotesAreOfSessionCorrect == FloorSpec => []VotesAreOfSession
<1>1. FloorInit => Types /\ VotesInv
  BY TypesInit DEF FloorInit, VotesInv
<1>2. Types /\ VotesInv /\ [FloorNext]_floorVars => Types' /\ VotesInv'
  BY TypesStep, VotesInvStep
<1>3. VotesInv => VotesAreOfSession
  BY DEF VotesInv, VotesAreOfSession
<1> QED BY <1>1, <1>2, <1>3, PTL DEF FloorSpec

-----------------------------------------------------------------------------
(* Subtitles.                                                              *)

\* A socket has one chunk at work, the last it sent; while it lasts the socket is busy, or
\* it has disconnected and sends no more.
OneAtWork ==
  /\ \A x \in chunks : x.client \in processing \cup gone /\ x.n = spoken[x.client]
  /\ \A x, y \in chunks : x.client = y.client => x = y

\* What a screen shows of a socket is not of a later chunk than the last.
NothingAhead ==
  \A c \in Viewers : \A i \in DOMAIN screen[c] :
    screen[c][i].n <= spoken[screen[c][i].of]

\* Of a chunk at work nothing is shown yet, or its text, and the translation is awaited.
NotAnswered ==
  \A x \in chunks : \A c \in Viewers : \A i \in DOMAIN screen[c] :
    screen[c][i].of = x.client =>
      \/ screen[c][i].n < x.n
      \/ screen[c][i].n = x.n /\ screen[c][i].kind = "partial" /\ x.at = "translate"

AudioInv == OneAtWork /\ NothingAhead /\ NotAnswered /\ SubtitlesInOrder

\* Where the room and the screens stay as they are, and chunks end or stay as they are.
LEMMA AudioStays ==
  ASSUME Types, AudioInv, UNCHANGED <<spoken, screen>>, chunks' \subseteq chunks,
         \A x \in chunks' : x.client \in processing' \cup gone'
  PROVE  AudioInv'
BY DEF AudioInv, OneAtWork, NothingAhead, NotAnswered, SubtitlesInOrder

\* The chunk of a socket ends, and the socket is free.
LEMMA Released ==
  ASSUME Types, AudioInv, NEW x \in chunks, Release(x), UNCHANGED gone
  PROVE  /\ chunks' = chunks \ {x}
         /\ \A y \in chunks' : y.client \in processing' \cup gone'
BY DEF AudioInv, OneAtWork, Release

\* A new event x of the given kind on the screens, after all of the earlier chunks.
LEMMA EventAppended ==
  ASSUME Types, NEW x \in chunks, NEW kind \in {"partial", "update"}, Subtitle(x, kind),
         NEW c \in Viewers, NEW i \in DOMAIN screen'[c]
  PROVE  \/ i \in DOMAIN screen[c] /\ screen'[c][i] = screen[c][i]
         \/ /\ i = Len(screen[c]) + 1 /\ Len(screen'[c]) = i
            /\ screen'[c][i].of = x.client
            /\ screen'[c][i].n = x.n
            /\ screen'[c][i].kind = kind
<1> DEFINE e == [of |-> x.client, n |-> x.n, kind |-> kind]
<1>1. e \in Event
  BY DEF Types, AudioTypes, Chunk, Event
<1>2. screen[c] \in Seq(Event)
  BY DEF Types, AudioTypes
<1>3. screen'[c] = Append(screen[c], e) \/ screen'[c] = screen[c]
  BY DEF Subtitle
<1>4. e.of = x.client /\ e.n = x.n /\ e.kind = kind
  OBVIOUS
<1> HIDE DEF e
<1>5. CASE screen'[c] = screen[c]
  BY <1>5
<1>6. CASE screen'[c] = Append(screen[c], e)
  <2>1. /\ DOMAIN screen'[c] = 1..Len(screen[c]) + 1
        /\ Len(screen'[c]) = Len(screen[c]) + 1
        /\ \A j \in 1..Len(screen[c]) : screen'[c][j] = screen[c][j]
        /\ screen'[c][Len(screen[c]) + 1] = e
    BY <1>1, <1>2, <1>6
  <2>2. Len(screen[c]) \in Nat /\ DOMAIN screen[c] = 1..Len(screen[c])
    BY <1>2
  <2> QED BY <2>1, <2>2, <1>4
<1> QED BY <1>3, <1>5, <1>6

\* An event of the chunk at work keeps the order: what the screens show of its socket is of
\* earlier chunks, or the text of the one whose translation is shown now.
LEMMA EventKeepsOrder ==
  ASSUME Types, AudioInv, NEW x \in chunks, NEW kind \in {"partial", "update"},
         Subtitle(x, kind),
         (kind = "partial" /\ x.at # "translate") \/ (kind = "update" /\ x.at = "translate"),
         UNCHANGED spoken
  PROVE  NothingAhead' /\ SubtitlesInOrder'
<1>1. x.n \in Nat /\ x.n = spoken[x.client]
  BY DEF Types, AudioTypes, Chunk, AudioInv, OneAtWork
<1>2. NothingAhead'
  <2> SUFFICES ASSUME NEW c \in Viewers, NEW i \in DOMAIN screen'[c]
               PROVE  screen'[c][i].n <= spoken[screen'[c][i].of]
    BY DEF NothingAhead
  <2>1. CASE i \in DOMAIN screen[c] /\ screen'[c][i] = screen[c][i]
    BY <2>1 DEF AudioInv, NothingAhead
  <2>2. CASE screen'[c][i].of = x.client /\ screen'[c][i].n = x.n
    BY <2>2, <1>1
  <2> QED BY <2>1, <2>2, EventAppended
<1>3. SubtitlesInOrder'
  <2> SUFFICES ASSUME NEW c \in Viewers,
                      NEW i \in DOMAIN screen'[c], NEW j \in DOMAIN screen'[c],
                      i < j, screen'[c][i].of = screen'[c][j].of
               PROVE  \/ screen'[c][i].n < screen'[c][j].n
                      \/ /\ screen'[c][i].n = screen'[c][j].n
                         /\ screen'[c][i].kind = "partial" /\ screen'[c][j].kind = "update"
    BY DEF SubtitlesInOrder
  <2>1. /\ i \in Nat /\ j \in Nat /\ i <= Len(screen'[c]) /\ j <= Len(screen'[c])
        /\ DOMAIN screen[c] = 1..Len(screen[c])
    <3>1. screen'[c] \in Seq(Event)
      BY SubtitleTypes DEF Types
    <3> QED BY <3>1 DEF Types, AudioTypes
  <2>2. i \in DOMAIN screen[c] /\ screen'[c][i] = screen[c][i]
    BY <2>1, EventAppended
  <2>3. CASE j \in DOMAIN screen[c] /\ screen'[c][j] = screen[c][j]
    BY <2>2, <2>3 DEF AudioInv, SubtitlesInOrder
  <2>4. CASE screen'[c][j].of = x.client /\ screen'[c][j].n = x.n /\ screen'[c][j].kind = kind
    BY <2>2, <2>4 DEF AudioInv, NotAnswered
  <2> QED BY <2>3, <2>4, EventAppended
<1> QED BY <1>2, <1>3

LEMMA AudioInvStep == Types /\ AudioInv /\ [FloorNext]_floorVars => AudioInv'
<1> SUFFICES ASSUME Types, AudioInv, [FloorNext]_floorVars PROVE AudioInv'
  OBVIOUS
<1>1. ASSUME NEW c \in Clients, ComeIn(c) \/ GoOut(c) PROVE AudioInv'
  BY <1>1, AudioStays DEF ComeIn, GoOut, audioVars, AudioInv, OneAtWork
<1>2. ASSUME NEW c \in Clients, HangUp(c) PROVE AudioInv'
  BY <1>2, AudioStays DEF HangUp, AudioInv, OneAtWork
<1>3. CASE CloseRoom
  BY <1>3, AudioStays DEF CloseRoom, audioVars, AudioInv, OneAtWork
<1>4. CASE VotesNext
  BY <1>4, AudioStays DEF VotesNext, VoteCreate, VoteCast, VoteClose, audioVars, AudioInv,
                          OneAtWork
<1>5. CASE UNCHANGED floorVars
  BY <1>5, AudioStays DEF floorVars, AudioInv, OneAtWork
<1>6. ASSUME NEW c \in Clients, AudioStream(c) PROVE AudioInv'
  <2> DEFINE w == [client |-> c, n |-> spoken'[c], at |-> FirstService]
  <2>1. w.client = c /\ w.n = spoken'[c] /\ w.at = FirstService
    OBVIOUS
  <2>2. /\ chunks' = chunks \cup {w} /\ processing' = processing \cup {c}
        /\ c \notin processing \cup gone
        /\ UNCHANGED <<gone, screen>>
    BY <1>6 DEF AudioStream, Types, PeopleTypes
  <2>3. /\ spoken \in [Clients -> Nat]
        /\ spoken'[c] = spoken[c] + 1
        /\ \A d \in Clients \ {c} : spoken'[d] = spoken[d]
    BY <1>6 DEF AudioStream, Types, AudioTypes
  <2> HIDE DEF w
  <2>4. \A x \in chunks : x.client \in Clients /\ x.client # c
    BY <2>2 DEF AudioInv, OneAtWork, Types, AudioTypes, Chunk
  <2>5. OneAtWork'
    BY <2>1, <2>2, <2>3, <2>4 DEF AudioInv, OneAtWork
  <2>6. ASSUME NEW v \in Viewers, NEW i \in DOMAIN screen[v]
        PROVE  screen[v][i].of \in Clients /\ screen[v][i].n \in Nat
    <3>1. screen[v][i] \in Event
      BY DEF Types, AudioTypes
    <3> QED BY <3>1 DEF Event
  <2>7. NothingAhead'
    BY <2>2, <2>3, <2>6 DEF AudioInv, NothingAhead
  <2>8. NotAnswered'
    <3> SUFFICES ASSUME NEW x \in chunks \cup {w}, NEW v \in Viewers,
                        NEW i \in DOMAIN screen[v], screen[v][i].of = x.client
                 PROVE  \/ screen[v][i].n < x.n
                        \/ /\ screen[v][i].n = x.n /\ screen[v][i].kind = "partial"
                           /\ x.at = "translate"
      BY <2>2 DEF NotAnswered
    <3>1. CASE x \in chunks
      BY <3>1 DEF AudioInv, NotAnswered
    <3>2. CASE x = w
      BY <3>2, <2>1, <2>3, <2>6 DEF AudioInv, NothingAhead
    <3> QED BY <3>1, <3>2
  <2>9. SubtitlesInOrder'
    BY <2>2 DEF AudioInv, SubtitlesInOrder
  <2> QED BY <2>5, <2>7, <2>8, <2>9 DEF AudioInv
<1>7. ASSUME NEW x \in chunks,
             NothingHeard(x) \/ WhisperFails(x) \/ TranslationFails(x)
      PROVE  AudioInv'
  <2>1. Release(x) /\ UNCHANGED <<gone, spoken, screen>>
    BY <1>7 DEF NothingHeard, WhisperFails, TranslationFails
  <2> QED BY <2>1, Released, AudioStays
<1>8. ASSUME NEW x \in chunks, Translated(x) PROVE AudioInv'
  <2>1. /\ Release(x) /\ Subtitle(x, "update") /\ x.at = "translate"
        /\ UNCHANGED <<gone, spoken>>
    BY <1>8 DEF Translated
  <2>2. NothingAhead' /\ SubtitlesInOrder'
    BY <2>1, EventKeepsOrder
  <2>3. OneAtWork'
    BY <2>1, Released DEF AudioInv, OneAtWork
  <2>4. NotAnswered'
    <3> SUFFICES ASSUME NEW y \in chunks', NEW c \in Viewers, NEW i \in DOMAIN screen'[c],
                        screen'[c][i].of = y.client
                 PROVE  \/ screen'[c][i].n < y.n
                        \/ /\ screen'[c][i].n = y.n /\ screen'[c][i].kind = "partial"
                           /\ y.at = "translate"
      BY DEF NotAnswered
    <3>1. y \in chunks /\ y.client # x.client
      BY <2>1, Released DEF AudioInv, OneAtWork
    <3> QED BY <3>1, <2>1, EventAppended DEF AudioInv, NotAnswered
  <2> QED BY <2>2, <2>3, <2>4 DEF AudioInv
<1>9. ASSUME NEW x \in chunks, NEW at \in {"whisper", "translate"}, Become(x, at),
             UNCHANGED <<gone, processing, spoken>>
      PROVE  OneAtWork'
  <2> DEFINE w == [client |-> x.client, n |-> x.n, at |-> at]
  <2>1. w.client = x.client /\ w.n = x.n
    OBVIOUS
  <2>2. chunks' = (chunks \ {x}) \cup {w}
    BY <1>9 DEF Become
  <2> HIDE DEF w
  <2> QED BY <1>9, <2>1, <2>2 DEF AudioInv, OneAtWork
<1>10. ASSUME NEW x \in chunks, GroqFails(x) PROVE AudioInv'
  <2>1. /\ x.at = "groq" /\ Become(x, "whisper")
        /\ UNCHANGED <<gone, processing, spoken, screen>>
    BY <1>10 DEF GroqFails
  <2>2. OneAtWork'
    BY <2>1, <1>9
  <2>3. NotAnswered'
    BY <2>1 DEF Become, AudioInv, NotAnswered
  <2> QED BY <2>1, <2>2, <2>3 DEF AudioInv, NothingAhead, SubtitlesInOrder
<1>11. ASSUME NEW x \in chunks, Transcribed(x) PROVE AudioInv'
  <2>1. /\ x.at # "translate" /\ Subtitle(x, "partial") /\ Become(x, "translate")
        /\ UNCHANGED <<gone, processing, spoken>>
    BY <1>11 DEF Transcribed
  <2>2. OneAtWork'
    BY <2>1, <1>9
  <2>3. NothingAhead' /\ SubtitlesInOrder'
    BY <2>1, EventKeepsOrder
  <2>4. NotAnswered'
    <3> SUFFICES ASSUME NEW y \in chunks', NEW c \in Viewers, NEW i \in DOMAIN screen'[c],
                        screen'[c][i].of = y.client
                 PROVE  \/ screen'[c][i].n < y.n
                        \/ /\ screen'[c][i].n = y.n /\ screen'[c][i].kind = "partial"
                           /\ y.at = "translate"
      BY DEF NotAnswered
    <3> DEFINE w == [client |-> x.client, n |-> x.n, at |-> "translate"]
    <3>1. w.client = x.client /\ w.n = x.n /\ w.at = "translate"
      OBVIOUS
    <3>2. y \in chunks \ {x} \/ y = w
      BY <2>1 DEF Become
    <3> HIDE DEF w
    <3>3. CASE y \in chunks \ {x}
      <4>1. y.client # x.client
        BY <3>3 DEF AudioInv, OneAtWork
      <4> QED BY <3>3, <4>1, <2>1, EventAppended DEF AudioInv, NotAnswered
    <3>4. CASE y = w
      <4>1. CASE i \in DOMAIN screen[c] /\ screen'[c][i] = screen[c][i]
        BY <4>1, <3>4, <3>1, <2>1 DEF AudioInv, NotAnswered
      <4>2. CASE screen'[c][i].n = x.n /\ screen'[c][i].kind = "partial"
        BY <4>2, <3>4, <3>1
      <4> QED BY <4>1, <4>2, <2>1, EventAppended
    <3> QED BY <3>2, <3>3, <3>4
  <2> QED BY <2>2, <2>3, <2>4 DEF AudioInv
<1> QED BY <1>1, <1>2, <1>3, <1>4, <1>5, <1>6, <1>7, <1>8, <1>10, <1>11
        DEF FloorNext, PeopleNext, AudioNext, ChunkStep

\* Whatever the services take or refuse, on every screen the subtitles of a socket keep the
\* order in which it was spoken, and a sentence its translation before the next sentence
\* (meetings.gateway.ts, lines 853-854 and 891-984).
THEOREM SubtitlesInOrderCorrect == FloorSpec => []SubtitlesInOrder
<1>1. FloorInit => Types /\ AudioInv
  <2>1. FloorInit => AudioInv
    BY DEF FloorInit, AudioInv, OneAtWork, NothingAhead, NotAnswered, SubtitlesInOrder
  <2> QED BY <2>1, TypesInit
<1>2. Types /\ AudioInv /\ [FloorNext]_floorVars => Types' /\ AudioInv'
  BY TypesStep, AudioInvStep
<1>3. AudioInv => SubtitlesInOrder
  BY DEF AudioInv
<1> QED BY <1>1, <1>2, <1>3, PTL DEF FloorSpec
=============================================================================
