---------------------------- MODULE MeetingSession ----------------------------
(***************************************************************************)
(* One meeting as the server sees it: the in-memory session that           *)
(* meetings.gateway.ts keeps for a meeting id (who is in the room, who is  *)
(* the runtime host, who is a co-host, whether votes are open), the rows   *)
(* meetings.service.ts keeps for it (meetings.status, and a                *)
(* meeting_participants row per user), and the database calls that are in  *)
(* flight between the two.                                                 *)
(*                                                                         *)
(* Node runs one handler at a time up to its next await, so a handler is   *)
(* one action up to the await and one action per continuation after it.    *)
(* A call that the handler does not await is a pending statement; the      *)
(* connection pool executes pending statements in any order.               *)
(*                                                                         *)
(* Every map of the gateway is keyed by the meeting id and a handler only  *)
(* touches the entry of the meeting it is called for, so one meeting is    *)
(* modelled.                                                               *)
(***************************************************************************)
EXTENDS Naturals, FiniteSets

CONSTANTS
    Users,           \* the employees who may enter the meeting
    Sockets,         \* the socket.io connections; a user may hold several
    UserOf,          \* client.data.userId of each socket, set from the JWT
    PermanentHost,   \* meetings.host_id
    ScheduledHosts,  \* whom resolveHostForDate may name today
    NoUser,          \* no entry in runtimeHosts
    MaxCommands,     \* bound: client commands and restarts in a behaviour
    DbFails,         \* whether a database call may throw
    Restarts         \* whether the process may restart

ASSUME SocketsAssumption == IsFiniteSet(Sockets)
ASSUME UserOfAssumption == UserOf \in [Sockets -> Users]
ASSUME HostAssumption == PermanentHost \in Users /\ ScheduledHosts \subseteq Users
ASSUME NoUserAssumption == NoUser \notin Users
ASSUME BoundAssumption ==
    MaxCommands \in Nat /\ DbFails \in BOOLEAN /\ Restarts \in BOOLEAN

VARIABLES
    participants,    \* activeParticipants: the sockets in the room
    speakerStates,   \* user -> "none" (no entry), "on" or "off"
    runtimeHost,     \* runtimeHosts entry, or NoUser
    coHosts,         \* coHostUserIds entry ({} while there is none)
    coHostsLoaded,   \* whether coHostUserIds has an entry
    activeVotes,     \* whether activeVotes lists a vote
    joining,         \* socket -> its join_meeting handler across the await
    promoting,       \* user -> step of the promote_co_host handler naming it
    demoting,        \* user -> step of the demote_co_host handler naming it
    detached,        \* demotions whose captured Set is no longer the entry
    ending,          \* sockets whose end_meeting awaits findHostIdById
    activating,      \* number of setActive UPDATEs in flight
    electing,        \* number of host resolutions in flight
    resets,          \* number of resetToScheduled UPDATEs in flight
    leaves,          \* user -> number of recordLeave UPDATEs in flight
    stepDowns,       \* users whose role UPDATE after a transfer is in flight
    cleaning,        \* the cleanup cron has counted no open row, not yet reset
    status,          \* meetings.status
    row,             \* user -> "absent", "in" (left_at null) or "left"
    role,            \* user -> meeting_participants.role
    hostShown,       \* socket -> the host its client was last told
    commands         \* client commands so far

memory == <<participants, speakerStates, runtimeHost, coHosts, coHostsLoaded,
            activeVotes>>
handlers == <<joining, promoting, demoting, detached, ending>>
statements == <<activating, electing, resets, leaves, stepDowns, cleaning>>
database == <<status, row, role>>
vars == <<memory, handlers, statements, database, hostShown, commands>>

-----------------------------------------------------------------------------
Steps == {"idle", "write", "resume"}
Idle == [step |-> "idle", roster |-> {}, coHosts |-> {}]
JoinStates == [step : {"idle", "query", "resume"},
               roster : SUBSET Users, coHosts : SUBSET Users]

MemoryOK ==
    /\ participants \subseteq Sockets
    /\ speakerStates \in [Users -> {"none", "on", "off"}]
    /\ runtimeHost \in Users \cup {NoUser}
    /\ coHosts \subseteq Users
    /\ coHostsLoaded \in BOOLEAN
    /\ activeVotes \in BOOLEAN

HandlersOK ==
    /\ joining \in [Sockets -> JoinStates]
    /\ promoting \in [Users -> Steps]
    /\ demoting \in [Users -> Steps]
    /\ detached \subseteq Users
    /\ ending \subseteq Sockets

StatementsOK ==
    /\ activating \in Nat
    /\ electing \in Nat
    /\ resets \in Nat
    /\ leaves \in [Users -> Nat]
    /\ stepDowns \subseteq Users
    /\ cleaning \in BOOLEAN

DatabaseOK ==
    /\ status \in {"scheduled", "active"}
    /\ row \in [Users -> {"absent", "in", "left"}]
    /\ role \in [Users -> {"host", "co_host", "participant"}]

TypeOK ==
    /\ MemoryOK /\ HandlersOK /\ StatementsOK /\ DatabaseOK
    /\ hostShown \in [Sockets -> Users \cup {NoUser}]
    /\ commands \in 0..MaxCommands

\* The users with a socket in the room.
Present == {UserOf[s] : s \in participants}
SocketsOf(u) == {s \in participants : UserOf[s] = u}

\* Whom an activation may elect: today's scheduled host, else the permanent
\* host (also when resolveHostForDate throws).  findHostIdById only returns
\* null for a deleted meeting, so the first joiner is never elected.
Electable == ScheduledHosts \cup {PermanentHost}

InDemotion == {u \in Users : demoting[u] # "idle"}

\* meetingsService.create: a scheduled meeting and the host's row, left_at null.
Init ==
    /\ participants = {}
    /\ speakerStates = [u \in Users |-> "none"]
    /\ runtimeHost = NoUser
    /\ coHosts = {} /\ coHostsLoaded = FALSE
    /\ activeVotes = FALSE
    /\ joining = [s \in Sockets |-> Idle]
    /\ promoting = [u \in Users |-> "idle"]
    /\ demoting = [u \in Users |-> "idle"]
    /\ detached = {} /\ ending = {}
    /\ activating = 0 /\ electing = 0 /\ resets = 0
    /\ leaves = [u \in Users |-> 0]
    /\ stepDowns = {} /\ cleaning = FALSE
    /\ status = "scheduled"
    /\ row = [u \in Users |-> IF u = PermanentHost THEN "in" ELSE "absent"]
    /\ role = [u \in Users |-> IF u = PermanentHost THEN "host" ELSE "participant"]
    /\ hostShown = [s \in Sockets |-> NoUser]
    /\ commands = 0

Command == commands < MaxCommands /\ commands' = commands + 1

\* Mutants: the broadcast is forgotten; the host stays when the room empties.
ShowHostToNobody(h) == hostShown' = hostShown
ForgetCoHosts ==
    UNCHANGED runtimeHost /\ coHosts' = {} /\ coHostsLoaded' = FALSE
        /\ detached' = InDemotion

\* host_changed to the room: every client in it now shows h.
ShowHost(h) == hostShown' = [s \in Sockets |->
                                IF s \in participants THEN h ELSE NoUser]

\* runtimeHosts.delete and coHostUserIds.delete; a demotion that is waiting
\* for the database keeps the Set it captured, which is now detached.
ForgetHosts ==
    /\ runtimeHost' = NoUser
    /\ coHosts' = {} /\ coHostsLoaded' = FALSE
    /\ detached' = InDemotion

\* Mutants: only a scheduled meeting is activated; the whole speaker map goes
\* with one user; the role is written without looking for the row; the
\* cleanup counts every row, not the open ones.
FirstOfScheduled(s) == participants' = {s} /\ status = "scheduled"
NoSpeakers(s) == [u \in Users |-> "none"]
AnyRow(u) == TRUE
NoRow == \A u \in Users : row[u] = "absent"

\* participants.length === 1 after the join: the meeting is to be activated.
FirstIn(s) == participants' = {s}

\* The speaker map without the entry of the user who goes.
WithoutSpeaker(s) == [speakerStates EXCEPT ![UserOf[s]] = "none"]

\* updateParticipantRole finds the row, or throws NotFound.
HasRow(u) == row[u] # "absent"

\* No row with left_at null.
NoOpenRow == \A u \in Users : row[u] # "in"

-----------------------------------------------------------------------------
(***************************************************************************)
(* join_meeting.  The synchronous part registers the socket, fires         *)
(* setActive for a room of one, and takes the snapshot of the roster.  If  *)
(* the co-hosts were loaded before, the handler runs to its end at once;   *)
(* else it awaits getCoHostUserIds and sends meeting_state afterwards.     *)
(* Bound: one join_meeting of a socket in flight.                          *)
(***************************************************************************)
Join(s) ==
    /\ Command
    /\ joining[s] = Idle
    /\ participants' = participants \cup {s}
    /\ activating' = IF FirstIn(s) THEN activating + 1 ELSE activating
    /\ speakerStates' = [speakerStates EXCEPT ![UserOf[s]] = "on"]
    /\ \/ /\ coHostsLoaded
          /\ hostShown' = [hostShown EXCEPT ![s] = runtimeHost]
          /\ UNCHANGED joining
       \/ /\ ~coHostsLoaded
          /\ hostShown' = [hostShown EXCEPT ![s] = NoUser]
          /\ joining' = [joining EXCEPT ![s] =
                [step |-> "query",
                 roster |-> Present \cup {UserOf[s]},
                 coHosts |-> {}]]
    /\ UNCHANGED <<runtimeHost, coHosts, coHostsLoaded, activeVotes, promoting,
                   demoting, detached, ending, electing, resets, leaves,
                   stepDowns, cleaning, database>>

\* getCoHostUserIds executes; a failure is caught and gives no co-hosts.
JoinQuery(s) ==
    /\ joining[s].step = "query"
    /\ \E ids \in {{u \in Users : role[u] = "co_host"}} \cup
                  (IF DbFails THEN {{}} ELSE {}) :
          joining' = [joining EXCEPT ![s] =
             [step |-> "resume", roster |-> joining[s].roster, coHosts |-> ids]]
    /\ UNCHANGED <<memory, promoting, demoting, detached, ending, statements,
                   database, hostShown, commands>>

\* The continuation: coHostUserIds.set, whatever is there by now, and
\* meeting_state with the current host and co-hosts.
JoinResume(s) ==
    /\ joining[s].step = "resume"
    /\ joining' = [joining EXCEPT ![s] = Idle]
    /\ coHosts' = joining[s].coHosts
    /\ coHostsLoaded' = TRUE
    /\ detached' = InDemotion
    /\ hostShown' = [hostShown EXCEPT ![s] =
                        IF s \in participants THEN runtimeHost ELSE NoUser]
    /\ UNCHANGED <<participants, speakerStates, runtimeHost, activeVotes,
                   promoting, demoting, ending, statements, database, commands>>

\* setActive: an UPDATE of a scheduled meeting; its continuation goes on to
\* resolve the host.
SetActive ==
    /\ activating > 0
    /\ activating' = activating - 1
    /\ \/ /\ status' = "active"
          /\ electing' = electing + 1
       \/ DbFails /\ UNCHANGED <<status, electing>>
    /\ UNCHANGED <<memory, handlers, resets, leaves, stepDowns, cleaning, row,
                   role, hostShown, commands>>

\* The host is resolved, set and broadcast, whoever is in the room by now.
ElectHost ==
    /\ electing > 0
    /\ electing' = electing - 1
    /\ \/ \E h \in Electable : runtimeHost' = h /\ ShowHost(h)
       \/ DbFails /\ UNCHANGED <<runtimeHost, hostShown>>
    /\ UNCHANGED <<participants, speakerStates, coHosts, coHostsLoaded,
                   activeVotes, handlers, activating, resets, leaves, stepDowns,
                   cleaning, database, commands>>

-----------------------------------------------------------------------------
\* leave_meeting: also sent by a client whose socket is no longer in the room
\* (after meeting_ended).  It does not delete activeVotes.
Leave(s) ==
    /\ Command
    /\ participants' = participants \ {s}
    /\ speakerStates' = IF s \in participants THEN WithoutSpeaker(s)
                        ELSE speakerStates
    /\ leaves' = [leaves EXCEPT ![UserOf[s]] = @ + 1]
    /\ hostShown' = [hostShown EXCEPT ![s] = NoUser]
    /\ IF participants' = {}
       THEN ForgetHosts /\ resets' = resets + 1
       ELSE UNCHANGED <<runtimeHost, coHosts, coHostsLoaded, detached, resets>>
    /\ UNCHANGED <<activeVotes, joining, promoting, demoting, ending, activating,
                   electing, stepDowns, cleaning, database>>

\* handleDisconnect: a lost connection, only for sockets in the room.
Disconnect(s) ==
    /\ Command
    /\ s \in participants
    /\ participants' = participants \ {s}
    /\ speakerStates' = WithoutSpeaker(s)
    /\ leaves' = [leaves EXCEPT ![UserOf[s]] = @ + 1]
    /\ hostShown' = [hostShown EXCEPT ![s] = NoUser]
    /\ IF participants' = {}
       THEN ForgetHosts /\ resets' = resets + 1 /\ activeVotes' = FALSE
       ELSE UNCHANGED <<runtimeHost, coHosts, coHostsLoaded, detached, resets,
                        activeVotes>>
    /\ UNCHANGED <<joining, promoting, demoting, ending, activating, electing,
                   stepDowns, cleaning, database>>

\* recordLeave and resetToScheduled: guarded UPDATEs.
RecordLeave(u) ==
    /\ leaves[u] > 0
    /\ leaves' = [leaves EXCEPT ![u] = @ - 1]
    /\ \/ row' = [row EXCEPT ![u] = IF @ = "absent" THEN "absent" ELSE "left"]
       \/ DbFails /\ UNCHANGED row
    /\ UNCHANGED <<memory, handlers, activating, electing, resets, stepDowns,
                   cleaning, status, role, hostShown, commands>>

ResetToScheduled ==
    /\ resets > 0
    /\ resets' = resets - 1
    /\ \/ status' = "scheduled"
       \/ DbFails /\ UNCHANGED status
    /\ UNCHANGED <<memory, handlers, activating, electing, leaves, stepDowns,
                   cleaning, row, role, hostShown, commands>>

-----------------------------------------------------------------------------
\* transfer_host: synchronous but for the role UPDATE of a former co-host.
\* Bound: one such UPDATE of a user in flight.
TransferHost(s, u) ==
    /\ Command
    /\ runtimeHost = UserOf[s]
    /\ u \in Present
    /\ runtimeHost' = u
    /\ ShowHost(u)
    /\ \/ /\ u \in coHosts /\ u \notin stepDowns
          /\ coHosts' = coHosts \ {u}
          /\ stepDowns' = stepDowns \cup {u}
       \/ u \notin coHosts /\ UNCHANGED <<coHosts, stepDowns>>
    /\ UNCHANGED <<participants, speakerStates, coHostsLoaded, activeVotes,
                   handlers, activating, electing, resets, leaves, cleaning,
                   database>>

\* updateParticipantRole(PARTICIPANT) of the new host; no row, no update.
StepDown(u) ==
    /\ u \in stepDowns
    /\ stepDowns' = stepDowns \ {u}
    /\ \/ role' = [role EXCEPT ![u] = IF HasRow(u) THEN "participant" ELSE @]
       \/ DbFails /\ UNCHANGED role
    /\ UNCHANGED <<memory, handlers, activating, electing, resets, leaves,
                   cleaning, status, row, hostShown, commands>>

\* promote_co_host: the checks, then updateParticipantRole(CO_HOST).
\* Bound: one promotion of a user in flight.
PromoteCoHost(s, u) ==
    /\ Command
    /\ runtimeHost = UserOf[s]
    /\ u # UserOf[s]
    /\ u \in Present
    /\ promoting[u] = "idle"
    /\ promoting' = [promoting EXCEPT ![u] = "write"]
    /\ UNCHANGED <<memory, joining, demoting, detached, ending, statements,
                   database, hostShown>>

PromoteWrite(u) ==
    /\ promoting[u] = "write"
    /\ \/ /\ HasRow(u)
          /\ role' = [role EXCEPT ![u] = "co_host"]
          /\ promoting' = [promoting EXCEPT ![u] = "resume"]
       \/ /\ ~HasRow(u) \/ DbFails
          /\ promoting' = [promoting EXCEPT ![u] = "idle"]
          /\ UNCHANGED role
    /\ UNCHANGED <<memory, joining, demoting, detached, ending, statements,
                   status, row, hostShown, commands>>

\* The continuation adds to the current entry, creating it if there is none.
PromoteResume(u) ==
    /\ promoting[u] = "resume"
    /\ promoting' = [promoting EXCEPT ![u] = "idle"]
    /\ coHosts' = coHosts \cup {u}
    /\ coHostsLoaded' = TRUE
    /\ UNCHANGED <<participants, speakerStates, runtimeHost, activeVotes,
                   joining, demoting, detached, ending, statements, database,
                   hostShown, commands>>

\* demote_co_host: captures the Set, then awaits updateParticipantRole.
\* Bound: one demotion of a user in flight.
DemoteCoHost(s, u) ==
    /\ Command
    /\ runtimeHost = UserOf[s]
    /\ u \in coHosts
    /\ demoting[u] = "idle"
    /\ demoting' = [demoting EXCEPT ![u] = "write"]
    /\ UNCHANGED <<memory, joining, promoting, detached, ending, statements,
                   database, hostShown>>

DemoteWrite(u) ==
    /\ demoting[u] = "write"
    /\ \/ /\ HasRow(u)
          /\ role' = [role EXCEPT ![u] = "participant"]
          /\ demoting' = [demoting EXCEPT ![u] = "resume"]
          /\ UNCHANGED detached
       \/ /\ ~HasRow(u) \/ DbFails
          /\ demoting' = [demoting EXCEPT ![u] = "idle"]
          /\ detached' = detached \ {u}
          /\ UNCHANGED role
    /\ UNCHANGED <<memory, joining, promoting, ending, statements, status, row,
                   hostShown, commands>>

\* The continuation deletes from the Set it captured, attached or not.
DemoteResume(u) ==
    /\ demoting[u] = "resume"
    /\ demoting' = [demoting EXCEPT ![u] = "idle"]
    /\ coHosts' = IF u \in detached THEN coHosts ELSE coHosts \ {u}
    /\ detached' = detached \ {u}
    /\ UNCHANGED <<participants, speakerStates, runtimeHost, coHostsLoaded,
                   activeVotes, joining, promoting, ending, statements, database,
                   hostShown, commands>>

-----------------------------------------------------------------------------
\* end_meeting: awaits findHostIdById before it checks anything.
\* Bound: one end_meeting of a socket in flight.
EndMeeting(s) ==
    /\ Command
    /\ s \notin ending
    /\ ending' = ending \cup {s}
    /\ UNCHANGED <<memory, joining, promoting, demoting, detached, statements,
                   database, hostShown>>

MayEnd(u) == u \in {runtimeHost, PermanentHost} \cup coHosts

\* The continuation: a recordLeave per socket in the room, then everything
\* about the session is cleared.  The sockets stay in the socket.io room.
EndResume(s) ==
    /\ s \in ending
    /\ ending' = ending \ {s}
    /\ \/ /\ MayEnd(UserOf[s])
          /\ leaves' = [u \in Users |-> leaves[u] + Cardinality(SocketsOf(u))]
          /\ participants' = {}
          /\ speakerStates' = [u \in Users |-> "none"]
          /\ activeVotes' = FALSE
          /\ ForgetHosts
          /\ hostShown' = [t \in Sockets |-> NoUser]
          /\ resets' = resets + 1
       \/ /\ ~MayEnd(UserOf[s]) \/ DbFails
          /\ UNCHANGED <<leaves, memory, detached, hostShown, resets>>
    /\ UNCHANGED <<joining, promoting, demoting, activating, electing, stepDowns,
                   cleaning, database, commands>>

-----------------------------------------------------------------------------
\* speaker_state: from any authenticated socket, in the room or not.
SpeakerState(s, on) ==
    /\ Command
    /\ speakerStates' = [speakerStates EXCEPT ![UserOf[s]] = IF on THEN "on" ELSE "off"]
    /\ UNCHANGED <<participants, runtimeHost, coHosts, coHostsLoaded, activeVotes,
                   handlers, statements, database, hostShown>>

\* vote_create: pushes onto the meeting's list.
VoteCreate(s) ==
    /\ Command
    /\ ~activeVotes
    /\ activeVotes' = TRUE
    /\ UNCHANGED <<participants, speakerStates, runtimeHost, coHosts,
                   coHostsLoaded, handlers, statements, database, hostShown>>

-----------------------------------------------------------------------------
(***************************************************************************)
(* The REST calls that write meeting_participants.  Each is a findOne and  *)
(* the write it decides on, taken as one step: (meeting_id, user_id) is    *)
(* unique, rows are never deleted, and recordLeave is interleaved anyway.  *)
(***************************************************************************)

\* generateToken: inserts the row, or clears left_at when the user rejoins.
GenerateToken(u) ==
    /\ Command
    /\ row[u] # "in"
    /\ row' = [row EXCEPT ![u] = "in"]
    /\ UNCHANGED <<memory, handlers, statements, status, role, hostShown>>

\* addCoHost: by the owner or an admin, never for the owner.
AddCoHost(u) ==
    /\ Command
    /\ u # PermanentHost
    /\ row' = [row EXCEPT ![u] = IF @ = "absent" THEN "in" ELSE @]
    /\ role' = [role EXCEPT ![u] = "co_host"]
    /\ UNCHANGED <<memory, handlers, statements, status, hostShown>>

\* removeCoHost: the row only, the gateway's Set is left alone.
RemoveCoHost(u) ==
    /\ Command
    /\ role[u] = "co_host"
    /\ role' = [role EXCEPT ![u] = "participant"]
    /\ UNCHANGED <<memory, handlers, statements, status, row, hostShown>>

\* cleanupStuckMeetings: finds the meeting ACTIVE with no open row ...
CleanupCount ==
    /\ ~cleaning
    /\ status = "active"
    /\ NoOpenRow
    /\ cleaning' = TRUE
    /\ UNCHANGED <<memory, handlers, activating, electing, resets, leaves,
                   stepDowns, database, hostShown, commands>>

\* ... and resets it.
CleanupReset ==
    /\ cleaning
    /\ cleaning' = FALSE
    /\ \/ status' = "scheduled"
       \/ DbFails /\ UNCHANGED status
    /\ UNCHANGED <<memory, handlers, activating, electing, resets, leaves,
                   stepDowns, row, role, hostShown, commands>>

\* The process restarts: memory, handlers and pending statements are gone.
Restart ==
    /\ Restarts
    /\ Command
    /\ participants' = {}
    /\ speakerStates' = [u \in Users |-> "none"]
    /\ runtimeHost' = NoUser
    /\ coHosts' = {} /\ coHostsLoaded' = FALSE
    /\ activeVotes' = FALSE
    /\ joining' = [s \in Sockets |-> Idle]
    /\ promoting' = [u \in Users |-> "idle"]
    /\ demoting' = [u \in Users |-> "idle"]
    /\ detached' = {} /\ ending' = {}
    /\ activating' = 0 /\ electing' = 0 /\ resets' = 0
    /\ leaves' = [u \in Users |-> 0]
    /\ stepDowns' = {} /\ cleaning' = FALSE
    /\ hostShown' = [s \in Sockets |-> NoUser]
    /\ UNCHANGED database

-----------------------------------------------------------------------------
ClientStep ==
    \/ \E s \in Sockets :
          \/ Join(s) \/ Leave(s) \/ Disconnect(s)
          \/ EndMeeting(s) \/ VoteCreate(s)
          \/ \E on \in BOOLEAN : SpeakerState(s, on)
          \/ \E u \in Users :
                TransferHost(s, u) \/ PromoteCoHost(s, u) \/ DemoteCoHost(s, u)
    \/ \E u \in Users : GenerateToken(u) \/ AddCoHost(u) \/ RemoveCoHost(u)
    \/ Restart

ServerStep ==
    \/ \E s \in Sockets : JoinQuery(s) \/ JoinResume(s) \/ EndResume(s)
    \/ \E u \in Users : \/ RecordLeave(u) \/ StepDown(u)
                        \/ PromoteWrite(u) \/ PromoteResume(u)
                        \/ DemoteWrite(u) \/ DemoteResume(u)
    \/ SetActive \/ ElectHost \/ ResetToScheduled
    \/ CleanupCount \/ CleanupReset

Next == ClientStep \/ ServerStep

Spec == Init /\ [][Next]_vars

\* The event loop runs every continuation, the database executes every
\* statement and the cron job fires again and again; clients owe nothing.
Fairness ==
    /\ \A s \in Sockets : /\ WF_vars(JoinQuery(s)) /\ WF_vars(JoinResume(s))
                          /\ WF_vars(EndResume(s))
    /\ \A u \in Users : /\ WF_vars(RecordLeave(u)) /\ WF_vars(StepDown(u))
                        /\ WF_vars(PromoteWrite(u)) /\ WF_vars(PromoteResume(u))
                        /\ WF_vars(DemoteWrite(u)) /\ WF_vars(DemoteResume(u))
    /\ WF_vars(SetActive) /\ WF_vars(ElectHost) /\ WF_vars(ResetToScheduled)
    /\ WF_vars(CleanupCount) /\ WF_vars(CleanupReset)

FairSpec == Spec /\ Fairness

-----------------------------------------------------------------------------
(* Safety *)

\* Every client in the room whose join was answered shows the host the server
\* holds: host_changed and meeting_state together leave nobody behind
\* (meetings.gateway.ts:334, 394, 560), whatever elections, transfers and late
\* continuations happen in between.
HostViewAgrees ==
    \A s \in participants : joining[s] = Idle => hostShown[s] = runtimeHost

\* An occupied room has a host, or an activation that will elect one is still
\* on its way (meetings.gateway.ts:313): a stale election or reset of an
\* earlier session never uses up the one the room needs.
HostOrElecting ==
    ~DbFails /\ participants # {} =>
        runtimeHost # NoUser \/ activating + electing > 0

\* Whoever the gateway takes, or is about to take, for a co-host has a
\* meeting_participants row, so a later demotion or transfer finds a row to
\* write its role to (meetings.service.ts:580).
CoHostsHaveRows ==
    /\ \A u \in coHosts : row[u] # "absent"
    /\ \A s \in Sockets : \A u \in joining[s].coHosts : row[u] # "absent"
    /\ \A u \in Users : promoting[u] = "resume" \/ role[u] = "co_host"
                           => row[u] # "absent"

\* Whoever is in the room with the only socket they hold has a speaker entry for
\* the snapshot of the next joiner (meetings.gateway.ts:357-366), whoever else
\* comes and goes, ends the meeting or loses one of several tabs.
OnlySocket(s) == \A t \in Sockets : UserOf[t] = UserOf[s] => t = s
OccupantsHaveSpeakerEntry ==
    \A s \in participants : OnlySocket(s) => speakerStates[UserOf[s]] # "none"

\* The session implements the abstract host protocol: hosts come from an
\* election or from the host's own transfer to somebody present, and go when
\* the room empties, is ended or is lost (meetings.gateway.ts:258, 332, 457,
\* 534, 733).
RH == INSTANCE RoomHost WITH occupants <- participants, host <- runtimeHost
ImplementsRoomHost == RH!Spec

-----------------------------------------------------------------------------
(* Liveness *)

\* Once somebody is in the room it gets a host or empties again.
HostEventually ==
    (participants # {}) ~> (runtimeHost # NoUser \/ participants = {})

\* An ACTIVE meeting without an open row does not stay so: the cleanup job
\* resets it unless somebody obtains a token again (meetings.service.ts:690).
CleanupHeals ==
    (status = "active" /\ \A u \in Users : row[u] # "in")
        ~> (status = "scheduled" \/ \E u \in Users : row[u] = "in")
=============================================================================
