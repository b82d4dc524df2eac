----------------------------- MODULE MeetingCalls -----------------------------
(***************************************************************************)
(* Calling somebody into a meeting: the invite row of meeting_invites, the *)
(* REST requests that write it (createInvites, rsvp, cancelInvite), the    *)
(* 30-second timers that meetings.gateway.ts keeps in inviteTimeouts, the  *)
(* auto-call cron job that rings without a row, and the invitee's socket,  *)
(* whose join_meeting stops the ringing.                                   *)
(*                                                                         *)
(* Rows are unique per meeting and user and a timer belongs to one user,   *)
(* so one meeting and one invitee are modelled.  A request is a chain of   *)
(* database calls; each is a step, and several requests run at a time.     *)
(***************************************************************************)
EXTENDS Naturals

CONSTANTS
    Requests,     \* the HTTP requests that may be in flight at a time
    MaxCommands,  \* bound: requests, joins, leaves, auto-calls and restarts
    DbFails,      \* whether a statement may fail
    Restarts      \* whether the process may restart

ASSUME CallBounds ==
    MaxCommands \in Nat /\ DbFails \in BOOLEAN /\ Restarts \in BOOLEAN

VARIABLES
    status,    \* meeting_invites.status of the row, "none" without a row
    inviteId,  \* its id
    nextId,    \* the next id of the table (ids start at 1)
    rings,     \* inviteTimeouts: ids whose timer runs; AutoId for an auto-call
    missing,   \* number of markInviteMissed UPDATEs in flight
    request,   \* request slot -> the request in it
    present,   \* the invitee has a socket in the room
    entering,  \* a join_meeting of the invitee is before its last line
    excused,   \* history: since the row was made pending, its timer was stopped
               \* or lost for another reason than that it rang out
    commands

row == <<status, inviteId, nextId>>
invitee == <<present, entering>>
vars == <<row, rings, missing, request, invitee, excused, commands>>

-----------------------------------------------------------------------------
Answers == {"accepted", "declined"}
Statuses == {"none", "pending", "missed"} \cup Answers

\* The synthetic ids of auto-calls (100_000_000 and above) are no row's id.
\* Retries are a minute or more apart and a timer runs for 30 seconds, so at
\* most one of them rings.
AutoId == 0

Idle == [step |-> "idle", id |-> 0, answer |-> "accepted"]
RequestSteps == {"idle",
    "inviteRead", "inviteInsert", "inviteUpdate", "inviteLoad", "inviteRing",
    "answerRead", "answerInsert", "answerUpdate", "answerLoad", "answerStop",
    "cancelRead", "cancelDelete", "cancelStop"}
RequestStates == [step : RequestSteps, id : Nat, answer : Answers]

NumbersOK ==
    /\ inviteId \in Nat
    /\ nextId \in Nat \ {0}
    /\ rings \subseteq Nat
    /\ missing \in Nat
    /\ commands \in 0..MaxCommands
RequestsOK == request \in [Requests -> RequestStates]
FlagsOK == present \in BOOLEAN /\ entering \in BOOLEAN /\ excused \in BOOLEAN

\* Type invariant: the row is none, pending, answered or missed, and timers and
\* requests hold ids.
TypeOK == status \in Statuses /\ NumbersOK /\ RequestsOK /\ FlagsOK

Init ==
    /\ status = "none" /\ inviteId = 0 /\ nextId = 1
    /\ rings = {} /\ missing = 0
    /\ request = [r \in Requests |-> Idle]
    /\ present = FALSE /\ entering = FALSE /\ excused = FALSE
    /\ commands = 0

Command == commands < MaxCommands /\ commands' = commands + 1

\* Request r is at the step, goes on to the next one, is done.
At(r, step) == request[r].step = step
GoTo(r, next, id) ==
    request' = [request EXCEPT ![r] =
                   [step |-> next, id |-> id, answer |-> request[r].answer]]
Done(r) == request' = [request EXCEPT ![r] = Idle]

\* The row with the id a request read before is still there.
Has(id) == status # "none" /\ inviteId = id

Insert(s) ==
    /\ status = "none"
    /\ status' = s /\ inviteId' = nextId /\ nextId' = nextId + 1

\* Mutant of Rerings: the re-invited ids are left out of the ids to load.
NeverRerings == FALSE
\* createInvites returns the new rows and the re-invited ones.
Rerings == TRUE

\* Mutant of Missable: a late answer is overwritten.
AnyStatus == TRUE
\* markInviteMissed updates WHERE status = pending.
Missable == status = "pending"

-----------------------------------------------------------------------------
\* POST invites, for somebody who is not in the room at this moment.
Invite(r) ==
    /\ Command
    /\ At(r, "idle") /\ ~present
    /\ GoTo(r, "inviteRead", 0)
    /\ UNCHANGED <<row, rings, missing, invitee, excused>>

\* A pending invite is skipped; an answered or missed one is to be renewed.
InviteRead(r) ==
    /\ At(r, "inviteRead")
    /\ \/ status = "pending" /\ Done(r)
       \/ status = "none" /\ GoTo(r, "inviteInsert", 0)
       \/ status \notin {"none", "pending"} /\ GoTo(r, "inviteUpdate", inviteId)
    /\ UNCHANGED <<row, rings, missing, invitee, excused, commands>>

\* The row is inserted; a duplicate of a row inserted meanwhile is an error.
InviteInsert(r) ==
    /\ At(r, "inviteInsert")
    /\ \/ /\ Insert("pending")
          /\ excused' = FALSE
          /\ GoTo(r, "inviteLoad", nextId)
       \/ /\ status # "none"
          /\ Done(r)
          /\ UNCHANGED <<row, excused>>
    /\ UNCHANGED <<rings, missing, invitee, commands>>

InviteUpdate(r) ==
    /\ At(r, "inviteUpdate")
    /\ \/ /\ Has(request[r].id)
          /\ status' = "pending" /\ excused' = FALSE
       \/ ~Has(request[r].id) /\ UNCHANGED <<status, excused>>
    /\ IF Rerings THEN GoTo(r, "inviteLoad", request[r].id) ELSE Done(r)
    /\ UNCHANGED <<inviteId, nextId, rings, missing, invitee, commands>>

\* The rows are loaded with their users and returned to the controller ...
InviteLoad(r) ==
    /\ At(r, "inviteLoad")
    /\ IF Has(request[r].id) THEN GoTo(r, "inviteRing", request[r].id) ELSE Done(r)
    /\ UNCHANGED <<row, rings, missing, invitee, excused, commands>>

\* ... which emits new_invite and (re)starts the timer of the id.
InviteRing(r) ==
    /\ At(r, "inviteRing")
    /\ rings' = rings \cup {request[r].id}
    /\ Done(r)
    /\ UNCHANGED <<row, missing, invitee, excused, commands>>

-----------------------------------------------------------------------------
\* PATCH invites/rsvp.
Answer(r, a) ==
    /\ Command
    /\ At(r, "idle")
    /\ request' = [request EXCEPT ![r] =
                      [step |-> "answerRead", id |-> 0, answer |-> a]]
    /\ UNCHANGED <<row, rings, missing, invitee, excused>>

AnswerRead(r) ==
    /\ At(r, "answerRead")
    /\ IF status = "none" THEN GoTo(r, "answerInsert", 0)
                          ELSE GoTo(r, "answerUpdate", inviteId)
    /\ UNCHANGED <<row, rings, missing, invitee, excused, commands>>

\* A cancelled invite is created again with the answer.
AnswerInsert(r) ==
    /\ At(r, "answerInsert")
    /\ \/ Insert(request[r].answer) /\ GoTo(r, "answerStop", nextId)
       \/ status # "none" /\ Done(r) /\ UNCHANGED row
    /\ UNCHANGED <<rings, missing, invitee, excused, commands>>

AnswerUpdate(r) ==
    /\ At(r, "answerUpdate")
    /\ status' = IF Has(request[r].id) THEN request[r].answer ELSE status
    /\ GoTo(r, "answerLoad", request[r].id)
    /\ UNCHANGED <<inviteId, nextId, rings, missing, invitee, excused, commands>>

\* The row is loaded again; if it was cancelled meanwhile the result is null
\* and the controller fails on its id.
AnswerLoad(r) ==
    /\ At(r, "answerLoad")
    /\ IF Has(request[r].id) THEN GoTo(r, "answerStop", request[r].id) ELSE Done(r)
    /\ UNCHANGED <<row, rings, missing, invitee, excused, commands>>

\* cancelInviteTimeout(invite.id), which may by now ring for a renewed invite.
AnswerStop(r) ==
    /\ At(r, "answerStop")
    /\ rings' = rings \ {request[r].id}
    /\ excused' = TRUE
    /\ Done(r)
    /\ UNCHANGED <<row, missing, invitee, commands>>

-----------------------------------------------------------------------------
\* DELETE invites/:userId: reads the id, deletes by user, stops the timer.
Cancel(r) ==
    /\ Command
    /\ At(r, "idle")
    /\ GoTo(r, "cancelRead", 0)
    /\ UNCHANGED <<row, rings, missing, invitee, excused>>

CancelRead(r) ==
    /\ At(r, "cancelRead")
    /\ GoTo(r, "cancelDelete", inviteId)
    /\ UNCHANGED <<row, rings, missing, invitee, excused, commands>>

CancelDelete(r) ==
    /\ At(r, "cancelDelete")
    /\ status' = "none" /\ inviteId' = 0
    /\ IF request[r].id # 0 THEN GoTo(r, "cancelStop", request[r].id) ELSE Done(r)
    /\ UNCHANGED <<nextId, rings, missing, invitee, excused, commands>>

CancelStop(r) ==
    /\ At(r, "cancelStop")
    /\ rings' = rings \ {request[r].id}
    /\ Done(r)
    /\ UNCHANGED <<row, missing, invitee, excused, commands>>

-----------------------------------------------------------------------------
\* A statement of a request fails and with it the request; what it wrote stays.
\* createInvites has made the row pending when it loads it.
DbSteps == RequestSteps \ {"idle", "inviteRing", "answerStop", "cancelStop"}
RequestFails(r) ==
    /\ DbFails
    /\ request[r].step \in DbSteps
    /\ excused' = IF At(r, "inviteLoad") THEN TRUE ELSE excused
    /\ Done(r)
    /\ UNCHANGED <<row, rings, missing, invitee, commands>>

\* The timer: the user missed the call, whatever the row says.
\* Mutant of TimerFires: the miss is announced but not recorded.
TimerAnnounces(id) ==
    /\ id \in rings
    /\ rings' = rings \ {id}
    /\ UNCHANGED <<row, missing, request, invitee, excused, commands>>

TimerFires(id) ==
    /\ id \in rings
    /\ rings' = rings \ {id}
    /\ missing' = missing + 1
    /\ UNCHANGED <<row, request, invitee, excused, commands>>

MarkMissed ==
    /\ missing > 0
    /\ missing' = missing - 1
    /\ \/ /\ status' = IF Missable THEN "missed" ELSE status
          /\ UNCHANGED excused
       \/ DbFails /\ excused' = TRUE /\ UNCHANGED status
    /\ UNCHANGED <<inviteId, nextId, rings, request, invitee, commands>>

\* The auto-call cron job rings an accepted scheduled participant who is not
\* in the room, under a synthetic id.
AutoCall ==
    /\ Command
    /\ ~present
    /\ rings' = rings \cup {AutoId}
    /\ UNCHANGED <<row, missing, request, invitee, excused>>

\* join_meeting registers the invitee first and stops every timer of theirs in
\* its last line, after an await when the co-hosts are to be loaded.
Enter ==
    /\ Command
    /\ ~entering
    /\ present' = TRUE /\ entering' = TRUE
    /\ UNCHANGED <<row, rings, missing, request, excused>>

EnterDone ==
    /\ entering
    /\ entering' = FALSE
    /\ rings' = {} /\ excused' = TRUE
    /\ UNCHANGED <<row, missing, request, present, commands>>

\* leave_meeting or a lost connection.
Leave ==
    /\ Command
    /\ present
    /\ present' = FALSE
    /\ UNCHANGED <<row, rings, missing, request, entering, excused>>

\* The timers are gone with the process, the rows stay.
Restart ==
    /\ Restarts
    /\ Command
    /\ rings' = {} /\ missing' = 0
    /\ request' = [r \in Requests |-> Idle]
    /\ present' = FALSE /\ entering' = FALSE /\ excused' = TRUE
    /\ UNCHANGED row

-----------------------------------------------------------------------------
RequestStep(r) ==
    \/ InviteRead(r) \/ InviteInsert(r) \/ InviteUpdate(r) \/ InviteLoad(r)
    \/ InviteRing(r)
    \/ AnswerRead(r) \/ AnswerInsert(r) \/ AnswerUpdate(r) \/ AnswerLoad(r)
    \/ AnswerStop(r)
    \/ CancelRead(r) \/ CancelDelete(r) \/ CancelStop(r)
    \/ RequestFails(r)

Next ==
    \/ \E r \in Requests : \/ Invite(r) \/ Cancel(r)
                           \/ \E a \in Answers : Answer(r, a)
                           \/ RequestStep(r)
    \/ \E id \in rings : TimerFires(id)
    \/ MarkMissed \/ AutoCall \/ Enter \/ EnterDone \/ Leave \/ Restart

Spec == Init /\ [][Next]_vars

\* Requests in flight, timers and statements go on; nobody has to act.
Fairness ==
    /\ \A r \in Requests : WF_vars(RequestStep(r))
    /\ WF_vars(\E id \in rings : TimerFires(id))
    /\ WF_vars(MarkMissed) /\ WF_vars(EnterDone)

FairSpec == Spec /\ Fairness

-----------------------------------------------------------------------------
\* A late timer never overwrites an answer (meetings.service.ts:813-818).
AnswerKept == [][(status \in Answers) => (status' # "missed")]_vars

\* A pending invite rings, or is about to, or its miss is being recorded, or it
\* was excused: the invitee came in, an answer to an earlier call stopped the
\* timer, a statement failed, or the process restarted.  Nothing else leaves an
\* invite pending, which createInvites skips from then on
\* (meetings.service.ts:754); in particular no order of invite, answer, cancel
\* and invite again does, whose requests overlap and whose timers share an id.
PendingAccountedFor ==
    status = "pending" =>
        \/ inviteId \in rings
        \/ \E r \in Requests : /\ request[r].step \in {"inviteLoad", "inviteRing"}
                               /\ request[r].id = inviteId
        \/ missing > 0
        \/ excused

\* A call nobody answers or excuses does not stay pending.
PendingResolves ==
    (status = "pending" /\ ~excused) ~> (status # "pending" \/ excused)

\* "Skip users who already have a pending invite (still waiting to respond)"
\* (meetings.service.ts:754): with no request in flight, a pending invite rings.
PendingIsRinging ==
    status = "pending" /\ missing = 0 /\ (\A r \in Requests : At(r, "idle"))
        => inviteId \in rings
=============================================================================
