------------------------------ MODULE AutoCall ------------------------------
(***************************************************************************)
(* The participants scheduled for a meeting and the automatic calls they   *)
(* get before it (meeting-scheduled-participants.service.ts,               *)
(* meeting-auto-call-cron.service.ts).  Once a minute a job compares the   *)
(* trigger of the meeting, and that of each retry, with a window of one    *)
(* minute around the present, and calls those who accepted, are not on     *)
(* leave, have not declined and are not in the meeting.  Meanwhile the     *)
(* configuration is changed and users are invited, answer and are removed. *)
(* Times are seconds of the host's calendar; day 0 begins at time 0.       *)
(***************************************************************************)
EXTENDS Integers, FiniteSets

CONSTANTS
  Users,         \* employees who may be scheduled
  Meetings,      \* the schedules a meeting may have
  Changes,       \* the changes of the configuration a client may ask for
  Delays,        \* seconds the minutely job may run late
  DayMinutes,    \* minutes of a day (1440 in the code)
  FirstDay,      \* weekday of day 0; Sunday is 0
  LastMinute,    \* bound on the minutes the job runs in
  Requests,      \* requests that may overlap
  MaxPeople,       \* bound on the rows of participants ever stored
  MaxChanges     \* bound on the requests and changes from outside the job

DaySeconds == DayMinutes * 60

\* at: seconds into the day (daily, weekly); day: weekday (weekly); date: one_time.
Meeting == [kind: {"one_time", "daily", "weekly"}, at: Nat, day: 0..6, date: Nat]

\* The columns of a configuration.
Config == [before: Nat, count: Nat, every: Nat \ {0}, enabled: BOOLEAN, weekdays: BOOLEAN]

\* The defaults of the columns.
Defaults == [before |-> 5, count |-> 0, every |-> 2, enabled |-> TRUE, weekdays |-> FALSE]
Fields == DOMAIN Defaults

Given(c, f, old) == IF f \in DOMAIN c THEN c[f] ELSE old

ASSUME AutoCallAssumption ==
  /\ Meetings \subseteq Meeting
  /\ \A m \in Meetings : m.kind # "one_time" => m.at % 60 = 0
  /\ Delays \subseteq 0..30
  /\ DayMinutes \in Nat \ {0}
  /\ FirstDay \in 0..6
  /\ \A c \in Changes : [f \in Fields |-> Given(c, f, Defaults[f])] \in Config
  /\ LastMinute \in Nat
  /\ MaxPeople \in Nat
  /\ MaxChanges \in Nat

NoConfig == [missing |-> TRUE]
Never == -1

\* What a row of scheduled participants holds; row tells the user's rows apart.
NoRow == [status |-> "none", token |-> FALSE, row |-> 0]
Nothing == [op |-> "idle"]

VARIABLES
  meeting,    \* the meeting's schedule
  config,     \* its auto-call configuration
  part,       \* each user's row of scheduled participants
  made,       \* rows of participants stored so far
  away,       \* <<user, day>> of approved leave
  present,    \* users in the meeting
  declined,   \* when the user's invite was last answered with a decline
  request,    \* requests in flight
  minute,     \* the minute the job runs in next
  now,        \* present time
  run,        \* the job's present run
  calls,      \* history: the calls made
  version,    \* history: changes of the configuration
  steady,     \* history: first minute no change has disturbed
  whole,      \* history: the configuration was validated with every field known
  late,       \* history: users who declined since the present run last read
  refused,    \* history: <<user, trigger>> of the sessions declined
  out,        \* history: users removed with no answer of theirs in flight
  spent,      \* history: <<user, row>> answered by token with no other answer in flight
  changes     \* number of requests and changes from outside, for the bound

cronVars == <<minute, now, run, calls>>
rowVars == <<part, made, out, spent>>
autoCallVars == <<meeting, config, part, made, away, present, declined, request, minute,
                  now, run, calls, version, steady, whole, late, refused, out, spent,
                  changes>>

----------------------------------------------------------------------------
(* Times of a meeting.                                                     *)

Day(t) == t \div DaySeconds
WeekdayOf(d) == (FirstDay + d) % 7

\* The meeting has a start to be computed at time t.
Takes(m, t, weekdays) ==
  \/ m.kind = "one_time"
  \/ /\ weekdays => WeekdayOf(Day(t)) \notin {0, 6}
     /\ m.kind = "weekly" => WeekdayOf(Day(t)) = m.day

StartAt(m, t) == IF m.kind = "one_time" THEN m.date ELSE Day(t) * DaySeconds + m.at

TriggerAt(m, c, t) == StartAt(m, t) - c.before * 60
RetryAt(base, c, attempt) == base + attempt * c.every * 60

\* Mutant of InWindow: the end of the window belongs to it.
InClosedWindow(x, t) == t - 30 <= x /\ x <= t + 30

\* Mutant of InWindow: the start of the window does not.
InOpenWindow(x, t) == t - 30 < x /\ x < t + 30

InWindow(x, t) == t - 30 <= x /\ x < t + 30

\* The retries reach past the start.
TooLong(c) == c.count > 0 /\ c.count * c.every > c.before

----------------------------------------------------------------------------
AutoCallInit ==
  /\ meeting \in Meetings
  /\ config = NoConfig
  /\ part = [u \in Users |-> NoRow]
  /\ made = 0
  /\ away = {} /\ present = {} /\ late = {} /\ refused = {} /\ out = {} /\ spent = {}
  /\ calls = {}
  /\ declined = [u \in Users |-> Never]
  /\ request = [r \in Requests |-> Nothing]
  /\ minute = 0 /\ now = 0 /\ run = Nothing
  /\ version = 0 /\ steady = 0 /\ changes = 0
  /\ whole = TRUE

\* What the job may read differently from now on.
Unsettle == steady' = minute + (IF run = Nothing THEN 0 ELSE 1)

\* A request begins, or another component changes something.
Event == changes < MaxChanges /\ changes' = changes + 1

----------------------------------------------------------------------------
(* The configuration: upsertAutoCallConfig.                                *)

\* Find and validate.  A first configuration lacks the fields not given, the check
\* passes when it misses one, and the database fills in its defaults.
UpsertFind(r, c) ==
  LET first == config = NoConfig
      new == [f \in Fields |-> Given(c, f, IF first THEN Defaults[f] ELSE config[f])]
      known == ~first \/ {"before", "count", "every"} \subseteq DOMAIN c
  IN
  /\ request[r] = Nothing
  /\ Event
  /\ request' = IF known /\ TooLong(new) THEN request
                ELSE [request EXCEPT ![r] = [op |-> "upsert", first |-> first, new |-> new,
                                             known |-> known]]
  /\ UNCHANGED <<meeting, config, away, present, declined, version, steady, whole, late,
                 refused>>
  /\ UNCHANGED <<rowVars, cronVars>>

\* Save.  Of two first configurations the later violates the unique key.
UpsertSave(r) ==
  LET q == request[r] IN
  /\ q.op = "upsert"
  /\ request' = [request EXCEPT ![r] = Nothing]
  /\ IF q.first /\ config # NoConfig
     THEN UNCHANGED <<config, version, steady, whole>>
     ELSE /\ config' = q.new
          /\ version' = version + 1
          /\ whole' = q.known
          /\ Unsettle
  /\ UNCHANGED <<meeting, away, present, declined, late, refused, changes>>
  /\ UNCHANGED <<rowVars, cronVars>>

----------------------------------------------------------------------------
(* Scheduled participants: create, rsvpByToken, rsvpByUser, remove.        *)

\* create: the users without a row yet.
InviteFind(r, who) ==
  LET new == {u \in who : part[u] = NoRow} IN
  /\ request[r] = Nothing
  /\ new # {}
  /\ Event
  /\ request' = [request EXCEPT ![r] = [op |-> "invite", who |-> new]]
  /\ UNCHANGED <<meeting, config, away, present, declined, version, steady, whole, late,
                 refused>>
  /\ UNCHANGED <<rowVars, cronVars>>

\* The rows are saved together, or none if one violates the unique key.
InviteSave(r) ==
  LET q == request[r] IN
  /\ q.op = "invite"
  /\ made < MaxPeople
  /\ request' = [request EXCEPT ![r] = Nothing]
  /\ IF \E u \in q.who : part[u] # NoRow
     THEN UNCHANGED <<rowVars, steady>>
     ELSE /\ made' = made + 1
          /\ part' = [u \in Users |->
                        IF u \in q.who
                        THEN [status |-> "pending", token |-> TRUE, row |-> made + 1]
                        ELSE part[u]]
          /\ out' = out \ q.who
          /\ UNCHANGED spent
          /\ Unsettle
  /\ UNCHANGED <<meeting, config, away, present, declined, version, whole, late, refused,
                 changes>>
  /\ UNCHANGED cronVars

\* Mutant of Answered: the token stays.
AnsweredKeeping(u, token, status) ==
  [status |-> status, token |-> part[u].token, row |-> part[u].row]

\* The row as it is to be saved.
Answered(u, token, status) ==
  [status |-> status, token |-> part[u].token /\ ~token, row |-> part[u].row]

\* An answer from the email needs the token and uses it up.
AnswerFind(r, u, token, status) ==
  /\ request[r] = Nothing
  /\ part[u] # NoRow
  /\ token => part[u].token
  /\ Event
  /\ request' = [request EXCEPT ![r] =
                   [op |-> "answer", user |-> u, token |-> token,
                    new |-> Answered(u, token, status)]]
  /\ UNCHANGED <<meeting, config, away, present, declined, version, steady, whole, late,
                 refused>>
  /\ UNCHANGED <<rowVars, cronVars>>

Answering(u) == {r \in Requests : request[r].op = "answer" /\ request[r].user = u}

\* Save: a row removed meanwhile is inserted again; with another row in its place the
\* insertion violates the unique key.
AnswerSave(r) ==
  LET q == request[r] IN
  /\ q.op = "answer"
  /\ request' = [request EXCEPT ![r] = Nothing]
  /\ IF part[q.user] # NoRow /\ part[q.user].row # q.new.row
     THEN UNCHANGED <<part, spent, steady>>
     ELSE /\ part' = [part EXCEPT ![q.user] = q.new]
          /\ spent' = IF q.token /\ Answering(q.user) = {r}
                      THEN spent \union {<<q.user, q.new.row>>} ELSE spent
          /\ Unsettle
  /\ UNCHANGED <<meeting, config, made, away, present, declined, version, whole, late,
                 refused, out, changes>>
  /\ UNCHANGED cronVars

Remove(u) ==
  /\ part[u] # NoRow
  /\ Event
  /\ part' = [part EXCEPT ![u] = NoRow]
  /\ out' = IF Answering(u) = {} THEN out \union {u} ELSE out
  /\ Unsettle
  /\ UNCHANGED <<meeting, config, made, spent, away, present, declined, request, version,
                 whole, late, refused>>
  /\ UNCHANGED cronVars

----------------------------------------------------------------------------
(* What other components change: leave, presence, answers to a call.       *)

ApproveLeave(u, d) ==
  /\ <<u, d>> \notin away
  /\ Event
  /\ away' = away \union {<<u, d>>}
  /\ Unsettle
  /\ UNCHANGED <<meeting, config, present, declined, request, version, whole, late, refused>>
  /\ UNCHANGED <<rowVars, cronVars>>

JoinOrLeave(u) ==
  /\ Event
  /\ present' = IF u \in present THEN present \ {u} ELSE present \union {u}
  /\ Unsettle
  /\ UNCHANGED <<meeting, config, away, declined, request, version, whole, late, refused>>
  /\ UNCHANGED <<rowVars, cronVars>>

LastCall(u) == CHOOSE c \in calls : c.user = u /\ \A d \in calls : d.user = u => d.at <= c.at

\* rsvp of meetings.service: a called user declines, or accepts after all.
Decline(u) ==
  /\ \E c \in calls : c.user = u
  /\ declined[u] # now
  /\ Event
  /\ declined' = [declined EXCEPT ![u] = now]
  /\ late' = late \union {u}
  /\ refused' = refused \union {<<u, LastCall(u).base>>}
  /\ UNCHANGED <<meeting, config, away, present, request, version, steady, whole>>
  /\ UNCHANGED <<rowVars, cronVars>>

Accept(u) ==
  /\ declined[u] # Never
  /\ declined' = [declined EXCEPT ![u] = Never]
  /\ refused' = {p \in refused : p[1] # u}
  /\ Unsettle
  /\ UNCHANGED <<meeting, config, away, present, request, version, whole, late, changes>>
  /\ UNCHANGED <<rowVars, cronVars>>

----------------------------------------------------------------------------
(* The minutely job: handleAutoCall.                                       *)

Enabled == config # NoConfig /\ config.enabled

\* The attempts due at time t under the present configuration.
Due(t, attempts) ==
  {a \in attempts :
     InWindow(RetryAt(TriggerAt(meeting, config, t), config, a), t)}

Aim(a, t) ==
  [op |-> "read", attempt |-> a, base |-> TriggerAt(meeting, config, t),
   start |-> StartAt(meeting, t), version |-> version, valid |-> whole]

\* The rest of a run: the retries after the first calls, then nothing.
After(a) == IF a = 0 THEN [op |-> "retry"] ELSE Nothing

CronSame ==
  /\ UNCHANGED <<meeting, config, away, present, declined, request, version, steady, whole,
                 refused, changes>>
  /\ UNCHANGED rowVars

\* findUpcomingAutoCallTargets reads the configurations.
FindFirst(delay) ==
  /\ run = Nothing
  /\ minute <= LastMinute
  /\ now <= minute * 60 + delay
  /\ now' = minute * 60 + delay
  /\ run' = IF Enabled /\ Takes(meeting, now', config.weekdays) /\ Due(now', {0}) # {}
            THEN Aim(0, now')
            ELSE After(0)
  /\ UNCHANGED <<minute, calls, late>>
  /\ CronSame

\* findRetryAutoCallTargets reads them again.
FindRetries(delay) ==
  LET due == Due(now', 1..config.count) IN
  /\ run.op = "retry"
  /\ now <= minute * 60 + delay
  /\ now' = minute * 60 + delay
  /\ IF Enabled /\ Takes(meeting, now', config.weekdays) /\ due # {}
     THEN /\ run' = Aim(CHOOSE a \in due : TRUE, now')
          /\ UNCHANGED minute
     ELSE /\ run' = Nothing
          /\ minute' = minute + 1
  /\ UNCHANGED <<calls, late>>
  /\ CronSame

\* Those who accepted; a retry leaves out who declined since the session's trigger.
Eligible(a, base) ==
  {u \in Users : part[u].status = "accepted" /\ ~(a > 0 /\ declined[u] >= base)}

ReadPeople ==
  /\ run.op = "read"
  /\ run' = [op |-> "call", attempt |-> run.attempt, base |-> run.base, start |-> run.start,
             version |-> run.version, valid |-> run.valid,
             who |-> Eligible(run.attempt, run.base)]
  /\ late' = {}
  /\ UNCHANGED <<minute, now, calls>>
  /\ CronSame

OnLeave(u, start) == <<u, Day(start)>> \in away

\* The leave is read, then all who remain and are not in the meeting are called.
Called == {u \in run.who : ~OnLeave(u, run.start) /\ u \notin present}

Fire ==
  /\ run.op = "call"
  /\ calls' = calls \union
       {[user |-> u, attempt |-> run.attempt, base |-> run.base, start |-> run.start,
         version |-> run.version, valid |-> run.valid, at |-> now] : u \in Called}
  /\ run' = After(run.attempt)
  /\ minute' = IF run.attempt = 0 THEN minute ELSE minute + 1
  /\ UNCHANGED <<now, late>>
  /\ CronSame

\* The process is down in the minute, or dies in its run.
Down ==
  /\ minute <= LastMinute
  /\ run' = Nothing
  /\ minute' = minute + 1
  /\ present' = {}
  /\ request' = [r \in Requests |-> Nothing]
  /\ steady' = minute + 1
  /\ Event
  /\ UNCHANGED <<meeting, config, away, declined, version, whole, late, refused, now, calls>>
  /\ UNCHANGED rowVars

AutoCallNext ==
  \/ \E r \in Requests :
       \/ \E c \in Changes : UpsertFind(r, c)
       \/ UpsertSave(r)
       \/ \E who \in SUBSET Users : InviteFind(r, who)
       \/ InviteSave(r)
       \/ \E u \in Users, token \in BOOLEAN, status \in {"accepted", "declined"} :
            AnswerFind(r, u, token, status)
       \/ AnswerSave(r)
  \/ \E u \in Users :
       \/ Remove(u)
       \/ \E d \in 0..Day(LastMinute * 60) : ApproveLeave(u, d)
       \/ JoinOrLeave(u)
       \/ Decline(u)
       \/ Accept(u)
  \/ \E delay \in Delays : FindFirst(delay) \/ FindRetries(delay)
  \/ ReadPeople
  \/ Fire
  \/ Down

AutoCallSpec == AutoCallInit /\ [][AutoCallNext]_autoCallVars

----------------------------------------------------------------------------
Call == [user: Users, attempt: Nat, base: Int, start: Nat, version: Nat,
         valid: BOOLEAN, at: Nat]

\* Types of the configuration, the participants and the calls.
AutoCallTypeOK ==
  /\ meeting \in Meetings
  /\ config = NoConfig \/ config \in Config
  /\ part \in [Users -> {NoRow} \union [status: {"pending", "accepted", "declined"},
                                        token: BOOLEAN, row: 1..MaxPeople]]
  /\ made \in 0..MaxPeople
  /\ away \subseteq Users \X (0..Day(LastMinute * 60))
  /\ present \subseteq Users /\ late \subseteq Users /\ out \subseteq Users
  /\ declined \in [Users -> Nat \union {Never}]
  /\ refused \subseteq Users \X Int /\ spent \subseteq Users \X (1..MaxPeople)
  /\ minute \in 0..LastMinute + 1
  /\ now \in Nat
  /\ calls \subseteq Call
  /\ version \in Nat /\ steady \in Nat /\ changes \in 0..MaxChanges /\ whole \in BOOLEAN

\* Nobody gets the same call twice: two runs of the job never both find the trigger
\* of a session, or of one of its retries, in their windows, however late each runs
\* within half a minute, as long as the configuration stays and the trigger falls on
\* a full minute (the window around the present of findUpcoming/RetryAutoCallTargets).
CalledOnce ==
  \A c, d \in calls :
    /\ c.user = d.user /\ c.base = d.base /\ c.attempt = d.attempt
    /\ c.version = d.version /\ c.base % 60 = 0
    => c = d

\* Who is to be called is: once the job has run through a full minute in which a
\* trigger or a retry falls, all participants who accepted, are neither on leave nor
\* in the meeting and have not declined have been called, if nothing changed and the
\* process was up from that minute on.
NobodyForgotten ==
  run = Nothing /\ Enabled =>
    \A k \in steady..minute - 1 : \A a \in 0..config.count :
      LET base == TriggerAt(meeting, config, k * 60) IN
      /\ Takes(meeting, k * 60, config.weekdays)
      /\ RetryAt(base, config, a) = k * 60
      => \A u \in Eligible(a, base) \ present :
           \/ OnLeave(u, StartAt(meeting, k * 60))
           \/ \E c \in calls : c.user = u /\ c.base = base /\ c.attempt = a

\* A configuration whose fields were all known when it was validated calls nobody
\* after the start of the meeting, beyond the half minute a run may be late.
NoCallAfterStart == \A c \in calls : c.valid => c.at <= c.start + 30

\* A decline ends the session for its user: no retry follows until the user accepts,
\* unless it came after the retry had read the declines, or the trigger lies in the
\* middle of a minute (getDeclinedUserIds compares the answer's time with it).
DeclineEndsSession ==
  [][\A c \in calls' \ calls :
       <<c.user, c.base>> \in refused /\ c.base % 60 = 0 => c.user \in late]_autoCallVars

\* Answers settle: a user removed while no answer of theirs was in flight is no
\* participant until invited again, and the token of an email does not come back to
\* life once it was used while no other answer of the user was in flight
\* ("Single-use - cleared after the user responds").
AnswersSettle ==
  \A u \in Users :
    /\ u \in out => part[u] = NoRow
    /\ <<u, part[u].row>> \in spent => ~part[u].token

\* "Validate: all retries must complete before the meeting starts."
\* (upsertAutoCallConfig): no call comes after the start.
RetriesBeforeStart == \A c \in calls : c.at <= c.start + 30
============================================================================
