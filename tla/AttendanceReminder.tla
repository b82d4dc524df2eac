-------------------------- MODULE AttendanceReminder --------------------------
(***************************************************************************)
(* The mails that remind a user to clock in and to clock out               *)
(* (attendance_reminder.service.ts), beside everything that writes the log *)
(* of the day (AttendanceDay).  A cron job looks every minute; a run that  *)
(* takes longer than a minute swallows the ticks it overlaps.              *)
(***************************************************************************)
EXTENDS AttendanceDay

CONSTANTS
    Runs,      \* runs of the cron job that could be under way at once
    Lead,      \* the ten minutes before the start, and after the end
    Settings   \* the days there may be

VARIABLES
    setting,   \* the user and the day: a member of Settings
    leave,     \* there is an approved request for leave of the day
    run,       \* the runs of the cron job
    mails,     \* how often the user was reminded of each clock
    missed     \* history: the tick of the clock-in reminder came to nothing, or too late

reminder == <<setting, leave, run, mails, missed>>
reminderVars == <<vars, reminder>>

-----------------------------------------------------------------------------
\* The start and the end of the working day, by the user's own schedule or else
\* by the company's, which may have none.
Schedule == [start : Times \cup {Null}, end : Times \cup {Null}]
Setting == [active : BOOLEAN, weekend : BOOLEAN, own : Schedule,
            company : Schedule]

ASSUME ReminderBounds == Lead \in Nat /\ Settings \subseteq Setting

NoSchedule == [start |-> Null, end |-> Null]
Scheduled == IF setting.own = NoSchedule THEN setting.company ELSE setting.own

\* The minute of each reminder, Null where there is none or it is of another day.
Before(t) == IF t # Null /\ t > Lead THEN t - Lead ELSE Null
After(t) == IF t # Null /\ t + Lead <= LastTime THEN t + Lead ELSE Null
Due(mail) == IF mail = "in" THEN Before(Scheduled.start) ELSE After(Scheduled.end)

\* A run: since: the tick that began it; in, out, away: what it has read.
RunSteps == {"idle", "logs", "leave", "remindIn", "logsAgain", "remindOut"}
Run == [step : RunSteps, since : Times, in : BOOLEAN, out : BOOLEAN, away : BOOLEAN]
NoRun == [step |-> "idle", since |-> 1, in |-> FALSE, out |-> FALSE, away |-> FALSE]
BeginRun(t) == [step |-> "logs", since |-> t, in |-> FALSE, out |-> FALSE, away |-> FALSE]

ReminderTypeOK ==
    /\ setting \in Settings
    /\ leave \in BOOLEAN
    /\ run \in [Runs -> Run]
    /\ mails \in [{"in", "out"} -> Nat]
    /\ missed \in BOOLEAN

ReminderInit ==
    /\ Init
    /\ setting \in Settings
    /\ leave = FALSE
    /\ \E r \in Runs : run = [q \in Runs |-> IF q = r THEN BeginRun(1) ELSE NoRun]
    /\ mails = [m \in {"in", "out"} |-> 0]
    /\ missed = FALSE

\* Mutant of MayBegin: runs may overlap.
BeginAnyway(r) == run[r].step = "idle"
\* isRunning
MayBegin(r) == \A q \in Runs : run[q].step = "idle"

Miss(t) == missed' = IF t = Due("in") THEN TRUE ELSE missed

\* A minute begins, and with it a run unless one is under way.
Minute ==
    /\ Tick
    /\ IF \E r \in Runs : MayBegin(r)
       THEN /\ \E r \in Runs : MayBegin(r) /\ run' = [run EXCEPT ![r] = BeginRun(now')]
            /\ UNCHANGED missed
       ELSE /\ Miss(now')
            /\ UNCHANGED run
    /\ UNCHANGED <<setting, leave, mails>>

\* Everything else happens to the log as it does without reminders.
LogStep == Next /\ now' = now /\ UNCHANGED reminder

\* A request for leave of the day is approved.
ApproveLeave ==
    /\ ~leave /\ leave' = TRUE
    /\ UNCHANGED <<vars, setting, run, mails, missed>>

GoOn(r, step) == run' = [run EXCEPT ![r].step = step]

\* checkClockInReminders loads active users, their schedules, the logs of the day ...
LoadClockIn(r) ==
    /\ run[r].step = "logs"
    /\ run' = [run EXCEPT ![r] = [step |-> "leave", since |-> @.since,
                                  in |-> row.in # Null, out |-> FALSE, away |-> FALSE]]
    /\ UNCHANGED <<vars, setting, leave, mails, missed>>

\* ... and who is on leave; ...
LoadLeave(r) ==
    /\ run[r].step = "leave"
    /\ run' = [run EXCEPT ![r] = [step |-> "remindIn", since |-> @.since,
                                  in |-> @.in, out |-> FALSE, away |-> leave]]
    /\ UNCHANGED <<vars, setting, leave, mails, missed>>

\* The mail is sent in the very minute it is due; a run that comes to it late does not.
Remind(r, mail, wanted) ==
    /\ mails' = IF setting.active /\ ~setting.weekend /\ now = Due(mail) /\ wanted
                THEN [mails EXCEPT ![mail] = @ + 1] ELSE mails
    /\ IF now # run[r].since THEN Miss(run[r].since) ELSE UNCHANGED missed

\* ... then reminds the user, if it is time ...
RemindClockIn(r) ==
    /\ run[r].step = "remindIn"
    /\ Remind(r, "in", ~run[r].in /\ ~run[r].away)
    /\ GoOn(r, "logsAgain")
    /\ UNCHANGED <<vars, setting, leave>>

\* ... and checkClockOutReminders does so again, leave or not.
LoadClockOut(r) ==
    /\ run[r].step = "logsAgain"
    /\ run' = [run EXCEPT ![r] = [step |-> "remindOut", since |-> @.since,
                 in |-> row.in # Null, out |-> row.out # Null, away |-> FALSE]]
    /\ UNCHANGED <<vars, setting, leave, mails, missed>>

RemindClockOut(r) ==
    /\ run[r].step = "remindOut"
    /\ Remind(r, "out", run[r].in /\ ~run[r].out)
    /\ run' = [run EXCEPT ![r] = NoRun]
    /\ UNCHANGED <<vars, setting, leave>>

\* A statement fails, and with it the run.
RunFails(r) ==
    /\ run[r].step # "idle"
    /\ Miss(run[r].since)
    /\ run' = [run EXCEPT ![r] = NoRun]
    /\ UNCHANGED <<vars, setting, leave, mails>>

-----------------------------------------------------------------------------
ReminderNext ==
    \/ LogStep \/ Minute \/ ApproveLeave
    \/ \E r \in Runs : \/ LoadClockIn(r) \/ LoadLeave(r) \/ RemindClockIn(r)
                       \/ LoadClockOut(r) \/ RemindClockOut(r) \/ RunFails(r)

ReminderSpec == ReminderInit /\ [][ReminderNext]_reminderVars

-----------------------------------------------------------------------------
\* Nobody is reminded twice of the same clock (attendance_reminder.service.ts:46),
\* although a run may begin in one minute and come to the mails in the next,
\* and every minute has a tick of its own.
RemindedOnce == \A mail \in {"in", "out"} : mails[mail] <= 1

\* The run of the minute reminds whoever has not clocked in at all, is at work and
\* not on leave (attendance_reminder.service.ts:100-107), unless it was swallowed by
\* a run before it, failed or did not come to the mails within the minute.
NobodyForgotten ==
    LET due == Due("in") IN
    /\ setting.active /\ ~setting.weekend
    /\ due # Null /\ ~missed /\ ~leave
    /\ \A r \in Runs : run[r].step # "idle" => run[r].since > due
    /\ now >= due
    /\ ins = {} /\ ~edited
    => mails["in"] = 1

\* Clock-in reminders come in time, and every reminder at most once.
RemindersInTime == RemindedOnce /\ NobodyForgotten
=============================================================================
