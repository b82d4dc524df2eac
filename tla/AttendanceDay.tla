----------------------------- MODULE AttendanceDay -----------------------------
(***************************************************************************)
(* The attendance log of one user on one day (attendance_logs, unique per  *)
(* user and date) and everything that writes it: punches of the ZKTeco     *)
(* device (iclock), QR and face scans, the manual clock of remote users,   *)
(* approved clock-forget requests, the nightly absence fill, and edits by  *)
(* an administrator.                                                       *)
(*                                                                         *)
(* All but the edits end in upsert, which reads the row, compares and then *)
(* writes; several may be in flight.  Each database call is a step.        *)
(***************************************************************************)
EXTENDS Integers

CONSTANTS
    Slots,        \* the requests (or device records) that may be in flight
    LastTime,     \* bound: times of the day are 1..LastTime
    Gap,          \* CLOCK_OUT_MIN_GAP_MINUTES
    MaxCommands   \* bound: requests that are made

ASSUME DayBounds ==
    LastTime \in Nat \ {0} /\ Gap \in Nat \ {0} /\ MaxCommands \in Nat

VARIABLES
    row,        \* the log, day = "none" while there is no row
    punch,      \* slot -> the request in it
    edit,       \* the administrator's edit in flight
    filled,     \* the absence fill of this day has begun
    now,        \* the server's time of day
    ins, outs,  \* history: recorded clock-ins and clock-outs since an edit
    scanOuts,   \* history: those clock-outs that a scan decided upon
    overlapped, \* history: a write fell between the read and write of another
    edited,     \* history: an administrator has edited the log
    commands

history == <<ins, outs, scanOuts, overlapped, edited>>
vars == <<row, punch, edit, filled, now, history, commands>>

-----------------------------------------------------------------------------
Times == 1..LastTime
Null == 0
Keep == -1   \* a field that an edit leaves alone

Row == [day : {"none", "logged"}, in : Times \cup {Null},
        out : Times \cup {Null}, count : {0, 1}]
NoRow == [day |-> "none", in |-> Null, out |-> Null, count |-> 0]

\* scan: QR or face; remote: a manual clock-in or -out; fill: the absence fill;
\* direct: a device record or an approved clock-forget request, without a check.
Kinds == {"scan", "remoteIn", "remoteOut", "fill", "direct"}
Steps == {"idle", "check", "read", "write"}
Punch == [step : Steps, kind : Kinds, in : Times \cup {Null},
          out : Times \cup {Null}, seen : Row]
NoPunch == [step |-> "idle", kind |-> "direct", in |-> Null, out |-> Null,
            seen |-> NoRow]

Edit == [step : {"idle", "write"}, in : Times \cup {Null, Keep},
         out : Times \cup {Null, Keep}]
NoEdit == [step |-> "idle", in |-> Keep, out |-> Keep]

HistoryOK ==
    /\ ins \subseteq Times /\ outs \subseteq Times /\ scanOuts \subseteq Times
    /\ overlapped \in BOOLEAN /\ edited \in BOOLEAN

\* Type invariant: times are of this day, counts are 0 or 1.
TypeOK ==
    /\ row \in Row
    /\ punch \in [Slots -> Punch]
    /\ edit \in Edit
    /\ filled \in BOOLEAN
    /\ now \in Times
    /\ HistoryOK
    /\ commands \in 0..MaxCommands

Init ==
    /\ row = NoRow
    /\ punch = [p \in Slots |-> NoPunch]
    /\ edit = NoEdit
    /\ filled = FALSE
    /\ now = 1
    /\ ins = {} /\ outs = {} /\ scanOuts = {}
    /\ overlapped = FALSE /\ edited = FALSE
    /\ commands = 0

Command == commands < MaxCommands /\ commands' = commands + 1

Begin(p, step, kind, in, out) ==
    /\ Command
    /\ punch[p].step = "idle"
    /\ punch' = [punch EXCEPT ![p] = [step |-> step, kind |-> kind,
                                      in |-> in, out |-> out, seen |-> NoRow]]

\* Slot p goes on to upsert with these times, or is done.
Upsert(p, in, out) ==
    punch' = [punch EXCEPT ![p] = [step |-> "read", kind |-> punch[p].kind,
                                   in |-> in, out |-> out, seen |-> NoRow]]
Done(p) == punch' = [punch EXCEPT ![p] = NoPunch]

\* Mutant of CountOf: only clock-ins count.
CountOfIn(in, out) == IF in # Null THEN 1 ELSE 0
CountOf(in, out) == IF in # Null \/ out # Null THEN 1 ELSE 0

\* The clock-in and clock-out that upsert keeps, given the row it has read.
\* Mutant of Earlier: the latest clock-in wins.
LaterIn(in, seen) == in # Null /\ (seen.in = Null \/ in > seen.in)
Earlier(in, seen) == in # Null /\ (seen.in = Null \/ in < seen.in)
Later(out, seen) == out # Null /\ (seen.out = Null \/ out > seen.out)
\* A write of slot p that comes between the read and the write of another.
Overlaps(p) == \E q \in Slots \ {p} : punch[q].step = "write"

-----------------------------------------------------------------------------
\* A device record or an approved clock-forget request names its time.
Record(p, t, isOut) ==
    /\ IF isOut THEN Begin(p, "read", "direct", Null, t)
                ELSE Begin(p, "read", "direct", t, Null)
    /\ UNCHANGED <<row, edit, filled, now, history>>

\* A QR or face scan, or a remote user's button, at the server's time.
Scan(p) ==
    /\ Begin(p, "check", "scan", now, Null)
    /\ UNCHANGED <<row, edit, filled, now, history>>

RemoteIn(p) ==
    /\ Begin(p, "check", "remoteIn", now, Null)
    /\ UNCHANGED <<row, edit, filled, now, history>>

RemoteOut(p) ==
    /\ Begin(p, "check", "remoteOut", Null, now)
    /\ UNCHANGED <<row, edit, filled, now, history>>

\* The cron job runs once a day.
Fill(p) ==
    /\ ~filled /\ filled' = TRUE
    /\ Begin(p, "check", "fill", Null, Null)
    /\ UNCHANGED <<row, edit, now, history>>

\* Mutant of IsOut: a second scan clocks out however soon it comes.
AnyLater(t) == row.in # Null /\ t >= row.in
\* Too soon after the clock-in, a scan is the clock-in once more.
IsOut(t) == row.in # Null /\ t - row.in >= Gap

\* What the callers of upsert read before they call it.
Check(p) ==
    /\ punch[p].step = "check"
    /\ \/ /\ punch[p].kind = "scan"
          /\ IF IsOut(punch[p].in) THEN Upsert(p, Null, punch[p].in)
                                   ELSE Upsert(p, punch[p].in, Null)
       \/ /\ punch[p].kind = "remoteIn"
          /\ IF row.in = Null THEN Upsert(p, punch[p].in, Null) ELSE Done(p)
       \/ /\ punch[p].kind = "remoteOut"
          /\ IF row.in # Null THEN Upsert(p, Null, punch[p].out) ELSE Done(p)
       \/ /\ punch[p].kind = "fill"
          /\ IF row.day = "none" THEN Upsert(p, Null, Null) ELSE Done(p)
    /\ UNCHANGED <<row, edit, filled, now, history, commands>>

-----------------------------------------------------------------------------
\* upsert reads the row, then the schedule of the day ...
Read(p) ==
    /\ punch[p].step = "read"
    /\ punch' = [punch EXCEPT ![p] = [step |-> "write", kind |-> punch[p].kind,
                                      in |-> punch[p].in, out |-> punch[p].out,
                                      seen |-> row]]
    /\ UNCHANGED <<row, edit, filled, now, history, commands>>

Remember(p) ==
    /\ ins' = ins \cup ({punch[p].in} \ {Null})
    /\ outs' = outs \cup ({punch[p].out} \ {Null})
    /\ scanOuts' = scanOuts \cup
          IF punch[p].kind = "scan" THEN {punch[p].out} \ {Null} ELSE {}
    /\ overlapped' = IF Overlaps(p) THEN TRUE ELSE overlapped
    /\ UNCHANGED edited

\* ... and updates what has changed since it read the row.
UpdateClock(p) ==
    LET seen == punch[p].seen
        newIn == Earlier(punch[p].in, seen)
        newOut == Later(punch[p].out, seen)
    IN  /\ punch[p].step = "write"
        /\ seen.day = "logged"
        /\ newIn \/ newOut
        /\ row' = [day |-> row.day,
                   in |-> IF newIn THEN punch[p].in ELSE row.in,
                   out |-> IF newOut THEN punch[p].out ELSE row.out,
                   count |-> CountOf(IF newIn THEN punch[p].in ELSE seen.in,
                                     IF newOut THEN punch[p].out ELSE seen.out)]
        /\ Remember(p)
        /\ Done(p)
        /\ UNCHANGED <<edit, filled, now, commands>>

\* The clock stays; if the count was wrong or the schedule has changed (which
\* the model does not follow, so either way), the count is written all the same.
UpdateCount(p) ==
    LET seen == punch[p].seen
        newCount == CountOf(seen.in, seen.out)
    IN  /\ punch[p].step = "write"
        /\ seen.day = "logged"
        /\ ~Earlier(punch[p].in, seen) /\ ~Later(punch[p].out, seen)
        /\ \/ row' = [day |-> row.day, in |-> row.in, out |-> row.out,
                      count |-> newCount]
           \/ seen.count = newCount /\ UNCHANGED row
        /\ Remember(p)
        /\ Done(p)
        /\ UNCHANGED <<edit, filled, now, commands>>

Insert(p) ==
    /\ punch[p].step = "write"
    /\ punch[p].seen.day = "none"
    /\ row.day = "none"
    /\ row' = [day |-> "logged", in |-> punch[p].in, out |-> punch[p].out,
               count |-> CountOf(punch[p].in, punch[p].out)]
    /\ Remember(p)
    /\ Done(p)
    /\ UNCHANGED <<edit, filled, now, commands>>

\* The row was inserted meanwhile: the unique key refuses the punch.
InsertRefused(p) ==
    /\ punch[p].step = "write"
    /\ punch[p].seen.day = "none"
    /\ row.day = "logged"
    /\ Done(p)
    /\ UNCHANGED <<row, edit, filled, now, history, commands>>

-----------------------------------------------------------------------------
\* adminEdit of an existing log: reads it and saves the audit record ...
AdminEdit(in, out) ==
    /\ Command
    /\ edit.step = "idle"
    /\ row.day = "logged"
    /\ edit' = [step |-> "write", in |-> in, out |-> out]
    /\ UNCHANGED <<row, punch, filled, now, history>>

\* ... and writes the given fields, whatever the log says by now.
AdminWrite ==
    /\ edit.step = "write"
    /\ row' = [day |-> row.day,
               in |-> IF edit.in = Keep THEN row.in ELSE edit.in,
               out |-> IF edit.out = Keep THEN row.out ELSE edit.out,
               count |-> row.count]
    /\ ins' = IF edit.in = Keep THEN ins ELSE {edit.in} \ {Null}
    /\ outs' = IF edit.out = Keep THEN outs ELSE {edit.out} \ {Null}
    /\ overlapped' = IF \E q \in Slots : punch[q].step = "write"
                     THEN TRUE ELSE overlapped
    /\ edited' = TRUE
    /\ edit' = NoEdit
    /\ UNCHANGED <<scanOuts, punch, filled, now, commands>>

Tick ==
    /\ now < LastTime
    /\ now' = now + 1
    /\ UNCHANGED <<row, punch, edit, filled, history, commands>>

-----------------------------------------------------------------------------
Write(p) == UpdateClock(p) \/ UpdateCount(p) \/ Insert(p) \/ InsertRefused(p)

Next ==
    \/ \E p \in Slots : \/ \E t \in Times, isOut \in BOOLEAN : Record(p, t, isOut)
                        \/ Scan(p) \/ RemoteIn(p) \/ RemoteOut(p) \/ Fill(p)
                        \/ Check(p) \/ Read(p) \/ Write(p)
    \/ \E in, out \in Times \cup {Null, Keep} : AdminEdit(in, out)
    \/ AdminWrite
    \/ Tick

Spec == Init /\ [][Next]_vars

-----------------------------------------------------------------------------
\* The log holds the earliest clock-in and the latest clock-out recorded, in
\* whatever order they arrive and however often the device sends them again, as
\* long as no two requests of the day overlap (attendance_logs.service.ts:373).
EarliestAndLatest ==
    ~overlapped =>
        /\ IF ins = {} THEN row.in = Null
                       ELSE row.in \in ins /\ \A t \in ins : row.in <= t
        /\ IF outs = {} THEN row.out = Null
                        ELSE row.out \in outs /\ \A t \in outs : row.out >= t

\* A clock-out that a scan decided upon is at least the gap after the clock-in,
\* though the scan decides on one read and writes after another, and the
\* clock-in may move in between (attendance_logs.service.ts:355-363).
ScansKeepGap ==
    ~overlapped /\ ~edited =>
        \A t \in scanOuts : row.in # Null /\ t - row.in >= Gap

\* The log is what the scans and records say: the first and the last of them, in any
\* order of arrival, with the gap a scan demands between the two.
ClockIsKept == EarliestAndLatest /\ ScansKeepGap

\* Unless an administrator edits it, the day counts exactly if the user clocked,
\* also when requests overlap and the count is computed from a stale row.
CountUnlessEdited ==
    ~edited => row.count = IF row.in # Null \/ row.out # Null THEN 1 ELSE 0

\* "1 if user clocked in or out at any point that day, 0 otherwise"
\* (attendance_log.entity.ts:65).
CountSaysClocked == row.in # Null \/ row.out # Null => row.count = 1
=============================================================================
