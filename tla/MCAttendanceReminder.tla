------------------------- MODULE MCAttendanceReminder -------------------------
(***************************************************************************)
(* Two writers of the log in flight and a day of four minutes, the         *)
(* office hours from the second to the third, or hours of the user's own.  *)
(***************************************************************************)
EXTENDS AttendanceReminder, TLC

CONSTANTS p1, p2, r1, r2
TwoSlots == {p1, p2}
TwoRuns == {r1, r2}
InAnyOrder == Permutations(TwoSlots) \cup Permutations(TwoRuns)

Office == [start |-> 2, end |-> 3]
AtWork == [active |-> TRUE, weekend |-> FALSE, own |-> NoSchedule, company |-> Office]
SomeDays ==
    {AtWork,
     [AtWork EXCEPT !.weekend = TRUE],
     [AtWork EXCEPT !.own = [start |-> 3, end |-> 4]]}
=============================================================================
