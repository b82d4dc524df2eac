---------------------------- MODULE MCSchedules ----------------------------
EXTENDS HostSchedules, TLC

CONSTANTS h1, h2, s1, s2

MCHosts == {h1, h2}
P(kind, dates, from, to, day, every) ==
  [kind |-> kind, dates |-> dates, from |-> from, to |-> to, day |-> day, every |-> every]
MCPlans ==
  {P("one_time", {2}, 0, 0, 0, 1), P("date_list", {1, 3}, 0, 0, 0, 1),
   P("date_range", {}, 2, 3, 0, 1), P("date_range", {}, 0, 1, 0, 1),
   P("recurring", {}, 0, NoEnd, 1, 1), P("recurring", {}, 1, 5, 0, 2)}
MCSlots == {s1, s2}
ScheduleSymmetry == Permutations(MCSlots)
============================================================================
