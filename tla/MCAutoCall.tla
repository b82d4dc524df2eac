---------------------------- MODULE MCAutoCall ----------------------------
EXTENDS AutoCall, TLC

CONSTANTS u1, r1, r2

MCUsers == {u1}
MCRequests == {r1, r2}
MCDelays == {0, 30}
M(kind, at, day, date) == [kind |-> kind, at |-> at, day |-> day, date |-> date]
MCMeetings ==
  {M("daily", 180, 0, 0), M("weekly", 120, 6, 0), M("one_time", 0, 0, 300)}
MCChanges ==
  {[before |-> 2, count |-> 1, every |-> 1], [enabled |-> FALSE],
   [weekdays |-> TRUE, before |-> 1, count |-> 1, every |-> 1], [count |-> 3]}
CallSymmetry == Permutations(MCRequests)
===========================================================================
