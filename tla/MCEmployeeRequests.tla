--------------------------- MODULE MCEmployeeRequests ---------------------------
(* Instances of EmployeeRequests: two calls of approve, two of update (one by   *)
(* the owner), one column and two days.                                         *)
EXTENDS EmployeeRequests, TLC

CONSTANTS d1, d2, e1, e2, created, c1, mon, tue
TwoDecisions == {d1, d2}
TwoEdits == {e1, e2}
OneOwnerEdit == {e1}
OneCell == {c1}
TwoDays == {mon, tue}
Alike == Permutations(TwoDecisions) \cup Permutations(TwoDays)
=============================================================================
