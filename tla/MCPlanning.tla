----------------------------- MODULE MCPlanning -----------------------------
(***************************************************************************)
(* The two plans of a meeting, its hosts and its calls.  They share no     *)
(* variable and read none of the other's, so that a behaviour of both is   *)
(* one of each; an instance moves one of them and leaves the other alone.  *)
(***************************************************************************)
EXTENDS MCSchedules, MCAutoCall

VARIABLE moving   \* the plan that moves

Parts == {"hosts", "calls"}

PlanningInit ==
  /\ moving \in Parts
  /\ ScheduleInit
  /\ AutoCallInit
  /\ moving = "hosts" => meeting = CHOOSE m \in Meetings : TRUE

PlanningNext ==
  \/ moving = "hosts" /\ ScheduleNext /\ UNCHANGED <<moving, autoCallVars>>
  \/ moving = "calls" /\ AutoCallNext /\ UNCHANGED <<moving, scheduleVars>>

PlanningSpec == PlanningInit /\ [][PlanningNext]_<<moving, scheduleVars, autoCallVars>>
Symmetry == ScheduleSymmetry \cup CallSymmetry
=============================================================================
