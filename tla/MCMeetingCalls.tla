---------------------------- MODULE MCMeetingCalls ----------------------------
(***************************************************************************)
(* The calls of a meeting, and the audio and the votes in its room.  They  *)
(* share no variable but who is in the room, which neither audio nor votes *)
(* write, so that a behaviour of all is one of each; an instance moves one *)
(* of them, and whoever comes and goes, and leaves the others alone.       *)
(***************************************************************************)
EXTENDS MeetingCalls, MeetingFloor, TLC

CONSTANTS r1, r2, s1, s2, ann, bob

TwoRequests == {r1, r2}
TwoClients == {s1, s2}
FirstClient == {s1}
TwoVoters == {ann, bob}
OneClientEach == (s1 :> ann) @@ (s2 :> bob)

VARIABLE moving   \* the part that moves

CallsInit == moving \in {"calls", "audio", "votes"} /\ Init /\ FloorInit

CallsNext ==
  \/ moving = "calls" /\ Next /\ UNCHANGED <<moving, floorVars>>
  \/ moving = "audio" /\ (PeopleNext \/ AudioNext) /\ UNCHANGED <<moving, vars>>
  \/ moving = "votes" /\ (PeopleNext \/ VotesNext) /\ UNCHANGED <<moving, vars>>

CallsSpec ==
  CallsInit /\ [][CallsNext]_<<moving, vars, floorVars>> /\ Fairness /\ FloorFairness
===============================================================================
