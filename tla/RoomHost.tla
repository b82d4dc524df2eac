------------------------------- MODULE RoomHost -------------------------------
(***************************************************************************)
(* What a meeting promises its participants about the host, without the    *)
(* database, the statements in flight and the co-hosts: somebody electable *)
(* is elected, the host hands over to somebody in the room and to nobody   *)
(* else, and the office ends with the occupation of the room, not before.  *)
(* MeetingSession implements it.                                           *)
(***************************************************************************)
CONSTANTS Users, Sockets, UserOf, Electable, NoUser

VARIABLES occupants, host

Init == occupants = {} /\ host = NoUser

Enter(s) == occupants' = occupants \cup {s} /\ UNCHANGED host

\* The last one out ends the host's office.
Exit(s) ==
    /\ occupants' = occupants \ {s}
    /\ host' = IF occupants' = {} THEN NoUser ELSE host

Elect(h) == host' = h /\ UNCHANGED occupants

HandOver(u) ==
    /\ host # NoUser
    /\ u \in {UserOf[s] : s \in occupants}
    /\ host' = u
    /\ UNCHANGED occupants

\* The meeting is ended for everybody.
Close == occupants' = {} /\ host' = NoUser

Next ==
    \/ \E s \in Sockets : Enter(s) \/ Exit(s)
    \/ \E h \in Electable : Elect(h)
    \/ \E u \in Users : HandOver(u)
    \/ Close

Spec == Init /\ [][Next]_<<occupants, host>>
=============================================================================
