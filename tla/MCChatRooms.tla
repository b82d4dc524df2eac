---------------------------- MODULE MCChatRooms ----------------------------
(***************************************************************************)
(* The chat rooms, and what users keep about them: read marks, reactions   *)
(* and sections.  The four share no variable, and none reads another's, so *)
(* that a behaviour of all is one of each; an instance moves one of them   *)
(* and leaves the others alone.                                            *)
(***************************************************************************)
EXTENDS ChatRooms, ReadMarks, MessageReactions, RoomSections, TLC

CONSTANTS ann, bob, reader, writer, n1, k1, k2, u1, u2, e1, e2, t1, t2, r1, r2, c1, c2

MCUsers == {ann, bob}
MCNames == {n1}
MCSlots == {k1, k2}
MCMembers == {reader, writer}
MCReaders == {reader}
MCPeople == {u1, u2}
MCEmojis == {e1, e2}
MCToggles == {t1, t2}
MCResources == {r1, r2}
MCClerks == {c1, c2}
Symmetry == Permutations(MCUsers) \cup Permutations(MCSlots)

VARIABLE moving   \* the part that moves

ChatInstances == {"rooms", "marks", "reactions", "sections"}

ChatRoomsInit ==
  /\ moving \in ChatInstances
  /\ RoomsInit /\ MarksInit /\ ReactionsInit /\ SectionsInit

ChatRoomsNext ==
  \/ /\ moving = "rooms" /\ RoomsNext
     /\ UNCHANGED <<moving, markVars, reactionVars, sectionVars>>
  \/ /\ moving = "marks" /\ MarksNext
     /\ UNCHANGED <<moving, roomVars, reactionVars, sectionVars>>
  \/ /\ moving = "reactions" /\ ReactionsNext
     /\ UNCHANGED <<moving, roomVars, markVars, sectionVars>>
  \/ /\ moving = "sections" /\ SectionsNext
     /\ UNCHANGED <<moving, roomVars, markVars, reactionVars>>

ChatRoomsSpec ==
  ChatRoomsInit
    /\ [][ChatRoomsNext]_<<moving, roomVars, markVars, reactionVars, sectionVars>>
============================================================================
