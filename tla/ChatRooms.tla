------------------------------ MODULE ChatRooms ------------------------------
(***************************************************************************)
(* The chat rooms and their members (chat-room.service.ts).  Every         *)
(* operation checks with one statement and writes with later ones, no      *)
(* transaction around them; the database keeps names unique, one           *)
(* membership per user and room, and members only of rooms that exist.     *)
(***************************************************************************)
EXTENDS Naturals, FiniteSets

CONSTANTS
  Users,
  Names,         \* names a client may give a room
  MeetingName,   \* the name of the room of the meeting
  MaxRooms,      \* bound on the rooms ever stored
  Slots,         \* requests that may overlap
  MaxRequests    \* bound on the requests

ASSUME RoomsAssumption ==
  /\ MeetingName \notin Names
  /\ MaxRooms \in Nat
  /\ MaxRequests \in Nat

Ids == 1..MaxRooms
Idle == [op |-> "idle"]

\* The name a direct room gets from the user it is with.
AutoName(v) == <<v>>
RoomNames == Names \cup {MeetingName} \cup {AutoName(v) : v \in Users}

\* A row of chat_rooms; talked: the room has messages.
Room ==
  [direct: BOOLEAN, private: BOOLEAN, name: RoomNames, deleted: BOOLEAN, talked: BOOLEAN]
NoRoom == [name |-> <<>>]

VARIABLES
  made,       \* number of rooms stored so far
  room,       \* rows of chat_rooms, NoRoom when removed
  member,     \* rows of chat_room_members: role of each user in each room
  flight,     \* requests suspended at an await
  failed,     \* history: rooms whose creation broke off
  loose,      \* history: rooms that got members later, or whose creation others crossed
  crossed,    \* history: slots during whose request another added members
  lost,       \* history: rooms removed with messages in them
  hurried,    \* history: rooms that got a message after their messages were counted
  requests    \* number of requests, for the bound

roomVars == <<made, room, member, flight, failed, loose, crossed, lost, hurried, requests>>
history == <<failed, loose, lost, hurried>>

Exists(id) == room[id] # NoRoom
Live(id) == Exists(id) /\ ~room[id].deleted
MembersOf(id) == {u \in Users : member[id][u] # "none"}
NameTaken(n) == \E id \in Ids : room[id].name = n
NoMembers == [u \in Users |-> "none"]

\* findDirectRoomBetweenUsers
DirectBetween(u, v) ==
  {id \in Ids : Live(id) /\ room[id].direct /\ {u, v} \subseteq MembersOf(id)}

RoomsInit ==
  /\ made = 0
  /\ room = [id \in Ids |-> NoRoom]
  /\ member = [id \in Ids |-> NoMembers]
  /\ flight = [k \in Slots |-> Idle]
  /\ failed = {} /\ loose = {} /\ crossed = {} /\ lost = {} /\ hurried = {}
  /\ requests = 0

Ask == requests < MaxRequests /\ requests' = requests + 1
Start(k, f) ==
  Ask /\ flight[k] = Idle /\ flight' = [flight EXCEPT ![k] = f] /\ crossed' = crossed \ {k}
Go(k, f) == flight' = [flight EXCEPT ![k] = f] /\ UNCHANGED requests
Finish(k) == Go(k, Idle)

\* Some other request is creating a room while this one adds members.
Cross(k) ==
  crossed' = crossed \cup
    {i \in Slots \ {k} : flight[i].op \in {"save", "creator", "others"}}

----------------------------------------------------------------------------
(* Creation: the room, then its creator, then the others.                  *)

NewRoom(creator, direct, private, name, others) ==
  [op |-> "save", creator |-> creator, direct |-> direct, private |-> private, name |-> name,
   others |-> others]

\* Mutant of CreateDirect: existing rooms are not looked for.
CreateDirectAnew(k, u, v, name) ==
  /\ u # v
  /\ Start(k, NewRoom(u, TRUE, TRUE, name, {v}))
  /\ UNCHANGED <<made, room, member, history>>

\* A direct room with v: at most one per pair, as far as the check sees.
CreateDirect(k, u, v, name) ==
  /\ u # v
  /\ DirectBetween(u, v) = {}
  /\ Start(k, NewRoom(u, TRUE, TRUE, name, {v}))
  /\ UNCHANGED <<made, room, member, history>>

CreateChannel(k, u, private, name, others) ==
  /\ Start(k, NewRoom(u, FALSE, private, name, others \ {u}))
  /\ UNCHANGED <<made, room, member, history>>

\* The room of the meeting: found, or created with the first user who opens it.
OpenMeeting(k, u) ==
  /\ \A id \in Ids : Live(id) => room[id].name # MeetingName
  /\ Start(k, NewRoom(u, FALSE, TRUE, MeetingName, {}))
  /\ UNCHANGED <<made, room, member, history>>

\* Whoever opens it later becomes a member of it.
EnterMeeting(k, u, id) ==
  /\ Live(id) /\ room[id].name = MeetingName
  /\ u \notin MembersOf(id)
  /\ Start(k, [op |-> "admit", id |-> id, users |-> {u}])
  /\ UNCHANGED <<made, room, member, history>>

\* A name in use, by a deleted room too, refuses the room.
CreateSave(k) ==
  LET f == flight[k]  id == made + 1 IN
  /\ f.op = "save"
  /\ IF NameTaken(f.name)
     THEN Finish(k) /\ UNCHANGED <<made, room>>
     ELSE /\ made < MaxRooms
          /\ made' = id
          /\ room' = [room EXCEPT ![id] =
               [direct |-> f.direct, private |-> f.private, name |-> f.name,
                deleted |-> FALSE, talked |-> FALSE]]
          /\ Go(k, [op |-> "creator", id |-> id, creator |-> f.creator, others |-> f.others])
  /\ UNCHANGED <<member, crossed, history>>

\* The users enter the room with the role, if it is there and none of them is in it.
CanAdd(id, S) == Exists(id) /\ S \cap MembersOf(id) = {}
Adding(id, S, role) ==
  [member EXCEPT ![id] = [u \in Users |-> IF u \in S THEN role ELSE @[u]]]

\* The creator becomes the admin.
CreateCreator(k) ==
  LET f == flight[k] IN
  /\ f.op = "creator"
  /\ CanAdd(f.id, {f.creator})
  /\ member' = Adding(f.id, {f.creator}, "admin")
  /\ Go(k, [op |-> "others", id |-> f.id, others |-> f.others])
  /\ Cross(k)
  /\ UNCHANGED <<made, room, history>>

\* The other user of a direct room, the users invited to a channel.
CreateOthers(k) ==
  LET f == flight[k] IN
  /\ f.op = "others"
  /\ CanAdd(f.id, f.others)
  /\ member' = Adding(f.id, f.others, "member")
  /\ loose' = IF k \in crossed THEN loose \cup {f.id} ELSE loose
  /\ Finish(k)
  /\ Cross(k)
  /\ UNCHANGED <<made, room, failed, lost, hurried>>

\* A statement fails, of itself or because the room is gone or a user is in it already; the
\* room stays as it is.
CreateFails(k) ==
  /\ flight[k].op \in {"creator", "others"}
  /\ failed' = failed \cup {flight[k].id}
  /\ Finish(k)
  /\ UNCHANGED <<made, room, member, crossed, loose, lost, hurried>>

----------------------------------------------------------------------------
(* Members.                                                                *)

\* A user joins a public room, direct rooms that were made public too.
Join(k, u, id) ==
  /\ Live(id) /\ ~room[id].private
  /\ u \notin MembersOf(id)
  /\ Start(k, [op |-> "admit", id |-> id, users |-> {u}])
  /\ UNCHANGED <<made, room, member, history>>

IsAdmin(u, id) == member[id][u] = "admin"

\* invite and inviteBatch: an admin brings users who are not in the room yet.
Invite(k, a, S, id) ==
  /\ Live(id)
  /\ IsAdmin(a, id)
  /\ S \ MembersOf(id) # {}
  /\ Start(k, [op |-> "admit", id |-> id, users |-> S \ MembersOf(id)])
  /\ UNCHANGED <<made, room, member, history>>

\* The rows are inserted together, or none where one of them exists or the room is gone.
Admit(k) ==
  LET f == flight[k] IN
  /\ f.op = "admit"
  /\ IF CanAdd(f.id, f.users)
     THEN member' = Adding(f.id, f.users, "member") /\ loose' = loose \cup {f.id} /\ Cross(k)
     ELSE UNCHANGED <<member, loose, crossed>>
  /\ Finish(k)
  /\ UNCHANGED <<made, room, failed, lost, hurried>>

\* leave, up to the count; whoever asks need not be a member.
Leave(k, u, id) ==
  /\ Live(id)
  /\ member' = [member EXCEPT ![id][u] = "none"]
  /\ Start(k, [op |-> "count", id |-> id])
  /\ UNCHANGED <<made, room, history>>

\* removeMember, up to the delete: an admin removes someone else.
RemoveMember(k, a, u, id) ==
  /\ Live(id)
  /\ IsAdmin(a, id)
  /\ u # a /\ u \in MembersOf(id)
  /\ Start(k, [op |-> "expel", id |-> id, user |-> u])
  /\ UNCHANGED <<made, room, member, history>>

Expel(k) ==
  LET f == flight[k] IN
  /\ f.op = "expel"
  /\ member' = [member EXCEPT ![f.id][f.user] = "none"]
  /\ Go(k, [op |-> "count", id |-> f.id])
  /\ UNCHANGED <<made, room, crossed, history>>

\* The room goes with its last member.
CountMembers(k) ==
  LET f == flight[k] IN
  /\ f.op = "count"
  /\ IF MembersOf(f.id) # {}
     THEN Finish(k) ELSE Go(k, [op |-> "messages", id |-> f.id])
  /\ UNCHANGED <<made, room, member, crossed, history>>

----------------------------------------------------------------------------
(* Rooms.                                                                  *)

\* update: a new name or visibility, of a direct room too.
Update(k, a, id, name, private) ==
  /\ Live(id)
  /\ IsAdmin(a, id)
  /\ Start(k, [op |-> "write", id |-> id, name |-> name, private |-> private])
  /\ UNCHANGED <<made, room, member, history>>

\* Nothing is written where another room has the name or the row is gone.
UpdateWrite(k) ==
  LET f == flight[k] IN
  /\ f.op = "write"
  /\ room' =
       IF Exists(f.id) /\ \A id \in Ids \ {f.id} : room[id].name # f.name
       THEN [room EXCEPT ![f.id] =
              [direct |-> @.direct, private |-> f.private, name |-> f.name,
               deleted |-> @.deleted, talked |-> @.talked]]
       ELSE room
  /\ Finish(k)
  /\ UNCHANGED <<made, member, crossed, history>>

\* remove, up to deleteRoom.
Remove(k, a, id) ==
  /\ Live(id)
  /\ IsAdmin(a, id)
  /\ Start(k, [op |-> "messages", id |-> id])
  /\ UNCHANGED <<made, room, member, history>>

\* Mutant of CountMessages: rooms are never just marked.
CountBlind(k) ==
  LET f == flight[k] IN
  /\ f.op = "messages"
  /\ Go(k, [op |-> "members", id |-> f.id])
  /\ UNCHANGED <<made, room, member, crossed, history>>

\* deleteRoom counts the messages: none, and the rows go; else the room is marked.
CountMessages(k) ==
  LET f == flight[k] IN
  /\ f.op = "messages"
  /\ Go(k, [op |-> IF Exists(f.id) /\ room[f.id].talked THEN "mark" ELSE "members",
            id |-> f.id])
  /\ UNCHANGED <<made, room, member, crossed, history>>

DropMembers(k) ==
  LET f == flight[k] IN
  /\ f.op = "members"
  /\ member' = [member EXCEPT ![f.id] = NoMembers]
  /\ Go(k, [op |-> "drop", id |-> f.id])
  /\ UNCHANGED <<made, room, crossed, history>>

\* The row goes, and with it the members and the messages that came meanwhile.
DropRoom(k) ==
  LET f == flight[k] IN
  /\ f.op = "drop"
  /\ lost' = IF Exists(f.id) /\ room[f.id].talked THEN lost \cup {f.id} ELSE lost
  /\ room' = [room EXCEPT ![f.id] = NoRoom]
  /\ member' = [member EXCEPT ![f.id] = NoMembers]
  /\ Finish(k)
  /\ UNCHANGED <<made, crossed, failed, loose, hurried>>

MarkRoom(k) ==
  LET f == flight[k] IN
  /\ f.op = "mark"
  /\ room' = IF Exists(f.id) THEN [room EXCEPT ![f.id].deleted = TRUE] ELSE room
  /\ Finish(k)
  /\ UNCHANGED <<made, member, crossed, history>>

\* A first message is stored in the room.
Talk(id) ==
  /\ Live(id) /\ ~room[id].talked
  /\ room' = [room EXCEPT ![id].talked = TRUE]
  /\ hurried' =
       IF \E k \in Slots : flight[k].op \in {"members", "drop"} /\ flight[k].id = id
       THEN hurried \cup {id} ELSE hurried
  /\ UNCHANGED <<made, member, flight, crossed, failed, loose, lost, requests>>

----------------------------------------------------------------------------
RoomsNext ==
  \/ \E k \in Slots, u \in Users :
       \/ \E v \in Users : \E name \in Names \cup {AutoName(v)} : CreateDirect(k, u, v, name)
       \/ \E name \in Names, private \in BOOLEAN, S \in SUBSET Users :
            CreateChannel(k, u, private, name, S)
       \/ OpenMeeting(k, u)
       \/ \E id \in Ids :
            \/ EnterMeeting(k, u, id) \/ Join(k, u, id) \/ Leave(k, u, id) \/ Remove(k, u, id)
            \/ \E S \in SUBSET Users : Invite(k, u, S, id)
            \/ \E v \in Users : RemoveMember(k, u, v, id)
            \/ \E name \in Names, private \in BOOLEAN : Update(k, u, id, name, private)
  \/ \E k \in Slots :
       \/ CreateSave(k) \/ CreateCreator(k) \/ CreateOthers(k) \/ CreateFails(k)
       \/ Admit(k) \/ Expel(k) \/ CountMembers(k) \/ UpdateWrite(k)
       \/ CountMessages(k) \/ DropMembers(k) \/ DropRoom(k) \/ MarkRoom(k)
  \/ \E id \in Ids : Talk(id)

RoomsSpec == RoomsInit /\ [][RoomsNext]_roomVars

----------------------------------------------------------------------------
(* Properties.                                                             *)

Flight ==
  {Idle}
    \cup [op: {"save"}, creator: Users, direct: BOOLEAN, private: BOOLEAN,
          name: RoomNames, others: SUBSET Users]
    \cup [op: {"creator"}, id: Ids, creator: Users, others: SUBSET Users]
    \cup [op: {"others"}, id: Ids, others: SUBSET Users]
    \cup [op: {"admit"}, id: Ids, users: SUBSET Users]
    \cup [op: {"expel"}, id: Ids, user: Users]
    \cup [op: {"write"}, id: Ids, name: Names, private: BOOLEAN]
    \cup [op: {"count", "messages", "members", "drop", "mark"}, id: Ids]

\* Types; names are unique, and members are members of rooms that exist.
RoomsTypeOK ==
  /\ made \in 0..MaxRooms
  /\ \A id \in Ids : room[id] \in Room \cup {NoRoom} /\ (id > made => ~Exists(id))
  /\ member \in [Ids -> [Users -> {"none", "member", "admin"}]]
  /\ \A id \in Ids : ~Exists(id) => member[id] = NoMembers
  /\ \A i, j \in Ids : i # j /\ Exists(i) /\ Exists(j) => room[i].name # room[j].name
  /\ flight \in [Slots -> Flight]
  /\ failed \subseteq Ids /\ loose \subseteq Ids /\ lost \subseteq Ids /\ hurried \subseteq Ids
  /\ crossed \subseteq Slots
  /\ requests \in 0..MaxRequests

\* "prevents duplicate 1-1 rooms between the same user pair" (chat-room.service.ts, line
\* 37): two live direct rooms have two members in common only if members were added while
\* one of them was being created, or brought into one of them later.
OneDirectRoom ==
  \A i, j \in Ids \ loose : \A u, v \in Users :
    u # v /\ {i, j} \subseteq DirectBetween(u, v) => i = j

\* "If no members remain, soft-deletes the room" (chat-room.service.ts, line 537): with no
\* request under way, a room without members is one whose creation failed.
NoEmptyRoom ==
  \A id \in Ids \ failed :
    Live(id) /\ (\A k \in Slots : flight[k] = Idle) => MembersOf(id) # {}

\* A room is removed with the messages in it only where a message came after they had been
\* counted: "hard delete if no messages, soft delete otherwise" (chat-room.service.ts, line
\* 816).
MessagesSurvive == lost \subseteq hurried
=============================================================================
