--------------------------- MODULE ChatRooms_proofs ---------------------------
(***************************************************************************)
(* Theorems about chat rooms, their members, read marks, reactions and     *)
(* sections, for any users, rooms, requests and bounds.                    *)
(***************************************************************************)
EXTENDS ChatRooms, ReadMarks, MessageReactions, RoomSections, FiniteSetTheorems,
        WellFoundedInduction, TLAPS

USE MarksAssumption, RoomsAssumption

-----------------------------------------------------------------------------
(* Read marks: types.                                                      *)

MessageRow == [by: Members, at: 0..MaxTime, time: 0..MaxTime, reply: BOOLEAN]

ClockTypes ==
  /\ now \in 0..MaxTime
  /\ lastRead \in [Readers -> {Never} \cup 0..MaxTime]
  /\ marks \subseteq [user: Readers, time: 0..now, n: 1..MaxMarks]
  /\ called \in [Readers -> 0..MaxMarks] /\ holds \in [Readers -> 0..MaxMarks]
  /\ leftAt \in [Readers -> 0..now]

MessageTypes ==
  /\ here \subseteq Members
  /\ message \in Seq(MessageRow)
  /\ \A m \in Posts : message[m].time <= now
  /\ sending \subseteq Posts /\ telling \subseteq Posts /\ untold \subseteq Posts
  /\ shown \in [Readers -> SUBSET Posts]
  /\ told \in [Readers -> SUBSET Posts]
  /\ missed \in [Readers -> SUBSET Posts]

LEMMA ClockTypesImplied == ClockTypes /\ MessageTypes => MarksTypeOK
<1> SUFFICES ASSUME ClockTypes, MessageTypes PROVE MarksTypeOK
  OBVIOUS
<1>1. \A m \in Posts :
        message[m] \in [by: Members, at: 0..MaxTime, time: 0..now, reply: BOOLEAN]
  <2> TAKE m \in Posts
  <2>1. message[m] \in MessageRow /\ message[m].time <= now
    BY DEF MessageTypes, Posts
  <2> QED BY <2>1 DEF MessageRow, ClockTypes
<1>2. marks \subseteq [user: Members, time: 0..now, n: 1..MaxMarks]
  BY DEF ClockTypes
<1>3. \A u \in Readers : shown[u] \cup told[u] \cup missed[u] \subseteq Posts
  BY DEF MessageTypes
<1> QED BY <1>1, <1>2, <1>3 DEF MarksTypeOK, ClockTypes, MessageTypes

LEMMA TypesInit == MarksInit => ClockTypes /\ MessageTypes
<1> SUFFICES ASSUME MarksInit PROVE ClockTypes /\ MessageTypes
  OBVIOUS
<1>1. ClockTypes
  BY DEF MarksInit, ClockTypes, Never
<1>2. MessageTypes
  BY DEF MarksInit, MessageTypes, Posts
<1> QED BY <1>1, <1>2

\* The times a mark may store lie between the start and the bound.
LEMMA StoredBound ==
  ASSUME NEW t \in 0..MaxTime
  PROVE  Second(t) \in 0..MaxTime /\ Stored(t) \subseteq 0..MaxTime
BY DEF Second, Stored

LEMMA ClockTypesStep ==
  ClockTypes /\ MessageTypes /\ [MarksNext]_markVars => ClockTypes'
<1> SUFFICES ASSUME ClockTypes, MessageTypes, [MarksNext]_markVars PROVE ClockTypes'
  OBVIOUS
<1> USE DEF ClockTypes
<1>1. ASSUME NEW u \in Readers, Enter(u) PROVE ClockTypes'
  BY <1>1 DEF Enter, MarkAsRead
<1>2. ASSUME NEW u \in Readers, Depart(u) PROVE ClockTypes'
  BY <1>2 DEF Depart, MarkAsRead
<1>3. ASSUME NEW u \in Members, NEW reply \in BOOLEAN, StoreMessage(u, reply)
      PROVE  ClockTypes'
  BY <1>3 DEF StoreMessage
<1>4. ASSUME NEW k \in marks, MarkRuns(k) PROVE ClockTypes'
  <2>1. k \in [user: Readers, time: 0..now, n: 1..MaxMarks] /\ k.time \in 0..MaxTime
    OBVIOUS
  <2>2. Stored(k.time) \subseteq 0..MaxTime
    BY <2>1, StoredBound
  <2> QED BY <1>4, <2>1, <2>2 DEF MarkRuns
<1>5. ASSUME NEW k \in marks, MarkFails(k) PROVE ClockTypes'
  BY <1>5 DEF MarkFails
<1>6. ASSUME NEW m \in Posts, Broadcast(m) PROVE ClockTypes'
  BY <1>6 DEF Broadcast
<1>7. ASSUME NEW m \in Posts, NotifyUnread(m) PROVE ClockTypes'
  BY <1>7 DEF NotifyUnread
<1>8. ASSUME NEW m \in Posts, NotifyFails(m) PROVE ClockTypes'
  BY <1>8 DEF NotifyFails
<1>9. CASE MarksTick
  BY <1>9 DEF MarksTick
<1>10. CASE UNCHANGED markVars
  BY <1>10 DEF markVars
<1> QED BY <1>1, <1>2, <1>3, <1>4, <1>5, <1>6, <1>7, <1>8, <1>9, <1>10 DEF MarksNext

\* A stored message is a row after those stored before.
LEMMA Appended ==
  ASSUME ClockTypes, MessageTypes, NEW u \in Members, NEW reply \in BOOLEAN,
         StoreMessage(u, reply)
  PROVE  /\ message' \in Seq(MessageRow)
         /\ Len(message') = Len(message) + 1
         /\ Posts' = Posts \cup {Len(message')}
         /\ \A m \in Posts : message'[m] = message[m]
         /\ message'[Len(message')].by = u
         /\ message'[Len(message')].time = now
         /\ message'[Len(message')].at = Second(now)
<1> DEFINE post == [by |-> u, at |-> Second(now), time |-> now, reply |-> reply]
<1>1. post \in MessageRow
  BY StoredBound DEF ClockTypes, MessageRow
<1>2. message' = Append(message, post)
  BY DEF StoreMessage
<1>3. message \in Seq(MessageRow)
  BY DEF MessageTypes
<1> HIDE DEF post
<1>4. /\ message' \in Seq(MessageRow)
      /\ Len(message') = Len(message) + 1
      /\ \A m \in 1..Len(message) : message'[m] = message[m]
      /\ message'[Len(message')] = post
  BY <1>1, <1>2, <1>3
<1>5. Len(message) \in Nat
  BY <1>3
<1> QED BY <1>4, <1>5 DEF Posts, post

LEMMA MessageTypesStep ==
  ClockTypes /\ MessageTypes /\ [MarksNext]_markVars => MessageTypes'
<1> SUFFICES ASSUME ClockTypes, MessageTypes, [MarksNext]_markVars PROVE MessageTypes'
  OBVIOUS
<1> USE DEF MessageTypes
<1>1. ASSUME NEW u \in Readers, Enter(u) PROVE MessageTypes'
  BY <1>1 DEF Enter, Posts
<1>2. ASSUME NEW u \in Readers, Depart(u) PROVE MessageTypes'
  BY <1>2 DEF Depart, Posts
<1>3. ASSUME NEW u \in Members, NEW reply \in BOOLEAN, StoreMessage(u, reply)
      PROVE  MessageTypes'
  <2>1. /\ message' \in Seq(MessageRow)
        /\ Posts' = Posts \cup {Len(message')}
        /\ \A m \in Posts : message'[m] = message[m]
        /\ message'[Len(message')].time = now
    BY <1>3, Appended
  <2>2. now' = now /\ now \in Nat
    BY <1>3 DEF StoreMessage, ClockTypes
  <2>3. \A m \in Posts' : message'[m].time <= now'
    BY <2>1, <2>2
  <2>4. sending' \subseteq Posts' /\ telling' \subseteq Posts' /\ untold' \subseteq Posts'
    BY <1>3, <2>1 DEF StoreMessage
  <2>5. /\ shown' \in [Readers -> SUBSET Posts']
        /\ told' \in [Readers -> SUBSET Posts']
        /\ missed' \in [Readers -> SUBSET Posts']
    BY <1>3, <2>1 DEF StoreMessage
  <2> QED BY <1>3, <2>1, <2>3, <2>4, <2>5 DEF StoreMessage
<1>4. ASSUME NEW k \in marks, MarkRuns(k) PROVE MessageTypes'
  BY <1>4 DEF MarkRuns, Posts
<1>5. ASSUME NEW k \in marks, MarkFails(k) PROVE MessageTypes'
  BY <1>5 DEF MarkFails, Posts
<1>6. ASSUME NEW m \in Posts, Broadcast(m) PROVE MessageTypes'
  BY <1>6 DEF Broadcast, Posts
<1>7. ASSUME NEW m \in Posts, NotifyUnread(m) PROVE MessageTypes'
  BY <1>7 DEF NotifyUnread, Posts
<1>8. ASSUME NEW m \in Posts, NotifyFails(m) PROVE MessageTypes'
  BY <1>8 DEF NotifyFails, Posts
<1>9. CASE MarksTick
  <2>1. now \in Nat /\ now' = now + 1 /\ message' = message
    BY <1>9 DEF MarksTick, ClockTypes
  <2>2. \A m \in Posts : message[m].time \in Nat
    <3> TAKE m \in Posts
    <3>1. message[m] \in MessageRow
      BY DEF Posts
    <3> QED BY <3>1 DEF MessageRow
  <2>3. \A m \in Posts' : message'[m].time <= now'
    BY <2>1, <2>2 DEF Posts
  <2> QED BY <1>9, <2>3 DEF MarksTick, Posts
<1>10. CASE UNCHANGED markVars
  BY <1>10 DEF markVars, Posts
<1> QED BY <1>1, <1>2, <1>3, <1>4, <1>5, <1>6, <1>7, <1>8, <1>9, <1>10 DEF MarksNext

\* The variables of the read marks have their types: no message is told or shown that is
\* not stored, and no mark is of a time to come (chat-room.service.ts, lines 643-685).
THEOREM MarksTypeCorrect == MarksSpec => []MarksTypeOK
<1>1. MarksInit => ClockTypes /\ MessageTypes
  BY TypesInit
<1>2. ClockTypes /\ MessageTypes /\ [MarksNext]_markVars => ClockTypes' /\ MessageTypes'
  BY ClockTypesStep, MessageTypesStep
<1>3. ClockTypes /\ MessageTypes => MarksTypeOK
  BY ClockTypesImplied
<1> QED BY <1>1, <1>2, <1>3, PTL DEF MarksSpec

-----------------------------------------------------------------------------
(* Nothing is missed.                                                      *)

\* Who is in the room has been given every message that is broadcast: those before the
\* socket entered by the list it loaded, the others as they came.  Without this, a
\* message broadcast before a member enters and looked up afterwards would reach nobody.
PresentHaveAll == \A u \in Readers \cap here : Posts \ sending \subseteq shown[u]

Safe == PresentHaveAll /\ NoMessageMissed

LEMMA SafeInit == MarksInit => Safe
BY DEF MarksInit, Safe, PresentHaveAll, NoMessageMissed, Posts

LEMMA SafeStep ==
  ClockTypes /\ MessageTypes /\ Safe /\ [MarksNext]_markVars => Safe'
<1> SUFFICES ASSUME ClockTypes, MessageTypes, Safe, [MarksNext]_markVars PROVE Safe'
  OBVIOUS
<1> USE DEF Safe, PresentHaveAll, NoMessageMissed, MessageTypes
<1>1. ASSUME NEW u \in Readers, Enter(u) PROVE Safe'
  BY <1>1 DEF Enter, Posts
<1>2. ASSUME NEW u \in Readers, Depart(u) PROVE Safe'
  BY <1>2 DEF Depart, Posts
<1>3. ASSUME NEW u \in Members, NEW reply \in BOOLEAN, StoreMessage(u, reply)
      PROVE  Safe'
  <2>1. /\ Posts' = Posts \cup {Len(message')}
        /\ \A m \in Posts : message'[m] = message[m]
    BY <1>3, Appended
  <2>2. /\ sending' = sending \cup {Len(message')}
        /\ UNCHANGED <<here, telling, untold, shown, told>>
    BY <1>3 DEF StoreMessage
  <2>3. PresentHaveAll'
    BY <2>1, <2>2
  <2>4. NoMessageMissed'
    BY <2>1, <2>2
  <2> QED BY <2>3, <2>4
<1>4. ASSUME NEW k \in marks, MarkRuns(k) PROVE Safe'
  BY <1>4 DEF MarkRuns, Posts
<1>5. ASSUME NEW k \in marks, MarkFails(k) PROVE Safe'
  BY <1>5 DEF MarkFails, Posts
<1>6. ASSUME NEW m \in Posts, Broadcast(m) PROVE Safe'
  BY <1>6 DEF Broadcast, Posts
<1>7. ASSUME NEW m \in Posts, NotifyUnread(m), m \notin sending PROVE Safe'
  BY <1>7 DEF NotifyUnread, Posts
<1>8. ASSUME NEW m \in Posts, NotifyFails(m) PROVE Safe'
  BY <1>8 DEF NotifyFails, Posts
<1>9. CASE MarksTick
  BY <1>9 DEF MarksTick, Posts
<1>10. CASE UNCHANGED markVars
  BY <1>10 DEF markVars, Posts
<1>11. ASSUME NEW m \in Posts, NotifyUnread(m), m \in sending PROVE Safe'
  BY <1>11 DEF NotifyUnread, Posts
<1> QED BY <1>1, <1>2, <1>3, <1>4, <1>5, <1>6, <1>7, <1>8, <1>9, <1>10, <1>11 DEF MarksNext

\* However a member comes and goes between the storing of a message, its broadcast and the
\* lookup of the absent members, the message reaches the screen or a notice does
\* (chat.gateway.ts, lines 330-351 and 786-851).
THEOREM NoMessageMissedCorrect == MarksSpec => []NoMessageMissed
<1>1. MarksInit => ClockTypes /\ MessageTypes /\ Safe
  BY TypesInit, SafeInit
<1>2. ClockTypes /\ MessageTypes /\ Safe /\ [MarksNext]_markVars
        => ClockTypes' /\ MessageTypes' /\ Safe'
  BY ClockTypesStep, MessageTypesStep, SafeStep
<1>3. Safe => NoMessageMissed
  BY DEF Safe
<1> QED BY <1>1, <1>2, <1>3, PTL DEF MarksSpec

-----------------------------------------------------------------------------
(* Rooms: types.                                                           *)

Roles == {"none", "member", "admin"}

RoomTypes ==
  /\ made \in 0..MaxRooms
  /\ room \in [Ids -> Room \cup {NoRoom}]
  /\ \A id \in Ids : id > made => room[id] = NoRoom

MemberTypes ==
  /\ member \in [Ids -> [Users -> Roles]]
  /\ \A id \in Ids : room[id] = NoRoom => member[id] = NoMembers

NamesDiffer ==
  \A i, j \in Ids : i # j /\ Exists(i) /\ Exists(j) => room[i].name # room[j].name

\* Requests are on rooms that have been stored.
OnRooms ==
  {"creator", "others", "admit", "expel", "write", "count", "messages", "members", "drop",
   "mark"}
RequestTypes ==
  /\ flight \in [Slots -> Flight]
  /\ \A k \in Slots : flight[k].op \in OnRooms => flight[k].id <= made
  /\ requests \in 0..MaxRequests

HistoryTypes ==
  /\ failed \subseteq Ids /\ loose \subseteq Ids /\ lost \subseteq Ids /\ hurried \subseteq Ids
  /\ crossed \subseteq Slots

RoomsTypes == RoomTypes /\ MemberTypes /\ NamesDiffer /\ RequestTypes /\ HistoryTypes

\* What the operation of a request says of it.
LEMMA RequestFields ==
  ASSUME NEW f \in Flight
  PROVE  /\ f.op = "save" =>
              /\ f.creator \in Users /\ f.others \subseteq Users /\ f.name \in RoomNames
              /\ f.direct \in BOOLEAN /\ f.private \in BOOLEAN
         /\ f.op = "creator" => f.creator \in Users
         /\ f.op \in {"creator", "others"} => f.others \subseteq Users
         /\ f.op = "admit" => f.users \subseteq Users
         /\ f.op = "expel" => f.user \in Users
         /\ f.op = "write" => f.name \in Names /\ f.private \in BOOLEAN
         /\ f.op \in OnRooms => f.id \in Ids
<1> USE DEF OnRooms
<1>1. CASE f = Idle
  BY <1>1 DEF Idle
<1>2. CASE f \in [op: {"save"}, creator: Users, direct: BOOLEAN, private: BOOLEAN,
                  name: RoomNames, others: SUBSET Users]
  BY <1>2
<1>3. CASE f \in [op: {"creator"}, id: Ids, creator: Users, others: SUBSET Users]
  BY <1>3
<1>4. CASE f \in [op: {"others"}, id: Ids, others: SUBSET Users]
  BY <1>4
<1>5. CASE f \in [op: {"admit"}, id: Ids, users: SUBSET Users]
  BY <1>5
<1>6. CASE f \in [op: {"expel"}, id: Ids, user: Users]
  BY <1>6
<1>7. CASE f \in [op: {"write"}, id: Ids, name: Names, private: BOOLEAN]
  BY <1>7
<1>8. CASE f \in [op: {"count", "messages", "members", "drop", "mark"}, id: Ids]
  BY <1>8
<1> QED BY <1>1, <1>2, <1>3, <1>4, <1>5, <1>6, <1>7, <1>8 DEF Flight

\* Requests of the right shape.
LEMMA RequestShapes ==
  /\ Idle \in Flight /\ Idle.op = "idle"
  /\ \A u \in Users, d, p \in BOOLEAN, n \in RoomNames, S \in SUBSET Users :
       [op |-> "save", creator |-> u, direct |-> d, private |-> p, name |-> n, others |-> S]
         \in Flight
  /\ \A id \in Ids, u \in Users, S \in SUBSET Users :
       [op |-> "creator", id |-> id, creator |-> u, others |-> S] \in Flight
  /\ \A id \in Ids, S \in SUBSET Users :
       /\ [op |-> "others", id |-> id, others |-> S] \in Flight
       /\ [op |-> "admit", id |-> id, users |-> S] \in Flight
  /\ \A id \in Ids, u \in Users : [op |-> "expel", id |-> id, user |-> u] \in Flight
  /\ \A id \in Ids, n \in Names, p \in BOOLEAN :
       [op |-> "write", id |-> id, name |-> n, private |-> p] \in Flight
  /\ \A id \in Ids : /\ [op |-> "count", id |-> id] \in Flight
                     /\ [op |-> "messages", id |-> id] \in Flight
                     /\ [op |-> "members", id |-> id] \in Flight
                     /\ [op |-> "drop", id |-> id] \in Flight
                     /\ [op |-> "mark", id |-> id] \in Flight
BY DEF Flight, Idle

LEMMA RoomsTypesInit == RoomsInit => RoomsTypes
<1> SUFFICES ASSUME RoomsInit PROVE RoomsTypes
  OBVIOUS
<1>1. RoomTypes
  BY DEF RoomsInit, RoomTypes
<1>2. MemberTypes
  BY DEF RoomsInit, MemberTypes, NoMembers, Roles
<1>3. NamesDiffer
  BY DEF RoomsInit, NamesDiffer, Exists
<1>4. RequestTypes
  BY RequestShapes DEF RoomsInit, RequestTypes, OnRooms
<1>5. HistoryTypes
  BY DEF RoomsInit, HistoryTypes
<1> QED BY <1>1, <1>2, <1>3, <1>4, <1>5 DEF RoomsTypes

\* A room that exists has a row and has been stored.
LEMMA ExistingRooms ==
  ASSUME RoomsTypes, NEW id \in Ids
  PROVE  /\ Exists(id) => room[id] \in Room /\ id <= made
         /\ id \in Nat /\ made \in Nat
BY DEF RoomsTypes, RoomTypes, Exists, Ids

\* What users ask for, but to leave: nothing is written yet, and a direct room is asked for
\* by a user who shares none with the other.
Requests(k, u) ==
  \/ \E v \in Users : \E name \in Names \cup {AutoName(v)} : CreateDirect(k, u, v, name)
  \/ \E name \in Names, private \in BOOLEAN, S \in SUBSET Users :
       CreateChannel(k, u, private, name, S)
  \/ OpenMeeting(k, u)
  \/ \E id \in Ids :
       \/ EnterMeeting(k, u, id) \/ Join(k, u, id) \/ Remove(k, u, id)
       \/ \E S \in SUBSET Users : Invite(k, u, S, id)
       \/ \E v \in Users : RemoveMember(k, u, v, id)
       \/ \E name \in Names, private \in BOOLEAN : Update(k, u, id, name, private)

Asked(k) ==
  /\ flight'[k].op \in {"save", "admit", "expel", "write", "messages"}
  /\ flight'[k].op # "save" => flight'[k].id <= made
  /\ flight'[k].op = "save" /\ flight'[k].direct = TRUE =>
       \E v \in Users : /\ v # flight'[k].creator /\ flight'[k].others = {v}
                        /\ DirectBetween(flight'[k].creator, v) = {}

LEMMA RequestStarts ==
  ASSUME RoomsTypes, NEW k \in Slots, NEW f \in Flight, Start(k, f)
  PROVE  /\ flight[k] = Idle /\ flight'[k] = f /\ flight' \in [Slots -> Flight]
         /\ \A i \in Slots \ {k} : flight'[i] = flight[i]
         /\ crossed' = crossed \ {k} /\ requests' \in 0..MaxRequests
<1>1. flight \in [Slots -> Flight] /\ requests \in 0..MaxRequests
  BY DEF RoomsTypes, RequestTypes
<1> QED BY <1>1 DEF Start, Ask

LEMMA Requested ==
  ASSUME RoomsTypes, NEW k \in Slots, NEW u \in Users, Requests(k, u)
  PROVE  /\ flight[k] = Idle /\ flight' \in [Slots -> Flight] /\ Asked(k)
         /\ \A i \in Slots \ {k} : flight'[i] = flight[i]
         /\ crossed' = crossed \ {k} /\ requests' \in 0..MaxRequests
         /\ UNCHANGED <<made, room, member, history>>
<1> DEFINE Goal ==
       /\ flight[k] = Idle /\ flight' \in [Slots -> Flight] /\ Asked(k)
       /\ \A i \in Slots \ {k} : flight'[i] = flight[i]
       /\ crossed' = crossed \ {k} /\ requests' \in 0..MaxRequests
       /\ UNCHANGED <<made, room, member, history>>
<1>1. ASSUME NEW v \in Users, NEW name \in Names \cup {AutoName(v)}, CreateDirect(k, u, v, name)
      PROVE  Goal
  <2> DEFINE f == [op |-> "save", creator |-> u, direct |-> TRUE, private |-> TRUE,
                   name |-> name, others |-> {v}]
  <2>1. f \in Flight
    BY RequestShapes DEF RoomNames
  <2>2. f.op = "save" /\ f.creator = u /\ f.others = {v}
    OBVIOUS
  <2>3. u # v /\ DirectBetween(u, v) = {} /\ Start(k, f) /\ UNCHANGED <<made, room, member, history>>
    BY <1>1 DEF CreateDirect, NewRoom
  <2> HIDE DEF f
  <2> QED BY <2>1, <2>2, <2>3, RequestStarts DEF Asked
<1>2. ASSUME NEW name \in Names, NEW private \in BOOLEAN, NEW S \in SUBSET Users,
             CreateChannel(k, u, private, name, S)
      PROVE  Goal
  <2> DEFINE f == [op |-> "save", creator |-> u, direct |-> FALSE, private |-> private,
                   name |-> name, others |-> S \ {u}]
  <2>1. f \in Flight
    BY RequestShapes DEF RoomNames
  <2>2. f.op = "save" /\ f.direct = FALSE
    OBVIOUS
  <2>3. Start(k, f) /\ UNCHANGED <<made, room, member, history>>
    BY <1>2 DEF CreateChannel, NewRoom
  <2> HIDE DEF f
  <2> QED BY <2>1, <2>2, <2>3, RequestStarts DEF Asked
<1>3. ASSUME OpenMeeting(k, u) PROVE Goal
  <2> DEFINE f == [op |-> "save", creator |-> u, direct |-> FALSE, private |-> TRUE,
                   name |-> MeetingName, others |-> {}]
  <2>1. f \in Flight
    BY RequestShapes DEF RoomNames
  <2>2. f.op = "save" /\ f.direct = FALSE
    OBVIOUS
  <2>3. Start(k, f) /\ UNCHANGED <<made, room, member, history>>
    BY <1>3 DEF OpenMeeting, NewRoom
  <2> HIDE DEF f
  <2> QED BY <2>1, <2>2, <2>3, RequestStarts DEF Asked
<1>4. ASSUME NEW id \in Ids, EnterMeeting(k, u, id) \/ Join(k, u, id) PROVE Goal
  <2> DEFINE f == [op |-> "admit", id |-> id, users |-> {u}]
  <2>1. f \in Flight
    BY RequestShapes
  <2>2. f.op = "admit" /\ f.id = id
    OBVIOUS
  <2>3. Live(id) /\ Start(k, f) /\ UNCHANGED <<made, room, member, history>>
    BY <1>4 DEF EnterMeeting, Join
  <2> HIDE DEF f
  <2> QED BY <2>1, <2>2, <2>3, RequestStarts, ExistingRooms DEF Asked, Live
<1>5. ASSUME NEW id \in Ids, Remove(k, u, id) PROVE Goal
  <2> DEFINE f == [op |-> "messages", id |-> id]
  <2>1. f \in Flight
    BY RequestShapes
  <2>2. f.op = "messages" /\ f.id = id
    OBVIOUS
  <2>3. Live(id) /\ Start(k, f) /\ UNCHANGED <<made, room, member, history>>
    BY <1>5 DEF Remove
  <2> HIDE DEF f
  <2> QED BY <2>1, <2>2, <2>3, RequestStarts, ExistingRooms DEF Asked, Live
<1>6. ASSUME NEW id \in Ids, NEW S \in SUBSET Users, Invite(k, u, S, id) PROVE Goal
  <2> DEFINE f == [op |-> "admit", id |-> id, users |-> S \ MembersOf(id)]
  <2>1. f \in Flight
    BY RequestShapes
  <2>2. f.op = "admit" /\ f.id = id
    OBVIOUS
  <2>3. Live(id) /\ Start(k, f) /\ UNCHANGED <<made, room, member, history>>
    BY <1>6 DEF Invite
  <2> HIDE DEF f
  <2> QED BY <2>1, <2>2, <2>3, RequestStarts, ExistingRooms DEF Asked, Live
<1>7. ASSUME NEW id \in Ids, NEW v \in Users, RemoveMember(k, u, v, id) PROVE Goal
  <2> DEFINE f == [op |-> "expel", id |-> id, user |-> v]
  <2>1. f \in Flight
    BY RequestShapes
  <2>2. f.op = "expel" /\ f.id = id
    OBVIOUS
  <2>3. Live(id) /\ Start(k, f) /\ UNCHANGED <<made, room, member, history>>
    BY <1>7 DEF RemoveMember
  <2> HIDE DEF f
  <2> QED BY <2>1, <2>2, <2>3, RequestStarts, ExistingRooms DEF Asked, Live
<1>8. ASSUME NEW id \in Ids, NEW name \in Names, NEW private \in BOOLEAN,
             Update(k, u, id, name, private)
      PROVE  Goal
  <2> DEFINE f == [op |-> "write", id |-> id, name |-> name, private |-> private]
  <2>1. f \in Flight
    BY RequestShapes
  <2>2. f.op = "write" /\ f.id = id
    OBVIOUS
  <2>3. Live(id) /\ Start(k, f) /\ UNCHANGED <<made, room, member, history>>
    BY <1>8 DEF Update
  <2> HIDE DEF f
  <2> QED BY <2>1, <2>2, <2>3, RequestStarts, ExistingRooms DEF Asked, Live
<1> HIDE DEF Goal
<1> SUFFICES Goal
  BY DEF Goal
<1>9. CASE \E v \in Users : \E name \in Names \cup {AutoName(v)} : CreateDirect(k, u, v, name)
  <2>1. PICK v \in Users : \E name \in Names \cup {AutoName(v)} : CreateDirect(k, u, v, name)
    BY <1>9
  <2>2. PICK name \in Names \cup {AutoName(v)} : CreateDirect(k, u, v, name)
    BY <2>1
  <2> QED BY <2>2, <1>1
<1>10. CASE \E name \in Names, private \in BOOLEAN, S \in SUBSET Users :
              CreateChannel(k, u, private, name, S)
  BY <1>2, <1>10 DEF CreateChannel
<1>11. ASSUME NEW id \in Ids, \E S \in SUBSET Users : Invite(k, u, S, id) PROVE Goal
  BY <1>6, <1>11
<1>12. ASSUME NEW id \in Ids, \E v \in Users : RemoveMember(k, u, v, id) PROVE Goal
  BY <1>7, <1>12
<1>13. ASSUME NEW id \in Ids,
              \E name \in Names, private \in BOOLEAN : Update(k, u, id, name, private)
       PROVE  Goal
  BY <1>8, <1>13 DEF Update
<1> QED BY <1>3, <1>4, <1>5, <1>9, <1>10, <1>11, <1>12, <1>13 DEF Requests

\* A step of the requests' own, apart from what users ask for.
Goes(k) ==
  \/ CreateSave(k) \/ CreateCreator(k) \/ CreateOthers(k) \/ CreateFails(k)
  \/ Admit(k) \/ Expel(k) \/ CountMembers(k) \/ UpdateWrite(k)
  \/ CountMessages(k) \/ DropMembers(k) \/ DropRoom(k) \/ MarkRoom(k)

LEMMA RoomsSteps ==
  ASSUME [RoomsNext]_roomVars
  PROVE  \/ \E k \in Slots, u \in Users : Requests(k, u)
         \/ \E k \in Slots, u \in Users, id \in Ids : Leave(k, u, id)
         \/ \E k \in Slots : Goes(k)
         \/ \E id \in Ids : Talk(id)
         \/ UNCHANGED roomVars
<1> DEFINE Goal ==
       \/ \E k \in Slots, u \in Users : Requests(k, u)
       \/ \E k \in Slots, u \in Users, id \in Ids : Leave(k, u, id)
       \/ \E k \in Slots : Goes(k)
       \/ \E id \in Ids : Talk(id)
       \/ UNCHANGED roomVars
<1>1. ASSUME NEW k \in Slots, NEW u \in Users, Requests(k, u) PROVE Goal
  BY <1>1
<1>2. ASSUME NEW k \in Slots, NEW u \in Users, NEW id \in Ids, Leave(k, u, id) PROVE Goal
  BY <1>2
<1>3. ASSUME NEW k \in Slots, Goes(k) PROVE Goal
  BY <1>3
<1>4. ASSUME NEW id \in Ids, Talk(id) PROVE Goal
  BY <1>4
<1>5. CASE UNCHANGED roomVars
  BY <1>5
<1> HIDE DEF Goal
<1> SUFFICES ASSUME RoomsNext PROVE Goal
  BY <1>5 DEF Goal
<1> QED BY <1>1, <1>2, <1>3, <1>4 DEF RoomsNext, Requests, Goes

\* How a request goes on.
Moves(k) ==
  LET f == flight[k]  g == flight'[k] IN
  \/ g = Idle
  \/ /\ f.op = "save" /\ g.op = "creator" /\ g.id = made + 1 /\ made' = made + 1
     /\ g.creator = f.creator /\ g.others = f.others
  \/ f.op = "creator" /\ g.op = "others" /\ g.id = f.id /\ g.others = f.others
  \/ f.op = "expel" /\ g.op = "count" /\ g.id = f.id
  \/ f.op = "count" /\ g.op = "messages" /\ g.id = f.id
  \/ f.op = "messages" /\ g.op = "mark" /\ g.id = f.id
  \/ /\ f.op = "messages" /\ g.op = "members" /\ g.id = f.id
     /\ Exists(f.id) => room[f.id].talked = FALSE
  \/ f.op = "members" /\ g.op = "drop" /\ g.id = f.id

LEMMA GoesOn ==
  ASSUME RoomsTypes, NEW k \in Slots, NEW f \in Flight, Go(k, f)
  PROVE  /\ flight' \in [Slots -> Flight] /\ flight'[k] = f
         /\ \A i \in Slots \ {k} : flight'[i] = flight[i]
         /\ requests' = requests
BY DEF RoomsTypes, RequestTypes, Go

LEMMA Moved ==
  ASSUME RoomsTypes, NEW k \in Slots, Goes(k)
  PROVE  /\ Moves(k) /\ flight' \in [Slots -> Flight]
         /\ \A i \in Slots \ {k} : flight'[i] = flight[i]
         /\ requests' = requests
<1> DEFINE Goal ==
       /\ Moves(k) /\ flight' \in [Slots -> Flight]
       /\ \A i \in Slots \ {k} : flight'[i] = flight[i]
       /\ requests' = requests
<1>1. flight[k] \in Flight
  BY DEF RoomsTypes, RequestTypes
<1>2. made + 1 \in Nat
  BY DEF RoomsTypes, RoomTypes
<1>3. ASSUME Finish(k) PROVE Goal
  BY <1>3, RequestShapes, GoesOn DEF Finish, Moves
<1>4. ASSUME NEW op \in {"count", "messages", "members", "drop", "mark"}
      PROVE  /\ [op |-> op, id |-> flight[k].id].op = op
             /\ [op |-> op, id |-> flight[k].id].id = flight[k].id
  OBVIOUS
<1>5. CASE CreateSave(k)
  <2>1. CASE NameTaken(flight[k].name)
    BY <1>5, <2>1, <1>3 DEF CreateSave
  <2>2. CASE ~NameTaken(flight[k].name)
    <3> DEFINE g == [op |-> "creator", id |-> made + 1, creator |-> flight[k].creator,
                     others |-> flight[k].others]
    <3>1. flight[k].op = "save" /\ made + 1 \in Ids
      BY <1>5, <2>2, <1>2 DEF CreateSave, Ids, RoomsTypes, RoomTypes
    <3>2. flight[k].creator \in Users /\ flight[k].others \in SUBSET Users
      BY <3>1, <1>1, RequestFields
    <3>3. g \in Flight
      BY <3>1, <3>2, RequestShapes
    <3>4. g.op = "creator" /\ g.id = made + 1 /\ g.creator = flight[k].creator
          /\ g.others = flight[k].others
      OBVIOUS
    <3>5. Go(k, g) /\ made' = made + 1
      BY <1>5, <2>2 DEF CreateSave
    <3> HIDE DEF g
    <3> QED BY <3>1, <3>3, <3>4, <3>5, GoesOn DEF Moves
  <2> QED BY <2>1, <2>2
<1>6. CASE CreateCreator(k)
  <2> DEFINE g == [op |-> "others", id |-> flight[k].id, others |-> flight[k].others]
  <2>1. flight[k].op = "creator" /\ Go(k, g)
    BY <1>6 DEF CreateCreator
  <2>2. flight[k].id \in Ids /\ flight[k].others \in SUBSET Users
    BY <2>1, <1>1, RequestFields DEF OnRooms
  <2>3. g \in Flight
    BY <2>2, RequestShapes
  <2>4. g.op = "others" /\ g.id = flight[k].id /\ g.others = flight[k].others
    OBVIOUS
  <2> HIDE DEF g
  <2> QED BY <2>1, <2>3, <2>4, GoesOn DEF Moves
<1>7. CASE CreateOthers(k)
  BY <1>3, <1>7 DEF CreateOthers
<1>8. CASE CreateFails(k)
  BY <1>3, <1>8 DEF CreateFails
<1>9. CASE Admit(k)
  BY <1>3, <1>9 DEF Admit
<1>10. CASE Expel(k)
  <2> DEFINE g == [op |-> "count", id |-> flight[k].id]
  <2>1. flight[k].op = "expel" /\ Go(k, g)
    BY <1>10 DEF Expel
  <2>2. flight[k].id \in Ids
    BY <2>1, <1>1, RequestFields DEF OnRooms
  <2>3. g \in Flight /\ g.op = "count" /\ g.id = flight[k].id
    BY <2>2, <1>4, RequestShapes
  <2> HIDE DEF g
  <2> QED BY <2>1, <2>3, GoesOn DEF Moves
<1>11. CASE CountMembers(k)
  <2>1. CASE MembersOf(flight[k].id) # {}
    BY <1>11, <2>1, <1>3 DEF CountMembers
  <2>2. CASE MembersOf(flight[k].id) = {}
    <3> DEFINE g == [op |-> "messages", id |-> flight[k].id]
    <3>1. flight[k].op = "count" /\ Go(k, g)
      BY <1>11, <2>2 DEF CountMembers
    <3>2. flight[k].id \in Ids
      BY <3>1, <1>1, RequestFields DEF OnRooms
    <3>3. g \in Flight /\ g.op = "messages" /\ g.id = flight[k].id
      BY <3>2, <1>4, RequestShapes
    <3> HIDE DEF g
    <3> QED BY <3>1, <3>3, GoesOn DEF Moves
  <2> QED BY <2>1, <2>2
<1>12. CASE UpdateWrite(k)
  BY <1>3, <1>12 DEF UpdateWrite
<1>13. CASE CountMessages(k)
  <2>1. flight[k].op = "messages" /\ flight[k].id \in Ids
    BY <1>13, <1>1, RequestFields DEF CountMessages, OnRooms
  <2>2. CASE Exists(flight[k].id) /\ room[flight[k].id].talked
    <3> DEFINE g == [op |-> "mark", id |-> flight[k].id]
    <3>1. g \in Flight /\ g.op = "mark" /\ g.id = flight[k].id
      BY <2>1, <1>4, RequestShapes
    <3>2. Go(k, g)
      BY <1>13, <2>2 DEF CountMessages
    <3> HIDE DEF g
    <3> QED BY <2>1, <3>1, <3>2, GoesOn DEF Moves
  <2>3. CASE ~(Exists(flight[k].id) /\ room[flight[k].id].talked)
    <3> DEFINE g == [op |-> "members", id |-> flight[k].id]
    <3>1. g \in Flight /\ g.op = "members" /\ g.id = flight[k].id
      BY <2>1, <1>4, RequestShapes
    <3>2. Go(k, g)
      BY <1>13, <2>3 DEF CountMessages
    <3>3. Exists(flight[k].id) => room[flight[k].id].talked = FALSE
      BY <2>1, <2>3, ExistingRooms DEF Room
    <3> HIDE DEF g
    <3> QED BY <2>1, <3>1, <3>2, <3>3, GoesOn DEF Moves
  <2> QED BY <2>2, <2>3
<1>14. CASE DropMembers(k)
  <2> DEFINE g == [op |-> "drop", id |-> flight[k].id]
  <2>1. flight[k].op = "members" /\ Go(k, g)
    BY <1>14 DEF DropMembers
  <2>2. flight[k].id \in Ids
    BY <2>1, <1>1, RequestFields DEF OnRooms
  <2>3. g \in Flight /\ g.op = "drop" /\ g.id = flight[k].id
    BY <2>2, <1>4, RequestShapes
  <2> HIDE DEF g
  <2> QED BY <2>1, <2>3, GoesOn DEF Moves
<1>15. CASE DropRoom(k)
  BY <1>3, <1>15 DEF DropRoom
<1>16. CASE MarkRoom(k)
  BY <1>3, <1>16 DEF MarkRoom
<1> QED BY <1>5, <1>6, <1>7, <1>8, <1>9, <1>10, <1>11, <1>12, <1>13, <1>14, <1>15, <1>16
        DEF Goes

\* Leaving is a request of its own: it takes effect at once.
LEMMA Left ==
  ASSUME RoomsTypes, NEW k \in Slots, NEW u \in Users, NEW x \in Ids, Leave(k, u, x)
  PROVE  /\ flight[k] = Idle /\ flight' \in [Slots -> Flight]
         /\ flight'[k].op = "count" /\ flight'[k].id = x /\ x <= made
         /\ \A i \in Slots \ {k} : flight'[i] = flight[i]
         /\ crossed' = crossed \ {k} /\ requests' \in 0..MaxRequests
         /\ UNCHANGED <<made, room, history>>
<1> DEFINE f == [op |-> "count", id |-> x]
<1>1. f \in Flight /\ f.op = "count" /\ f.id = x
  BY RequestShapes
<1>2. Live(x) /\ Start(k, f) /\ UNCHANGED <<made, room, history>>
  BY DEF Leave
<1> HIDE DEF f
<1> QED BY <1>1, <1>2, RequestStarts, ExistingRooms DEF Live

\* Adding and removing members, member by member.
LEMMA Added ==
  ASSUME RoomsTypes, NEW x \in Ids, NEW S \in SUBSET Users, NEW role \in {"admin", "member"},
         member' = Adding(x, S, role)
  PROVE  /\ member' \in [Ids -> [Users -> Roles]]
         /\ \A id \in Ids \ {x} : member'[id] = member[id]
         /\ \A u \in Users : member'[x][u] = IF u \in S THEN role ELSE member[x][u]
<1>1. member \in [Ids -> [Users -> Roles]]
  BY DEF RoomsTypes, MemberTypes
<1> QED BY <1>1 DEF Adding, Roles

LEMMA RoomTypesStep == RoomsTypes /\ [RoomsNext]_roomVars => RoomTypes'
<1> SUFFICES ASSUME RoomsTypes, [RoomsNext]_roomVars PROVE RoomTypes'
  OBVIOUS
<1>0. RoomTypes /\ flight \in [Slots -> Flight]
  BY DEF RoomsTypes, RequestTypes
<1>1. ASSUME UNCHANGED <<made, room>> PROVE RoomTypes'
  BY <1>0, <1>1 DEF RoomTypes
<1>2. ASSUME NEW k \in Slots, Goes(k) PROVE RoomTypes'
  <2>1. CASE CreateSave(k)
    <3>1. CASE NameTaken(flight[k].name)
      BY <2>1, <3>1, <1>1 DEF CreateSave
    <3>2. CASE ~NameTaken(flight[k].name)
      <4>1. /\ made < MaxRooms /\ made' = made + 1 /\ flight[k].op = "save"
            /\ room' = [room EXCEPT ![made + 1] =
                 [direct |-> flight[k].direct, private |-> flight[k].private,
                  name |-> flight[k].name, deleted |-> FALSE, talked |-> FALSE]]
        BY <2>1, <3>2 DEF CreateSave
      <4>2. [direct |-> flight[k].direct, private |-> flight[k].private,
             name |-> flight[k].name, deleted |-> FALSE, talked |-> FALSE] \in Room
        BY <4>1, <1>0, RequestFields DEF Room
      <4> QED BY <4>1, <4>2, <1>0 DEF RoomTypes, Ids
    <3> QED BY <3>1, <3>2
  <2>2. CASE UpdateWrite(k)
    <3>1. CASE UNCHANGED room
      BY <2>2, <3>1, <1>1 DEF UpdateWrite
    <3>2. CASE ~UNCHANGED room
      <4>1. flight[k].op = "write"
        BY <2>2 DEF UpdateWrite
      <4>2. flight[k].id \in Ids /\ flight[k].name \in Names /\ flight[k].private \in BOOLEAN
        BY <4>1, <1>0, RequestFields DEF OnRooms
      <4>3. /\ made' = made /\ Exists(flight[k].id)
            /\ room' = [room EXCEPT ![flight[k].id] =
                 [direct |-> @.direct, private |-> flight[k].private,
                  name |-> flight[k].name, deleted |-> @.deleted, talked |-> @.talked]]
        BY <2>2, <3>2 DEF UpdateWrite
      <4>4. room[flight[k].id] \in Room /\ flight[k].id <= made
        BY <4>2, <4>3, ExistingRooms
      <4>5. [direct |-> room[flight[k].id].direct, private |-> flight[k].private,
             name |-> flight[k].name, deleted |-> room[flight[k].id].deleted,
             talked |-> room[flight[k].id].talked] \in Room
        BY <4>2, <4>4 DEF Room, RoomNames
      <4> QED BY <4>2, <4>3, <4>4, <4>5, <1>0 DEF RoomTypes, Ids
    <3> QED BY <3>1, <3>2
  <2>3. CASE DropRoom(k)
    BY <2>3, <1>0 DEF DropRoom, RoomTypes
  <2>4. CASE MarkRoom(k)
    <3>1. flight[k].op = "mark"
      BY <2>4 DEF MarkRoom
    <3>2. flight[k].id \in Ids
      BY <3>1, <1>0, RequestFields DEF OnRooms
    <3>3. CASE ~Exists(flight[k].id)
      BY <2>4, <3>3, <1>1 DEF MarkRoom
    <3>4. CASE Exists(flight[k].id)
      <4>1. room[flight[k].id] \in Room /\ flight[k].id <= made
        BY <3>2, <3>4, ExistingRooms
      <4>2. [room[flight[k].id] EXCEPT !.deleted = TRUE] \in Room
        BY <4>1 DEF Room
      <4>3. /\ made' = made
            /\ room' = [room EXCEPT ![flight[k].id] = [room[flight[k].id] EXCEPT !.deleted = TRUE]]
        BY <2>4, <3>4 DEF MarkRoom
      <4> QED BY <3>2, <4>1, <4>2, <4>3, <1>0 DEF RoomTypes, Ids
    <3> QED BY <3>3, <3>4
  <2>5. CASE UNCHANGED <<made, room>>
    BY <1>1, <2>5
  <2> QED BY <1>2, <2>1, <2>2, <2>3, <2>4, <2>5
          DEF Goes, CreateCreator, CreateOthers, CreateFails, Admit, Expel, CountMembers,
              CountMessages, DropMembers
<1>3. ASSUME NEW x \in Ids, Talk(x) PROVE RoomTypes'
  <2>1. room[x] \in Room /\ x <= made
    BY <1>3, ExistingRooms DEF Talk, Live
  <2>2. [room[x] EXCEPT !.talked = TRUE] \in Room
    BY <2>1 DEF Room
  <2>3. made' = made /\ room' = [room EXCEPT ![x] = [room[x] EXCEPT !.talked = TRUE]]
    BY <1>3 DEF Talk
  <2> QED BY <2>1, <2>2, <2>3, <1>0 DEF RoomTypes, Ids
<1>4. ASSUME NEW k \in Slots, NEW u \in Users, Requests(k, u) PROVE UNCHANGED <<made, room>>
  BY <1>4, Requested
<1>5. ASSUME NEW k \in Slots, NEW u \in Users, NEW x \in Ids, Leave(k, u, x)
      PROVE  UNCHANGED <<made, room>>
  BY <1>5, Left
<1> QED BY <1>1, <1>2, <1>3, <1>4, <1>5, RoomsSteps DEF roomVars

LEMMA NamesStep == RoomsTypes /\ [RoomsNext]_roomVars => NamesDiffer'
<1> SUFFICES ASSUME RoomsTypes, [RoomsNext]_roomVars PROVE NamesDiffer'
  OBVIOUS
<1>0. RoomTypes /\ NamesDiffer /\ flight \in [Slots -> Flight]
  BY DEF RoomsTypes, RequestTypes
<1>1. ASSUME \A id \in Ids : Exists(id)' => Exists(id) /\ room'[id].name = room[id].name
      PROVE  NamesDiffer'
  BY <1>0, <1>1 DEF NamesDiffer, Exists
<1>2. ASSUME NEW k \in Slots, Goes(k) PROVE NamesDiffer'
  <2>1. CASE CreateSave(k)
    <3>1. CASE NameTaken(flight[k].name)
      BY <2>1, <3>1, <1>1 DEF CreateSave, Exists
    <3>2. CASE ~NameTaken(flight[k].name)
      <4>1. /\ room' = [room EXCEPT ![made + 1] =
                 [direct |-> flight[k].direct, private |-> flight[k].private,
                  name |-> flight[k].name, deleted |-> FALSE, talked |-> FALSE]]
        BY <2>1, <3>2 DEF CreateSave
      <4>2. \A id \in Ids \ {made + 1} : room'[id] = room[id]
        BY <4>1, <1>0 DEF RoomTypes
      <4>3. made + 1 \in Ids => room'[made + 1].name = flight[k].name
        BY <4>1, <1>0 DEF RoomTypes
      <4>4. \A id \in Ids : room[id].name # flight[k].name
        BY <3>2 DEF NameTaken
      <4> QED BY <4>2, <4>3, <4>4, <1>0 DEF NamesDiffer, Exists
    <3> QED BY <3>1, <3>2
  <2>2. CASE UpdateWrite(k)
    <3>1. CASE UNCHANGED room
      BY <3>1, <1>1 DEF Exists
    <3>2. CASE ~UNCHANGED room
      <4>1. /\ \A id \in Ids \ {flight[k].id} : room[id].name # flight[k].name
            /\ room' = [room EXCEPT ![flight[k].id] =
                 [direct |-> @.direct, private |-> flight[k].private,
                  name |-> flight[k].name, deleted |-> @.deleted, talked |-> @.talked]]
        BY <2>2, <3>2 DEF UpdateWrite
      <4>2. \A id \in Ids \ {flight[k].id} : room'[id] = room[id]
        BY <4>1, <1>0 DEF RoomTypes
      <4>3. flight[k].id \in Ids => room'[flight[k].id].name = flight[k].name
        BY <4>1, <1>0 DEF RoomTypes
      <4> QED BY <4>1, <4>2, <4>3, <1>0 DEF NamesDiffer, Exists
    <3> QED BY <3>1, <3>2
  <2>3. CASE DropRoom(k)
    BY <2>3, <1>0, <1>1 DEF DropRoom, RoomTypes, Exists
  <2>4. CASE MarkRoom(k)
    <3>1. flight[k].op = "mark"
      BY <2>4 DEF MarkRoom
    <3>2. flight[k].id \in Ids
      BY <3>1, <1>0, RequestFields DEF OnRooms
    <3>3. CASE ~Exists(flight[k].id)
      BY <2>4, <3>3, <1>1 DEF MarkRoom, Exists
    <3>4. CASE Exists(flight[k].id)
      <4>1. room[flight[k].id] \in Room
        BY <3>2, <3>4, ExistingRooms
      <4>2. room' = [room EXCEPT ![flight[k].id] = [room[flight[k].id] EXCEPT !.deleted = TRUE]]
        BY <2>4, <3>4 DEF MarkRoom
      <4>3. /\ \A id \in Ids \ {flight[k].id} : room'[id] = room[id]
            /\ room'[flight[k].id].name = room[flight[k].id].name
        BY <3>2, <4>1, <4>2, <1>0 DEF RoomTypes, Room
      <4> QED BY <3>4, <4>3, <1>1 DEF Exists
    <3> QED BY <3>3, <3>4
  <2>5. CASE UNCHANGED room
    BY <1>1, <2>5 DEF Exists
  <2> QED BY <1>2, <2>1, <2>2, <2>3, <2>4, <2>5
          DEF Goes, CreateCreator, CreateOthers, CreateFails, Admit, Expel, CountMembers,
              CountMessages, DropMembers
<1>3. ASSUME NEW x \in Ids, Talk(x) PROVE NamesDiffer'
  <2>1. room[x] \in Room /\ Exists(x)
    BY <1>3, ExistingRooms DEF Talk, Live
  <2>2. room' = [room EXCEPT ![x] = [room[x] EXCEPT !.talked = TRUE]]
    BY <1>3 DEF Talk
  <2>3. /\ \A id \in Ids \ {x} : room'[id] = room[id]
        /\ room'[x].name = room[x].name
    BY <2>1, <2>2, <1>0 DEF RoomTypes, Room
  <2> QED BY <2>1, <2>3, <1>1 DEF Exists
<1>4. ASSUME NEW k \in Slots, NEW u \in Users, Requests(k, u) PROVE UNCHANGED room
  BY <1>4, Requested
<1>5. ASSUME NEW k \in Slots, NEW u \in Users, NEW x \in Ids, Leave(k, u, x)
      PROVE  UNCHANGED room
  BY <1>5, Left
<1>6. ASSUME UNCHANGED room PROVE NamesDiffer'
  BY <1>1, <1>6 DEF Exists
<1> QED BY <1>2, <1>3, <1>4, <1>5, <1>6, RoomsSteps DEF roomVars

\* What a step does to the rooms that have been stored: none changes its kind or comes back,
\* one that is stored anew has had no members, and a message that comes while the room is
\* being dropped makes it a hurried one.
LEMMA RoomsKept ==
  ASSUME RoomsTypes, [RoomsNext]_roomVars, NEW id \in Ids
  PROVE  /\ made' \in Nat /\ made <= made'
         /\ id <= made /\ Exists(id)' =>
              /\ Exists(id) /\ room'[id].direct = room[id].direct
              /\ \/ room'[id].talked = room[id].talked
                 \/ /\ flight' = flight
                    /\ \A k \in Slots : flight[k].op \in {"members", "drop"} /\ flight[k].id = id
                         => id \in hurried'
         /\ id <= made /\ Live(id)' => Live(id)
         /\ id > made => member[id] = NoMembers
<1> DEFINE Goal ==
       /\ made' \in Nat /\ made <= made'
       /\ id <= made /\ Exists(id)' =>
            /\ Exists(id) /\ room'[id].direct = room[id].direct
            /\ \/ room'[id].talked = room[id].talked
               \/ /\ flight' = flight
                  /\ \A k \in Slots : flight[k].op \in {"members", "drop"} /\ flight[k].id = id
                       => id \in hurried'
       /\ id <= made /\ Live(id)' => Live(id)
<1>0. RoomTypes /\ MemberTypes /\ flight \in [Slots -> Flight] /\ made \in Nat
  BY DEF RoomsTypes, RequestTypes, RoomTypes
<1>1. ASSUME UNCHANGED <<made, room>> PROVE Goal
  BY <1>0, <1>1 DEF Exists, Live
<1>2. ASSUME NEW k \in Slots, Goes(k) PROVE Goal
  <2>1. CASE CreateSave(k)
    <3>1. CASE NameTaken(flight[k].name)
      BY <2>1, <3>1, <1>1 DEF CreateSave
    <3>2. CASE ~NameTaken(flight[k].name)
      <4>1. /\ made' = made + 1
            /\ room' = [room EXCEPT ![made + 1] =
                 [direct |-> flight[k].direct, private |-> flight[k].private,
                  name |-> flight[k].name, deleted |-> FALSE, talked |-> FALSE]]
        BY <2>1, <3>2 DEF CreateSave
      <4>2. id <= made => room'[id] = room[id]
        BY <4>1, <1>0 DEF RoomTypes, Ids
      <4>3. made' = made + 1
        BY <4>1
      <4>4. id <= made => Live(id)' = Live(id) /\ Exists(id)' = Exists(id)
        BY <4>2 DEF Exists, Live
      <4>5. id <= made /\ Exists(id)' => Exists(id)
        BY <4>4
      <4>6. id <= made /\ Live(id)' => Live(id)
        BY <4>4
      <4> QED BY <4>2, <4>3, <4>5, <4>6, <1>0
    <3> QED BY <3>1, <3>2
  <2>2. CASE UpdateWrite(k)
    <3>1. CASE UNCHANGED room
      BY <2>2, <3>1, <1>1 DEF UpdateWrite
    <3>2. CASE ~UNCHANGED room
      <4>1. /\ made' = made /\ Exists(flight[k].id)
            /\ room' = [room EXCEPT ![flight[k].id] =
                 [direct |-> @.direct, private |-> flight[k].private,
                  name |-> flight[k].name, deleted |-> @.deleted, talked |-> @.talked]]
        BY <2>2, <3>2 DEF UpdateWrite
      <4>2. CASE id # flight[k].id
        BY <4>1, <4>2, <1>0 DEF RoomTypes, Exists, Live
      <4>3. CASE id = flight[k].id
        <5>1. /\ room'[id].direct = room[id].direct /\ room'[id].deleted = room[id].deleted
              /\ room'[id].talked = room[id].talked
          BY <4>1, <4>3, <1>0 DEF RoomTypes
        <5> QED BY <5>1, <4>1, <4>3, <1>0 DEF Exists, Live
      <4> QED BY <4>2, <4>3
    <3> QED BY <3>1, <3>2
  <2>3. CASE DropRoom(k)
    BY <2>3, <1>0 DEF DropRoom, RoomTypes, Exists, Live
  <2>4. CASE MarkRoom(k)
    <3>1. CASE ~Exists(flight[k].id)
      BY <2>4, <3>1, <1>1 DEF MarkRoom
    <3>2. CASE Exists(flight[k].id)
      <4>1. /\ made' = made
            /\ room' = [room EXCEPT ![flight[k].id] = [room[flight[k].id] EXCEPT !.deleted = TRUE]]
        BY <2>4, <3>2 DEF MarkRoom
      <4>2. CASE id # flight[k].id
        BY <4>1, <4>2, <1>0 DEF RoomTypes, Exists, Live
      <4>3. CASE id = flight[k].id
        <5>1. room[id] \in Room
          BY <3>2, <4>3, ExistingRooms
        <5>2. /\ room'[id].direct = room[id].direct /\ room'[id].deleted = TRUE
              /\ room'[id].talked = room[id].talked
          BY <4>1, <4>3, <5>1, <1>0 DEF RoomTypes, Room
        <5> QED BY <5>2, <4>1, <4>3, <3>2, <1>0 DEF Exists, Live
      <4> QED BY <4>2, <4>3
    <3> QED BY <3>1, <3>2
  <2>5. CASE UNCHANGED <<made, room>>
    BY <1>1, <2>5
  <2> HIDE DEF Goal
  <2> QED BY <1>2, <2>1, <2>2, <2>3, <2>4, <2>5
          DEF Goes, CreateCreator, CreateOthers, CreateFails, Admit, Expel, CountMembers,
              CountMessages, DropMembers
<1>3. ASSUME NEW x \in Ids, Talk(x) PROVE Goal
  <2>1. room[x] \in Room /\ Exists(x) /\ Live(x)
    BY <1>3, ExistingRooms DEF Talk, Live
  <2>2. made' = made /\ room' = [room EXCEPT ![x] = [room[x] EXCEPT !.talked = TRUE]]
    BY <1>3 DEF Talk
  <2>3. CASE id # x
    BY <2>2, <2>3, <1>0 DEF RoomTypes, Exists, Live
  <2>4. CASE id = x
    <3>1. room'[x].direct = room[x].direct
      BY <2>1, <2>2, <1>0 DEF RoomTypes, Room
    <3>2. /\ flight' = flight
          /\ \A k \in Slots : flight[k].op \in {"members", "drop"} /\ flight[k].id = id
               => id \in hurried'
      BY <1>3, <2>4 DEF Talk
    <3>3. Exists(id) /\ Live(id) /\ made' = made /\ made \in Nat
      BY <2>1, <2>2, <2>4, <1>0
    <3> QED BY <2>4, <3>1, <3>2, <3>3
  <2> QED BY <2>3, <2>4
<1>4. ASSUME NEW k \in Slots, NEW u \in Users, Requests(k, u) PROVE UNCHANGED <<made, room>>
  BY <1>4, Requested
<1>5. ASSUME NEW k \in Slots, NEW u \in Users, NEW x \in Ids, Leave(k, u, x)
      PROVE  UNCHANGED <<made, room>>
  BY <1>5, Left
<1>6. id > made => member[id] = NoMembers
  BY <1>0 DEF RoomTypes, MemberTypes
<1> HIDE DEF Goal
<1>7. Goal
  BY <1>1, <1>2, <1>3, <1>4, <1>5, RoomsSteps DEF roomVars
<1> QED BY <1>6, <1>7 DEF Goal

LEMMA MemberTypesStep == RoomsTypes /\ [RoomsNext]_roomVars => MemberTypes'
<1> SUFFICES ASSUME RoomsTypes, [RoomsNext]_roomVars PROVE MemberTypes'
  OBVIOUS
<1>0. RoomTypes /\ MemberTypes /\ flight \in [Slots -> Flight] /\ made \in Nat
  BY DEF RoomsTypes, RequestTypes, RoomTypes
<1>1. ASSUME UNCHANGED <<room, member>> PROVE MemberTypes'
  BY <1>0, <1>1 DEF MemberTypes
<1>2. ASSUME NEW x \in Ids, NEW u \in Users, UNCHANGED room,
             member' = [member EXCEPT ![x][u] = "none"]
      PROVE  MemberTypes'
  <2>1. [NoMembers EXCEPT ![u] = "none"] = NoMembers
    BY DEF NoMembers
  <2>2. member'[x] = [member[x] EXCEPT ![u] = "none"] /\ \A id \in Ids \ {x} : member'[id] = member[id]
    BY <1>2, <1>0 DEF MemberTypes
  <2>3. member' \in [Ids -> [Users -> Roles]]
    BY <1>2, <1>0 DEF MemberTypes, Roles
  <2> QED BY <1>2, <2>1, <2>2, <2>3, <1>0 DEF MemberTypes
<1>3. ASSUME NEW x \in Ids, NEW S \in SUBSET Users, NEW role \in {"admin", "member"},
             CanAdd(x, S), member' = Adding(x, S, role), UNCHANGED room
      PROVE  MemberTypes'
  <2>1. Exists(x)
    BY <1>3 DEF CanAdd
  <2> QED BY <1>3, <2>1, <1>0, Added DEF MemberTypes, Exists
<1>4. ASSUME NEW k \in Slots, Goes(k) PROVE MemberTypes'
  <2>0. flight[k] \in Flight
    BY <1>0
  <2>1. CASE CreateSave(k)
    <3>1. \A id \in Ids : room'[id] = NoRoom => room[id] = NoRoom
      <4>1. CASE NameTaken(flight[k].name)
        BY <2>1, <4>1 DEF CreateSave
      <4>2. CASE ~NameTaken(flight[k].name)
        <5>1. room' = [room EXCEPT ![made + 1] =
                 [direct |-> flight[k].direct, private |-> flight[k].private,
                  name |-> flight[k].name, deleted |-> FALSE, talked |-> FALSE]]
          BY <2>1, <4>2 DEF CreateSave
        <5>2. \A id \in Ids : id = made + 1 => room[id] = NoRoom
          BY <1>0 DEF RoomTypes
        <5> QED BY <5>1, <5>2, <1>0 DEF RoomTypes
      <4> QED BY <4>1, <4>2
    <3>2. UNCHANGED member
      BY <2>1 DEF CreateSave
    <3> QED BY <3>1, <3>2, <1>0 DEF MemberTypes
  <2>2. CASE CreateCreator(k)
    <3>1. /\ flight[k].op = "creator" /\ UNCHANGED room /\ CanAdd(flight[k].id, {flight[k].creator})
          /\ member' = Adding(flight[k].id, {flight[k].creator}, "admin")
      BY <2>2 DEF CreateCreator
    <3>2. flight[k].id \in Ids /\ {flight[k].creator} \in SUBSET Users
      BY <3>1, <2>0, RequestFields DEF OnRooms
    <3> QED BY <3>1, <3>2, <1>3
  <2>3. CASE CreateOthers(k)
    <3>1. /\ flight[k].op = "others" /\ UNCHANGED room /\ CanAdd(flight[k].id, flight[k].others)
          /\ member' = Adding(flight[k].id, flight[k].others, "member")
      BY <2>3 DEF CreateOthers
    <3>2. flight[k].id \in Ids /\ flight[k].others \in SUBSET Users
      BY <3>1, <2>0, RequestFields DEF OnRooms
    <3> QED BY <3>1, <3>2, <1>3
  <2>4. CASE Admit(k)
    <3>1. flight[k].op = "admit" /\ UNCHANGED room
      BY <2>4 DEF Admit
    <3>2. flight[k].id \in Ids /\ flight[k].users \in SUBSET Users
      BY <3>1, <2>0, RequestFields DEF OnRooms
    <3>3. CASE CanAdd(flight[k].id, flight[k].users)
      <4>1. member' = Adding(flight[k].id, flight[k].users, "member")
        BY <2>4, <3>3 DEF Admit
      <4> QED BY <3>1, <3>2, <3>3, <4>1, <1>3
    <3>4. CASE ~CanAdd(flight[k].id, flight[k].users)
      BY <2>4, <3>1, <3>4, <1>1 DEF Admit
    <3> QED BY <3>3, <3>4
  <2>5. CASE Expel(k)
    <3>1. /\ flight[k].op = "expel" /\ UNCHANGED room
          /\ member' = [member EXCEPT ![flight[k].id][flight[k].user] = "none"]
      BY <2>5 DEF Expel
    <3>2. flight[k].id \in Ids /\ flight[k].user \in Users
      BY <3>1, <2>0, RequestFields DEF OnRooms
    <3> QED BY <3>1, <3>2, <1>2
  <2>6. CASE UpdateWrite(k)
    <3>1. \A id \in Ids : room'[id] = NoRoom => room[id] = NoRoom
      <4>1. CASE UNCHANGED room
        BY <4>1
      <4>2. CASE ~UNCHANGED room
        <5>1. /\ Exists(flight[k].id) /\ flight[k].op = "write"
              /\ room' = [room EXCEPT ![flight[k].id] =
                   [direct |-> @.direct, private |-> flight[k].private,
                    name |-> flight[k].name, deleted |-> @.deleted, talked |-> @.talked]]
          BY <2>6, <4>2 DEF UpdateWrite
        <5>2. flight[k].id \in Ids /\ flight[k].name \in Names
          BY <5>1, <2>0, RequestFields DEF OnRooms
        <5>3. room'[flight[k].id] # NoRoom
          BY <5>1, <5>2, <1>0 DEF RoomTypes, NoRoom
        <5> QED BY <5>1, <5>2, <5>3, <1>0 DEF RoomTypes
      <4> QED BY <4>1, <4>2
    <3>2. UNCHANGED member
      BY <2>6 DEF UpdateWrite
    <3> QED BY <3>1, <3>2, <1>0 DEF MemberTypes
  <2>7. CASE DropMembers(k)
    BY <2>7, <1>0 DEF DropMembers, MemberTypes, NoMembers, Roles
  <2>8. CASE DropRoom(k)
    BY <2>8, <1>0 DEF DropRoom, MemberTypes, RoomTypes, NoMembers, Roles
  <2>9. CASE MarkRoom(k)
    <3>1. \A id \in Ids : room'[id] = NoRoom => room[id] = NoRoom
      <4>1. CASE ~Exists(flight[k].id)
        BY <2>9, <4>1 DEF MarkRoom
      <4>2. CASE Exists(flight[k].id)
        <5>1. /\ flight[k].op = "mark"
              /\ room' = [room EXCEPT ![flight[k].id] =
                            [room[flight[k].id] EXCEPT !.deleted = TRUE]]
          BY <2>9, <4>2 DEF MarkRoom
        <5>2. flight[k].id \in Ids
          BY <5>1, <2>0, RequestFields DEF OnRooms
        <5>3. room[flight[k].id] \in Room
          BY <5>2, <4>2, ExistingRooms
        <5>4. [room[flight[k].id] EXCEPT !.deleted = TRUE] # NoRoom
          BY <5>3 DEF Room, NoRoom
        <5> QED BY <5>1, <5>2, <5>4, <1>0 DEF RoomTypes
      <4> QED BY <4>1, <4>2
    <3>2. UNCHANGED member
      BY <2>9 DEF MarkRoom
    <3> QED BY <3>1, <3>2, <1>0 DEF MemberTypes
  <2>10. CASE UNCHANGED <<room, member>>
    BY <1>1, <2>10
  <2> QED BY <1>4, <2>1, <2>2, <2>3, <2>4, <2>5, <2>6, <2>7, <2>8, <2>9, <2>10
          DEF Goes, CreateFails, CountMembers, CountMessages
<1>5. ASSUME NEW x \in Ids, Talk(x) PROVE MemberTypes'
  <2>1. Exists(x) /\ UNCHANGED member
    BY <1>5 DEF Talk, Live
  <2>2. \A id \in Ids : room'[id] = NoRoom => room[id] = NoRoom
    <3>1. room' = [room EXCEPT ![x] = [room[x] EXCEPT !.talked = TRUE]]
      BY <1>5 DEF Talk
    <3>2. room[x] \in Room
      BY <2>1, ExistingRooms
    <3>3. [room[x] EXCEPT !.talked = TRUE] # NoRoom
      BY <3>2 DEF Room, NoRoom
    <3> QED BY <3>1, <3>3, <1>0 DEF RoomTypes
  <2> QED BY <2>1, <2>2, <1>0 DEF MemberTypes
<1>6. ASSUME NEW k \in Slots, NEW u \in Users, Requests(k, u) PROVE UNCHANGED <<room, member>>
  BY <1>6, Requested
<1>7. ASSUME NEW k \in Slots, NEW u \in Users, NEW x \in Ids, Leave(k, u, x)
      PROVE  MemberTypes'
  <2>1. UNCHANGED room
    BY <1>7, Left
  <2>2. member' = [member EXCEPT ![x][u] = "none"]
    BY <1>7 DEF Leave
  <2> QED BY <2>1, <2>2, <1>2
<1> QED BY <1>1, <1>4, <1>5, <1>6, <1>7, RoomsSteps DEF roomVars

LEMMA RequestTypesStep == RoomsTypes /\ [RoomsNext]_roomVars => RequestTypes'
<1> SUFFICES ASSUME RoomsTypes, [RoomsNext]_roomVars PROVE RequestTypes'
  OBVIOUS
<1>0. RequestTypes /\ made \in Nat
  BY DEF RoomsTypes, RoomTypes
<1>1. made' \in Nat /\ made <= made'
  <2>1. CASE Ids = {}
    <3>1. CASE \E k \in Slots : CreateSave(k)
      BY <3>1, <2>1, <1>0 DEF CreateSave, Ids
    <3>2. CASE ~\E k \in Slots : CreateSave(k)
      <4>1. ASSUME NEW k \in Slots, Goes(k) PROVE made' = made
        BY <4>1, <3>2 DEF Goes, CreateCreator, CreateOthers, CreateFails, Admit, Expel,
              CountMembers, UpdateWrite, CountMessages, DropMembers, DropRoom, MarkRoom
      <4>2. ASSUME NEW k \in Slots, NEW u \in Users, Requests(k, u) PROVE made' = made
        BY <4>2, Requested
      <4> QED BY <4>1, <4>2, <2>1, <1>0, RoomsSteps DEF roomVars
    <3> QED BY <3>1, <3>2
  <2>2. CASE Ids # {}
    BY <2>2, RoomsKept
  <2> QED BY <2>1, <2>2
<1>2. ASSUME NEW i \in Slots, flight'[i] = flight[i]
      PROVE  flight'[i].op \in OnRooms => flight'[i].id <= made'
  <2>1. flight[i].op \in OnRooms => flight[i].id \in Ids /\ flight[i].id <= made
    BY <1>0, RequestFields DEF RequestTypes
  <2> QED BY <2>1, <1>0, <1>1, <1>2 DEF Ids
<1>3. ASSUME NEW k \in Slots, Goes(k) PROVE RequestTypes'
  <2>1. /\ Moves(k) /\ flight' \in [Slots -> Flight] /\ requests' = requests
        /\ \A i \in Slots \ {k} : flight'[i] = flight[i]
    BY <1>3, Moved
  <2>2. flight[k].op \in OnRooms => flight[k].id \in Ids /\ flight[k].id <= made
    BY <1>0, RequestFields DEF RequestTypes
  <2>3. Idle.op \notin OnRooms
    BY DEF Idle, OnRooms
  <2>4. flight'[k].op \in OnRooms => flight'[k].id <= made'
    BY <2>1, <2>2, <2>3, <1>0, <1>1 DEF Moves, OnRooms, Ids
  <2> QED BY <2>1, <2>4, <1>0, <1>2 DEF RequestTypes
<1>4. ASSUME NEW k \in Slots, NEW u \in Users, Requests(k, u) PROVE RequestTypes'
  <2>1. /\ Asked(k) /\ flight' \in [Slots -> Flight] /\ requests' \in 0..MaxRequests
        /\ \A i \in Slots \ {k} : flight'[i] = flight[i]
        /\ made' = made
    BY <1>4, Requested
  <2>2. flight'[k].op \in OnRooms => flight'[k].id <= made'
    BY <2>1 DEF Asked, OnRooms
  <2> QED BY <2>1, <2>2, <1>2 DEF RequestTypes
<1>5. ASSUME NEW k \in Slots, NEW u \in Users, NEW x \in Ids, Leave(k, u, x)
      PROVE  RequestTypes'
  <2>1. /\ flight'[k].id <= made' /\ flight' \in [Slots -> Flight]
        /\ requests' \in 0..MaxRequests
        /\ \A i \in Slots \ {k} : flight'[i] = flight[i]
    BY <1>5, Left
  <2> QED BY <2>1, <1>2 DEF RequestTypes
<1>6. ASSUME UNCHANGED <<made, flight, requests>> PROVE RequestTypes'
  BY <1>6, <1>0 DEF RequestTypes
<1> QED BY <1>3, <1>4, <1>5, <1>6, RoomsSteps DEF roomVars, Talk

LEMMA HistoryTypesStep == RoomsTypes /\ [RoomsNext]_roomVars => HistoryTypes'
<1> SUFFICES ASSUME RoomsTypes, [RoomsNext]_roomVars PROVE HistoryTypes'
  OBVIOUS
<1>0. HistoryTypes /\ flight \in [Slots -> Flight]
  BY DEF RoomsTypes, RequestTypes
<1>1. ASSUME NEW k \in Slots, Goes(k) PROVE HistoryTypes'
  <2>1. flight[k].op \in OnRooms => flight[k].id \in Ids
    BY <1>0, RequestFields
  <2>2. ASSUME Cross(k) PROVE crossed' \subseteq Slots
    BY <2>2, <1>0 DEF Cross, HistoryTypes
  <2>3. CASE CreateSave(k) \/ Expel(k) \/ CountMembers(k) \/ UpdateWrite(k) \/ CountMessages(k)
             \/ DropMembers(k) \/ MarkRoom(k)
    BY <2>3, <1>0 DEF HistoryTypes, history, CreateSave, Expel, CountMembers, UpdateWrite,
                     CountMessages, DropMembers, MarkRoom
  <2>4. CASE CreateCreator(k)
    BY <2>4, <1>0, <2>2 DEF HistoryTypes, history, CreateCreator
  <2>5. CASE CreateOthers(k)
    BY <2>5, <1>0, <2>1, <2>2 DEF HistoryTypes, CreateOthers, OnRooms
  <2>6. CASE CreateFails(k)
    BY <2>6, <1>0, <2>1 DEF HistoryTypes, CreateFails, OnRooms
  <2>7. CASE Admit(k)
    BY <2>7, <1>0, <2>1, <2>2 DEF HistoryTypes, Admit, OnRooms
  <2>8. CASE DropRoom(k)
    BY <2>8, <1>0, <2>1 DEF HistoryTypes, DropRoom, OnRooms
  <2> QED BY <1>1, <2>3, <2>4, <2>5, <2>6, <2>7, <2>8 DEF Goes
<1>2. ASSUME NEW k \in Slots, NEW u \in Users, Requests(k, u) PROVE HistoryTypes'
  BY <1>2, <1>0, Requested DEF HistoryTypes, history
<1>3. ASSUME NEW k \in Slots, NEW u \in Users, NEW x \in Ids, Leave(k, u, x)
      PROVE  HistoryTypes'
  BY <1>3, <1>0, Left DEF HistoryTypes, history
<1>4. ASSUME NEW x \in Ids, Talk(x) PROVE HistoryTypes'
  BY <1>4, <1>0 DEF HistoryTypes, Talk
<1>5. CASE UNCHANGED roomVars
  BY <1>5, <1>0 DEF HistoryTypes, roomVars
<1> QED BY <1>1, <1>2, <1>3, <1>4, <1>5, RoomsSteps

LEMMA RoomsTypesStep == RoomsTypes /\ [RoomsNext]_roomVars => RoomsTypes'
BY RoomTypesStep, MemberTypesStep, NamesStep, RequestTypesStep, HistoryTypesStep DEF RoomsTypes

\* However requests overlap, the rows stay rows: a name belongs to one room, members belong
\* to rooms that exist (chat-room.service.ts, lines 60-116).
THEOREM RoomsTypeCorrect == RoomsSpec => []RoomsTypeOK
<1>1. RoomsTypes => RoomsTypeOK
  BY DEF RoomsTypes, RoomTypes, MemberTypes, NamesDiffer, RequestTypes, HistoryTypes,
         RoomsTypeOK, Exists, Roles
<1> QED BY <1>1, RoomsTypesInit, RoomsTypesStep, PTL DEF RoomsSpec

-----------------------------------------------------------------------------
(* Rooms: no message is dropped uncounted.                                 *)

\* What is about to be dropped holds no message but one that came after the count.
Dropping(k) == flight[k].op \in {"members", "drop"}
Counted ==
  \A k \in Slots :
    Dropping(k) /\ Exists(flight[k].id) /\ room[flight[k].id].talked = TRUE
      => flight[k].id \in hurried

\* A slot that is about to drop a room was so before, or has just counted no message.
LEMMA DroppingBefore ==
  ASSUME RoomsTypes, Counted, [RoomsNext]_roomVars, NEW k \in Slots, Dropping(k)'
  PROVE  /\ flight'[k].id \in Ids /\ flight'[k].id <= made
         /\ Exists(flight'[k].id) /\ room[flight'[k].id].talked = TRUE
              => flight'[k].id \in hurried
         /\ flight' = flight => Dropping(k)
<1> DEFINE Goal ==
       /\ flight'[k].id \in Ids /\ flight'[k].id <= made
       /\ Exists(flight'[k].id) /\ room[flight'[k].id].talked = TRUE
            => flight'[k].id \in hurried
<1>1. RequestTypes
  BY DEF RoomsTypes
<1>2. ASSUME flight'[k] = flight[k] PROVE Goal
  BY <1>1, <1>2, RequestFields DEF Counted, Dropping, RequestTypes, OnRooms
<1>3. ASSUME NEW j \in Slots, Goes(j) PROVE Goal
  <2>1. CASE j # k
    BY <1>2, <1>3, <2>1, Moved
  <2>2. CASE j = k
    <3>1. Moves(k)
      BY <1>3, <2>2, Moved
    <3>2. CASE flight[k].op = "messages"
      <4>1. /\ flight'[k].id = flight[k].id
            /\ Exists(flight[k].id) => room[flight[k].id].talked = FALSE
        BY <3>1, <3>2 DEF Moves, Dropping, Idle
      <4> QED BY <4>1, <3>2, <1>1, RequestFields DEF RequestTypes, OnRooms
    <3>3. CASE flight[k].op = "members"
      <4>1. flight'[k].id = flight[k].id
        BY <3>1, <3>3 DEF Moves, Dropping, Idle
      <4> QED BY <4>1, <3>3, <1>1, RequestFields DEF Counted, Dropping, RequestTypes, OnRooms
    <3>4. flight[k].op \in {"messages", "members"}
      BY <3>1 DEF Moves, Dropping, Idle
    <3> QED BY <3>2, <3>3, <3>4
  <2> QED BY <2>1, <2>2
<1>4. ASSUME NEW j \in Slots, NEW u \in Users, Requests(j, u) PROVE Goal
  BY <1>2, <1>4, Requested DEF Asked, Dropping
<1>5. ASSUME NEW j \in Slots, NEW u \in Users, NEW x \in Ids, Leave(j, u, x) PROVE Goal
  BY <1>2, <1>5, Left DEF Dropping
<1>6. ASSUME UNCHANGED flight PROVE Goal
  BY <1>2, <1>6
<1> HIDE DEF Goal
<1>7. Goal
  BY <1>3, <1>4, <1>5, <1>6, RoomsSteps DEF Talk, roomVars
<1> QED BY <1>7 DEF Goal, Dropping

LEMMA CountedStep ==
  RoomsTypes /\ Counted /\ lost \subseteq hurried /\ [RoomsNext]_roomVars
    => Counted' /\ lost' \subseteq hurried'
<1> SUFFICES ASSUME RoomsTypes, Counted, lost \subseteq hurried, [RoomsNext]_roomVars
             PROVE  Counted' /\ lost' \subseteq hurried'
  OBVIOUS
<1>1. hurried \subseteq hurried'
  <2>1. ASSUME NEW k \in Slots, Goes(k) PROVE hurried' = hurried
    BY <2>1 DEF Goes, history, CreateSave, CreateCreator, CreateOthers, CreateFails, Admit,
         Expel, CountMembers, UpdateWrite, CountMessages, DropMembers, DropRoom, MarkRoom
  <2>2. ASSUME NEW k \in Slots, NEW u \in Users, Requests(k, u) PROVE hurried' = hurried
    BY <2>2, Requested DEF history
  <2>3. ASSUME NEW k \in Slots, NEW u \in Users, NEW x \in Ids, Leave(k, u, x)
        PROVE  hurried' = hurried
    BY <2>3, Left DEF history
  <2>4. ASSUME NEW x \in Ids, Talk(x) PROVE hurried \subseteq hurried'
    BY <2>4 DEF Talk
  <2> QED BY <2>1, <2>2, <2>3, <2>4, RoomsSteps DEF roomVars
<1>2. Counted'
  <2> SUFFICES ASSUME NEW k \in Slots, NEW id, id = flight'[k].id,
                      Dropping(k)', Exists(id)', room'[id].talked = TRUE
               PROVE  id \in hurried'
    BY DEF Counted, Exists
  <2>1. /\ id \in Ids /\ id <= made
        /\ Exists(id) /\ room[id].talked = TRUE => id \in hurried
        /\ flight' = flight => Dropping(k)
    BY DroppingBefore
  <2>2. /\ Exists(id)
        /\ \/ room'[id].talked = room[id].talked
           \/ /\ flight' = flight
              /\ \A i \in Slots : flight[i].op \in {"members", "drop"} /\ flight[i].id = id
                   => id \in hurried'
    BY <2>1, RoomsKept
  <2>3. CASE flight' = flight /\ room'[id].talked # room[id].talked
    BY <2>1, <2>2, <2>3 DEF Dropping
  <2>4. CASE room'[id].talked = room[id].talked
    BY <1>1, <2>1, <2>2, <2>4
  <2> QED BY <2>2, <2>3, <2>4
<1>3. ASSUME lost' = lost PROVE lost' \subseteq hurried'
  BY <1>1, <1>3
<1>4. ASSUME NEW k \in Slots, DropRoom(k) PROVE lost' \subseteq hurried'
  <2>1. flight[k].op = "drop" /\ Dropping(k)
    BY <1>4 DEF DropRoom, Dropping
  <2>2. flight[k].id \in Ids
    BY <2>1, RequestFields DEF RoomsTypes, RequestTypes, OnRooms
  <2>3. CASE Exists(flight[k].id) /\ room[flight[k].id].talked
    <3>1. room[flight[k].id].talked = TRUE
      BY <2>2, <2>3, ExistingRooms DEF Room
    <3>2. flight[k].id \in hurried
      BY <2>1, <2>3, <3>1 DEF Counted
    <3>3. lost' = lost \cup {flight[k].id}
      BY <1>4, <2>3 DEF DropRoom
    <3> QED BY <3>2, <3>3, <1>1
  <2>4. CASE ~(Exists(flight[k].id) /\ room[flight[k].id].talked)
    BY <1>3, <1>4, <2>4 DEF DropRoom
  <2> QED BY <2>3, <2>4
<1>5. ASSUME NEW k \in Slots, Goes(k), ~DropRoom(k) PROVE lost' = lost
  BY <1>5 DEF Goes, history, CreateSave, CreateCreator, CreateOthers, CreateFails, Admit,
       Expel, CountMembers, UpdateWrite, CountMessages, DropMembers, MarkRoom
<1>6. ASSUME NEW k \in Slots, NEW u \in Users, Requests(k, u) PROVE lost' = lost
  BY <1>6, Requested DEF history
<1>7. ASSUME NEW k \in Slots, NEW u \in Users, NEW x \in Ids, Leave(k, u, x)
      PROVE  lost' = lost
  BY <1>7, Left DEF history
<1>8. ASSUME NEW x \in Ids, Talk(x) PROVE lost' = lost
  BY <1>8 DEF Talk
<1> QED BY <1>2, <1>3, <1>4, <1>5, <1>6, <1>7, <1>8, RoomsSteps DEF roomVars

\* A room that is removed takes no message with it, but for one sent after the messages of
\* the room had been counted, whatever rooms are removed, left and marked at a time
\* (deleteRoom, chat-room.service.ts, lines 816-838).
THEOREM MessagesSurviveCorrect == RoomsSpec => []MessagesSurvive
<1>1. RoomsInit => Counted /\ MessagesSurvive
  BY DEF RoomsInit, Counted, Dropping, Idle, MessagesSurvive
<1>2. RoomsTypes /\ Counted /\ MessagesSurvive /\ [RoomsNext]_roomVars
        => Counted' /\ MessagesSurvive'
  BY CountedStep DEF MessagesSurvive
<1> QED BY <1>1, <1>2, RoomsTypesInit, RoomsTypesStep, PTL DEF RoomsSpec

-----------------------------------------------------------------------------
(* Rooms: one direct room for two.                                         *)

Has(id, u) == member[id][u] # "none"
Direct(id) == Exists(id) /\ room[id].direct = TRUE
Pair(id, u, v) == Live(id) /\ Direct(id) /\ Has(id, u) /\ Has(id, v)

\* No room is theirs but those that were opened to others.
NoPair(u, v) == \A id \in Ids \ loose : ~Pair(id, u, v)

\* A room is created by one request.
Making(k) == flight[k].op \in {"creator", "others"}
OneMaker == \A i, k \in Slots : Making(i) /\ Making(k) /\ flight[i].id = flight[k].id => i = k

\* If nobody else adds members, the room is empty first, then the creator is in it.
Few(f) ==
  /\ f.op = "creator" /\ f.id \notin loose => \A u \in Users : ~Has(f.id, u)
  /\ f.op = "others" /\ f.id \notin loose =>
       \A u, v \in Users : Has(f.id, u) /\ Has(f.id, v) => u = v

\* A direct room is for the creator and one other.
ForOther(f) == \E v \in Users : v # f.creator /\ f.others = {v}
Two(f) ==
  /\ f.op = "save" /\ f.direct = TRUE => ForOther(f)
  /\ f.op = "creator" /\ Direct(f.id) => ForOther(f)
  /\ f.op = "others" /\ Direct(f.id) => \E v \in Users : f.others = {v}

\* While nobody else adds members, the two share no other room.
ForNew(f) == \A v \in f.others : NoPair(f.creator, v)
Alone(f) ==
  /\ f.op = "save" /\ f.direct = TRUE => ForNew(f)
  /\ f.op = "creator" /\ Direct(f.id) => ForNew(f)
  /\ f.op = "others" /\ Direct(f.id) /\ f.id \notin loose =>
       \A u \in Users : Has(f.id, u) => \A v \in f.others : u # v => NoPair(u, v)

Fine(k, f) == Few(f) /\ Two(f) /\ (k \notin crossed => Alone(f))
AllFine == \A k \in Slots : Fine(k, flight[k])

OneRoom ==
  \A i, j \in Ids \ loose : \A u, v \in Users :
    u # v /\ Pair(i, u, v) /\ Pair(j, u, v) => i = j

LEMMA PairIsBetween ==
  ASSUME RoomsTypes, NEW id \in Ids, NEW u \in Users, NEW v \in Users
  PROVE  id \in DirectBetween(u, v) <=> Pair(id, u, v)
<1>1. Exists(id) => room[id].direct \in BOOLEAN
  BY ExistingRooms DEF Room
<1> QED BY <1>1 DEF DirectBetween, Pair, Direct, Live, Has, MembersOf

\* Steps that add members, and what they add.
Adds(k) == CreateCreator(k) \/ CreateOthers(k) \/ Admit(k)

LEMMA AddsTo ==
  ASSUME RoomsTypes, NEW k \in Slots, Adds(k)
  PROVE  /\ room' = room /\ made' = made /\ loose \subseteq loose'
         /\ \A id \in Ids, u \in Users : id # flight[k].id => member'[id][u] = member[id][u]
         /\ \/ member' = member /\ loose' = loose
            \/ \A i \in Slots \ {k} : flight[i].op \in {"save", "creator", "others"}
                 => i \in crossed'
         /\ \/ member' = member /\ loose' = loose
            \/ flight[k].op = "creator" /\ loose' = loose
            \/ flight[k].op = "others"
            \/ flight[k].id \in loose'
         /\ flight[k].id \in Ids
<1>0. flight[k] \in Flight /\ member \in [Ids -> [Users -> Roles]]
  BY DEF RoomsTypes, RequestTypes, MemberTypes
<1>1. ASSUME Cross(k)
      PROVE  \A i \in Slots \ {k} : flight[i].op \in {"save", "creator", "others"} => i \in crossed'
  BY <1>1 DEF Cross
<1>2. CASE CreateCreator(k)
  <2> DEFINE S == {flight[k].creator}
  <2>0. Cross(k)
    BY <1>2 DEF CreateCreator
  <2>1. /\ flight[k].op = "creator" /\ UNCHANGED <<made, room, history>>
        /\ member' = Adding(flight[k].id, S, "admin")
    BY <1>2 DEF CreateCreator
  <2>2. flight[k].id \in Ids /\ S \in SUBSET Users
    BY <2>1, <1>0, RequestFields DEF OnRooms
  <2> HIDE DEF S
  <2>3. \A id \in Ids \ {flight[k].id} : member'[id] = member[id]
    BY <2>1, <2>2, Added
  <2> QED BY <2>0, <2>1, <2>2, <2>3, <1>1 DEF history
<1>3. CASE CreateOthers(k)
  <2>1. /\ flight[k].op = "others" /\ UNCHANGED <<made, room>> /\ loose \subseteq loose' /\ Cross(k)
        /\ member' = Adding(flight[k].id, flight[k].others, "member")
    BY <1>3 DEF CreateOthers
  <2>2. flight[k].id \in Ids /\ flight[k].others \in SUBSET Users
    BY <2>1, <1>0, RequestFields DEF OnRooms
  <2>3. \A id \in Ids \ {flight[k].id} : member'[id] = member[id]
    BY <2>1, <2>2, Added
  <2> QED BY <2>1, <2>2, <2>3, <1>1
<1>4. CASE Admit(k)
  <2>1. flight[k].op = "admit" /\ UNCHANGED <<made, room>>
    BY <1>4 DEF Admit
  <2>2. flight[k].id \in Ids /\ flight[k].users \in SUBSET Users
    BY <2>1, <1>0, RequestFields DEF OnRooms
  <2>3. CASE CanAdd(flight[k].id, flight[k].users)
    <3>1. /\ member' = Adding(flight[k].id, flight[k].users, "member") /\ Cross(k)
          /\ loose' = loose \cup {flight[k].id}
      BY <1>4, <2>3 DEF Admit
    <3>2. \A id \in Ids \ {flight[k].id} : member'[id] = member[id]
      BY <3>1, <2>2, Added
    <3> QED BY <2>1, <2>2, <3>1, <3>2, <1>1
  <2>4. CASE ~CanAdd(flight[k].id, flight[k].users)
    <3>1. UNCHANGED <<member, loose>>
      BY <1>4, <2>4 DEF Admit
    <3> QED BY <2>1, <2>2, <3>1
  <2> QED BY <2>3, <2>4
<1> QED BY <1>2, <1>3, <1>4 DEF Adds

\* Other steps add none.
LEMMA OthersAddNone ==
  ASSUME RoomsTypes, [RoomsNext]_roomVars, \A k \in Slots : ~Adds(k)
  PROVE  /\ loose' = loose
         /\ \A id \in Ids, u \in Users : Has(id, u)' => Has(id, u)
<1>0. member \in [Ids -> [Users -> Roles]] /\ flight \in [Slots -> Flight]
  BY DEF RoomsTypes, RequestTypes, MemberTypes
<1>1. ASSUME NEW k \in Slots, Goes(k)
      PROVE  loose' = loose /\ \A id \in Ids, u \in Users : Has(id, u)' => Has(id, u)
  <2>1. CASE CreateSave(k) \/ CreateFails(k) \/ CountMembers(k) \/ UpdateWrite(k)
             \/ CountMessages(k) \/ MarkRoom(k)
    BY <2>1 DEF CreateSave, CreateFails, CountMembers, UpdateWrite, CountMessages, MarkRoom,
                history, Has
  <2>2. CASE Expel(k)
    <3>1. member' = [member EXCEPT ![flight[k].id][flight[k].user] = "none"] /\ loose' = loose
      BY <2>2 DEF Expel, history
    <3> QED BY <3>1, <1>0 DEF Has
  <2>3. CASE DropMembers(k) \/ DropRoom(k)
    <3>1. member' = [member EXCEPT ![flight[k].id] = NoMembers] /\ loose' = loose
      BY <2>3 DEF DropMembers, DropRoom, history
    <3> QED BY <3>1, <1>0 DEF Has, NoMembers
  <2>4. ~CreateCreator(k) /\ ~CreateOthers(k) /\ ~Admit(k)
    BY DEF Adds
  <2> QED BY <1>1, <2>1, <2>2, <2>3, <2>4 DEF Goes
<1>2. ASSUME NEW k \in Slots, NEW u \in Users, Requests(k, u) PROVE UNCHANGED <<loose, member>>
  BY <1>2, Requested DEF history
<1>3. ASSUME NEW k \in Slots, NEW u \in Users, NEW x \in Ids, Leave(k, u, x)
      PROVE  loose' = loose /\ \A id \in Ids, w \in Users : Has(id, w)' => Has(id, w)
  <2>1. member' = [member EXCEPT ![x][u] = "none"] /\ loose' = loose
    BY <1>3 DEF Leave, history
  <2> QED BY <2>1, <1>0 DEF Has
<1>4. ASSUME NEW x \in Ids, Talk(x) PROVE UNCHANGED <<loose, member>>
  BY <1>4 DEF Talk
<1> QED BY <1>1, <1>2, <1>3, <1>4, RoomsSteps DEF roomVars, Has

\* A request stays crossed until its slot takes another.
LEMMA StaysCrossed ==
  ASSUME RoomsTypes, [RoomsNext]_roomVars, NEW i \in Slots, flight'[i] = flight[i]
  PROVE  i \in crossed => i \in crossed'
<1>1. ASSUME NEW k \in Slots, Goes(k) PROVE crossed \subseteq crossed'
  BY <1>1 DEF Goes, Cross, CreateSave, CreateCreator, CreateOthers, CreateFails, Admit,
     Expel, CountMembers, UpdateWrite, CountMessages, DropMembers, DropRoom, MarkRoom
<1>2. ASSUME NEW k \in Slots, NEW u \in Users, Requests(k, u) PROVE i \in crossed => i \in crossed'
  <2>0. flight[k] = Idle /\ Asked(k)
    BY <1>2, Requested
  <2>1. i # k
    BY <2>0 DEF Asked, Idle
  <2> QED BY <1>2, <2>1, Requested
<1>3. ASSUME NEW k \in Slots, NEW u \in Users, NEW x \in Ids, Leave(k, u, x)
      PROVE  i \in crossed => i \in crossed'
  <2>1. i # k
    BY <1>3, Left DEF Idle
  <2> QED BY <1>3, <2>1, Left
<1>4. ASSUME NEW x \in Ids, Talk(x) PROVE crossed' = crossed
  BY <1>4 DEF Talk
<1> QED BY <1>1, <1>2, <1>3, <1>4, RoomsSteps DEF roomVars

\* A request that creates a room anew, or goes on with it.
LEMMA Creating ==
  ASSUME RoomsTypes, [RoomsNext]_roomVars, NEW i \in Slots, flight'[i] # flight[i],
         flight'[i].op \in {"save", "creator", "others"}
  PROVE  \/ Asked(i) /\ UNCHANGED <<made, room, member, loose>>
         \/ flight[i].op = "save" /\ Moves(i) /\ CreateSave(i)
         \/ flight[i].op = "creator" /\ Moves(i) /\ CreateCreator(i)
<1> DEFINE Goal ==
       \/ Asked(i) /\ UNCHANGED <<made, room, member, loose>>
       \/ flight[i].op = "save" /\ Moves(i) /\ CreateSave(i)
       \/ flight[i].op = "creator" /\ Moves(i) /\ CreateCreator(i)
<1>1. ASSUME NEW k \in Slots, Goes(k) PROVE Goal
  <2>1. k = i
    BY <1>1, Moved
  <2>2. Moves(i)
    BY <1>1, <2>1, Moved
  <2>3. flight[i].op \in {"save", "creator"}
    BY <2>2 DEF Moves, Idle
  <2>4. CASE flight[i].op = "save"
    <3>1. CreateSave(i)
      BY <1>1, <2>1, <2>4 DEF Goes, CreateCreator, CreateOthers, CreateFails, Admit,
        Expel, CountMembers, UpdateWrite, CountMessages, DropMembers, DropRoom, MarkRoom
    <3> QED BY <2>2, <2>4, <3>1
  <2>5. CASE flight[i].op = "creator"
    <3>1. ~CreateFails(i)
      <4>1. CASE CreateFails(i)
        <5>1. Finish(i)
          BY <4>1 DEF CreateFails
        <5>2. flight'[i] = Idle
          BY <5>1, GoesOn, RequestShapes DEF Finish
        <5> QED BY <5>2 DEF Idle
      <4> QED BY <4>1
    <3>2. CreateCreator(i)
      BY <1>1, <2>1, <2>5, <3>1 DEF Goes, CreateSave, CreateOthers, Admit,
        Expel, CountMembers, UpdateWrite, CountMessages, DropMembers, DropRoom, MarkRoom
    <3> QED BY <2>2, <2>5, <3>2
  <2> QED BY <2>3, <2>4, <2>5
<1>2. ASSUME NEW k \in Slots, NEW u \in Users, Requests(k, u) PROVE Goal
  BY <1>2, Requested DEF history
<1>3. ASSUME NEW k \in Slots, NEW u \in Users, NEW x \in Ids, Leave(k, u, x) PROVE FALSE
  BY <1>3, Left
<1>4. ASSUME NEW x \in Ids, Talk(x) PROVE FALSE
  BY <1>4 DEF Talk
<1>5. ASSUME UNCHANGED roomVars PROVE FALSE
  BY <1>5 DEF roomVars
<1> HIDE DEF Goal
<1>6. Goal
  BY <1>1, <1>2, <1>3, <1>4, <1>5, RoomsSteps
<1> QED BY <1>6 DEF Goal

\* A step that adds no member.
Fades == loose' = loose /\ \A id \in Ids, u \in Users : Has(id, u)' => Has(id, u)

LEMMA NoPairFades ==
  ASSUME RoomsTypes, [RoomsNext]_roomVars, Fades, NEW u \in Users, NEW v \in Users
  PROVE  /\ \A id \in Ids : Pair(id, u, v)' => Pair(id, u, v)
         /\ NoPair(u, v) => NoPair(u, v)'
<1>1. ASSUME NEW id \in Ids, Pair(id, u, v)' PROVE Pair(id, u, v)
  <2>0. Live(id)' /\ Direct(id)' /\ Has(id, u)' /\ Has(id, v)'
    BY <1>1 DEF Pair
  <2>1. Has(id, u) /\ Has(id, v)
    BY <2>0 DEF Fades
  <2>2. id <= made
    <3>1. ~(id > made)
      BY <2>1, RoomsKept DEF Has, NoMembers
    <3> QED BY <3>1, ExistingRooms
  <2>3. Exists(id)' /\ room'[id].direct = TRUE
    BY <2>0 DEF Direct
  <2>4. Live(id) /\ Exists(id) /\ room[id].direct = TRUE
    BY <2>0, <2>2, <2>3, RoomsKept
  <2> QED BY <2>1, <2>4 DEF Pair, Direct
<1> QED BY <1>1 DEF NoPair, Fades

\* A direct room was direct from the start.
LEMMA DirectKept ==
  ASSUME RoomsTypes, [RoomsNext]_roomVars, NEW id \in Ids, id <= made
  PROVE  Direct(id)' => Direct(id)
BY RoomsKept DEF Direct

\* What is known of a request that creates a room.
Creation(f) ==
  /\ f.op \in {"creator", "others"} => f.id \in Ids /\ f.id <= made
  /\ f.op \in {"save", "creator"} => f.creator \in Users
  /\ f.op \in {"save", "creator", "others"} => f.others \subseteq Users

LEMMA Creations == ASSUME RoomsTypes, NEW i \in Slots PROVE Creation(flight[i])
BY RequestFields DEF RoomsTypes, RequestTypes, OnRooms, Creation

LEMMA FineFades ==
  ASSUME RoomsTypes, [RoomsNext]_roomVars, Fades, NEW i, NEW f, Creation(f), Fine(i, f),
         i \notin crossed' => i \notin crossed
  PROVE  Fine(i, f)'
<1>1. Few(f)'
  BY DEF Few, Fades, Fine, Creation
<1>2. ASSUME f.op \in {"creator", "others"} PROVE Direct(f.id)' => Direct(f.id)
  BY <1>2, DirectKept DEF Creation
<1>3. Two(f)'
  BY <1>2 DEF Two, Fine
<1>4. ASSUME i \notin crossed' PROVE Alone(f)'
  <2>1. Alone(f)
    BY <1>4 DEF Fine
  <2>2. ASSUME f.op \in {"save", "creator"}, ForNew(f) PROVE ForNew(f)'
    BY <2>2, NoPairFades DEF ForNew, Creation
  <2>3. ASSUME f.op = "others", Direct(f.id)', f.id \notin loose', NEW u \in Users,
               Has(f.id, u)', NEW v \in f.others, u # v
        PROVE  NoPair(u, v)'
    <3>1. v \in Users /\ f.id \in Ids
      BY <2>3 DEF Creation
    <3>2. Direct(f.id) /\ f.id \notin loose /\ Has(f.id, u)
      BY <2>3, <1>2, <3>1 DEF Fades
    <3>3. NoPair(u, v)
      BY <2>1, <2>3, <3>2 DEF Alone
    <3> QED BY <3>1, <3>3, NoPairFades
  <2> QED BY <2>1, <2>2, <2>3, <1>2 DEF Alone
<1> QED BY <1>1, <1>3, <1>4 DEF Fine

\* A step that adds members leaves other requests fine: they are crossed by it.
LEMMA FineCrossed ==
  ASSUME RoomsTypes, OneMaker, NEW k \in Slots, Adds(k), ~Fades,
         NEW i \in Slots, i # k, NEW f, f = flight[i], Fine(i, f)
  PROVE  Fine(i, f)'
<1>1. CASE f.op \notin {"save", "creator", "others"}
  BY <1>1 DEF Fine, Few, Two, Alone
<1>2. CASE f.op \in {"save", "creator", "others"}
  <2>0. ~(member' = member /\ loose' = loose)
    BY DEF Fades, Has
  <2>1. /\ room' = room /\ loose \subseteq loose' /\ i \in crossed'
        /\ \A id \in Ids, u \in Users : id # flight[k].id => member'[id][u] = member[id][u]
        /\ flight[k].op \in {"creator", "others"} \/ flight[k].id \in loose'
    BY <1>2, <2>0, AddsTo
  <2>2. Creation(f)
    BY Creations
  <2>3. Few(f)'
    <3>1. ASSUME f.op \in {"creator", "others"}, f.id \notin loose'
          PROVE  f.id # flight[k].id
      BY <2>1, <3>1 DEF OneMaker, Making
    <3>2. ASSUME f.op \in {"creator", "others"}, f.id \notin loose', NEW u \in Users
          PROVE  Has(f.id, u)' <=> Has(f.id, u)
      BY <3>1, <3>2, <2>1, <2>2 DEF Has, Creation
    <3> QED BY <3>2, <2>1 DEF Few, Fine
  <2>4. Two(f)'
    <3>1. Direct(f.id)' <=> Direct(f.id)
      BY <2>1 DEF Direct, Exists
    <3> QED BY <3>1 DEF Two, Fine
  <2> QED BY <2>1, <2>3, <2>4 DEF Fine
<1> QED BY <1>1, <1>2

\* A room that is asked for: the two share none yet.
LEMMA FineAsked ==
  ASSUME RoomsTypes, RoomsTypes', NEW i \in Slots, Asked(i),
         UNCHANGED <<made, room, member, loose>>, NEW f, f = flight'[i]
  PROVE  Fine(i, f)'
<1>1. CASE f.op # "save"
  BY <1>1 DEF Asked, Fine, Few, Two, Alone
<1>2. CASE f.op = "save"
  <2>1. Few(f)'
    BY <1>2 DEF Few
  <2>2. ASSUME f.direct = TRUE PROVE ForOther(f)' /\ ForNew(f)'
    <3>1. PICK v \in Users :
            v # f.creator /\ f.others = {v} /\ DirectBetween(f.creator, v) = {}
      BY <1>2, <2>2 DEF Asked
    <3>2. f \in Flight
      BY DEF RoomsTypes, RequestTypes
    <3>3. f.creator \in Users
      BY <1>2, <3>2, RequestFields
    <3>4. \A id \in Ids : ~Pair(id, f.creator, v)
      BY <3>1, <3>3, PairIsBetween
    <3>5. NoPair(f.creator, v)'
      BY <3>4 DEF NoPair, Pair, Live, Direct, Exists, Has
    <3> QED BY <3>1, <3>5 DEF ForOther, ForNew
  <2>3. Two(f)' /\ Alone(f)'
    BY <1>2, <2>2 DEF Two, Alone
  <2> QED BY <2>1, <2>3 DEF Fine
<1> QED BY <1>1, <1>2

\* The room that is saved has no members.
LEMMA FineSaved ==
  ASSUME RoomsTypes, [RoomsNext]_roomVars, NEW i \in Slots, CreateSave(i), flight[i].op = "save",
         flight'[i].op = "creator", Moves(i), Fine(i, flight[i]), NEW f, f = flight'[i]
  PROVE  Fine(i, f)'
<1> DEFINE g == flight[i]
<1>1. f.id = made + 1 /\ f.creator = g.creator /\ f.others = g.others /\ made' = made + 1
  BY DEF Moves, Idle
<1>2. UNCHANGED <<member, crossed, loose>>
  BY DEF CreateSave, history
<1>3. ~NameTaken(g.name)
  <2>1. CASE NameTaken(g.name)
    <3>1. Finish(i)
      BY <2>1 DEF CreateSave
    <3>2. flight'[i] = Idle
      BY <3>1, GoesOn, RequestShapes DEF Finish
    <3> QED BY <3>2 DEF Idle
  <2> QED BY <2>1
<1>4. made + 1 \in Ids
  BY <1>3 DEF CreateSave, Ids, RoomsTypes, RoomTypes
<1>5. room'[f.id].direct = g.direct
  <2>1. room' = [room EXCEPT ![made + 1] =
               [direct |-> g.direct, private |-> g.private, name |-> g.name,
                deleted |-> FALSE, talked |-> FALSE]]
    BY <1>3 DEF CreateSave
  <2> QED BY <1>1, <1>4, <2>1 DEF RoomsTypes, RoomTypes
<1>6. Few(f)'
  <2>1. member[made + 1] = NoMembers
    BY <1>4, RoomsKept DEF RoomsTypes, RoomTypes
  <2> QED BY <1>1, <1>2, <2>1 DEF Few, Has, NoMembers
<1>7. ASSUME Direct(f.id)' PROVE g.direct = TRUE
  BY <1>5, <1>7 DEF Direct
<1>8. Two(f)'
  <2>1. ASSUME g.direct = TRUE PROVE ForOther(f)'
    BY <1>1, <2>1 DEF Fine, Two, ForOther
  <2> QED BY <1>7, <2>1 DEF Two
<1>9. ASSUME i \notin crossed' PROVE Alone(f)'
  <2>1. ASSUME g.direct = TRUE PROVE ForNew(f)'
    <3>1. ForNew(g) /\ Creation(g)
      BY <1>2, <1>9, <2>1, Creations DEF Fine, Alone
    <3>2. Fades
      BY <1>2 DEF Fades, Has
    <3>3. \A v \in f.others : NoPair(f.creator, v)
      BY <1>1, <3>1 DEF ForNew
    <3>4. f.creator \in Users /\ f.others \subseteq Users
      BY <1>1, <3>1 DEF Creation
    <3>5. \A v \in f.others : NoPair(f.creator, v)'
      BY <3>2, <3>3, <3>4, NoPairFades
    <3> QED BY <3>5 DEF ForNew
  <2> QED BY <1>7, <2>1 DEF Alone
<1> QED BY <1>6, <1>8, <1>9 DEF Fine

\* The creator is the first member.
LEMMA FineCreator ==
  ASSUME RoomsTypes, [RoomsNext]_roomVars, NEW i \in Slots, CreateCreator(i), Moves(i),
         flight[i].op = "creator", flight'[i].op = "others", Fine(i, flight[i]),
         NEW f, f = flight'[i]
  PROVE  Fine(i, f)'
<1> SUFFICES ASSUME NEW g, g = flight[i], NEW c, c = g.creator PROVE Fine(i, f)'
  OBVIOUS
<1>1. f.id = g.id /\ f.others = g.others
  BY DEF Moves, Idle
<1>2. UNCHANGED <<room, loose>>
  BY DEF CreateCreator, history
<1>3. i \notin crossed' => i \notin crossed
  BY DEF CreateCreator, Cross
<1>4. g.id \in Ids /\ c \in Users /\ g.others \subseteq Users
  BY Creations DEF Creation
<1>5. /\ \A id \in Ids \ {g.id} : member'[id] = member[id]
      /\ \A u \in Users : member'[g.id][u] = IF u \in {c} THEN "admin" ELSE member[g.id][u]
  <2> DEFINE S == {c}
  <2>1. member' = Adding(g.id, S, "admin")
    BY DEF CreateCreator
  <2>2. S \in SUBSET Users
    BY <1>4
  <2> HIDE DEF S
  <2>3. /\ \A id \in Ids \ {g.id} : member'[id] = member[id]
        /\ \A u \in Users : member'[g.id][u] = IF u \in S THEN "admin" ELSE member[g.id][u]
    BY <1>4, <2>1, <2>2, Added
  <2> QED BY <2>3 DEF S
<1>6. ASSUME g.id \notin loose, NEW u \in Users, Has(g.id, u)' PROVE u = c
  <2>1. ~Has(g.id, u)
    BY <1>6 DEF Fine, Few
  <2> QED BY <1>5, <1>6, <2>1 DEF Has
<1>7. Few(f)'
  BY <1>1, <1>2, <1>6 DEF Few
<1>8. Direct(f.id)' => Direct(g.id)
  BY <1>1, <1>2 DEF Direct, Exists
<1>9. Two(f)'
  BY <1>1, <1>8 DEF Fine, Two, ForOther
<1>10. ASSUME i \notin crossed' PROVE Alone(f)'
  <2> SUFFICES ASSUME Direct(f.id)', f.id \notin loose', NEW u \in Users, Has(f.id, u)',
                      NEW v \in f.others, u # v
               PROVE  NoPair(u, v)'
    BY DEF Alone
  <2>1. u = c /\ v \in Users
    BY <1>1, <1>2, <1>4, <1>6 DEF Has
  <2>2. ForNew(g)
    BY <1>3, <1>8, <1>10 DEF Fine, Alone
  <2>3. NoPair(c, v)
    BY <1>1, <2>2 DEF ForNew
  <2>4. ASSUME NEW x \in Ids \ loose', Pair(x, c, v)' PROVE FALSE
    <3>1. CASE x = g.id
      <4>1. Has(g.id, v)' /\ g.id \notin loose
        BY <2>4, <3>1, <1>2 DEF Pair, Has
      <4> QED BY <1>6, <4>1, <2>1
    <3>2. CASE x # g.id
      <4>1. Pair(x, c, v)
        BY <2>4, <3>2, <1>2, <1>5 DEF Pair, Live, Direct, Exists, Has
      <4> QED BY <2>3, <2>4, <4>1, <1>2 DEF NoPair
    <3> QED BY <3>1, <3>2
  <2> QED BY <2>1, <2>4 DEF NoPair
<1> QED BY <1>7, <1>9, <1>10 DEF Fine

LEMMA AllFineStep ==
  RoomsTypes /\ RoomsTypes' /\ OneMaker /\ AllFine /\ [RoomsNext]_roomVars => AllFine'
<1> SUFFICES ASSUME RoomsTypes, RoomsTypes', OneMaker, AllFine, [RoomsNext]_roomVars,
                    NEW i \in Slots, NEW f, f = flight'[i]
             PROVE  Fine(i, f)'
  BY DEF AllFine
<1>1. CASE f = flight[i]
  <2>1. Fine(i, f) /\ Creation(f)
    BY <1>1, Creations DEF AllFine
  <2>2. i \notin crossed' => i \notin crossed
    BY <1>1, StaysCrossed
  <2>3. CASE Fades
    BY <2>1, <2>2, <2>3, FineFades
  <2>4. ASSUME NEW k \in Slots, Adds(k), ~Fades PROVE Fine(i, f)'
    <3>1. i # k
      <4>1. Moves(k) /\ flight[k].op \in {"creator", "others", "admit"}
        BY <2>4, Moved DEF Goes, Adds, CreateCreator, CreateOthers, Admit
      <4>2. flight'[k] # flight[k]
        BY <4>1 DEF Moves, Idle
      <4> QED BY <1>1, <4>2
    <3> QED BY <1>1, <2>1, <2>4, <3>1, FineCrossed
  <2>5. ASSUME \A k \in Slots : ~Adds(k) PROVE Fades
    BY <2>5, OthersAddNone DEF Fades
  <2> QED BY <2>3, <2>4, <2>5
<1>2. CASE f # flight[i] /\ f.op \in {"save", "creator", "others"}
  <2>1. Fine(i, flight[i])
    BY DEF AllFine
  <2>2. CASE Asked(i) /\ UNCHANGED <<made, room, member, loose>>
    BY <2>2, FineAsked
  <2>3. CASE flight[i].op = "save" /\ Moves(i) /\ CreateSave(i)
    <3>1. flight'[i].op = "creator"
      BY <1>2, <2>3 DEF Moves, Idle
    <3> QED BY <2>1, <2>3, <3>1, FineSaved
  <2>4. CASE flight[i].op = "creator" /\ Moves(i) /\ CreateCreator(i)
    <3>1. flight'[i].op = "others"
      BY <1>2, <2>4 DEF Moves, Idle
    <3> QED BY <2>1, <2>4, <3>1, FineCreator
  <2> QED BY <1>2, <2>2, <2>3, <2>4, Creating
<1>3. CASE f.op \notin {"save", "creator", "others"}
  BY <1>3 DEF Fine, Few, Two, Alone
<1> QED BY <1>1, <1>2, <1>3

LEMMA OneMakerStep == RoomsTypes /\ OneMaker /\ [RoomsNext]_roomVars => OneMaker'
<1> SUFFICES ASSUME RoomsTypes, OneMaker, [RoomsNext]_roomVars PROVE OneMaker'
  OBVIOUS
<1>0. \A i \in Slots : Making(i) => flight[i].id \in Ids /\ flight[i].id <= made
  BY Creations DEF Creation, Making
<1>1. ASSUME NEW k \in Slots, \A i \in Slots \ {k} : flight'[i] = flight[i],
             \/ flight'[k].op \notin {"creator", "others"}
             \/ Making(k) /\ flight'[k].id = flight[k].id
             \/ flight'[k].id = made + 1
      PROVE  OneMaker'
  <2>1. made \in Nat
    BY DEF RoomsTypes, RoomTypes
  <2>2. \A i \in Slots : Making(i) => flight[i].id # made + 1
    BY <1>0, <2>1 DEF Ids
  <2> QED BY <1>1, <2>2 DEF OneMaker, Making
<1>2. ASSUME NEW k \in Slots, Goes(k) PROVE OneMaker'
  <2>1. Moves(k) /\ \A i \in Slots \ {k} : flight'[i] = flight[i]
    BY <1>2, Moved
  <2>2. \/ flight'[k].op \notin {"creator", "others"}
        \/ Making(k) /\ flight'[k].id = flight[k].id
        \/ flight'[k].id = made + 1
    BY <2>1 DEF Moves, Making, Idle
  <2> QED BY <1>1, <2>1, <2>2
<1>3. ASSUME NEW k \in Slots, NEW u \in Users, Requests(k, u) PROVE OneMaker'
  <2>1. flight'[k].op \notin {"creator", "others"} /\ \A i \in Slots \ {k} : flight'[i] = flight[i]
    BY <1>3, Requested DEF Asked
  <2> QED BY <1>1, <2>1
<1>4. ASSUME NEW k \in Slots, NEW u \in Users, NEW x \in Ids, Leave(k, u, x) PROVE OneMaker'
  <2>1. flight'[k].op \notin {"creator", "others"} /\ \A i \in Slots \ {k} : flight'[i] = flight[i]
    BY <1>4, Left
  <2> QED BY <1>1, <2>1
<1>5. ASSUME flight' = flight PROVE OneMaker'
  BY <1>5 DEF OneMaker, Making
<1> QED BY <1>2, <1>3, <1>4, <1>5, RoomsSteps DEF roomVars, Talk

\* Two rooms of a pair, neither opened to others.
LEMMA OneRoomStep ==
  RoomsTypes /\ AllFine /\ OneRoom /\ [RoomsNext]_roomVars => OneRoom'
<1> SUFFICES ASSUME RoomsTypes, AllFine, OneRoom, [RoomsNext]_roomVars,
                    NEW i \in Ids \ loose', NEW j \in Ids \ loose',
                    NEW u \in Users, NEW v \in Users,
                    u # v, Pair(i, u, v)', Pair(j, u, v)'
             PROVE  i = j
  BY DEF OneRoom
<1>1. CASE Fades
  <2>1. Pair(i, u, v) /\ Pair(j, u, v) /\ loose' = loose
    BY <1>1, NoPairFades DEF Fades
  <2> QED BY <2>1 DEF OneRoom
<1>2. ASSUME NEW k \in Slots, Adds(k), ~Fades PROVE i = j
  <2>0. /\ ~(member' = member /\ loose' = loose)
        /\ room' = room /\ loose \subseteq loose'
        /\ \A id \in Ids, w \in Users : id # flight[k].id => member'[id][w] = member[id][w]
        /\ \/ flight[k].op = "creator" /\ loose' = loose
           \/ flight[k].op = "others"
           \/ flight[k].id \in loose'
    BY <1>2, AddsTo DEF Fades, Has
  <2>1. ASSUME NEW x \in Ids, Pair(x, u, v)', x # flight[k].id PROVE Pair(x, u, v)
    BY <2>0, <2>1 DEF Pair, Live, Direct, Exists, Has
  <2>2. ASSUME NEW x \in Ids \ loose', NEW y \in Ids \ loose', Pair(x, u, v)', Pair(y, u, v)',
               x = flight[k].id, y # x
        PROVE  FALSE
    <3> SUFFICES ASSUME NEW g, g = flight[k] PROVE FALSE
      OBVIOUS
    <3>0. Pair(y, u, v) /\ x \notin loose /\ y \notin loose /\ g.id = x
      BY <2>0, <2>1, <2>2
    <3>1. Has(x, u)' /\ Has(x, v)' /\ Direct(x)
      BY <2>0, <2>2 DEF Pair, Direct, Exists
    <3>2. Fine(k, g) /\ Creation(g)
      BY Creations DEF AllFine
    <3>3. CASE g.op = "creator"
      <4>1. CreateCreator(k)
        BY <1>2, <3>3 DEF Adds, CreateOthers, Admit
      <4> DEFINE S == {g.creator}
      <4>2. member' = Adding(x, S, "admin")
        BY <3>0, <4>1 DEF CreateCreator
      <4>3. S \in SUBSET Users
        BY <3>2, <3>3 DEF Creation
      <4>4. \A w \in Users : ~Has(x, w)
        BY <3>0, <3>2, <3>3 DEF Fine, Few
      <4> HIDE DEF S
      <4>5. \A w \in Users : member'[x][w] = IF w \in S THEN "admin" ELSE member[x][w]
        BY <4>2, <4>3, Added
      <4>6. u \in S /\ v \in S
        BY <3>1, <4>4, <4>5 DEF Has
      <4> QED BY <4>6 DEF S
    <3>4. CASE g.op = "others"
      <4>1. CreateOthers(k)
        BY <1>2, <3>4 DEF Adds, CreateCreator, Admit
      <4>0. member' = Adding(x, g.others, "member")
        BY <3>0, <4>1 DEF CreateOthers
      <4>2. k \notin crossed
        <5>1. loose' = IF k \in crossed THEN loose \cup {flight[k].id} ELSE loose
          BY <4>1 DEF CreateOthers
        <5> QED BY <2>2, <5>1
      <4>3. PICK w \in Users : g.others = {w}
        BY <3>0, <3>1, <3>2, <3>4 DEF Fine, Two
      <4>4. \A m \in Users : member'[x][m] = IF m \in g.others THEN "member" ELSE member[x][m]
        <5> DEFINE S == g.others
        <5>1. S \in SUBSET Users
          BY <4>3
        <5>2. member' = Adding(x, S, "member")
          BY <4>0
        <5> HIDE DEF S
        <5>3. \A m \in Users : member'[x][m] = IF m \in S THEN "member" ELSE member[x][m]
          BY <5>1, <5>2, Added
        <5> QED BY <5>3 DEF S
      <4>5. \A m \in Users : Has(x, m)' => Has(x, m) \/ m = w
        BY <4>3, <4>4 DEF Has
      <4>6. \A m, n \in Users : Has(x, m) /\ Has(x, n) => m = n
        BY <3>0, <3>2, <3>4 DEF Fine, Few
      <4>7. \A m \in Users : Has(x, m) /\ m # w => NoPair(m, w)
        BY <3>0, <3>1, <3>2, <3>4, <4>2, <4>3 DEF Fine, Alone
      <4>8. \A m \in Users : Has(x, m) /\ m # w => ~Pair(y, m, w)
        BY <3>0, <4>7 DEF NoPair
      <4>9. Pair(y, v, u)
        BY <3>0 DEF Pair
      <4>10. CASE u = w
        BY <1>2, <3>1, <4>5, <4>8, <4>9, <4>10
      <4>11. CASE u # w
        <5>1. Has(x, u) /\ v = w
          BY <3>1, <4>5, <4>6, <4>11
        <5> QED BY <3>0, <4>8, <4>11, <5>1
      <4> QED BY <4>10, <4>11
    <3> QED BY <2>0, <2>2, <3>3, <3>4
  <2>3. CASE i # flight[k].id /\ j # flight[k].id
    BY <2>0, <2>1, <2>3 DEF OneRoom
  <2> QED BY <2>2, <2>3
<1>3. ASSUME \A k \in Slots : ~Adds(k) PROVE Fades
  BY <1>3, OthersAddNone DEF Fades
<1> QED BY <1>1, <1>2, <1>3

RoomsInv == RoomsTypes /\ OneMaker /\ AllFine /\ OneRoom

\* Whoever asks for a direct room while another request does, two users share one room at
\* most that was theirs alone from the start: a second one takes a request that crossed the
\* first, between the search and the rows of its members (create, chat-room.service.ts,
\* lines 39-116).
THEOREM OneDirectRoomCorrect == RoomsSpec => []OneDirectRoom
<1>1. RoomsInit => RoomsInv
  <2> SUFFICES ASSUME RoomsInit PROVE RoomsInv
    OBVIOUS
  <2>1. RoomsTypes
    BY RoomsTypesInit
  <2>2. OneMaker
    BY DEF RoomsInit, OneMaker, Making, Idle
  <2>3. AllFine
    <3>1. \A k \in Slots : flight[k].op = "idle"
      BY DEF RoomsInit, Idle
    <3> QED BY <3>1 DEF AllFine, Fine, Few, Two, Alone
  <2>4. OneRoom
    BY DEF RoomsInit, OneRoom, Pair, Has, NoMembers
  <2> QED BY <2>1, <2>2, <2>3, <2>4 DEF RoomsInv
<1>2. RoomsInv /\ [RoomsNext]_roomVars => RoomsInv'
  BY RoomsTypesStep, OneMakerStep, AllFineStep, OneRoomStep DEF RoomsInv
<1>3. RoomsInv => OneDirectRoom
  BY PairIsBetween DEF RoomsInv, OneRoom, OneDirectRoom
<1> QED BY <1>1, <1>2, <1>3, PTL DEF RoomsSpec

-----------------------------------------------------------------------------
(* Reactions.                                                              *)

\* The rows of a request that is to tell everyone of them, or will read them first.
Tells(k) ==
  \/ request[k].op \in {"save", "group"}
  \/ request[k].op = "show" /\ request[k].for = People

\* What has been read and nothing overtook is what is stored, or somebody is to tell more.
ReadFresh ==
  \A k \in Toggles :
    request[k].op = "show" /\ k \notin rival =>
      request[k].groups = Grouped \/ \E i \in Toggles \ {k} : Tells(i)

\* So is what clients show.
ShownFresh == \A u \in People \ stale : screen[u] = Grouped \/ \E i \in Toggles : Tells(i)

RequestTable == request = [k \in Toggles |-> request[k]]
ReactionsInv == RequestTable /\ ReadFresh /\ ShownFresh

LEMMA Proceeded ==
  ASSUME RequestTable, NEW k \in Toggles, NEW r, Proceed(k, r)
  PROVE  /\ RequestTable' /\ request'[k] = r
         /\ \A i \in Toggles \ {k} : request'[i] = request[i]
BY DEF RequestTable, Proceed

\* A request that goes on to tell everyone, whatever it does to the rows.
LEMMA GoesOnToTell ==
  ASSUME ReactionsInv, NEW k \in Toggles, NEW r, Proceed(k, r), r.op \in {"save", "group"},
         UNCHANGED <<screen, rival, stale>>
  PROVE  ReactionsInv'
<1>1. /\ RequestTable' /\ request'[k] = r
      /\ \A i \in Toggles \ {k} : request'[i] = request[i]
  BY Proceeded DEF ReactionsInv
<1>2. Tells(k)'
  BY <1>1 DEF Tells
<1>3. ReadFresh'
  <2> SUFFICES ASSUME NEW i \in Toggles, request'[i].op = "show" PROVE i # k
    BY <1>2 DEF ReadFresh
  <2> QED BY <1>1
<1>4. ShownFresh'
  BY <1>2 DEF ShownFresh
<1> QED BY <1>1, <1>3, <1>4 DEF ReactionsInv

\* The rows are read, for everyone or for the one who asks.
LEMMA GroupsRead ==
  ASSUME ReactionsInv, NEW k \in Toggles, NEW for, ReadGroups(k, for), Tells(k) => for = People,
         UNCHANGED <<row, screen, stale>>
  PROVE  ReactionsInv'
<1>1. /\ request'[k].op = "show" /\ request'[k].for = for
      /\ k \notin rival' => request'[k].groups = Grouped
      /\ \A i \in Toggles \ {k} : i \notin rival' => i \notin rival
      /\ \A i \in Toggles \ {k} : request'[i] = request[i]
      /\ RequestTable'
  <2>1. CASE Proceed(k, [op |-> "show", for |-> for, groups |-> Grouped]) /\ rival' = rival \ {k}
    <3> DEFINE r == [op |-> "show", for |-> for, groups |-> Grouped]
    <3>1. r.op = "show" /\ r.for = for /\ r.groups = Grouped
      OBVIOUS
    <3>2. Proceed(k, r)
      BY <2>1
    <3> HIDE DEF r
    <3> QED BY <2>1, <3>1, <3>2, Proceeded DEF ReactionsInv
  <2>2. CASE Proceed(k, [op |-> "show", for |-> for, groups |-> Nobody]) /\ rival' = rival \cup {k}
    <3> DEFINE r == [op |-> "show", for |-> for, groups |-> Nobody]
    <3>1. r.op = "show" /\ r.for = for
      OBVIOUS
    <3>2. Proceed(k, r)
      BY <2>2
    <3> HIDE DEF r
    <3> QED BY <2>2, <3>1, <3>2, Proceeded DEF ReactionsInv
  <2> QED BY <2>1, <2>2 DEF ReadGroups
<1>2. Grouped' = Grouped
  BY DEF Grouped
<1>3. \A i \in Toggles : Tells(i) => Tells(i)'
  BY <1>1 DEF Tells
<1>4. ReadFresh'
  <2> SUFFICES ASSUME NEW j \in Toggles, request'[j].op = "show", j \notin rival'
               PROVE  \/ request'[j].groups = Grouped'
                      \/ \E i \in Toggles \ {j} : Tells(i)'
    BY DEF ReadFresh
  <2>1. CASE j = k
    BY <1>1, <1>2, <2>1
  <2>2. CASE j # k
    BY <1>1, <1>2, <1>3, <2>2 DEF ReadFresh, ReactionsInv
  <2> QED BY <2>1, <2>2
<1>5. ShownFresh'
  BY <1>2, <1>3 DEF ShownFresh, ReactionsInv
<1> QED BY <1>1, <1>4, <1>5 DEF ReactionsInv

LEMMA ShowStep == ASSUME ReactionsInv, NEW k \in Toggles, Show(k) PROVE ReactionsInv'
<1> DEFINE r == request[k]
<1>1. /\ RequestTable' /\ request'[k].op = "free"
      /\ \A i \in Toggles \ {k} : request'[i] = request[i]
  BY Proceeded DEF ReactionsInv, Show, Free
<1>2. Grouped' = Grouped
  BY DEF Grouped, Show
<1>3. \A i \in Toggles : Tells(i)' <=> i # k /\ Tells(i)
  BY <1>1 DEF Tells
<1>4. /\ r.op = "show"
      /\ screen' = [u \in People |-> IF u \in r.for THEN r.groups ELSE screen[u]]
      /\ stale' = IF k \in rival THEN stale \cup r.for ELSE stale \ r.for
      /\ rival' = IF r.for = People THEN rival \cup Underway(k) ELSE rival
  BY DEF Show
<1>5. ReadFresh'
  <2> SUFFICES ASSUME NEW j \in Toggles, request'[j].op = "show", j \notin rival'
               PROVE  \/ request'[j].groups = Grouped'
                      \/ \E i \in Toggles \ {j} : Tells(i)'
    BY DEF ReadFresh
  <2>1. j # k /\ request'[j] = request[j]
    BY <1>1
  <2>2. r.for # People /\ j \notin rival
    BY <1>4, <2>1 DEF Underway
  <2>3. ~Tells(k)
    BY <1>4, <2>2 DEF Tells
  <2>4. request[j].groups = Grouped \/ \E i \in Toggles \ {j} : Tells(i)
    BY <2>1, <2>2 DEF ReactionsInv, ReadFresh
  <2> QED BY <1>2, <1>3, <2>1, <2>3, <2>4
<1>6. ShownFresh'
  <2> SUFFICES ASSUME NEW u \in People, u \notin stale', \A i \in Toggles : ~Tells(i)'
               PROVE  screen'[u] = Grouped
    BY <1>2 DEF ShownFresh
  <2>1. CASE u \in r.for
    <3>1. k \notin rival /\ screen'[u] = r.groups
      BY <1>4, <2>1
    <3>2. r.groups = Grouped \/ \E i \in Toggles \ {k} : Tells(i)
      BY <1>4, <3>1 DEF ReactionsInv, ReadFresh
    <3> QED BY <1>3, <3>1, <3>2
  <2>2. CASE u \notin r.for
    <3>1. u \notin stale /\ screen'[u] = screen[u] /\ ~Tells(k)
      BY <1>4, <2>2 DEF Tells
    <3> QED BY <1>3, <3>1 DEF ReactionsInv, ShownFresh
  <2> QED BY <2>1, <2>2
<1> QED BY <1>1, <1>5, <1>6 DEF ReactionsInv

LEMMA ReactionsInvStep == ReactionsInv /\ [ReactionsNext]_reactionVars => ReactionsInv'
<1> SUFFICES ASSUME ReactionsInv, [ReactionsNext]_reactionVars PROVE ReactionsInv'
  OBVIOUS
<1>1. ASSUME NEW k \in Toggles, NEW u \in People, NEW e \in Emojis, ToggleFind(k, u, e)
      PROVE  ReactionsInv'
  <2> DEFINE r == [op |-> IF row[u] = NoRow THEN "save" ELSE "delete",
                   user |-> u, emoji |-> e, found |-> row[u]]
  <2>1. r.op \in {"save", "delete"}
    OBVIOUS
  <2>2. Proceed(k, r) /\ request[k] = Free /\ UNCHANGED <<row, screen, rival, stale>>
    BY <1>1 DEF ToggleFind
  <2> HIDE DEF r
  <2>3. /\ RequestTable' /\ request'[k] = r
        /\ \A i \in Toggles \ {k} : request'[i] = request[i]
    BY <2>2, Proceeded DEF ReactionsInv
  <2>4. ~Tells(k) /\ \A i \in Toggles : Tells(i) => Tells(i)'
    BY <2>2, <2>3 DEF Tells, Free
  <2>5. Grouped' = Grouped
    BY <2>2 DEF Grouped
  <2>6. ReadFresh'
    BY <2>1, <2>2, <2>3, <2>4, <2>5 DEF ReactionsInv, ReadFresh
  <2>7. ShownFresh'
    BY <2>2, <2>4, <2>5 DEF ReactionsInv, ShownFresh
  <2> QED BY <2>3, <2>6, <2>7 DEF ReactionsInv
<1>2. ASSUME NEW k \in Toggles, NEW u \in People, LoadMessages(k, u) PROVE ReactionsInv'
  <2>1. ReadGroups(k, {u}) /\ UNCHANGED <<row, screen, stale>> /\ request[k] = Free
    BY <1>2 DEF LoadMessages
  <2>2. ~Tells(k)
    BY <2>1 DEF Tells, Free
  <2> QED BY <2>1, <2>2, GroupsRead
<1>3. ASSUME NEW k \in Toggles, ToggleDelete(k) PROVE ReactionsInv'
  <2> DEFINE r == [op |-> IF request[k].found.emoji = request[k].emoji THEN "group" ELSE "save",
                   user |-> request[k].user, emoji |-> request[k].emoji]
  <2>1. r.op \in {"save", "group"}
    OBVIOUS
  <2>2. Proceed(k, r) /\ UNCHANGED <<screen, rival, stale>>
    BY <1>3 DEF ToggleDelete
  <2> HIDE DEF r
  <2> QED BY <2>1, <2>2, GoesOnToTell
<1>4. ASSUME NEW k \in Toggles, ToggleSave(k) PROVE ReactionsInv'
  <2> DEFINE r == [op |-> "group", user |-> request[k].user, emoji |-> request[k].emoji]
  <2>1. r.op = "group"
    OBVIOUS
  <2>2. Proceed(k, r) /\ UNCHANGED <<screen, rival, stale>>
    BY <1>4 DEF ToggleSave
  <2> HIDE DEF r
  <2> QED BY <2>1, <2>2, GoesOnToTell
<1>5. ASSUME NEW k \in Toggles, ToggleFails(k) PROVE ReactionsInv'
  <2>1. /\ Proceed(k, Free) /\ rival' = rival \cup Underway(k) /\ stale' = People
        /\ UNCHANGED <<row, screen>>
    BY <1>5 DEF ToggleFails
  <2>2. /\ RequestTable' /\ request'[k] = Free
        /\ \A i \in Toggles \ {k} : request'[i] = request[i]
    BY <2>1, Proceeded DEF ReactionsInv
  <2>3. ReadFresh'
    BY <2>1, <2>2 DEF ReadFresh, Underway, Free
  <2>4. ShownFresh'
    BY <2>1 DEF ShownFresh
  <2> QED BY <2>2, <2>3, <2>4 DEF ReactionsInv
<1>6. ASSUME NEW k \in Toggles, ToggleGroup(k) PROVE ReactionsInv'
  BY <1>6, GroupsRead DEF ToggleGroup
<1>7. ASSUME NEW k \in Toggles, Show(k) PROVE ReactionsInv'
  BY <1>7, ShowStep
<1>8. CASE UNCHANGED reactionVars
  BY <1>8 DEF reactionVars, ReactionsInv, RequestTable, ReadFresh, ShownFresh, Tells, Grouped
<1> QED BY <1>1, <1>2, <1>3, <1>4, <1>5, <1>6, <1>7, <1>8 DEF ReactionsNext

\* However the toggles of a message and the loads of its room overlap, once none is under way
\* a client that was last told by a broadcast nothing overtook shows the rows that are stored
\* (message-reactions.service.ts, lines 31-60).
THEOREM ReactionsShownCorrect == ReactionsSpec => []ReactionsShown
<1>1. ReactionsInit => ReactionsInv
  <2> SUFFICES ASSUME ReactionsInit PROVE ReactionsInv
    OBVIOUS
  <2>1. \A k \in Toggles : request[k].op = "free"
    BY DEF ReactionsInit, Free
  <2>2. \A u \in People : screen[u] = Grouped
    BY DEF ReactionsInit, Grouped, Nobody
  <2> QED BY <2>1, <2>2 DEF ReactionsInit, ReactionsInv, RequestTable, ReadFresh, ShownFresh
<1>2. ReactionsInv => ReactionsShown
  <2> SUFFICES ASSUME ReactionsInv, \A k \in Toggles : request[k] = Free,
                      NEW u \in People \ stale
               PROVE  screen[u] = Grouped
    BY DEF ReactionsShown
  <2>1. \A k \in Toggles : ~Tells(k)
    BY DEF Tells, Free
  <2> QED BY <2>1 DEF ReactionsInv, ShownFresh
<1> QED BY <1>1, <1>2, ReactionsInvStep, PTL DEF ReactionsSpec

-----------------------------------------------------------------------------
(* Sections.                                                               *)

SectionOrders ==
  {Resting}
    \cup [op: {"look", "put", "take"}, section: SectionIds, resource: Resources]
    \cup [op: {"drop"}, section: SectionIds, resource: Resources, id: Nat]
    \cup [op: {"clear"}, section: SectionIds]
    \cup [op: {"save"}, section: SectionIds, read: [Resources -> Nat]]

SectionTypes ==
  /\ item \in [SectionIds -> [Resources -> Nat]]
  /\ items \in Nat
  /\ order \in [Clerks -> SectionOrders]

Unlucky == doubled \cup revived

Single ==
  \A r \in Resources \ Unlucky : \A s, t \in SectionIds :
    item[s][r] # 0 /\ item[t][r] # 0 => s = t

\* An add that no other overtook has found the one row there is, and then deleted it.
FoundAll ==
  \A k \in Clerks \ beaten :
    /\ order[k].op = "drop" /\ order[k].resource \notin Unlucky =>
         \A s \in SectionIds : item[s][order[k].resource] \in {0, order[k].id}
    /\ order[k].op = "put" /\ order[k].resource \notin Unlucky =>
         \A s \in SectionIds : item[s][order[k].resource] = 0

SectionsInv == SectionTypes /\ Single /\ FoundAll

\* What the operation of an order says of it.
LEMMA OrderFields ==
  ASSUME NEW o \in SectionOrders
  PROVE  /\ o.op \in {"look", "put", "take", "drop"} =>
              o.section \in SectionIds /\ o.resource \in Resources
         /\ o.op = "drop" => o.id \in Nat
         /\ o.op \in {"clear", "save"} => o.section \in SectionIds
         /\ o.op = "save" => o.read \in [Resources -> Nat]
<1>1. CASE o = Resting
  BY <1>1 DEF Resting
<1>2. CASE o \in [op: {"look", "put", "take"}, section: SectionIds, resource: Resources]
  BY <1>2
<1>3. CASE o \in [op: {"drop"}, section: SectionIds, resource: Resources, id: Nat]
  BY <1>3
<1>4. CASE o \in [op: {"clear"}, section: SectionIds]
  BY <1>4
<1>5. CASE o \in [op: {"save"}, section: SectionIds, read: [Resources -> Nat]]
  BY <1>5
<1> QED BY <1>1, <1>2, <1>3, <1>4, <1>5 DEF SectionOrders

LEMMA OrderShapes ==
  /\ Resting \in SectionOrders /\ Resting.op = "resting"
  /\ \A s \in SectionIds, r \in Resources :
       /\ [op |-> "look", section |-> s, resource |-> r] \in SectionOrders
       /\ [op |-> "put", section |-> s, resource |-> r] \in SectionOrders
       /\ [op |-> "take", section |-> s, resource |-> r] \in SectionOrders
       /\ \A n \in Nat :
            [op |-> "drop", section |-> s, resource |-> r, id |-> n] \in SectionOrders
  /\ \A s \in SectionIds :
       /\ [op |-> "clear", section |-> s] \in SectionOrders
       /\ \A read \in [Resources -> Nat] :
            [op |-> "save", section |-> s, read |-> read] \in SectionOrders
BY DEF SectionOrders, Resting

LEMMA Passed ==
  ASSUME SectionTypes, NEW k \in Clerks, NEW o \in SectionOrders, Pass(k, o) \/ Take(k, o)
  PROVE  /\ order' \in [Clerks -> SectionOrders] /\ order'[k] = o
         /\ \A i \in Clerks \ {k} : order'[i] = order[i]
BY DEF SectionTypes, Pass, Take

\* A step that puts nothing anywhere, but for what it marks as unlucky.
LEMMA Removes ==
  ASSUME SectionsInv, SectionTypes', NEW k \in Clerks,
         \A i \in Clerks \ {k} : order'[i] = order[i],
         order'[k] = order[k] \/ order'[k].op \notin {"drop", "put"},
         beaten \subseteq beaten', Unlucky \subseteq Unlucky',
         \A r \in Resources \ Unlucky', s \in SectionIds : item'[s][r] \in {item[s][r], 0}
  PROVE  SectionsInv'
<1>1. Single'
  BY DEF Single, SectionsInv
<1>2. FoundAll'
  <2> SUFFICES ASSUME NEW i \in Clerks \ beaten', NEW o, o = order'[i],
                      o.op \in {"drop", "put"}, o.resource \notin Unlucky',
                      NEW s \in SectionIds
               PROVE  /\ o.op = "drop" => item'[s][o.resource] \in {0, o.id}
                      /\ o.op = "put" => item'[s][o.resource] = 0
    BY DEF FoundAll
  <2>1. order[i] = o /\ i \notin beaten /\ o.resource \notin Unlucky
    OBVIOUS
  <2>2. o.resource \in Resources
    BY OrderFields DEF SectionTypes
  <2>3. /\ o.op = "drop" => item[s][o.resource] \in {0, o.id}
        /\ o.op = "put" => item[s][o.resource] = 0
    BY <2>1 DEF SectionsInv, FoundAll
  <2> QED BY <2>1, <2>2, <2>3
<1> QED BY <1>1, <1>2 DEF SectionsInv

\* The user's row of the resource is looked up.
LEMMA AddFindStep == ASSUME SectionsInv, NEW k \in Clerks, AddFind(k) PROVE SectionsInv'
<1> SUFFICES ASSUME NEW o, o = order[k], NEW x, x = o.resource PROVE SectionsInv'
  OBVIOUS
<1>0. o.op = "look" /\ o.section \in SectionIds /\ x \in Resources /\ SectionTypes
  BY OrderFields DEF AddFind, SectionsInv, SectionTypes
<1>1. beaten' = beaten \ {k} /\ UNCHANGED <<stored, section, item, items, doubled, revived>>
  BY DEF AddFind
<1>2. Single' /\ Unlucky' = Unlucky
  BY <1>1 DEF SectionsInv, Single, Unlucky
<1>3. ASSUME NEW o2 \in SectionOrders, Pass(k, o2), o2.op \in {"put", "drop"}, o2.resource = x,
             x \notin Unlucky => \A s \in SectionIds :
               /\ o2.op = "drop" => item[s][x] \in {0, o2.id}
               /\ o2.op = "put" => item[s][x] = 0
      PROVE  SectionsInv'
  <2>1. /\ order' \in [Clerks -> SectionOrders] /\ order'[k] = o2
        /\ \A i \in Clerks \ {k} : order'[i] = order[i]
    BY <1>0, <1>3, Passed
  <2>2. SectionTypes'
    BY <1>0, <1>1, <2>1 DEF SectionTypes
  <2>3. FoundAll'
    <3> SUFFICES ASSUME NEW i \in Clerks \ beaten', NEW p, p = order'[i],
                        p.resource \notin Unlucky, NEW s \in SectionIds
                 PROVE  /\ p.op = "drop" => item[s][p.resource] \in {0, p.id}
                        /\ p.op = "put" => item[s][p.resource] = 0
      BY <1>1, <1>2 DEF FoundAll
    <3>1. CASE i = k
      BY <1>3, <2>1, <3>1
    <3>2. CASE i # k
      <4>1. p = order[i] /\ i \notin beaten
        BY <1>1, <2>1, <3>2
      <4> QED BY <4>1 DEF SectionsInv, FoundAll
    <3> QED BY <3>1, <3>2
  <2> QED BY <1>2, <2>2, <2>3 DEF SectionsInv
<1>4. CASE PlacesOf(x) = {}
  <2> DEFINE o2 == [op |-> "put", section |-> o.section, resource |-> x]
  <2>1. o2 \in SectionOrders /\ o2.op = "put" /\ o2.resource = x
    BY <1>0, OrderShapes
  <2>2. Pass(k, o2)
    BY <1>4 DEF AddFind
  <2>3. \A s \in SectionIds : item[s][x] = 0
    BY <1>4 DEF PlacesOf
  <2> HIDE DEF o2
  <2> QED BY <1>3, <2>1, <2>2, <2>3
<1>5. CASE PlacesOf(x) # {}
  <2>1. PICK t \in PlacesOf(x) :
          Pass(k, [op |-> "drop", section |-> o.section, resource |-> x, id |-> item[t][x]])
    BY <1>5 DEF AddFind
  <2> DEFINE o2 == [op |-> "drop", section |-> o.section, resource |-> x, id |-> item[t][x]]
  <2>2. t \in SectionIds /\ item[t][x] # 0 /\ item[t][x] \in Nat
    BY <1>0 DEF PlacesOf, SectionTypes
  <2>3. o2 \in SectionOrders /\ o2.op = "drop" /\ o2.resource = x /\ o2.id = item[t][x]
    BY <1>0, <2>2, OrderShapes
  <2>4. x \notin Unlucky => \A s \in SectionIds : item[s][x] \in {0, item[t][x]}
    BY <1>0, <2>2 DEF SectionsInv, Single
  <2>5. Pass(k, o2)
    BY <2>1
  <2> HIDE DEF o2
  <2> QED BY <1>3, <2>3, <2>4, <2>5
<1> QED BY <1>4, <1>5

\* The row found goes; another that came meanwhile stays, but then the request is beaten.
LEMMA AddDropStep == ASSUME SectionsInv, NEW k \in Clerks, AddDrop(k) PROVE SectionsInv'
<1> SUFFICES ASSUME NEW o, o = order[k], NEW x, x = o.resource PROVE SectionsInv'
  OBVIOUS
<1>0. o.op = "drop" /\ o.section \in SectionIds /\ x \in Resources /\ SectionTypes
  BY OrderFields DEF AddDrop, SectionsInv, SectionTypes
<1> DEFINE o2 == [op |-> "put", section |-> o.section, resource |-> x]
<1>1. o2 \in SectionOrders /\ o2.op = "put" /\ o2.resource = x
  BY <1>0, OrderShapes
<1>2. /\ Pass(k, o2) /\ UNCHANGED <<stored, section, items, beaten, doubled, revived>>
      /\ item' = [s \in SectionIds |->
           [r \in Resources |-> IF item[s][r] = o.id THEN 0 ELSE item[s][r]]]
  BY DEF AddDrop
<1> HIDE DEF o2
<1>3. /\ order' \in [Clerks -> SectionOrders] /\ order'[k] = o2
      /\ \A i \in Clerks \ {k} : order'[i] = order[i]
  BY <1>0, <1>1, <1>2, Passed
<1>4. \A s \in SectionIds, r \in Resources :
        item'[s][r] = IF item[s][r] = o.id THEN 0 ELSE item[s][r]
  BY <1>2
<1>5. SectionTypes' /\ Unlucky' = Unlucky
  BY <1>0, <1>2, <1>3 DEF SectionTypes, Unlucky
<1>6. Single'
  BY <1>4, <1>5 DEF SectionsInv, Single
<1>7. FoundAll'
  <2> SUFFICES ASSUME NEW i \in Clerks \ beaten, NEW p, p = order'[i],
                      p.op \in {"drop", "put"}, p.resource \notin Unlucky, NEW s \in SectionIds
               PROVE  /\ p.op = "drop" => item'[s][p.resource] \in {0, p.id}
                      /\ p.op = "put" => item'[s][p.resource] = 0
    BY <1>2, <1>5 DEF FoundAll
  <2>1. CASE i = k
    <3>1. p.resource = x /\ p.op = "put"
      BY <1>1, <1>3, <2>1
    <3>2. item[s][x] \in {0, o.id}
      BY <1>0, <2>1, <3>1 DEF SectionsInv, FoundAll
    <3> QED BY <1>0, <1>4, <3>1, <3>2
  <2>2. CASE i # k
    <3>1. p = order[i] /\ p.resource \in Resources
      BY <1>0, <1>3, <2>2, OrderFields DEF SectionTypes
    <3>2. /\ p.op = "drop" => item[s][p.resource] \in {0, p.id}
          /\ p.op = "put" => item[s][p.resource] = 0
      BY <3>1 DEF SectionsInv, FoundAll
    <3> QED BY <1>4, <3>1, <3>2
  <2> QED BY <2>1, <2>2
<1> QED BY <1>5, <1>6, <1>7 DEF SectionsInv

\* The row is put: the first of the resource, unless another add got in between.
LEMMA AddPutStep == ASSUME SectionsInv, NEW k \in Clerks, AddPut(k) PROVE SectionsInv'
<1> SUFFICES ASSUME NEW o, o = order[k], NEW x, x = o.resource PROVE SectionsInv'
  OBVIOUS
<1>0. o.op = "put" /\ o.section \in SectionIds /\ x \in Resources /\ SectionTypes
  BY OrderFields DEF AddPut, SectionsInv, SectionTypes
<1>1. /\ Pass(k, Resting) /\ UNCHANGED <<stored, section, revived>> /\ items' = items + 1
      /\ item' = [item EXCEPT ![o.section][x] = items']
      /\ doubled' = IF k \in beaten THEN doubled \cup {x} ELSE doubled
      /\ beaten' = beaten \cup
           {i \in Clerks \ {k} : order[i].op \in {"drop", "put"} /\ order[i].resource = x}
  BY DEF AddPut
<1>2. /\ order' \in [Clerks -> SectionOrders] /\ order'[k] = Resting
      /\ \A i \in Clerks \ {k} : order'[i] = order[i]
  BY <1>0, <1>1, Passed, OrderShapes
<1>3. SectionTypes'
  BY <1>0, <1>1, <1>2 DEF SectionTypes
<1>4. \A s \in SectionIds, r \in Resources :
        ~(s = o.section /\ r = x) => item'[s][r] = item[s][r]
  BY <1>0, <1>1 DEF SectionTypes
<1>5. Unlucky \subseteq Unlucky' /\ (x \notin Unlucky' => k \notin beaten)
  BY <1>1 DEF Unlucky
<1>6. x \notin Unlucky' => \A s \in SectionIds : item[s][x] = 0
  BY <1>0, <1>5 DEF SectionsInv, FoundAll
<1>7. Single'
  BY <1>4, <1>5, <1>6 DEF SectionsInv, Single
<1>8. FoundAll'
  <2> SUFFICES ASSUME NEW i \in Clerks \ beaten', NEW p, p = order'[i],
                      p.op \in {"drop", "put"}, p.resource \notin Unlucky', NEW s \in SectionIds
               PROVE  /\ p.op = "drop" => item'[s][p.resource] \in {0, p.id}
                      /\ p.op = "put" => item'[s][p.resource] = 0
    BY DEF FoundAll
  <2>1. i # k
    BY <1>2, OrderShapes
  <2>2. p = order[i] /\ p.resource \in Resources
    BY <1>0, <1>2, <2>1, OrderFields DEF SectionTypes
  <2>3. p.resource # x /\ i \notin beaten /\ p.resource \notin Unlucky
    BY <1>1, <1>5, <2>1, <2>2
  <2>4. /\ p.op = "drop" => item[s][p.resource] \in {0, p.id}
        /\ p.op = "put" => item[s][p.resource] = 0
    BY <2>2, <2>3 DEF SectionsInv, FoundAll
  <2> QED BY <1>4, <2>2, <2>3, <2>4
<1> QED BY <1>3, <1>7, <1>8 DEF SectionsInv

\* update puts back what has gone, and nothing else.
LEMMA SaveSectionStep == ASSUME SectionsInv, NEW k \in Clerks, SaveSection(k) PROVE SectionsInv'
<1> SUFFICES ASSUME NEW o, o = order[k] PROVE SectionsInv'
  OBVIOUS
<1>0. o.op = "save" /\ o.section \in SectionIds /\ o.read \in [Resources -> Nat] /\ SectionTypes
  BY OrderFields DEF SaveSection, SectionsInv, SectionTypes
<1>1. /\ Pass(k, Resting) /\ UNCHANGED <<stored, items, beaten, doubled>>
  BY DEF SaveSection
<1>2. /\ order' \in [Clerks -> SectionOrders] /\ order'[k] = Resting
      /\ \A i \in Clerks \ {k} : order'[i] = order[i]
  BY <1>0, <1>1, Passed, OrderShapes
<1>3. CASE \E r \in Resources : item[o.section][r] \notin {0, o.read[r]}
  <2>1. UNCHANGED <<section, item, revived>>
    BY <1>3 DEF SaveSection
  <2>2. SectionTypes'
    BY <1>0, <1>1, <1>2, <2>1 DEF SectionTypes
  <2> QED BY <1>1, <1>2, <2>1, <2>2, Removes, OrderShapes DEF Unlucky
<1>4. CASE \A r \in Resources : item[o.section][r] \in {0, o.read[r]}
  <2>1. /\ section' = section \cup {o.section}
        /\ item' = [item EXCEPT ![o.section] = o.read]
        /\ revived' = revived \cup
             {r \in Resources : o.read[r] # 0 /\ item[o.section][r] = 0}
    BY <1>4 DEF SaveSection
  <2>2. SectionTypes'
    BY <1>0, <1>1, <1>2, <2>1 DEF SectionTypes
  <2>3. Unlucky \subseteq Unlucky'
    BY <1>1, <2>1 DEF Unlucky
  <2>4. ASSUME NEW r \in Resources \ Unlucky', NEW s \in SectionIds
        PROVE  item'[s][r] \in {item[s][r], 0}
    <3>1. CASE s # o.section
      BY <1>0, <2>1, <3>1 DEF SectionTypes
    <3>2. CASE s = o.section
      <4>1. item'[s][r] = o.read[r]
        BY <1>0, <2>1, <3>2 DEF SectionTypes
      <4>2. ~(o.read[r] # 0 /\ item[s][r] = 0)
        BY <2>1, <2>4, <3>2 DEF Unlucky
      <4> QED BY <1>4, <3>2, <4>1, <4>2
    <3> QED BY <3>1, <3>2
  <2> QED BY <1>1, <1>2, <2>2, <2>3, <2>4, Removes, OrderShapes
<1> QED BY <1>3, <1>4

LEMMA SectionsInvStep == SectionsInv /\ [SectionsNext]_sectionVars => SectionsInv'
<1> SUFFICES ASSUME SectionsInv, [SectionsNext]_sectionVars PROVE SectionsInv'
  OBVIOUS
<1>0. SectionTypes
  BY DEF SectionsInv
<1>1. ASSUME NEW k \in Clerks, NEW o \in SectionOrders, Take(k, o) \/ Pass(k, o),
             o.op \notin {"drop", "put"}, UNCHANGED <<item, items, beaten, doubled, revived>>
      PROVE  SectionsInv'
  <2>1. /\ order' \in [Clerks -> SectionOrders] /\ order'[k] = o
        /\ \A i \in Clerks \ {k} : order'[i] = order[i]
    BY <1>0, <1>1, Passed
  <2>2. SectionTypes'
    BY <1>0, <1>1, <2>1 DEF SectionTypes
  <2> QED BY <1>1, <2>1, <2>2, Removes DEF Unlucky
<1>2. ASSUME UNCHANGED <<item, items, order, beaten, doubled, revived>> PROVE SectionsInv'
  BY <1>0, <1>2 DEF SectionsInv, SectionTypes, Single, FoundAll, Unlucky
<1>3. CASE CreateSection
  BY <1>2, <1>3 DEF CreateSection
<1>4. ASSUME NEW k \in Clerks, NEW s \in SectionIds, NEW r \in Resources,
             AddItem(k, s, r) \/ RemoveItem(k, s, r)
      PROVE  SectionsInv'
  <2>1. CASE AddItem(k, s, r)
    <3> DEFINE o == [op |-> "look", section |-> s, resource |-> r]
    <3>1. o \in SectionOrders /\ o.op = "look"
      BY OrderShapes
    <3>2. Take(k, o) /\ UNCHANGED <<item, items, beaten, doubled, revived>>
      BY <2>1 DEF AddItem
    <3> HIDE DEF o
    <3> QED BY <1>1, <3>1, <3>2
  <2>2. CASE RemoveItem(k, s, r)
    <3> DEFINE o == [op |-> "take", section |-> s, resource |-> r]
    <3>1. o \in SectionOrders /\ o.op = "take"
      BY OrderShapes
    <3>2. Take(k, o) /\ UNCHANGED <<item, items, beaten, doubled, revived>>
      BY <2>2 DEF RemoveItem
    <3> HIDE DEF o
    <3> QED BY <1>1, <3>1, <3>2
  <2> QED BY <1>4, <2>1, <2>2
<1>5. ASSUME NEW k \in Clerks, NEW s \in SectionIds, RemoveSection(k, s) \/ UpdateSection(k, s)
      PROVE  SectionsInv'
  <2>1. CASE RemoveSection(k, s)
    <3> DEFINE o == [op |-> "clear", section |-> s]
    <3>1. o \in SectionOrders /\ o.op = "clear"
      BY OrderShapes
    <3>2. Take(k, o) /\ UNCHANGED <<item, items, beaten, doubled, revived>>
      BY <2>1 DEF RemoveSection
    <3> HIDE DEF o
    <3> QED BY <1>1, <3>1, <3>2
  <2>2. CASE UpdateSection(k, s)
    <3> DEFINE o == [op |-> "save", section |-> s, read |-> item[s]]
    <3>1. o \in SectionOrders /\ o.op = "save"
      BY <1>0, OrderShapes DEF SectionTypes
    <3>2. Take(k, o) /\ UNCHANGED <<item, items, beaten, doubled, revived>>
      BY <2>2 DEF UpdateSection
    <3> HIDE DEF o
    <3> QED BY <1>1, <3>1, <3>2
  <2> QED BY <1>5, <2>1, <2>2
<1>6. ASSUME NEW k \in Clerks, AddFails(k) PROVE SectionsInv'
  BY <1>1, <1>6, OrderShapes DEF AddFails
<1>7. ASSUME NEW k \in Clerks, DeleteItem(k) \/ DeleteSection(k) PROVE SectionsInv'
  <2>1. Pass(k, Resting) /\ UNCHANGED <<items, beaten, doubled, revived>>
    BY <1>7 DEF DeleteItem, DeleteSection
  <2>2. /\ order' \in [Clerks -> SectionOrders] /\ order'[k] = Resting
        /\ \A i \in Clerks \ {k} : order'[i] = order[i]
    BY <1>0, <2>1, Passed, OrderShapes
  <2>3. /\ item' \in [SectionIds -> [Resources -> Nat]]
        /\ \A r \in Resources, s \in SectionIds : item'[s][r] \in {item[s][r], 0}
    <3>1. CASE DeleteItem(k)
      BY <1>0, <3>1 DEF DeleteItem, SectionTypes
    <3>2. CASE DeleteSection(k)
      BY <1>0, <3>2 DEF DeleteSection, SectionTypes, NoItems
    <3> QED BY <1>7, <3>1, <3>2
  <2>4. SectionTypes'
    BY <1>0, <2>1, <2>2, <2>3 DEF SectionTypes
  <2> QED BY <2>1, <2>2, <2>3, <2>4, Removes, OrderShapes DEF Unlucky
<1>8. CASE UNCHANGED sectionVars
  BY <1>2, <1>8 DEF sectionVars
<1> QED BY <1>3, <1>4, <1>5, <1>6, <1>7, <1>8, AddFindStep, AddDropStep, AddPutStep,
           SaveSectionStep DEF SectionsNext

\* However the requests of one user overlap, a meeting or a room is in two sections only if
\* two adds of it crossed, or an update put back what had gone (room-sections.service.ts,
\* lines 80-200).
THEOREM InOneSectionCorrect == SectionsSpec => []InOneSection
<1>1. SectionsInit => SectionsInv
  <2> SUFFICES ASSUME SectionsInit PROVE SectionsInv
    OBVIOUS
  <2>1. SectionTypes
    BY OrderShapes DEF SectionsInit, SectionTypes, NoItems
  <2>2. Single /\ FoundAll
    BY DEF SectionsInit, Single, FoundAll, NoItems, Resting
  <2> QED BY <2>1, <2>2 DEF SectionsInv
<1>2. SectionsInv => InOneSection
  <2> SUFFICES ASSUME SectionsInv, NEW r \in Resources \ (doubled \cup revived)
               PROVE  Cardinality(PlacesOf(r)) <= 1
    BY DEF InOneSection
  <2>1. CASE PlacesOf(r) = {}
    BY <2>1, FS_EmptySet
  <2>2. CASE PlacesOf(r) # {}
    <3>1. PICK s \in SectionIds : item[s][r] # 0
      BY <2>2 DEF PlacesOf
    <3>2. PlacesOf(r) = {s}
      BY <3>1 DEF PlacesOf, SectionsInv, Single, Unlucky
    <3> QED BY <3>2, FS_Singleton
  <2> QED BY <2>1, <2>2
<1> QED BY <1>1, <1>2, SectionsInvStep, PTL DEF SectionsSpec

-----------------------------------------------------------------------------
(* What counts as read was shown.                                          *)

\* A set of natural numbers that is not empty has a least member.
LEMMA LeastNumber ==
  ASSUME NEW T, T \subseteq Nat, T # {}
  PROVE  \E x \in T : \A y \in T : x <= y
<1> DEFINE R == OpToRel(<, Nat)
<1>1. \A x, y \in Nat : y < x => <<y, x>> \in R
  BY DEF OpToRel
<1>2. IsWellFoundedOn(R, Nat)
  BY NatLessThanWellFounded
<1> HIDE DEF R
<1>3. PICK x \in T : \A y \in T : <<y, x>> \notin R
  BY <1>2, WFMin
<1>4. \A y \in T : ~(y < x)
  BY <1>1, <1>3, Zenon
<1> QED BY <1>4

\* The greatest of some of the first n numbers is one of them.
LEMMA GreatestNumber ==
  ASSUME NEW n \in Nat, NEW S, S \subseteq 1..n, S # {}
  PROVE  Max(S) \in S
<1> DEFINE T == {k \in 0..n : n - k \in S}
<1>1. T \subseteq Nat
  OBVIOUS
<1>2. T # {}
  <2>1. PICK s \in S : TRUE
    OBVIOUS
  <2>2. n - s \in 0..n /\ n - (n - s) = s
    BY <2>1
  <2> QED BY <2>1, <2>2
<1>3. \A s \in S : n - s \in T
  <2> TAKE s \in S
  <2>1. n - s \in 0..n /\ n - (n - s) = s
    OBVIOUS
  <2> QED BY <2>1
<1>4. \A k \in T : k \in 0..n /\ n - k \in S
  OBVIOUS
<1> HIDE DEF T
<1>5. PICK k \in T : \A l \in T : k <= l
  BY <1>1, <1>2, LeastNumber
<1>6. \A s \in S : n - k >= s
  BY <1>3, <1>4, <1>5
<1>7. \E x \in S : \A y \in S : x >= y
  BY <1>4, <1>6
<1> QED BY <1>7 DEF Max

\* Only stored messages are counted as the newest.
LEMMA NewestIsOne ==
  ASSUME MessageTypes, NEW S, S \subseteq Posts
  PROVE  Newest(S) \subseteq S
<1> DEFINE top == {m \in S : ~message[m].reply}
<1>1. CASE top = {}
  BY <1>1 DEF Newest
<1>2. CASE top # {}
  <2>1. Len(message) \in Nat /\ top \subseteq 1..Len(message) /\ top \subseteq S
    <3>1. Len(message) \in Nat
      BY DEF MessageTypes
    <3> QED BY <3>1 DEF Posts
  <2>2. Newest(S) = {Max(top)}
    BY <1>2 DEF Newest
  <2> HIDE DEF top
  <2>3. Max(top) \in top
    BY <1>2, <2>1, GreatestNumber
  <2> QED BY <2>1, <2>2, <2>3
<1> QED BY <1>1, <1>2

\* The last mark called bears the highest number and the time of leaving, and what the row
\* holds once that mark is executed is this time, rounded or cut.
MarkOrder ==
  /\ \A k \in marks : /\ k.n <= called[k.user]
                      /\ k.n = called[k.user] => k.time = leftAt[k.user]
  /\ \A u \in Readers :
       /\ holds[u] <= called[u]
       /\ holds[u] = called[u] /\ called[u] > 0 => lastRead[u] \in Stored(leftAt[u])

\* A member who never came was given nothing.
Strangers ==
  \A u \in Readers : called[u] = 0 =>
    u \notin here /\ lastRead[u] = Never /\ shown[u] = {} /\ missed[u] = {}

\* created_at is the second in which the row was stored.
SecondStored == \A m \in Posts : message[m].at = Second(message[m].time)

\* The time of leaving parts the messages a member was given, or just missed, from those
\* it was not given.
Parted ==
  \A u \in Readers \ here :
    /\ \A m \in shown[u] \cup missed[u] : message[m].time <= leftAt[u]
    /\ called[u] > 0 =>
         \A m \in Posts \ (shown[u] \cup missed[u]) : message[m].time >= leftAt[u]

MarksInv == MarkOrder /\ Strangers /\ SecondStored /\ Parted

LEMMA MarksInvInit == MarksInit => MarksInv
BY DEF MarksInit, MarksInv, MarkOrder, Strangers, SecondStored, Parted, Posts, Never

LEMMA MarkOrderStep ==
  ASSUME ClockTypes, MessageTypes, MarksInv, [MarksNext]_markVars
  PROVE  MarkOrder'
<1> USE DEF MarkOrder
<1>1. MarkOrder
  BY DEF MarksInv
<1>2. /\ \A k \in marks : /\ k \in [user: Readers, time: 0..now, n: 1..MaxMarks]
                          /\ k.user \in Readers /\ k.n \in Nat
      /\ called \in [Readers -> Nat] /\ holds \in [Readers -> Nat]
      /\ leftAt \in [Readers -> 0..now]
      /\ lastRead \in [Readers -> {Never} \cup 0..MaxTime]
  BY DEF ClockTypes
<1>3. ASSUME NEW u \in Readers, MarkAsRead(u), UNCHANGED <<holds, lastRead>>
      PROVE  MarkOrder'
  <2>1. /\ called' = [called EXCEPT ![u] = called[u] + 1]
        /\ marks' = marks \cup {[user |-> u, time |-> now, n |-> called'[u]]}
        /\ leftAt' = [leftAt EXCEPT ![u] = now]
    BY <1>3 DEF MarkAsRead
  <2>2. called'[u] = called[u] + 1 /\ leftAt'[u] = now
    BY <1>2, <2>1
  <2>3. \A v \in Readers \ {u} : called'[v] = called[v] /\ leftAt'[v] = leftAt[v]
    BY <1>2, <2>1
  <2>4. \A k \in marks : /\ k.n <= called'[k.user]
                         /\ k.n = called'[k.user] => k.time = leftAt'[k.user]
    BY <1>1, <1>2, <2>2, <2>3
  <2>5. \A k \in marks' : /\ k.n <= called'[k.user]
                          /\ k.n = called'[k.user] => k.time = leftAt'[k.user]
    BY <1>2, <2>1, <2>2, <2>4
  <2>6. \A v \in Readers : /\ holds'[v] <= called'[v]
                           /\ holds'[v] = called'[v] => v # u
    BY <1>1, <1>2, <1>3, <2>2, <2>3
  <2>7. \A v \in Readers : holds'[v] = called'[v] /\ called'[v] > 0
                             => lastRead'[v] \in Stored(leftAt'[v])
    BY <1>1, <1>2, <1>3, <2>3, <2>6
  <2> QED BY <2>5, <2>6, <2>7 DEF Stored
<1>4. ASSUME NEW u \in Readers, Enter(u) PROVE MarkOrder'
  <2>1. MarkAsRead(u) /\ UNCHANGED <<holds, lastRead>>
    BY <1>4 DEF Enter
  <2> QED BY <1>3, <2>1
<1>5. ASSUME NEW u \in Readers, Depart(u) PROVE MarkOrder'
  <2>1. MarkAsRead(u) /\ UNCHANGED <<holds, lastRead>>
    BY <1>5 DEF Depart
  <2> QED BY <1>3, <2>1
<1>6. ASSUME NEW k \in marks, MarkRuns(k) PROVE MarkOrder'
  <2>1. PICK s \in Stored(k.time) : lastRead' = [lastRead EXCEPT ![k.user] = s]
    BY <1>6 DEF MarkRuns
  <2>2. /\ marks' \subseteq marks /\ UNCHANGED <<called, leftAt>>
        /\ holds' = [holds EXCEPT ![k.user] = k.n]
    BY <1>6 DEF MarkRuns
  <2>3. holds'[k.user] = k.n /\ lastRead'[k.user] = s
    BY <1>2, <2>1, <2>2
  <2>4. \A v \in Readers \ {k.user} : holds'[v] = holds[v] /\ lastRead'[v] = lastRead[v]
    BY <1>2, <2>1, <2>2
  <2>5. k.n = called[k.user] => s \in Stored(leftAt[k.user])
    BY <1>1, <2>1
  <2>6. \A v \in Readers :
          /\ holds'[v] <= called'[v]
          /\ holds'[v] = called'[v] /\ called'[v] > 0 => lastRead'[v] \in Stored(leftAt'[v])
    BY <1>1, <1>2, <2>2, <2>3, <2>4, <2>5
  <2>7. \A j \in marks' : /\ j.n <= called'[j.user]
                          /\ j.n = called'[j.user] => j.time = leftAt'[j.user]
    BY <1>1, <2>2
  <2> QED BY <2>6, <2>7 DEF Stored
<1>7. ASSUME marks' \subseteq marks, UNCHANGED <<called, leftAt, holds, lastRead>>
      PROVE  MarkOrder'
  BY <1>1, <1>7 DEF Stored
<1>8. ASSUME NEW u \in Members, NEW reply \in BOOLEAN, StoreMessage(u, reply)
      PROVE  MarkOrder'
  BY <1>7, <1>8 DEF StoreMessage
<1>9. ASSUME NEW k \in marks, MarkFails(k) PROVE MarkOrder'
  BY <1>7, <1>9 DEF MarkFails
<1>10. ASSUME NEW m \in Posts, Broadcast(m) PROVE MarkOrder'
  BY <1>7, <1>10 DEF Broadcast
<1>11. ASSUME NEW m \in Posts, NotifyUnread(m) \/ NotifyFails(m) PROVE MarkOrder'
  BY <1>7, <1>11 DEF NotifyUnread, NotifyFails
<1>12. CASE MarksTick \/ UNCHANGED markVars
  BY <1>7, <1>12 DEF MarksTick, markVars
<1> QED
  BY <1>4, <1>5, <1>6, <1>8, <1>9, <1>10, <1>11, <1>12 DEF MarksNext

LEMMA StrangersStep ==
  ASSUME ClockTypes, MessageTypes, MarksInv, [MarksNext]_markVars
  PROVE  Strangers'
<1> USE DEF Strangers
<1>1. Strangers /\ \A k \in marks : k.n <= called[k.user]
  BY DEF MarksInv, MarkOrder
<1>2. /\ \A k \in marks : k.user \in Readers /\ k.n \in Nat /\ k.n > 0
      /\ called \in [Readers -> Nat] /\ lastRead \in [Readers -> {Never} \cup 0..MaxTime]
      /\ shown \in [Readers -> SUBSET Posts] /\ missed \in [Readers -> SUBSET Posts]
  BY DEF ClockTypes, MessageTypes
<1>3. ASSUME NEW u \in Readers, Enter(u) \/ Depart(u) PROVE Strangers'
  <2>1. /\ called' = [called EXCEPT ![u] = called[u] + 1] /\ lastRead' = lastRead
        /\ \A v \in Readers \ {u} :
             /\ v \in here' <=> v \in here
             /\ shown'[v] = shown[v] /\ missed'[v] = missed[v]
    BY <1>2, <1>3 DEF Enter, Depart, MarkAsRead
  <2>2. called'[u] > 0 /\ \A v \in Readers \ {u} : called'[v] = called[v]
    BY <1>2, <2>1
  <2> QED BY <1>1, <2>1, <2>2
<1>4. ASSUME NEW k \in marks, MarkRuns(k) PROVE Strangers'
  <2>1. called[k.user] # 0
    BY <1>1, <1>2
  <2>2. \A v \in Readers \ {k.user} : lastRead'[v] = lastRead[v]
    BY <1>2, <1>4 DEF MarkRuns
  <2> QED BY <1>1, <1>4, <2>1, <2>2 DEF MarkRuns
<1>5. ASSUME UNCHANGED <<called, lastRead, here, missed>>,
             \A u \in Readers \ here : shown'[u] = shown[u]
      PROVE  Strangers'
  BY <1>1, <1>5
<1>6. ASSUME NEW u \in Members, NEW reply \in BOOLEAN, StoreMessage(u, reply)
      PROVE  Strangers'
  BY <1>5, <1>6 DEF StoreMessage
<1>7. ASSUME NEW k \in marks, MarkFails(k) PROVE Strangers'
  BY <1>5, <1>7 DEF MarkFails
<1>8. ASSUME NEW m \in Posts, Broadcast(m) PROVE Strangers'
  BY <1>5, <1>8 DEF Broadcast
<1>9. ASSUME NEW m \in Posts, NotifyUnread(m) \/ NotifyFails(m) PROVE Strangers'
  BY <1>5, <1>9 DEF NotifyUnread, NotifyFails
<1>10. CASE MarksTick \/ UNCHANGED markVars
  BY <1>5, <1>10 DEF MarksTick, markVars
<1> QED BY <1>3, <1>4, <1>6, <1>7, <1>8, <1>9, <1>10 DEF MarksNext

LEMMA SecondStoredStep ==
  ASSUME ClockTypes, MessageTypes, MarksInv, [MarksNext]_markVars
  PROVE  SecondStored'
<1>1. SecondStored
  BY DEF MarksInv
<1>2. CASE UNCHANGED message
  BY <1>1, <1>2 DEF SecondStored, Posts, Second
<1>3. ASSUME NEW u \in Members, NEW reply \in BOOLEAN, StoreMessage(u, reply)
      PROVE  SecondStored'
  <2>1. /\ Posts' = Posts \cup {Len(message')}
        /\ \A m \in Posts : message'[m] = message[m]
        /\ message'[Len(message')].time = now
        /\ message'[Len(message')].at = Second(now)
    BY <1>3, Appended
  <2> QED BY <1>1, <2>1 DEF SecondStored, Second
<1> QED
  BY <1>2, <1>3 DEF MarksNext, Enter, Depart, MarkRuns, MarkFails, Broadcast, NotifyUnread,
                    NotifyFails, MarksTick, markVars

LEMMA PartedStep ==
  ASSUME ClockTypes, MessageTypes, PresentHaveAll, MarksInv, [MarksNext]_markVars
  PROVE  Parted'
<1> USE DEF Parted
<1>1. Parted
  BY DEF MarksInv
<1>2. /\ now \in Nat /\ called \in [Readers -> Nat] /\ leftAt \in [Readers -> 0..now]
      /\ shown \in [Readers -> SUBSET Posts] /\ missed \in [Readers -> SUBSET Posts]
      /\ \A m \in Posts : message[m].time <= now
  BY DEF ClockTypes, MessageTypes
<1>3. ASSUME NEW u \in Readers, Enter(u) PROVE Parted'
  <2>1. /\ here' = here \cup {u} /\ message' = message /\ missed' = missed
        /\ \A v \in Readers \ {u} : /\ called'[v] = called[v] /\ leftAt'[v] = leftAt[v]
                                    /\ shown'[v] = shown[v]
    BY <1>2, <1>3 DEF Enter, MarkAsRead
  <2> QED BY <1>1, <2>1 DEF Posts
<1>4. ASSUME NEW u \in Readers, Depart(u) PROVE Parted'
  <2>1. /\ here' = here \ {u} /\ message' = message /\ shown' = shown
        /\ missed'[u] = missed[u] \cup sending /\ leftAt'[u] = now
        /\ \A v \in Readers \ {u} : /\ called'[v] = called[v] /\ leftAt'[v] = leftAt[v]
                                    /\ missed'[v] = missed[v]
    BY <1>2, <1>4 DEF Depart, MarkAsRead
  <2>2. Posts \ sending \subseteq shown[u] /\ sending \subseteq Posts
    BY <1>4 DEF PresentHaveAll, MessageTypes, Depart
  <2>3. Posts = shown'[u] \cup missed'[u]
    BY <1>2, <2>1, <2>2
  <2>4. Posts' = Posts
    BY <2>1 DEF Posts
  <2>5. \A m \in shown'[u] \cup missed'[u] : message'[m].time <= leftAt'[u]
    BY <1>2, <2>1, <2>3
  <2> QED BY <1>1, <2>1, <2>3, <2>4, <2>5
<1>5. ASSUME NEW u \in Members, NEW reply \in BOOLEAN, StoreMessage(u, reply)
      PROVE  Parted'
  <2>1. /\ Posts' = Posts \cup {Len(message')}
        /\ \A m \in Posts : message'[m] = message[m]
        /\ message'[Len(message')].time = now
    BY <1>5, Appended
  <2>2. UNCHANGED <<here, called, leftAt, shown, missed>>
    BY <1>5 DEF StoreMessage
  <2>3. \A v \in Readers : leftAt[v] <= now
    BY <1>2
  <2>4. \A v \in Readers \ here' :
          \A m \in shown'[v] \cup missed'[v] : message'[m].time <= leftAt'[v]
    BY <1>1, <1>2, <2>1, <2>2
  <2>5. ASSUME NEW v \in Readers \ here', called'[v] > 0,
               NEW m \in Posts' \ (shown'[v] \cup missed'[v])
        PROVE  message'[m].time >= leftAt'[v]
    <3>1. CASE m \in Posts
      BY <1>1, <2>1, <2>2, <2>5, <3>1
    <3>2. CASE m = Len(message')
      BY <1>2, <2>1, <2>2, <2>3, <3>2
    <3> QED BY <2>1, <3>1, <3>2
  <2> QED BY <2>4, <2>5
<1>6. ASSUME UNCHANGED <<message, here, called, leftAt, missed>>,
             \A u \in Readers \ here : shown'[u] = shown[u]
      PROVE  Parted'
  BY <1>1, <1>6 DEF Posts
<1>7. ASSUME NEW k \in marks, MarkRuns(k) \/ MarkFails(k) PROVE Parted'
  BY <1>6, <1>7 DEF MarkRuns, MarkFails
<1>8. ASSUME NEW m \in Posts, Broadcast(m) PROVE Parted'
  BY <1>6, <1>8 DEF Broadcast
<1>9. ASSUME NEW m \in Posts, NotifyUnread(m) \/ NotifyFails(m) PROVE Parted'
  BY <1>6, <1>9 DEF NotifyUnread, NotifyFails
<1>10. CASE MarksTick \/ UNCHANGED markVars
  BY <1>6, <1>10 DEF MarksTick, markVars
<1> QED BY <1>3, <1>4, <1>5, <1>7, <1>8, <1>9, <1>10 DEF MarksNext

\* A time of the process stored in seconds is neither before the second of that time nor
\* more than one after it.
LEMMA StoredNear ==
  ASSUME NEW t \in Nat, NEW l \in Nat, NEW s \in Stored(l)
  PROVE  /\ t <= l => Second(t) <= s
         /\ Second(t) <= s => t <= l + 2
         /\ s \in Nat
BY DEF Stored, Second

LEMMA InvImpliesReadAgrees ==
  ASSUME ClockTypes, MessageTypes, MarksInv PROVE ReadAgrees
<1> SUFFICES ASSUME NEW u \in Readers, Marked(u)
             PROVE  /\ Unread(u) \cap shown[u] = {}
                    /\ UnreadListed(u) \cap (shown[u] \cup missed[u]) = {}
                    /\ \A m \in OfOthers(u) \ Unread(u) :
                         m \in shown[u] \cup missed[u] \/ SameSecond(m, u)
                    /\ \A m \in ReadListed(u) :
                         m \in shown[u] \cup missed[u] \/ SameSecond(m, u)
  BY DEF ReadAgrees
<1> DEFINE L == {m \in OfOthers(u) : lastRead[u] # Never /\ message[m].at <= lastRead[u]}
<1>1. u \notin here /\ holds[u] = called[u]
  BY DEF Marked
<1>2. \A m \in Posts : /\ message[m].time \in Nat /\ message[m].at = Second(message[m].time)
                       /\ message[m].at \in Nat
  <2> TAKE m \in Posts
  <2>1. message[m] \in MessageRow
    BY DEF MessageTypes, Posts
  <2> QED BY <2>1 DEF MessageRow, MarksInv, SecondStored
<1>3. called[u] \in Nat /\ leftAt[u] \in Nat /\ lastRead[u] \in {Never} \cup Nat
  BY DEF ClockTypes
<1>4. UnreadListed(u) \subseteq Unread(u)
  <2>1. Unread(u) \subseteq Posts
    BY DEF Unread, OfOthers
  <2> QED BY <2>1, NewestIsOne DEF UnreadListed
<1>5. ReadListed(u) \subseteq L
  <2>1. L \subseteq Posts
    BY DEF OfOthers
  <2>2. ReadListed(u) = Newest(L)
    BY DEF ReadListed
  <2> HIDE DEF L
  <2> QED BY <2>1, <2>2, NewestIsOne
<1>6. L \cap Unread(u) = {} /\ L \subseteq OfOthers(u)
  BY <1>2, <1>3 DEF Unread, OfOthers
<1>7. shown[u] \cup missed[u] \subseteq Posts
  BY DEF MessageTypes
<1>8. CASE called[u] = 0
  <2>1. lastRead[u] = Never /\ shown[u] = {} /\ missed[u] = {}
    BY <1>8 DEF MarksInv, Strangers
  <2>2. Unread(u) = OfOthers(u)
    BY <2>1 DEF Unread
  <2> HIDE DEF L
  <2> QED BY <1>5, <1>6, <2>1, <2>2
<1>9. CASE called[u] > 0
  <2>1. lastRead[u] \in Stored(leftAt[u])
    BY <1>1, <1>9 DEF MarksInv, MarkOrder
  <2>2. /\ \A m \in shown[u] \cup missed[u] : message[m].time <= leftAt[u]
        /\ \A m \in Posts \ (shown[u] \cup missed[u]) : message[m].time >= leftAt[u]
    BY <1>1, <1>9 DEF MarksInv, Parted
  <2>3. lastRead[u] \in Nat /\ lastRead[u] # Never
    BY <1>3, <2>1, StoredNear DEF Never
  <2>4. \A m \in shown[u] \cup missed[u] : m \notin Unread(u)
    <3> TAKE m \in shown[u] \cup missed[u]
    <3>1. message[m].time \in Nat /\ message[m].time <= leftAt[u]
          /\ message[m].at = Second(message[m].time) /\ message[m].at \in Nat
      BY <1>2, <1>7, <2>2
    <3>2. message[m].at <= lastRead[u]
      BY <1>3, <2>1, <3>1, StoredNear
    <3> QED BY <2>3, <3>1, <3>2 DEF Unread
  <2>5. \A m \in OfOthers(u) \ Unread(u) : m \in shown[u] \cup missed[u] \/ SameSecond(m, u)
    <3> SUFFICES ASSUME NEW m \in OfOthers(u) \ Unread(u), m \notin shown[u] \cup missed[u]
                 PROVE  SameSecond(m, u)
      OBVIOUS
    <3>1. m \in Posts /\ message[m].time >= leftAt[u]
      BY <2>2 DEF OfOthers
    <3>2. message[m].at <= lastRead[u]
      BY <1>2, <2>3, <3>1 DEF Unread
    <3>3. /\ message[m].at = Second(message[m].time) /\ message[m].time \in Nat
          /\ Second(message[m].time) <= lastRead[u]
      BY <1>2, <3>1, <3>2
    <3>4. message[m].time <= leftAt[u] + 2
      BY <1>3, <2>1, <3>3, StoredNear
    <3> QED BY <1>3, <3>1, <3>2, <3>3, <3>4 DEF SameSecond
  <2> HIDE DEF L
  <2> QED BY <1>4, <1>5, <1>6, <2>4, <2>5
<1> QED BY <1>3, <1>8, <1>9

\* Whatever the order in which the marks of a member are executed, and although some fail:
\* once its last mark is stored, what counts as unread the member was not given, and what
\* counts as read it was, up to the second (chat-room.service.ts, lines 643-685).
THEOREM ReadAgreesCorrect == MarksSpec => []ReadAgrees
<1> DEFINE Inv == ClockTypes /\ MessageTypes /\ Safe /\ MarksInv
<1>1. MarksInit => Inv
  BY TypesInit, SafeInit, MarksInvInit
<1>2. ASSUME Inv, [MarksNext]_markVars PROVE Inv'
  <2>1. ClockTypes' /\ MessageTypes' /\ Safe'
    BY <1>2, ClockTypesStep, MessageTypesStep, SafeStep
  <2>2. MarkOrder' /\ Strangers' /\ SecondStored' /\ Parted'
    BY <1>2, MarkOrderStep, StrangersStep, SecondStoredStep, PartedStep DEF Safe
  <2> QED BY <2>1, <2>2 DEF MarksInv
<1>3. Inv => ReadAgrees
  BY InvImpliesReadAgrees
<1> QED BY <1>1, <1>2, <1>3, PTL DEF MarksSpec
=============================================================================
