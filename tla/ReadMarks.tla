------------------------------ MODULE ReadMarks ------------------------------
(***************************************************************************)
(* What a member of a chat room has read: last_read_at, set to the time of *)
(* the call whenever a socket enters or leaves the room, by a statement    *)
(* nobody waits for; the counts and lists taken from it; and the           *)
(* unread_update notices of new messages (chat.gateway.ts,                 *)
(* chat-room.service.ts).  One direct room; a member's sockets are one.    *)
(***************************************************************************)
EXTENDS Integers, Sequences, FiniteSets, FiniteSetsExt

CONSTANTS
  Members,
  Readers,       \* members who come and go, the others are always in the room
  MaxTime,       \* bound on the clock, in half seconds
  MaxMessages,   \* bound on the messages
  MaxMarks       \* bound on the marks of one member

ASSUME MarksAssumption ==
  /\ Readers \subseteq Members
  /\ MaxTime \in Nat /\ MaxMessages \in Nat /\ MaxMarks \in Nat

VARIABLES
  now,
  here,      \* members with a socket in the room
  message,   \* rows of messages, in the order of storing
  sending,   \* messages stored and not broadcast yet
  telling,   \* messages broadcast whose members are being looked up
  untold,    \* history: messages whose members could not be looked up
  lastRead,  \* last_read_at of each member in seconds, Never at first
  marks,     \* marks called and not executed
  called,    \* number of marks called for each member
  holds,     \* which mark of its member the row holds
  leftAt,    \* history: the time of the last mark called
  shown,     \* messages each member's client was given
  told,      \* messages each member was sent unread_update for
  missed     \* history: messages stored before and broadcast after a member left

markVars == <<now, here, message, sending, telling, untold, lastRead, marks, called, holds,
              leftAt, shown, told, missed>>

Never == -1
Posts == 1..Len(message)

\* created_at is CURRENT_TIMESTAMP, cut to the second.
Second(t) == t \div 2

\* last_read_at is a time of the process in a DATETIME column: rounded to the second by
\* MySQL, cut by MariaDB.
Stored(t) == {t \div 2, (t + 1) \div 2}

OfOthers(u) == {m \in Posts : message[m].by # u}

\* getUnreadCounts counts these.
Unread(u) == {m \in OfOthers(u) : lastRead[u] = Never \/ message[m].at > lastRead[u]}

\* The newest of the messages that are no replies, at most one.
Newest(S) ==
  LET top == {m \in S : ~message[m].reply} IN IF top = {} THEN {} ELSE {Max(top)}

\* getUnreadMessages and getRecentReadMessages, for the room.
UnreadListed(u) == Newest(Unread(u))
ReadListed(u) == Newest({m \in OfOthers(u) : lastRead[u] # Never /\ message[m].at <= lastRead[u]})

MarksInit ==
  /\ now = 0
  /\ here = Members \ Readers
  /\ message = <<>>
  /\ sending = {} /\ telling = {} /\ untold = {}
  /\ lastRead = [u \in Readers |-> Never]
  /\ marks = {}
  /\ called = [u \in Readers |-> 0] /\ holds = called /\ leftAt = called
  /\ shown = [u \in Readers |-> {}] /\ told = shown /\ missed = shown

\* markAsRead, up to the statement.
MarkAsRead(u) ==
  /\ called[u] < MaxMarks
  /\ called' = [called EXCEPT ![u] = @ + 1]
  /\ marks' = marks \cup {[user |-> u, time |-> now, n |-> called'[u]]}
  /\ leftAt' = [leftAt EXCEPT ![u] = now]

\* A socket enters; its client loads the messages of the room.
Enter(u) ==
  /\ u \notin here
  /\ here' = here \cup {u}
  /\ shown' = [shown EXCEPT ![u] = Posts]
  /\ MarkAsRead(u)
  /\ UNCHANGED <<now, message, sending, telling, untold, lastRead, holds, told, missed>>

\* Mutant of Depart: leaving does not mark the room.
DepartUnmarked(u) ==
  /\ u \in here
  /\ here' = here \ {u}
  /\ missed' = [missed EXCEPT ![u] = @ \cup sending]
  /\ UNCHANGED <<now, message, sending, telling, untold, lastRead, marks, called, holds,
                 leftAt, shown, told>>

\* leave_room, or the connection ends.
Depart(u) ==
  /\ u \in here
  /\ here' = here \ {u}
  /\ missed' = [missed EXCEPT ![u] = @ \cup sending]
  /\ MarkAsRead(u)
  /\ UNCHANGED <<now, message, sending, telling, untold, lastRead, holds, shown, told>>

\* The statement runs, in any order with the others.
MarkRuns(k) ==
  /\ marks' = marks \ {k}
  /\ \E s \in Stored(k.time) : lastRead' = [lastRead EXCEPT ![k.user] = s]
  /\ holds' = [holds EXCEPT ![k.user] = k.n]
  /\ UNCHANGED <<now, here, message, sending, telling, untold, called, leftAt, shown, told,
                 missed>>

MarkFails(k) ==
  /\ marks' = marks \ {k}
  /\ UNCHANGED <<now, here, message, sending, telling, untold, lastRead, called, holds,
                 leftAt, shown, told, missed>>

\* sendMessage or sendThreadReply stores the message of a member in the room.
StoreMessage(u, reply) ==
  /\ u \in here
  /\ Len(message) < MaxMessages
  /\ message' = Append(message, [by |-> u, at |-> Second(now), time |-> now, reply |-> reply])
  /\ sending' = sending \cup {Len(message')}
  /\ UNCHANGED <<now, here, telling, untold, lastRead, marks, called, holds, leftAt, shown,
                 told, missed>>

\* message_new to the sockets in the room.
Broadcast(m) ==
  /\ m \in sending
  /\ sending' = sending \ {m}
  /\ shown' = [u \in Readers |-> IF u \in here THEN shown[u] \cup {m} ELSE shown[u]]
  /\ telling' = telling \cup {m}
  /\ UNCHANGED <<now, here, message, untold, lastRead, marks, called, holds, leftAt, told,
                 missed>>

\* Mutant of NotifyUnread: members who were in the room when the message was stored are
\* passed over.
NotifyAbsentAtStore(m) ==
  /\ m \in telling
  /\ telling' = telling \ {m}
  /\ told' = [u \in Readers |->
       IF u # message[m].by /\ u \notin here /\ m \notin missed[u]
       THEN told[u] \cup {m} ELSE told[u]]
  /\ UNCHANGED <<now, here, message, sending, untold, lastRead, marks, called, holds, leftAt,
                 shown, missed>>

\* notifyUnreadUpdate, its members known: those not in the room now are told.
NotifyUnread(m) ==
  /\ m \in telling
  /\ telling' = telling \ {m}
  /\ told' = [u \in Readers |->
       IF u # message[m].by /\ u \notin here THEN told[u] \cup {m} ELSE told[u]]
  /\ UNCHANGED <<now, here, message, sending, untold, lastRead, marks, called, holds, leftAt,
                 shown, missed>>

NotifyFails(m) ==
  /\ m \in telling
  /\ telling' = telling \ {m}
  /\ untold' = untold \cup {m}
  /\ UNCHANGED <<now, here, message, sending, lastRead, marks, called, holds, leftAt, shown,
                 told, missed>>

MarksTick ==
  /\ now < MaxTime /\ now' = now + 1
  /\ UNCHANGED <<here, message, sending, telling, untold, lastRead, marks, called, holds,
                 leftAt, shown, told, missed>>

MarksNext ==
  \/ \E u \in Readers : Enter(u) \/ Depart(u)
  \/ \E u \in Members, reply \in BOOLEAN : StoreMessage(u, reply)
  \/ \E k \in marks : MarkRuns(k) \/ MarkFails(k)
  \/ \E m \in Posts : Broadcast(m) \/ NotifyUnread(m) \/ NotifyFails(m)
  \/ MarksTick

MarksSpec == MarksInit /\ [][MarksNext]_markVars

----------------------------------------------------------------------------
(* Properties.                                                             *)

MarksTypeOK ==
  /\ now \in 0..MaxTime
  /\ here \subseteq Members
  /\ \A m \in Posts :
       message[m] \in [by: Members, at: 0..MaxTime, time: 0..now, reply: BOOLEAN]
  /\ sending \subseteq Posts /\ telling \subseteq Posts /\ untold \subseteq Posts
  /\ lastRead \in [Readers -> {Never} \cup 0..MaxTime]
  /\ marks \subseteq [user: Members, time: 0..now, n: 1..MaxMarks]
  /\ called \in [Readers -> 0..MaxMarks] /\ holds \in [Readers -> 0..MaxMarks]
  /\ leftAt \in [Readers -> 0..now]
  /\ \A u \in Readers : shown[u] \cup told[u] \cup missed[u] \subseteq Posts

\* The member has left and the row holds its last mark: none is pending, overtaken or failed.
Marked(u) == u \notin here /\ holds[u] = called[u] /\ \A k \in marks : k.user # u

\* Stored after the member left, so soon that the column cannot tell.
SameSecond(m, u) ==
  /\ message[m].time \in leftAt[u]..leftAt[u] + 2
  /\ message[m].at <= lastRead[u]

\* "Mark room as read when user leaves" (chat.gateway.ts, line 243): of a member who has
\* left, the messages counted as unread, and the one listed as such, are those the member
\* was not shown; what counts as read was shown, but for a message stored before and
\* broadcast after the member left, and one stored in the second of leaving.
ReadAgrees ==
  \A u \in Readers : Marked(u) =>
    /\ Unread(u) \cap shown[u] = {}
    /\ UnreadListed(u) \cap (shown[u] \cup missed[u]) = {}
    /\ \A m \in OfOthers(u) \ Unread(u) : m \in shown[u] \cup missed[u] \/ SameSecond(m, u)
    /\ \A m \in ReadListed(u) : m \in shown[u] \cup missed[u] \/ SameSecond(m, u)

\* "Sends unread_update socket event to targeted members not in the room" (chat.gateway.ts,
\* line 788): every message of the room reaches the other member, on the
\* screen or as a notice, whenever the member comes and goes, unless the lookup of the
\* members failed.
NoMessageMissed ==
  \A m \in Posts \ (sending \cup telling \cup untold) : \A u \in Readers \ {message[m].by} :
    m \in shown[u] \cup told[u]
=============================================================================
