---------------------------- MODULE ChatMessages ----------------------------
(***************************************************************************)
(* The messages of a direct chat room and the sockets that show it         *)
(* (chat.gateway.ts, chat.service.ts, messages.service.ts,                 *)
(* pinned-messages.service.ts and the cache of translate.service.ts).      *)
(* Handlers await the database and the language model between what they    *)
(* read and what they write; translations and notices run on after the     *)
(* handler has answered.                                                   *)
(***************************************************************************)
EXTENDS Naturals, FiniteSets

CONSTANTS
  Users,         \* members of the room
  Sockets,       \* connections; a connection that ended never comes back
  UserOf,        \* the user of each socket
  Contents,      \* texts a message may have
  Plain,         \* those not worth translating (emoji, too short)
  Languages,     \* languages a message is translated into
  NoText,        \* the absence of a translation
  MaxMessages,   \* bound on the messages stored
  Slots,         \* handlers that may be suspended at once
  MaxRequests    \* bound on the requests of the clients

ASSUME ChatAssumption ==
  /\ UserOf \in [Sockets -> Users]
  /\ Plain \subseteq Contents
  /\ NoText \notin Contents
  /\ MaxMessages \in Nat
  /\ MaxRequests \in Nat

Ids == 1..MaxMessages
Idle == [op |-> "idle"]

\* A row of messages; known: a language was detected when it was sent.
Message == [author: Users, text: Contents, known: BOOLEAN, deleted: BOOLEAN, young: BOOLEAN]

\* What is cached of the translations of a message: the text each language renders.
Translations == [Languages -> Contents \cup {NoText}]
Untranslated == [l \in Languages |-> NoText]

\* A background translation; read: the cache has been consulted, base holds what it had.
Translating ==
  [id: Ids, text: Contents, forced: BOOLEAN, read: BOOLEAN, base: Translations]

VARIABLES
  open,         \* sockets connected
  roomUsers,    \* sockets registered in the room
  userRooms,    \* sockets in the personal notification room of their user
  view,         \* the users each socket's client shows in the room
  sent,         \* number of messages stored
  message,      \* rows of messages
  pins,         \* messages with a row of pinned_messages
  cached,       \* messages with a row of translation_cache
  cache,        \* their translations
  jobs,         \* background translations under way
  notices,      \* messages whose notices are under way
  flight,       \* handlers suspended at an await
  late,         \* history: sockets registered after they had disconnected
  reached,      \* history: <<user, message>> announced or pushed
  mixed,        \* history: messages whose edits and translations overlapped
  gone,         \* history: messages deleted with no edit of them suspended
  requests      \* number of requests of the clients, for the bound

presence == <<open, roomUsers, userRooms, view, late>>
store == <<sent, message, pins>>
translation == <<cached, cache, jobs, mixed>>
told == <<notices, reached>>
chatVars == <<open, roomUsers, userRooms, view, sent, message, pins, cached, cache, jobs,
              notices, flight, late, reached, mixed, gone, requests>>

Stored == 1..sent
UsersOf(S) == {UserOf[s] : s \in S}

\* An edit of the message has been saved and not yet translated, or a translation runs.
Unsettled(id) ==
  \/ \E j \in jobs : j.id = id
  \/ \E k \in Slots : flight[k].op = "detect" /\ flight[k].id = id

\* Some handler is between reading the message to edit it and saving it.
BeingEdited(id) == \E k \in Slots : flight[k].op \in {"reread", "save"} /\ flight[k].id = id

ChatInit ==
  /\ open = Sockets
  /\ roomUsers = {}
  /\ userRooms = {}
  /\ view = [s \in Sockets |-> {}]
  /\ sent = 0
  /\ message = [id \in Ids |-> Idle]
  /\ pins = {}
  /\ cached = {}
  /\ cache = [id \in Ids |-> Untranslated]
  /\ jobs = {}
  /\ notices = {}
  /\ flight = [k \in Slots |-> Idle]
  /\ late = {}
  /\ reached = {}
  /\ mixed = {}
  /\ gone = {}
  /\ requests = 0

Ask == requests < MaxRequests /\ requests' = requests + 1

\* Handlers begin in a free slot and suspend there.
Start(k, f) == Ask /\ flight[k] = Idle /\ flight' = [flight EXCEPT ![k] = f]
Go(k, f) == flight' = [flight EXCEPT ![k] = f]
Finish(k) == Go(k, Idle)

----------------------------------------------------------------------------
(* Presence.                                                               *)

\* Clients of registered sockets add or remove a user in what they show.
Announce(S, u) ==
  [s \in Sockets |-> IF s \in S \cap open THEN view[s] \cup {u} ELSE view[s]]

\* Mutant of Retract: the user's other sockets are not considered.
RetractAlways(S, u) ==
  [s \in Sockets |-> IF s \in S \cap open THEN view[s] \ {u} ELSE view[s]]

\* user_left is sent only when no other socket of the user is in the room.
Retract(S, u) ==
  [s \in Sockets |->
    IF s \in S \cap open /\ u \notin UsersOf(S) THEN view[s] \ {u} ELSE view[s]]

\* join_room: room and membership are looked up first.
JoinRoom(k, s) ==
  /\ s \in open
  /\ \A i \in Slots : ~(flight[i].op = "join" /\ flight[i].socket = s)
  /\ Start(k, [op |-> "join", socket |-> s])
  /\ UNCHANGED <<presence, store, translation, told, gone>>

\* The socket is registered, connected or not; its client gets the list, the others the
\* newcomer.
JoinRegister(k) ==
  LET s == flight[k].socket IN
  /\ flight[k].op = "join"
  /\ roomUsers' = roomUsers \cup {s}
  /\ userRooms' = userRooms \cup {s}
  /\ view' = [Announce(roomUsers, UserOf[s]) EXCEPT
       ![s] = IF s \in open THEN UsersOf(roomUsers') ELSE {}]
  /\ late' = IF s \in open THEN late ELSE late \cup {s}
  /\ Finish(k)
  /\ UNCHANGED <<open, store, translation, told, gone, requests>>

LeaveRoom(s) ==
  /\ s \in open \cap roomUsers
  /\ Ask
  /\ roomUsers' = roomUsers \ {s}
  /\ view' = [Retract(roomUsers', UserOf[s]) EXCEPT ![s] = {}]
  /\ UNCHANGED <<open, userRooms, late, store, translation, told, flight, gone>>

\* Mutant of Disconnect: the socket stays in the user's room.
HalfDisconnect(s) ==
  /\ s \in open
  /\ open' = open \ {s}
  /\ roomUsers' = roomUsers \ {s}
  /\ view' = [Retract(roomUsers', UserOf[s]) EXCEPT ![s] = {}]
  /\ UNCHANGED <<userRooms, late, store, translation, told, flight, gone, requests>>

\* handleDisconnect; the rooms of the adapter lose the socket with it.
Disconnect(s) ==
  /\ s \in open
  /\ open' = open \ {s}
  /\ roomUsers' = roomUsers \ {s}
  /\ userRooms' = userRooms \ {s}
  /\ view' =
       IF s \in roomUsers
       THEN [Retract(roomUsers', UserOf[s]) EXCEPT ![s] = {}] ELSE view
  /\ UNCHANGED <<late, store, translation, told, flight, gone, requests>>

----------------------------------------------------------------------------
(* Sending.                                                                *)

\* send_message: the sender must be registered; the language is detected next.
Send(k, s, text) ==
  /\ s \in open \cap roomUsers
  /\ Start(k, [op |-> "send", user |-> UserOf[s], text |-> text])
  /\ UNCHANGED <<presence, store, translation, told, gone>>

\* send_thread_reply: the message answered must exist; deleted ones do.
Reply(k, s, text) == Stored # {} /\ Send(k, s, text)

\* A job that begins; without forceRefresh the cache is consulted first.
Job(id, text, forced) ==
  [id |-> id, text |-> text, forced |-> forced, read |-> forced, base |-> Untranslated]

\* isTranslatableContent
Translatable(text) == text \notin Plain

\* dispatchTranslation: texts not worth translating are skipped.
Dispatch(id, text, forced) ==
  IF Translatable(text) THEN jobs \cup {Job(id, text, forced)} ELSE jobs

\* The message is stored; its notices and its translation run on.
SendSave(k) ==
  LET f == flight[k]  id == sent + 1 IN
  /\ f.op = "send"
  /\ sent < MaxMessages
  /\ sent' = id
  /\ message' = [message EXCEPT ![id] =
       [author |-> f.user, text |-> f.text, known |-> Translatable(f.text),
        deleted |-> FALSE, young |-> TRUE]]
  /\ notices' = notices \cup {id}
  /\ jobs' = Dispatch(id, f.text, FALSE)
  /\ Finish(k)
  /\ UNCHANGED <<presence, pins, cached, cache, mixed, reached, gone, requests>>

\* A user no socket of whom is in the personal room.
Offline(u) == u \notin UsersOf(userRooms)

\* notifyMention in a direct room: an event to the other member's sockets, a push when
\* there is none.
Notify(id) ==
  /\ id \in notices
  /\ notices' = notices \ {id}
  /\ reached' = reached \cup
       {<<u, id>> : u \in {v \in Users \ {message[id].author} :
                             Offline(v) \/ v \in UsersOf(userRooms \cap open)}}
  /\ UNCHANGED <<presence, store, translation, flight, gone, requests>>

----------------------------------------------------------------------------
(* Editing and deleting.  Only the author, only for fifteen minutes.       *)

\* The fifteen minutes of a message pass.
Age(id) ==
  /\ message[id].young
  /\ message' = [message EXCEPT ![id].young = FALSE]
  /\ UNCHANGED <<presence, sent, pins, translation, told, flight, gone, requests>>

MayChange(s, id) ==
  /\ s \in open \cap roomUsers
  /\ id \in Stored
  /\ message[id].author = UserOf[s]
  /\ message[id].young

\* edit_message: a deleted message may be edited too.
EditFind(k, s, id, text) ==
  /\ MayChange(s, id)
  /\ Start(k, [op |-> "reread", id |-> id, text |-> text])
  /\ UNCHANGED <<presence, store, translation, told, gone>>

\* MessagesService.update reads the row again.
EditRead(k) ==
  /\ flight[k].op = "reread"
  /\ Go(k, [op |-> "save", id |-> flight[k].id, text |-> flight[k].text,
            deleted |-> message[flight[k].id].deleted])
  /\ UNCHANGED <<presence, store, translation, told, gone, requests>>

\* Mutant of Edited: the row is shown again.
Reshown(f) ==
  [message EXCEPT ![f.id] =
    [author |-> @.author, text |-> f.text, known |-> @.known, deleted |-> FALSE,
     young |-> @.young]]

\* Every column of the entity that differs from the row is written: deletion included.
Edited(f) ==
  [message EXCEPT ![f.id] =
    [author |-> @.author, text |-> f.text, known |-> @.known, deleted |-> f.deleted,
     young |-> @.young]]

EditSave(k) ==
  LET f == flight[k] IN
  /\ f.op = "save"
  /\ message' = Edited(f)
  /\ mixed' = IF Unsettled(f.id) \/ ~Translatable(f.text) THEN mixed \cup {f.id} ELSE mixed
  /\ Go(k, [op |-> "detect", id |-> f.id, text |-> f.text])
  /\ UNCHANGED <<presence, sent, pins, cached, cache, jobs, told, gone, requests>>

\* The language is known, the room is told and the translation is refreshed.
EditDetect(k) ==
  LET f == flight[k] IN
  /\ f.op = "detect"
  /\ jobs' = Dispatch(f.id, f.text, TRUE)
  /\ Finish(k)
  /\ UNCHANGED <<presence, store, cached, cache, mixed, told, gone, requests>>

\* delete_message, up to the update of the row.
DeleteFind(k, s, id) ==
  /\ MayChange(s, id)
  /\ Start(k, [op |-> "softDelete", id |-> id])
  /\ UNCHANGED <<presence, store, translation, told, gone>>

SoftDelete(k) ==
  LET id == flight[k].id IN
  /\ flight[k].op = "softDelete"
  /\ message' = [message EXCEPT ![id].deleted = TRUE]
  /\ gone' = IF BeingEdited(id) THEN gone ELSE gone \cup {id}
  /\ Go(k, [op |-> "invalidate", id |-> id])
  /\ UNCHANGED <<presence, sent, pins, translation, told, requests>>

InvalidateCache(k) ==
  LET id == flight[k].id IN
  /\ flight[k].op = "invalidate"
  /\ cached' = cached \ {id}
  /\ cache' = [cache EXCEPT ![id] = Untranslated]
  /\ Go(k, [op |-> "unpin", id |-> id])
  /\ UNCHANGED <<presence, store, jobs, mixed, told, gone, requests>>

\* The pin goes with the message; an error of the delete is swallowed.
DeleteUnpin(k) ==
  /\ flight[k].op = "unpin"
  /\ pins' \in {pins, pins \ {flight[k].id}}
  /\ Finish(k)
  /\ UNCHANGED <<presence, sent, message, translation, told, gone, requests>>

----------------------------------------------------------------------------
(* Pins.  Rows are unique: the slower of two pins fails.                   *)

PinFind(k, s, id) ==
  /\ s \in open \cap roomUsers
  /\ id \in Stored \ pins
  /\ Start(k, [op |-> "pin", id |-> id])
  /\ UNCHANGED <<presence, store, translation, told, gone>>

PinSave(k) ==
  /\ flight[k].op = "pin"
  /\ pins' = pins \cup {flight[k].id}
  /\ Finish(k)
  /\ UNCHANGED <<presence, sent, message, translation, told, gone, requests>>

\* unpin_message, by an admin of the room.
Unpin(s, id) ==
  /\ s \in roomUsers
  /\ id \in pins
  /\ Ask
  /\ pins' = pins \ {id}
  /\ UNCHANGED <<presence, sent, message, translation, told, flight, gone>>

----------------------------------------------------------------------------
(* Translation in the background.                                          *)

\* A translation without forceRefresh finds what the cache has, or nothing.
ReadCache(j) ==
  /\ j \in jobs /\ ~j.read
  /\ jobs' = (jobs \ {j}) \cup {[j EXCEPT !.read = TRUE, !.base = cache[j.id]]}
  /\ UNCHANGED <<presence, store, cached, cache, mixed, told, flight, gone, requests>>

\* A call of the model gives a text or, after its second attempt, none.
Tried == BOOLEAN

\* Asked for each language on its own the model may answer for any of them.
AskedSingly == {{l \in Languages : tried[l]} : tried \in [Languages -> Tried]}

\* Asked for all at once it answers for some; without any it is asked singly.
Answers == (SUBSET Languages \ {{}}) \cup AskedSingly

\* Mutant of Merged: what is cached wins over what was translated.
KeepCached(j, L) ==
  [l \in Languages |->
    IF cache[j.id][l] # NoText THEN cache[j.id][l]
    ELSE IF l \in L THEN j.text ELSE NoText]

\* The languages L the model answered for complete those cached when the job read them.
Merged(j, L) ==
  [l \in Languages |->
    IF j.base[l] # NoText THEN j.base[l] ELSE IF l \in L THEN j.text ELSE NoText]

\* The row is replaced by the merged translations; nothing is written when none is missing.
SaveTranslations(j, L) ==
  /\ j \in jobs /\ j.read
  /\ jobs' = jobs \ {j}
  /\ IF \E l \in Languages : j.base[l] = NoText
     THEN /\ cache' = [cache EXCEPT ![j.id] = Merged(j, L)]
          /\ cached' = cached \cup {j.id}
     ELSE UNCHANGED <<cache, cached>>
  /\ UNCHANGED <<presence, store, mixed, told, flight, gone, requests>>

\* retranslate-room: the messages are read at once and translated in turn.
Retranslate ==
  LET todo == {id \in Stored \ cached : ~message[id].deleted /\ message[id].known} IN
  /\ Ask
  /\ jobs' = jobs \cup {Job(id, message[id].text, FALSE) : id \in todo}
  /\ mixed' = mixed \cup {id \in todo : Unsettled(id)}
  /\ UNCHANGED <<presence, store, cached, cache, told, flight, gone>>

----------------------------------------------------------------------------
ChatNext ==
  \/ \E k \in Slots, s \in Sockets :
       \/ JoinRoom(k, s)
       \/ \E text \in Contents : Send(k, s, text) \/ Reply(k, s, text)
       \/ \E id \in Stored :
            \/ \E text \in Contents : EditFind(k, s, id, text)
            \/ DeleteFind(k, s, id)
            \/ PinFind(k, s, id)
  \/ \E k \in Slots :
       \/ JoinRegister(k) \/ SendSave(k)
       \/ EditRead(k) \/ EditSave(k) \/ EditDetect(k)
       \/ SoftDelete(k) \/ InvalidateCache(k) \/ DeleteUnpin(k) \/ PinSave(k)
  \/ \E s \in Sockets : LeaveRoom(s) \/ Disconnect(s) \/ (\E id \in Stored : Unpin(s, id))
  \/ \E id \in Stored : Notify(id) \/ Age(id)
  \/ \E j \in jobs : ReadCache(j) \/ (\E L \in Answers : SaveTranslations(j, L))
  \/ Retranslate

ChatSpec == ChatInit /\ [][ChatNext]_chatVars

----------------------------------------------------------------------------
(* Properties.                                                             *)

Flight ==
  {Idle} \cup [op: {"join"}, socket: Sockets]
    \cup [op: {"send"}, user: Users, text: Contents]
    \cup [op: {"reread", "detect"}, id: Ids, text: Contents]
    \cup [op: {"save"}, id: Ids, text: Contents, deleted: BOOLEAN]
    \cup [op: {"softDelete", "invalidate", "unpin", "pin"}, id: Ids]

\* Types; only stored messages are pinned, cached, translated or announced, and a message
\* without a row in the cache has no translations.
ChatTypeOK ==
  /\ open \subseteq Sockets /\ roomUsers \subseteq Sockets /\ userRooms \subseteq Sockets
  /\ late \subseteq Sockets
  /\ view \in [Sockets -> SUBSET Users]
  /\ sent \in 0..MaxMessages
  /\ \A id \in Ids : message[id] \in (IF id <= sent THEN Message ELSE {Idle})
  /\ pins \subseteq Stored /\ cached \subseteq Stored /\ notices \subseteq Stored
  /\ cache \in [Ids -> Translations]
  /\ \A id \in Ids \ cached : cache[id] = Untranslated
  /\ \A j \in jobs : j \in Translating /\ j.id <= sent
  /\ \A k \in Slots :
       flight[k] \in Flight /\ ("id" \in DOMAIN flight[k] => flight[k].id <= sent)
  /\ requests \in 0..MaxRequests

\* What every client in the room shows is who is registered there: room_users, user_joined
\* and user_left add up (chat.gateway.ts, lines 138, 194-196, 236), whatever number of
\* sockets a user has.
RosterAgrees == \A s \in roomUsers \cap open : view[s] = UsersOf(roomUsers)

\* Once a message has been announced, every other member has had the event on an open
\* socket or a push, unless a socket of theirs was registered after it had disconnected
\* (chat.gateway.ts, line 191): such a socket passes for a connection for ever.
OthersReached ==
  [][\A id \in notices : \A u \in Users \ {message[id].author} :
       id \notin notices' => <<u, id>> \in reached' \/ u \in UsersOf(late)]_chatVars

\* With nothing under way for a message, its cached translations are those of its present
\* text, unless edits and translations of it overlapped or it was edited into a text that
\* is not translated (chat.gateway.ts, lines 425-433; translate.service.ts, line 680).
TranslationsAreCurrent ==
  \A id \in Stored \ mixed :
    ~Unsettled(id) => \A l \in Languages : cache[id][l] \in {NoText, message[id].text}

\* A message deleted while no edit of it was suspended never shows again, whatever edits,
\* pins and translations follow: later edits save the deletion they have read
\* (messages.service.ts, lines 255-268).
DeletedStaysDeleted == \A id \in gone : message[id].deleted

\* "forceRefresh:true ensures stale cache is never used after edit" (chat.gateway.ts, line
\* 425): once an edit has been dealt with, no translation of the text before it remains.
NoStaleTranslation ==
  \A id \in Stored :
    ~Unsettled(id) => \A l \in Languages : cache[id][l] \in {NoText, message[id].text}
=============================================================================
