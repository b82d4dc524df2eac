------------------------- MODULE ChatMessages_proofs -------------------------
(***************************************************************************)
(* Theorems about ChatMessages, for any users, sockets, texts, languages   *)
(* and bounds.                                                             *)
(***************************************************************************)
EXTENDS ChatMessages, TLAPS

USE ChatAssumption

-----------------------------------------------------------------------------
(* Who writes what.                                                        *)

\* Rooms and what clients show of them change with joins, leaves and disconnections.
LEMMA PresenceKept ==
  ASSUME [ChatNext]_chatVars,
         \A k \in Slots : ~JoinRegister(k),
         \A s \in Sockets : ~LeaveRoom(s) /\ ~Disconnect(s)
  PROVE  UNCHANGED presence
<1> USE DEF presence
<1>1. ASSUME NEW k \in Slots, NEW s \in Sockets,
             \/ JoinRoom(k, s)
             \/ \E text \in Contents : Send(k, s, text) \/ Reply(k, s, text)
             \/ \E id \in Stored :
                  \/ \E text \in Contents : EditFind(k, s, id, text)
                  \/ DeleteFind(k, s, id) \/ PinFind(k, s, id)
      PROVE  UNCHANGED presence
  BY <1>1 DEF JoinRoom, Send, Reply, EditFind, DeleteFind, PinFind
<1>2. ASSUME NEW k \in Slots,
             \/ SendSave(k) \/ EditRead(k) \/ EditSave(k) \/ EditDetect(k)
             \/ SoftDelete(k) \/ InvalidateCache(k) \/ DeleteUnpin(k) \/ PinSave(k)
      PROVE  UNCHANGED presence
  BY <1>2 DEF SendSave, EditRead, EditSave, EditDetect, SoftDelete, InvalidateCache,
              DeleteUnpin, PinSave
<1>3. ASSUME NEW id \in Stored, Notify(id) \/ Age(id) \/ \E s \in Sockets : Unpin(s, id)
      PROVE  UNCHANGED presence
  BY <1>3 DEF Notify, Age, Unpin
<1>4. ASSUME NEW j \in jobs, ReadCache(j) \/ \E L \in Answers : SaveTranslations(j, L)
      PROVE  UNCHANGED presence
  BY <1>4 DEF ReadCache, SaveTranslations
<1>5. CASE Retranslate
  BY <1>5 DEF Retranslate
<1>6. CASE UNCHANGED chatVars
  BY <1>6 DEF chatVars
<1> QED BY <1>1, <1>2, <1>3, <1>4, <1>5, <1>6 DEF ChatNext

\* Rows of messages change when one is stored, grows old, is edited or deleted.
LEMMA MessagesKept ==
  ASSUME [ChatNext]_chatVars,
         \A k \in Slots : ~SendSave(k) /\ ~EditSave(k) /\ ~SoftDelete(k),
         \A id \in Stored : ~Age(id)
  PROVE  UNCHANGED <<sent, message>>
<1> USE DEF store
<1>1. ASSUME NEW k \in Slots, NEW s \in Sockets,
             \/ JoinRoom(k, s)
             \/ \E text \in Contents : Send(k, s, text) \/ Reply(k, s, text)
             \/ \E id \in Stored :
                  \/ \E text \in Contents : EditFind(k, s, id, text)
                  \/ DeleteFind(k, s, id) \/ PinFind(k, s, id)
      PROVE  UNCHANGED <<sent, message>>
  BY <1>1 DEF JoinRoom, Send, Reply, EditFind, DeleteFind, PinFind
<1>2. ASSUME NEW k \in Slots,
             \/ JoinRegister(k) \/ EditRead(k) \/ EditDetect(k)
             \/ InvalidateCache(k) \/ DeleteUnpin(k) \/ PinSave(k)
      PROVE  UNCHANGED <<sent, message>>
  BY <1>2 DEF JoinRegister, EditRead, EditDetect, InvalidateCache, DeleteUnpin, PinSave
<1>3. ASSUME NEW s \in Sockets, LeaveRoom(s) \/ Disconnect(s) \/ \E id \in Stored : Unpin(s, id)
      PROVE  UNCHANGED <<sent, message>>
  BY <1>3 DEF LeaveRoom, Disconnect, Unpin
<1>4. ASSUME NEW j \in jobs, ReadCache(j) \/ \E L \in Answers : SaveTranslations(j, L)
      PROVE  UNCHANGED <<sent, message>>
  BY <1>4 DEF ReadCache, SaveTranslations
<1>5. CASE Retranslate \/ \E id \in Stored : Notify(id)
  BY <1>5 DEF Retranslate, Notify
<1>6. CASE UNCHANGED chatVars
  BY <1>6 DEF chatVars
<1> QED BY <1>1, <1>2, <1>3, <1>4, <1>5, <1>6 DEF ChatNext

\* The cache and the jobs change when something is sent, edited or deleted, and when a
\* job goes on.
LEMMA TranslationKept ==
  ASSUME [ChatNext]_chatVars,
         \A k \in Slots :
           ~SendSave(k) /\ ~EditSave(k) /\ ~EditDetect(k) /\ ~InvalidateCache(k),
         \A j \in jobs : ~ReadCache(j) /\ \A L \in Answers : ~SaveTranslations(j, L),
         ~Retranslate
  PROVE  UNCHANGED translation
<1> USE DEF translation
<1>1. ASSUME NEW k \in Slots, NEW s \in Sockets,
             \/ JoinRoom(k, s)
             \/ \E text \in Contents : Send(k, s, text) \/ Reply(k, s, text)
             \/ \E id \in Stored :
                  \/ \E text \in Contents : EditFind(k, s, id, text)
                  \/ DeleteFind(k, s, id) \/ PinFind(k, s, id)
      PROVE  UNCHANGED translation
  BY <1>1 DEF JoinRoom, Send, Reply, EditFind, DeleteFind, PinFind
<1>2. ASSUME NEW k \in Slots,
             JoinRegister(k) \/ EditRead(k) \/ SoftDelete(k) \/ DeleteUnpin(k) \/ PinSave(k)
      PROVE  UNCHANGED translation
  BY <1>2 DEF JoinRegister, EditRead, SoftDelete, DeleteUnpin, PinSave
<1>3. ASSUME NEW s \in Sockets, LeaveRoom(s) \/ Disconnect(s) \/ \E id \in Stored : Unpin(s, id)
      PROVE  UNCHANGED translation
  BY <1>3 DEF LeaveRoom, Disconnect, Unpin
<1>4. ASSUME NEW id \in Stored, Notify(id) \/ Age(id)
      PROVE  UNCHANGED translation
  BY <1>4 DEF Notify, Age
<1>5. CASE UNCHANGED chatVars
  BY <1>5 DEF chatVars
<1> QED BY <1>1, <1>2, <1>3, <1>4, <1>5 DEF ChatNext

-----------------------------------------------------------------------------
(* Types.                                                                  *)

PresenceTypes ==
  /\ open \subseteq Sockets /\ roomUsers \subseteq Sockets /\ userRooms \subseteq Sockets
  /\ late \subseteq Sockets
  /\ view \in [Sockets -> SUBSET Users]

MessageTypes ==
  /\ sent \in 0..MaxMessages
  /\ message \in [Ids -> Message \cup {Idle}]
  /\ \A id \in Ids : message[id] \in (IF id <= sent THEN Message ELSE {Idle})

PinTypes == pins \subseteq Stored /\ notices \subseteq Stored

TranslationTypes ==
  /\ cached \subseteq Stored
  /\ cache \in [Ids -> Translations]
  /\ \A id \in Ids \ cached : cache[id] = Untranslated
  /\ \A j \in jobs : j \in Translating /\ j.id <= sent

\* What a suspended handler knows of a message is that it is stored.
OnMessages == {"reread", "detect", "save", "softDelete", "invalidate", "unpin", "pin"}

FlightTypes ==
  /\ flight \in [Slots -> Flight]
  /\ \A k \in Slots : flight[k].op \in OnMessages => flight[k].id <= sent

Types ==
  /\ PresenceTypes /\ MessageTypes /\ PinTypes /\ TranslationTypes /\ FlightTypes
  /\ requests \in 0..MaxRequests

\* What the operation of a handler says of it.
LEMMA FlightFields ==
  ASSUME NEW f \in Flight
  PROVE  /\ f.op = "join" => f.socket \in Sockets
         /\ f.op = "send" => f.user \in Users /\ f.text \in Contents
         /\ f.op \in {"reread", "save", "detect"} => f.text \in Contents
         /\ f.op = "save" => f.deleted \in BOOLEAN
         /\ f.op \in OnMessages => f.id \in Ids
<1>1. CASE f \in [op: {"join"}, socket: Sockets]
  BY <1>1 DEF OnMessages
<1>2. CASE f \in [op: {"send"}, user: Users, text: Contents]
  BY <1>2 DEF OnMessages
<1>3. CASE f \in [op: {"reread", "detect"}, id: Ids, text: Contents]
  BY <1>3 DEF OnMessages
<1>4. CASE f \in [op: {"save"}, id: Ids, text: Contents, deleted: BOOLEAN]
  BY <1>4 DEF OnMessages
<1>5. CASE f \in [op: {"softDelete", "invalidate", "unpin", "pin"}, id: Ids]
  BY <1>5 DEF OnMessages
<1>6. CASE f = Idle
  BY <1>6 DEF Idle, OnMessages
<1> QED BY <1>1, <1>2, <1>3, <1>4, <1>5, <1>6 DEF Flight

\* Handlers of the right shape.
LEMMA FlightShapes ==
  /\ Idle \in Flight /\ Idle.op = "idle"
  /\ \A s \in Sockets : [op |-> "join", socket |-> s] \in Flight
  /\ \A u \in Users, t \in Contents : [op |-> "send", user |-> u, text |-> t] \in Flight
  /\ \A id \in Ids, t \in Contents :
       /\ [op |-> "reread", id |-> id, text |-> t] \in Flight
       /\ [op |-> "detect", id |-> id, text |-> t] \in Flight
  /\ \A id \in Ids, t \in Contents, d \in BOOLEAN :
       [op |-> "save", id |-> id, text |-> t, deleted |-> d] \in Flight
  /\ \A id \in Ids : /\ [op |-> "softDelete", id |-> id] \in Flight
                     /\ [op |-> "invalidate", id |-> id] \in Flight
                     /\ [op |-> "unpin", id |-> id] \in Flight
                     /\ [op |-> "pin", id |-> id] \in Flight
BY DEF Flight, Idle

LEMMA TypesInit == ChatInit => Types
<1> SUFFICES ASSUME ChatInit PROVE Types
  OBVIOUS
<1> USE DEF ChatInit
<1>1. PresenceTypes
  BY DEF PresenceTypes
<1>2. MessageTypes
  BY DEF MessageTypes, Ids
<1>3. PinTypes
  BY DEF PinTypes
<1>4. TranslationTypes
  BY DEF TranslationTypes, Translations, Untranslated
<1>5. FlightTypes
  BY FlightShapes DEF FlightTypes, OnMessages
<1> QED BY <1>1, <1>2, <1>3, <1>4, <1>5 DEF Types

LEMMA PresenceTypesStep == Types /\ [ChatNext]_chatVars => PresenceTypes'
<1> SUFFICES ASSUME Types, [ChatNext]_chatVars PROVE PresenceTypes'
  OBVIOUS
<1> USE DEF Types, PresenceTypes
<1>1. ASSUME NEW k \in Slots, JoinRegister(k) PROVE PresenceTypes'
  <2>1. flight[k].socket \in Sockets
    BY <1>1, FlightFields DEF FlightTypes, JoinRegister
  <2> QED BY <1>1, <2>1 DEF JoinRegister, Announce, UsersOf
<1>2. ASSUME NEW s \in Sockets, LeaveRoom(s) \/ Disconnect(s) PROVE PresenceTypes'
  BY <1>2 DEF LeaveRoom, Disconnect, Retract
<1> QED BY <1>1, <1>2, PresenceKept DEF presence

\* The messages stay in their rows when a later one is stored.
LEMMA MessageTypesStep == Types /\ [ChatNext]_chatVars => MessageTypes' /\ sent <= sent'
<1> SUFFICES ASSUME Types, [ChatNext]_chatVars PROVE MessageTypes' /\ sent <= sent'
  OBVIOUS
<1> USE DEF Types, MessageTypes, Ids
<1>1. ASSUME NEW k \in Slots, SendSave(k) PROVE MessageTypes' /\ sent <= sent'
  <2>1. flight[k].user \in Users /\ flight[k].text \in Contents
    BY <1>1, FlightFields DEF FlightTypes, SendSave
  <2> DEFINE m == [author |-> flight[k].user, text |-> flight[k].text,
                   known |-> Translatable(flight[k].text), deleted |-> FALSE, young |-> TRUE]
  <2>2. m \in Message
    BY <2>1 DEF Message, Translatable
  <2>3. sent + 1 \in Ids /\ sent' = sent + 1 /\ message' = [message EXCEPT ![sent + 1] = m]
    BY <1>1 DEF SendSave
  <2> HIDE DEF m
  <2> QED BY <2>2, <2>3
<1>2. ASSUME NEW k \in Slots, EditSave(k) PROVE MessageTypes' /\ sent <= sent'
  <2> DEFINE f == flight[k]
  <2>1. f.id \in Ids /\ f.text \in Contents /\ f.deleted \in BOOLEAN /\ f.id <= sent
    BY <1>2, FlightFields DEF FlightTypes, EditSave, OnMessages
  <2>2. message[f.id] \in Message
    BY <2>1
  <2>3. [author |-> message[f.id].author, text |-> f.text, known |-> message[f.id].known,
         deleted |-> f.deleted, young |-> message[f.id].young] \in Message
    BY <2>1, <2>2 DEF Message
  <2> QED BY <1>2, <2>1, <2>3 DEF EditSave, Edited
<1>3. ASSUME NEW k \in Slots, SoftDelete(k) PROVE MessageTypes' /\ sent <= sent'
  <2>1. flight[k].id \in Ids /\ flight[k].id <= sent
    BY <1>3, FlightFields DEF FlightTypes, SoftDelete, OnMessages
  <2> DEFINE m == [message[flight[k].id] EXCEPT !.deleted = TRUE]
  <2>2. m \in Message
    BY <2>1 DEF Message
  <2>3. UNCHANGED sent /\ message' = [message EXCEPT ![flight[k].id] = m]
    BY <1>3 DEF SoftDelete
  <2> HIDE DEF m
  <2> QED BY <2>1, <2>2, <2>3
<1>4. ASSUME NEW id \in Stored, Age(id) PROVE MessageTypes' /\ sent <= sent'
  <2> DEFINE m == [message[id] EXCEPT !.young = FALSE]
  <2>1. id \in Ids /\ id <= sent /\ message[id] \in Message
    BY DEF Stored
  <2>2. m \in Message
    BY <2>1 DEF Message
  <2>3. UNCHANGED sent /\ message' = [message EXCEPT ![id] = m]
    BY <1>4 DEF Age
  <2> HIDE DEF m
  <2> QED BY <2>1, <2>2, <2>3
<1> QED BY <1>1, <1>2, <1>3, <1>4, MessagesKept

LEMMA PinTypesStep == Types /\ [ChatNext]_chatVars => PinTypes'
<1> SUFFICES ASSUME Types, [ChatNext]_chatVars PROVE PinTypes'
  OBVIOUS
<1> USE DEF Types, PinTypes, Stored
<1>0. sent \in Nat /\ sent' \in Nat /\ sent <= sent'
  BY MessageTypesStep DEF MessageTypes
<1>1. ASSUME NEW k \in Slots, SendSave(k) PROVE PinTypes'
  BY <1>0, <1>1 DEF SendSave
<1>2. ASSUME NEW k \in Slots, DeleteUnpin(k) PROVE PinTypes'
  BY <1>2 DEF DeleteUnpin, told
<1>3. ASSUME NEW k \in Slots, PinSave(k) PROVE PinTypes'
  <2>1. flight[k].id \in Stored
    BY <1>3, FlightFields DEF FlightTypes, PinSave, OnMessages, Ids
  <2> QED BY <1>3, <2>1 DEF PinSave, told
<1>4. ASSUME NEW id \in Stored, Notify(id) \/ Age(id) \/ \E s \in Sockets : Unpin(s, id)
      PROVE  PinTypes'
  BY <1>4 DEF Notify, Age, Unpin, store, told
<1>5. ASSUME NEW k \in Slots, NEW s \in Sockets,
             \/ JoinRoom(k, s)
             \/ \E text \in Contents : Send(k, s, text) \/ Reply(k, s, text)
             \/ \E id \in Stored :
                  \/ \E text \in Contents : EditFind(k, s, id, text)
                  \/ DeleteFind(k, s, id) \/ PinFind(k, s, id)
      PROVE  PinTypes'
  BY <1>5 DEF JoinRoom, Send, Reply, EditFind, DeleteFind, PinFind, store, told
<1>6. ASSUME NEW k \in Slots,
             \/ JoinRegister(k) \/ EditRead(k) \/ EditSave(k) \/ EditDetect(k)
             \/ SoftDelete(k) \/ InvalidateCache(k)
      PROVE  PinTypes'
  BY <1>6 DEF JoinRegister, EditRead, EditSave, EditDetect, SoftDelete, InvalidateCache,
              store, told
<1>7. ASSUME NEW s \in Sockets, LeaveRoom(s) \/ Disconnect(s) PROVE PinTypes'
  BY <1>7 DEF LeaveRoom, Disconnect, store, told
<1>8. ASSUME NEW j \in jobs, ReadCache(j) \/ \E L \in Answers : SaveTranslations(j, L)
      PROVE  PinTypes'
  BY <1>8 DEF ReadCache, SaveTranslations, store, told
<1>9. CASE Retranslate \/ UNCHANGED chatVars
  BY <1>9 DEF Retranslate, chatVars, store, told
<1> QED BY <1>1, <1>2, <1>3, <1>4, <1>5, <1>6, <1>7, <1>8, <1>9 DEF ChatNext

\* The languages of a job that is saved.
LEMMA MergedTypes ==
  ASSUME NEW j \in Translating, NEW L PROVE Merged(j, L) \in Translations
BY DEF Merged, Translating, Translations

LEMMA TranslationTypesStep == Types /\ [ChatNext]_chatVars => TranslationTypes'
<1> SUFFICES ASSUME Types, [ChatNext]_chatVars PROVE TranslationTypes'
  OBVIOUS
<1> USE DEF Types, TranslationTypes, Stored
<1>0. /\ sent \in 0..MaxMessages /\ sent' \in 0..MaxMessages /\ sent <= sent'
      /\ \A j \in jobs : j.id \in Nat /\ j.id <= sent'
  <2>1. sent \in 0..MaxMessages /\ sent' \in 0..MaxMessages /\ sent <= sent'
    BY MessageTypesStep DEF MessageTypes
  <2>2. \A j \in jobs : j.id \in Nat
    BY DEF Translating, Ids
  <2> QED BY <2>1, <2>2
<1>1. ASSUME NEW k \in Slots, SendSave(k) PROVE TranslationTypes'
  <2>1. flight[k].text \in Contents /\ sent + 1 \in Ids /\ sent' = sent + 1
    BY <1>0, <1>1, FlightFields DEF FlightTypes, SendSave, Ids
  <2> DEFINE new == Job(sent + 1, flight[k].text, FALSE)
  <2>2. new \in Translating /\ new.id = sent'
    BY <2>1 DEF Job, Translating, Translations, Untranslated
  <2>3. jobs' \subseteq jobs \cup {new}
    BY <1>1 DEF SendSave, Dispatch
  <2> HIDE DEF new
  <2>4. \A j \in jobs' : j \in Translating /\ j.id <= sent'
    BY <1>0, <2>2, <2>3
  <2>5. cached' = cached /\ cache' = cache
    BY <1>1 DEF SendSave
  <2> QED BY <1>0, <2>4, <2>5
<1>2. ASSUME NEW k \in Slots, EditDetect(k) PROVE TranslationTypes'
  <2>1. flight[k].text \in Contents /\ flight[k].id \in Ids /\ flight[k].id <= sent
    BY <1>2, FlightFields DEF FlightTypes, EditDetect, OnMessages
  <2> DEFINE new == Job(flight[k].id, flight[k].text, TRUE)
  <2>2. new \in Translating /\ new.id <= sent
    BY <2>1 DEF Job, Translating, Translations, Untranslated
  <2>3. jobs' \subseteq jobs \cup {new}
    BY <1>2 DEF EditDetect, Dispatch
  <2> HIDE DEF new
  <2>4. \A j \in jobs' : j \in Translating /\ j.id <= sent
    BY <2>2, <2>3
  <2> QED BY <1>2, <2>4 DEF EditDetect, store
<1>3. ASSUME NEW k \in Slots, InvalidateCache(k) PROVE TranslationTypes'
  <2>1. Untranslated \in Translations
    BY DEF Untranslated, Translations
  <2> QED BY <1>3, <2>1 DEF InvalidateCache, store
<1>4. ASSUME NEW k \in Slots, EditSave(k) PROVE TranslationTypes'
  BY <1>4 DEF EditSave
<1>5. ASSUME NEW j \in jobs, ReadCache(j) PROVE TranslationTypes'
  <2> DEFINE read == [j EXCEPT !.read = TRUE, !.base = cache[j.id]]
  <2>1. read \in Translating /\ read.id = j.id
    BY DEF Translating
  <2>2. jobs' = (jobs \ {j}) \cup {read}
    BY <1>5 DEF ReadCache
  <2> HIDE DEF read
  <2> QED BY <1>5, <2>1, <2>2 DEF ReadCache, store
<1>6. ASSUME NEW j \in jobs, NEW L \in Answers, SaveTranslations(j, L)
      PROVE  TranslationTypes'
  <2>1. Merged(j, L) \in Translations /\ j.id \in Ids /\ j.id \in Stored
    BY MergedTypes DEF Translating, Ids
  <2> QED BY <1>6, <2>1 DEF SaveTranslations, store
<1>7. CASE Retranslate
  <2>1. \A id \in Stored : message[id].known \in BOOLEAN /\ message[id].text \in Contents
    BY <1>0 DEF MessageTypes, Message, Ids
  <2>2. \A j \in jobs' \ jobs : \E id \in Stored : j = Job(id, message[id].text, FALSE)
    BY <1>7 DEF Retranslate
  <2>3. \A j \in jobs' \ jobs : j \in Translating /\ j.id <= sent
    <3> TAKE j \in jobs' \ jobs
    <3>1. PICK id \in Stored : j = Job(id, message[id].text, FALSE)
      BY <2>2
    <3>2. id \in Ids /\ id <= sent
      BY <1>0 DEF Ids
    <3> QED BY <2>1, <3>1, <3>2 DEF Job, Translating, Translations, Untranslated
  <2> QED BY <1>7, <2>3 DEF Retranslate, store
<1>8. CASE UNCHANGED translation
  BY <1>0, <1>8 DEF translation
<1> QED BY <1>1, <1>2, <1>3, <1>4, <1>5, <1>6, <1>7, <1>8, TranslationKept

\* A handler that begins, goes on or ends is of the right shape and on a stored message.
LEMMA FlightMoves ==
  ASSUME Types, [ChatNext]_chatVars, NEW k \in Slots, NEW f \in Flight,
         f.op \in OnMessages => f.id <= sent,
         flight' = [flight EXCEPT ![k] = f]
  PROVE  FlightTypes'
<1>1. sent \in Nat /\ sent' \in Nat /\ sent <= sent'
  BY MessageTypesStep DEF Types, MessageTypes
<1>2. \A i \in Slots : flight[i].op \in OnMessages => flight[i].id \in Nat
  BY FlightFields DEF Types, FlightTypes, Ids
<1>3. f.op \in OnMessages => f.id \in Nat
  BY FlightFields DEF Ids
<1> QED BY <1>1, <1>2, <1>3 DEF Types, FlightTypes

LEMMA FlightTypesStep == Types /\ [ChatNext]_chatVars => FlightTypes'
<1> SUFFICES ASSUME Types, [ChatNext]_chatVars PROVE FlightTypes'
  OBVIOUS
<1>0. /\ sent \in Nat
      /\ \A k \in Slots :
           /\ flight[k] \in Flight
           /\ flight[k].op \in OnMessages => flight[k].id \in Ids /\ flight[k].id <= sent
           /\ flight[k].op \in {"reread", "save", "detect"} => flight[k].text \in Contents
  <2>1. sent \in Nat
    BY DEF Types, MessageTypes
  <2>2. ASSUME NEW k \in Slots PROVE flight[k] \in Flight
    BY DEF Types, FlightTypes
  <2>3. ASSUME NEW k \in Slots
        PROVE  /\ flight[k].op \in OnMessages => flight[k].id \in Ids
               /\ flight[k].op \in {"reread", "save", "detect"} => flight[k].text \in Contents
    BY ONLY <2>2, FlightFields, k \in Slots
  <2>4. ASSUME NEW k \in Slots PROVE flight[k].op \in OnMessages => flight[k].id <= sent
    BY DEF Types, FlightTypes
  <2> QED BY <2>1, <2>2, <2>3, <2>4
<1>a. \A id \in Stored : id \in Ids /\ id <= sent
  BY DEF Types, MessageTypes, Stored, Ids
<1> USE DEF OnMessages
<1>1. ASSUME NEW k \in Slots, NEW s \in Sockets, JoinRoom(k, s) PROVE FlightTypes'
  <2> DEFINE f == [op |-> "join", socket |-> s]
  <2>1. f \in Flight /\ f.op = "join"
    BY FlightShapes
  <2>2. flight' = [flight EXCEPT ![k] = f]
    BY <1>1 DEF JoinRoom, Start
  <2> HIDE DEF f
  <2> QED BY <2>1, <2>2, FlightMoves
<1>2. ASSUME NEW k \in Slots, NEW s \in Sockets, NEW text \in Contents,
             Send(k, s, text) \/ Reply(k, s, text)
      PROVE  FlightTypes'
  <2> DEFINE f == [op |-> "send", user |-> UserOf[s], text |-> text]
  <2>1. f \in Flight /\ f.op = "send"
    BY FlightShapes
  <2>2. flight' = [flight EXCEPT ![k] = f]
    BY <1>2 DEF Send, Reply, Start
  <2> HIDE DEF f
  <2> QED BY <2>1, <2>2, FlightMoves
<1>3. ASSUME NEW k \in Slots, NEW s \in Sockets, NEW id \in Stored, NEW text \in Contents,
             EditFind(k, s, id, text)
      PROVE  FlightTypes'
  <2> DEFINE f == [op |-> "reread", id |-> id, text |-> text]
  <2>1. f \in Flight /\ f.op = "reread" /\ f.id <= sent
    BY <1>a, FlightShapes
  <2>2. flight' = [flight EXCEPT ![k] = f]
    BY <1>3 DEF EditFind, Start
  <2> HIDE DEF f
  <2> QED BY <2>1, <2>2, FlightMoves
<1>4. ASSUME NEW k \in Slots, NEW s \in Sockets, NEW id \in Stored, DeleteFind(k, s, id)
      PROVE  FlightTypes'
  <2> DEFINE f == [op |-> "softDelete", id |-> id]
  <2>1. f \in Flight /\ f.op = "softDelete" /\ f.id <= sent
    BY <1>a, FlightShapes
  <2>2. flight' = [flight EXCEPT ![k] = f]
    BY <1>4 DEF DeleteFind, Start
  <2> HIDE DEF f
  <2> QED BY <2>1, <2>2, FlightMoves
<1>5. ASSUME NEW k \in Slots, NEW s \in Sockets, NEW id \in Stored, PinFind(k, s, id)
      PROVE  FlightTypes'
  <2> DEFINE f == [op |-> "pin", id |-> id]
  <2>1. f \in Flight /\ f.op = "pin" /\ f.id <= sent
    BY <1>a, FlightShapes
  <2>2. flight' = [flight EXCEPT ![k] = f]
    BY <1>5 DEF PinFind, Start
  <2> HIDE DEF f
  <2> QED BY <2>1, <2>2, FlightMoves
<1>6. ASSUME NEW k \in Slots, EditRead(k) PROVE FlightTypes'
  <2> DEFINE f == [op |-> "save", id |-> flight[k].id, text |-> flight[k].text,
                   deleted |-> message[flight[k].id].deleted]
  <2>1. flight[k].id \in Ids /\ flight[k].id <= sent /\ flight[k].text \in Contents
    BY <1>0, <1>6 DEF EditRead
  <2>2. message[flight[k].id].deleted \in BOOLEAN
    BY <2>1 DEF Types, MessageTypes, Message
  <2>3. f \in Flight /\ f.op = "save" /\ f.id <= sent
    BY <2>1, <2>2, FlightShapes
  <2>4. flight' = [flight EXCEPT ![k] = f]
    BY <1>6 DEF EditRead, Go
  <2> HIDE DEF f
  <2> QED BY <2>3, <2>4, FlightMoves
<1>7. ASSUME NEW k \in Slots, EditSave(k) PROVE FlightTypes'
  <2> DEFINE f == [op |-> "detect", id |-> flight[k].id, text |-> flight[k].text]
  <2>1. flight[k].id \in Ids /\ flight[k].id <= sent /\ flight[k].text \in Contents
    BY <1>0, <1>7 DEF EditSave
  <2>2. f \in Flight /\ f.op = "detect" /\ f.id <= sent
    BY <2>1, FlightShapes
  <2>3. flight' = [flight EXCEPT ![k] = f]
    BY <1>7 DEF EditSave, Go
  <2> HIDE DEF f
  <2> QED BY <2>2, <2>3, FlightMoves
<1>8. ASSUME NEW k \in Slots, SoftDelete(k) PROVE FlightTypes'
  <2> DEFINE f == [op |-> "invalidate", id |-> flight[k].id]
  <2>1. flight[k].id \in Ids /\ flight[k].id <= sent
    BY <1>0, <1>8 DEF SoftDelete
  <2>2. f \in Flight /\ f.op = "invalidate" /\ f.id <= sent
    BY <2>1, FlightShapes
  <2>3. flight' = [flight EXCEPT ![k] = f]
    BY <1>8 DEF SoftDelete, Go
  <2> HIDE DEF f
  <2> QED BY <2>2, <2>3, FlightMoves
<1>9. ASSUME NEW k \in Slots, InvalidateCache(k) PROVE FlightTypes'
  <2> DEFINE f == [op |-> "unpin", id |-> flight[k].id]
  <2>1. flight[k].id \in Ids /\ flight[k].id <= sent
    BY <1>0, <1>9 DEF InvalidateCache
  <2>2. f \in Flight /\ f.op = "unpin" /\ f.id <= sent
    BY <2>1, FlightShapes
  <2>3. flight' = [flight EXCEPT ![k] = f]
    BY <1>9 DEF InvalidateCache, Go
  <2> HIDE DEF f
  <2> QED BY <2>2, <2>3, FlightMoves
<1>10. ASSUME NEW k \in Slots,
              JoinRegister(k) \/ SendSave(k) \/ EditDetect(k) \/ DeleteUnpin(k) \/ PinSave(k)
       PROVE  FlightTypes'
  <2>1. flight' = [flight EXCEPT ![k] = Idle]
    BY <1>10 DEF JoinRegister, SendSave, EditDetect, DeleteUnpin, PinSave, Finish, Go
  <2> QED BY <2>1, FlightShapes, FlightMoves
<1>11. ASSUME \/ \E s \in Sockets :
                   LeaveRoom(s) \/ Disconnect(s) \/ \E id \in Stored : Unpin(s, id)
              \/ \E id \in Stored : Notify(id) \/ Age(id)
              \/ \E j \in jobs : ReadCache(j) \/ \E L \in Answers : SaveTranslations(j, L)
              \/ Retranslate \/ UNCHANGED chatVars
       PROVE  FlightTypes'
  <2>1. UNCHANGED <<sent, flight>>
    BY <1>11 DEF LeaveRoom, Disconnect, Unpin, Notify, Age, ReadCache, SaveTranslations,
                 Retranslate, store, chatVars
  <2> QED BY <2>1 DEF Types, FlightTypes
<1> QED BY <1>1, <1>2, <1>3, <1>4, <1>5, <1>6, <1>7, <1>8, <1>9, <1>10, <1>11 DEF ChatNext

LEMMA RequestsStep == Types /\ [ChatNext]_chatVars => requests' \in 0..MaxRequests
<1> SUFFICES ASSUME Types, [ChatNext]_chatVars PROVE requests' \in 0..MaxRequests
  OBVIOUS
<1>1. requests' = requests \/ Ask
  <2>1. ASSUME NEW k \in Slots, NEW s \in Sockets,
               \/ JoinRoom(k, s)
               \/ \E text \in Contents : Send(k, s, text) \/ Reply(k, s, text)
               \/ \E id \in Stored :
                    \/ \E text \in Contents : EditFind(k, s, id, text)
                    \/ DeleteFind(k, s, id) \/ PinFind(k, s, id)
        PROVE  Ask
    BY <2>1 DEF JoinRoom, Send, Reply, EditFind, DeleteFind, PinFind, Start
  <2>2. ASSUME NEW k \in Slots,
               \/ JoinRegister(k) \/ SendSave(k) \/ EditRead(k) \/ EditSave(k)
               \/ EditDetect(k) \/ SoftDelete(k) \/ InvalidateCache(k)
               \/ DeleteUnpin(k) \/ PinSave(k)
        PROVE  requests' = requests
    BY <2>2 DEF JoinRegister, SendSave, EditRead, EditSave, EditDetect, SoftDelete,
                InvalidateCache, DeleteUnpin, PinSave
  <2>3. ASSUME NEW s \in Sockets, LeaveRoom(s) \/ \E id \in Stored : Unpin(s, id)
        PROVE  Ask
    BY <2>3 DEF LeaveRoom, Unpin
  <2>4. CASE \/ \E s \in Sockets : Disconnect(s)
             \/ \E id \in Stored : Notify(id) \/ Age(id)
             \/ \E j \in jobs : ReadCache(j) \/ \E L \in Answers : SaveTranslations(j, L)
             \/ UNCHANGED chatVars
    BY <2>4 DEF Disconnect, Notify, Age, ReadCache, SaveTranslations, chatVars
  <2>5. CASE Retranslate
    BY <2>5 DEF Retranslate
  <2> QED BY <2>1, <2>2, <2>3, <2>4, <2>5 DEF ChatNext
<1> QED BY <1>1 DEF Types, Ask

\* Types hold in every state.
LEMMA TypesHold == ChatSpec => []Types
<1>1. Types /\ [ChatNext]_chatVars => Types'
  BY PresenceTypesStep, MessageTypesStep, PinTypesStep, TranslationTypesStep,
     FlightTypesStep, RequestsStep DEF Types
<1> QED BY TypesInit, <1>1, PTL DEF ChatSpec

\* Types of the messages, their translations and the handlers, whoever sends, edits,
\* deletes, joins and leaves.
THEOREM ChatTypeCorrect == ChatSpec => []ChatTypeOK
<1>1. Types => ChatTypeOK
  <2> SUFFICES ASSUME Types PROVE ChatTypeOK
    OBVIOUS
  <2>1. ASSUME NEW k \in Slots, "id" \in DOMAIN flight[k] PROVE flight[k].id <= sent
    <3>1. flight[k] \in Flight
      BY DEF Types, FlightTypes
    <3>2. flight[k].op \in OnMessages
      <4>1. CASE flight[k] = Idle
        BY <2>1, <4>1 DEF Idle
      <4>2. CASE flight[k] \in [op: {"join"}, socket: Sockets]
        BY <2>1, <4>2
      <4>3. CASE flight[k] \in [op: {"send"}, user: Users, text: Contents]
        BY <2>1, <4>3
      <4> QED BY <3>1, <4>1, <4>2, <4>3 DEF Flight, OnMessages
    <3> QED BY <3>2 DEF Types, FlightTypes
  <2> QED BY <2>1 DEF Types, PresenceTypes, MessageTypes, PinTypes, TranslationTypes,
                      FlightTypes, ChatTypeOK
<1> QED BY TypesHold, <1>1, PTL
-----------------------------------------------------------------------------
(* Presence and notices.                                                   *)

\* A user joins the users of a set of sockets with one of theirs, and leaves with the last.
LEMMA RosterStep == Types /\ RosterAgrees /\ [ChatNext]_chatVars => RosterAgrees'
<1> SUFFICES ASSUME Types, RosterAgrees, [ChatNext]_chatVars PROVE RosterAgrees'
  OBVIOUS
<1> USE DEF RosterAgrees
<1>0. roomUsers \subseteq Sockets /\ open \subseteq Sockets /\ view \in [Sockets -> SUBSET Users]
  BY DEF Types, PresenceTypes
<1>1. ASSUME NEW k \in Slots, JoinRegister(k) PROVE RosterAgrees'
  <2> DEFINE s == flight[k].socket
  <2>1. s \in Sockets
    BY <1>1, FlightFields DEF Types, FlightTypes, JoinRegister
  <2>2. roomUsers' = roomUsers \cup {s} /\ open' = open
    BY <1>1 DEF JoinRegister
  <2>3. UsersOf(roomUsers') = UsersOf(roomUsers) \cup {UserOf[s]}
    BY <2>2 DEF UsersOf
  <2>4. ASSUME NEW t \in roomUsers' \cap open' PROVE view'[t] = UsersOf(roomUsers')
    <3>1. CASE t = s
      BY <1>0, <1>1, <2>1, <2>2, <2>4, <3>1 DEF JoinRegister, Announce
    <3>2. CASE t # s
      <4>1. t \in roomUsers \cap open /\ t \in Sockets
        BY <1>0, <2>2, <2>4, <3>2
      <4>2. view'[t] = view[t] \cup {UserOf[s]}
        BY <1>1, <3>2, <4>1 DEF JoinRegister, Announce
      <4> QED BY <2>3, <4>1, <4>2
    <3> QED BY <3>1, <3>2
  <2> QED BY <2>4
<1>2. ASSUME NEW s \in Sockets, s \in roomUsers, LeaveRoom(s) \/ Disconnect(s)
      PROVE  RosterAgrees'
  <2>1. /\ roomUsers' = roomUsers \ {s} /\ open' \subseteq open
        /\ view' = [Retract(roomUsers', UserOf[s]) EXCEPT ![s] = {}]
    BY <1>2 DEF LeaveRoom, Disconnect
  <2>2. UsersOf(roomUsers') \ {UserOf[s]} = UsersOf(roomUsers) \ {UserOf[s]}
    BY <2>1 DEF UsersOf
  <2>3. UserOf[s] \in UsersOf(roomUsers)
    BY <1>2 DEF UsersOf
  <2>4. ASSUME NEW t \in roomUsers' \cap open' PROVE view'[t] = UsersOf(roomUsers')
    <3>1. t \in roomUsers \cap open /\ t # s /\ t \in Sockets
      BY <1>0, <2>1, <2>4
    <3>2. t \in open => view'[t] =
            IF UserOf[s] \notin UsersOf(roomUsers') THEN view[t] \ {UserOf[s]} ELSE view[t]
      BY <2>1, <2>4, <3>1 DEF Retract, LeaveRoom, Disconnect
    <3>3. view[t] = UsersOf(roomUsers)
      BY <3>1
    <3> QED BY <2>2, <2>3, <3>1, <3>2, <3>3
  <2> QED BY <2>4
<1>3. ASSUME NEW s \in Sockets, s \notin roomUsers, LeaveRoom(s) \/ Disconnect(s)
      PROVE  RosterAgrees'
  <2>1. roomUsers' = roomUsers /\ open' \subseteq open /\ view' = view
    BY <1>3 DEF LeaveRoom, Disconnect
  <2> QED BY <2>1
<1>4. CASE UNCHANGED presence
  BY <1>4 DEF presence, UsersOf
<1> QED BY <1>1, <1>2, <1>3, <1>4, PresenceKept

\* However many sockets members hold, join with, leave with and lose, clients in the room
\* show who is registered there.
THEOREM RosterAgreesCorrect == ChatSpec => []RosterAgrees
<1>1. ChatInit => RosterAgrees
  BY DEF ChatInit, RosterAgrees
<1> QED BY TypesHold, RosterStep, <1>1, PTL DEF ChatSpec

\* A socket in a user's room that is no longer connected was registered too late.
Ghosts == userRooms \ open \subseteq late

LEMMA GhostsStep == Ghosts /\ [ChatNext]_chatVars => Ghosts'
<1> SUFFICES ASSUME Ghosts, [ChatNext]_chatVars PROVE Ghosts'
  OBVIOUS
<1> USE DEF Ghosts
<1>1. ASSUME NEW k \in Slots, JoinRegister(k) PROVE Ghosts'
  BY <1>1 DEF JoinRegister
<1>2. ASSUME NEW s \in Sockets, LeaveRoom(s) \/ Disconnect(s) PROVE Ghosts'
  BY <1>2 DEF LeaveRoom, Disconnect
<1> QED BY <1>1, <1>2, PresenceKept DEF presence

\* Notices end when they are given.
LEMMA NoticesKept ==
  ASSUME [ChatNext]_chatVars, NEW id \in notices, id \notin notices'
  PROVE  Notify(id)
<1>1. ASSUME NEW k \in Slots, NEW s \in Sockets,
             \/ JoinRoom(k, s)
             \/ \E text \in Contents : Send(k, s, text) \/ Reply(k, s, text)
             \/ \E i \in Stored :
                  \/ \E text \in Contents : EditFind(k, s, i, text)
                  \/ DeleteFind(k, s, i) \/ PinFind(k, s, i)
      PROVE  UNCHANGED notices
  BY <1>1 DEF JoinRoom, Send, Reply, EditFind, DeleteFind, PinFind, told
<1>2. ASSUME NEW k \in Slots,
             \/ JoinRegister(k) \/ EditRead(k) \/ EditSave(k) \/ EditDetect(k)
             \/ SoftDelete(k) \/ InvalidateCache(k) \/ DeleteUnpin(k) \/ PinSave(k)
      PROVE  UNCHANGED notices
  BY <1>2 DEF JoinRegister, EditRead, EditSave, EditDetect, SoftDelete, InvalidateCache,
              DeleteUnpin, PinSave, told
<1>3. ASSUME NEW k \in Slots, SendSave(k) PROVE notices \subseteq notices'
  BY <1>3 DEF SendSave
<1>4. ASSUME NEW s \in Sockets, LeaveRoom(s) \/ Disconnect(s) \/ \E i \in Stored : Unpin(s, i)
      PROVE  UNCHANGED notices
  BY <1>4 DEF LeaveRoom, Disconnect, Unpin, told
<1>5. ASSUME NEW i \in Stored, Notify(i), i # id PROVE id \in notices'
  BY <1>5 DEF Notify
<1>6. ASSUME \/ \E i \in Stored : Age(i)
             \/ \E j \in jobs : ReadCache(j) \/ \E L \in Answers : SaveTranslations(j, L)
             \/ Retranslate \/ UNCHANGED chatVars
      PROVE  UNCHANGED notices
  BY <1>6 DEF Age, ReadCache, SaveTranslations, Retranslate, chatVars, told
<1> QED BY <1>1, <1>2, <1>3, <1>4, <1>5, <1>6 DEF ChatNext

\* A message is announced to every other member: by an event on an open socket, by a push
\* to who has none, and missed only by the user of a socket registered after its end.
THEOREM OthersReachedCorrect == ChatSpec => OthersReached
<1>1. ChatInit => Ghosts
  BY DEF ChatInit, Ghosts
<1>2. ASSUME Types, Ghosts, [ChatNext]_chatVars
      PROVE  [\A id \in notices : \A u \in Users \ {message[id].author} :
                id \notin notices' => <<u, id>> \in reached' \/ u \in UsersOf(late)]_chatVars
  <2> SUFFICES ASSUME NEW id \in notices, NEW u \in Users \ {message[id].author},
                      id \notin notices'
               PROVE  <<u, id>> \in reached' \/ u \in UsersOf(late)
    OBVIOUS
  <2>1. Notify(id)
    BY <1>2, NoticesKept
  <2>2. CASE Offline(u) \/ u \in UsersOf(userRooms \cap open)
    BY <2>1, <2>2 DEF Notify
  <2>3. CASE ~Offline(u) /\ u \notin UsersOf(userRooms \cap open)
    <3>1. PICK s \in userRooms : u = UserOf[s]
      BY <2>3 DEF Offline, UsersOf
    <3>2. s \in late
      BY <1>2, <2>3, <3>1 DEF Ghosts, UsersOf
    <3> QED BY <3>1, <3>2 DEF UsersOf
  <2> QED BY <2>2, <2>3
<1> QED BY <1>1, <1>2, TypesHold, GhostsStep, PTL DEF ChatSpec, OthersReached

-----------------------------------------------------------------------------
(* Deletion.                                                               *)

\* What a client asks for begins in a free slot.
LEMMA Begun ==
  ASSUME FlightTypes, NEW k \in Slots, NEW s \in Sockets,
         \/ JoinRoom(k, s)
         \/ \E text \in Contents : Send(k, s, text) \/ Reply(k, s, text)
         \/ \E id \in Stored :
              \/ \E text \in Contents : EditFind(k, s, id, text)
              \/ DeleteFind(k, s, id) \/ PinFind(k, s, id)
  PROVE  /\ flight[k] = Idle
         /\ flight'[k].op \in {"join", "send", "reread", "softDelete", "pin"}
         /\ \A i \in Slots \ {k} : flight'[i] = flight[i]
         /\ UNCHANGED <<presence, store, translation, told, gone>>
<1> USE DEF FlightTypes, Start
<1>1. CASE JoinRoom(k, s)
  BY <1>1 DEF JoinRoom
<1>2. CASE \E text \in Contents : Send(k, s, text) \/ Reply(k, s, text)
  BY <1>2 DEF Send, Reply
<1>3. CASE \E id \in Stored : \E text \in Contents : EditFind(k, s, id, text)
  BY <1>3 DEF EditFind
<1>4. CASE \E id \in Stored : DeleteFind(k, s, id)
  BY <1>4 DEF DeleteFind
<1>5. CASE \E id \in Stored : PinFind(k, s, id)
  BY <1>5 DEF PinFind
<1> QED BY <1>1, <1>2, <1>3, <1>4, <1>5

\* Edits of a deleted message have read the deletion.
Deletion ==
  /\ gone \subseteq Stored
  /\ \A id \in gone : message[id].deleted = TRUE
  /\ \A k \in Slots :
       flight[k].op = "save" /\ flight[k].id \in gone => flight[k].deleted = TRUE

LEMMA DeletionStep == Types /\ Deletion /\ [ChatNext]_chatVars => Deletion'
<1> SUFFICES ASSUME Types, Deletion, [ChatNext]_chatVars PROVE Deletion'
  OBVIOUS
<1> USE DEF Deletion
<1>0. /\ sent \in Nat /\ sent' \in Nat /\ sent <= sent'
      /\ Stored \subseteq Ids /\ Stored \subseteq Stored'
      /\ message \in [Ids -> Message \cup {Idle}] /\ flight \in [Slots -> Flight]
      /\ \A id \in Stored : message[id] \in Message
  <2>1. MessageTypes /\ MessageTypes' /\ sent <= sent' /\ FlightTypes
    BY MessageTypesStep DEF Types
  <2> QED BY <2>1 DEF MessageTypes, FlightTypes, Stored, Ids
<1>1. ASSUME NEW k \in Slots, NEW s \in Sockets,
             \/ JoinRoom(k, s)
             \/ \E text \in Contents : Send(k, s, text) \/ Reply(k, s, text)
             \/ \E id \in Stored :
                  \/ \E text \in Contents : EditFind(k, s, id, text)
                  \/ DeleteFind(k, s, id) \/ PinFind(k, s, id)
      PROVE  Deletion'
  <2>1. /\ \A i \in Slots : flight'[i] = flight[i] \/ flight'[i].op # "save"
        /\ UNCHANGED <<sent, message, gone>>
    <3>1. FlightTypes
      BY DEF Types
    <3> QED BY <1>1, <3>1, Begun DEF store
  <2> QED BY <2>1 DEF Stored
<1>2. ASSUME NEW k \in Slots,
             JoinRegister(k) \/ EditDetect(k) \/ InvalidateCache(k) \/ DeleteUnpin(k) \/ PinSave(k)
      PROVE  Deletion'
  <2>1. /\ UNCHANGED <<sent, message, gone>>
        /\ \E f : f.op # "save" /\ flight' = [flight EXCEPT ![k] = f]
    <3>1. Idle.op # "save" /\ [op |-> "unpin", id |-> flight[k].id].op # "save"
      BY DEF Idle
    <3> QED BY <1>2, <3>1 DEF JoinRegister, EditDetect, InvalidateCache, DeleteUnpin, PinSave,
                              store, Finish, Go
  <2> QED BY <1>0, <2>1 DEF Stored
<1>3. ASSUME NEW k \in Slots, SendSave(k) PROVE Deletion'
  <2>1. gone' = gone /\ flight' = [flight EXCEPT ![k] = Idle] /\ Idle.op # "save"
    BY <1>3 DEF SendSave, Finish, Go, Idle
  <2>2. \A id \in Stored : message'[id] = message[id]
    BY <1>0, <1>3 DEF SendSave, Stored
  <2> QED BY <1>0, <2>1, <2>2
<1>4. ASSUME NEW k \in Slots, EditRead(k) PROVE Deletion'
  <2> DEFINE f == [op |-> "save", id |-> flight[k].id, text |-> flight[k].text,
                   deleted |-> message[flight[k].id].deleted]
  <2>1. UNCHANGED <<sent, message, gone>> /\ flight' = [flight EXCEPT ![k] = f]
    BY <1>4 DEF EditRead, store, Go
  <2>2. f.id \in gone => f.deleted = TRUE
    OBVIOUS
  <2> HIDE DEF f
  <2> QED BY <1>0, <2>1, <2>2 DEF Stored
<1>5. ASSUME NEW k \in Slots, EditSave(k) PROVE Deletion'
  <2> DEFINE id == flight[k].id
  <2>1. id \in Ids /\ flight[k].op = "save"
    BY <1>5, FlightFields DEF EditSave, Types, FlightTypes, OnMessages
  <2>2. /\ gone' = gone
        /\ flight' = [flight EXCEPT ![k] = [op |-> "detect", id |-> id, text |-> flight[k].text]]
    BY <1>5 DEF EditSave, Go
  <2>3. message'[id].deleted = flight[k].deleted /\ \A i \in Ids \ {id} : message'[i] = message[i]
    BY <1>0, <1>5, <2>1 DEF EditSave, Edited
  <2>4. \A i \in gone : message'[i].deleted = TRUE
    BY <1>0, <2>1, <2>3
  <2> QED BY <1>0, <2>2, <2>4
<1>6. ASSUME NEW k \in Slots, SoftDelete(k) PROVE Deletion'
  <2> DEFINE id == flight[k].id
  <2>1. id \in Stored
    BY <1>0, <1>6, FlightFields DEF SoftDelete, Types, FlightTypes, OnMessages, Ids, Stored
  <2>2. /\ flight' = [flight EXCEPT ![k] = [op |-> "invalidate", id |-> id]]
        /\ message' = [message EXCEPT ![id].deleted = TRUE]
        /\ gone' \in {gone, gone \cup {id}}
        /\ id \in gone' => id \in gone \/ ~BeingEdited(id)
    BY <1>6 DEF SoftDelete, Go
  <2>3. \A i \in gone' : message'[i].deleted = TRUE
    BY <1>0, <2>1, <2>2 DEF Message
  <2>4. ASSUME NEW i \in Slots, flight'[i].op = "save", flight'[i].id \in gone'
        PROVE  flight'[i].deleted = TRUE
    <3>1. flight'[i] = flight[i]
      BY <1>0, <2>2, <2>4
    <3> QED BY <2>2, <2>4, <3>1 DEF BeingEdited
  <2> QED BY <1>0, <2>1, <2>2, <2>3, <2>4
<1>7. ASSUME NEW id \in Stored, Age(id) PROVE Deletion'
  <2>1. \A i \in Stored : message'[i].deleted = message[i].deleted
    BY <1>0, <1>7 DEF Age, Message
  <2> QED BY <1>0, <1>7, <2>1 DEF Age, Stored
<1>8. ASSUME \/ \E s \in Sockets :
                  LeaveRoom(s) \/ Disconnect(s) \/ \E id \in Stored : Unpin(s, id)
             \/ \E id \in Stored : Notify(id)
             \/ \E j \in jobs : ReadCache(j) \/ \E L \in Answers : SaveTranslations(j, L)
             \/ Retranslate \/ UNCHANGED chatVars
      PROVE  Deletion'
  <2>1. UNCHANGED <<sent, message, gone, flight>>
    BY <1>8 DEF LeaveRoom, Disconnect, Unpin, Notify, ReadCache, SaveTranslations, Retranslate,
                store, chatVars
  <2> QED BY <2>1 DEF Stored
<1> QED BY <1>1, <1>2, <1>3, <1>4, <1>5, <1>6, <1>7, <1>8 DEF ChatNext

\* Whatever edits, pins and translations follow, a message deleted while no edit of it was
\* suspended stays deleted.
THEOREM DeletedStaysDeletedCorrect == ChatSpec => []DeletedStaysDeleted
<1>1. ChatInit => Deletion
  BY FlightShapes DEF ChatInit, Deletion
<1>2. Deletion => DeletedStaysDeleted
  BY DEF Deletion, DeletedStaysDeleted
<1> QED BY TypesHold, DeletionStep, <1>1, <1>2, PTL DEF ChatSpec

-----------------------------------------------------------------------------
(* Translations.                                                           *)

\* What is cached of a message is of its present text.
Fine(id) == \A l \in Languages : cache[id][l] \in {NoText, message[id].text}

\* A job renders the present text and completes translations of it; one that has read the
\* cache, or will, finds nothing else there.
JobFits(j) ==
  /\ j.text = message[j.id].text
  /\ \A l \in Languages : j.base[l] \in {NoText, message[j.id].text}
  /\ j.forced = FALSE => Fine(j.id)

\* An edit that is saved has its text in the row and will start a translation.
EditFits(f) == f.text = message[f.id].text /\ Translatable(f.text)

Faithful(id) ==
  /\ \A j \in jobs : j.id = id => JobFits(j)
  /\ \A k \in Slots : flight[k].op = "detect" /\ flight[k].id = id => EditFits(flight[k])
  /\ ~Unsettled(id) => Fine(id)

\* A forced translation never reads the cache.
ForcedJobs == \A j \in jobs : j.forced = TRUE => j.read = TRUE /\ j.base = Untranslated

Currency == ForcedJobs /\ \A id \in Stored \ mixed : Faithful(id)

\* What matters of a message stays when neither its text, its translations, its jobs nor
\* its edits change.
LEMMA FaithfulKept ==
  ASSUME NEW id, Faithful(id),
         message'[id].text = message[id].text,
         cache'[id] = cache[id],
         \A j \in jobs' : j.id = id => j \in jobs,
         \A j \in jobs : j.id = id => j \in jobs',
         \A k \in Slots :
           \/ flight'[k] = flight[k]
           \/ /\ flight[k].op = "detect" => flight[k].id # id
              /\ flight'[k].op = "detect" => flight'[k].id # id
  PROVE  Faithful(id)'
<1>1. Fine(id)' <=> Fine(id)
  BY DEF Fine
<1>2. Unsettled(id)' <=> Unsettled(id)
  BY DEF Unsettled
<1>3. ASSUME NEW j \in jobs', j.id = id PROVE JobFits(j)'
  <2>1. j \in jobs /\ JobFits(j)
    BY <1>3 DEF Faithful
  <2> QED BY <1>1, <1>3, <2>1 DEF JobFits
<1>4. ASSUME NEW k \in Slots, flight'[k].op = "detect", flight'[k].id = id
      PROVE  EditFits(flight[k])'
  <2>1. flight'[k] = flight[k] /\ EditFits(flight[k])
    BY <1>4 DEF Faithful
  <2> QED BY <1>4, <2>1 DEF EditFits
<1> QED BY <1>1, <1>2, <1>3, <1>4 DEF Faithful

\* The text of a stored message changes with an edit of it only.
LEMMA TextKept ==
  ASSUME Types, [ChatNext]_chatVars, NEW id \in Stored,
         \A k \in Slots : EditSave(k) => flight[k].id # id
  PROVE  message'[id].text = message[id].text
<1>0. /\ sent \in Nat /\ id \in Ids /\ id <= sent /\ message[id] \in Message
      /\ message \in [Ids -> Message \cup {Idle}]
  BY DEF Types, MessageTypes, Stored, Ids
<1>1. ASSUME NEW k \in Slots, SendSave(k) PROVE message'[id].text = message[id].text
  BY <1>0, <1>1 DEF SendSave, Ids
<1>2. ASSUME NEW k \in Slots, EditSave(k) PROVE message'[id].text = message[id].text
  BY <1>0, <1>2 DEF EditSave, Edited
<1>3. ASSUME NEW k \in Slots, SoftDelete(k) PROVE message'[id].text = message[id].text
  BY <1>0, <1>3 DEF SoftDelete, Message
<1>4. ASSUME NEW i \in Stored, Age(i) PROVE message'[id].text = message[id].text
  BY <1>0, <1>4 DEF Age, Message
<1> QED BY <1>1, <1>2, <1>3, <1>4, MessagesKept

\* Handlers become translations of an edit only by saving it, and end being one only when
\* the language is known.
LEMMA EditsKept ==
  ASSUME Types, [ChatNext]_chatVars,
         \A k \in Slots : ~EditSave(k) /\ ~EditDetect(k)
  PROVE  \A k \in Slots :
           \/ flight'[k] = flight[k]
           \/ flight[k].op # "detect" /\ flight'[k].op # "detect"
<1>0. FlightTypes /\ flight \in [Slots -> Flight]
  BY DEF Types, FlightTypes
<1>1. ASSUME NEW k \in Slots, NEW s \in Sockets,
             \/ JoinRoom(k, s)
             \/ \E text \in Contents : Send(k, s, text) \/ Reply(k, s, text)
             \/ \E id \in Stored :
                  \/ \E text \in Contents : EditFind(k, s, id, text)
                  \/ DeleteFind(k, s, id) \/ PinFind(k, s, id)
      PROVE  \A i \in Slots :
               \/ flight'[i] = flight[i]
               \/ flight[i].op # "detect" /\ flight'[i].op # "detect"
  BY <1>0, <1>1, Begun DEF Idle
<1>2. ASSUME NEW k \in Slots,
             \/ JoinRegister(k) \/ SendSave(k) \/ EditRead(k)
             \/ SoftDelete(k) \/ InvalidateCache(k) \/ DeleteUnpin(k) \/ PinSave(k)
      PROVE  \A i \in Slots :
               \/ flight'[i] = flight[i]
               \/ flight[i].op # "detect" /\ flight'[i].op # "detect"
  <2>1. CASE JoinRegister(k) \/ SendSave(k) \/ DeleteUnpin(k) \/ PinSave(k)
    <3>1. flight[k].op # "detect"
      BY <2>1 DEF JoinRegister, SendSave, DeleteUnpin, PinSave
    <3>2. flight' = [flight EXCEPT ![k] = Idle]
      BY <2>1 DEF JoinRegister, SendSave, DeleteUnpin, PinSave, Finish, Go
    <3> QED BY <1>0, <3>1, <3>2 DEF Idle
  <2>2. CASE EditRead(k)
    BY <1>0, <2>2 DEF EditRead, Go
  <2>3. CASE SoftDelete(k)
    BY <1>0, <2>3 DEF SoftDelete, Go
  <2>4. CASE InvalidateCache(k)
    BY <1>0, <2>4 DEF InvalidateCache, Go
  <2> QED BY <1>2, <2>1, <2>2, <2>3, <2>4
<1>3. ASSUME \/ \E s \in Sockets :
                  LeaveRoom(s) \/ Disconnect(s) \/ \E id \in Stored : Unpin(s, id)
             \/ \E id \in Stored : Notify(id) \/ Age(id)
             \/ \E j \in jobs : ReadCache(j) \/ \E L \in Answers : SaveTranslations(j, L)
             \/ Retranslate \/ UNCHANGED chatVars
      PROVE  UNCHANGED flight
  BY <1>3 DEF LeaveRoom, Disconnect, Unpin, Notify, Age, ReadCache, SaveTranslations,
              Retranslate, chatVars
<1> QED BY <1>1, <1>2, <1>3 DEF ChatNext

\* A handler that saves an edit or ends it moves.
LEMMA EditsMove ==
  ASSUME flight \in [Slots -> Flight], NEW k \in Slots, EditSave(k) \/ EditDetect(k)
  PROVE  flight'[k] # flight[k]
<1>1. CASE EditSave(k)
  <2>1. flight[k].op = "save" /\ flight'[k].op = "detect"
    BY <1>1 DEF EditSave, Go
  <2> QED BY <2>1
<1>2. CASE EditDetect(k)
  <2>1. flight[k].op = "detect" /\ flight'[k].op = "idle"
    BY <1>2 DEF EditDetect, Finish, Go, Idle
  <2> QED BY <2>1
<1> QED BY <1>1, <1>2

\* Steps that leave the translations alone.
LEMMA CurrencyKept ==
  ASSUME Types, Currency, [ChatNext]_chatVars,
         \A k \in Slots : ~SendSave(k) /\ ~EditSave(k) /\ ~EditDetect(k),
         UNCHANGED translation
  PROVE  Currency'
<1>1. UNCHANGED <<cached, cache, jobs, mixed>>
  BY DEF translation
<1>2. sent' = sent
  <2>1. ASSUME NEW k \in Slots, SoftDelete(k) PROVE sent' = sent
    BY <2>1 DEF SoftDelete
  <2>2. ASSUME NEW id \in Stored, Age(id) PROVE sent' = sent
    BY <2>2 DEF Age
  <2> QED BY <2>1, <2>2, MessagesKept
<1>3. ASSUME NEW id \in Stored \ mixed PROVE Faithful(id)'
  <2>1. message'[id].text = message[id].text
    BY TextKept
  <2>2. \A k \in Slots :
          \/ flight'[k] = flight[k]
          \/ flight[k].op # "detect" /\ flight'[k].op # "detect"
    BY EditsKept
  <2>3. Faithful(id)
    BY DEF Currency
  <2>4. /\ cache'[id] = cache[id]
        /\ \A j \in jobs' : j.id = id => j \in jobs
        /\ \A j \in jobs : j.id = id => j \in jobs'
    BY <1>1
  <2> QED BY <2>1, <2>2, <2>3, <2>4, FaithfulKept
<1> QED BY <1>1, <1>2, <1>3 DEF Currency, ForcedJobs, Stored

\* The text, the edits and the translations of a message none of whose jobs is begun,
\* saved or written.
LEMMA OthersFaithful ==
  ASSUME Types, Currency, [ChatNext]_chatVars, NEW id \in Stored \ mixed,
         \A k \in Slots : EditSave(k) \/ EditDetect(k) => flight[k].id # id,
         cache'[id] = cache[id],
         \A j \in jobs' : j.id = id => j \in jobs,
         \A j \in jobs : j.id = id => j \in jobs'
  PROVE  Faithful(id)'
<1>1. message'[id].text = message[id].text
  BY TextKept
<1>2. ASSUME NEW k \in Slots
      PROVE  \/ flight'[k] = flight[k]
             \/ /\ flight[k].op = "detect" => flight[k].id # id
                /\ flight'[k].op = "detect" => flight'[k].id # id
  <2>0. flight \in [Slots -> Flight]
    BY DEF Types, FlightTypes
  <2>1. ASSUME NEW i \in Slots, EditSave(i)
        PROVE  \/ flight'[k] = flight[k]
               \/ /\ flight[k].op = "detect" => flight[k].id # id
                  /\ flight'[k].op = "detect" => flight'[k].id # id
    BY <2>0, <2>1 DEF EditSave, Go
  <2>2. ASSUME NEW i \in Slots, EditDetect(i)
        PROVE  \/ flight'[k] = flight[k]
               \/ /\ flight[k].op = "detect" => flight[k].id # id
                  /\ flight'[k].op = "detect" => flight'[k].id # id
    BY <2>0, <2>2 DEF EditDetect, Finish, Go, Idle
  <2> QED BY <2>1, <2>2, EditsKept
<1>3. Faithful(id)
  BY DEF Currency
<1> QED BY <1>1, <1>2, <1>3, FaithfulKept

LEMMA CurrencyStep == Types /\ Currency /\ [ChatNext]_chatVars => Currency'
<1> SUFFICES ASSUME Types, Currency, [ChatNext]_chatVars PROVE Currency'
  OBVIOUS
<1>0. /\ sent \in Nat /\ sent' \in Nat /\ sent <= sent' /\ cached \subseteq Stored
      /\ Stored \subseteq Ids /\ Stored \subseteq Stored'
      /\ message \in [Ids -> Message \cup {Idle}] /\ flight \in [Slots -> Flight]
      /\ cache \in [Ids -> Translations] /\ \A id \in Ids \ cached : cache[id] = Untranslated
      /\ \A j \in jobs : j \in Translating /\ j.id \in Stored
  <2>1. MessageTypes /\ MessageTypes' /\ sent <= sent' /\ FlightTypes /\ TranslationTypes
    BY MessageTypesStep DEF Types
  <2>2. \A j \in jobs : j \in Translating /\ j.id \in Stored
    BY <2>1 DEF TranslationTypes, MessageTypes, Translating, Stored, Ids
  <2> QED BY <2>1, <2>2 DEF MessageTypes, FlightTypes, TranslationTypes, Stored, Ids
<1>b. \A k \in Slots : flight[k].op \in OnMessages => flight[k].id \in Stored
  BY <1>0, FlightFields DEF Types, FlightTypes, Stored, Ids
<1>1. ASSUME NEW k \in Slots, SendSave(k) PROVE Currency'
  <2> DEFINE new == Job(sent + 1, flight[k].text, FALSE)
  <2>1. new.id = sent + 1 /\ new.text = flight[k].text /\ new.forced = FALSE
        /\ new.base = Untranslated
    BY DEF Job
  <2>2. jobs' \subseteq jobs \cup {new} /\ jobs \subseteq jobs'
    BY <1>1 DEF SendSave, Dispatch
  <2> HIDE DEF new
  <2>3. ForcedJobs'
    BY <2>1, <2>2 DEF Currency, ForcedJobs
  <2>4. sent' = sent + 1 /\ sent + 1 \in Ids /\ cache' = cache /\ mixed' = mixed
    BY <1>0, <1>1 DEF SendSave, Ids
  <2>5. ASSUME NEW id \in Stored \ mixed PROVE Faithful(id)'
    <3>1. id # sent + 1
      BY <1>0 DEF Stored
    <3>2. \A i \in Slots : ~EditSave(i) /\ ~EditDetect(i)
      <4>1. \A i \in Slots : i # k => flight'[i] = flight[i]
        BY <1>0, <1>1 DEF SendSave, Finish, Go
      <4>2. jobs' = jobs' /\ sent' # sent
        BY <1>0, <2>4
      <4> QED BY <4>2 DEF EditSave, EditDetect, store
    <3> QED BY <2>1, <2>2, <2>4, <3>1, <3>2, OthersFaithful
  <2>6. ASSUME NEW id, id = sent + 1 PROVE Faithful(id)'
    <3>1. cache'[id] = Untranslated
      BY <1>0, <2>4, <2>6 DEF Stored
    <3>2. message'[id].text = flight[k].text
      BY <1>0, <1>1, <2>4, <2>6 DEF SendSave
    <3>3. Fine(id)'
      BY <3>1 DEF Fine, Untranslated
    <3>4. ASSUME NEW j \in jobs', j.id = id PROVE JobFits(j)'
      <4>1. j = new
        BY <1>0, <2>2, <2>6, <3>4 DEF Stored
      <4> QED BY <2>1, <2>6, <3>2, <3>3, <4>1 DEF JobFits, Untranslated
    <3>5. \A i \in Slots : flight'[i].op = "detect" => flight'[i].id # id
      <4>1. flight'[k] = Idle /\ \A i \in Slots \ {k} : flight'[i] = flight[i]
        BY <1>0, <1>1 DEF SendSave, Finish, Go
      <4>2. \A i \in Slots : flight[i].op = "detect" => flight[i].id # id
        BY <1>0, <1>b, <2>6 DEF OnMessages, Stored
      <4> QED BY <4>1, <4>2 DEF Idle
    <3> QED BY <3>3, <3>4, <3>5 DEF Faithful
  <2>7. Stored' = Stored \cup {sent + 1}
    BY <1>0, <2>4 DEF Stored
  <2> QED BY <2>3, <2>4, <2>5, <2>6, <2>7 DEF Currency
<1>2. ASSUME NEW k \in Slots, EditSave(k) PROVE Currency'
  <2> DEFINE f == flight[k]
  <2>1. f.op = "save" /\ f.id \in Stored
    BY <1>b, <1>2 DEF EditSave, OnMessages
  <2>2. /\ sent' = sent /\ cache' = cache /\ jobs' = jobs /\ mixed \subseteq mixed'
        /\ flight' = [flight EXCEPT ![k] = [op |-> "detect", id |-> f.id, text |-> f.text]]
    BY <1>2 DEF EditSave, Go
  <2>3. ASSUME NEW id \in Stored \ mixed, id # f.id PROVE Faithful(id)'
    <3>1. \A i \in Slots : EditSave(i) \/ EditDetect(i) => flight[i].id # id
      <4>1. \A i \in Slots : i # k => flight'[i] = flight[i]
        BY <1>0, <2>2
      <4>2. ASSUME NEW i \in Slots, EditSave(i) \/ EditDetect(i) PROVE i = k
        BY <1>0, <4>1, <4>2, EditsMove
      <4> QED BY <2>3, <4>2
    <3> QED BY <2>2, <3>1, OthersFaithful
  <2>4. ASSUME NEW id, id = f.id, id \notin mixed' PROVE Faithful(id)'
    <3>1. ~Unsettled(id) /\ Translatable(f.text)
      BY <1>2, <2>4 DEF EditSave
    <3>2. message'[id].text = f.text
      BY <1>0, <1>2, <2>1, <2>4 DEF EditSave, Edited
    <3>3. \A j \in jobs' : j.id # id
      BY <2>2, <3>1 DEF Unsettled
    <3>4. flight'[k] = [op |-> "detect", id |-> id, text |-> f.text]
      BY <1>0, <2>2, <2>4
    <3>5. Unsettled(id)'
      BY <3>4 DEF Unsettled
    <3>6. ASSUME NEW i \in Slots, flight'[i].op = "detect", flight'[i].id = id
          PROVE  EditFits(flight[i])'
      <4>1. i = k
        BY <1>0, <2>2, <3>1, <3>6 DEF Unsettled
      <4> QED BY <3>1, <3>2, <3>4, <4>1 DEF EditFits, Translatable
    <3> QED BY <3>3, <3>5, <3>6 DEF Faithful
  <2> QED BY <2>2, <2>3, <2>4 DEF Currency, ForcedJobs, Stored
<1>3. ASSUME NEW k \in Slots, EditDetect(k) PROVE Currency'
  <2> DEFINE f == flight[k]
             new == Job(f.id, f.text, TRUE)
  <2>1. f.op = "detect" /\ f.id \in Stored
    BY <1>b, <1>3 DEF EditDetect, OnMessages
  <2>2. /\ sent' = sent /\ cache' = cache /\ message' = message /\ mixed' = mixed
        /\ jobs' = Dispatch(f.id, f.text, TRUE) /\ flight' = [flight EXCEPT ![k] = Idle]
    BY <1>3 DEF EditDetect, store, Finish, Go
  <2>3. /\ new.id = f.id /\ new.text = f.text /\ new.forced = TRUE /\ new.read = TRUE
        /\ new.base = Untranslated
    BY DEF Job
  <2>4. jobs \subseteq jobs' /\ jobs' \subseteq jobs \cup {new}
        /\ (Translatable(f.text) => new \in jobs')
    BY <2>2 DEF Dispatch
  <2> HIDE DEF new
  <2>5. ForcedJobs'
    BY <2>3, <2>4 DEF Currency, ForcedJobs
  <2>6. ASSUME NEW id \in Stored \ mixed, id # f.id PROVE Faithful(id)'
    <3>1. \A i \in Slots : EditSave(i) \/ EditDetect(i) => flight[i].id # id
      <4>1. \A i \in Slots : i # k => flight'[i] = flight[i]
        BY <1>0, <2>2
      <4>2. ASSUME NEW i \in Slots, EditSave(i) \/ EditDetect(i) PROVE i = k
        BY <1>0, <4>1, <4>2, EditsMove
      <4> QED BY <2>6, <4>2
    <3> QED BY <2>2, <2>3, <2>4, <2>6, <3>1, OthersFaithful
  <2>7. ASSUME NEW id, id = f.id, id \notin mixed PROVE Faithful(id)'
    <3>1. Faithful(id) /\ EditFits(f)
      BY <2>1, <2>7 DEF Currency, Faithful
    <3>2. ASSUME NEW j \in jobs', j.id = id PROVE JobFits(j)'
      <4>1. CASE j \in jobs
        BY <2>2, <3>1, <3>2, <4>1 DEF Faithful, JobFits, Fine
      <4>2. CASE j = new
        BY <2>2, <2>3, <2>7, <3>1, <4>2 DEF EditFits, JobFits, Untranslated
      <4> QED BY <2>4, <4>1, <4>2
    <3>3. ASSUME NEW i \in Slots, flight'[i].op = "detect", flight'[i].id = id
          PROVE  EditFits(flight[i])'
      <4>1. flight'[i] = flight[i]
        BY <1>0, <2>2, <3>3 DEF Idle
      <4>2. EditFits(flight[i])
        BY <3>1, <3>3, <4>1 DEF Faithful
      <4> QED BY <2>2, <4>1, <4>2 DEF EditFits
    <3>4. Unsettled(id)'
      BY <2>3, <2>4, <2>7, <3>1 DEF EditFits, Unsettled
    <3> QED BY <3>2, <3>3, <3>4 DEF Faithful
  <2> QED BY <2>2, <2>5, <2>6, <2>7 DEF Currency, Stored
<1>4. ASSUME NEW k \in Slots, InvalidateCache(k) PROVE Currency'
  <2> DEFINE c == flight[k].id
  <2>1. /\ sent' = sent /\ message' = message /\ mixed' = mixed /\ jobs' = jobs
        /\ cache' = [cache EXCEPT ![c] = Untranslated]
        /\ flight' = [flight EXCEPT ![k] = [op |-> "unpin", id |-> c]]
        /\ flight[k].op = "invalidate"
    BY <1>4 DEF InvalidateCache, store, Go
  <2>2. ASSUME NEW id \in Stored \ mixed PROVE Faithful(id)'
    <3>1. Faithful(id) /\ id \in Ids
      BY <1>0 DEF Currency
    <3>2. Fine(id) => Fine(id)'
      BY <1>0, <2>1, <3>1 DEF Fine, Untranslated
    <3>3. ASSUME NEW i \in Slots
          PROVE flight'[i] = flight[i] \/ (flight[i].op # "detect" /\ flight'[i].op # "detect")
      BY <1>0, <2>1
    <3>4. Unsettled(id)' <=> Unsettled(id)
      BY <2>1, <3>3 DEF Unsettled
    <3>5. ASSUME NEW j \in jobs', j.id = id PROVE JobFits(j)'
      BY <2>1, <3>1, <3>2, <3>5 DEF Faithful, JobFits
    <3>6. ASSUME NEW i \in Slots, flight'[i].op = "detect", flight'[i].id = id
          PROVE EditFits(flight[i])'
      BY <2>1, <3>1, <3>3, <3>6 DEF Faithful, EditFits
    <3> QED BY <3>1, <3>2, <3>4, <3>5, <3>6 DEF Faithful
  <2> QED BY <2>1, <2>2 DEF Currency, ForcedJobs, Stored
<1>5. ASSUME NEW j \in jobs, ReadCache(j) PROVE Currency'
  <2> DEFINE new == [j EXCEPT !.read = TRUE, !.base = cache[j.id]]
  <2>1. /\ sent' = sent /\ message' = message /\ mixed' = mixed /\ cache' = cache
        /\ flight' = flight /\ jobs' = (jobs \ {j}) \cup {new} /\ ~j.read
    BY <1>5 DEF ReadCache, store
  <2>2. j.forced \in BOOLEAN /\ j.read \in BOOLEAN /\ j.id \in Stored
    BY <1>0 DEF Translating
  <2>3. j.forced = FALSE
    BY <2>1, <2>2 DEF Currency, ForcedJobs
  <2>4. new.id = j.id /\ new.text = j.text /\ new.forced = FALSE /\ new.base = cache[j.id]
    BY <1>0, <2>3 DEF Translating
  <2> HIDE DEF new
  <2>5. ForcedJobs'
    BY <2>1, <2>4 DEF Currency, ForcedJobs
  <2>6. ASSUME NEW id \in Stored \ mixed, id # j.id PROVE Faithful(id)'
    <3>1. \A i \in Slots : ~EditSave(i) /\ ~EditDetect(i)
      BY <1>0, <2>1, EditsMove
    <3> QED BY <2>1, <2>4, <2>6, <3>1, OthersFaithful
  <2>7. ASSUME j.id \notin mixed PROVE Faithful(j.id)'
    <3>1. Faithful(j.id) /\ JobFits(j) /\ Fine(j.id)
      BY <2>2, <2>3, <2>7 DEF Currency, Faithful, JobFits
    <3>2. Fine(j.id)'
      BY <2>1, <3>1 DEF Fine
    <3>3. ASSUME NEW i, i = new PROVE JobFits(i)'
      BY <3>3, <2>1, <2>4, <3>1, <3>2 DEF JobFits, Fine
    <3>4. ASSUME NEW i \in jobs, i.id = j.id PROVE JobFits(i)'
      BY <2>1, <3>1, <3>4 DEF Faithful, JobFits, Fine
    <3>5. ASSUME NEW i \in Slots, flight'[i].op = "detect", flight'[i].id = j.id
          PROVE  EditFits(flight[i])'
      BY <2>1, <3>1, <3>5 DEF Faithful, EditFits
    <3> QED BY <2>1, <3>2, <3>3, <3>4, <3>5 DEF Faithful
  <2> QED BY <2>1, <2>5, <2>6, <2>7 DEF Currency, Stored
<1>6. ASSUME NEW j \in jobs, NEW L \in Answers, SaveTranslations(j, L) PROVE Currency'
  <2>1. /\ sent' = sent /\ message' = message /\ mixed' = mixed /\ flight' = flight
        /\ jobs' = jobs \ {j}
        /\ \/ cache' = [cache EXCEPT ![j.id] = Merged(j, L)]
           \/ cache' = cache /\ \A l \in Languages : j.base[l] # NoText
    BY <1>6 DEF SaveTranslations, store
  <2>2. j.forced \in BOOLEAN /\ j.id \in Stored
    BY <1>0 DEF Translating
  <2>3. ForcedJobs'
    BY <2>1 DEF Currency, ForcedJobs
  <2>4. ASSUME NEW id \in Stored \ mixed, id # j.id PROVE Faithful(id)'
    <3>1. \A i \in Slots : ~EditSave(i) /\ ~EditDetect(i)
      BY <1>0, <2>1, EditsMove
    <3>2. cache'[id] = cache[id]
      BY <1>0, <2>1, <2>2, <2>4
    <3> QED BY <2>1, <2>4, <3>1, <3>2, OthersFaithful
  <2>5. ASSUME j.id \notin mixed PROVE Faithful(j.id)'
    <3>1. Faithful(j.id) /\ JobFits(j)
      BY <2>2, <2>5 DEF Currency, Faithful
    <3>2. Fine(j.id)'
      <4>1. CASE cache' = [cache EXCEPT ![j.id] = Merged(j, L)]
        <5>1. cache'[j.id] = Merged(j, L)
          BY <1>0, <2>2, <4>1
        <5> QED BY <2>1, <3>1, <5>1 DEF Fine, Merged, JobFits
      <4>2. CASE cache' = cache /\ \A l \in Languages : j.base[l] # NoText
        <5>1. CASE j.forced = TRUE
          <6>1. j.base = Untranslated
            BY <5>1 DEF Currency, ForcedJobs
          <6> QED BY <4>2, <6>1 DEF Fine, Untranslated
        <5>2. CASE j.forced = FALSE
          BY <2>1, <3>1, <4>2, <5>2 DEF JobFits, Fine
        <5> QED BY <2>2, <5>1, <5>2
      <4> QED BY <2>1, <4>1, <4>2
    <3>3. ASSUME NEW i \in jobs', i.id = j.id PROVE JobFits(i)'
      BY <2>1, <3>1, <3>2, <3>3 DEF Faithful, JobFits
    <3>4. ASSUME NEW i \in Slots, flight'[i].op = "detect", flight'[i].id = j.id
          PROVE  EditFits(flight[i])'
      BY <2>1, <3>1, <3>4 DEF Faithful, EditFits
    <3> QED BY <3>2, <3>3, <3>4 DEF Faithful
  <2> QED BY <2>1, <2>3, <2>4, <2>5 DEF Currency, Stored
<1>7. CASE Retranslate
  <2> DEFINE todo == {id \in Stored \ cached : ~message[id].deleted /\ message[id].known}
             new(id) == Job(id, message[id].text, FALSE)
  <2>1. /\ sent' = sent /\ message' = message /\ cache' = cache /\ flight' = flight
        /\ jobs' = jobs \cup {new(id) : id \in todo}
        /\ mixed' = mixed \cup {id \in todo : Unsettled(id)}
    BY <1>7 DEF Retranslate, store
  <2>2. todo \subseteq Stored \ cached
    OBVIOUS
  <2>3. \A id \in todo : /\ new(id).id = id /\ new(id).text = message[id].text
                         /\ new(id).forced = FALSE /\ new(id).base = Untranslated
    BY DEF Job
  <2> HIDE DEF todo, new
  <2>4. ForcedJobs'
    BY <2>1, <2>3 DEF Currency, ForcedJobs
  <2>5. ASSUME NEW id \in Stored \ mixed, id \notin todo PROVE Faithful(id)'
    <3>1. \A i \in Slots : ~EditSave(i) /\ ~EditDetect(i)
      BY <1>0, <2>1, EditsMove
    <3> QED BY <2>1, <2>3, <2>5, <3>1, OthersFaithful
  <2>6. ASSUME NEW id \in todo, id \notin mixed' PROVE Faithful(id)'
    <3>1. ~Unsettled(id) /\ id \in Ids \ cached
      BY <1>0, <2>1, <2>2, <2>6
    <3>2. cache[id] = Untranslated
      BY <1>0, <3>1
    <3>3. Fine(id)'
      BY <2>1, <3>2 DEF Fine, Untranslated
    <3>4. ASSUME NEW j \in jobs', j.id = id PROVE JobFits(j)'
      <4>1. j = new(id)
        BY <2>1, <2>3, <3>1, <3>4 DEF Unsettled
      <4> QED BY <2>1, <2>3, <3>3, <4>1 DEF JobFits, Untranslated
    <3>5. \A i \in Slots : flight'[i].op = "detect" => flight'[i].id # id
      BY <2>1, <3>1 DEF Unsettled
    <3> QED BY <3>3, <3>4, <3>5 DEF Faithful
  <2> QED BY <2>1, <2>4, <2>5, <2>6 DEF Currency, Stored
<1>8. CASE /\ UNCHANGED translation
           /\ \A k \in Slots : ~SendSave(k) /\ ~EditSave(k) /\ ~EditDetect(k)
  BY <1>8, CurrencyKept
<1> QED BY <1>1, <1>2, <1>3, <1>4, <1>5, <1>6, <1>7, <1>8, TranslationKept

\* However edits, deletions, new translations and a retranslation of the room interleave,
\* what is cached once nothing is under way is of the present text, unless edits and
\* translations of the message overlapped or the text is not translated.
THEOREM TranslationsAreCurrentCorrect == ChatSpec => []TranslationsAreCurrent
<1>1. ChatInit => Currency
  BY DEF ChatInit, Currency, ForcedJobs, Stored
<1>2. Currency => TranslationsAreCurrent
  BY DEF Currency, Faithful, Fine, TranslationsAreCurrent
<1> QED BY TypesHold, CurrencyStep, <1>1, <1>2, PTL DEF ChatSpec
=============================================================================
