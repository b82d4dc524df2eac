--------------------------- MODULE MessageReactions ---------------------------
(***************************************************************************)
(* Reactions to one message: a toggle finds, deletes and stores the row of *)
(* its user in separate statements, then reads all rows of the message and *)
(* broadcasts them; a client that opens the room reads them too            *)
(* (message-reactions.service.ts, chat.gateway.ts).                        *)
(***************************************************************************)
EXTENDS Naturals, FiniteSets

CONSTANTS
  People,
  Emojis,
  Toggles,       \* requests that may overlap
  MaxToggles,    \* bound on the toggles
  MaxLoads       \* bound on the loads

ASSUME ReactionsAssumption == MaxToggles \in Nat /\ MaxLoads \in Nat

VARIABLES
  row,       \* message_reactions of the message: id and emoji of each user's row, or NoRow
  rows,      \* number of rows ever stored
  request,   \* requests under way
  screen,    \* what each user's client shows: the users of each emoji
  rival,     \* history: requests that something overtook since they read the rows
  stale,     \* history: clients that show what was overtaken, or missed a failed toggle
  toggles, loads   \* numbers of toggles and of loads, for the bounds

reactionVars == <<row, rows, request, screen, rival, stale, toggles, loads>>

NoRow == [id |-> 0]
Free == [op |-> "free"]
Nobody == [e \in Emojis |-> {}]

\* getGroupedByMessage and getGroupedForMessages.
Grouped == [e \in Emojis |-> {u \in People : row[u] # NoRow /\ row[u].emoji = e}]

ReactionsInit ==
  /\ row = [u \in People |-> NoRow]
  /\ rows = 0
  /\ request = [k \in Toggles |-> Free]
  /\ screen = [u \in People |-> Nobody]
  /\ rival = {} /\ stale = {}
  /\ toggles = 0 /\ loads = 0

Proceed(k, r) == request' = [request EXCEPT ![k] = r]

\* Requests that have read the rows, other than k.
Underway(k) == {i \in Toggles \ {k} : request[i].op = "show"}

\* The toggle's own row is looked up.
ToggleFind(k, u, e) ==
  /\ request[k] = Free
  /\ toggles < MaxToggles /\ toggles' = toggles + 1
  /\ Proceed(k, [op |-> IF row[u] = NoRow THEN "save" ELSE "delete",
                 user |-> u, emoji |-> e, found |-> row[u]])
  /\ UNCHANGED <<row, rows, screen, rival, stale, loads>>

\* Mutant of ToggleDelete: taking a reaction back is not broadcast.
ToggleOffQuietly(k) ==
  LET r == request[k] IN
  /\ r.op = "delete"
  /\ row' = IF row[r.user].id = r.found.id THEN [row EXCEPT ![r.user] = NoRow] ELSE row
  /\ Proceed(k, IF r.found.emoji = r.emoji
                THEN Free ELSE [op |-> "save", user |-> r.user, emoji |-> r.emoji])
  /\ UNCHANGED <<rows, screen, rival, stale, toggles, loads>>

\* The row found goes, if it is still there; with the same emoji that is all.
ToggleDelete(k) ==
  LET r == request[k] IN
  /\ r.op = "delete"
  /\ row' = IF row[r.user].id = r.found.id THEN [row EXCEPT ![r.user] = NoRow] ELSE row
  /\ Proceed(k, [op |-> IF r.found.emoji = r.emoji THEN "group" ELSE "save",
                 user |-> r.user, emoji |-> r.emoji])
  /\ UNCHANGED <<rows, screen, rival, stale, toggles, loads>>

\* One row per user and message: the database refuses another.
ToggleSave(k) ==
  LET r == request[k] IN
  /\ r.op = "save"
  /\ row[r.user] = NoRow
  /\ rows' = rows + 1
  /\ row' = [row EXCEPT ![r.user] = [id |-> rows', emoji |-> r.emoji]]
  /\ Proceed(k, [op |-> "group", user |-> r.user, emoji |-> r.emoji])
  /\ UNCHANGED <<screen, rival, stale, toggles, loads>>

\* A statement fails, or the row is refused: the client gets an error and the room nothing,
\* whatever was deleted before.
ToggleFails(k) ==
  /\ request[k].op \in {"delete", "save"}
  /\ Proceed(k, Free)
  /\ rival' = rival \cup Underway(k)
  /\ stale' = People
  /\ UNCHANGED <<row, rows, screen, toggles, loads>>

\* The rows are read for the broadcast; nothing is, where the statement fails.
ReadGroups(k, for) ==
  /\ \/ /\ Proceed(k, [op |-> "show", for |-> for, groups |-> Grouped])
        /\ rival' = rival \ {k}
     \/ /\ Proceed(k, [op |-> "show", for |-> for, groups |-> Nobody])
        /\ rival' = rival \cup {k}

ToggleGroup(k) ==
  /\ request[k].op = "group"
  /\ ReadGroups(k, People)
  /\ UNCHANGED <<row, rows, screen, stale, toggles, loads>>

\* A client opens the room and asks for its messages with their reactions.
LoadMessages(k, u) ==
  /\ request[k] = Free
  /\ loads < MaxLoads /\ loads' = loads + 1
  /\ ReadGroups(k, {u})
  /\ UNCHANGED <<row, rows, screen, stale, toggles>>

\* reaction_updated to the room, or the answer to the one client.
Show(k) ==
  LET r == request[k] IN
  /\ r.op = "show"
  /\ screen' = [u \in People |-> IF u \in r.for THEN r.groups ELSE screen[u]]
  /\ stale' = IF k \in rival THEN stale \cup r.for ELSE stale \ r.for
  /\ rival' = IF r.for = People THEN rival \cup Underway(k) ELSE rival
  /\ Proceed(k, Free)
  /\ UNCHANGED <<row, rows, toggles, loads>>

ReactionsNext ==
  \E k \in Toggles :
    \/ \E u \in People :
         LoadMessages(k, u) \/ \E e \in Emojis : ToggleFind(k, u, e)
    \/ ToggleDelete(k) \/ ToggleSave(k) \/ ToggleFails(k) \/ ToggleGroup(k) \/ Show(k)

ReactionsSpec == ReactionsInit /\ [][ReactionsNext]_reactionVars

----------------------------------------------------------------------------
(* Properties.                                                             *)

Groups == [Emojis -> SUBSET People]

ReactionsTypeOK ==
  /\ \A u \in People : row[u] \in {NoRow} \cup [id: 1..rows, emoji: Emojis]
  /\ rows \in 0..MaxToggles
  /\ \A k \in Toggles : request[k].op \in {"free", "delete", "save", "group", "show"}
  /\ screen \in [People -> Groups]
  /\ rival \subseteq Toggles /\ stale \subseteq People
  /\ toggles \in 0..MaxToggles /\ loads \in 0..MaxLoads

\* "Returns the updated grouped reactions for the message" (message-reactions.service.ts,
\* line 29): when no request is under way, a client shows the reactions that are stored,
\* unless what it got was overtaken by a broadcast or could not be read, or a toggle failed
\* after it.
ReactionsShown ==
  \A u \in People \ stale :
    (\A k \in Toggles : request[k] = Free) => screen[u] = Grouped
=============================================================================
