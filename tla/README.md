# Verification of the attendance API

TLA+ models of the concurrent core of this server (a NestJS application with
REST controllers, socket.io gateways, cron jobs, MySQL through TypeORM, Redis,
and Google, Slack, mail and push services), the TLC configurations that check
them on small instances, and TLAPS proofs for every value of the constants.
Paths below are relative to `src/src/modules` unless they say otherwise.

1. [Inventory](#1-inventory): the parts of the system
2. [How the models follow the code](#2-how-the-models-follow-the-code)
3. [Modules](#3-modules)
4. [Runs](#4-runs): what is checked, with which bounds, and what it shows
5. [Proofs](#5-proofs)
6. [Divergences found](#6-divergences-found)
7. [What is not covered](#7-what-is-not-covered)
8. [Plan](#8-plan)

## 1. Inventory

State is kept in three places: rows in MySQL, maps in the memory of the single
Node process (lost at a restart), and external services. Handlers share the
event loop: a handler runs undisturbed up to its next `await`; between two
awaits anything else may run. There are almost no transactions and no locks, so
the hard behaviour is nearly always of one of these kinds: a value read before an
await and used after it, a statement that is not awaited, several statements of
which one fails, and timers and rows that a restart separates.

| Component | State | Operations | Talks to | What makes it correct | Module |
|---|---|---|---|---|---|
| **Meeting session** (`meetings/meetings.gateway.ts`, `meetings.service.ts`) | memory: participants, speaker states, runtime host, co-host set; rows: `meetings.status`, `meeting_participants` | join, leave, disconnect, end, transfer host, promote/demote co-host, speaker state; token, co-host REST, cleanup cron | MySQL, clients | everybody sees the host the server holds; an occupied room gets a host; co-host authority rests on a row; status follows occupation | `MeetingSession`, `RoomHost` |
| **Meeting audio and votes** (`meetings/meetings.gateway.ts`, `translate/speech.service.ts`) | memory: sockets being transcribed, votes | audio chunks, subtitles; open, cast, close a vote | speech services, translation | subtitles in order; a failing service blocks nobody; votes belong to a session | `MeetingFloor` |
| **Meeting calls** (`meetings.gateway.ts`, `meetings.service.ts`, `meetings.controller.ts`, `meeting-auto-call-cron.service.ts`) | rows: `meeting_invites`; memory: 30 s timers | invite, answer, cancel, ring out, auto-call, join | session, notifications | an answer is final against a late timer; a pending invite rings or is resolved | `MeetingCalls` |
| **Meeting host schedules** (`meetings/meeting_host_schedules.service.ts`) | rows: a date, a list, a range or a weekday every few weeks, each for one host | create with conflict check, update, remove, exclude, truncate, swap, resolve | session (election) | a date has one host; no date changes hands by accident; a swap exchanges two | `HostSchedules` |
| **Scheduled participants and auto-call** (`meetings/meeting-scheduled-participants.service.ts`, `meeting-auto-call-cron.service.ts`) | rows: participants with answer and token, configuration | invite, answer by token or in the app, remove, configure; minutely job | calls | each call and retry falls in exactly one minute; answers settle | `AutoCall` |
| **Attendance log** (`attendance_logs/attendance_logs.service.ts`, `iclock/iclock.service.ts`) | one row per user and day | device records, QR/face scans, remote clock, absence fill, clock-forget corrections, edits | employee requests, schedules | earliest in, latest out, whatever the order; the gap between scans; the count | `AttendanceDay` |
| **Attendance reminders** (`attendance_logs/attendance_reminder.service.ts`) | memory: the flag of the running job | minute cron: remind to clock in, to clock out | log, requests, mail | everybody due is reminded once, in time | `AttendanceReminder` |
| **Employee requests** (`employee_requests/employee_requests.service.ts`) | the request's row; copies in Google Sheets, Google Calendar, the attendance log | create, update, approve/reject | Sheets, Calendar, attendance, Slack, mail | decided once; the copies follow the decision | `EmployeeRequests` |
| **Chat gateway** (`chat/chat.gateway.ts`, `messages`, `pinned-messages`) | memory: sockets per room; rows: messages, pins | join, leave, disconnect, send, reply, edit, delete, pin, notify | translation, notifications | no ghost in a room; the other member is told; a deleted message stays so | `ChatMessages` |
| **Chat rooms** (`chat/chat-room.service.ts`) | rows: rooms, members, read marks | create, join, invite, leave, remove, update, delete; what is unread | messages | one direct room per pair; no message is lost with its room; unread is what was not shown | `ChatRooms`, `ReadMarks` |
| **Reactions, sections** (`message_reactions`, `room-sections`) | rows: reactions, sections and items | toggle, load; add, move, remove, update | chat gateway | the screens show what is stored; a resource is in one section | `MessageReactions`, `RoomSections` |
| **Translation** (`translate/translate.service.ts`) | rows: cached translations per message | translate, cache, invalidate | language models | the cached text belongs to the current content; no language is lost | `ChatMessages` |
| **Memories** (`memories/memories.service.ts`) | albums with `photo_count`, photos, files, upload chunks, comments, download token | upload, upload in parts, transcode, remove, comment, translate, download, cleanup cron | disk, ffmpeg | the count is the number of photos; a row has its files; comments keep up | `Memories` |
| **Chatbot** (`chatbot/*`) | memory: prompt sections; rows: cached answers, section hashes | converse, cache, reload, invalidate | language model | no answer outlives the sections it was made from | `Chatbot` |
| **Contracts, users, faces** (`user_contracts`, `users`, `face`) | rows: contracts, their copy on the user, the face and its review, reminders sent | CRUD, daily reminder; register, review, clock in by face | notifications, attendance | the copy is of the latest contract; one reminder; only a reviewed face clocks | `StaffRecords` |
| Meeting records and REST | `meetings` rows, pins, summaries, mails | CRUD, listings | session | single statements | - |
| Sheets and Calendar | external rows and events | append, update, create, delete | Google | as part of employee requests | `EmployeeRequests` |
| Notifications, push, mail, Slack, events gateway | rows written once; sockets | send | external | fire and forget | - |
| Device protocol | - | parse records | attendance log | a format | - |
| Authentication, permissions | tokens, rights | guard | - | stateless | - |
| Organisation records, error logs, storage, schema | rows | CRUD, migrations | - | single statements | - |

`PROJECT.json` lists every component with its sources and status, and under
`hazards` forty places where the code is hard to test, each at its line, with the
properties that cover it or a note that says why none does.

## 2. How the models follow the code

* **One action per atomic section.** A handler is an action up to its first
  `await` and another per continuation. What it read before the await is kept in
  a variable of the handler (the roster of a join, the row an upsert has seen,
  the request an approval has found, `flight`, `request` or `call` in the later
  modules) and used afterwards, stale or not.
* **Statements that are not awaited** (`recordLeave`, `setActive`,
  `resetToScheduled`, the role update of a transfer, the read marks) are counters
  or sets of pending statements; the connection pool executes them in any order.
* **One row, one room.** Handlers touch only the meeting, invite, day, request,
  album or message they are called for, so each model has as few of them as the
  code relates, and several actors around them.
* **Failures** are alternatives: `DbFails` lets a statement throw (what was
  written stays, the catch block runs), calls to external services fail one by
  one as the code swallows them one by one, and restarts empty the memory and keep
  the rows. Where nothing catches, a call that dies midway is one that takes no
  further step.
* **Data** is abstracted to what is told apart: users and sockets are model
  values, a message is a member of a small set of texts, a translation is the text
  it translates, the content of a request is the edit that wrote it, a calendar
  event is its day, a face is a model value with a distance to every other.
* **Time** appears only where the code compares it: attendance and its reminders,
  host schedules, auto-call windows, read marks, contract expiry. Elsewhere timers
  may fire at any moment, which covers every delay.
* Variables whose comment says *history* are not state of the program; they
  record what a property needs to remember, most often that two requests crossed
  in the way the property excuses. Operators preceded by "Mutant of" are
  deliberately wrong variants of the definition after them: replacing it must
  break the property named for it in `PROJECT.json`, which shows that the
  property depends on that line of the code.

`PROJECT.json` maps every definition that models code to the lines it stands for.

## 3. Modules

### Meetings

**`MeetingSession`** is the room of one meeting in the gateway together with its
rows. Per-socket `joining` records are the `join_meeting` handlers waiting for
the co-hosts, with the roster they took before the await; `promoting` and
`demoting` are handlers between their two awaits; `detached` holds demotions
whose `Set` a concurrent join has replaced in the map (the handler goes on
deleting from the old object). `activating`, `electing`, `resets`, `leaves`,
`stepDowns` count statements in flight. `hostShown` is what the server last told
each client. Actions carry the names of the handlers: `Join`, `JoinQuery`,
`JoinResume`, `SetActive` and `ElectHost` (the activation of the first joiner),
`Leave`, `Disconnect`, `RecordLeave`, `ResetToScheduled`, `TransferHost`,
`StepDown`, `PromoteCoHost`/`PromoteWrite`/`PromoteResume` and likewise for
demotion, `EndMeeting`/`EndResume`, `SpeakerState`, `VoteCreate`; the REST side
`GenerateToken`, `AddCoHost`, `RemoveCoHost`; the cron job
`CleanupCount`/`CleanupReset`; and `Restart`.

**`RoomHost`** is the abstract promise: people enter and leave, somebody
electable is elected, the host hands over only to somebody present, the office
ends with the occupation. `MeetingSession` implements it under
`occupants <- participants, host <- runtimeHost` (`ImplementsRoomHost`).

**`MeetingFloor`** is the rest of the room: a chunk of audio is dropped while the
chunk before is worked on (`processing`), goes through one or both transcription
services and the translation (`ChunkStep`), each of which may refuse it, and ends
as a subtitle on every screen, in two parts when the translation is late; votes
are opened, cast, closed and removed with the disconnection of the last
participant and with the end of the meeting (`HangUp`, `CloseRoom`), or left
behind by `leave_meeting` (`GoOut`).

**`MeetingCalls`** is one invitee's invite row, the timers by invite id
(`rings`), the requests that write them as chains of database calls, the
auto-call of the cron job (which rings under a synthetic id without a row), the
invitee's joins and a restart. `excused` remembers that the timer of the present
pending period was stopped for a reason other than ringing out.

**`HostSchedules`** has the schedules of one meeting as rows of plans (a date, a
list of dates, a range, a weekday every `n` weeks, with excluded dates).
`Matches` is `matchesDate`, `Winner` the order of priorities among the schedules
that cover a date, `GeneratedDates` the loop the conflict check runs over the next
weeks. `CreateCheck`/
`CreateSave`, `UpdateFind`/`UpdateCheck`/`UpdateSave`, `RemoveFind`, `ExcludeFind`,
`TruncateFind` with `Delete`/`WriteColumn`, and the five steps of the swap are the
requests across their awaits.

**`AutoCall`** is one meeting (once, daily or weekly) with its configuration and
participants, the seconds of its calendar and the minutely job: `FindFirst` and
`FindRetries` compare triggers with the window of the minute, `ReadPeople` filters
who is to be called, `Fire` calls. `UpsertFind`/`UpsertSave`,
`InviteFind`/`InviteSave`, `AnswerFind`/`AnswerSave`, `Remove` are the requests;
leave, presence, declines and restarts come from the other components. `Down` is a
minute in which the server does not run.

### Attendance and requests

**`AttendanceDay`** is the log of one user on one day. All writers but the
administrator end in `upsert`, modelled as `Read`, then `UpdateClock`,
`UpdateCount`, `Insert` or `InsertRefused` (the unique key); before it, `Check`
is what scans, remote clocks and the absence fill look at. `AdminEdit` and
`AdminWrite` are the two halves of `adminEdit`.

**`AttendanceReminder`** extends it by the minute cron job, one record per run
that could be under way: `Minute` is the tick (swallowed while the flag is up),
`LoadClockIn`, `LoadLeave`, `RemindClockIn`, `LoadClockOut`, `RemindClockOut` the
statements of a run. It composes with the log: the writers of `AttendanceDay` move
between the statements, and the properties of the log are checked in the
composition.

**`EmployeeRequests`** is one request and its copies. `create` is the chain
`Save`, `Load`, `AppendRow`, `StoreIndex`, `CreateEvent` per day, `StoreEvents`;
`approve` is `Find`, `Decide`, `ShowStatus`/`ShowApprover` per column of the
sheet, `DeleteEvent` per day, `Reload`, `Clock`; `update` is `FindEdit`,
`WriteEdit`, `Reread`, `ShowCell` per column. Each call to Google has a failing
twin (`SheetFails`, `EventFails`, `ColumnFails`, `DeleteFails`, `CellFails`).

### Chat

**`ChatMessages`** is a direct room: sockets that join across two awaits
(`JoinRoom`, `JoinRegister`), leave and disconnect; messages that are sent,
replied to, edited (`EditFind`/`EditRead`/`EditSave`/`EditDetect`), deleted
(`SoftDelete`, `InvalidateCache`, `DeleteUnpin`), pinned; background translations
(`jobs`) that read the cache and later write the whole map of languages; and the
notices that reach sockets in the room or the personal room of the user. `Age` ends
the time in which a message may be edited or deleted.

**`ChatRooms`** has the rooms and memberships with the keys the database keeps:
unique names, one membership per user and room. `Create*`, `OpenMeeting`,
`EnterMeeting`, `Join`, `Invite`, `Leave`, `RemoveMember`, `Update`, `Remove` each
check with one statement and write with later ones (`flight`). `Talk` is a message
that arrives meanwhile.

**`ReadMarks`** is `last_read_at`: marks are called at an instant, executed later
and in any order (`MarkRuns`), and rounded to a second, while `created_at` is cut;
the clock therefore counts half seconds. `NotifyUnread` follows `Broadcast` after
the lookup of the members.

**`MessageReactions`** and **`RoomSections`** are the toggles of reactions to one
message with what each client shows, and the sections of one user with their
items, as sets.

### Memories, chatbot, staff

**`Memories`** is one album with its members, photos, files (`disk`), chunks
(`temp`), transcodings (`job`), token and comments. The next-state relation is the
disjunction of `AlbumNext`, `PhotosNext`, `PartsNext`, `TokenNext`, `CommentsNext`
and a restart; `torn` and `overlap` remember which of the album's statements were
missed and which objects two requests had in hand.

**`Chatbot`** has the prompt files, the sections in memory, the prompts assembled
from them, the stored hashes and the cache. A reload is `ListFiles`, `ReadFile` for
each, `Assemble`, `Compare`, `StoreHash` and `Invalidate` for each; conversations
(`Converse`, `Answer`, `Save`), edits of files and a restart go on meanwhile.

**`StaffRecords`** is the user's row: the copy of the latest contract
(`CountContracts`, `FindLatest`, `CopyLatest` after every write of a contract), the
daily sweep with its notifications per company and manager (`Sweep`,
`Recipients`, `Notify`, `MarkSent`), and the face (`RegisterFace`/`StoreFace`,
`ReviewKyc`/`WriteReview`, `CancelKyc`/`WriteCancel`, `FaceCheckin`/`ClockFace`).
`FaceCheckin` with the user's id is the path that HTTP reaches; the kiosk mode of
the service without an id is not.

### Instances and compositions

`MC<module>` gives the modules their instances (model values, sockets of users,
symmetry) and states the comments that a configuration refutes; `<module>_proofs`
holds the theorems, of `<module>` and often of a neighbour too: calls with the floor
(`MeetingCalls_proofs`), the log with its reminders (`AttendanceDay_proofs`), the
schedules with the auto-calls (`HostSchedules_proofs`), and all that is in
`MCChatRooms` (`ChatRooms_proofs`). The theorems about `StaffRecords` and `Chatbot`
are at the end of `EmployeeRequests_proofs` and `AttendanceDay_proofs`. Three MC modules put independent modules side by
side: `MCPlanning` (`HostSchedules`, `AutoCall`), `MCChatRooms` (`ChatRooms`,
`ReadMarks`, `MessageReactions`, `RoomSections`) and `MCMeetingCalls`
(`MeetingCalls`, `MeetingFloor`). Their parts share no variable that both write and
read none of each other's, so a behaviour of the whole is one of each part; the
constant choice `moving` lets an instance move one of them, which spares TLC the
product.

The components meet at these places: a join of the session stops the timers of
the calls (`Enter`, `EnterDone` in `MeetingCalls` are `Join`, `JoinResume` as
seen from the invite); the auto-call job rings through the calls (`AutoCall` in
`MeetingCalls` is `Fire`); an approved clock-forget request is a `Record` of
`AttendanceDay` and `Clock` in `EmployeeRequests`; approved leave is
`ApproveLeave` in `AutoCall` and `AttendanceReminder`; `GenerateToken` opens the
row that the cleanup job counts.

## 4. Runs

Deadlock checking is off everywhere: clients may stop acting, the commands are
bounded, and the system then rests in states without a successor.

| Run | Instance | Checks |
|---|---|---|
| `session_safety` | two users with a socket each, owner and a scheduled host, 5 commands, failing statements and restarts | `HostViewAgrees`, `OccupantsHaveSpeakerEntry`, `ImplementsRoomHost` |
| `session_liveness` | three sockets (the owner has two tabs), 4 commands, restarts, fair | `HostEventually`, `CleanupHeals` |
| `session_stuck` | one restart among 3 commands, fair | refutes `StuckIsReset` |
| `calls` | two overlapping requests and 6 commands on an invite, failures, restarts, fair; or two sockets with two chunks each, both services; or one vote by two users in two sessions | `AnswerKept`, `PendingAccountedFor`, `PendingResolves`, `SubtitlesInOrder`, `SpeakersFreed`, `VotesAreOfSession` |
| `attendance` | two overlapping writers, a day of four minutes, gap 2, 2 requests, two runs of the reminder job | `ClockIsKept`, `CountUnlessEdited`, `RemindersInTime` |
| `requests` | the creation of a request on two days, two decisions, two edits (one by the owner), 3 of these calls, one data column | `SheetShowsChanges`, `EventsFollowDecisions`, `ClockFollowsDecision` |
| `planning` | two hosts, six plans, six dates in weeks of two days, a check that looks three dates ahead, 4 schedules, 3 requests of which two overlap; or one user, three meetings, days of four minutes, a job that is 0 or 30 s late, 4 changes | `OneHostPerDate`, `NeverStolen`, `SwapExchanges`, `CalledOnce`, `NobodyForgotten`, `AnswersSettle` |
| `messages` | two users, three sockets, two messages out of three texts (one needs no translation), 4 requests of which two overlap | `RosterAgrees`, `TranslationsAreCurrent`, `DeletedStaysDeleted`, `OthersReached` |
| `rooms` | two users, two rooms, 3 requests of which two overlap; or a reader and a writer, four half seconds, two messages, two marks; or two users, two emojis, three toggles and a load; or two resources, two sections, 5 orders of which two overlap | `OneDirectRoom`, `MessagesSurvive`, `ReadAgrees`, `NoMessageMissed`, `ReactionsShown`, `InOneSection` |
| `memories` | two users, two photos, two texts, a comment on each kind of object, 3 requests of which two overlap, restarts | `CountMatches`, `RowsHaveFiles`, `CommentsKeepUp` |
| `chatbot` | two sections, three questions, a conversation, two reloads, two edits, 3 requests, restarts | `CachedAnswersAreCurrent` |
| `staff` | two users, two companies with the same manager, two contracts, two days, three faces, 4 requests of which two overlap | `MirrorIsLatest`, `RemindedOnce`, `OnlyReviewedFacesClock` |

What they show:

* *Session.* Whatever elections, transfers, failing statements and restarts
  interleave, every client whose join was answered shows the host the server
  holds; an occupied room gets a host (provided the database answers), so a stale
  election or reset of an earlier session never uses up the one a new session
  needs; a participant with one socket keeps the speaker entry the next joiner
  sees (the run has one tab each, the proof any number); a meeting left active is reset
  once no row is open.
* *Calls.* No order of invite, answer, cancel, ring-out and renewed invite (the
  timer is keyed by an id that a renewed invite shares) leaves an invite pending
  for a reason not in the list of `PendingAccountedFor`, and no late timer
  overwrites an answer.
* *Floor.* Because a speaker's chunk is refused while the one before is at work,
  subtitles come in order although two services race; whatever of them fails, the
  speaker is free again; and the votes a session starts with are its own, or those
  `leave_meeting` left, or one opened by somebody not in the room.
* *Attendance.* Without overlap the log is the earliest clock-in and latest
  clock-out, resent and reordered records included, and a clock-out decided by a
  scan keeps its gap to the clock-in; the count agrees with the times even when
  writers overlap, unless an administrator edits; nobody is reminded twice, and
  everybody due is reminded unless a run before took longer than its minute.
* *Requests.* A decision (or edit) that is the only one and found the index of the
  sheet's row ends up in the sheet, whatever the creation does at the same time;
  no event is orphaned unless a call failed; a rejection that found the events
  leaves none; the attendance log follows the approvals.
* *Planning.* A date comes to have two hosts only where a check was stale, did not
  look as far, or was not made (truncation, activation); no statement hands a date
  from one schedule to another; a swap that nobody disturbs and that does not
  break off exchanges exactly two dates. Every call and retry that is due under a
  settled configuration happens exactly once although the job comes late; whoever
  was removed while no answer of theirs was in flight stays removed, and a token
  once used stays used.
* *Messages.* Rosters of clients are those of the server, but for sockets that
  disconnected while they joined; a member is pushed or announced every message;
  a message without overlapping edits ends up with translations of its text in
  every language; deletion is final unless an edit was under way.
* *Rooms.* Two rooms for a pair of users need two creations that crossed or a
  creation that broke off; a room that holds messages is not removed, unless one
  came between count and removal; what counts as unread was not shown and what
  counts as read was, outside the second of leaving; a message always reaches the
  screen or a notice does; screens show the stored reactions; a resource is in one
  section, unless two additions or an update and a move crossed.
* *Memories.* `photo_count` is the number of rows unless a removal was doubled or
  a step of it failed; every row has the files it names, through transcoding,
  removal and restart; a comment that no two requests touch at once has the
  reactions last toggled, and on a photo no translation but of its text.
* *Chatbot.* An answer from the cache was drawn from the sections as they are,
  but for those saved while a reload was under way or after one that broke off or
  overlapped.
* *Staff.* The copy on the user's row is the latest contract unless two writes
  crossed, one broke off or the form of the user was saved; a manager is told of
  an employee once per day and company, unless a run broke off; a face clocks in
  only if an administrator's review has seen it, or it was registered while a
  review was under way.

**Definitions not in the runs above** hold under the same configurations and
may be named in them: the type invariants (`TypeOK` and `<part>TypeOK`),
`HostOrElecting` and `CoHostsHaveRows` (session), `TokenServesOnce` and
`CreatorIsMember` (memories), `ServedForRole` and `PromptsAreWhole` (chatbot), all of
which are proved, and `MatchIsSure` (staff), `DeclineEndsSession` (auto-call), `NoEmptyRoom` (rooms).

**Bounds.** Two of each actor are what it takes for a race between two, and a
third socket is there for a user with two tabs. Four to six commands are enough
to empty a room and fill it again with statements of the first session still in
flight (join, leave, join), to invite, answer, and invite again with a cancel or
a join in between. Times 1..4 with gap 2 contain a scan that is too soon, one that
is just late enough, a clock-in that moves, and a job that runs into the next
minute. Two days let an event be deleted and the other not; three calls of approve
and update allow two decisions around an edit and two edits around a decision.
Six dates in weeks of two days hold a recurrence twice within and once beyond the
check's horizon. Days of four minutes make a trigger fall on either side of
midnight, and half a minute is the most a minute window tolerates. Three requests,
two at a time, are a preparation (a row to fight over) and a race. Half seconds
are the finest that rounding and cutting to seconds tell apart. Three faces give a
match, a rival within the margin and a stranger; two companies under one manager
give a reminder that could be sent twice. The proofs remove these bounds for the
safety properties they state.

**Symmetry** is used where the values are interchangeable: slots, runs, and in
some instances users or sections; never with liveness, and not for values the
instance tells apart (the owner, the creator, an edit by the owner).

**Fairness** is weak and only on what the runtime does by itself: the event loop
resumes every handler whose statement is done, the pool executes every statement,
timers fire, the cleanup job runs every ten minutes, and transcriptions and
translations are given up after their timeouts (`FloorFairness`). It is per action
and per user, socket or chunk, as the loop and the pool drop none. Clients,
employees and approvers owe nothing, and nothing is assumed about who wins a race.
With failures on, a failing statement counts as executed; `HostEventually`
therefore assumes `DbFails = FALSE`, since a lost election is not retried by the
code. The modules without a liveness property state none, as their specifications
are only asked for safety.

## 5. Proofs

All theorems hold for any sets of users, sockets, requests, slots, calls, columns,
days, contracts, faces and prompt files and any number of commands, under the named
assumptions of the modules (sockets are finite and have a user, the owner is a user,
prompt files are finite, bounds are naturals). Three
of the assumptions say more than that: `ReminderBounds` has the settings of the
reminders be settings, `AutoCallAssumption` has every change of the configuration an
instance allows be one the DTO lets through, and `MemoriesAssumption` has finitely
many photos and request slots, since `CountMatches` speaks of cardinalities. The
others keep values apart that the code keeps apart: in `StaffAssumption` the
absent contract has no user, the absent face is no face and the last day is not
the day before the first.

Every proof is laid out alike: the inductive invariant is a conjunction of named
parts; a lemma per action (or group of actions that change the same variables) says
which parts it keeps; the step lemma puts them together along the next-state
relation; and the theorem adds the initial states and the last temporal step.

### Meetings

* Session (`MeetingSession_proofs`): `TypeCorrect`; `HostViewCorrect`
  (`HostViewAgrees` is inductive with the types); `HostOrElectingCorrect`;
  `CoHostsCorrect`; `SpeakerEntryCorrect`, for users with any number of tabs;
  `RoomHostImplemented`, the refinement of `RoomHost`: initial states map to
  initial states, each action to a step or a stutter.
* Calls (`MeetingCalls_proofs`): `TypeCorrect`; `AnswerKeptCorrect`, an action
  property; `PendingAccountedForCorrect`. The latter is not inductive by itself: an
  answer could stop the timer of another row with the same id. `PendingInv` adds that
  ids grow and are never reused (`IdsFresh`).
* Floor (the same module): `FloorTypeCorrect`; `SubtitlesInOrderCorrect`: a socket
  has at most one chunk at work, and it is the last it was taken of (`OneAtWork`),
  so nothing on a screen is ahead of it (`NothingAhead`) and its final subtitle is
  not there yet (`NotAnswered`); `VotesAreOfSessionCorrect`: a vote is of the
  present session or carried (`VotesInv`), whoever comes and goes.
* Schedules (`HostSchedules_proofs`): `ScheduleTypeCorrect`; `CheckIsExact`, about the
  calendar alone: the dates a plan is expanded into are those it covers up to the
  last one looked at, which is arithmetic with remainders for recurring plans;
  `OneHostPerDateCorrect`, which needs that a request that is `clean` still knows
  that its plan has no conflict when it writes; `NeverStolenCorrect` and
  `SwapExchangesCorrect`, action properties: an undisturbed swap has freed both its
  dates by the time it stores its two rows (`SwapHolds`).
* Auto-call (the same module): `AutoCallTypeCorrect`. `AnswersSettleCorrect`: an answer
  in flight holds a row that exists or a removed one (`RowsNumbered`), and what is out
  or spent stays so but for the answers in flight (`OutStays`, `SpentStays`); a row is
  recognised by its user and number, since an invitation after a removal makes a new
  row with a new token. `CalledOnceCorrect` is the arithmetic of the windows: all a run will call
  falls into the minute of its tick (`InMinute`, `InTime`), every call made falls into
  a minute before the next tick (`Fresh`), and two triggers of one session fall into
  one window only if they are the same. `NobodyForgottenCorrect`: `ServingInv`
  follows a run through its two queries: everybody due at the first trigger has been
  called, or is still in the list of the run, at every point of the run
  (`ServedBefore`, `AimedRight`).

### Attendance and requests

* Log (`AttendanceDay_proofs`): `TypeCorrect`, `EarliestAndLatestCorrect`,
  `ScansKeepGapCorrect`, together `ClockIsKeptCorrect`, and
  `CountUnlessEditedCorrect`. The first rest on `SeenIsRow`: while nothing has
  overlapped, what the only writer has seen is still the row;
  `PendingScansKeepGap` says that a scan between decision and write will keep the
  gap. The count needs a different argument, because it is computed from a stale
  row: times are never taken away (`TimesStay`), every writer but the fill brings a
  time (`BringsTime`), there is one fill (`OneFill`), a row without times is the
  fill's (`BlankIsFilled`), so the fill, should it write again, has seen the times
  (`FillSeesTime`).
* Reminders (the same module): `RemindersKeepLog` shows that `ReminderSpec` implements
  the specification of the log, so every theorem about the log holds beside the job.
  `RemindersInTimeCorrect`: one run holds the flag (`OneRun`), it has yet to remind, or
  has reminded, whoever was due at its tick and is due still (`SentOrComing`), and a
  run that is of the minute sends nothing a second time (`SentOnce`).
* Requests (`EmployeeRequests_proofs`): `TypeCorrect` and a theorem per property of the
  run (`SheetShowsChangesCorrect`, `EventsFollowDecisionsCorrect`,
  `ClockFollowsDecisionCorrect`) and per part of them. The inductive invariant
  `IInv` says that the index and events are stored in the course of `create`
  (`CreationOrder`), so that who has found them (`Found`) knows `create` is past
  appending (it cannot overwrite the sheet) or is over (no event will be added);
  and it follows what the only decision, the only edit and a rejection have done so
  far (`SheetFollows`, `SheetFollowsEdit`, `EventsLeft`).

### Chat

* Messages (`ChatMessages_proofs`): `ChatTypeCorrect`; `RosterAgreesCorrect`, inductive
  with the types; `OthersReachedCorrect`, an action property that rests on `Ghosts` (a
  socket in a user's room that is not connected was registered late);
  `DeletedStaysDeletedCorrect`, which needs that an edit suspended before its save has
  read the deletion (`Deletion`); `TranslationsAreCurrentCorrect`. For the last,
  `Currency` says of every message without an overlap that its jobs render the present
  text and complete nothing else, that a job which will read the cache finds it current
  (`JobFits`), and that an edit in flight has its text in the row and will start a job
  (`EditFits`).
* Rooms (`ChatRooms_proofs`): `RoomsTypeCorrect`; `MessagesSurviveCorrect`;
  `OneDirectRoomCorrect`: a direct room of two is being made by one request
  (`OneMaker`), and unless two of them crossed or one broke off, a request that found
  none still finds none when it writes (`AllFine`), so there is one room (`OneRoom`).
* Read marks (the same module): `MarksTypeCorrect`; `NoMessageMissedCorrect`: who is in
  the room has been shown everything broadcast, and everything else is under way or
  in the list they get on entering (`PresentHaveAll`). `ReadAgreesCorrect`: marks carry
  the number and the instant of their call (`MarkOrder`), whoever was never marked has
  been shown nothing (`Strangers`), the stored mark is the rounded time of the call it
  holds (`SecondStored`), and a message is shown or not according to the side of the
  last leave on which it was broadcast (`Parted`).
* Reactions and sections (the same module): `ReactionsShownCorrect`; `InOneSectionCorrect`,
  where an add between its deletion and its save still finds its resource in no
  section unless the add was crossed.

### Memories

`Memories_proofs`: `MemoriesTypeCorrect`, which holds the foreign keys: nothing of an
album outlives it. `RowsHaveFilesCorrect`: a photo that is being stored is known to its
request alone (`HeldApart`, `HeldWhole`), nobody is about to unlink its files
(`HeldSafe`, `DoomedOnly`), and a transcoding works on stored photos only
(`Transcoded`). `CountMatchesCorrect` balances cardinalities: the count, plus what
uploads in flight will add, is the number of rows plus what removals in flight will
take off (`Counting`); every action moves one amount from one side of the books to the
other. `CommentsKeepUpCorrect` follows a comment from its making through each request
that has it in hand. `CreatorStaysMember` and `TokenServesOnceCorrect` prove two
invariants of the module that no run names.

### Staff

`EmployeeRequests_proofs` holds these too: `StaffTypeCorrect`.
`MirrorIsLatestCorrect`: unless a user's copy is torn, one request at a time is at
that user's contracts (`OneAtContracts`), it is aimed at that user (`Aimed`), and what
it has read is right at each of its statements (`CopyRight`); when none is there, the
copy is the latest contract, which exists because a user with contracts has a last one
(`SomeLatest`, a minimum over a well-founded order). `RemindedOnceCorrect` follows the
sweep: a manager who is not away is active (`ActiveUnlessAway`), the users it has yet to
pass are not marked (`NotYet`), of the user at hand every manager is still to be listed,
still to be told, or told (`BeingTold`); so a user is marked only when all have been told
(`AllTold`), and nobody is told before the run is past them, nor then again (`OnlyOnce`,
unless a run broke off). `OnlyReviewedFacesClockCorrect` follows a face from its
registration through the review to the status and the requests that clock with it.

### Chatbot

`AttendanceDay_proofs` holds these at its end. `ChatbotTypeCorrect` needs that the files
are finitely many, so that listing them is a sequence, and that the hashes computed from
sections that come twice are of the later one. `ServedForRoleCorrect` follows from the
same invariant: an entry and the call that will save it were asked with a prompt for the
role of their key. `CachedAnswersAreCurrentCorrect` rests on `CacheInv`: unless reloads
overlap there is one (`OneReload`), and while they do nothing is trusted
(`TrustedApart`); the hashes a reload has yet to store are the stored ones except for
the sections it knows to have changed (`ChangesKnown`); and each section of a trusted
answer has the stored hash or is in the list of changed sections whose answers the
reload has yet to delete (`TrustedOrCondemned`). The last is what makes it safe to
store the hashes before the answers are deleted, which the code does.
`PromptsAreWholeCorrect`: the list a lone reload reads into and the files it has yet to
read have nothing in common and nothing twice (`ReadsWhole`).

### What the proofs changed

Two definitions of the models were wrong or too weak to reason about, and the proofs
showed it. In `AutoCall` the history of spent tokens named a row by a number that rows
of different users share, so that a token of one user could pass for that of another; it
now names the user and the row. And `Settings` of the reminders was typed in the
instance only. Two more were rewritten to be within the prover's reach, with the same
behaviour on the instances: the matching of faces in `StaffRecords` is a fold over the
orders in which candidates can come instead of a recursion, and a prompt in `Chatbot`
keeps the numbers its sections have in memory instead of being counted anew.

### Only model-checked

* The liveness properties (`HostEventually`, `CleanupHeals`, `PendingResolves`,
  `SpeakersFreed`): they are out of the prover's reach, as is everything with `ENABLED`.
* `MatchIsSure`, an invariant no run names: it is about the result of a fold, for which
  the provers have no induction. `DeclineEndsSession` and `NoEmptyRoom`, which no run
  names either.

The refutations are counterexamples of TLC.

## 6. Divergences found

Each configuration states what a comment or prompt of the source says, and TLC
violates it. `session_stuck` is listed as a run; the others are configurations
to be run by hand with the module named.

| Configuration (module) | The source says | The code does |
|---|---|---|
| `MeetingSession_stuck.cfg` (`MCMeetingSession`): `StuckIsReset` | `meetings.service.ts:688`, the job heals a restart during a meeting | nobody closes the rows of the lost session, which hold the job off for ever |
| `MeetingSession_crossing.cfg` (`MCMeetingSession`): `OccupiedIsActive` | `meetings.service.ts:530`, the first join sets the meeting active | the reset of the session before may be executed after it: occupied and scheduled |
| the same with `PROPERTY DemotedIsNoCoHost` and 5 commands | `meetings.gateway.ts:683`, the demoted is removed from the co-host set | a join that awaited the co-hosts has replaced the set; authority stays |
| `MeetingCalls_pending.cfg` (`MCMeetingCalls`): `PendingIsRinging` | `meetings.service.ts:754`, a pending invite is still waiting to respond | an invitee who joins stops the timer and leaves the row pending; never rung again |
| `MCAttendanceReminder_attendance.cfg` (`MCAttendanceReminder`) with `INVARIANT CountSaysClocked` | `attendance_log.entity.ts:65`, 1 if the user clocked at any point | `adminEdit` writes the times and not the count |
| `EmployeeRequests_rejected.cfg` (`MCEmployeeRequests`): `RejectedLeavesNoEvent` | `employee_requests.service.ts:454`, a rejection removes the events created on submission | the ids are stored after the last event is created; a rejection before that deletes none |
| `MCSchedules_swap.cfg` (`MCSchedules`): `SwapIsAtomic` | `meeting_host_schedules.service.ts`, "Swaps the hosts of two dates atomically" | several statements; another request may come between or one may fail |
| `MCAutoCall_retries.cfg` (`MCAutoCall`): `RetriesBeforeStart` | `meeting-scheduled-participants.service.ts`, all retries must complete before the meeting starts | a first configuration with fields left out is not validated, and the database fills in its defaults (in a validated one `>` for "strictly less" lets the last retry fall on the start itself, which the property admits) |
| `MCChatMessages_stale.cfg` (`MCChatMessages`): `NoStaleTranslation` | `chat/chat.gateway.ts:425`, "forceRefresh:true ensures stale cache is never used after edit" | a translation that began before the edit writes after it |
| `MCChatbot_language.cfg` (`MCChatbot`): `ServedInLanguage` | `prompt-builder.service.ts:192`, the model is to answer in the user's language only | the cache is looked up without the language |
| `MCMemories_album.cfg` (`MCMemories`): `AlbumTranslationsReset` | `memories.service.ts:1906`, "Reset translations since text changed" | the update of a comment on an album writes the text and the language, not the translations |

Also seen, and true of the code although no document says otherwise, so no
configuration states the opposite:

* *Meetings.* An emptied room may keep a co-host set of a promotion that was in
  flight; votes survive a `leave_meeting` of the last participant, and may be
  opened, cast and closed by sockets not in the room; the roster in
  `meeting_state` may be stale; REST co-hosts and the gateway's set may disagree; a
  transferring owner's row is downgraded; the cleanup job may reset an occupied
  meeting when somebody joins between its two statements; closing one of two tabs
  deletes the speaker entry of both. The early return at
  `meetings.gateway.ts:854` makes the branch at 869-877 unreachable: chunks are
  dropped, never queued, and "keep max 2" does not apply; a chunk of one session
  may be shown in the next.
* *Attendance.* Overlapping punches may keep the later clock-in, and the second of
  two first punches of a day is refused and lost. A run of the reminder job that
  takes longer than a minute swallows the next tick; the reminder to clock out also
  goes to users on leave.
* *Requests.* Overlapping decisions are both carried out, and the sheet, the
  calendar and the log may follow different ones.
* *Chat.* Messages stored within the second of leaving count as read though
  unseen; a message stored before and broadcast after leaving counts as read and is
  notified; marks may overtake each other; deleted messages are counted unread. A
  toggle that fails after its deletion broadcasts nothing; an item whose addition
  fails after the deletion is lost; the update of a section that crosses a removal
  brings back an item or the section. Automatic names of direct rooms ("DM - ...")
  collide on the unique name when two users open a room with the same third.
* *Memories.* If the first thumbnail of a video fails and the one made again fails
  too, transcoding removes the original and the row names a thumbnail that does
  not exist (`memories.service.ts`, about 2325-2342): not in the model, whose rows
  name a thumbnail only when there is one. A part that vanishes during the merge
  throws inside a write callback (2147-2155); with the one part of the instance
  that does not show.
* *Chatbot.* Tags and order of sections are not hashed and new sections invalidate
  nothing; a restart does not compare hashes; a failed sync reports success and
  keeps outdated answers; overlapping reloads double sections in memory; answers
  that depend on the conversation are cached by the last question alone; an entry
  keeps the language of its first insert. `purgeExpired` (cache) and `pruneOld`
  (notifications) are never called.
* *Staff.* A lone candidate within the margin of the threshold is refused as
  ambiguous; a manager of two companies is told twice; a failing notification has
  all managers told again; a review may approve a face registered after it read the
  row; nothing keeps two contracts of a user from having the same number.

## 7. What is not covered

* Parts of modelled components: relays that keep no state (chat and reactions in
  a meeting, hand raising, screen sharing, mute and kick, typing); synthesis of
  speech; mails, Slack and socket notifications; reading, listing and exporting;
  QR tokens of attendance, the schedule lookup of `upsert` (a failing lookup is a
  call that goes no further); time zones, in the reminders, the auto-calls and the
  face scans (one day in one zone); the dates of calendar events after an edit (the
  code does not move them); reactions to photos, views, sharing and detected
  languages of memories; rate limits, costs and logs of translation and chatbot;
  names and positions of sections; the restart of a reminder sweep of contracts.
* Components without a module: meeting records and REST, device protocol,
  authentication and permissions, organisation records, error logs and storage,
  database schema. They are CRUD of single rows, formats, stateless guards or
  output to external services; the unique keys and column precisions the code
  relies on are in the modules that use them.
* Several server processes: the gateways' maps are in the memory of one.

## 8. Plan

1. *Done.* Meetings: session with the refinement of the host protocol, calls,
   audio and votes, host schedules, auto-call; proofs.
2. *Done.* Attendance and requests: the log, the reminders beside it, the
   requests with their copies; proofs, the refinement of the log included.
3. *Done.* Chat: messages with translations, rooms, read marks, reactions,
   sections; proofs.
4. *Done.* Memories, chatbot, staff records; proofs.
5. Compositions left: `MeetingSession` with `MeetingCalls` (a join as one action of
   both), `EmployeeRequests` with `AttendanceDay` (the correction as a writer that
   overlaps others), `AutoCall` with `HostSchedules` (the host's calendar decides
   the trigger), each with the component's specification as a property.
6. Abstract specifications worth stating: the host schedules as a function from
   dates to hosts; the chat room as a sequence of messages each member has read up
   to a point.
