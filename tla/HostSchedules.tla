--------------------------- MODULE HostSchedules ---------------------------
(***************************************************************************)
(* Who hosts a meeting on which date (meeting_host_schedules.service.ts).  *)
(* A meeting has schedules, each for one host: a single date, a list of    *)
(* dates, a range, or a weekday every few weeks.  A request reads the      *)
(* schedules, decides, and writes after further awaits; two requests may   *)
(* overlap.  A request that dies midway is one that takes no further step. *)
(***************************************************************************)
EXTENDS Integers, FiniteSets

CONSTANTS
  Hosts,          \* users a schedule may name
  NoHost,         \* nobody is scheduled
  Plans,          \* the schedules a client may ask for
  Week,           \* days of a week (7 in the code)
  Horizon,        \* days a recurrence is expanded for the check (two years)
  LastDate,       \* bound: the calendar is 0..LastDate, date 0 a Sunday
  Today,          \* the present date
  Slots,          \* requests that may overlap
  MaxRows,        \* bound on the schedules ever stored
  MaxAsked        \* bound on the requests

Dates == 0..LastDate

\* An open recurrence has an end no date reaches.
NoEnd == LastDate + Horizon + Week

Kinds == {"one_time", "date_list", "date_range", "recurring"}

\* The columns of a schedule that say when; from and to are also the start and
\* end of a recurrence.
Plan == [kind: Kinds, dates: SUBSET Dates, from: Nat, to: Int,
         day: 0..Week - 1, every: Nat \ {0}]

ASSUME CalendarAssumption ==
  /\ Week \in Nat \ {0}
  /\ Horizon \in Nat
  /\ LastDate \in Nat
  /\ Today \in Nat
  /\ MaxRows \in Nat
  /\ MaxAsked \in Nat
  /\ NoHost \notin Hosts
  /\ Plans \subseteq Plan
  /\ Hosts # {} /\ Plans # {}

Row == [user: Hosts, plan: Plan, excluded: SUBSET Dates, active: BOOLEAN]

----------------------------------------------------------------------------
(* Dates of a plan.                                                        *)

Weekday(d) == d % Week

\* The first day of the plan's weekday on or after its start.
FirstOccurrence(p) == p.from + ((p.day - Weekday(p.from) + Week) % Week)

Recurs(p, d) ==
  /\ d <= p.to
  /\ Weekday(d) = p.day
  /\ d >= FirstOccurrence(p)
  /\ ((d - FirstOccurrence(p)) \div Week) % p.every = 0

Matches(p, d) ==
  CASE p.kind \in {"one_time", "date_list"} -> d \in p.dates
    [] p.kind = "date_range" -> d \in p.from..p.to
    [] p.kind = "recurring" -> Recurs(p, d)

\* The last date the check for conflicts looks at.
LastChecked(p) ==
  IF p.kind = "recurring" /\ p.from + Horizon < p.to
  THEN p.from + Horizon
  ELSE p.to

\* The dates the check compares with other schedules, as the loops build them.
GeneratedDates(p) ==
  CASE p.kind \in {"one_time", "date_list"} -> p.dates
    [] p.kind = "date_range" -> p.from..LastChecked(p)
    [] p.kind = "recurring" ->
         {d \in FirstOccurrence(p)..LastChecked(p) :
            \E n \in 0..LastChecked(p) : d = FirstOccurrence(p) + n * (p.every * Week)}

----------------------------------------------------------------------------
VARIABLES
  ids,        \* schedules stored
  rows,       \* schedule of each id
  next,       \* next id; ids grow with created_at
  call,       \* request in each slot
  asked,      \* number of requests so far
  clean,      \* history: nobody has written since the slot's request first read
  unchecked   \* history: dates that came to be covered without a valid check

scheduleVars == <<ids, rows, next, call, asked, clean, unchecked>>

Ids == 1..MaxRows
Idle == [op |-> "idle"]

\* What rows holds where nothing is stored.
Blank == [user |-> CHOOSE h \in Hosts : TRUE, plan |-> CHOOSE p \in Plans : TRUE,
          excluded |-> {}, active |-> FALSE]

CoversDate(r, d) == d \notin r.excluded /\ Matches(r.plan, d)

\* The active schedules that cover a date.
Covering(d) == {i \in ids : rows[i].active /\ CoversDate(rows[i], d)}

Priority(kind) ==
  CASE kind = "one_time" -> 4 [] kind = "date_list" -> 3
    [] kind = "date_range" -> 2 [] kind = "recurring" -> 1

\* The most specific schedule wins, among equals the latest.
Beats(i, j) ==
  LET p == Priority(rows[i].plan.kind)
      q == Priority(rows[j].plan.kind)
  IN  p > q \/ (p = q /\ i >= j)

Winner(d) == CHOOSE i \in Covering(d) : \A j \in Covering(d) : Beats(i, j)

\* What resolveHostForDate answers; the owner takes over where nobody is scheduled.
HostOn(d) == IF Covering(d) = {} THEN NoHost ELSE rows[Winner(d)].user

\* Mutant of Conflict: no schedule is compared.
NoConflict(p, self) == FALSE

\* Mutant of Conflict: schedules of another kind are not compared.
SameKindConflict(p, self) ==
  \E d \in GeneratedDates(p) : \E i \in ids \ {self} :
    rows[i].active /\ rows[i].plan.kind = p.kind /\ CoversDate(rows[i], d)

\* Another active schedule covers a date of the plan.
Conflict(p, self) ==
  \E d \in GeneratedDates(p) : \E i \in ids \ {self} :
    rows[i].active /\ CoversDate(rows[i], d)

----------------------------------------------------------------------------
ScheduleInit ==
  /\ ids = {}
  /\ rows = [i \in Ids |-> Blank]
  /\ next = 1
  /\ call = [s \in Slots |-> Idle]
  /\ asked = 0
  /\ clean = [s \in Slots |-> FALSE]
  /\ unchecked = {}

\* A request takes a free slot with its first read.
Ask(s, c) ==
  /\ call[s] = Idle
  /\ asked < MaxAsked
  /\ asked' = asked + 1
  /\ call' = [call EXCEPT ![s] = c]
  /\ clean' = [clean EXCEPT ![s] = TRUE]
  /\ UNCHANGED <<ids, rows, next, unchecked>>

GoOn(s, c) ==
  /\ call' = [call EXCEPT ![s] = c]
  /\ UNCHANGED <<ids, rows, next, asked, clean, unchecked>>

\* Dates the schedule i covers once it is r, and does not cover now.
Gained(i, r) == {d \in Dates : r.active /\ CoversDate(r, d) /\ i \notin Covering(d)}

\* What the others have read is no longer what is stored.
Disturb(s) == clean' = [t \in Slots |-> t = s /\ clean[t]]

\* create: assertNoDuplicateDates found no conflict; the row is to be saved.
CreateCheck(s, h, p) ==
  /\ ~Conflict(p, 0)
  /\ Ask(s, [op |-> "create",
             row |-> [user |-> h, plan |-> p, excluded |-> {}, active |-> TRUE]])

CreateSave(s) ==
  LET r == call[s].row
      new == Gained(next, r)
  IN
  /\ call[s].op = "create"
  /\ next <= MaxRows
  /\ ids' = ids \union {next}
  /\ rows' = [rows EXCEPT ![next] = r]
  /\ next' = next + 1
  /\ call' = [call EXCEPT ![s] = Idle]
  /\ Disturb(s)
  /\ unchecked' = unchecked \union
       (IF clean[s] THEN new \ GeneratedDates(r.plan) ELSE new)
  /\ UNCHANGED asked

\* update: the row found, with the fields of the request.
UpdateFind(s, i, h, p, active) ==
  /\ i \in ids
  /\ Ask(s, [op |-> "update", id |-> i, checked |-> FALSE,
             row |-> [user |-> h, plan |-> p, excluded |-> rows[i].excluded,
                      active |-> active]])

UpdateCheck(s) ==
  LET c == call[s] IN
  /\ c.op = "update"
  /\ ~c.checked
  /\ IF Conflict(c.row.plan, c.id)
     THEN GoOn(s, Idle)
     ELSE GoOn(s, [c EXCEPT !.checked = TRUE])

\* save writes the entity as read and changed; a row deleted meanwhile is inserted
\* again.
UpdateSave(s) ==
  LET c == call[s]
      new == Gained(c.id, c.row)
  IN
  /\ c.op = "update"
  /\ c.checked
  /\ ids' = ids \union {c.id}
  /\ rows' = [rows EXCEPT ![c.id] = c.row]
  /\ call' = [call EXCEPT ![s] = Idle]
  /\ Disturb(s)
  /\ unchecked' = unchecked \union
       (IF clean[s] THEN new \ GeneratedDates(c.row.plan) ELSE new)
  /\ UNCHANGED <<next, asked>>

----------------------------------------------------------------------------
(* remove, excludeDate and truncateFromDate: find the row, then delete it  *)
(* or write one column computed from what was found.                       *)

Deletion(i) == [op |-> "delete", id |-> i]

Column(i, r, name, dates, end) ==
  [op |-> name, id |-> i, kind |-> r.plan.kind, dates |-> dates, end |-> end]

RemoveFind(s, i) ==
  /\ i \in ids
  /\ Ask(s, Deletion(i))

DatesWithout(r, d) == r.plan.dates \ {d}
DatesBefore(r, d) == {e \in r.plan.dates : e < d}

ExcludeFind(s, i, d) ==
  LET r == rows[i] IN
  /\ i \in ids
  /\ d >= Today
  /\ \/ /\ r.plan.kind = "one_time" \/ (r.plan.kind = "date_list" /\ DatesWithout(r, d) = {})
        /\ Ask(s, Deletion(i))
     \/ /\ r.plan.kind = "date_list" /\ DatesWithout(r, d) # {}
        /\ Ask(s, Column(i, r, "dates", DatesWithout(r, d), 0))
     \/ /\ r.plan.kind \in {"date_range", "recurring"}
        /\ Ask(s, Column(i, r, "excluded", r.excluded \union {d}, 0))

TruncateFind(s, i, d) ==
  LET r == rows[i] IN
  /\ i \in ids
  /\ d >= Today
  /\ \/ /\ \/ r.plan.kind = "one_time"
           \/ (r.plan.kind = "date_list" /\ DatesBefore(r, d) = {})
           \/ (r.plan.kind = "date_range" /\ d - 1 < r.plan.from)
        /\ Ask(s, Deletion(i))
     \/ /\ r.plan.kind = "date_list" /\ DatesBefore(r, d) # {}
        /\ Ask(s, Column(i, r, "dates", DatesBefore(r, d), 0))
     \/ /\ \/ r.plan.kind = "date_range" /\ ~(d - 1 < r.plan.from)
           \/ r.plan.kind = "recurring"
        /\ Ask(s, Column(i, r, "end", {}, d - 1))

Delete(s) ==
  /\ call[s].op = "delete"
  /\ ids' = ids \ {call[s].id}
  /\ rows' = [rows EXCEPT ![call[s].id] = Blank]
  /\ call' = [call EXCEPT ![s] = Idle]
  /\ Disturb(s)
  /\ UNCHANGED <<next, asked, unchecked>>

\* The row with one column written; the columns dates and end belong to a kind.
Written(r, c) ==
  CASE c.op = "excluded" -> [r EXCEPT !.excluded = c.dates]
    [] c.op = "dates" /\ c.kind = r.plan.kind ->
         [r EXCEPT !.plan = [r.plan EXCEPT !.dates = c.dates]]
    [] c.op = "end" /\ c.kind = r.plan.kind ->
         [r EXCEPT !.plan = [r.plan EXCEPT !.to = c.end]]
    [] OTHER -> r

\* Dates a truncation adds to a schedule that ended before.
Extended(r, c) ==
  IF c.op = "end" THEN {d \in Dates : r.plan.to < d /\ d <= c.end} ELSE {}

WriteColumn(s) ==
  LET c == call[s]
      r == Written(rows[c.id], c)
      new == Gained(c.id, r)
  IN
  /\ c.op \in {"dates", "excluded", "end"}
  /\ call' = [call EXCEPT ![s] = Idle]
  /\ IF c.id \in ids
     THEN /\ rows' = [rows EXCEPT ![c.id] = r]
          /\ unchecked' = unchecked \union
               (IF clean[s] THEN new \intersect Extended(rows[c.id], c) ELSE new)
          /\ Disturb(s)
     ELSE UNCHANGED <<rows, unchecked, clean>>
  /\ UNCHANGED <<ids, next, asked>>

----------------------------------------------------------------------------
(* swapDates.                                                              *)

SwapResolveA(s, a, b) ==
  /\ a # b
  /\ Covering(a) # {}
  /\ Ask(s, [op |-> "resolve", a |-> a, b |-> b, ida |-> Winner(a),
             rowa |-> rows[Winner(a)]])

SwapResolveB(s) ==
  LET c == call[s] IN
  /\ c.op = "resolve"
  /\ IF Covering(c.b) = {} \/ HostOn(c.b) = c.rowa.user
     THEN GoOn(s, Idle)
     ELSE GoOn(s, [op |-> "swap", a |-> c.a, b |-> c.b, ida |-> c.ida,
                   rowa |-> c.rowa, idb |-> Winner(c.b),
                   rowb |-> rows[Winner(c.b)], todo |-> {"a", "b"}])

\* One of the two statements run together: the date leaves its schedule, with the
\* exclusions as read.
TakeOut(s, which, i, r, d) ==
  LET c == call[s]
      taken == [rows[i] EXCEPT !.excluded = r.excluded \union {d}]
  IN
  /\ c.op = "swap"
  /\ which \in c.todo
  /\ call' = [call EXCEPT ![s] = [c EXCEPT !.todo = c.todo \ {which}]]
  /\ Disturb(s)
  /\ IF r.plan.kind = "one_time" \/ i \notin ids
     THEN /\ ids' = ids \ {i}
          /\ rows' = [rows EXCEPT ![i] = Blank]
          /\ UNCHANGED unchecked
     ELSE /\ rows' = [rows EXCEPT ![i] = taken]
          /\ unchecked' = unchecked \union (IF clean[s] THEN {} ELSE Gained(i, taken))
          /\ UNCHANGED ids
  /\ UNCHANGED <<next, asked>>

SwapTakeA(s) == TakeOut(s, "a", call[s].ida, call[s].rowa, call[s].a)
SwapTakeB(s) == TakeOut(s, "b", call[s].idb, call[s].rowb, call[s].b)

OneTime(h, d) ==
  [user |-> h, excluded |-> {}, active |-> TRUE,
   plan |-> [kind |-> "one_time", dates |-> {d}, from |-> 0, to |-> 0,
             day |-> 0, every |-> 1]]

\* Mutant of SwappedRows: each host gets back the own date.
SameRows(c) == <<OneTime(c.rowa.user, c.a), OneTime(c.rowb.user, c.b)>>

SwappedRows(c) == <<OneTime(c.rowb.user, c.a), OneTime(c.rowa.user, c.b)>>

SwapSave(s) ==
  LET c == call[s] IN
  /\ c.op = "swap"
  /\ c.todo = {}
  /\ next + 1 <= MaxRows
  /\ ids' = ids \union {next, next + 1}
  /\ rows' = [i \in Ids |-> IF i = next THEN SwappedRows(c)[1]
                            ELSE IF i = next + 1 THEN SwappedRows(c)[2] ELSE rows[i]]
  /\ next' = next + 2
  /\ call' = [call EXCEPT ![s] = Idle]
  /\ Disturb(s)
  /\ unchecked' = IF clean[s] THEN unchecked ELSE unchecked \union {c.a, c.b}
  /\ UNCHANGED asked

----------------------------------------------------------------------------
ScheduleNext ==
  \E s \in Slots :
    \/ \E h \in Hosts, p \in Plans : CreateCheck(s, h, p)
    \/ CreateSave(s)
    \/ \E i \in Ids, h \in Hosts, active \in BOOLEAN :
         \E p \in Plans \union {rows[i].plan} : UpdateFind(s, i, h, p, active)
    \/ UpdateCheck(s)
    \/ UpdateSave(s)
    \/ \E i \in Ids : RemoveFind(s, i)
    \/ \E i \in Ids, d \in Dates : ExcludeFind(s, i, d)
    \/ \E i \in Ids, d \in Dates : TruncateFind(s, i, d)
    \/ Delete(s)
    \/ WriteColumn(s)
    \/ \E a \in Dates, b \in Dates : SwapResolveA(s, a, b)
    \/ SwapResolveB(s)
    \/ SwapTakeA(s)
    \/ SwapTakeB(s)
    \/ SwapSave(s)

ScheduleSpec == ScheduleInit /\ [][ScheduleNext]_scheduleVars

----------------------------------------------------------------------------
\* Requests as the code holds them between two awaits.
Request ==
  {Idle} \union [op: {"create"}, row: Row]
  \union [op: {"update"}, id: Ids, checked: BOOLEAN, row: Row]
  \union [op: {"delete"}, id: Ids]
  \union [op: {"dates", "excluded", "end"}, id: Ids, kind: Kinds,
          dates: SUBSET Dates, end: Int]
  \union [op: {"resolve"}, a: Dates, b: Dates, ida: Ids, rowa: Row]
  \union [op: {"swap"}, a: Dates, b: Dates, ida: Ids, rowa: Row, idb: Ids,
          rowb: Row, todo: SUBSET {"a", "b"}]

\* Types of the schedules and of the requests in flight.
ScheduleTypeOK ==
  /\ ids \subseteq Ids
  /\ rows \in [Ids -> Row]
  /\ next \in 1..MaxRows + 1
  /\ call \in [Slots -> Request]
  /\ asked \in 0..MaxAsked
  /\ clean \in [Slots -> BOOLEAN]
  /\ unchecked \subseteq Dates

\* Two active schedules cover the same date only if the later of them came to cover
\* it unchecked: beyond the two years a recurrence is expanded for the check, by a
\* truncation that prolongs a schedule which had ended, or by a request whose check
\* another request has made stale (assertNoDuplicateDates and every write after it).
OneHostPerDate ==
  \A d \in Dates \ unchecked : \A i, j \in Covering(d) : i = j

\* No step hands a date from one schedule to another: a date loses its schedule
\* before another one can take it, whatever create, update, exclude, truncate and
\* swap do, except where OneHostPerDate is already lost.
NeverStolen ==
  [][\A d \in Dates \ unchecked' :
       Covering(d) # {} /\ Covering(d)' # {} => Winner(d)' = Winner(d)]_scheduleVars

\* A swap that nobody disturbs leaves each of the two dates with the host of the
\* other one, for schedules of any kind (steps 1 and 2 of swapDates).
SwapExchanges ==
  [][\A s \in Slots :
       LET c == call[s] IN
       c.op = "swap" /\ call'[s] = Idle /\ clean[s] =>
         \A d \in {c.a, c.b} \ unchecked :
           HostOn(d)' = IF d = c.a THEN c.rowb.user ELSE c.rowa.user]_scheduleVars

\* "Swaps the hosts of two dates atomically" (swapDates): nobody sees one of the
\* dates without a host.
SwapIsAtomic ==
  \A s \in Slots :
    call[s].op = "swap" /\ clean[s] =>
      HostOn(call[s].a) # NoHost /\ HostOn(call[s].b) # NoHost
============================================================================
