------------------------ MODULE HostSchedules_proofs ------------------------
(***************************************************************************)
(* Theorems about the hosts of a meeting and the calls before it, for any  *)
(* users, plans, calendar and week, and any number of overlapping requests.*)
(***************************************************************************)
EXTENDS HostSchedules, AutoCall, WellFoundedInduction, TLAPS

USE CalendarAssumption

-----------------------------------------------------------------------------
\* A date that lies a number of whole weeks after the first occurrence has the
\* weekday of the plan, and the other way round.
LEMMA SameWeekday ==
  ASSUME NEW a \in Nat, NEW d \in Nat, a <= d
  PROVE  /\ a % Week = d % Week => (d - a) % Week = 0
         /\ (d - a) % Week = 0 => a % Week = d % Week
<1> DEFINE qa == a \div Week
           qd == d \div Week
           ra == a % Week
           rd == d % Week
           q == (d - a) \div Week
           r == (d - a) % Week
<1>1. a = Week * qa + ra /\ qa \in Nat /\ ra \in 0..Week - 1
  OBVIOUS
<1>2. d = Week * qd + rd /\ qd \in Nat /\ rd \in 0..Week - 1
  OBVIOUS
<1>3. d - a = Week * q + r /\ q \in Nat /\ r \in 0..Week - 1
  OBVIOUS
<1> HIDE DEF qa, qd, ra, rd, q, r
<1>4. Week * (qd - qa - q) = r + ra - rd
  BY <1>1, <1>2, <1>3
<1> DEFINE k == qd - qa - q
<1>5. k \in Int /\ Week * k = r + ra - rd
  BY <1>1, <1>2, <1>3, <1>4
<1> HIDE DEF k
<1>6. (k >= 1 => Week * k >= Week) /\ (k <= -1 => Week * k <= -Week)
  BY <1>5
<1>7. ra = rd => r = 0
  BY <1>1, <1>2, <1>3, <1>5, <1>6
<1>8. r = 0 => ra = rd
  BY <1>1, <1>2, <1>3, <1>5, <1>6
<1> QED BY <1>7, <1>8 DEF ra, rd, r

LEMMA Division ==
  ASSUME NEW a \in Nat, NEW r, r = a % Week
  PROVE  \E q \in Nat : a = Week * q + r
<1> DEFINE q == a \div Week
<1>1. a = Week * q + r /\ q \in Nat
  OBVIOUS
<1> HIDE DEF q
<1> QED BY <1>1

\* Quotient and remainder are determined by the division.
LEMMA DivisionUnique ==
  ASSUME NEW q \in Nat, NEW r \in 0..Week - 1
  PROVE  (Week * q + r) % Week = r
<1> DEFINE x == Week * q + r
           k == x \div Week
           m == x % Week
<1>1. x \in Nat
  OBVIOUS
<1>2. x = Week * k + m /\ k \in Nat /\ m \in 0..Week - 1
  BY <1>1
<1>3. x = Week * q + r
  OBVIOUS
<1> HIDE DEF x, k, m
<1> DEFINE j == k - q
<1>4. j \in Int /\ Week * j = r - m
  BY <1>2, <1>3
<1> HIDE DEF j
<1>5. (j >= 1 => Week * j >= Week) /\ (j <= -1 => Week * j <= -Week)
  BY <1>4
<1>6. m = r
  BY <1>2, <1>4, <1>5
<1> QED BY <1>6 DEF m, x

\* The first occurrence of a recurrence falls on its weekday, within a week.
LEMMA FirstOnWeekday ==
  ASSUME NEW p \in Plan
  PROVE  /\ FirstOccurrence(p) \in Nat
         /\ FirstOccurrence(p) >= p.from
         /\ FirstOccurrence(p) % Week = p.day
<1> DEFINE day == p.day
           from == p.from
           start == from % Week
           shift == (day - start + Week) % Week
<1>1. day \in 0..Week - 1 /\ from \in Nat
  BY DEF Plan
<1>2. start \in 0..Week - 1
  BY <1>1
<1>3. shift = IF day >= start THEN day - start ELSE day - start + Week
  <2> HIDE DEF start, day
  <2>1. CASE day >= start
    <3>1. day - start \in 0..Week - 1
      BY <1>1, <1>2, <2>1
    <3>2. (day - start) % Week = day - start
      BY <3>1
    <3>3. ((day - start) + Week) % Week = (day - start) % Week
      BY <3>1
    <3> QED BY <2>1, <3>2, <3>3
  <2>2. CASE ~(day >= start)
    <3>1. day - start + Week \in 0..Week - 1
      BY <1>1, <1>2, <2>2
    <3> QED BY <2>2, <3>1
  <2> QED BY <2>1, <2>2
<1>4. shift \in Nat
  BY <1>1, <1>2, <1>3
<1>5. (from + shift) % Week = day
  <2>1. PICK q \in Nat : from = Week * q + start
    BY <1>1, Division
  <2> HIDE DEF start, day, shift, from
  <2>2. CASE day >= start
    <3>1. from + shift = Week * q + day
      BY <1>1, <1>2, <1>3, <2>1, <2>2
    <3> QED BY <3>1, <1>1, <2>1, DivisionUnique
  <2>3. CASE ~(day >= start)
    <3>1. from + shift = Week * (q + 1) + day
      BY <1>1, <1>2, <1>3, <2>1, <2>3
    <3>2. q + 1 \in Nat
      BY <2>1
    <3> QED BY <3>1, <3>2, <1>1, DivisionUnique
  <2> QED BY <2>2, <2>3
<1>6. FirstOccurrence(p) = from + shift
  BY DEF FirstOccurrence, Weekday
<1> HIDE DEF shift, from, start
<1> QED BY <1>1, <1>4, <1>5, <1>6 DEF from

\* The check for conflicts expands a plan into exactly the dates the plan matches,
\* up to two years after the start of a recurrence: the loops of generateDates and
\* the test of matchesDate agree.
THEOREM CheckIsExact ==
  \A p \in Plan, d \in Dates :
    d \in GeneratedDates(p) <=>
      Matches(p, d) /\ (p.kind = "recurring" => d <= p.from + Horizon)
<1> SUFFICES ASSUME NEW p \in Plan, NEW d \in Dates
             PROVE  d \in GeneratedDates(p) <=>
                      Matches(p, d) /\ (p.kind = "recurring" => d <= p.from + Horizon)
  OBVIOUS
<1>1. p.from \in Nat /\ p.to \in Int /\ p.every \in Nat \ {0} /\ d \in Nat
  BY DEF Plan, Dates
<1>2. CASE p.kind \in {"one_time", "date_list"}
  BY <1>2 DEF GeneratedDates, Matches
<1>3. CASE p.kind = "date_range"
  BY <1>1, <1>3 DEF GeneratedDates, Matches, LastChecked
<1>4. CASE p.kind = "recurring"
  <2> DEFINE f == FirstOccurrence(p)
             e == p.every
             last == LastChecked(p)
  <2>1. f \in Nat /\ f % Week = p.day
    BY FirstOnWeekday
  <2>2. last \in Int /\ (d <= last <=> d <= p.to /\ d <= p.from + Horizon)
    BY <1>1, <1>4 DEF LastChecked
  <2>3. d \in GeneratedDates(p) <=>
          f <= d /\ d <= last /\ \E n \in 0..last : d = f + n * (e * Week)
    <3> HIDE DEF f, last
    <3>1. GeneratedDates(p) =
            {x \in f..last : \E n \in 0..last : x = f + n * (e * Week)}
      BY <1>4 DEF GeneratedDates, f, last
    <3> QED BY <1>1, <2>1, <2>2, <3>1
  <2>4. Matches(p, d) <=> d <= p.to /\ d % Week = p.day /\ d >= f
                            /\ ((d - f) \div Week) % e = 0
    BY <1>4 DEF Matches, Recurs, Weekday
  <2> HIDE DEF f, e, last
  <2>5. e \in Nat \ {0}
    BY <1>1 DEF e
  <2>6. ASSUME f <= d, d <= last, d % Week = p.day, ((d - f) \div Week) % e = 0
        PROVE  \E n \in 0..last : d = f + n * (e * Week)
    <3> DEFINE q == (d - f) \div Week
               n == q \div e
    <3>1. (d - f) % Week = 0
      BY <1>1, <2>1, <2>6, SameWeekday
    <3>2. q \in Nat /\ d - f = Week * q
      BY <1>1, <2>1, <2>6, <3>1
    <3> HIDE DEF q
    <3>3. n \in Nat /\ q = e * n
      BY <2>5, <2>6, <3>2 DEF q
    <3> HIDE DEF n
    <3>4. d = f + n * (e * Week)
      BY <1>1, <2>1, <2>5, <3>2, <3>3
    <3>5. n * (e * Week) >= n
      <4>1. e * Week \in Nat /\ e * Week >= 1
        BY <2>5
      <4> QED BY <4>1, <3>3
    <3>6. n <= d
      BY <1>1, <2>1, <2>5, <3>3, <3>4, <3>5
    <3> QED BY <1>1, <2>2, <2>6, <3>3, <3>4, <3>6
  <2>7. ASSUME NEW n \in 0..last, d = f + n * (e * Week)
        PROVE  f <= d /\ d % Week = p.day /\ ((d - f) \div Week) % e = 0
    <3>1. n \in Nat /\ n * e \in Nat
      BY <2>2, <2>5
    <3>2. d - f = Week * (n * e)
      BY <1>1, <2>1, <2>5, <2>7, <3>1
    <3> DEFINE m == n * e
    <3>3. m \in Nat /\ m % e = 0
      BY <2>5, <3>1
    <3>4. f <= d
      BY <1>1, <2>1, <3>1, <3>2
    <3> HIDE DEF m
    <3>5. (Week * m) \div Week = m /\ (Week * m) % Week = 0
      BY <3>3
    <3>6. (d - f) % Week = 0
      BY <3>2, <3>5 DEF m
    <3>7. d % Week = p.day
      BY <1>1, <2>1, <3>4, <3>6, SameWeekday
    <3> QED BY <3>2, <3>3, <3>4, <3>5, <3>7 DEF m
  <2> QED BY <1>4, <2>2, <2>3, <2>4, <2>6, <2>7
<1> QED BY <1>2, <1>3, <1>4 DEF Plan, Kinds

-----------------------------------------------------------------------------
\* The sort by priority and age has a first element: the resolution of a covered
\* date is one of the schedules that cover it.
LEMMA PriorityType == ASSUME NEW k \in Kinds PROVE Priority(k) \in {1, 2, 3, 4}
BY DEF Kinds, Priority

LEMMA LeastOfNats ==
  ASSUME NEW T, T \subseteq Nat, T # {}
  PROVE  \E x \in T : \A y \in T : x <= y
<1> DEFINE R == OpToRel(<, Nat)
<1>1. \A x, y \in Nat : y < x => <<y, x>> \in R
  BY DEF OpToRel
<1>2. IsWellFoundedOn(R, Nat)
  BY NatLessThanWellFounded
<1> HIDE DEF R
<1>3. PICK x \in T : \A y \in T : <<y, x>> \notin R
  BY <1>2, WFMin
<1>4. \A y \in T : ~(y < x)
  BY <1>1, <1>3, Zenon
<1>5. \A y \in T : x <= y
  BY <1>4
<1> QED BY <1>5

LEMMA WinnerCovers ==
  ASSUME ScheduleTypeOK, NEW d, Covering(d) # {}
  PROVE  Winner(d) \in Covering(d)
<1> DEFINE C == Covering(d)
           prio(i) == Priority(rows[i].plan.kind)
           key(i) == (4 - prio(i)) * (MaxRows + 1) + (MaxRows - i)
           T == {key(i) : i \in C}
<1>1. \A i \in C : i \in 1..MaxRows /\ prio(i) \in {1, 2, 3, 4}
  BY PriorityType DEF Covering, ScheduleTypeOK, Ids, Row, Plan
<1>2. \A i \in C : key(i) \in Nat
  <2> SUFFICES ASSUME NEW i \in C PROVE key(i) \in Nat
    OBVIOUS
  <2> HIDE DEF prio, C
  <2>1. i \in 1..MaxRows /\ prio(i) \in {1, 2, 3, 4}
    BY <1>1
  <2>2. MaxRows - i \in Nat /\ MaxRows + 1 \in Nat
    BY <2>1
  <2> QED BY <2>1, <2>2
<1> HIDE DEF prio, key
<1>3. T \subseteq Nat /\ T # {}
  BY <1>2
<1>4. PICK x \in T : \A y \in T : x <= y
  <2> HIDE DEF T
  <2> QED BY <1>3, LeastOfNats
<1>5. PICK i \in C : x = key(i)
  OBVIOUS
<1>6. \A j \in C : key(i) <= key(j)
  BY <1>4, <1>5
<1>7. \A j \in C : Beats(i, j)
  <2> SUFFICES ASSUME NEW j \in C PROVE Beats(i, j)
    OBVIOUS
  <2> HIDE DEF C
  <2>1. /\ i \in 1..MaxRows /\ prio(i) \in {1, 2, 3, 4}
        /\ j \in 1..MaxRows /\ prio(j) \in {1, 2, 3, 4}
    BY <1>1
  <2>2. (4 - prio(i)) * (MaxRows + 1) + (MaxRows - i)
          <= (4 - prio(j)) * (MaxRows + 1) + (MaxRows - j)
    BY <1>6 DEF key
  <2>3. prio(i) > prio(j) \/ (prio(i) = prio(j) /\ i >= j)
    BY <2>1, <2>2
  <2> QED BY <2>3 DEF Beats, prio
<1> QED BY <1>5, <1>7 DEF Winner

LEMMA WinnerAlone ==
  ASSUME ScheduleTypeOK, NEW d, NEW i, Covering(d) = {i}
  PROVE  Winner(d) = i
BY WinnerCovers

-----------------------------------------------------------------------------
\* Types.
LEMMA AskType ==
  ASSUME ScheduleTypeOK, NEW s \in Slots, NEW c \in Request, Ask(s, c)
  PROVE  ScheduleTypeOK'
BY DEF ScheduleTypeOK, Ask

LEMMA GoOnType ==
  ASSUME ScheduleTypeOK, NEW s \in Slots, NEW c \in Request, GoOn(s, c)
  PROVE  ScheduleTypeOK'
BY DEF ScheduleTypeOK, GoOn

LEMMA IdleType == Idle \in Request
BY DEF Request

LEMMA GainedType == \A i, r : Gained(i, r) \subseteq Dates
BY DEF Gained

LEMMA BlankType == Blank \in Row
<1>1. (CHOOSE h \in Hosts : TRUE) \in Hosts /\ (CHOOSE p \in Plans : TRUE) \in Plan
  OBVIOUS
<1> QED BY <1>1 DEF Blank, Row

LEMMA ReadType ==
  ASSUME ScheduleTypeOK, NEW s \in Slots
  PROVE  /\ \A h \in Hosts, p \in Plans : CreateCheck(s, h, p) => ScheduleTypeOK'
         /\ \A i \in Ids, h \in Hosts, active \in BOOLEAN :
              \A p \in Plans \union {rows[i].plan} :
                UpdateFind(s, i, h, p, active) => ScheduleTypeOK'
         /\ UpdateCheck(s) => ScheduleTypeOK'
         /\ \A i \in Ids : RemoveFind(s, i) => ScheduleTypeOK'
<1>1. ASSUME NEW h \in Hosts, NEW p \in Plans, CreateCheck(s, h, p)
      PROVE  ScheduleTypeOK'
  <2> DEFINE r == [user |-> h, plan |-> p, excluded |-> {}, active |-> TRUE]
  <2>1. r \in Row
    BY DEF Row
  <2> HIDE DEF r
  <2>2. [op |-> "create", row |-> r] \in Request
    BY <2>1 DEF Request
  <2> QED BY <1>1, <2>2, AskType DEF CreateCheck, r
<1>2. ASSUME NEW i \in Ids, NEW h \in Hosts, NEW active \in BOOLEAN,
             NEW p \in Plans \union {rows[i].plan}, UpdateFind(s, i, h, p, active)
      PROVE  ScheduleTypeOK'
  <2> DEFINE r == [user |-> h, plan |-> p, excluded |-> rows[i].excluded,
                   active |-> active]
  <2>1. rows[i] \in Row
    BY DEF ScheduleTypeOK
  <2>2. r \in Row
    BY <2>1 DEF Row
  <2> HIDE DEF r
  <2>3. [op |-> "update", id |-> i, checked |-> FALSE, row |-> r] \in Request
    BY <2>2 DEF Request
  <2> QED BY <1>2, <2>3, AskType DEF UpdateFind, r
<1>3. ASSUME UpdateCheck(s) PROVE ScheduleTypeOK'
  <2>1. call[s] \in Request /\ call[s].op = "update"
    BY <1>3 DEF UpdateCheck, ScheduleTypeOK
  <2>2. call[s] \in [op: {"update"}, id: Ids, checked: BOOLEAN, row: Row]
    BY <2>1 DEF Request, Idle
  <2>3. [call[s] EXCEPT !.checked = TRUE] \in Request
    BY <2>2 DEF Request
  <2> QED BY <1>3, <2>3, GoOnType, IdleType DEF UpdateCheck
<1>4. ASSUME NEW i \in Ids, RemoveFind(s, i) PROVE ScheduleTypeOK'
  <2>1. Deletion(i) \in Request
    BY DEF Deletion, Request
  <2> QED BY <1>4, <2>1, AskType DEF RemoveFind
<1> QED BY <1>1, <1>2, <1>3, <1>4

LEMMA ColumnType ==
  ASSUME NEW i \in Ids, NEW r \in Row, NEW name \in {"dates", "excluded", "end"},
         NEW dates \in SUBSET Dates, NEW end \in Int
  PROVE  Column(i, r, name, dates, end) \in Request
<1>1. r.plan.kind \in Kinds
  BY DEF Row, Plan
<1> QED BY <1>1 DEF Column, Request

LEMMA ChangeType ==
  ASSUME ScheduleTypeOK, NEW s \in Slots, NEW i \in Ids, NEW d \in Dates
  PROVE  (ExcludeFind(s, i, d) \/ TruncateFind(s, i, d)) => ScheduleTypeOK'
<1> DEFINE r == rows[i]
<1>1. r \in Row /\ r.plan \in Plan /\ r.plan.dates \subseteq Dates
        /\ r.excluded \subseteq Dates
  BY DEF ScheduleTypeOK, Row, Plan
<1>2. Deletion(i) \in Request
  BY DEF Deletion, Request
<1>3. d - 1 \in Int /\ 0 \in Int
  BY DEF Dates
<1>4. /\ Column(i, r, "dates", DatesWithout(r, d), 0) \in Request
      /\ Column(i, r, "dates", DatesBefore(r, d), 0) \in Request
      /\ Column(i, r, "excluded", r.excluded \union {d}, 0) \in Request
      /\ Column(i, r, "end", {}, d - 1) \in Request
  <2>1. /\ DatesWithout(r, d) \in SUBSET Dates
        /\ DatesBefore(r, d) \in SUBSET Dates
        /\ r.excluded \union {d} \in SUBSET Dates
        /\ {} \in SUBSET Dates
    BY <1>1 DEF DatesWithout, DatesBefore
  <2> HIDE DEF r
  <2> QED BY <1>1, <1>3, <2>1, ColumnType
<1>5. ASSUME ExcludeFind(s, i, d) PROVE ScheduleTypeOK'
  <2>1. \E c \in Request : Ask(s, c)
    BY <1>2, <1>4, <1>5 DEF ExcludeFind
  <2> QED BY <2>1, AskType
<1>6. ASSUME TruncateFind(s, i, d) PROVE ScheduleTypeOK'
  <2>1. \E c \in Request : Ask(s, c)
    BY <1>2, <1>4, <1>6 DEF TruncateFind
  <2> QED BY <2>1, AskType
<1> QED BY <1>5, <1>6

\* What a request in flight carries, by its kind.
LEMMA RequestFields ==
  ASSUME ScheduleTypeOK, NEW s \in Slots
  PROVE  /\ call[s].op = "create" => call[s].row \in Row
         /\ call[s].op = "update" => call[s].id \in Ids /\ call[s].row \in Row
         /\ call[s].op = "delete" => call[s].id \in Ids
         /\ call[s].op \in {"dates", "excluded", "end"} =>
              /\ call[s].id \in Ids /\ call[s].kind \in Kinds
              /\ call[s].dates \subseteq Dates /\ call[s].end \in Int
         /\ call[s].op = "resolve" =>
              /\ call[s].a \in Dates /\ call[s].b \in Dates
              /\ call[s].ida \in Ids /\ call[s].rowa \in Row
         /\ call[s].op = "swap" =>
              call[s] \in [op: {"swap"}, a: Dates, b: Dates, ida: Ids, rowa: Row,
                          idb: Ids, rowb: Row, todo: SUBSET {"a", "b"}]
<1>1. call[s] \in Request
  BY DEF ScheduleTypeOK
<1> QED BY <1>1 DEF Request, Idle

LEMMA WrittenType ==
  ASSUME ScheduleTypeOK, NEW s \in Slots, call[s].op \in {"dates", "excluded", "end"}
  PROVE  Written(rows[call[s].id], call[s]) \in Row
<1> DEFINE c == call[s]
           r == rows[c.id]
<1>1. c.id \in Ids /\ c.dates \subseteq Dates /\ c.end \in Int
  BY RequestFields
<1>2. r \in Row /\ r.plan \in Plan
  BY <1>1 DEF ScheduleTypeOK, Row
<1> HIDE DEF r, c
<1>3. [r EXCEPT !.excluded = c.dates] \in Row
  BY <1>1, <1>2 DEF Row
<1>4. [r.plan EXCEPT !.dates = c.dates] \in Plan /\ [r.plan EXCEPT !.to = c.end] \in Plan
  BY <1>1, <1>2 DEF Plan
<1>5. \A p \in Plan : [r EXCEPT !.plan = p] \in Row
  BY <1>2 DEF Row
<1>6. /\ [r EXCEPT !.plan = [r.plan EXCEPT !.dates = c.dates]] \in Row
      /\ [r EXCEPT !.plan = [r.plan EXCEPT !.to = c.end]] \in Row
  BY <1>4, <1>5
<1> QED BY <1>2, <1>3, <1>6 DEF Written, r, c

LEMMA WriteType ==
  ASSUME ScheduleTypeOK, NEW s \in Slots,
         CreateSave(s) \/ UpdateSave(s) \/ Delete(s) \/ WriteColumn(s)
  PROVE  ScheduleTypeOK'
<1>1. CASE CreateSave(s)
  <2>1. call[s].row \in Row
    BY <1>1, RequestFields DEF CreateSave
  <2>2. unchecked' \subseteq Dates
    BY <1>1, GainedType DEF CreateSave, ScheduleTypeOK
  <2> QED BY <1>1, <2>1, <2>2, IdleType DEF CreateSave, ScheduleTypeOK, Disturb, Ids
<1>2. CASE UpdateSave(s)
  <2>1. call[s].row \in Row /\ call[s].id \in Ids
    BY <1>2, RequestFields DEF UpdateSave
  <2>2. unchecked' \subseteq Dates
    BY <1>2, GainedType DEF UpdateSave, ScheduleTypeOK
  <2> QED BY <1>2, <2>1, <2>2, IdleType DEF UpdateSave, ScheduleTypeOK, Disturb, Ids
<1>3. CASE Delete(s)
  BY <1>3, BlankType, IdleType DEF Delete, ScheduleTypeOK, Disturb
<1>4. CASE WriteColumn(s)
  <2>1. Written(rows[call[s].id], call[s]) \in Row
    BY <1>4, WrittenType DEF WriteColumn
  <2>2. unchecked' \subseteq Dates
    BY <1>4, GainedType DEF WriteColumn, ScheduleTypeOK
  <2>3. call' \in [Slots -> Request]
    BY <1>4, IdleType DEF WriteColumn, ScheduleTypeOK
  <2>4. rows' \in [Ids -> Row]
    BY <1>4, <2>1 DEF WriteColumn, ScheduleTypeOK
  <2> QED BY <1>4, <2>2, <2>3, <2>4 DEF WriteColumn, ScheduleTypeOK, Disturb
<1> QED BY <1>1, <1>2, <1>3, <1>4

LEMMA SwapType ==
  ASSUME ScheduleTypeOK, NEW s \in Slots
  PROVE  /\ \A a \in Dates, b \in Dates : SwapResolveA(s, a, b) => ScheduleTypeOK'
         /\ SwapResolveB(s) => ScheduleTypeOK'
         /\ SwapTakeA(s) => ScheduleTypeOK'
         /\ SwapTakeB(s) => ScheduleTypeOK'
         /\ SwapSave(s) => ScheduleTypeOK'
<1>1. ASSUME NEW a \in Dates, NEW b \in Dates, SwapResolveA(s, a, b)
      PROVE  ScheduleTypeOK'
  <2>1. Winner(a) \in Ids
    BY <1>1, WinnerCovers DEF SwapResolveA, Covering, ScheduleTypeOK
  <2>2. rows[Winner(a)] \in Row
    BY <2>1 DEF ScheduleTypeOK
  <2>3. [op |-> "resolve", a |-> a, b |-> b, ida |-> Winner(a),
         rowa |-> rows[Winner(a)]] \in Request
    BY <2>1, <2>2 DEF Request
  <2> QED BY <1>1, <2>3, AskType DEF SwapResolveA
<1>2. ASSUME SwapResolveB(s) PROVE ScheduleTypeOK'
  <2> DEFINE c == call[s]
  <2>1. c.a \in Dates /\ c.b \in Dates /\ c.ida \in Ids /\ c.rowa \in Row
    BY <1>2, RequestFields DEF SwapResolveB
  <2>2. CASE Covering(c.b) = {} \/ HostOn(c.b) = c.rowa.user
    BY <1>2, <2>2, GoOnType, IdleType DEF SwapResolveB
  <2>3. CASE ~(Covering(c.b) = {} \/ HostOn(c.b) = c.rowa.user)
    <3>1. Winner(c.b) \in Ids
      BY <2>3, WinnerCovers DEF Covering, ScheduleTypeOK
    <3>2. rows[Winner(c.b)] \in Row
      BY <3>1 DEF ScheduleTypeOK
    <3> HIDE DEF c
    <3>3. [op |-> "swap", a |-> c.a, b |-> c.b, ida |-> c.ida, rowa |-> c.rowa,
           idb |-> Winner(c.b), rowb |-> rows[Winner(c.b)],
           todo |-> {"a", "b"}] \in Request
      BY <2>1, <3>1, <3>2 DEF Request
    <3> QED BY <1>2, <2>3, <3>3, GoOnType DEF SwapResolveB, c
  <2> QED BY <2>2, <2>3
<1>3. ASSUME NEW which \in {"a", "b"}, NEW i \in Ids, NEW r \in Row, NEW d \in Dates,
             TakeOut(s, which, i, r, d)
      PROVE  ScheduleTypeOK'
  <2> DEFINE taken == [rows[i] EXCEPT !.excluded = r.excluded \union {d}]
  <2>1. taken \in Row
    <3>1. rows[i] \in Row /\ r.excluded \subseteq Dates
      BY DEF ScheduleTypeOK, Row
    <3>2. r.excluded \union {d} \in SUBSET Dates
      BY <3>1
    <3> QED BY <3>1, <3>2 DEF Row
  <2>2. [call[s] EXCEPT !.todo = call[s].todo \ {which}] \in Request
    BY <1>3, RequestFields DEF TakeOut, Request
  <2> HIDE DEF taken
  <2>3. ids' \subseteq Ids /\ rows' \in [Ids -> Row] /\ unchecked' \subseteq Dates
    BY <1>3, <2>1, BlankType, GainedType DEF TakeOut, ScheduleTypeOK, taken
  <2>4. call' \in [Slots -> Request] /\ clean' \in [Slots -> BOOLEAN]
    BY <1>3, <2>2 DEF TakeOut, ScheduleTypeOK, Disturb
  <2> QED BY <1>3, <2>3, <2>4 DEF TakeOut, ScheduleTypeOK
<1>4. SwapTakeA(s) => ScheduleTypeOK'
  <2>1. SwapTakeA(s) => call[s].op = "swap"
    BY DEF SwapTakeA, TakeOut
  <2> QED BY <1>3, <2>1, RequestFields DEF SwapTakeA
<1>5. SwapTakeB(s) => ScheduleTypeOK'
  <2>1. SwapTakeB(s) => call[s].op = "swap"
    BY DEF SwapTakeB, TakeOut
  <2> QED BY <1>3, <2>1, RequestFields DEF SwapTakeB
<1>6. ASSUME SwapSave(s) PROVE ScheduleTypeOK'
  <2> DEFINE c == call[s]
  <2>1. /\ c.a \in Dates /\ c.b \in Dates /\ c.rowa.user \in Hosts
        /\ c.rowb.user \in Hosts
    BY <1>6, RequestFields DEF SwapSave, Row
  <2>2. \A h \in Hosts, d \in Dates : OneTime(h, d) \in Row
    BY DEF OneTime, Row, Plan, Kinds
  <2>3. SwappedRows(c)[1] \in Row /\ SwappedRows(c)[2] \in Row
    BY <2>1, <2>2 DEF SwappedRows
  <2> HIDE DEF c
  <2>4. rows' \in [Ids -> Row]
    BY <1>6, <2>3 DEF SwapSave, ScheduleTypeOK, c
  <2>5. next' \in 1..MaxRows + 1 /\ ids' \subseteq Ids
    BY <1>6 DEF SwapSave, ScheduleTypeOK, Ids
  <2> QED BY <1>6, <2>1, <2>4, <2>5, IdleType DEF SwapSave, ScheduleTypeOK, Disturb, c
<1> QED BY <1>1, <1>2, <1>4, <1>5, <1>6

LEMMA InitType == ScheduleInit => ScheduleTypeOK
BY BlankType, IdleType DEF ScheduleInit, ScheduleTypeOK

LEMMA NextType == ScheduleTypeOK /\ [ScheduleNext]_scheduleVars => ScheduleTypeOK'
<1> SUFFICES ASSUME ScheduleTypeOK, [ScheduleNext]_scheduleVars PROVE ScheduleTypeOK'
  OBVIOUS
<1>1. CASE UNCHANGED scheduleVars
  BY <1>1 DEF scheduleVars, ScheduleTypeOK
<1>2. CASE ScheduleNext
  BY <1>2, ReadType, ChangeType, WriteType, SwapType DEF ScheduleNext
<1> QED BY <1>1, <1>2

\* The schedules, and the requests between their awaits, stay in their types.
THEOREM ScheduleTypeCorrect == ScheduleSpec => []ScheduleTypeOK
<1> QED BY InitType, NextType, PTL DEF ScheduleSpec

-----------------------------------------------------------------------------
\* One host per date.  A request that nobody has disturbed still sees what it read:
\* this is what makes its check valid when it writes.
Sole(i, d) == d \in unchecked \/ Covering(d) = {i}
Free(d) == d \in unchecked \/ Covering(d) = {}

CreateHolds(c) == \A d \in GeneratedDates(c.row.plan) : Covering(d) = {}

UpdateHolds(c) ==
  c.checked => \A d \in GeneratedDates(c.row.plan) : Covering(d) \subseteq {c.id}

ColumnHolds(c) ==
  /\ c.kind = rows[c.id].plan.kind
  /\ c.op = "dates" => c.dates \subseteq rows[c.id].plan.dates
  /\ c.op = "excluded" => rows[c.id].excluded \subseteq c.dates

ResolveHolds(c) ==
  /\ c.a # c.b
  /\ c.rowa = rows[c.ida]
  /\ Sole(c.ida, c.a)

SwapHolds(c) ==
  /\ c.a # c.b
  /\ c.ida # c.idb
  /\ IF "a" \in c.todo THEN c.rowa = rows[c.ida] /\ Sole(c.ida, c.a) ELSE Free(c.a)
  /\ IF "b" \in c.todo THEN c.rowb = rows[c.idb] /\ Sole(c.idb, c.b) ELSE Free(c.b)

Holds(c) ==
  /\ c.op = "create" => CreateHolds(c)
  /\ c.op = "update" => UpdateHolds(c)
  /\ c.op \in {"dates", "excluded", "end"} => ColumnHolds(c)
  /\ c.op = "resolve" => ResolveHolds(c)
  /\ c.op = "swap" => SwapHolds(c)

ScheduleInv ==
  /\ OneHostPerDate
  /\ \A s \in Slots : clean[s] => Holds(call[s])

Stored == <<ids, rows, unchecked>>

\* A step that only reads leaves what every request holds.
LEMMA StoredSame ==
  ASSUME UNCHANGED Stored
  PROVE  /\ OneHostPerDate => OneHostPerDate'
         /\ \A d : Covering(d)' = Covering(d)
         /\ \A c : Holds(c) => Holds(c)'
<1>1. ids' = ids /\ rows' = rows /\ unchecked' = unchecked
  BY DEF Stored
<1>2. \A d : Covering(d)' = Covering(d)
  BY <1>1 DEF Covering
<1>3. OneHostPerDate => OneHostPerDate'
  BY <1>1, <1>2 DEF OneHostPerDate
<1>4. \A c : Holds(c) => Holds(c)'
  BY <1>1, <1>2 DEF Holds, CreateHolds, UpdateHolds, ColumnHolds, ResolveHolds, SwapHolds,
                    Sole, Free
<1> QED BY <1>2, <1>3, <1>4

LEMMA ReadStep ==
  ASSUME ScheduleTypeOK, ScheduleInv, NEW s \in Slots, UNCHANGED Stored,
         \A t \in Slots \ {s} : call'[t] = call[t] /\ clean'[t] = clean[t],
         clean'[s] => Holds(call'[s])
  PROVE  ScheduleInv'
<1>1. OneHostPerDate'
  BY StoredSame DEF ScheduleInv
<1>2. ASSUME NEW t \in Slots, clean'[t] PROVE Holds(call[t])'
  <2>1. CASE t = s
    BY <1>2, <2>1, StoredSame
  <2>2. CASE t # s
    BY <1>2, <2>2, StoredSame DEF ScheduleInv
  <2> QED BY <2>1, <2>2
<1> QED BY <1>1, <1>2 DEF ScheduleInv

LEMMA AskHolds ==
  ASSUME ScheduleTypeOK, ScheduleInv, NEW s \in Slots, NEW c, Ask(s, c), Holds(c)
  PROVE  ScheduleInv'
<1>1. UNCHANGED Stored
  BY DEF Ask, Stored
<1>2. call'[s] = c /\ \A t \in Slots \ {s} : call'[t] = call[t] /\ clean'[t] = clean[t]
  BY DEF Ask, ScheduleTypeOK
<1> QED BY <1>1, <1>2, ReadStep

LEMMA GoOnHolds ==
  ASSUME ScheduleTypeOK, ScheduleInv, NEW s \in Slots, NEW c, GoOn(s, c),
         clean[s] => Holds(c)
  PROVE  ScheduleInv'
<1>1. UNCHANGED Stored /\ clean' = clean
  BY DEF GoOn, Stored
<1>2. call'[s] = c /\ \A t \in Slots \ {s} : call'[t] = call[t] /\ clean'[t] = clean[t]
  BY DEF GoOn, ScheduleTypeOK
<1> QED BY <1>1, <1>2, ReadStep

LEMMA IdleHolds == Holds(Idle)
BY DEF Holds, Idle

\* A date that is not given up has one schedule, and the winner is that schedule.
LEMMA SoleWinner ==
  ASSUME ScheduleTypeOK, ScheduleInv, NEW d \in Dates, Covering(d) # {}
  PROVE  Sole(Winner(d), d) /\ Winner(d) \in Covering(d)
<1>1. Winner(d) \in Covering(d)
  BY WinnerCovers
<1>2. d \notin unchecked => \A i, j \in Covering(d) : i = j
  BY DEF ScheduleInv, OneHostPerDate
<1> QED BY <1>1, <1>2 DEF Sole

LEMMA ReadInv ==
  ASSUME ScheduleTypeOK, ScheduleInv, NEW s \in Slots
  PROVE  /\ \A h \in Hosts, p \in Plans : CreateCheck(s, h, p) => ScheduleInv'
         /\ \A i \in Ids, h \in Hosts, active \in BOOLEAN :
              \A p \in Plans \union {rows[i].plan} :
                UpdateFind(s, i, h, p, active) => ScheduleInv'
         /\ UpdateCheck(s) => ScheduleInv'
         /\ \A i \in Ids : RemoveFind(s, i) => ScheduleInv'
<1>1. ASSUME NEW h \in Hosts, NEW p \in Plans, CreateCheck(s, h, p) PROVE ScheduleInv'
  <2> DEFINE c == [op |-> "create",
                   row |-> [user |-> h, plan |-> p, excluded |-> {}, active |-> TRUE]]
  <2>1. \A d \in GeneratedDates(p) : Covering(d) = {}
    <3>1. 0 \notin ids
      BY DEF ScheduleTypeOK, Ids
    <3> QED BY <1>1, <3>1 DEF CreateCheck, Conflict, Covering
  <2>2. CreateHolds(c) /\ c.op = "create"
    BY <2>1 DEF CreateHolds
  <2>3. Ask(s, c)
    BY <1>1 DEF CreateCheck
  <2> HIDE DEF c
  <2> QED BY <2>2, <2>3, AskHolds DEF Holds
<1>2. ASSUME NEW i \in Ids, NEW h \in Hosts, NEW active \in BOOLEAN,
             NEW p \in Plans \union {rows[i].plan}, UpdateFind(s, i, h, p, active)
      PROVE  ScheduleInv'
  <2> DEFINE c == [op |-> "update", id |-> i, checked |-> FALSE,
                   row |-> [user |-> h, plan |-> p, excluded |-> rows[i].excluded,
                            active |-> active]]
  <2>1. UpdateHolds(c) /\ c.op = "update"
    BY DEF UpdateHolds
  <2>2. Ask(s, c)
    BY <1>2 DEF UpdateFind
  <2> HIDE DEF c
  <2> QED BY <2>1, <2>2, AskHolds DEF Holds
<1>3. ASSUME UpdateCheck(s) PROVE ScheduleInv'
  <2> DEFINE c == call[s]
             cc == [call[s] EXCEPT !.checked = TRUE]
  <2>1. c.op = "update"
    BY <1>3 DEF UpdateCheck
  <2>2. CASE Conflict(c.row.plan, c.id)
    BY <1>3, <2>2, GoOnHolds, IdleHolds DEF UpdateCheck
  <2>3. CASE ~Conflict(c.row.plan, c.id)
    <3>1. \A d \in GeneratedDates(c.row.plan) : Covering(d) \subseteq {c.id}
      BY <2>3 DEF Conflict, Covering
    <3>2. /\ call[s] \in [op: {"update"}, id: Ids, checked: BOOLEAN, row: Row]
      BY <2>1 DEF ScheduleTypeOK, Request, Idle
    <3>3. cc.op = "update" /\ cc.row = c.row /\ cc.id = c.id
      BY <3>2
    <3>4. GoOn(s, cc)
      BY <1>3, <2>3 DEF UpdateCheck
    <3> HIDE DEF c, cc
    <3>5. UpdateHolds(cc)
      BY <3>1, <3>3 DEF UpdateHolds
    <3> QED BY <3>3, <3>4, <3>5, GoOnHolds DEF Holds
  <2> QED BY <2>2, <2>3
<1>4. ASSUME NEW i \in Ids, RemoveFind(s, i) PROVE ScheduleInv'
  <2>1. Holds(Deletion(i))
    BY DEF Holds, Deletion
  <2> QED BY <1>4, <2>1, AskHolds DEF RemoveFind
<1> QED BY <1>1, <1>2, <1>3, <1>4

LEMMA ChangeInv ==
  ASSUME ScheduleTypeOK, ScheduleInv, NEW s \in Slots, NEW i \in Ids, NEW d \in Dates,
         ExcludeFind(s, i, d) \/ TruncateFind(s, i, d)
  PROVE  ScheduleInv'
<1> DEFINE r == rows[i]
<1>1. Holds(Deletion(i))
  BY DEF Holds, Deletion
<1>2. DatesWithout(r, d) \subseteq r.plan.dates /\ DatesBefore(r, d) \subseteq r.plan.dates
  BY DEF DatesWithout, DatesBefore
<1>3. /\ Holds(Column(i, r, "dates", DatesWithout(r, d), 0))
      /\ Holds(Column(i, r, "dates", DatesBefore(r, d), 0))
      /\ Holds(Column(i, r, "excluded", r.excluded \union {d}, 0))
      /\ Holds(Column(i, r, "end", {}, d - 1))
  BY <1>2 DEF Holds, ColumnHolds, Column
<1>4. \E c : Ask(s, c) /\ Holds(c)
  BY <1>1, <1>3 DEF ExcludeFind, TruncateFind
<1> QED BY <1>4, AskHolds

LEMMA ResolveInv ==
  ASSUME ScheduleTypeOK, ScheduleInv, NEW s \in Slots
  PROVE  /\ \A a \in Dates, b \in Dates : SwapResolveA(s, a, b) => ScheduleInv'
         /\ SwapResolveB(s) => ScheduleInv'
<1>1. ASSUME NEW a \in Dates, NEW b \in Dates, SwapResolveA(s, a, b) PROVE ScheduleInv'
  <2> DEFINE c == [op |-> "resolve", a |-> a, b |-> b, ida |-> Winner(a),
                   rowa |-> rows[Winner(a)]]
  <2>1. c.op = "resolve" /\ ResolveHolds(c)
    BY <1>1, SoleWinner DEF SwapResolveA, ResolveHolds
  <2>2. Ask(s, c)
    BY <1>1 DEF SwapResolveA
  <2> HIDE DEF c
  <2> QED BY <2>1, <2>2, AskHolds DEF Holds
<1>2. ASSUME SwapResolveB(s) PROVE ScheduleInv'
  <2> DEFINE c == call[s]
             cc == [op |-> "swap", a |-> c.a, b |-> c.b, ida |-> c.ida, rowa |-> c.rowa,
                    idb |-> Winner(c.b), rowb |-> rows[Winner(c.b)],
                    todo |-> {"a", "b"}]
  <2>1. CASE Covering(c.b) = {} \/ HostOn(c.b) = c.rowa.user
    BY <1>2, <2>1, GoOnHolds, IdleHolds DEF SwapResolveB
  <2>2. CASE ~(Covering(c.b) = {} \/ HostOn(c.b) = c.rowa.user)
    <3>1. c.b \in Dates /\ c.op = "resolve"
      BY <1>2, RequestFields DEF SwapResolveB
    <3>2. Sole(Winner(c.b), c.b) /\ HostOn(c.b) = rows[Winner(c.b)].user
      BY <2>2, <3>1, SoleWinner DEF HostOn
    <3>3. ASSUME clean[s] PROVE Holds(cc)
      <4>1. ResolveHolds(c)
        BY <3>1, <3>3 DEF ScheduleInv, Holds
      <4>2. c.ida # Winner(c.b)
        BY <2>2, <3>2, <4>1 DEF ResolveHolds
      <4>3. SwapHolds(cc) /\ cc.op = "swap"
        BY <3>2, <4>1, <4>2 DEF SwapHolds, ResolveHolds
      <4> HIDE DEF cc
      <4> QED BY <4>3 DEF Holds
    <3>4. GoOn(s, cc)
      BY <1>2, <2>2 DEF SwapResolveB
    <3> HIDE DEF cc
    <3> QED BY <3>3, <3>4, GoOnHolds
  <2> QED BY <2>1, <2>2
<1> QED BY <1>1, <1>2

\* A date's schedules change by at most one in a step, where it is not given up.
ChangesOne == \A d \in Dates \ unchecked' : \E k : Covering(d)' \ {k} = Covering(d) \ {k}

\* A step that changes one row only.
OnlyRow(k) ==
  /\ ids' \ {k} = ids \ {k}
  /\ \A i \in ids \ {k} : rows'[i] = rows[i]
  /\ unchecked \subseteq unchecked'

LEMMA OneRow ==
  ASSUME ScheduleInv, NEW k, OnlyRow(k),
         \A d \in Dates \ unchecked' : k \in Covering(d)' => Covering(d) \subseteq {k}
  PROVE  OneHostPerDate' /\ ChangesOne
<1>1. \A d : Covering(d)' \ {k} = Covering(d) \ {k}
  BY DEF OnlyRow, Covering
<1>2. ChangesOne
  BY <1>1 DEF ChangesOne
<1>3. ASSUME NEW d \in Dates \ unchecked', NEW i \in Covering(d)', NEW j \in Covering(d)'
      PROVE  i = j
  <2>1. \A x, y \in Covering(d) : x = y
    BY DEF ScheduleInv, OneHostPerDate, OnlyRow
  <2> QED BY <1>1, <2>1
<1> QED BY <1>2, <1>3 DEF OneHostPerDate

\* A schedule covers a date after its row is written if it did before or gained it.
LEMMA GainedOrCovered ==
  ASSUME NEW k \in Ids, NEW d \in Dates, k \in Covering(d)'
  PROVE  k \in Covering(d) \/ d \in Gained(k, rows'[k])
BY DEF Gained, Covering, CoversDate

\* A write over row k is harmless if every date gained is given up or free for k.
LEMMA OneRowGained ==
  ASSUME ScheduleInv, NEW k \in Ids, OnlyRow(k),
         \A d \in Dates \ unchecked' :
           d \in Gained(k, rows'[k]) => Covering(d) \subseteq {k}
  PROVE  OneHostPerDate' /\ ChangesOne
<1>1. ASSUME NEW d \in Dates \ unchecked', k \in Covering(d)'
      PROVE  Covering(d) \subseteq {k}
  <2>1. CASE k \in Covering(d)
    BY <2>1 DEF ScheduleInv, OneHostPerDate, OnlyRow
  <2>2. CASE d \in Gained(k, rows'[k])
    BY <2>2
  <2> QED BY <1>1, <2>1, <2>2, GainedOrCovered
<1> QED BY <1>1, OneRow

LEMMA WriteStep ==
  ASSUME ScheduleTypeOK, NEW s \in Slots, Disturb(s), OneHostPerDate',
         clean'[s] => Holds(call[s])'
  PROVE  ScheduleInv'
<1>1. \A t \in Slots : clean'[t] => t = s
  BY DEF Disturb
<1> QED BY <1>1 DEF ScheduleInv

LEMMA DoneStep ==
  ASSUME ScheduleTypeOK, NEW s \in Slots, Disturb(s), OneHostPerDate', call'[s] = Idle
  PROVE  ScheduleInv'
<1>1. Holds(call[s])'
  BY DEF Holds, Idle
<1> QED BY <1>1, WriteStep

LEMMA CreateSaveInv ==
  ASSUME ScheduleTypeOK, ScheduleInv, NEW s \in Slots, CreateSave(s)
  PROVE  ScheduleInv' /\ ChangesOne
<1> DEFINE r == call[s].row
<1>1. next \in Ids
  BY DEF CreateSave, ScheduleTypeOK, Ids
<1>2. OnlyRow(next) /\ rows'[next] = r /\ Disturb(s) /\ call'[s] = Idle
  BY <1>1 DEF CreateSave, OnlyRow, ScheduleTypeOK
<1>3. ASSUME NEW d \in Dates \ unchecked', d \in Gained(next, r)
      PROVE  Covering(d) \subseteq {next}
  <2>1. clean[s] /\ d \in GeneratedDates(r.plan)
    BY <1>3 DEF CreateSave
  <2>2. CreateHolds(call[s])
    BY <2>1 DEF CreateSave, ScheduleInv, Holds
  <2> QED BY <2>1, <2>2 DEF CreateHolds
<1>4. OneHostPerDate' /\ ChangesOne
  BY <1>1, <1>2, <1>3, OneRowGained
<1> QED BY <1>2, <1>4, DoneStep

LEMMA UpdateSaveInv ==
  ASSUME ScheduleTypeOK, ScheduleInv, NEW s \in Slots, UpdateSave(s)
  PROVE  ScheduleInv' /\ ChangesOne
<1> DEFINE r == call[s].row
           k == call[s].id
<1>1. k \in Ids
  BY RequestFields DEF UpdateSave
<1>2. OnlyRow(k) /\ rows'[k] = r /\ Disturb(s) /\ call'[s] = Idle
  BY <1>1 DEF UpdateSave, OnlyRow, ScheduleTypeOK
<1>3. ASSUME NEW d \in Dates \ unchecked', d \in Gained(k, r)
      PROVE  Covering(d) \subseteq {k}
  <2>1. clean[s] /\ d \in GeneratedDates(r.plan)
    BY <1>3 DEF UpdateSave
  <2>2. UpdateHolds(call[s]) /\ call[s].checked
    BY <2>1 DEF UpdateSave, ScheduleInv, Holds
  <2> QED BY <2>1, <2>2 DEF UpdateHolds
<1>4. OneHostPerDate' /\ ChangesOne
  BY <1>1, <1>2, <1>3, OneRowGained
<1> QED BY <1>2, <1>4, DoneStep

LEMMA DeleteInv ==
  ASSUME ScheduleTypeOK, ScheduleInv, NEW s \in Slots, Delete(s)
  PROVE  ScheduleInv' /\ ChangesOne
<1> DEFINE k == call[s].id
<1>1. k \in Ids
  BY RequestFields DEF Delete
<1>2. OnlyRow(k) /\ k \notin ids' /\ Disturb(s) /\ call'[s] = Idle
  BY <1>1 DEF Delete, OnlyRow, ScheduleTypeOK
<1>3. \A d : k \notin Covering(d)'
  BY <1>2 DEF Covering
<1>4. OneHostPerDate' /\ ChangesOne
  BY <1>2, <1>3, OneRow
<1> QED BY <1>2, <1>4, DoneStep

\* A column written over the row it was computed from adds no date but those of a
\* truncation beyond the old end.
LEMMA WrittenGains ==
  ASSUME ScheduleTypeOK, NEW s \in Slots, call[s].op \in {"dates", "excluded", "end"},
         call[s].id \in ids, ColumnHolds(call[s]), NEW d \in Dates,
         d \in Gained(call[s].id, Written(rows[call[s].id], call[s]))
  PROVE  d \in Extended(rows[call[s].id], call[s])
<1> DEFINE c == call[s]
           r == rows[c.id]
           w == Written(r, c)
<1>0. c.id \in Ids /\ c.end \in Int /\ r \in Row /\ r.plan \in Plan /\ d \in Int
  BY RequestFields DEF ScheduleTypeOK, Row, Dates
<1>1. w.active /\ d \notin w.excluded /\ Matches(w.plan, d)
  BY DEF Gained, CoversDate
<1>2. ~(r.active /\ d \notin r.excluded /\ Matches(r.plan, d))
  BY DEF Gained, Covering, CoversDate
<1>3. CASE c.op = "excluded"
  <2>1. w.active = r.active /\ w.plan = r.plan /\ w.excluded = c.dates
    BY <1>0, <1>3 DEF Written, Row
  <2> QED BY <1>1, <1>2, <1>3, <2>1 DEF ColumnHolds
<1>4. CASE c.op = "dates"
  <2>1. /\ w.active = r.active /\ w.excluded = r.excluded
        /\ w.plan = [r.plan EXCEPT !.dates = c.dates]
    BY <1>0, <1>4 DEF Written, Row, ColumnHolds
  <2>2. /\ w.plan.kind = r.plan.kind /\ w.plan.from = r.plan.from
        /\ w.plan.to = r.plan.to /\ w.plan.day = r.plan.day
        /\ w.plan.every = r.plan.every /\ w.plan.dates = c.dates
    BY <1>0, <2>1 DEF Plan
  <2>3. Matches(w.plan, d) => Matches(r.plan, d)
    BY <1>0, <1>4, <2>2 DEF Matches, Recurs, FirstOccurrence, ColumnHolds, Plan, Kinds
  <2> QED BY <1>1, <1>2, <2>1, <2>3
<1>5. CASE c.op = "end"
  <2>1. /\ w.active = r.active /\ w.excluded = r.excluded
        /\ w.plan = [r.plan EXCEPT !.to = c.end]
    BY <1>0, <1>5 DEF Written, Row, ColumnHolds
  <2>2. /\ w.plan.kind = r.plan.kind /\ w.plan.from = r.plan.from
        /\ w.plan.to = c.end /\ w.plan.day = r.plan.day
        /\ w.plan.every = r.plan.every /\ w.plan.dates = r.plan.dates
    BY <1>0, <2>1 DEF Plan
  <2>3. /\ r.plan.kind \in Kinds /\ r.plan.from \in Nat /\ r.plan.to \in Int
    BY <1>0 DEF Plan
  <2>4. Matches(w.plan, d) /\ ~Matches(r.plan, d) => r.plan.to < d /\ d <= c.end
    <3>1. FirstOccurrence(w.plan) = FirstOccurrence(r.plan)
      BY <2>2 DEF FirstOccurrence
    <3>2. CASE r.plan.kind \in {"one_time", "date_list"}
      BY <3>2, <2>2 DEF Matches
    <3>3. CASE r.plan.kind = "date_range"
      BY <1>0, <3>3, <2>2, <2>3 DEF Matches
    <3>4. CASE r.plan.kind = "recurring"
      <4>1. /\ Matches(w.plan, d) <=> Recurs(w.plan, d)
            /\ Matches(r.plan, d) <=> Recurs(r.plan, d)
        BY <3>4, <2>2 DEF Matches
      <4>2. Recurs(w.plan, d) /\ ~Recurs(r.plan, d) => d <= c.end /\ ~(d <= r.plan.to)
        BY <2>2, <3>1, Zenon DEF Recurs
      <4> QED BY <1>0, <2>3, <4>1, <4>2
    <3> QED BY <2>3, <3>2, <3>3, <3>4 DEF Kinds
  <2> QED BY <1>1, <1>2, <1>5, <2>1, <2>4 DEF Extended
<1> QED BY <1>3, <1>4, <1>5

LEMMA WriteColumnInv ==
  ASSUME ScheduleTypeOK, ScheduleInv, NEW s \in Slots, WriteColumn(s)
  PROVE  ScheduleInv' /\ ChangesOne
<1> DEFINE c == call[s]
           k == c.id
           w == Written(rows[k], c)
<1>1. k \in Ids /\ c.op \in {"dates", "excluded", "end"}
  BY RequestFields DEF WriteColumn
<1>2. CASE k \in ids
  <2>1. OnlyRow(k) /\ rows'[k] = w /\ Disturb(s) /\ call'[s] = Idle
    BY <1>1, <1>2 DEF WriteColumn, OnlyRow, ScheduleTypeOK
  <2>2. ASSUME NEW d \in Dates \ unchecked', d \in Gained(k, w)
        PROVE  Covering(d) \subseteq {k}
    <3>1. clean[s] /\ d \notin Extended(rows[k], c)
      BY <1>2, <2>2 DEF WriteColumn
    <3>2. ColumnHolds(c)
      BY <1>1, <3>1 DEF ScheduleInv, Holds
    <3> QED BY <1>1, <1>2, <2>2, <3>1, <3>2, WrittenGains
  <2>3. OneHostPerDate' /\ ChangesOne
    BY <1>1, <2>1, <2>2, OneRowGained
  <2> QED BY <2>1, <2>3, DoneStep
<1>3. CASE k \notin ids
  <2>1. UNCHANGED Stored /\ UNCHANGED clean
    BY <1>3 DEF WriteColumn, Stored
  <2>2. call'[s] = Idle /\ \A t \in Slots \ {s} : call'[t] = call[t]
    BY DEF WriteColumn, ScheduleTypeOK
  <2>3. ScheduleInv'
    BY <2>1, <2>2, ReadStep, IdleHolds
  <2> QED BY <2>1, <2>3, StoredSame DEF ChangesOne
<1> QED BY <1>2, <1>3

\* A step that takes dates from schedule k only, as the two statements of a swap do.
LEMMA Taking ==
  ASSUME ScheduleTypeOK, ScheduleInv, NEW k \in Ids, OnlyRow(k),
         \A d \in Dates : k \in Covering(d)' => k \in Covering(d)
  PROVE  /\ OneHostPerDate' /\ ChangesOne
         /\ \A d \in Dates : Free(d) => Free(d)'
         /\ \A d \in Dates, i \in Ids \ {k} : Sole(i, d) => Sole(i, d)'
         /\ \A d \in Dates : Sole(k, d) /\ k \notin Covering(d)' => Free(d)'
<1>1. \A d : Covering(d)' \ {k} = Covering(d) \ {k}
  BY DEF OnlyRow, Covering
<1>2. ASSUME NEW d \in Dates \ unchecked', k \in Covering(d)' PROVE Covering(d) \subseteq {k}
  BY <1>2 DEF ScheduleInv, OneHostPerDate, OnlyRow
<1>3. OneHostPerDate' /\ ChangesOne
  BY <1>2, OneRow
<1>4. unchecked \subseteq unchecked'
  BY DEF OnlyRow
<1>5. \A d \in Dates : Free(d) => Free(d)'
  BY <1>1, <1>4 DEF Free
<1>6. \A d \in Dates, i \in Ids \ {k} : Sole(i, d) => Sole(i, d)'
  BY <1>1, <1>4 DEF Sole
<1>7. \A d \in Dates : Sole(k, d) /\ k \notin Covering(d)' => Free(d)'
  BY <1>1, <1>4 DEF Sole, Free
<1> QED BY <1>3, <1>5, <1>6, <1>7

LEMMA TakeOutRow ==
  ASSUME ScheduleTypeOK, ScheduleInv, NEW s \in Slots, NEW which \in {"a", "b"},
         NEW k \in Ids, NEW r \in Row, NEW d \in Dates, TakeOut(s, which, k, r, d)
  PROVE  /\ OnlyRow(k) /\ Disturb(s) /\ k \notin Covering(d)'
         /\ clean[s] /\ r = rows[k] =>
              \A e \in Dates : k \in Covering(e)' => k \in Covering(e)
         /\ ~clean[s] => OneHostPerDate' /\ ChangesOne
<1> DEFINE taken == [rows[k] EXCEPT !.excluded = r.excluded \union {d}]
<1>1. rows[k] \in Row
  BY DEF ScheduleTypeOK
<1>2. /\ taken.excluded = r.excluded \union {d}
      /\ taken.plan = rows[k].plan /\ taken.active = rows[k].active
  BY <1>1 DEF Row
<1>3. CASE r.plan.kind = "one_time" \/ k \notin ids
  <2>1. OnlyRow(k) /\ Disturb(s) /\ k \notin ids'
    BY <1>3 DEF TakeOut, OnlyRow, ScheduleTypeOK
  <2>2. \A e : k \notin Covering(e)'
    BY <2>1 DEF Covering
  <2>3. OneHostPerDate' /\ ChangesOne
    BY <2>1, <2>2, OneRow
  <2> QED BY <2>1, <2>2, <2>3
<1>4. CASE ~(r.plan.kind = "one_time" \/ k \notin ids)
  <2>1. /\ OnlyRow(k) /\ Disturb(s) /\ rows'[k] = taken /\ ids' = ids
        /\ unchecked' = unchecked \union (IF clean[s] THEN {} ELSE Gained(k, taken))
    BY <1>4 DEF TakeOut, OnlyRow, ScheduleTypeOK
  <2> HIDE DEF taken
  <2>2. k \notin Covering(d)'
    BY <1>2, <2>1 DEF Covering, CoversDate
  <2>3. ASSUME clean[s], r = rows[k], NEW e \in Dates, k \in Covering(e)'
        PROVE  k \in Covering(e)
    BY <1>2, <2>1, <2>3 DEF Covering, CoversDate
  <2>4. ASSUME ~clean[s] PROVE OneHostPerDate' /\ ChangesOne
    <3>1. \A e \in Dates \ unchecked' : e \notin Gained(k, rows'[k])
      BY <2>1, <2>4
    <3> QED BY <2>1, <3>1, OneRowGained
  <2> QED BY <2>1, <2>2, <2>3, <2>4
<1> QED BY <1>3, <1>4

LEMMA SwapRequest ==
  ASSUME ScheduleTypeOK, NEW s \in Slots, NEW which \in {"a", "b"}, call[s].op = "swap",
         call'[s] = [call[s] EXCEPT !.todo = call[s].todo \ {which}]
  PROVE  /\ call'[s].op = "swap" /\ call'[s].a = call[s].a /\ call'[s].b = call[s].b
         /\ call'[s].ida = call[s].ida /\ call'[s].idb = call[s].idb
         /\ call'[s].rowa = call[s].rowa /\ call'[s].rowb = call[s].rowb
         /\ call'[s].todo = call[s].todo \ {which}
<1>1. call[s] \in [op: {"swap"}, a: Dates, b: Dates, ida: Ids, rowa: Row, idb: Ids,
                  rowb: Row, todo: SUBSET {"a", "b"}]
  BY RequestFields
<1> QED BY <1>1

\* One of the two statements of a swap: the date is free afterwards, and nothing
\* changes for the schedule of the other date.
LEMMA SwapTakeStep ==
  ASSUME ScheduleTypeOK, ScheduleInv, NEW s \in Slots, NEW which \in {"a", "b"},
         NEW k \in Ids, NEW r \in Row, NEW d \in Dates, TakeOut(s, which, k, r, d),
         NEW other \in Ids,
         clean[s] => r = rows[k] /\ Sole(k, d) /\ other # k
  PROVE  /\ Disturb(s) /\ clean'[s] = clean[s] /\ OneHostPerDate' /\ ChangesOne
         /\ call'[s] = [call[s] EXCEPT !.todo = call[s].todo \ {which}]
         /\ clean[s] => /\ Free(d)' /\ rows'[other] = rows[other]
                        /\ \A e \in Dates : Sole(other, e) => Sole(other, e)'
                        /\ \A e \in Dates : Free(e) => Free(e)'
<1>1. /\ OnlyRow(k) /\ Disturb(s) /\ k \notin Covering(d)'
      /\ clean[s] /\ r = rows[k] =>
           \A e \in Dates : k \in Covering(e)' => k \in Covering(e)
      /\ ~clean[s] => OneHostPerDate' /\ ChangesOne
  BY TakeOutRow
<1>2. clean'[s] = clean[s]
  BY <1>1 DEF Disturb, ScheduleTypeOK
<1>3. call'[s] = [call[s] EXCEPT !.todo = call[s].todo \ {which}]
  BY DEF TakeOut, ScheduleTypeOK
<1>4. CASE clean[s]
  <2>1. /\ OneHostPerDate' /\ ChangesOne
        /\ \A e \in Dates : Free(e) => Free(e)'
        /\ \A e \in Dates, i \in Ids \ {k} : Sole(i, e) => Sole(i, e)'
        /\ \A e \in Dates : Sole(k, e) /\ k \notin Covering(e)' => Free(e)'
    BY <1>1, <1>4, Taking
  <2>2. rows'[other] = rows[other]
    BY <1>4 DEF TakeOut, ScheduleTypeOK
  <2> QED BY <1>1, <1>2, <1>3, <1>4, <2>1, <2>2
<1> QED BY <1>1, <1>2, <1>3, <1>4

LEMMA SwapTakeInv ==
  ASSUME ScheduleTypeOK, ScheduleInv, NEW s \in Slots, SwapTakeA(s) \/ SwapTakeB(s)
  PROVE  ScheduleInv' /\ ChangesOne
<1>1. /\ call[s].op = "swap"
      /\ call[s] \in [op: {"swap"}, a: Dates, b: Dates, ida: Ids, rowa: Row, idb: Ids,
                      rowb: Row, todo: SUBSET {"a", "b"}]
  BY RequestFields DEF SwapTakeA, SwapTakeB, TakeOut
<1>2. PICK a \in Dates, b \in Dates, ida \in Ids, idb \in Ids, rowa \in Row, rowb \in Row :
        /\ call[s].a = a /\ call[s].b = b /\ call[s].ida = ida /\ call[s].idb = idb
        /\ call[s].rowa = rowa /\ call[s].rowb = rowb
  BY <1>1
<1>3. clean[s] => SwapHolds(call[s])
  BY <1>1 DEF ScheduleInv, Holds
<1>4. CASE SwapTakeA(s)
  <2>1. TakeOut(s, "a", ida, rowa, a) /\ "a" \in call[s].todo
    BY <1>2, <1>4 DEF SwapTakeA, TakeOut
  <2>2. clean[s] => rowa = rows[ida] /\ Sole(ida, a) /\ idb # ida
    BY <1>2, <1>3, <2>1 DEF SwapHolds
  <2>3. /\ Disturb(s) /\ clean'[s] = clean[s] /\ OneHostPerDate' /\ ChangesOne
        /\ call'[s] = [call[s] EXCEPT !.todo = call[s].todo \ {"a"}]
        /\ clean[s] => /\ Free(a)' /\ rows'[idb] = rows[idb]
                       /\ \A e \in Dates : Sole(idb, e) => Sole(idb, e)'
                       /\ \A e \in Dates : Free(e) => Free(e)'
    BY <2>1, <2>2, SwapTakeStep
  <2>4. /\ call'[s].op = "swap" /\ call'[s].a = a /\ call'[s].b = b
        /\ call'[s].ida = ida /\ call'[s].idb = idb
        /\ call'[s].rowa = rowa /\ call'[s].rowb = rowb
        /\ call'[s].todo = call[s].todo \ {"a"}
    BY <1>1, <1>2, <2>3, SwapRequest
  <2>5. ASSUME clean[s] PROVE Holds(call[s])'
    <3>1. a # b /\ ida # idb
      BY <1>2, <1>3, <2>5 DEF SwapHolds
    <3>2. IF "b" \in call[s].todo THEN rowb = rows[idb] /\ Sole(idb, b)
          ELSE Free(b)
      BY <1>2, <1>3, <2>5 DEF SwapHolds
    <3>3. IF "b" \in call[s].todo THEN rowb = rows'[idb] /\ Sole(idb, b)'
          ELSE Free(b)'
      BY <2>3, <2>5, <3>2
    <3>4. Free(a)'
      BY <2>3, <2>5
    <3>5. SwapHolds(call[s])'
      BY <2>4, <3>1, <3>3, <3>4 DEF SwapHolds, Sole, Free, Covering
    <3> QED BY <2>4, <3>5 DEF Holds
  <2> QED BY <2>3, <2>5, WriteStep
<1>5. CASE SwapTakeB(s)
  <2>1. TakeOut(s, "b", idb, rowb, b) /\ "b" \in call[s].todo
    BY <1>2, <1>5 DEF SwapTakeB, TakeOut
  <2>2. clean[s] => rowb = rows[idb] /\ Sole(idb, b) /\ ida # idb
    BY <1>2, <1>3, <2>1 DEF SwapHolds
  <2>3. /\ Disturb(s) /\ clean'[s] = clean[s] /\ OneHostPerDate' /\ ChangesOne
        /\ call'[s] = [call[s] EXCEPT !.todo = call[s].todo \ {"b"}]
        /\ clean[s] => /\ Free(b)' /\ rows'[ida] = rows[ida]
                       /\ \A e \in Dates : Sole(ida, e) => Sole(ida, e)'
                       /\ \A e \in Dates : Free(e) => Free(e)'
    BY <2>1, <2>2, SwapTakeStep
  <2>4. /\ call'[s].op = "swap" /\ call'[s].a = a /\ call'[s].b = b
        /\ call'[s].ida = ida /\ call'[s].idb = idb
        /\ call'[s].rowa = rowa /\ call'[s].rowb = rowb
        /\ call'[s].todo = call[s].todo \ {"b"}
    BY <1>1, <1>2, <2>3, SwapRequest
  <2>5. ASSUME clean[s] PROVE Holds(call[s])'
    <3>1. a # b /\ ida # idb
      BY <1>2, <1>3, <2>5 DEF SwapHolds
    <3>2. IF "a" \in call[s].todo THEN rowa = rows[ida] /\ Sole(ida, a)
          ELSE Free(a)
      BY <1>2, <1>3, <2>5 DEF SwapHolds
    <3>3. IF "a" \in call[s].todo THEN rowa = rows'[ida] /\ Sole(ida, a)'
          ELSE Free(a)'
      BY <2>3, <2>5, <3>2
    <3>4. Free(b)'
      BY <2>3, <2>5
    <3>5. SwapHolds(call[s])'
      BY <2>4, <3>1, <3>3, <3>4 DEF SwapHolds, Sole, Free, Covering
    <3> QED BY <2>4, <3>5 DEF Holds
  <2> QED BY <2>3, <2>5, WriteStep
<1> QED BY <1>4, <1>5

\* The rows a swap stores cover one date each.
LEMMA SwapStores ==
  ASSUME ScheduleTypeOK, ScheduleInv, NEW s \in Slots, SwapSave(s)
  PROVE  \E n, m \in Ids, a, b \in Dates :
           /\ call[s].a = a /\ call[s].b = b
           /\ rows'[n].user = call[s].rowb.user /\ rows'[m].user = call[s].rowa.user
           /\ \A d \in Dates : (n \in Covering(d)' <=> d = a) /\ (m \in Covering(d)' <=> d = b)
           /\ \A d \in Dates : Covering(d)' \ {n, m} = Covering(d) \ {n, m}
           /\ clean[s] => a # b /\ Free(a) /\ Free(b)
           /\ unchecked' = IF clean[s] THEN unchecked ELSE unchecked \union {a, b}
           /\ Disturb(s) /\ call'[s] = Idle
<1>1. /\ call[s].op = "swap" /\ call[s].todo = {}
      /\ call[s] \in [op: {"swap"}, a: Dates, b: Dates, ida: Ids, rowa: Row, idb: Ids,
                      rowb: Row, todo: SUBSET {"a", "b"}]
  BY RequestFields DEF SwapSave
<1>2. PICK a \in Dates, b \in Dates : call[s].a = a /\ call[s].b = b
  BY <1>1
<1>0. PICK n, m : n = next /\ m = next + 1
  OBVIOUS
<1>3. n \in Ids /\ m \in Ids /\ n # m
  BY <1>0 DEF SwapSave, ScheduleTypeOK, Ids
<1>4. /\ ids' = ids \union {n, m}
      /\ rows'[n] = OneTime(call[s].rowb.user, a)
      /\ rows'[m] = OneTime(call[s].rowa.user, b)
      /\ \A i \in Ids \ {n, m} : rows'[i] = rows[i]
      /\ unchecked' = IF clean[s] THEN unchecked ELSE unchecked \union {a, b}
      /\ Disturb(s)
      /\ call'[s] = Idle
  BY <1>0, <1>2, <1>3 DEF SwapSave, SwappedRows, ScheduleTypeOK
<1>5. \A d \in Dates : (n \in Covering(d)' <=> d = a) /\ (m \in Covering(d)' <=> d = b)
  <2>1. ASSUME NEW h, NEW e, NEW d PROVE /\ OneTime(h, e).active /\ OneTime(h, e).excluded = {}
                                         /\ OneTime(h, e).plan.kind = "one_time"
                                         /\ OneTime(h, e).plan.dates = {e}
    BY DEF OneTime
  <2>2. ASSUME NEW h, NEW e, NEW d
        PROVE  OneTime(h, e).active /\ (CoversDate(OneTime(h, e), d) <=> d = e)
    <3> DEFINE o == OneTime(h, e)
    <3>1. o.active /\ o.excluded = {} /\ o.plan.kind = "one_time" /\ o.plan.dates = {e}
      BY <2>1
    <3> HIDE DEF o
    <3>2. CoversDate(o, d) <=> d = e
      BY <3>1 DEF CoversDate, Matches
    <3> QED BY <3>1, <3>2 DEF o
  <2>3. ASSUME NEW d \in Dates
        PROVE  (n \in Covering(d)' <=> d = a) /\ (m \in Covering(d)' <=> d = b)
    BY <1>4, <2>2, <2>3 DEF Covering
  <2> QED BY <2>3
<1>6. \A d \in Dates : Covering(d)' \ {n, m} = Covering(d) \ {n, m}
  BY <1>3, <1>4 DEF Covering, ScheduleTypeOK
<1>7. clean[s] => a # b /\ Free(a) /\ Free(b)
  BY <1>1, <1>2 DEF ScheduleInv, Holds, SwapHolds, Free
<1>8. rows'[n].user = call[s].rowb.user /\ rows'[m].user = call[s].rowa.user
  BY <1>4 DEF OneTime
<1> DEFINE Stores(x, y, d, e) ==
             /\ call[s].a = d /\ call[s].b = e
             /\ rows'[x].user = call[s].rowb.user /\ rows'[y].user = call[s].rowa.user
             /\ \A f \in Dates : (x \in Covering(f)' <=> f = d) /\ (y \in Covering(f)' <=> f = e)
             /\ \A f \in Dates : Covering(f)' \ {x, y} = Covering(f) \ {x, y}
             /\ clean[s] => d # e /\ Free(d) /\ Free(e)
             /\ unchecked' = IF clean[s] THEN unchecked ELSE unchecked \union {d, e}
             /\ Disturb(s) /\ call'[s] = Idle
<1>9. Stores(n, m, a, b)
  BY <1>2, <1>4, <1>5, <1>6, <1>7, <1>8
<1> HIDE DEF Stores
<1>10. \E x, y \in Ids, d, e \in Dates : Stores(x, y, d, e)
  BY <1>3, <1>9
<1> QED BY <1>10 DEF Stores

LEMMA SwapSaveInv ==
  ASSUME ScheduleTypeOK, ScheduleInv, NEW s \in Slots, SwapSave(s)
  PROVE  ScheduleInv' /\ ChangesOne
<1>1. PICK n \in Ids, m \in Ids, a \in Dates, b \in Dates :
        /\ \A d \in Dates : (n \in Covering(d)' <=> d = a) /\ (m \in Covering(d)' <=> d = b)
        /\ \A d \in Dates : Covering(d)' \ {n, m} = Covering(d) \ {n, m}
        /\ clean[s] => a # b /\ Free(a) /\ Free(b)
        /\ unchecked' = IF clean[s] THEN unchecked ELSE unchecked \union {a, b}
        /\ Disturb(s) /\ call'[s] = Idle
  BY SwapStores
<1>2. ASSUME NEW d \in Dates \ unchecked'
      PROVE  /\ \A i, j \in Covering(d)' : i = j
             /\ \E k : Covering(d)' \ {k} = Covering(d) \ {k}
  <2>1. d \notin unchecked /\ \A i, j \in Covering(d) : i = j
    BY <1>1 DEF ScheduleInv, OneHostPerDate
  <2>2. CASE d \in {a, b}
    <3>1. clean[s] /\ a # b /\ Covering(d) = {}
      BY <1>1, <2>1, <2>2 DEF Free
    <3>2. CASE d = a
      <4>1. Covering(d)' = {n}
        BY <1>1, <3>1, <3>2
      <4> QED BY <3>1, <4>1
    <3>3. CASE d = b
      <4>1. Covering(d)' = {m}
        BY <1>1, <3>1, <3>3
      <4> QED BY <3>1, <4>1
    <3> QED BY <2>2, <3>2, <3>3
  <2>3. CASE d \notin {a, b}
    <3>1. Covering(d)' = Covering(d) \ {n, m}
      BY <1>1, <2>3
    <3>2. CASE Covering(d) = {}
      BY <3>1, <3>2
    <3>3. CASE Covering(d) # {}
      <4>1. PICK k : k \in Covering(d)
        BY <3>3
      <4>2. Covering(d) = {k}
        BY <2>1, <4>1
      <4> QED BY <3>1, <4>2
    <3> QED BY <3>2, <3>3
  <2> QED BY <2>2, <2>3
<1>3. OneHostPerDate' /\ ChangesOne
  BY <1>2 DEF OneHostPerDate, ChangesOne
<1> QED BY <1>1, <1>3, DoneStep

\* The steps that write nothing.
Reading(s) ==
  \/ \E h \in Hosts, p \in Plans : CreateCheck(s, h, p)
  \/ \E i \in Ids, h \in Hosts, active \in BOOLEAN :
       \E p \in Plans \union {rows[i].plan} : UpdateFind(s, i, h, p, active)
  \/ UpdateCheck(s)
  \/ \E i \in Ids : RemoveFind(s, i)
  \/ \E i \in Ids, d \in Dates : ExcludeFind(s, i, d)
  \/ \E i \in Ids, d \in Dates : TruncateFind(s, i, d)
  \/ \E a \in Dates, b \in Dates : SwapResolveA(s, a, b)
  \/ SwapResolveB(s)

LEMMA ReadingStored == ASSUME NEW s, Reading(s) PROVE UNCHANGED Stored
  BY DEF Reading, CreateCheck, UpdateFind, UpdateCheck, RemoveFind, ExcludeFind,
         TruncateFind, SwapResolveA, SwapResolveB, Ask, GoOn, Stored

\* Every step keeps the invariant, and hands no date over.
LEMMA ScheduleStep ==
  ASSUME ScheduleTypeOK, ScheduleInv, [ScheduleNext]_scheduleVars
  PROVE  ScheduleInv' /\ ChangesOne
<1>1. CASE UNCHANGED scheduleVars
  <2>1. UNCHANGED Stored /\ UNCHANGED <<call, clean>>
    BY <1>1 DEF scheduleVars, Stored
  <2> QED BY <2>1, StoredSame DEF ScheduleInv, ChangesOne
<1>2. ASSUME NEW s \in Slots,
             \/ CreateSave(s) \/ UpdateSave(s) \/ Delete(s) \/ WriteColumn(s)
             \/ SwapTakeA(s) \/ SwapTakeB(s) \/ SwapSave(s)
      PROVE  ScheduleInv' /\ ChangesOne
  BY <1>2, CreateSaveInv, UpdateSaveInv, DeleteInv, WriteColumnInv, SwapTakeInv, SwapSaveInv
<1>3. ASSUME NEW s \in Slots, Reading(s) PROVE ScheduleInv' /\ ChangesOne
  <2>1. UNCHANGED Stored
    BY <1>3, ReadingStored
  <2>2. ChangesOne
    BY <2>1, StoredSame DEF ChangesOne
  <2>3. ScheduleInv'
    BY <1>3, ReadInv, ChangeInv, ResolveInv DEF Reading
  <2> QED BY <2>2, <2>3
<1> QED BY <1>1, <1>2, <1>3 DEF ScheduleNext, Reading

LEMMA ScheduleStart == ScheduleInit => ScheduleInv
  BY DEF ScheduleInit, ScheduleInv, OneHostPerDate, Covering

\* No date outside the unchecked ones has two hosts, whatever requests overlap.
THEOREM OneHostPerDateCorrect == ScheduleSpec => []OneHostPerDate
<1>1. ScheduleTypeOK /\ ScheduleInv /\ [ScheduleNext]_scheduleVars => ScheduleInv'
  BY ScheduleStep
<1>2. ScheduleInv => OneHostPerDate
  BY DEF ScheduleInv
<1> QED BY <1>1, <1>2, ScheduleStart, ScheduleTypeCorrect, PTL DEF ScheduleSpec

LEMMA UncheckedGrows ==
  ASSUME ScheduleTypeOK, [ScheduleNext]_scheduleVars PROVE unchecked \subseteq unchecked'
<1>1. ASSUME NEW s \in Slots, CreateSave(s) \/ UpdateSave(s) \/ Delete(s)
      PROVE  unchecked \subseteq unchecked'
  BY <1>1 DEF CreateSave, UpdateSave, Delete
<1>2. ASSUME NEW s \in Slots, WriteColumn(s) PROVE unchecked \subseteq unchecked'
  BY <1>2 DEF WriteColumn
<1>3. ASSUME NEW s \in Slots, SwapTakeA(s) \/ SwapTakeB(s)
      PROVE  unchecked \subseteq unchecked'
  BY <1>3 DEF SwapTakeA, SwapTakeB, TakeOut
<1>4. ASSUME NEW s \in Slots, SwapSave(s) PROVE unchecked \subseteq unchecked'
  BY <1>4 DEF SwapSave
<1>5. ASSUME NEW s \in Slots, Reading(s) PROVE unchecked \subseteq unchecked'
  BY <1>5, ReadingStored DEF Stored
<1> QED BY <1>1, <1>2, <1>3, <1>4, <1>5 DEF ScheduleNext, scheduleVars, Reading

WinnerOK == \A d \in Dates : Covering(d) # {} => Winner(d) \in Covering(d)

\* No step hands a date from the schedule that has it to another one.
THEOREM NeverStolenCorrect == ScheduleSpec => NeverStolen
<1> DEFINE Keeps == \A d \in Dates \ unchecked' :
                      Covering(d) # {} /\ Covering(d)' # {} => Winner(d)' = Winner(d)
<1>1. ScheduleTypeOK /\ ScheduleInv /\ [ScheduleNext]_scheduleVars => ScheduleInv'
  BY ScheduleStep
<1>2. ASSUME ScheduleTypeOK, ScheduleTypeOK', ScheduleInv, ScheduleInv',
             WinnerOK, WinnerOK', [ScheduleNext]_scheduleVars
      PROVE  Keeps
  <2>0. ScheduleInv' /\ ChangesOne /\ unchecked \subseteq unchecked'
    BY <1>2, ScheduleStep, UncheckedGrows
  <2>1. SUFFICES ASSUME NEW d \in Dates \ unchecked', Covering(d) # {}, Covering(d)' # {}
                 PROVE  Winner(d)' = Winner(d)
    BY DEF Keeps
  <2>3. Winner(d) \in Covering(d) /\ Winner(d)' \in Covering(d)'
    BY <1>2, <2>1 DEF WinnerOK
  <2>4. /\ \A i, j \in Covering(d) : i = j
        /\ \A i, j \in Covering(d)' : i = j
    BY <1>2, <2>0, <2>1 DEF ScheduleInv, OneHostPerDate
  <2>5. PICK k : Covering(d)' \ {k} = Covering(d) \ {k}
    BY <2>0, <2>1 DEF ChangesOne
  <2> HIDE DEF Winner
  <2> QED BY <2>3, <2>4, <2>5
<1>3. ScheduleTypeOK => WinnerOK
  BY WinnerCovers DEF WinnerOK
<1> HIDE DEF Keeps
<1>4. ScheduleSpec => [][Keeps]_scheduleVars
  BY <1>1, <1>2, <1>3, ScheduleStart, ScheduleTypeCorrect, PTL DEF ScheduleSpec
<1> QED BY <1>4 DEF Keeps, NeverStolen

\* Only the step that stores the two rows ends a swap that was resolved.
LEMMA SwapEnds ==
  ASSUME ScheduleTypeOK, [ScheduleNext]_scheduleVars, NEW s \in Slots,
         call[s].op = "swap", call'[s] = Idle
  PROVE  SwapSave(s)
<1>1. call[s] # Idle
  BY DEF Idle
<1>2. PICK t \in Slots :
        \/ CreateSave(t) \/ UpdateSave(t) \/ Delete(t) \/ WriteColumn(t)
        \/ SwapTakeA(t) \/ SwapTakeB(t) \/ SwapSave(t) \/ Reading(t)
  BY <1>1 DEF ScheduleNext, scheduleVars, Reading
<1>3. t # s => call'[s] = call[s]
  BY <1>2 DEF CreateSave, UpdateSave, Delete, WriteColumn, SwapTakeA, SwapTakeB, TakeOut, SwapSave,
              Reading, CreateCheck, UpdateFind, UpdateCheck, RemoveFind, ExcludeFind, TruncateFind,
              SwapResolveA, SwapResolveB, Ask, GoOn, ScheduleTypeOK
<1>4. t = s
  BY <1>1, <1>3
<1>5. ~(CreateSave(s) \/ UpdateSave(s) \/ Delete(s) \/ WriteColumn(s))
  BY DEF CreateSave, UpdateSave, Delete, WriteColumn
<1>6. ~Reading(s)
  BY <1>1 DEF Reading, CreateCheck, UpdateFind, UpdateCheck, RemoveFind, ExcludeFind, TruncateFind,
              SwapResolveA, SwapResolveB, Ask
<1>7. ASSUME NEW w, NEW i, NEW r, NEW d, TakeOut(s, w, i, r, d) PROVE FALSE
  <2>1. call'[s] = [call[s] EXCEPT !.todo = call[s].todo \ {w}]
    BY <1>7 DEF TakeOut, ScheduleTypeOK
  <2>2. call[s] \in [op: {"swap"}, a: Dates, b: Dates, ida: Ids, rowa: Row, idb: Ids,
                     rowb: Row, todo: SUBSET {"a", "b"}]
    BY RequestFields
  <2>3. call'[s].op = "swap"
    BY <2>1, <2>2
  <2> QED BY <2>3 DEF Idle
<1> QED BY <1>2, <1>4, <1>5, <1>6, <1>7 DEF SwapTakeA, SwapTakeB

\* A swap that nobody disturbs and that is carried through leaves each of the two dates with
\* the host of the other, for schedules of any kind (steps 1 and 2 of swapDates).
THEOREM SwapExchangesCorrect == ScheduleSpec => SwapExchanges
<1> DEFINE Swaps == \A s \in Slots : call[s].op = "swap" /\ call'[s] = Idle /\ clean[s] =>
                      \A d \in {call[s].a, call[s].b} \ unchecked :
                        HostOn(d)' = IF d = call[s].a THEN call[s].rowb.user ELSE call[s].rowa.user
<1>1. ScheduleTypeOK /\ ScheduleInv /\ [ScheduleNext]_scheduleVars => ScheduleInv'
  BY ScheduleStep
<1>2. ASSUME ScheduleTypeOK, ScheduleInv, WinnerOK', [ScheduleNext]_scheduleVars PROVE Swaps
  <2> SUFFICES ASSUME NEW s \in Slots, call[s].op = "swap", call'[s] = Idle, clean[s],
                      NEW d \in {call[s].a, call[s].b} \ unchecked
               PROVE  HostOn(d)' = IF d = call[s].a THEN call[s].rowb.user ELSE call[s].rowa.user
    OBVIOUS
  <2>1. SwapSave(s)
    BY <1>2, SwapEnds
  <2>2. PICK n \in Ids, m \in Ids, a \in Dates, b \in Dates :
          /\ call[s].a = a /\ call[s].b = b
          /\ rows'[n].user = call[s].rowb.user /\ rows'[m].user = call[s].rowa.user
          /\ \A e \in Dates : (n \in Covering(e)' <=> e = a) /\ (m \in Covering(e)' <=> e = b)
          /\ \A e \in Dates : Covering(e)' \ {n, m} = Covering(e) \ {n, m}
          /\ a # b /\ Free(a) /\ Free(b)
    BY <1>2, <2>1, SwapStores
  <2>3. d \in Dates /\ Covering(d) = {}
    BY <2>2 DEF Free
  <2>4. Covering(d)' = IF d = a THEN {n} ELSE {m}
    BY <2>2, <2>3
  <2>5. Winner(d)' = IF d = a THEN n ELSE m
    BY <1>2, <2>3, <2>4 DEF WinnerOK
  <2>6. HostOn(d)' = rows'[Winner(d)'].user
    BY <2>4 DEF HostOn
  <2> QED BY <2>2, <2>5, <2>6
<1>3. ScheduleTypeOK => WinnerOK
  BY WinnerCovers DEF WinnerOK
<1> HIDE DEF Swaps
<1>4. ScheduleSpec => [][Swaps]_scheduleVars
  BY <1>1, <1>2, <1>3, ScheduleStart, ScheduleTypeCorrect, PTL DEF ScheduleSpec
<1> QED BY <1>4 DEF Swaps, SwapExchanges

-----------------------------------------------------------------------------
(* The calls before a meeting: times.                                      *)

USE AutoCallAssumption

LEMMA DaySecondsType == DaySeconds \in Nat /\ DaySeconds > 0
BY DEF DaySeconds

\* Quotient and remainder are determined by the division.
LEMMA QuotientUnique ==
  ASSUME NEW n \in Nat, n > 0, NEW q \in Nat, NEW x \in Nat, n * q <= x, x < n * q + n
  PROVE  x \div n = q
<1> DEFINE k == x \div n
<1>1. k \in Int /\ n * k <= x /\ x < n * k + n
  OBVIOUS
<1> HIDE DEF k
<1>2. k < q + 1
  <2>1. n * k < n * (q + 1)
    BY <1>1
  <2> QED BY <1>1, <2>1
<1>3. q < k + 1
  <2>1. n * q < n * (k + 1)
    BY <1>1
  <2> QED BY <1>1, <2>1
<1>4. k = q
  BY <1>1, <1>2, <1>3
<1> QED BY <1>4 DEF k

LEMMA DayType == ASSUME NEW t \in Nat PROVE Day(t) \in Nat
<1> DEFINE n == DaySeconds
<1>1. n \in Nat /\ n > 0
  BY DaySecondsType
<1> HIDE DEF n
<1>2. t \div n \in Nat
  BY <1>1
<1> QED BY <1>2 DEF Day, n

\* A job that runs a little late still runs on the day its minute began.
LEMMA SameDay ==
  ASSUME NEW k \in Nat, NEW d \in 0..30 PROVE Day(k * 60 + d) = Day(k * 60)
<1> DEFINE q == k \div DayMinutes
           n == DaySeconds
<1>1. q \in Nat /\ DayMinutes * q <= k /\ k < DayMinutes * q + DayMinutes
  OBVIOUS
<1>2. n = DayMinutes * 60 /\ n \in Nat /\ n > 0
  BY DEF DaySeconds
<1>3. n * q = (DayMinutes * q) * 60
  BY <1>1, <1>2
<1> DEFINE p == DayMinutes * q
           m == n * q
<1>4. p \in Nat /\ m = p * 60 /\ p <= k /\ k < p + DayMinutes
  BY <1>1, <1>3
<1> HIDE DEF p, m, q, n
<1>5. m <= k * 60 /\ k * 60 + d < m + n
  BY <1>2, <1>4
<1>6. k * 60 \in Nat /\ k * 60 + d \in Nat /\ m <= k * 60 + d /\ k * 60 < m + n
  BY <1>2, <1>4, <1>5
<1>7. (k * 60) \div n = q /\ (k * 60 + d) \div n = q
  BY <1>1, <1>2, <1>5, <1>6, QuotientUnique DEF m
<1> QED BY <1>7 DEF Day, n

\* So that it finds the start, the trigger and the days of the minute it is the job of.
LEMMA SameStart ==
  ASSUME NEW m, NEW c, NEW k \in Nat, NEW d \in 0..30, NEW w
  PROVE  /\ StartAt(m, k * 60 + d) = StartAt(m, k * 60)
         /\ TriggerAt(m, c, k * 60 + d) = TriggerAt(m, c, k * 60)
         /\ Takes(m, k * 60 + d, w) <=> Takes(m, k * 60, w)
<1> DEFINE then == k * 60 + d
           full == k * 60
<1>1. Day(then) = Day(full)
  BY SameDay
<1> HIDE DEF then, full
<1>2. StartAt(m, then) = StartAt(m, full)
  BY <1>1 DEF StartAt
<1>3. TriggerAt(m, c, then) = TriggerAt(m, c, full)
  BY <1>2 DEF TriggerAt
<1>4. Takes(m, then, w) <=> Takes(m, full, w)
  BY <1>1 DEF Takes
<1> QED BY <1>2, <1>3, <1>4 DEF then, full

LEMMA TimesType ==
  ASSUME NEW m \in Meetings, NEW c \in Config, NEW t \in Nat
  PROVE  StartAt(m, t) \in Nat /\ TriggerAt(m, c, t) \in Int
<1>1. Day(t) \in Nat /\ DaySeconds \in Nat
  BY DayType, DaySecondsType
<1>2. m.date \in Nat /\ m.at \in Nat /\ c.before \in Nat
  BY DEF Meeting, Config
<1>3. StartAt(m, t) \in Nat
  <2> DEFINE x == Day(t)
             y == DaySeconds
  <2>1. x \in Nat /\ y \in Nat
    BY <1>1
  <2> HIDE DEF x, y
  <2>2. x * y + m.at \in Nat
    BY <1>2, <2>1
  <2> QED BY <1>2, <2>2 DEF StartAt, x, y
<1> QED BY <1>2, <1>3 DEF TriggerAt

\* The retries of a trigger are whole minutes after it, and apart from each other.
LEMMA RetriesApart ==
  ASSUME NEW c \in Config, NEW base \in Int, NEW a \in Nat
  PROVE  /\ RetryAt(base, c, a) \in Int
         /\ RetryAt(base, c, 0) = base
         /\ base % 60 = 0 => \E j \in Int : RetryAt(base, c, a) = j * 60
         /\ \A b \in Nat : b < a => RetryAt(base, c, b) + 60 <= RetryAt(base, c, a)
<1>1. c.every \in Nat /\ c.every >= 1
  BY DEF Config
<1> DEFINE e == c.every
<1>2. e \in Nat /\ e >= 1
  BY <1>1
<1> HIDE DEF e
<1>3. \A b \in Nat : RetryAt(base, c, b) = base + (b * e) * 60 /\ b * e \in Nat
  BY <1>2 DEF RetryAt, e
<1>4. base % 60 = 0 => \E j \in Int : RetryAt(base, c, a) = j * 60
  <2> SUFFICES ASSUME base % 60 = 0 PROVE \E j \in Int : RetryAt(base, c, a) = j * 60
    OBVIOUS
  <2> DEFINE q == base \div 60
             x == a * e
  <2>1. q \in Int /\ base = q * 60 /\ x \in Nat /\ RetryAt(base, c, a) = base + x * 60
    BY <1>3
  <2> HIDE DEF q, x
  <2>2. RetryAt(base, c, a) = (q + x) * 60 /\ q + x \in Int
    BY <2>1
  <2> QED BY <2>2
<1>5. ASSUME NEW b \in Nat, b < a PROVE RetryAt(base, c, b) + 60 <= RetryAt(base, c, a)
  <2>1. b * e + 1 <= a * e
    <3>1. PICK n \in Nat : a = b + 1 + n
      <4>1. a - b - 1 \in Nat /\ a = b + 1 + (a - b - 1)
        BY <1>5
      <4> QED BY <4>1
    <3>2. a * e = b * e + e + n * e /\ n * e \in Nat /\ b * e \in Nat
      BY <1>2, <3>1
    <3> QED BY <1>2, <3>2
  <2> DEFINE x == b * e
             y == a * e
  <2>2. x \in Nat /\ y \in Nat /\ x + 1 <= y /\ RetryAt(base, c, b) = base + x * 60
        /\ RetryAt(base, c, a) = base + y * 60
    BY <1>3, <2>1
  <2> HIDE DEF x, y
  <2> QED BY <2>2
<1>6. RetryAt(base, c, 0) = base
  BY <1>2 DEF RetryAt, e
<1> QED BY <1>3, <1>4, <1>5, <1>6

\* The window of a late job holds the full minute it belongs to, and no other.
LEMMA WindowOfMinute ==
  ASSUME NEW k \in Nat, NEW d \in 0..30
  PROVE  /\ InWindow(k * 60, k * 60 + d)
         /\ \A j \in Int : InWindow(j * 60, k * 60 + d) => j = k
         /\ \A x, y \in Int : x + 60 <= y
              => ~(InWindow(x, k * 60 + d) /\ InWindow(y, k * 60 + d))
BY DEF InWindow

-----------------------------------------------------------------------------
(* The calls before a meeting: types.                                      *)

Seat == [status: {"pending", "accepted", "declined"}, token: BOOLEAN, row: 1..MaxPeople]
Upserts == [op: {"upsert"}, first: BOOLEAN, new: Config, known: BOOLEAN]
Invites == [op: {"invite"}, who: SUBSET Users]
Replies == [op: {"answer"}, user: Users, token: BOOLEAN, new: Seat]
CallRequest == {Nothing} \cup Upserts \cup Invites \cup Replies

Reads == [op: {"read"}, attempt: Nat, base: Int, start: Nat, version: Nat, valid: BOOLEAN]
Rounds == [op: {"call"}, attempt: Nat, base: Int, start: Nat, version: Nat, valid: BOOLEAN,
           who: SUBSET Users]
CallRun == {Nothing, [op |-> "retry"]} \cup Reads \cup Rounds

ConfigTypes ==
  /\ meeting \in Meetings
  /\ config = NoConfig \/ config \in Config
  /\ version \in Nat /\ whole \in BOOLEAN
  /\ request \in [Requests -> CallRequest]

SeatTypes ==
  /\ made \in 0..MaxPeople
  /\ part \in [Users -> {NoRow} \cup Seat]
  /\ out \subseteq Users /\ spent \subseteq Users \X (1..MaxPeople)

PeopleTypes ==
  /\ away \subseteq Users \X (0..Day(LastMinute * 60))
  /\ present \subseteq Users /\ late \subseteq Users
  /\ declined \in [Users -> Nat \cup {Never}]
  /\ \A u \in Users : declined[u] <= now
  /\ refused \subseteq Users \X Int

JobTypes ==
  /\ minute \in 0..LastMinute + 1 /\ now \in Nat /\ steady \in Nat
  /\ run \in CallRun /\ (run # Nothing => minute <= LastMinute)
  /\ calls \subseteq Call /\ \A c \in calls : c.at <= now
  /\ changes \in 0..MaxChanges

AutoTypes == ConfigTypes /\ SeatTypes /\ PeopleTypes /\ JobTypes

LEMMA AutoTypesInit == AutoCallInit => AutoTypes
<1> SUFFICES ASSUME AutoCallInit PROVE AutoTypes
  OBVIOUS
<1>1. ConfigTypes
  BY DEF AutoCallInit, ConfigTypes, CallRequest
<1>2. SeatTypes
  BY DEF AutoCallInit, SeatTypes
<1>3. PeopleTypes
  BY DEF AutoCallInit, PeopleTypes, Never
<1>4. JobTypes
  BY DEF AutoCallInit, JobTypes, CallRun, Nothing
<1> QED BY <1>1, <1>2, <1>3, <1>4 DEF AutoTypes

\* A change gives each field a value of its column, so that what is stored is a configuration.
LEMMA NewConfigType ==
  ASSUME NEW c \in Changes, NEW old \in Config
  PROVE  [f \in Fields |-> Given(c, f, old[f])] \in Config
<1> DEFINE given == [f \in Fields |-> Given(c, f, Defaults[f])]
           new == [f \in Fields |-> Given(c, f, old[f])]
<1>1. Fields = {"before", "count", "every", "enabled", "weekdays"}
  BY DEF Fields, Defaults
<1>2. given \in Config
  OBVIOUS
<1>3. \A f \in Fields : given[f] = Given(c, f, Defaults[f]) /\ new[f] = Given(c, f, old[f])
  OBVIOUS
<1>4. \A f \in Fields : new[f] = given[f] \/ new[f] = old[f]
  BY <1>3 DEF Given
<1>5. DOMAIN new = Fields
  OBVIOUS
<1>6. new = [f \in Fields |-> new[f]]
  OBVIOUS
<1> HIDE DEF given, new
<1>7. /\ new["before"] \in Nat /\ new["count"] \in Nat /\ new["every"] \in Nat \ {0}
      /\ new["enabled"] \in BOOLEAN /\ new["weekdays"] \in BOOLEAN
  BY <1>1, <1>2, <1>4 DEF Config
<1>8. new \in Config
  BY <1>1, <1>6, <1>7 DEF Config
<1> QED BY <1>8 DEF new

LEMMA UpsertRequestType ==
  ASSUME ConfigTypes, NEW r \in Requests, NEW c \in Changes, UpsertFind(r, c)
  PROVE  request' \in [Requests -> CallRequest]
<1> DEFINE first == config = NoConfig
           new == [f \in Fields |-> Given(c, f, IF first THEN Defaults[f] ELSE config[f])]
           known == ~first \/ {"before", "count", "every"} \subseteq DOMAIN c
           q == [op |-> "upsert", first |-> first, new |-> new, known |-> known]
<1>1. new \in Config
  <2>1. CASE config = NoConfig
    BY <2>1
  <2>2. CASE config # NoConfig
    <3>1. config \in Config
      BY <2>2 DEF ConfigTypes
    <3> QED BY <2>2, <3>1, NewConfigType
  <2> QED BY <2>1, <2>2
<1>2. request' \in {request, [request EXCEPT ![r] = q]}
  BY DEF UpsertFind
<1>3. first \in BOOLEAN /\ known \in BOOLEAN
  OBVIOUS
<1> HIDE DEF first, new, known
<1>4. q \in CallRequest
  BY <1>1, <1>3 DEF CallRequest, Upserts
<1> HIDE DEF q
<1> QED BY <1>2, <1>4 DEF ConfigTypes

LEMMA ConfigTypesStep ==
  ASSUME AutoTypes, [AutoCallNext]_autoCallVars PROVE ConfigTypes'
<1>0. ConfigTypes /\ SeatTypes
  BY DEF AutoTypes
<1> USE DEF ConfigTypes
<1>1. ASSUME NEW r \in Requests, NEW c \in Changes, UpsertFind(r, c) PROVE ConfigTypes'
  BY <1>0, <1>1, UpsertRequestType DEF UpsertFind
<1>2. \A r \in Requests : request[r] \in CallRequest
  BY <1>0
<1>3. Nothing \in CallRequest
  BY DEF CallRequest
<1>4. ASSUME NEW r \in Requests, UpsertSave(r) PROVE ConfigTypes'
  <2>1. request[r].new \in Config /\ request[r].known \in BOOLEAN
    BY <1>2, <1>4 DEF UpsertSave, CallRequest, Nothing, Upserts, Invites, Replies
  <2>2. request' \in [Requests -> CallRequest]
    BY <1>0, <1>3, <1>4 DEF UpsertSave
  <2> QED BY <1>0, <1>4, <2>1, <2>2 DEF UpsertSave
<1>5. ASSUME NEW r \in Requests, NEW who \in SUBSET Users, InviteFind(r, who)
      PROVE  ConfigTypes'
  <2>1. [op |-> "invite", who |-> {u \in who : part[u] = NoRow}] \in CallRequest
    BY DEF CallRequest, Invites
  <2> QED BY <1>0, <1>5, <2>1 DEF InviteFind
<1>6. ASSUME NEW r \in Requests, NEW u \in Users, NEW token \in BOOLEAN,
             NEW status \in {"accepted", "declined"}, AnswerFind(r, u, token, status)
      PROVE  ConfigTypes'
  <2>1. part[u] \in Seat
    BY <1>0, <1>6 DEF AnswerFind, SeatTypes
  <2>2. Answered(u, token, status) \in Seat
    BY <2>1 DEF Answered, Seat
  <2>3. [op |-> "answer", user |-> u, token |-> token, new |-> Answered(u, token, status)]
          \in CallRequest
    BY <2>2 DEF CallRequest, Replies
  <2> QED BY <1>0, <1>6, <2>3 DEF AnswerFind
<1>7. ASSUME NEW r \in Requests, InviteSave(r) \/ AnswerSave(r) PROVE ConfigTypes'
  BY <1>0, <1>3, <1>7 DEF InviteSave, AnswerSave
<1>8. CASE Down
  <2>1. request' \in [Requests -> CallRequest]
    BY <1>3, <1>8 DEF Down
  <2> QED BY <1>0, <1>8, <2>1 DEF Down
<1>9. CASE UNCHANGED <<meeting, config, version, whole, request>>
  BY <1>0, <1>9
<1> QED
  BY <1>1, <1>4, <1>5, <1>6, <1>7, <1>8, <1>9
     DEF AutoCallNext, Remove, ApproveLeave, JoinOrLeave, Decline, Accept, FindFirst,
         FindRetries, ReadPeople, Fire, CronSame, autoCallVars

LEMMA SeatTypesStep ==
  ASSUME AutoTypes, [AutoCallNext]_autoCallVars PROVE SeatTypes'
<1>0. ConfigTypes /\ SeatTypes
  BY DEF AutoTypes
<1> USE DEF SeatTypes
<1>1. ASSUME NEW r \in Requests, InviteSave(r) PROVE SeatTypes'
  <2>1. CASE \E u \in request[r].who : part[u] # NoRow
    BY <1>0, <1>1, <2>1 DEF InviteSave, rowVars
  <2>2. CASE ~\E u \in request[r].who : part[u] # NoRow
    <3>1. made + 1 \in 1..MaxPeople /\ made' = made + 1
      BY <1>0, <1>1, <2>2 DEF InviteSave
    <3>2. [status |-> "pending", token |-> TRUE, row |-> made + 1] \in Seat
      BY <3>1 DEF Seat
    <3>3. part' \in [Users -> {NoRow} \cup Seat]
      BY <1>0, <1>1, <2>2, <3>2 DEF InviteSave
    <3> QED BY <1>0, <1>1, <2>2, <3>1, <3>3 DEF InviteSave
  <2> QED BY <2>1, <2>2
<1>2. ASSUME NEW r \in Requests, AnswerSave(r) PROVE SeatTypes'
  <2>1. request[r] \in Replies
    BY <1>0, <1>2 DEF AnswerSave, ConfigTypes, CallRequest, Nothing, Upserts, Invites, Replies
  <2>2. request[r].user \in Users /\ request[r].new \in Seat /\ request[r].new.row \in 1..MaxPeople
    BY <2>1 DEF Replies, Seat
  <2>3. part' \in [Users -> {NoRow} \cup Seat]
    BY <1>0, <1>2, <2>2 DEF AnswerSave
  <2>4. spent' \subseteq Users \X (1..MaxPeople)
    BY <1>0, <1>2, <2>2 DEF AnswerSave
  <2> QED BY <1>0, <1>2, <2>3, <2>4 DEF AnswerSave
<1>3. ASSUME NEW u \in Users, Remove(u) PROVE SeatTypes'
  BY <1>0, <1>3 DEF Remove
<1>4. CASE UNCHANGED <<part, made, out, spent>>
  BY <1>0, <1>4
<1> QED
  BY <1>1, <1>2, <1>3, <1>4
     DEF AutoCallNext, UpsertFind, UpsertSave, InviteFind, AnswerFind, ApproveLeave,
         JoinOrLeave, Decline, Accept, FindFirst, FindRetries, ReadPeople, Fire, CronSame,
         Down, autoCallVars, rowVars

\* Of a user called at all, there is a last call.
LEMMA LastCallType ==
  ASSUME JobTypes, NEW u \in Users, \E c \in calls : c.user = u
  PROVE  LastCall(u) \in calls /\ LastCall(u).user = u
<1> DEFINE T == {k \in 0..now : \E c \in calls : c.user = u /\ c.at = now - k}
<1>1. now \in Nat /\ \A c \in calls : c.at \in Nat /\ c.at <= now
  BY DEF JobTypes, Call
<1>2. T \subseteq Nat
  BY <1>1
<1>3. \A c \in calls : c.user = u => now - c.at \in T
  <2> SUFFICES ASSUME NEW c \in calls, c.user = u PROVE now - c.at \in T
    OBVIOUS
  <2>1. now - c.at \in 0..now /\ c.at = now - (now - c.at)
    BY <1>1
  <2> QED BY <2>1
<1>4. T # {}
  BY <1>3
<1>5. \A k \in T : k \in Nat /\ \E c \in calls : c.user = u /\ c.at = now - k
  BY <1>1
<1> HIDE DEF T
<1>6. PICK k \in T : \A l \in T : k <= l
  BY <1>2, <1>4, LeastOfNats
<1>7. PICK c \in calls : c.user = u /\ c.at = now - k
  BY <1>5
<1>8. \A d \in calls : d.user = u => d.at <= c.at
  BY <1>1, <1>3, <1>5, <1>6, <1>7
<1>9. \E e \in calls : e.user = u /\ \A d \in calls : d.user = u => d.at <= e.at
  BY <1>7, <1>8
<1> QED BY <1>9 DEF LastCall

LEMMA PeopleTypesStep ==
  ASSUME AutoTypes, [AutoCallNext]_autoCallVars PROVE PeopleTypes'
<1>0. PeopleTypes /\ JobTypes
  BY DEF AutoTypes
<1> USE DEF PeopleTypes
<1>1. now \in Nat /\ (now' = now \/ (now' \in Nat /\ now <= now'))
  <2>1. minute \in Nat /\ now \in Nat /\ minute * 60 \in Nat
    BY <1>0 DEF JobTypes
  <2>2. ASSUME NEW delay \in Delays, FindFirst(delay) \/ FindRetries(delay)
        PROVE  now' \in Nat /\ now <= now'
    BY <2>1, <2>2 DEF FindFirst, FindRetries
  <2>3. CASE ReadPeople \/ Fire \/ Down \/ UNCHANGED cronVars
    BY <2>1, <2>3 DEF ReadPeople, Fire, Down, cronVars
  <2> QED
    BY <2>1, <2>2, <2>3
       DEF AutoCallNext, UpsertFind, UpsertSave, InviteFind, InviteSave, AnswerFind,
           AnswerSave, Remove, ApproveLeave, JoinOrLeave, Decline, Accept, autoCallVars,
           cronVars
<1>2. ASSUME NEW u \in Users, Decline(u) PROVE PeopleTypes'
  <2>1. PICK c \in calls : c.user = u
    BY <1>2 DEF Decline
  <2>2. LastCall(u).base \in Int
    BY <1>0, <2>1, LastCallType DEF JobTypes, Call
  <2>3. refused' \subseteq Users \X Int
    BY <1>0, <1>2, <2>2 DEF Decline
  <2>4. now' = now
    BY <1>2 DEF Decline, cronVars
  <2> QED BY <1>0, <1>1, <1>2, <2>3, <2>4 DEF Decline
<1>3. ASSUME NEW u \in Users, Accept(u) PROVE PeopleTypes'
  BY <1>0, <1>1, <1>3 DEF Accept, cronVars, Never
<1>4. ASSUME NEW u \in Users, NEW d \in 0..Day(LastMinute * 60), ApproveLeave(u, d)
      PROVE  PeopleTypes'
  BY <1>0, <1>4 DEF ApproveLeave, cronVars
<1>5. ASSUME NEW u \in Users, JoinOrLeave(u) PROVE PeopleTypes'
  BY <1>0, <1>5 DEF JoinOrLeave, cronVars
<1>6. ASSUME UNCHANGED <<away, declined, refused>>, late' \in {late, {}},
             present' \in {present, {}}
      PROVE  PeopleTypes'
  <2>1. \A u \in Users : declined'[u] <= now'
    BY <1>0, <1>1, <1>6 DEF Never
  <2> QED BY <1>0, <1>6, <2>1
<1> QED
  BY <1>2, <1>3, <1>4, <1>5, <1>6
     DEF AutoCallNext, UpsertFind, UpsertSave, InviteFind, InviteSave, AnswerFind,
         AnswerSave, Remove, FindFirst, FindRetries, ReadPeople, Fire, CronSame, Down,
         autoCallVars

LEMMA AimType ==
  ASSUME ConfigTypes, config \in Config, NEW a \in Nat, NEW t \in Nat PROVE Aim(a, t) \in CallRun
<1>1. StartAt(meeting, t) \in Nat /\ TriggerAt(meeting, config, t) \in Int
  BY TimesType DEF ConfigTypes
<1> QED BY <1>1 DEF ConfigTypes, Aim, CallRun, Reads

LEMMA AfterType == \A a : After(a) \in CallRun
BY DEF After, CallRun

LEMMA JobTypesStep ==
  ASSUME AutoTypes, [AutoCallNext]_autoCallVars PROVE JobTypes'
<1>0. ConfigTypes /\ JobTypes
  BY DEF AutoTypes
<1> USE DEF JobTypes
<1>1. /\ minute \in Nat /\ now \in Nat /\ \A delay \in Delays : minute * 60 + delay \in Nat
      /\ Nothing \in CallRun
  BY <1>0 DEF CallRun
<1>2. ASSUME NEW delay \in Delays, FindFirst(delay) PROVE JobTypes'
  <2>1. now' = minute * 60 + delay /\ now <= now' /\ now' \in Nat /\ minute <= LastMinute
    BY <1>1, <1>2 DEF FindFirst
  <2>2. run' \in CallRun
    <3>1. run' \in {Aim(0, now'), After(0)} /\ (run' = Aim(0, now') => Enabled \/ run' = After(0))
      BY <1>2 DEF FindFirst
    <3>2. Enabled => config \in Config
      BY <1>0 DEF ConfigTypes, Enabled
    <3> QED BY <1>0, <2>1, <3>1, <3>2, AimType, AfterType
  <2>3. \A c \in calls : c.at <= now'
    BY <1>0, <1>1, <2>1 DEF Call
  <2> QED BY <1>0, <1>2, <2>1, <2>2, <2>3 DEF FindFirst, CronSame
<1>3. ASSUME NEW delay \in Delays, FindRetries(delay) PROVE JobTypes'
  <2>1. /\ now' = minute * 60 + delay /\ now <= now' /\ now' \in Nat
        /\ minute <= LastMinute /\ calls' = calls
    BY <1>0, <1>1, <1>3 DEF FindRetries, Nothing
  <2>2. \A c \in calls : c.at <= now'
    BY <1>0, <1>1, <2>1 DEF Call
  <2> DEFINE due == Due(now', 1..config.count)
  <2>3. CASE Enabled /\ Takes(meeting, now', config.weekdays) /\ due # {}
    <3>1. config \in Config
      BY <1>0, <2>3 DEF ConfigTypes, Enabled
    <3>2. due \subseteq Nat
      BY <3>1 DEF Due, Config
    <3>3. run' = Aim(CHOOSE a \in due : TRUE, now') /\ minute' = minute
      BY <1>3, <2>3 DEF FindRetries
    <3> HIDE DEF due
    <3>4. (CHOOSE a \in due : TRUE) \in Nat
      BY <2>3, <3>2
    <3>5. run' \in CallRun
      BY <1>0, <2>1, <3>1, <3>3, <3>4, AimType
    <3> QED BY <1>0, <1>3, <2>1, <2>2, <3>3, <3>5 DEF FindRetries, CronSame
  <2>4. CASE ~(Enabled /\ Takes(meeting, now', config.weekdays) /\ due # {})
    <3>1. run' = Nothing /\ minute' = minute + 1
      BY <1>3, <2>4 DEF FindRetries
    <3> HIDE DEF due
    <3> QED BY <1>0, <1>1, <1>3, <2>1, <2>2, <3>1 DEF FindRetries, CronSame
  <2> QED BY <2>3, <2>4
<1>4. CASE ReadPeople
  <2>1. run \in Reads
    BY <1>0, <1>4 DEF ReadPeople, CallRun, Nothing, Reads, Rounds
  <2>2. Eligible(run.attempt, run.base) \subseteq Users
    BY DEF Eligible
  <2>3. run' \in CallRun
    BY <1>4, <2>1, <2>2 DEF ReadPeople, CallRun, Reads, Rounds
  <2>4. run # Nothing
    BY <1>4 DEF ReadPeople, Nothing
  <2> QED BY <1>0, <1>4, <2>3, <2>4 DEF ReadPeople, CronSame
<1>5. CASE Fire
  <2>1. run \in Rounds /\ run # Nothing
    BY <1>0, <1>5 DEF Fire, CallRun, Nothing, Reads, Rounds
  <2>2. Called \subseteq Users
    BY <2>1 DEF Called, Rounds
  <2>3. ASSUME NEW u \in Called
        PROVE  [user |-> u, attempt |-> run.attempt, base |-> run.base, start |-> run.start,
                version |-> run.version, valid |-> run.valid, at |-> now] \in Call
    BY <1>0, <2>1, <2>2 DEF Rounds, Call
  <2>4. calls' \subseteq Call /\ \A c \in calls' : c.at <= now'
    BY <1>0, <1>1, <1>5, <2>3 DEF Fire
  <2>5. run' \in CallRun /\ run' = After(run.attempt)
    BY <1>5, AfterType DEF Fire
  <2>6. minute' = (IF run.attempt = 0 THEN minute ELSE minute + 1) /\ minute <= LastMinute
    BY <1>0, <1>5, <2>1 DEF Fire
  <2>7. run' # Nothing => minute' = minute
    BY <2>5, <2>6 DEF After
  <2> QED BY <1>0, <1>1, <1>5, <2>4, <2>5, <2>6, <2>7 DEF Fire, CronSame
<1>6. CASE Down
  <2>1. minute' = minute + 1 /\ minute <= LastMinute /\ steady' = minute + 1 /\ run' = Nothing
    BY <1>6 DEF Down
  <2>2. changes' \in 0..MaxChanges
    BY <1>0, <1>6 DEF Down, Event
  <2> QED BY <1>0, <1>1, <1>6, <2>1, <2>2 DEF Down
<1>7. ASSUME UNCHANGED cronVars, steady' = steady \/ Unsettle, Event \/ changes' = changes
      PROVE  JobTypes'
  <2>1. steady' \in Nat /\ changes' \in 0..MaxChanges
    BY <1>0, <1>1, <1>7 DEF Unsettle, Event
  <2> QED BY <1>0, <1>7, <2>1 DEF cronVars
<1>8. ASSUME NEW r \in Requests, UpsertSave(r) \/ InviteSave(r) \/ AnswerSave(r)
      PROVE  JobTypes'
  BY <1>7, <1>8 DEF UpsertSave, InviteSave, AnswerSave
<1>9. ASSUME NEW r \in Requests, NEW c \in Changes, UpsertFind(r, c) PROVE JobTypes'
  BY <1>7, <1>9 DEF UpsertFind
<1>10. ASSUME NEW r, NEW who, InviteFind(r, who) PROVE JobTypes'
  BY <1>7, <1>10 DEF InviteFind
<1>11. ASSUME NEW r, NEW u, NEW token, NEW status, AnswerFind(r, u, token, status)
       PROVE  JobTypes'
  BY <1>7, <1>11 DEF AnswerFind
<1>12. ASSUME NEW u \in Users, Remove(u) \/ JoinOrLeave(u) \/ Decline(u) \/ Accept(u)
       PROVE  JobTypes'
  BY <1>7, <1>12 DEF Remove, JoinOrLeave, Decline, Accept
<1>13. ASSUME NEW u, NEW d, ApproveLeave(u, d) PROVE JobTypes'
  BY <1>7, <1>13 DEF ApproveLeave
<1>14. CASE UNCHANGED autoCallVars
  BY <1>7, <1>14 DEF autoCallVars, cronVars
<1> QED
  BY <1>2, <1>3, <1>4, <1>5, <1>6, <1>8, <1>9, <1>10, <1>11, <1>12, <1>13, <1>14
     DEF AutoCallNext

LEMMA AutoTypesStep ==
  ASSUME AutoTypes, [AutoCallNext]_autoCallVars PROVE AutoTypes'
BY ConfigTypesStep, SeatTypesStep, PeopleTypesStep, JobTypesStep DEF AutoTypes

\* The configuration, the participants and the calls have their types: a call is always of
\* a trigger that was computed from a complete configuration.
THEOREM AutoCallTypeCorrect == AutoCallSpec => []AutoCallTypeOK
<1>1. AutoTypes => AutoCallTypeOK
  BY DEF AutoTypes, AutoCallTypeOK, ConfigTypes, SeatTypes, PeopleTypes, JobTypes, Seat
<1> QED BY <1>1, AutoTypesInit, AutoTypesStep, PTL DEF AutoCallSpec

-----------------------------------------------------------------------------
(* The calls before a meeting: answers settle.                             *)

Reply(r) == request[r].op = "answer"

\* Every row of a user was made by an invite of its own, and an answer bears the row it read.
RowsNumbered ==
  /\ \A u \in Users : part[u].row <= made
  /\ \A p \in spent : p[2] <= made
  /\ \A r \in Requests : Reply(r) => request[r].new.row <= made

\* A removed user stays removed because nobody has an answer of theirs to save.
OutStays ==
  \A u \in out : part[u] = NoRow /\ \A r \in Requests : Reply(r) => request[r].user # u

\* A spent token stays spent because no answer that knew it alive is still to be saved.
SpentStays ==
  /\ \A u \in Users : <<u, part[u].row>> \in spent => ~part[u].token
  /\ \A r \in Requests : Reply(r) =>
       /\ request[r].token => ~request[r].new.token
       /\ <<request[r].user, request[r].new.row>> \in spent => ~request[r].new.token

AnswersInv == RowsNumbered /\ OutStays /\ SpentStays

LEMMA AnswersInvInit == AutoCallInit => AnswersInv
BY DEF AutoCallInit, AnswersInv, RowsNumbered, OutStays, SpentStays, Reply, Nothing, NoRow

LEMMA AnswersInvStep ==
  ASSUME AutoTypes, AnswersInv, [AutoCallNext]_autoCallVars PROVE AnswersInv'
<1>0. /\ ConfigTypes /\ made \in Nat /\ part \in [Users -> {NoRow} \cup Seat]
      /\ spent \subseteq Users \X (1..MaxPeople) /\ out \subseteq Users
      /\ \A u \in Users : part[u].row \in Nat
      /\ NoRow.row = 0 /\ NoRow.token = FALSE
  BY DEF AutoTypes, SeatTypes, Seat, NoRow
<1>1. \A r \in Requests :
        Reply(r) => /\ request[r] \in Replies /\ request[r].user \in Users
                    /\ request[r].new \in Seat /\ request[r].new.row \in 1..MaxPeople
  BY <1>0 DEF ConfigTypes, CallRequest, Reply, Nothing, Upserts, Invites, Replies, Seat
<1>2. RowsNumbered /\ OutStays /\ SpentStays
  BY DEF AnswersInv
<1> USE DEF RowsNumbered, OutStays, SpentStays
<1>3. ASSUME UNCHANGED rowVars,
             \A r \in Requests : Reply(r)' => Reply(r) /\ request'[r] = request[r]
      PROVE  AnswersInv'
  BY <1>2, <1>3 DEF AnswersInv, rowVars
<1>4. ASSUME NEW r \in Requests, UNCHANGED rowVars, Reply(r)' => request' = request,
             \A s \in Requests \ {r} : request'[s] = request[s]
      PROVE  AnswersInv'
  <2>1. \A s \in Requests : Reply(s)' => Reply(s) /\ request'[s] = request[s]
    BY <1>4 DEF Reply
  <2> QED BY <1>3, <1>4, <2>1
<1>4a. ASSUME NEW r \in Requests, request' = [request EXCEPT ![r] = Nothing], UNCHANGED rowVars
       PROVE  AnswersInv'
  <2>1. request'[r] = Nothing /\ \A s \in Requests \ {r} : request'[s] = request[s]
    BY <1>0, <1>4a DEF ConfigTypes
  <2> QED BY <1>4, <1>4a, <2>1 DEF Reply, Nothing
<1>5. ASSUME NEW r \in Requests, NEW u \in Users, NEW token \in BOOLEAN,
             NEW status \in {"accepted", "declined"}, AnswerFind(r, u, token, status)
      PROVE  AnswersInv'
  <2> DEFINE q == [op |-> "answer", user |-> u, token |-> token,
                   new |-> Answered(u, token, status)]
  <2>1. /\ request' = [request EXCEPT ![r] = q] /\ UNCHANGED rowVars
        /\ part[u] # NoRow
    BY <1>5 DEF AnswerFind
  <2>2. /\ q.user = u /\ q.token = token /\ q.new.row = part[u].row
        /\ q.new.token = (part[u].token /\ ~token)
    BY DEF Answered
  <2> HIDE DEF q
  <2>3. request'[r] = q /\ \A s \in Requests \ {r} : request'[s] = request[s]
    BY <1>0, <2>1 DEF ConfigTypes
  <2>4. UNCHANGED <<part, made, out, spent>>
    BY <2>1 DEF rowVars
  <2>5. RowsNumbered'
    BY <1>2, <2>2, <2>3, <2>4 DEF Reply
  <2>6. u \notin out
    BY <1>2, <2>1
  <2>7. OutStays'
    BY <1>2, <2>2, <2>3, <2>4, <2>6 DEF Reply
  <2>8. SpentStays'
    BY <1>2, <2>2, <2>3, <2>4 DEF Reply
  <2> QED BY <2>5, <2>7, <2>8 DEF AnswersInv
<1>6. ASSUME NEW r \in Requests, InviteSave(r) PROVE AnswersInv'
  <2>1. request' = [request EXCEPT ![r] = Nothing]
    BY <1>6 DEF InviteSave
  <2>2. CASE UNCHANGED rowVars
    BY <1>4a, <2>1, <2>2
  <2>3. CASE ~UNCHANGED rowVars
    <3> DEFINE who == request[r].who
    <3>1. /\ made' = made + 1 /\ out' = out \ who /\ spent' = spent
          /\ \A u \in Users \cap who : part'[u].row = made + 1
          /\ \A u \in Users \ who : part'[u] = part[u]
      BY <1>6, <2>3 DEF InviteSave, rowVars
    <3>2. \A s \in Requests : Reply(s)' => Reply(s) /\ request'[s] = request[s]
      BY <1>0, <2>1 DEF Reply, Nothing, ConfigTypes
    <3> HIDE DEF who
    <3>3. RowsNumbered'
      BY <1>0, <1>1, <1>2, <3>1, <3>2
    <3>4. OutStays'
      BY <1>0, <1>2, <3>1, <3>2
    <3>5. \A u \in Users : <<u, made + 1>> \notin spent
      BY <1>0, <1>2
    <3>6. SpentStays'
      BY <1>0, <1>2, <3>1, <3>2, <3>5
    <3> QED BY <3>3, <3>4, <3>6 DEF AnswersInv
  <2> QED BY <2>2, <2>3
<1>7. ASSUME NEW r \in Requests, AnswerSave(r) PROVE AnswersInv'
  <2> DEFINE q == request[r]
  <2>1. /\ request' = [request EXCEPT ![r] = Nothing] /\ Reply(r)
        /\ q.user \in Users /\ q.new \in Seat /\ q.new.row \in 1..MaxPeople
    BY <1>1, <1>7 DEF AnswerSave, Reply
  <2>2. CASE part[q.user] # NoRow /\ part[q.user].row # q.new.row
    <3>1. UNCHANGED rowVars
      BY <1>7, <2>2 DEF AnswerSave, rowVars
    <3> QED BY <1>4a, <2>1, <3>1
  <2>3. CASE ~(part[q.user] # NoRow /\ part[q.user].row # q.new.row)
    <3> DEFINE v == q.user
               w == q.new
    <3>1. /\ made' = made /\ out' = out /\ part' = [part EXCEPT ![v] = w]
          /\ spent' = IF q.token /\ Answering(v) = {r} THEN spent \cup {<<v, w.row>>} ELSE spent
      BY <1>7, <2>3 DEF AnswerSave
    <3>2. \A s \in Requests : Reply(s)' => s # r /\ Reply(s) /\ request'[s] = request[s]
      BY <1>0, <2>1 DEF Reply, Nothing, ConfigTypes
    <3>3. part'[v] = w /\ \A u \in Users \ {v} : part'[u] = part[u]
      BY <1>0, <2>1, <3>1
    <3>4. /\ v \in Users /\ v \notin out /\ w.row <= made /\ w.row \in Nat
          /\ q.token => ~w.token
          /\ <<v, w.row>> \in spent => ~w.token
      BY <1>2, <2>1
    <3>5. ASSUME q.token, Answering(v) = {r}
          PROVE  \A s \in Requests \ {r} : Reply(s) => request[s].user # v
      BY <3>5 DEF Answering, Reply
    <3> HIDE DEF v, w
    <3>6. RowsNumbered'
      BY <1>0, <1>2, <3>1, <3>2, <3>3, <3>4
    <3>7. OutStays'
      BY <1>2, <3>1, <3>2, <3>3, <3>4
    <3>8. SpentStays'
      <4>1. CASE q.token /\ Answering(v) = {r}
        <5>1. spent' = spent \cup {<<v, w.row>>}
          BY <3>1, <4>1
        <5> QED BY <1>2, <3>2, <3>3, <3>4, <3>5, <4>1, <5>1
      <4>2. CASE ~(q.token /\ Answering(v) = {r})
        <5>1. spent' = spent
          BY <3>1, <4>2
        <5> QED BY <1>2, <3>2, <3>3, <3>4, <5>1
      <4> QED BY <4>1, <4>2
    <3> QED BY <3>6, <3>7, <3>8 DEF AnswersInv
  <2> QED BY <2>2, <2>3
<1>8. ASSUME NEW u \in Users, Remove(u) PROVE AnswersInv'
  <2>1. /\ part' = [part EXCEPT ![u] = NoRow] /\ UNCHANGED <<made, spent, request>>
        /\ out' = IF Answering(u) = {} THEN out \cup {u} ELSE out
    BY <1>8 DEF Remove
  <2>2. part'[u] = NoRow /\ \A v \in Users \ {u} : part'[v] = part[v]
    BY <1>0, <2>1
  <2>3. Answering(u) = {} => \A r \in Requests : Reply(r) => request[r].user # u
    BY DEF Answering, Reply
  <2>4. OutStays'
    BY <1>0, <1>2, <2>1, <2>2, <2>3 DEF Reply
  <2>5. RowsNumbered' /\ SpentStays'
    BY <1>0, <1>2, <2>1, <2>2 DEF Reply
  <2> QED BY <2>4, <2>5 DEF AnswersInv
<1>9. ASSUME NEW r \in Requests, NEW c \in Changes, UpsertFind(r, c) PROVE AnswersInv'
  <2>1. UNCHANGED rowVars
    BY <1>9 DEF UpsertFind
  <2>2. (request'[r].op = "answer" => request' = request)
        /\ \A s \in Requests \ {r} : request'[s] = request[s]
    <3> DEFINE first == config = NoConfig
               new == [f \in Fields |-> Given(c, f, IF first THEN Defaults[f] ELSE config[f])]
               known == ~first \/ {"before", "count", "every"} \subseteq DOMAIN c
               q == [op |-> "upsert", first |-> first, new |-> new, known |-> known]
    <3>1. request' \in {request, [request EXCEPT ![r] = q]}
      BY <1>9 DEF UpsertFind
    <3>2. q.op = "upsert"
      OBVIOUS
    <3> HIDE DEF q
    <3> QED BY <1>0, <3>1, <3>2 DEF ConfigTypes
  <2> QED BY <1>4, <2>1, <2>2 DEF Reply
<1>10. ASSUME NEW r \in Requests, UpsertSave(r) PROVE AnswersInv'
  <2>1. request' = [request EXCEPT ![r] = Nothing] /\ UNCHANGED rowVars
    BY <1>10 DEF UpsertSave
  <2> QED BY <1>4a, <2>1
<1>11. ASSUME NEW r \in Requests, NEW who \in SUBSET Users, InviteFind(r, who)
       PROVE  AnswersInv'
  <2>1. UNCHANGED rowVars /\ request' = [request EXCEPT ![r] =
            [op |-> "invite", who |-> {u \in who : part[u] = NoRow}]]
    BY <1>11 DEF InviteFind
  <2>2. request'[r].op # "answer" /\ \A s \in Requests \ {r} : request'[s] = request[s]
    BY <1>0, <2>1 DEF ConfigTypes
  <2> QED BY <1>4, <2>1, <2>2 DEF Reply
<1>12. CASE Down
  <2>1. UNCHANGED rowVars /\ request' = [r \in Requests |-> Nothing]
    BY <1>12 DEF Down
  <2> QED BY <1>3, <2>1 DEF Reply, Nothing
<1>13. CASE UNCHANGED <<rowVars, request>>
  BY <1>3, <1>13 DEF Reply
<1>14. ASSUME NEW u \in Users, JoinOrLeave(u) \/ Decline(u) \/ Accept(u) PROVE AnswersInv'
  BY <1>13, <1>14 DEF JoinOrLeave, Decline, Accept
<1>15. ASSUME NEW u, NEW d, ApproveLeave(u, d) PROVE AnswersInv'
  BY <1>13, <1>15 DEF ApproveLeave
<1>16. ASSUME NEW delay, FindFirst(delay) \/ FindRetries(delay) PROVE AnswersInv'
  BY <1>13, <1>16 DEF FindFirst, FindRetries, CronSame
<1>17. CASE ReadPeople \/ Fire
  BY <1>13, <1>17 DEF ReadPeople, Fire, CronSame
<1>18. CASE UNCHANGED autoCallVars
  BY <1>13, <1>18 DEF autoCallVars, rowVars
<1> QED
  BY <1>5, <1>6, <1>7, <1>8, <1>9, <1>10, <1>11, <1>12, <1>14, <1>15, <1>16, <1>17, <1>18
     DEF AutoCallNext

\* However invites, answers and removals of one user overlap, a removed user without an
\* answer in flight stays removed, and a used token stays used
\* (meeting-scheduled-participants.service.ts, lines 110-320).
THEOREM AnswersSettleCorrect == AutoCallSpec => []AnswersSettle
<1>1. AnswersInv /\ AutoTypes => AnswersSettle
  BY DEF AnswersInv, OutStays, SpentStays, AnswersSettle
<1> QED
  BY <1>1, AutoTypesInit, AutoTypesStep, AnswersInvInit, AnswersInvStep, PTL DEF AutoCallSpec

-----------------------------------------------------------------------------
(* The calls before a meeting: nobody gets the same call twice.            *)

Aimed == run.op \in {"read", "call"}

\* The first calls of the minute are behind the job.
FirstDone == run # Nothing /\ ~(Aimed /\ run.attempt = 0)

\* The job finds, reads and calls within the half minute after its minute began; calls are
\* of earlier minutes, or the first calls of this one.
InMinute ==
  /\ Aimed => \E d \in 0..30 : now = minute * 60 + d
  /\ \A c \in calls : \E k \in 0..minute, d \in 0..30 :
       c.at = k * 60 + d /\ (k = minute => c.attempt = 0 /\ FirstDone)

\* A call lies in the window of the retry it is for, by the configuration it was found
\* under: the present one, unless that was changed since.
InTime ==
  /\ \A c \in calls :
       /\ c.version <= version
       /\ c.version = version =>
            config \in Config /\ InWindow(RetryAt(c.base, config, c.attempt), c.at)
  /\ Aimed =>
       /\ run.version <= version
       /\ run.version = version =>
            config \in Config /\ InWindow(RetryAt(run.base, config, run.attempt), now)

\* What the job is about to call was not called yet.
Fresh ==
  Aimed /\ run.base % 60 = 0 =>
    \A c \in calls :
      ~(c.base = run.base /\ c.attempt = run.attempt /\ c.version = run.version)

CallsInv == InMinute /\ InTime /\ Fresh /\ CalledOnce

LEMMA CallsInvInit == AutoCallInit => CallsInv
BY DEF AutoCallInit, CallsInv, InMinute, InTime, Fresh, CalledOnce, Aimed, FirstDone, Nothing

\* What a round finds in the window of its minute no earlier round found in its own.
LEMMA NotBefore ==
  ASSUME AutoTypes, InMinute, InTime, config \in Config, NEW a \in Nat, NEW d \in 0..30,
         NEW base \in Int, base % 60 = 0,
         InWindow(RetryAt(base, config, a), minute * 60 + d),
         a = 0 => run = Nothing,
         NEW c \in calls, c.base = base, c.attempt = a
  PROVE  c.version # version
<1> SUFFICES ASSUME c.version = version PROVE FALSE
  OBVIOUS
<1>1. PICK k \in 0..minute, e \in 0..30 :
        c.at = k * 60 + e /\ (k = minute => c.attempt = 0 /\ FirstDone)
  BY DEF InMinute
<1>2. PICK j \in Int : RetryAt(base, config, a) = j * 60
  BY RetriesApart
<1>3. minute \in Nat /\ k \in Nat
  BY DEF AutoTypes, JobTypes
<1>4. j = minute
  BY <1>2, <1>3, WindowOfMinute
<1>5. InWindow(RetryAt(base, config, a), k * 60 + e)
  <2>1. InWindow(RetryAt(c.base, config, c.attempt), c.at)
    BY DEF InTime
  <2> QED BY <1>1, <2>1
<1>6. j = k
  <2>1. InWindow(j * 60, k * 60 + e)
    BY <1>2, <1>5
  <2>2. k \in Nat /\ e \in 0..30 /\ j \in Int
    BY <1>3
  <2> QED BY <2>1, <2>2, WindowOfMinute
<1> QED BY <1>1, <1>4, <1>6 DEF FirstDone

LEMMA RunFields ==
  ASSUME AutoTypes
  PROVE  /\ Aimed => /\ run.attempt \in Nat /\ run.base \in Int /\ run.start \in Nat
                     /\ run.version \in Nat /\ run.valid \in BOOLEAN /\ minute <= LastMinute
                     /\ run # Nothing
         /\ run.op = "call" => run.who \subseteq Users
         /\ minute \in Nat /\ now \in Nat /\ version \in Nat
BY DEF AutoTypes, ConfigTypes, JobTypes, CallRun, Reads, Rounds, Nothing, Aimed

\* A round begins: with the trigger, or with one of its retries.
LEMMA RoundBegins ==
  ASSUME AutoTypes, CallsInv, NEW a \in Nat, NEW d \in 0..30, config \in Config,
         run = Nothing \/ (run.op = "retry" /\ a > 0),
         now' = minute * 60 + d, run' = Aim(a, now'),
         InWindow(RetryAt(TriggerAt(meeting, config, now'), config, a), now'),
         UNCHANGED <<minute, calls, config, version, meeting>>
  PROVE  CallsInv'
<1> DEFINE base == TriggerAt(meeting, config, now')
<1>1. InMinute /\ InTime /\ CalledOnce
  BY DEF CallsInv
<1>2. minute \in Nat /\ version \in Nat /\ now' \in Nat
  BY RunFields
<1>3. base \in Int
  BY <1>2, TimesType DEF AutoTypes, ConfigTypes
<1>4. /\ run'.op = "read" /\ run'.attempt = a /\ run'.base = base /\ run'.version = version
      /\ run' # Nothing
  BY DEF Aim, Nothing
<1> HIDE DEF base
<1>5. a = 0 => run = Nothing
  OBVIOUS
<1>6. InMinute'
  <2>1. \A c \in calls : \E k \in 0..minute, e \in 0..30 :
          c.at = k * 60 + e /\ (k = minute => c.attempt = 0 /\ FirstDone)
    BY <1>1 DEF InMinute
  <2>2. FirstDone => FirstDone'
    BY <1>4, <1>5 DEF FirstDone, Aimed
  <2>3. \A c \in calls' : \E k \in 0..minute', e \in 0..30 :
          c.at = k * 60 + e /\ (k = minute' => c.attempt = 0 /\ FirstDone')
    BY <2>1, <2>2
  <2>4. \E e \in 0..30 : now' = minute' * 60 + e
    OBVIOUS
  <2> QED BY <2>3, <2>4 DEF InMinute
<1>7. InTime'
  <2>1. InWindow(RetryAt(base, config, a), now')
    BY DEF base
  <2> QED BY <1>1, <1>2, <1>4, <2>1 DEF InTime, Aimed
<1>8. Fresh'
  <2> SUFFICES ASSUME base % 60 = 0, NEW c \in calls, c.base = base, c.attempt = a
               PROVE  c.version # version
    BY <1>4 DEF Fresh
  <2>1. InWindow(RetryAt(base, config, a), minute * 60 + d)
    BY DEF base
  <2> QED BY <1>1, <1>3, <1>5, <2>1, NotBefore
<1>9. CalledOnce'
  BY <1>1 DEF CalledOnce
<1> QED BY <1>6, <1>7, <1>8, <1>9 DEF CallsInv

\* The calls are made, or the job goes on to the next minute without any.
LEMMA FireStep == ASSUME AutoTypes, CallsInv, Fire PROVE CallsInv'
<1> DEFINE new(u) == [user |-> u, attempt |-> run.attempt, base |-> run.base,
                      start |-> run.start, version |-> run.version, valid |-> run.valid,
                      at |-> now]
<1>1. InMinute /\ InTime /\ Fresh /\ CalledOnce
  BY DEF CallsInv
<1>2. Aimed
  BY DEF Fire, Aimed
<1>3. /\ minute \in Nat /\ now \in Nat /\ version \in Nat /\ run.attempt \in Nat
      /\ run.base \in Int /\ run.version \in Nat /\ run # Nothing
  BY <1>2, RunFields
<1>4. /\ calls' = calls \cup {new(u) : u \in Called}
      /\ run' = After(run.attempt)
      /\ minute' = IF run.attempt = 0 THEN minute ELSE minute + 1
      /\ UNCHANGED <<now, config, version, meeting>>
  BY DEF Fire, CronSame
<1>5. \A u : /\ new(u).user = u /\ new(u).attempt = run.attempt /\ new(u).base = run.base
             /\ new(u).version = run.version /\ new(u).at = now
  OBVIOUS
<1>6. ~Aimed' /\ (run.attempt = 0 => FirstDone')
  BY <1>4 DEF After, Aimed, FirstDone, Nothing
<1>7. \A c \in calls' \ calls : \E u \in Called : c = new(u)
  BY <1>4
<1> HIDE DEF new
<1>8. InMinute'
  <2>1. PICK d \in 0..30 : now = minute * 60 + d
    BY <1>1, <1>2 DEF InMinute
  <2>2. minute' \in Nat /\ minute <= minute' /\ (run.attempt # 0 => minute < minute')
    BY <1>3, <1>4
  <2>3. ASSUME NEW c \in calls' \ calls
        PROVE  \E k \in 0..minute', e \in 0..30 :
                 c.at = k * 60 + e /\ (k = minute' => c.attempt = 0 /\ FirstDone')
    <3>1. c.at = minute * 60 + d /\ c.attempt = run.attempt
      BY <1>5, <1>7, <2>1
    <3>2. minute \in 0..minute' /\ (minute = minute' => run.attempt = 0)
      BY <1>3, <2>2
    <3> QED BY <1>6, <3>1, <3>2
  <2>4. ASSUME NEW c \in calls
        PROVE  \E k \in 0..minute', e \in 0..30 :
                 c.at = k * 60 + e /\ (k = minute' => c.attempt = 0 /\ FirstDone')
    <3>1. PICK k \in 0..minute, e \in 0..30 :
            c.at = k * 60 + e /\ (k = minute => c.attempt = 0 /\ FirstDone)
      BY <1>1 DEF InMinute
    <3>2. k \in 0..minute'
      BY <1>3, <2>2
    <3>3. k = minute' => c.attempt = 0 /\ FirstDone'
      BY <1>2, <1>3, <1>6, <2>2, <3>1 DEF FirstDone
    <3> QED BY <3>1, <3>2, <3>3
  <2>5. \A c \in calls' : \E k \in 0..minute', e \in 0..30 :
          c.at = k * 60 + e /\ (k = minute' => c.attempt = 0 /\ FirstDone')
    BY <1>4, <2>3, <2>4
  <2> QED BY <1>6, <2>5 DEF InMinute
<1>9. InTime'
  BY <1>1, <1>2, <1>4, <1>5, <1>6, <1>7 DEF InTime
<1>10. Fresh'
  BY <1>6 DEF Fresh
<1>11. CalledOnce'
  <2> SUFFICES ASSUME NEW c \in calls', NEW d \in calls',
                      c.user = d.user, c.base = d.base, c.attempt = d.attempt,
                      c.version = d.version, c.base % 60 = 0
               PROVE  c = d
    BY DEF CalledOnce
  <2>1. CASE c \in calls /\ d \in calls
    BY <1>1, <2>1 DEF CalledOnce
  <2>2. ASSUME NEW e \in calls, NEW f \in calls' \ calls, e.base = f.base,
               e.attempt = f.attempt, e.version = f.version, f.base % 60 = 0
        PROVE  FALSE
    <3>1. f.base = run.base /\ f.attempt = run.attempt /\ f.version = run.version
      BY <1>5, <1>7
    <3> QED BY <1>1, <1>2, <2>2, <3>1 DEF Fresh
  <2>3. CASE c \notin calls /\ d \notin calls
    <3>1. PICK u \in Called : c = new(u)
      BY <1>7, <2>3
    <3>2. PICK v \in Called : d = new(v)
      BY <1>7, <2>3
    <3> QED BY <1>5, <3>1, <3>2
  <2> QED BY <2>1, <2>2, <2>3
<1> QED BY <1>8, <1>9, <1>10, <1>11 DEF CallsInv

\* A round that ends without calls, in its minute or for good.
LEMMA RoundEnds ==
  ASSUME AutoTypes, CallsInv, ~Aimed', UNCHANGED <<calls, config, version, meeting>>,
         \/ minute' = minute + 1
         \/ minute' = minute /\ (FirstDone => FirstDone')
  PROVE  CallsInv'
<1>1. InMinute /\ InTime /\ CalledOnce /\ minute \in Nat
  BY RunFields DEF CallsInv
<1>2. InMinute'
  <2>1. ASSUME NEW c \in calls
        PROVE  \E k \in 0..minute', e \in 0..30 :
                 c.at = k * 60 + e /\ (k = minute' => c.attempt = 0 /\ FirstDone')
    <3>1. PICK k \in 0..minute, e \in 0..30 :
            c.at = k * 60 + e /\ (k = minute => c.attempt = 0 /\ FirstDone)
      BY <1>1 DEF InMinute
    <3>2. k \in 0..minute' /\ (k = minute' => c.attempt = 0 /\ FirstDone')
      BY <1>1, <3>1
    <3> QED BY <3>1, <3>2
  <2> QED BY <2>1 DEF InMinute
<1>3. InTime' /\ Fresh'
  BY <1>1 DEF InTime, Fresh
<1>4. CalledOnce'
  BY <1>1 DEF CalledOnce
<1> QED BY <1>2, <1>3, <1>4 DEF CallsInv

LEMMA CallsInvStep ==
  ASSUME AutoTypes, CallsInv, [AutoCallNext]_autoCallVars PROVE CallsInv'
<1>0. ConfigTypes /\ JobTypes
  BY DEF AutoTypes
<1>1. ASSUME UNCHANGED <<meeting, config, version, cronVars>> PROVE CallsInv'
  BY <1>1 DEF CallsInv, InMinute, InTime, Fresh, CalledOnce, Aimed, FirstDone, cronVars
<1>2. ASSUME NEW r \in Requests, UpsertSave(r) PROVE CallsInv'
  <2>1. CASE UNCHANGED <<config, version>>
    BY <1>1, <1>2, <2>1 DEF UpsertSave
  <2>2. CASE version' = version + 1
    <3>1. UNCHANGED <<meeting, minute, now, run, calls>>
      BY <1>2 DEF UpsertSave, cronVars
    <3>2. InMinute /\ InTime /\ Fresh /\ CalledOnce /\ version \in Nat
      BY RunFields DEF CallsInv
    <3>3. \A c \in calls : c.version \in Nat /\ c.version <= version
      BY <1>0, <3>2 DEF JobTypes, Call, InTime
    <3>4. Aimed => run.version \in Nat /\ run.version <= version
      BY <3>2, RunFields DEF InTime
    <3>5. InTime'
      BY <2>2, <3>1, <3>2, <3>3, <3>4 DEF InTime, Aimed
    <3>6. InMinute' /\ Fresh' /\ CalledOnce'
      BY <3>1, <3>2 DEF InMinute, Fresh, CalledOnce, Aimed, FirstDone
    <3> QED BY <3>5, <3>6 DEF CallsInv
  <2> QED BY <1>2, <2>1, <2>2 DEF UpsertSave
<1>3. ASSUME NEW delay \in Delays, FindFirst(delay) PROVE CallsInv'
  <2>1. /\ run = Nothing /\ now' = minute * 60 + delay /\ delay \in 0..30
        /\ UNCHANGED <<minute, calls, config, version, meeting>>
    BY <1>3 DEF FindFirst, CronSame
  <2>2. CASE Enabled /\ Takes(meeting, now', config.weekdays) /\ Due(now', {0}) # {}
    <3>1. config \in Config /\ run' = Aim(0, now')
      BY <1>0, <1>3, <2>2 DEF FindFirst, Enabled, ConfigTypes
    <3>2. InWindow(RetryAt(TriggerAt(meeting, config, now'), config, 0), now')
      BY <2>2 DEF Due
    <3> QED BY <2>1, <3>1, <3>2, RoundBegins
  <2>3. CASE ~(Enabled /\ Takes(meeting, now', config.weekdays) /\ Due(now', {0}) # {})
    <3>1. run' = After(0)
      BY <1>3, <2>3 DEF FindFirst
    <3>2. ~Aimed' /\ FirstDone'
      BY <3>1 DEF After, Aimed, FirstDone, Nothing
    <3> QED BY <2>1, <3>2, RoundEnds
  <2> QED BY <2>2, <2>3
<1>4. ASSUME NEW delay \in Delays, FindRetries(delay) PROVE CallsInv'
  <2> DEFINE due == Due(now', 1..config.count)
  <2>1. /\ run.op = "retry" /\ now' = minute * 60 + delay /\ delay \in 0..30
        /\ UNCHANGED <<calls, config, version, meeting>>
    BY <1>4 DEF FindRetries, CronSame
  <2>2. CASE Enabled /\ Takes(meeting, now', config.weekdays) /\ due # {}
    <3>1. config \in Config
      BY <1>0, <2>2 DEF Enabled, ConfigTypes
    <3>2. \A a \in due : /\ a \in Nat /\ a > 0
                         /\ InWindow(RetryAt(TriggerAt(meeting, config, now'), config, a), now')
      BY <3>1 DEF Due, Config
    <3>3. run' = Aim(CHOOSE a \in due : TRUE, now') /\ minute' = minute
      BY <1>4, <2>2 DEF FindRetries
    <3> HIDE DEF due
    <3>4. PICK a \in due : run' = Aim(a, now')
      BY <2>2, <3>3
    <3> QED BY <2>1, <3>1, <3>2, <3>3, <3>4, RoundBegins
  <2>3. CASE ~(Enabled /\ Takes(meeting, now', config.weekdays) /\ due # {})
    <3>1. run' = Nothing /\ minute' = minute + 1
      BY <1>4, <2>3 DEF FindRetries
    <3>2. ~Aimed'
      BY <3>1 DEF Aimed, Nothing
    <3> HIDE DEF due
    <3> QED BY <2>1, <3>1, <3>2, RoundEnds
  <2> QED BY <2>2, <2>3
<1>5. CASE ReadPeople
  <2>1. /\ run.op = "read" /\ run'.op = "call"
        /\ run'.attempt = run.attempt /\ run'.base = run.base /\ run'.version = run.version
        /\ run # Nothing /\ run' # Nothing
        /\ UNCHANGED <<minute, now, calls, config, version, meeting>>
    BY <1>5 DEF ReadPeople, CronSame, Nothing
  <2>2. Aimed /\ Aimed' /\ (FirstDone <=> FirstDone')
    BY <2>1 DEF Aimed, FirstDone
  <2>3. InMinute /\ InTime /\ Fresh /\ CalledOnce
    BY DEF CallsInv
  <2>4. InMinute'
    BY <2>1, <2>2, <2>3 DEF InMinute
  <2>5. InTime' /\ Fresh' /\ CalledOnce'
    BY <2>1, <2>2, <2>3 DEF InTime, Fresh, CalledOnce
  <2> QED BY <2>4, <2>5 DEF CallsInv
<1>6. CASE Fire
  BY <1>6, FireStep
<1>7. CASE Down
  <2>1. /\ minute' = minute + 1 /\ run' = Nothing
        /\ UNCHANGED <<calls, config, version, meeting>>
    BY <1>7 DEF Down
  <2> QED BY <2>1, RoundEnds DEF Aimed, Nothing
<1>8. ASSUME NEW r \in Requests, NEW c \in Changes, UpsertFind(r, c) PROVE CallsInv'
  BY <1>1, <1>8 DEF UpsertFind
<1>9. ASSUME NEW r, NEW who, InviteFind(r, who) PROVE CallsInv'
  BY <1>1, <1>9 DEF InviteFind
<1>10. ASSUME NEW r, InviteSave(r) \/ AnswerSave(r) PROVE CallsInv'
  BY <1>1, <1>10 DEF InviteSave, AnswerSave
<1>11. ASSUME NEW r, NEW u, NEW token, NEW status, AnswerFind(r, u, token, status)
       PROVE  CallsInv'
  BY <1>1, <1>11 DEF AnswerFind
<1>12. ASSUME NEW u \in Users, Remove(u) \/ JoinOrLeave(u) \/ Decline(u) \/ Accept(u)
       PROVE  CallsInv'
  BY <1>1, <1>12 DEF Remove, JoinOrLeave, Decline, Accept
<1>13. ASSUME NEW u, NEW d, ApproveLeave(u, d) PROVE CallsInv'
  BY <1>1, <1>13 DEF ApproveLeave
<1>14. CASE UNCHANGED autoCallVars
  BY <1>1, <1>14 DEF autoCallVars, cronVars
<1> QED
  BY <1>2, <1>3, <1>4, <1>5, <1>6, <1>7, <1>8, <1>9, <1>10, <1>11, <1>12, <1>13, <1>14
     DEF AutoCallNext

\* However late the runs of the job are within half a minute, and whatever is asked, changed
\* and lost between them: nobody gets the same call of a session twice while the
\* configuration stays (meeting-scheduled-participants.service.ts, lines 531-700).
THEOREM CalledOnceCorrect == AutoCallSpec => []CalledOnce
<1>1. CallsInv => CalledOnce
  BY DEF CallsInv
<1> QED
  BY <1>1, AutoTypesInit, AutoTypesStep, CallsInvInit, CallsInvStep, PTL DEF AutoCallSpec

-----------------------------------------------------------------------------
(* The calls before a meeting: nobody is forgotten.                        *)

\* The retry or trigger falls in minute k under the present configuration.
Falls(k, a) ==
  /\ Takes(meeting, k * 60, config.weekdays)
  /\ RetryAt(TriggerAt(meeting, config, k * 60), config, a) = k * 60

\* Whoever is to be called by it was.
Served(k, a) ==
  Falls(k, a) =>
    \A u \in Eligible(a, TriggerAt(meeting, config, k * 60)) \ present :
      \/ OnLeave(u, StartAt(meeting, k * 60))
      \/ \E c \in calls :
           c.user = u /\ c.base = TriggerAt(meeting, config, k * 60) /\ c.attempt = a

\* All minutes that are over, since the last change.
ServedBefore == \A k \in steady..minute - 1 : \A a \in 0..config.count : Served(k, a)

\* The calls under way are those of the minute, and leave out nobody who is to be called.
AimedRight ==
  /\ run.base = TriggerAt(meeting, config, minute * 60)
  /\ run.start = StartAt(meeting, minute * 60)
  /\ \A a \in 1..config.count : run.attempt > 0 /\ Falls(minute, a) => a = run.attempt
  /\ run.op = "call" => Eligible(run.attempt, run.base) \subseteq run.who

ServingInv ==
  Enabled =>
    /\ ServedBefore
    /\ steady <= minute /\ FirstDone => Served(minute, 0)
    /\ steady <= minute /\ Aimed => AimedRight

LEMMA ServingInit == AutoCallInit => ServingInv
BY DEF AutoCallInit, ServingInv, Enabled

\* A change starts the count of steady minutes anew.
LEMMA UnsettleStep ==
  ASSUME AutoTypes, Unsettle, UNCHANGED <<minute, run>> PROVE ServingInv'
<1>1. minute \in Nat
  BY RunFields
<1>2. steady' = minute + (IF run = Nothing THEN 0 ELSE 1)
  BY DEF Unsettle
<1>3. ServedBefore'
  BY <1>1, <1>2 DEF ServedBefore
<1>4. (Aimed' => run # Nothing) /\ (FirstDone' => run # Nothing)
  BY RunFields DEF FirstDone, Aimed
<1> QED BY <1>1, <1>2, <1>3, <1>4 DEF ServingInv

\* What is served stays so while nothing settles anew; to decline only takes one out.
LEMMA ServedStays ==
  ASSUME UNCHANGED <<meeting, config, away, present>>, calls \subseteq calls',
         NEW k, NEW a, TriggerAt(meeting, config, k * 60) \in Int,
         \A base \in Int : Eligible(a, base)' \subseteq Eligible(a, base), Served(k, a)
  PROVE  Served(k, a)'
<1> DEFINE base == TriggerAt(meeting, config, k * 60)
           start == StartAt(meeting, k * 60)
<1>1. base' = base /\ start' = start /\ (Falls(k, a)' <=> Falls(k, a))
  BY DEF Falls
<1>2. \A u : OnLeave(u, start) <=> OnLeave(u, start)'
  BY <1>1 DEF OnLeave
<1>3. Eligible(a, base)' \subseteq Eligible(a, base)
  BY <1>1
<1> QED BY <1>1, <1>2, <1>3 DEF Served

\* The row of a user and its last answer decide who is eligible.
LEMMA EligibleStays ==
  ASSUME AutoTypes,
         UNCHANGED part,
         \A u \in Users : declined'[u] = declined[u] \/ declined'[u] = now
  PROVE  \A a : \A base \in Int : Eligible(a, base)' \subseteq Eligible(a, base)
<1>1. \A u \in Users : declined[u] <= now /\ declined[u] \in Int
  BY DEF AutoTypes, PeopleTypes, Never
<1>2. now \in Nat
  BY RunFields
<1> QED BY <1>1, <1>2 DEF Eligible

\* Nothing the calls depend on changes, but that somebody declines.
LEMMA ServingQuiet ==
  ASSUME AutoTypes, ServingInv,
         UNCHANGED <<meeting, config, away, present, part, minute, run, calls, steady>>,
         \A u \in Users : declined'[u] = declined[u] \/ declined'[u] = now
  PROVE  ServingInv'
<1> SUFFICES ASSUME Enabled'
             PROVE  /\ ServedBefore'
                    /\ steady' <= minute' /\ FirstDone' => Served(minute, 0)'
                    /\ steady' <= minute' /\ Aimed' => AimedRight'
  BY DEF ServingInv
<1>1. Enabled /\ config \in Config /\ meeting \in Meetings
  BY DEF Enabled, AutoTypes, ConfigTypes
<1>2. minute \in Nat /\ steady \in Nat
  BY RunFields DEF AutoTypes, JobTypes
<1>3. \A k \in Nat : TriggerAt(meeting, config, k * 60) \in Int
  BY <1>1, TimesType
<1>4. \A a : \A base \in Int : Eligible(a, base)' \subseteq Eligible(a, base)
  BY EligibleStays
<1>5. \A k \in Nat : \A a : Served(k, a) => Served(k, a)'
  BY <1>3, <1>4, ServedStays
<1>6. ServedBefore'
  <2>1. \A k \in steady..minute - 1 : k \in Nat
    BY <1>2
  <2>2. ServedBefore
    BY <1>1 DEF ServingInv
  <2> QED BY <1>5, <2>1, <2>2 DEF ServedBefore
<1>7. (FirstDone' <=> FirstDone) /\ (Aimed' <=> Aimed)
  BY DEF FirstDone, Aimed
<1>8. steady' <= minute' /\ FirstDone' => Served(minute, 0)'
  BY <1>1, <1>2, <1>5, <1>7 DEF ServingInv
<1>9. ASSUME steady <= minute, Aimed PROVE AimedRight'
  <2>1. AimedRight /\ run.base \in Int
    BY <1>1, <1>9, RunFields DEF ServingInv
  <2>2. Eligible(run.attempt, run.base)' \subseteq Eligible(run.attempt, run.base)
    BY <1>4, <2>1
  <2> QED BY <2>1, <2>2 DEF AimedRight, Falls
<1> QED BY <1>6, <1>7, <1>8, <1>9

\* The job's own steps change nothing they depend on.
LEMMA ServedKept ==
  ASSUME AutoTypes, Enabled, UNCHANGED <<meeting, config, away, present, part, declined>>,
         calls \subseteq calls', NEW k \in Nat, NEW a, Served(k, a)
  PROVE  Served(k, a)'
<1>1. config \in Config /\ meeting \in Meetings
  BY DEF Enabled, AutoTypes, ConfigTypes
<1>2. TriggerAt(meeting, config, k * 60) \in Int
  BY <1>1, TimesType
<1>3. \A base \in Int : Eligible(a, base)' \subseteq Eligible(a, base)
  BY EligibleStays
<1> QED BY <1>2, <1>3, ServedStays

\* What falls in the minute is in the window of its job, however late it runs.
LEMMA FallsInWindow ==
  ASSUME AutoTypes, Enabled, NEW d \in 0..30, NEW a, Falls(minute, a)
  PROVE  /\ Takes(meeting, minute * 60 + d, config.weekdays)
         /\ InWindow(RetryAt(TriggerAt(meeting, config, minute * 60 + d), config, a),
                     minute * 60 + d)
<1>1. minute \in Nat
  BY RunFields
<1>2. /\ TriggerAt(meeting, config, minute * 60 + d) = TriggerAt(meeting, config, minute * 60)
      /\ Takes(meeting, minute * 60, config.weekdays)
           => Takes(meeting, minute * 60 + d, config.weekdays)
  BY <1>1, SameStart
<1>3. InWindow(minute * 60, minute * 60 + d)
  BY <1>1, WindowOfMinute
<1> QED BY <1>2, <1>3 DEF Falls

\* The first look of a minute finds the trigger, or there is none in it.
LEMMA FirstServes ==
  ASSUME AutoTypes, ServingInv, NEW delay \in Delays, FindFirst(delay) PROVE ServingInv'
<1>1. /\ run = Nothing /\ now' = minute * 60 + delay /\ delay \in 0..30
      /\ UNCHANGED <<minute, calls, config, version, meeting, away, present, part, declined,
                     steady>>
  BY DEF FindFirst, CronSame, rowVars
<1> SUFFICES ASSUME Enabled
             PROVE  /\ ServedBefore'
                    /\ steady' <= minute' /\ FirstDone' => Served(minute, 0)'
                    /\ steady' <= minute' /\ Aimed' => AimedRight'
  BY <1>1 DEF ServingInv, Enabled
<1>2. minute \in Nat /\ steady \in Nat /\ config \in Config /\ meeting \in Meetings
  BY RunFields DEF Enabled, AutoTypes, JobTypes, ConfigTypes
<1>3. \A k \in Nat : \A a : Served(k, a) => Served(k, a)'
  BY <1>1, ServedKept
<1>4. ServedBefore'
  BY <1>1, <1>2, <1>3 DEF ServingInv, ServedBefore
<1> DEFINE found == Enabled /\ Takes(meeting, now', config.weekdays) /\ Due(now', {0}) # {}
<1>5. CASE found
  <2>1. run' = Aim(0, now')
    BY <1>5 DEF FindFirst
  <2>2. Aimed' /\ run'.attempt = 0 /\ run'.op = "read"
    BY <2>1 DEF Aim, Aimed
  <2>3. /\ run'.base = TriggerAt(meeting, config, minute * 60)
        /\ run'.start = StartAt(meeting, minute * 60)
    BY <1>1, <1>2, <2>1, SameStart DEF Aim
  <2>4. AimedRight'
    BY <1>1, <2>2, <2>3 DEF AimedRight
  <2> QED BY <1>4, <2>2, <2>4 DEF FirstDone
<1>6. CASE ~found
  <2>1. ~Falls(minute, 0)
    BY <1>1, <1>6, FallsInWindow DEF Due
  <2>2. Served(minute, 0)
    BY <2>1 DEF Served
  <2>3. ~Aimed'
    BY <1>6 DEF FindFirst, After, Aimed
  <2>4. Served(minute, 0)'
    <3>1. PICK k \in Nat : k = minute
      BY <1>2
    <3>2. Served(k, 0)'
      BY <1>3, <2>2, <3>1
    <3> QED BY <1>1, <3>1, <3>2
  <2> QED BY <1>4, <2>3, <2>4
<1> QED BY <1>5, <1>6

\* The second look finds the retry, the only one, or there is none in the minute.
LEMMA RetriesServe ==
  ASSUME AutoTypes, ServingInv, NEW delay \in Delays, FindRetries(delay) PROVE ServingInv'
<1>1. /\ run.op = "retry" /\ now' = minute * 60 + delay /\ delay \in 0..30
      /\ UNCHANGED <<calls, config, version, meeting, away, present, part, declined, steady>>
  BY DEF FindRetries, CronSame, rowVars
<1> SUFFICES ASSUME Enabled
             PROVE  /\ ServedBefore'
                    /\ steady' <= minute' /\ FirstDone' => Served(minute, 0)'
                    /\ steady' <= minute' /\ Aimed' => AimedRight'
  <2> (Enabled <=> Enabled')
    BY <1>1 DEF Enabled
  <2> SUFFICES ASSUME Enabled'
               PROVE  /\ ServedBefore'
                      /\ steady' <= minute' /\ FirstDone' => Served(minute, 0)'
                      /\ steady' <= minute' /\ Aimed' => AimedRight'
    BY DEF ServingInv
  <2> QED OBVIOUS
<1>2. minute \in Nat /\ steady \in Nat /\ config \in Config /\ meeting \in Meetings
  BY RunFields DEF Enabled, AutoTypes, JobTypes, ConfigTypes
<1>3. \A k \in Nat : \A a : Served(k, a) => Served(k, a)'
  BY <1>1, ServedKept
<1>4. FirstDone
  BY <1>1 DEF FirstDone, Aimed, Nothing
<1>5. steady <= minute => Served(minute, 0)
  BY <1>4 DEF ServingInv
<1>6. \A a \in 1..config.count : Falls(minute, a) =>
        /\ Takes(meeting, now', config.weekdays)
        /\ a \in Due(now', 1..config.count)
  <2> SUFFICES ASSUME NEW a \in 1..config.count, Falls(minute, a)
               PROVE  Takes(meeting, now', config.weekdays) /\ a \in Due(now', 1..config.count)
    OBVIOUS
  <2> QED BY <1>1, FallsInWindow DEF Due
<1>7. \A a, b \in Due(now', 1..config.count) : a = b
  <2> SUFFICES ASSUME NEW a \in Due(now', 1..config.count), NEW b \in Due(now', 1..config.count),
                      a < b
               PROVE  FALSE
    BY <1>2 DEF Due, Config
  <2> DEFINE base == TriggerAt(meeting, config, now')
  <2>1. a \in Nat /\ b \in Nat /\ base \in Int
    BY <1>1, <1>2, TimesType DEF Due, Config
  <2>2. /\ InWindow(RetryAt(base, config, a), minute * 60 + delay)
        /\ InWindow(RetryAt(base, config, b), minute * 60 + delay)
    BY <1>1 DEF Due
  <2> HIDE DEF base
  <2>3. /\ RetryAt(base, config, a) \in Int /\ RetryAt(base, config, b) \in Int
        /\ RetryAt(base, config, a) + 60 <= RetryAt(base, config, b)
    BY <1>2, <2>1, RetriesApart
  <2> QED BY <1>1, <1>2, <2>2, <2>3, WindowOfMinute
<1> DEFINE due == Due(now', 1..config.count)
<1>8. CASE Takes(meeting, now', config.weekdays) /\ due # {}
  <2>1. run' = Aim(CHOOSE a \in due : TRUE, now') /\ minute' = minute
    BY <1>8 DEF FindRetries
  <2>2. \A a \in due : a \in Nat /\ a > 0
    BY <1>2 DEF Due, Config
  <2>3. PICK a \in due : run' = Aim(a, now')
    <3> HIDE DEF due
    <3> QED BY <1>8, <2>1
  <2>4. /\ Aimed' /\ run'.op = "read" /\ run'.attempt = a /\ a > 0
        /\ run'.base = TriggerAt(meeting, config, minute * 60)
        /\ run'.start = StartAt(meeting, minute * 60)
    <3>1. /\ run'.base = TriggerAt(meeting, config, now')
          /\ run'.start = StartAt(meeting, now') /\ run'.op = "read" /\ run'.attempt = a
      BY <2>3 DEF Aim
    <3>2. a > 0
      BY <2>2
    <3>3. /\ TriggerAt(meeting, config, now') = TriggerAt(meeting, config, minute * 60)
          /\ StartAt(meeting, now') = StartAt(meeting, minute * 60)
      BY <1>1, <1>2, SameStart
    <3> QED BY <3>1, <3>2, <3>3 DEF Aimed
  <2>5. \A b \in 1..config.count : Falls(minute, b) => b = a
    BY <1>6, <1>7
  <2>6. AimedRight'
    BY <1>1, <2>1, <2>4, <2>5 DEF AimedRight, Falls
  <2>7. ServedBefore'
    BY <1>1, <1>2, <1>3, <2>1 DEF ServingInv, ServedBefore
  <2>8. steady <= minute => Served(minute, 0)'
    <3>1. PICK k \in Nat : k = minute
      BY <1>2
    <3>2. steady <= k => Served(k, 0)'
      BY <1>3, <1>5, <3>1
    <3> QED BY <2>1, <3>1, <3>2
  <2> QED BY <1>1, <2>1, <2>6, <2>7, <2>8
<1>9. CASE ~(Takes(meeting, now', config.weekdays) /\ due # {})
  <2>1. run' = Nothing /\ minute' = minute + 1
    BY <1>9 DEF FindRetries
  <2>2. \A a \in 1..config.count : ~Falls(minute, a)
    BY <1>6, <1>9
  <2>3. \A a \in 0..config.count : steady <= minute => Served(minute, a)
    BY <1>2, <1>5, <2>2 DEF Served, Config
  <2>4. ServedBefore
    BY DEF ServingInv
  <2>5. \A k \in steady..minute : \A a \in 0..config.count : Served(k, a)
    <3> TAKE k \in steady..minute
    <3>1. k \in steady..minute - 1 \/ (k = minute /\ steady <= minute)
      BY <1>2
    <3> QED BY <2>3, <2>4, <3>1 DEF ServedBefore
  <2>6. ServedBefore'
    BY <1>1, <1>2, <1>3, <2>1, <2>5 DEF ServedBefore
  <2>7. ~FirstDone' /\ ~Aimed'
    BY <2>1 DEF FirstDone, Aimed, Nothing
  <2> QED BY <2>6, <2>7
<1> QED BY <1>8, <1>9

\* Whom the job has read, and was told to call, are those who are to be called.
LEMMA ReadServes == ASSUME AutoTypes, ServingInv, ReadPeople PROVE ServingInv'
<1>1. /\ run.op = "read" /\ run # Nothing /\ Aimed
      /\ run'.op = "call" /\ run' # Nothing /\ Aimed'
      /\ run'.attempt = run.attempt /\ run'.base = run.base /\ run'.start = run.start
      /\ run'.who = Eligible(run.attempt, run.base)
      /\ UNCHANGED <<minute, calls, config, meeting, away, present, part, declined, steady>>
  BY DEF ReadPeople, CronSame, rowVars, Nothing, Aimed
<1>2. (Enabled' <=> Enabled) /\ (FirstDone' <=> FirstDone)
  BY <1>1 DEF Enabled, FirstDone
<1>3. ServedBefore => ServedBefore'
  BY <1>1 DEF ServedBefore, Served, Falls, Eligible, OnLeave
<1>4. Served(minute, 0) => Served(minute, 0)'
  BY <1>1 DEF Served, Falls, Eligible, OnLeave
<1>5. Eligible(run.attempt, run.base)' = Eligible(run.attempt, run.base)
  BY <1>1 DEF Eligible
<1>6. AimedRight => AimedRight'
  BY <1>1, <1>5 DEF AimedRight, Falls
<1> QED BY <1>1, <1>2, <1>3, <1>4, <1>6 DEF ServingInv

\* Calling them serves the trigger or the retry, and with the retry the minute is over.
LEMMA FireServes == ASSUME AutoTypes, ServingInv, Fire PROVE ServingInv'
<1>1. /\ run.op = "call" /\ Aimed /\ run # Nothing
      /\ run' = After(run.attempt)
      /\ minute' = IF run.attempt = 0 THEN minute ELSE minute + 1
      /\ calls \subseteq calls'
      /\ UNCHANGED <<config, meeting, away, present, part, declined, steady>>
  BY RunFields DEF Fire, CronSame, rowVars, Aimed
<1> SUFFICES ASSUME Enabled
             PROVE  /\ ServedBefore'
                    /\ steady' <= minute' /\ FirstDone' => Served(minute, 0)'
                    /\ steady' <= minute' /\ Aimed' => AimedRight'
  <2>1. Enabled <=> Enabled'
    BY <1>1 DEF Enabled
  <2> SUFFICES ASSUME Enabled'
               PROVE  /\ ServedBefore'
                      /\ steady' <= minute' /\ FirstDone' => Served(minute, 0)'
                      /\ steady' <= minute' /\ Aimed' => AimedRight'
    BY DEF ServingInv
  <2> QED BY <2>1
<1>2. /\ minute \in Nat /\ steady \in Nat /\ config \in Config /\ meeting \in Meetings
      /\ run.attempt \in Nat
  BY <1>1, RunFields DEF Enabled, AutoTypes, JobTypes, ConfigTypes
<1>3. \A k \in Nat : \A a : Served(k, a) => Served(k, a)'
  BY <1>1, ServedKept
<1>4. ~Aimed'
  BY <1>1 DEF After, Aimed, Nothing
<1>5. ServedBefore /\ (steady <= minute => AimedRight)
  BY <1>1 DEF ServingInv
<1>6. PICK k \in Nat, n \in Nat : k = minute /\ n = run.attempt
  BY <1>2
<1>7. ASSUME steady <= k PROVE Served(k, n)'
  <2>1. PICK base, start : base = run.base /\ start = run.start
    OBVIOUS
  <2>2. /\ base = TriggerAt(meeting, config, k * 60) /\ start = StartAt(meeting, k * 60)
        /\ Eligible(n, base) \subseteq run.who
    BY <1>1, <1>5, <1>6, <1>7, <2>1 DEF AimedRight
  <2>3. Eligible(n, base)' = Eligible(n, base) /\ \A u : OnLeave(u, start)' <=> OnLeave(u, start)
    BY <1>1 DEF Eligible, OnLeave
  <2>4. ASSUME NEW u \in Eligible(n, base) \ present, ~OnLeave(u, start)
        PROVE  \E c \in calls' : c.user = u /\ c.base = base /\ c.attempt = n
    <3> DEFINE c == [user |-> u, attempt |-> run.attempt, base |-> run.base,
                     start |-> run.start, version |-> run.version, valid |-> run.valid,
                     at |-> now]
    <3>1. u \in Called
      BY <2>1, <2>2, <2>4 DEF Called
    <3>2. c \in calls'
      BY <3>1 DEF Fire
    <3>3. c.user = u /\ c.base = base /\ c.attempt = n
      BY <1>6, <2>1
    <3> QED BY <3>2, <3>3
  <2> QED BY <1>1, <2>2, <2>3, <2>4 DEF Served
<1>8. CASE run.attempt = 0
  <2>1. minute' = minute
    BY <1>1, <1>8
  <2>2. ServedBefore'
    BY <1>1, <1>2, <1>3, <1>5, <2>1 DEF ServedBefore
  <2>3. steady <= minute => Served(minute, 0)'
    <3>1. steady <= k => Served(k, 0)'
      <4>1. n = 0
        BY <1>6, <1>8
      <4> QED BY <1>7, <4>1
    <3> QED BY <1>6, <2>1, <3>1
  <2> QED BY <1>1, <1>4, <2>1, <2>2, <2>3
<1>9. CASE run.attempt > 0
  <2>1. minute' = minute + 1 /\ run' = Nothing
    BY <1>1, <1>2, <1>9 DEF After
  <2>2. ~FirstDone'
    BY <2>1 DEF FirstDone
  <2>3. ASSUME NEW a \in 0..config.count, steady <= k PROVE Served(k, a)'
    <3>1. CASE a = 0
      <4>1. FirstDone
        BY <1>1, <1>9 DEF FirstDone
      <4> QED BY <1>3, <1>6, <2>3, <3>1, <4>1 DEF ServingInv
    <3>2. CASE a # 0 /\ Falls(k, a)
      <4>1. a \in 1..config.count
        BY <1>2, <3>2 DEF Config
      <4>2. a = n
        BY <1>5, <1>6, <1>9, <2>3, <3>2, <4>1 DEF AimedRight
      <4> QED BY <1>7, <2>3, <4>2
    <3>3. CASE ~Falls(k, a)
      BY <1>3, <3>3 DEF Served
    <3> QED BY <3>1, <3>2, <3>3
  <2>4. \A j \in steady..minute : \A a \in 0..config.count : Served(j, a)'
    <3> TAKE j \in steady..minute
    <3>1. j \in Nat /\ (j \in steady..minute - 1 \/ (j = k /\ steady <= k))
      BY <1>2, <1>6
    <3> QED BY <1>3, <1>5, <2>3, <3>1 DEF ServedBefore
  <2>5. ServedBefore'
    BY <1>1, <1>2, <2>1, <2>4 DEF ServedBefore
  <2> QED BY <1>4, <2>2, <2>5
<1> QED BY <1>2, <1>8, <1>9

LEMMA ServingInvStep ==
  ASSUME AutoTypes, ServingInv, [AutoCallNext]_autoCallVars PROVE ServingInv'
<1>0. now \in Nat /\ declined \in [Users -> Nat \cup {Never}]
  BY RunFields DEF AutoTypes, PeopleTypes
<1>1. ASSUME UNCHANGED <<meeting, config, away, present, part, minute, run, calls, steady,
                         declined>>
      PROVE  ServingInv'
  BY <1>1, ServingQuiet
<1>2. ASSUME NEW r \in Requests, UpsertSave(r) PROVE ServingInv'
  <2>1. UNCHANGED <<meeting, away, present, part, minute, run, calls, declined>>
    BY <1>2 DEF UpsertSave, rowVars, cronVars
  <2>2. UNCHANGED <<config, steady>> \/ Unsettle
    BY <1>2 DEF UpsertSave
  <2> QED BY <1>1, <2>1, <2>2, UnsettleStep
<1>3. ASSUME NEW r \in Requests, InviteSave(r) \/ AnswerSave(r) PROVE ServingInv'
  <2>1. UNCHANGED <<meeting, config, away, present, minute, run, calls, declined>>
    BY <1>3 DEF InviteSave, AnswerSave, cronVars
  <2>2. UNCHANGED <<part, steady>> \/ Unsettle
    BY <1>3 DEF InviteSave, AnswerSave, rowVars
  <2> QED BY <1>1, <2>1, <2>2, UnsettleStep
<1>4. ASSUME NEW u \in Users, Remove(u) \/ JoinOrLeave(u) \/ Accept(u) PROVE ServingInv'
  <2>1. Unsettle /\ UNCHANGED <<minute, run>>
    BY <1>4 DEF Remove, JoinOrLeave, Accept, cronVars
  <2> QED BY <2>1, UnsettleStep
<1>5. ASSUME NEW u \in Users, NEW d, ApproveLeave(u, d) PROVE ServingInv'
  <2>1. Unsettle /\ UNCHANGED <<minute, run>>
    BY <1>5 DEF ApproveLeave, cronVars
  <2> QED BY <2>1, UnsettleStep
<1>6. ASSUME NEW u \in Users, Decline(u) PROVE ServingInv'
  <2>1. UNCHANGED <<meeting, config, away, present, part, minute, run, calls, steady>>
    BY <1>6 DEF Decline, rowVars, cronVars
  <2>2. \A v \in Users : declined'[v] = declined[v] \/ declined'[v] = now
    BY <1>0, <1>6 DEF Decline
  <2> QED BY <2>1, <2>2, ServingQuiet
<1>7. ASSUME NEW delay \in Delays, FindFirst(delay) \/ FindRetries(delay) PROVE ServingInv'
  BY <1>7, FirstServes, RetriesServe
<1>8. CASE ReadPeople
  BY <1>8, ReadServes
<1>9. CASE Fire
  BY <1>9, FireServes
<1>10. CASE Down
  <2>1. steady' = minute + 1 /\ minute' = minute + 1 /\ run' = Nothing
    BY <1>10 DEF Down
  <2>2. minute \in Nat
    BY RunFields
  <2>3. ~FirstDone' /\ ~Aimed'
    BY <2>1 DEF FirstDone, Aimed, Nothing
  <2>4. ServedBefore'
    BY <2>1, <2>2 DEF ServedBefore
  <2> QED BY <2>3, <2>4 DEF ServingInv
<1>11. ASSUME NEW r \in Requests, NEW c \in Changes, UpsertFind(r, c) PROVE ServingInv'
  BY <1>1, <1>11 DEF UpsertFind, rowVars, cronVars
<1>12. ASSUME NEW r, NEW who, InviteFind(r, who) PROVE ServingInv'
  BY <1>1, <1>12 DEF InviteFind, rowVars, cronVars
<1>13. ASSUME NEW r, NEW u, NEW token, NEW status, AnswerFind(r, u, token, status)
       PROVE  ServingInv'
  BY <1>1, <1>13 DEF AnswerFind, rowVars, cronVars
<1>14. CASE UNCHANGED autoCallVars
  BY <1>1, <1>14 DEF autoCallVars
<1> QED
  BY <1>2, <1>3, <1>4, <1>5, <1>6, <1>7, <1>8, <1>9, <1>10, <1>11, <1>12, <1>13, <1>14
     DEF AutoCallNext

\* Who is to be called is: when the job has run through a minute in which the trigger or a
\* retry falls, and nothing changed from that minute on, all who accepted, are neither on
\* leave nor in the meeting and have not declined were called, whichever minutes and
\* delays the job ran in (meeting-auto-call-cron.service.ts, handleAutoCall).
THEOREM NobodyForgottenCorrect == AutoCallSpec => []NobodyForgotten
<1>1. AutoTypes /\ ServingInv => NobodyForgotten
  BY DEF ServingInv, ServedBefore, Served, Falls, NobodyForgotten
<1> QED
  BY <1>1, AutoTypesInit, AutoTypesStep, ServingInit, ServingInvStep, PTL DEF AutoCallSpec
=============================================================================
