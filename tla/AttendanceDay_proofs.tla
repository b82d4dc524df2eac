-------------------------- MODULE AttendanceDay_proofs --------------------------
(***************************************************************************)
(* Theorems about the log of a day and the reminders beside it, for any    *)
(* number of requests and runs in flight, any day, gap and schedules; and  *)
(* about the chatbot's cache, for any sections, questions and reloads.     *)
(***************************************************************************)
EXTENDS AttendanceReminder, Chatbot, FiniteSetTheorems, SequenceTheorems, WellFoundedInduction,
        TLAPS

USE DayBounds

-----------------------------------------------------------------------------
LEMMA CommandStep == ASSUME commands \in 0..MaxCommands, Command
                     PROVE commands' \in 0..MaxCommands
BY DEF Command

LEMMA CountIsBit == ASSUME NEW in, NEW out PROVE CountOf(in, out) \in {0, 1}
BY DEF CountOf

LEMMA TypeInit == Init => TypeOK
<1> SUFFICES ASSUME Init PROVE TypeOK
  OBVIOUS
<1>1. row \in Row /\ NoRow \in Row
  BY DEF Init, NoRow, Row
<1>2. punch \in [Slots -> Punch]
  BY <1>1 DEF Init, NoPunch, Punch, Steps, Kinds
<1>3. edit \in Edit
  BY DEF Init, NoEdit, Edit
<1>4. now \in Times /\ commands \in 0..MaxCommands
  BY DEF Init, Times
<1>5. HistoryOK /\ filled \in BOOLEAN
  BY DEF Init, HistoryOK
<1> QED BY <1>1, <1>2, <1>3, <1>4, <1>5 DEF TypeOK

LEMMA BeginType ==
  ASSUME TypeOK, NEW p \in Slots, NEW step \in Steps, NEW kind \in Kinds,
         NEW in \in Times \cup {Null}, NEW out \in Times \cup {Null},
         Begin(p, step, kind, in, out),
         UNCHANGED <<row, edit, now, history>>, filled' \in BOOLEAN
  PROVE  TypeOK'
<1>1. punch' \in [Slots -> Punch]
  <2>1. [step |-> step, kind |-> kind, in |-> in, out |-> out, seen |-> NoRow]
          \in Punch
    BY DEF Punch, Row, NoRow
  <2> QED BY <2>1 DEF Begin, TypeOK
<1>2. commands' \in 0..MaxCommands
  BY CommandStep DEF Begin, TypeOK
<1> QED BY <1>1, <1>2 DEF TypeOK, HistoryOK, history

LEMMA DoneType ==
  ASSUME TypeOK, NEW p \in Slots, Done(p) PROVE punch' \in [Slots -> Punch]
<1>1. NoPunch \in Punch
  BY DEF NoPunch, NoRow, Punch, Steps, Kinds, Row
<1> QED BY <1>1 DEF Done, TypeOK

LEMMA UpsertType ==
  ASSUME TypeOK, NEW p \in Slots, NEW in \in Times \cup {Null},
         NEW out \in Times \cup {Null}, Upsert(p, in, out)
  PROVE  punch' \in [Slots -> Punch]
<1>1. punch[p].kind \in Kinds /\ NoRow \in Row
  BY DEF TypeOK, Punch, NoRow, Row
<1>2. [step |-> "read", kind |-> punch[p].kind, in |-> in, out |-> out,
         seen |-> NoRow] \in Punch
  BY <1>1 DEF Punch, Steps
<1> QED BY <1>2 DEF Upsert, TypeOK

LEMMA RememberType ==
  ASSUME TypeOK, NEW p \in Slots, Remember(p) PROVE HistoryOK'
<1>1. /\ punch[p].in \in Times \cup {Null}
      /\ punch[p].out \in Times \cup {Null}
  BY DEF TypeOK, Punch
<1>2. ins' \subseteq Times /\ outs' \subseteq Times /\ scanOuts' \subseteq Times
  BY <1>1 DEF Remember, TypeOK, HistoryOK
<1>3. overlapped' \in BOOLEAN /\ edited' \in BOOLEAN
  BY DEF Remember, TypeOK, HistoryOK
<1> QED BY <1>2, <1>3 DEF HistoryOK

\* Every step keeps the variables in their types.
LEMMA TypeStep == ASSUME TypeOK, Next PROVE TypeOK'
<1>0. /\ Null \in Times \cup {Null} /\ now \in Times \cup {Null}
      /\ {"check", "read"} \subseteq Steps
      /\ {"scan", "remoteIn", "remoteOut", "fill", "direct"} \subseteq Kinds
  BY DEF TypeOK, Steps, Kinds
<1>1. ASSUME NEW p \in Slots, NEW t \in Times, NEW isOut \in BOOLEAN,
             Record(p, t, isOut)
      PROVE  TypeOK'
  BY <1>0, <1>1, BeginType DEF Record, TypeOK
<1>2. ASSUME NEW p \in Slots, Scan(p) \/ RemoteIn(p) \/ RemoteOut(p) PROVE TypeOK'
  BY <1>0, <1>2, BeginType DEF Scan, RemoteIn, RemoteOut, TypeOK
<1>3. ASSUME NEW p \in Slots, Fill(p) PROVE TypeOK'
  BY <1>0, <1>3, BeginType DEF Fill, TypeOK
<1>4. ASSUME NEW p \in Slots, Check(p) PROVE TypeOK'
  <2>1. punch[p].in \in Times \cup {Null} /\ punch[p].out \in Times \cup {Null}
    BY DEF TypeOK, Punch
  <2>2. punch' \in [Slots -> Punch]
    BY <1>0, <1>4, <2>1, UpsertType, DoneType DEF Check
  <2> QED BY <1>4, <2>2 DEF Check, TypeOK, HistoryOK, history
<1>5. ASSUME NEW p \in Slots, Read(p) PROVE TypeOK'
  <2>1. [step |-> "write", kind |-> punch[p].kind, in |-> punch[p].in,
         out |-> punch[p].out, seen |-> row] \in Punch
    BY DEF TypeOK, Punch, Steps
  <2>2. punch' \in [Slots -> Punch]
    BY <1>5, <2>1 DEF Read, TypeOK
  <2> QED BY <1>5, <2>2 DEF Read, TypeOK, HistoryOK, history
<1>6. ASSUME NEW p \in Slots, Write(p) PROVE TypeOK'
  <2> USE DEF TypeOK
  <2>1. punch[p].in \in Times \cup {Null} /\ punch[p].out \in Times \cup {Null}
    BY DEF Punch
  <2>2. CASE UpdateClock(p)
    <3>1. row' \in Row
      BY <2>1, <2>2, CountIsBit DEF UpdateClock, Row
    <3> QED BY <2>2, <3>1, DoneType, RememberType DEF UpdateClock
  <2>3. CASE UpdateCount(p)
    <3>1. row' \in Row
      BY <2>3, CountIsBit DEF UpdateCount, Row
    <3> QED BY <2>3, <3>1, DoneType, RememberType DEF UpdateCount
  <2>4. CASE Insert(p)
    <3>1. row' \in Row
      BY <2>1, <2>4, CountIsBit DEF Insert, Row
    <3> QED BY <2>4, <3>1, DoneType, RememberType DEF Insert
  <2>5. CASE InsertRefused(p)
    BY <2>5, DoneType DEF InsertRefused, HistoryOK, history
  <2> QED BY <1>6, <2>2, <2>3, <2>4, <2>5 DEF Write
<1>7. ASSUME NEW in \in Times \cup {Null, Keep}, NEW out \in Times \cup {Null, Keep},
             AdminEdit(in, out)
      PROVE  TypeOK'
  <2>1. edit' \in Edit
    BY <1>7 DEF AdminEdit, Edit
  <2>2. commands' \in 0..MaxCommands
    BY <1>7, CommandStep DEF AdminEdit, TypeOK
  <2> QED BY <1>7, <2>1, <2>2 DEF AdminEdit, TypeOK, HistoryOK, history
<1>8. CASE AdminWrite
  <2>1. edit.in \in Times \cup {Null, Keep} /\ edit.out \in Times \cup {Null, Keep}
    BY DEF TypeOK, Edit
  <2>2. row' \in Row
    BY <1>8, <2>1 DEF AdminWrite, Row, TypeOK
  <2>3. HistoryOK'
    BY <1>8, <2>1 DEF AdminWrite, HistoryOK, TypeOK
  <2>4. edit' \in Edit
    BY <1>8 DEF AdminWrite, NoEdit, Edit
  <2> QED BY <1>8, <2>2, <2>3, <2>4 DEF AdminWrite, TypeOK
<1>9. CASE Tick
  <2>1. now' \in Times
    BY <1>9 DEF Tick, Times, TypeOK
  <2> QED BY <1>9, <2>1 DEF Tick, TypeOK, HistoryOK, history
<1> QED BY <1>1, <1>2, <1>3, <1>4, <1>5, <1>6, <1>7, <1>8, <1>9 DEF Next

\* The log, the requests and the edit stay in their types.
THEOREM TypeCorrect == Spec => []TypeOK
<1>1. TypeOK /\ UNCHANGED vars => TypeOK'
  BY DEF TypeOK, HistoryOK, vars, history
<1> QED BY <1>1, TypeInit, TypeStep, PTL DEF Spec

-----------------------------------------------------------------------------
\* Unless writes have overlapped, what a request has read is what is there.
SeenIsRow ==
    ~overlapped => \A p \in Slots : punch[p].step = "write" => punch[p].seen = row

LEMMA SeenStep == ASSUME TypeOK, SeenIsRow, [Next]_vars PROVE SeenIsRow'
<1> USE DEF SeenIsRow, TypeOK
<1>1. ASSUME NEW p \in Slots, NEW step \in {"check", "read"}, NEW kind, NEW in, NEW out,
             Begin(p, step, kind, in, out), UNCHANGED <<row, overlapped>>
      PROVE  SeenIsRow'
  BY <1>1 DEF Begin
<1>2. ASSUME NEW p \in Slots, NEW t, NEW isOut, Record(p, t, isOut) PROVE SeenIsRow'
  BY <1>1, <1>2 DEF Record, history
<1>3. ASSUME NEW p \in Slots, Scan(p) \/ RemoteIn(p) \/ RemoteOut(p) \/ Fill(p)
      PROVE  SeenIsRow'
  BY <1>1, <1>3 DEF Scan, RemoteIn, RemoteOut, Fill, history
<1>4. ASSUME NEW p \in Slots, Check(p) PROVE SeenIsRow'
  BY <1>4 DEF Check, Upsert, Done, NoPunch, history
<1>5. ASSUME NEW p \in Slots, Read(p) PROVE SeenIsRow'
  BY <1>5 DEF Read, history
<1>6. ASSUME NEW p \in Slots, Write(p) PROVE SeenIsRow'
  <2>1. CASE InsertRefused(p)
    BY <2>1 DEF InsertRefused, Done, NoPunch, history
  <2>2. CASE ~InsertRefused(p)
    <3>1. Remember(p) /\ Done(p)
      BY <1>6, <2>2 DEF Write, UpdateClock, UpdateCount, Insert
    <3>2. ASSUME ~overlapped' PROVE \A q \in Slots \ {p} : punch[q].step # "write"
      BY <3>1, <3>2 DEF Remember, Overlaps
    <3> QED BY <3>1, <3>2 DEF Done, NoPunch
  <2> QED BY <2>1, <2>2
<1>7. ASSUME NEW in, NEW out, AdminEdit(in, out) PROVE SeenIsRow'
  BY <1>7 DEF AdminEdit, history
<1>8. CASE AdminWrite
  BY <1>8 DEF AdminWrite
<1>9. CASE Tick \/ UNCHANGED vars
  BY <1>9 DEF Tick, history, vars
<1> QED BY <1>2, <1>3, <1>4, <1>5, <1>6, <1>7, <1>8, <1>9 DEF Next

\* t is the earliest, the latest, of the times; Null when there are none.
IsEarliest(t, times) == IF times = {} THEN t = Null
                                      ELSE t \in times /\ \A u \in times : t <= u
IsLatest(t, times) == IF times = {} THEN t = Null
                                    ELSE t \in times /\ \A u \in times : t >= u

\* The clock-in that a write keeps is the earliest of the times with its own,
\* and the same for clock-outs.
LEMMA EarlierStep ==
  ASSUME NEW times \in SUBSET Times, NEW old \in Times \cup {Null},
         NEW in \in Times \cup {Null}, IsEarliest(old, times),
         NEW new, new = IF in # Null /\ (old = Null \/ in < old) THEN in ELSE old
  PROVE  IsEarliest(new, times \cup ({in} \ {Null}))
BY DEF IsEarliest, Times, Null

LEMMA LaterStep ==
  ASSUME NEW times \in SUBSET Times, NEW old \in Times \cup {Null},
         NEW out \in Times \cup {Null}, IsLatest(old, times),
         NEW new, new = IF out # Null /\ (old = Null \/ out > old) THEN out ELSE old
  PROVE  IsLatest(new, times \cup ({out} \ {Null}))
BY DEF IsLatest, Times, Null

\* The two conjuncts of EarliestAndLatest without their condition.
EarliestIn == IsEarliest(row.in, ins)
LatestOut == IsLatest(row.out, outs)

\* With row and seen equal, every write of upsert keeps the earlier and later.
LEMMA WriteKeeps ==
  ASSUME TypeOK, NEW p \in Slots, punch[p].seen = row,
         UpdateClock(p) \/ UpdateCount(p) \/ Insert(p),
         row.day = "none" => row.in = Null /\ row.out = Null
  PROVE  /\ row'.in = IF Earlier(punch[p].in, row) THEN punch[p].in ELSE row.in
         /\ row'.out = IF Later(punch[p].out, row) THEN punch[p].out ELSE row.out
<1> USE DEF TypeOK, Row
<1>1. CASE UpdateClock(p)
  BY <1>1 DEF UpdateClock
<1>2. CASE UpdateCount(p)
  BY <1>2 DEF UpdateCount
<1>3. CASE Insert(p)
  BY <1>3 DEF Insert, Earlier, Later
<1> QED BY <1>1, <1>2, <1>3

\* A log that is not there holds nothing, and a log once there stays: what a
\* request or an edit has found is still to be found.
RowStays ==
    /\ row.day = "none" => row.in = Null /\ row.out = Null /\ row.count = 0
    /\ edit.step = "write" => row.day = "logged"
    /\ \A p \in Slots :
          punch[p].step = "write" /\ punch[p].seen.day = "logged"
             => row.day = "logged"

LEMMA RowStaysStep == ASSUME TypeOK, RowStays, [Next]_vars PROVE RowStays'
<1> USE DEF RowStays, TypeOK
<1>1. ASSUME NEW p \in Slots, NEW step \in {"check", "read"}, NEW kind, NEW in, NEW out,
             Begin(p, step, kind, in, out), UNCHANGED <<row, edit>>
      PROVE  RowStays'
  BY <1>1 DEF Begin
<1>2. ASSUME NEW p \in Slots, NEW t, NEW isOut, Record(p, t, isOut) PROVE RowStays'
  BY <1>1, <1>2 DEF Record
<1>3. ASSUME NEW p \in Slots, Scan(p) \/ RemoteIn(p) \/ RemoteOut(p) \/ Fill(p)
      PROVE  RowStays'
  BY <1>1, <1>3 DEF Scan, RemoteIn, RemoteOut, Fill
<1>4. ASSUME NEW p \in Slots, Check(p) PROVE RowStays'
  BY <1>4 DEF Check, Upsert, Done, NoPunch
<1>5. ASSUME NEW p \in Slots, Read(p) PROVE RowStays'
  BY <1>5 DEF Read
<1>6. ASSUME NEW p \in Slots, Write(p) PROVE RowStays'
  <2>1. CASE InsertRefused(p)
    BY <2>1 DEF InsertRefused, Done, NoPunch
  <2>2. CASE UpdateClock(p)
    BY <2>2 DEF UpdateClock, Done, NoPunch
  <2>3. CASE UpdateCount(p)
    BY <2>3 DEF UpdateCount, Done, NoPunch
  <2>4. CASE Insert(p)
    BY <2>4 DEF Insert, Done, NoPunch
  <2> QED BY <1>6, <2>1, <2>2, <2>3, <2>4 DEF Write
<1>7. ASSUME NEW in, NEW out, AdminEdit(in, out) PROVE RowStays'
  BY <1>7 DEF AdminEdit
<1>8. CASE AdminWrite
  BY <1>8 DEF AdminWrite, NoEdit
<1>9. CASE Tick \/ UNCHANGED vars
  BY <1>9 DEF Tick, vars
<1> QED BY <1>2, <1>3, <1>4, <1>5, <1>6, <1>7, <1>8, <1>9 DEF Next

-----------------------------------------------------------------------------
EarliestInv == TypeOK /\ RowStays /\ SeenIsRow /\ EarliestAndLatest

LEMMA EarliestStep == ASSUME EarliestInv, [Next]_vars PROVE EarliestAndLatest'
<1> SUFFICES ASSUME ~overlapped' PROVE (EarliestIn /\ LatestOut)'
  BY DEF EarliestAndLatest, EarliestIn, LatestOut, IsEarliest, IsLatest
<1>1. ~overlapped
  BY DEF Next, Record, Scan, RemoteIn, RemoteOut, Fill, Begin, Check, Read, Write,
         UpdateClock, UpdateCount, Insert, InsertRefused, Remember, AdminEdit,
         AdminWrite, Tick, vars, history
<1>2. EarliestIn /\ LatestOut
  BY <1>1 DEF EarliestInv, EarliestAndLatest, EarliestIn, LatestOut, IsEarliest,
     IsLatest
<1>3. ASSUME NEW p \in Slots, UpdateClock(p) \/ UpdateCount(p) \/ Insert(p)
      PROVE  (EarliestIn /\ LatestOut)'
  <2>1. punch[p].seen = row
    BY <1>1, <1>3 DEF EarliestInv, SeenIsRow, UpdateClock, UpdateCount, Insert
  <2>2. /\ row'.in = IF Earlier(punch[p].in, row) THEN punch[p].in ELSE row.in
        /\ row'.out = IF Later(punch[p].out, row) THEN punch[p].out ELSE row.out
    BY <1>3, <2>1, WriteKeeps DEF EarliestInv, RowStays
  <2>3. /\ ins' = ins \cup ({punch[p].in} \ {Null})
        /\ outs' = outs \cup ({punch[p].out} \ {Null})
    BY <1>3 DEF UpdateClock, UpdateCount, Insert, Remember
  <2>4. /\ ins \in SUBSET Times /\ outs \in SUBSET Times
        /\ row.in \in Times \cup {Null} /\ row.out \in Times \cup {Null}
        /\ punch[p].in \in Times \cup {Null} /\ punch[p].out \in Times \cup {Null}
    BY DEF EarliestInv, TypeOK, HistoryOK, Row, Punch
  <2>5. EarliestIn'
    BY <1>2, <2>2, <2>3, <2>4, EarlierStep DEF EarliestIn, Earlier
  <2>6. LatestOut'
    BY <1>2, <2>2, <2>3, <2>4, LaterStep DEF LatestOut, Later
  <2> QED BY <2>5, <2>6
<1>4. CASE AdminWrite
  <2>1. edit.in \in Times \cup {Null, Keep} /\ edit.out \in Times \cup {Null, Keep}
    BY DEF EarliestInv, TypeOK, Edit
  <2>2. EarliestIn'
    <3>1. CASE edit.in = Keep
      BY <1>2, <1>4, <3>1 DEF AdminWrite, EarliestIn
    <3>2. CASE edit.in # Keep
      <4>1. row'.in = edit.in /\ ins' = {edit.in} \ {Null}
        BY <1>4, <3>2 DEF AdminWrite
      <4> QED BY <2>1, <3>2, <4>1 DEF EarliestIn, IsEarliest, Times, Null
    <3> QED BY <3>1, <3>2
  <2>3. LatestOut'
    <3>1. CASE edit.out = Keep
      BY <1>2, <1>4, <3>1 DEF AdminWrite, LatestOut
    <3>2. CASE edit.out # Keep
      <4>1. row'.out = edit.out /\ outs' = {edit.out} \ {Null}
        BY <1>4, <3>2 DEF AdminWrite
      <4> QED BY <2>1, <3>2, <4>1 DEF LatestOut, IsLatest, Times, Null
    <3> QED BY <3>1, <3>2
  <2> QED BY <2>2, <2>3
<1>5. CASE UNCHANGED <<row, ins, outs>>
  BY <1>2, <1>5 DEF EarliestIn, LatestOut
<1> QED BY <1>3, <1>4, <1>5
     DEF Next, Record, Scan, RemoteIn, RemoteOut, Fill, Check, Read, Write,
         InsertRefused, AdminEdit, Tick, vars, history

\* As long as no two requests of the day overlap, the log holds the earliest
\* clock-in and the latest clock-out of all that was recorded since an edit, in
\* whatever order and however often it came (attendance_logs.service.ts:376-447).
THEOREM EarliestAndLatestCorrect == Spec => []EarliestAndLatest
<1>1. Init => EarliestInv
  BY TypeInit DEF Init, EarliestInv, RowStays, SeenIsRow, EarliestAndLatest, NoRow,
     NoPunch, NoEdit
<1>2. EarliestInv /\ [Next]_vars => EarliestInv'
  <2>1. TypeOK /\ UNCHANGED vars => TypeOK'
    BY DEF TypeOK, HistoryOK, vars, history
  <2> QED BY <2>1, TypeStep, RowStaysStep, SeenStep, EarliestStep DEF EarliestInv
<1>3. EarliestInv => EarliestAndLatest
  BY DEF EarliestInv
<1> QED BY <1>1, <1>2, <1>3, PTL DEF Spec

-----------------------------------------------------------------------------
\* Clock-outs that scans have decided upon and not yet written keep the gap too.
FarFromIn(t) == row.in # Null /\ t - row.in >= Gap
PendingScansKeepGap ==
    ~overlapped /\ ~edited =>
        \A p \in Slots :
            punch[p].kind = "scan" /\ punch[p].out # Null => FarFromIn(punch[p].out)

GapInv == TypeOK /\ RowStays /\ SeenIsRow /\ ScansKeepGap /\ PendingScansKeepGap

\* Once raised, the flags of the history stay raised.
LEMMA FlagsStay ==
  ASSUME [Next]_vars
  PROVE  (~overlapped' => ~overlapped) /\ (~edited' => ~edited)
<1>1. ASSUME NEW p \in Slots, Remember(p)
      PROVE  (~overlapped' => ~overlapped) /\ (~edited' => ~edited)
  BY <1>1 DEF Remember
<1>2. CASE AdminWrite
  BY <1>2 DEF AdminWrite
<1>3. CASE UNCHANGED history
  BY <1>3 DEF history
<1> QED
  BY <1>1, <1>2, <1>3
     DEF Next, Record, Scan, RemoteIn, RemoteOut, Fill, Check, Read, Write,
         UpdateClock, UpdateCount, Insert, InsertRefused, AdminEdit, Tick, vars

\* Unless writes overlap or an edit intervenes, the clock-in only moves back.
LEMMA InMovesBack ==
  ASSUME TypeOK, RowStays, SeenIsRow, [Next]_vars, ~overlapped', ~edited',
         NEW t \in Times, FarFromIn(t)
  PROVE  FarFromIn(t)'
<1>1. ~overlapped
  BY FlagsStay
<1>2. ASSUME NEW p \in Slots, UpdateClock(p) \/ UpdateCount(p) \/ Insert(p)
      PROVE  FarFromIn(t)'
  <2>1. punch[p].seen = row
    BY <1>1, <1>2 DEF SeenIsRow, UpdateClock, UpdateCount, Insert
  <2>2. row'.in = IF Earlier(punch[p].in, row) THEN punch[p].in ELSE row.in
    BY <1>2, <2>1, WriteKeeps DEF RowStays
  <2>3. row.in \in Times \cup {Null} /\ punch[p].in \in Times \cup {Null}
    BY DEF TypeOK, Row, Punch
  <2> QED BY <2>2, <2>3 DEF FarFromIn, Earlier, Times, Null
<1>3. CASE AdminWrite
  BY <1>3 DEF AdminWrite
<1>4. CASE UNCHANGED row
  BY <1>4 DEF FarFromIn
<1> QED BY <1>2, <1>3, <1>4
     DEF Next, Record, Scan, RemoteIn, RemoteOut, Fill, Check, Read, Write,
         InsertRefused, AdminEdit, Tick, vars

LEMMA GapStep ==
  ASSUME GapInv, [Next]_vars PROVE (ScansKeepGap /\ PendingScansKeepGap)'
<1> SUFFICES ASSUME ~overlapped', ~edited'
             PROVE  /\ \A t \in scanOuts' : FarFromIn(t)'
                    /\ \A p \in Slots :
                          punch'[p].kind = "scan" /\ punch'[p].out # Null
                             => FarFromIn(punch[p].out)'
  BY DEF ScansKeepGap, PendingScansKeepGap, FarFromIn
<1>1. ~overlapped /\ ~edited
  BY FlagsStay
<1>2. /\ \A t \in scanOuts : FarFromIn(t)
      /\ \A p \in Slots :
            punch[p].kind = "scan" /\ punch[p].out # Null => FarFromIn(punch[p].out)
  BY <1>1 DEF GapInv, ScansKeepGap, PendingScansKeepGap, FarFromIn
<1>3. /\ scanOuts \subseteq Times
      /\ \A p \in Slots : /\ punch[p].in \in Times \cup {Null}
                          /\ punch[p].out \in Times \cup {Null}
  BY DEF GapInv, TypeOK, HistoryOK, Punch
<1>4. \A t \in Times : FarFromIn(t) => FarFromIn(t)'
  BY InMovesBack DEF GapInv
<1>5. ASSUME NEW t \in scanOuts' PROVE FarFromIn(t)'
  <2>1. CASE t \in scanOuts
    BY <1>2, <1>3, <1>4, <2>1
  <2>2. CASE \E p \in Slots : /\ punch[p].kind = "scan" /\ punch[p].out # Null
                              /\ t = punch[p].out
    BY <1>2, <1>3, <1>4, <2>2
  <2> QED BY <1>5, <2>1, <2>2
       DEF Next, Record, Scan, RemoteIn, RemoteOut, Fill, Check, Read, Write,
           UpdateClock, UpdateCount, Insert, InsertRefused, Remember, AdminEdit,
           AdminWrite, Tick, vars, history
<1>6. ASSUME NEW p \in Slots, punch'[p].kind = "scan", punch'[p].out # Null
      PROVE  FarFromIn(punch[p].out)'
  <2>1. CASE punch'[p].kind = punch[p].kind /\ punch'[p].out = punch[p].out
    BY <1>2, <1>3, <1>4, <1>6, <2>1
  <2>2. CASE Check(p)
    <3>1. punch[p].kind = "scan"
      BY <1>6, <2>2 DEF Check, Upsert, Done, NoPunch, GapInv, TypeOK
    <3>2. IsOut(punch[p].in) /\ punch'[p].out = punch[p].in
      BY <1>6, <2>2, <3>1 DEF Check, Upsert, GapInv, TypeOK
    <3>3. FarFromIn(punch[p].in) /\ punch[p].in \in Times \cup {Null}
      BY <1>3, <3>2 DEF IsOut, FarFromIn
    <3> QED BY <2>2, <3>2, <3>3 DEF Check, FarFromIn
  <2>3. CASE /\ ~Check(p)
             /\ punch'[p].kind # punch[p].kind \/ punch'[p].out # punch[p].out
    <3>1. ASSUME NEW q \in Slots, NEW step, NEW kind, NEW in, NEW out,
                 Begin(q, step, kind, in, out), kind # "scan" \/ out = Null
          PROVE  FALSE
      BY <1>6, <2>3, <3>1 DEF Begin, GapInv, TypeOK
    <3>2. ASSUME NEW q \in Slots, Done(q) PROVE FALSE
      BY <1>6, <2>3, <3>2 DEF Done, NoPunch, GapInv, TypeOK
    <3>3. ASSUME NEW q \in Slots, Check(q) PROVE FALSE
      BY <1>6, <2>3, <3>2, <3>3 DEF Check, Upsert, GapInv, TypeOK
    <3>4. ASSUME NEW q \in Slots, Read(q) PROVE FALSE
      BY <1>6, <2>3, <3>4 DEF Read, GapInv, TypeOK
    <3>5. ASSUME UNCHANGED punch PROVE FALSE
      BY <2>3, <3>5
    <3> QED BY <3>1, <3>2, <3>3, <3>4, <3>5
         DEF Next, Record, Scan, RemoteIn, RemoteOut, Fill, Write, UpdateClock,
             UpdateCount, Insert, InsertRefused, AdminEdit, AdminWrite, Tick, vars
  <2> QED BY <2>1, <2>2, <2>3
<1> QED BY <1>5, <1>6

\* Without overlapping writes and edits, a scanned clock-out is at least the gap
\* after the clock-in of the log (attendance_logs.service.ts:343-366).
THEOREM ScansKeepGapCorrect == Spec => []ScansKeepGap
<1>1. Init => GapInv
  BY TypeInit DEF Init, GapInv, RowStays, SeenIsRow, ScansKeepGap,
     PendingScansKeepGap, NoRow, NoPunch, NoEdit
<1>2. GapInv /\ [Next]_vars => GapInv'
  <2>1. TypeOK /\ UNCHANGED vars => TypeOK'
    BY DEF TypeOK, HistoryOK, vars, history
  <2> QED BY <2>1, TypeStep, RowStaysStep, SeenStep, GapStep DEF GapInv
<1>3. GapInv => ScansKeepGap
  BY DEF GapInv
<1> QED BY <1>1, <1>2, <1>3, PTL DEF Spec

\* The log keeps the first clock-in, the last clock-out and the gap of the scans.
THEOREM ClockIsKeptCorrect == Spec => []ClockIsKept
BY EarliestAndLatestCorrect, ScansKeepGapCorrect, PTL DEF ClockIsKept

-----------------------------------------------------------------------------
\* Why a stale count is right all the same, as long as nobody edits: times never
\* go away, every request but the fill brings one, and a row without times is
\* what the one fill of the day has left behind.
Blank(r) == r.in = Null /\ r.out = Null
TimesStay == \A p \in Slots :
    punch[p].step = "write" => /\ punch[p].seen.in # Null => row.in # Null
                               /\ punch[p].seen.out # Null => row.out # Null
BringsTime == \A p \in Slots :
    /\ punch[p].step # "idle" /\ punch[p].kind # "fill" => ~Blank(punch[p])
    /\ punch[p].step = "check" =>
          /\ punch[p].kind \in {"scan", "remoteIn"} => punch[p].in # Null
          /\ punch[p].kind = "remoteOut" => punch[p].out # Null
Filling(p) == punch[p].step # "idle" /\ punch[p].kind = "fill"
OneFill ==
    /\ \A p \in Slots : Filling(p) => filled
    /\ \A p, q \in Slots : Filling(p) /\ Filling(q) => p = q
BlankIsFilled ==
    row.day = "logged" /\ Blank(row) => filled /\ \A p \in Slots : ~Filling(p)
FillSeesTime == \A p \in Slots :
    Filling(p) /\ punch[p].step = "write" /\ punch[p].seen.day = "logged"
        => ~Blank(punch[p].seen)
CountRight == row.count = CountOf(row.in, row.out)
CountParts == /\ TimesStay /\ BringsTime /\ OneFill
              /\ BlankIsFilled /\ FillSeesTime /\ CountRight
CountInv == TypeOK /\ RowStays /\ (~edited => CountParts)

LEMMA BeginCount ==
  ASSUME TypeOK, CountParts, NEW p \in Slots, NEW step \in {"check", "read"},
         NEW kind, NEW in, NEW out, Begin(p, step, kind, in, out), UNCHANGED row,
         kind # "fill" => ~(in = Null /\ out = Null),
         step = "check" => /\ kind \in {"scan", "remoteIn"} => in # Null
                           /\ kind = "remoteOut" => out # Null,
         IF kind = "fill" THEN ~filled /\ filled' ELSE filled' = filled
  PROVE  CountParts'
<1>1. /\ punch[p].step = "idle"
      /\ punch' = [punch EXCEPT ![p] = [step |-> step, kind |-> kind,
                                        in |-> in, out |-> out, seen |-> NoRow]]
  BY DEF Begin
<1>2. punch \in [Slots -> Punch]
  BY DEF TypeOK
<1>3. TimesStay' /\ CountRight' /\ FillSeesTime'
  BY <1>1, <1>2 DEF CountParts, TimesStay, CountRight, FillSeesTime, Filling, Blank
<1>4. BringsTime'
  BY <1>1, <1>2 DEF CountParts, BringsTime, Blank
<1>5. OneFill'
  BY <1>1, <1>2 DEF CountParts, OneFill, Filling
<1>6. BlankIsFilled'
  BY <1>1, <1>2 DEF CountParts, BlankIsFilled, Filling, Blank
<1> QED BY <1>3, <1>4, <1>5, <1>6 DEF CountParts

\* Slot p goes on to its next step with some times, or is done; the row stays.
LEMMA MoveCount ==
  ASSUME TypeOK, CountParts, NEW p \in Slots, UNCHANGED <<row, filled>>,
         \/ Done(p)
         \/ /\ punch[p].step # "idle"
            /\ \E in, out : /\ punch[p].kind # "fill" => ~(in = Null /\ out = Null)
                            /\ Upsert(p, in, out)
         \/ Read(p)
  PROVE  CountParts'
<1>1. punch \in [Slots -> Punch] /\ row \in Row
  BY DEF TypeOK
<1>2. \A q \in Slots \ {p} : punch'[q] = punch[q]
  BY <1>1 DEF Done, Upsert, Read
<1>3. Filling(p)' => Filling(p)
  BY <1>1 DEF Done, NoPunch, Upsert, Read, Filling
<1>4. TimesStay'
  BY <1>1, <1>2 DEF CountParts, TimesStay, Done, NoPunch, Upsert, Read
<1>5. BringsTime'
  BY <1>1, <1>2 DEF CountParts, BringsTime, Blank, Done, NoPunch, Upsert, Read
<1>6. OneFill'
  BY <1>2, <1>3 DEF CountParts, OneFill, Filling
<1>7. BlankIsFilled'
  BY <1>2, <1>3 DEF CountParts, BlankIsFilled, Filling, Blank
<1>8. FillSeesTime'
  BY <1>1, <1>2 DEF CountParts, BlankIsFilled, FillSeesTime, Filling, Blank, Done,
     NoPunch, Upsert, Read
<1>9. CountRight'
  BY DEF CountParts, CountRight
<1> QED BY <1>4, <1>5, <1>6, <1>7, <1>8, <1>9 DEF CountParts

\* A write of slot p that takes no time away keeps everything but the count.
LEMMA WriteCount ==
  ASSUME TypeOK, CountParts, NEW p \in Slots, Done(p), UNCHANGED filled,
         row.in # Null => row'.in # Null, row.out # Null => row'.out # Null,
         CountRight',
         (row'.day = "logged" /\ Blank(row)')
            => \/ Filling(p)
               \/ row.day = "logged" /\ Blank(row)
  PROVE  CountParts'
<1>1. punch \in [Slots -> Punch]
  BY DEF TypeOK
<1>2. punch' = [punch EXCEPT ![p] = NoPunch] /\ NoPunch.step = "idle"
  BY DEF Done, NoPunch
<1>3. \A q \in Slots : Filling(q)' => Filling(q) /\ q # p
  BY <1>1, <1>2 DEF Filling
<1>4. TimesStay' /\ BringsTime' /\ FillSeesTime'
  BY <1>1, <1>2 DEF CountParts, TimesStay, BringsTime, FillSeesTime, Filling, Blank
<1>5. OneFill'
  BY <1>3 DEF CountParts, OneFill
<1>6. BlankIsFilled'
  BY <1>3 DEF CountParts, BlankIsFilled, OneFill
<1> QED BY <1>4, <1>5, <1>6 DEF CountParts

LEMMA CountStep == ASSUME CountInv, [Next]_vars, ~edited' PROVE CountParts'
<1>0. TypeOK /\ RowStays /\ CountParts
  BY FlagsStay DEF CountInv
<1>1. now # Null /\ \A t \in Times : t # Null
  BY <1>0 DEF TypeOK, Times, Null
<1>2. ASSUME NEW p \in Slots, NEW t \in Times, NEW isOut \in BOOLEAN,
             Record(p, t, isOut)
      PROVE  CountParts'
  BY <1>0, <1>1, <1>2, BeginCount DEF Record
<1>3. ASSUME NEW p \in Slots, Scan(p) \/ RemoteIn(p) \/ RemoteOut(p) \/ Fill(p)
      PROVE  CountParts'
  BY <1>0, <1>1, <1>3, BeginCount DEF Scan, RemoteIn, RemoteOut, Fill
<1>4. ASSUME NEW p \in Slots, Check(p) PROVE CountParts'
  <2>1. ~Blank(punch[p]) \/ punch[p].kind = "fill"
    BY <1>0, <1>4 DEF Check, CountParts, BringsTime
  <2>2. punch[p].kind = "scan" => punch[p].in # Null
    BY <1>0, <1>4 DEF Check, CountParts, BringsTime
  <2>3. CASE Done(p)
    BY <1>0, <1>4, <2>3, MoveCount DEF Check
  <2>4. CASE punch[p].kind = "scan"
    BY <1>0, <1>4, <2>2, <2>4, MoveCount DEF Check
  <2>5. CASE punch[p].kind = "remoteIn" /\ Upsert(p, punch[p].in, Null)
    <3>1. punch[p].in # Null
      BY <1>0, <1>4, <2>5 DEF Check, CountParts, BringsTime
    <3> QED BY <1>0, <1>4, <2>5, <3>1, MoveCount DEF Check
  <2>6. CASE punch[p].kind = "remoteOut" /\ Upsert(p, Null, punch[p].out)
    <3>1. punch[p].out # Null
      BY <1>0, <1>4, <2>6 DEF Check, CountParts, BringsTime
    <3> QED BY <1>0, <1>4, <2>6, <3>1, MoveCount DEF Check
  <2>7. CASE punch[p].kind = "fill"
    BY <1>0, <1>4, <2>7, MoveCount DEF Check
  <2> QED BY <1>4, <2>3, <2>4, <2>5, <2>6, <2>7 DEF Check
<1>5. ASSUME NEW p \in Slots, Read(p) \/ InsertRefused(p) PROVE CountParts'
  BY <1>0, <1>5, MoveCount DEF Read, InsertRefused
<1>6. ASSUME NEW p \in Slots, UpdateClock(p) PROVE CountParts'
  <2>1. /\ Done(p) /\ UNCHANGED filled
        /\ row.in # Null => row'.in # Null
        /\ row.out # Null => row'.out # Null
        /\ ~Blank(row)'
        /\ row'.count = 1
    BY <1>6 DEF UpdateClock, Earlier, Later, Blank, CountOf
  <2>2. CountRight'
    BY <2>1 DEF CountRight, CountOf, Blank
  <2> QED BY <1>0, <2>1, <2>2, WriteCount
<1>7. ASSUME NEW p \in Slots, UpdateCount(p) PROVE CountParts'
  <2>1. /\ Done(p) /\ UNCHANGED filled
        /\ row'.day = row.day /\ row'.in = row.in /\ row'.out = row.out
    BY <1>0, <1>7 DEF UpdateCount, TypeOK, Row
  <2>2. ~Blank(punch[p].seen)
    BY <1>0, <1>7 DEF UpdateCount, Earlier, Later, CountParts, BringsTime,
       FillSeesTime, Filling, Blank
  <2>3. ~Blank(row)
    BY <1>0, <1>7, <2>2 DEF UpdateCount, CountParts, TimesStay, Blank
  <2>4. CountRight'
    BY <1>0, <1>7, <2>1, <2>2, <2>3
       DEF UpdateCount, CountRight, CountParts, CountOf, Blank
  <2> QED BY <1>0, <2>1, <2>3, <2>4, WriteCount DEF Blank
<1>8. ASSUME NEW p \in Slots, Insert(p) PROVE CountParts'
  <2>1. Done(p) /\ UNCHANGED filled /\ CountRight'
    BY <1>8 DEF Insert, CountRight
  <2>2. row'.in = punch[p].in /\ row'.out = punch[p].out
    BY <1>8 DEF Insert
  <2>3. Blank(row)' => Filling(p)
    BY <1>0, <1>8, <2>2 DEF Insert, CountParts, BringsTime, Filling, Blank
  <2>4. Blank(row)
    BY <1>0, <1>8 DEF Insert, RowStays, Blank
  <2> QED BY <1>0, <2>1, <2>2, <2>3, <2>4, WriteCount DEF Blank
<1>9. CASE AdminWrite
  BY <1>9 DEF AdminWrite
<1>10. CASE UNCHANGED <<row, punch, filled>>
  BY <1>0, <1>10 DEF CountParts, TimesStay, BringsTime, OneFill, BlankIsFilled,
     FillSeesTime, CountRight, Filling, Blank
<1> QED BY <1>2, <1>3, <1>4, <1>5, <1>6, <1>7, <1>8, <1>9, <1>10
     DEF Next, Write, AdminEdit, Tick, vars

\* Unless an administrator edits the log, the count says whether there is a
\* time, also when writes overlap and the count comes from a stale row
\* (attendance_logs.service.ts:395-433).
THEOREM CountUnlessEditedCorrect == Spec => []CountUnlessEdited
<1>1. Init => CountInv
  BY TypeInit
     DEF Init, CountInv, RowStays, NoEdit, CountParts, TimesStay, BringsTime, OneFill,
         BlankIsFilled, FillSeesTime, CountRight, Filling, Blank, NoRow, NoPunch,
         CountOf
<1>2. CountInv /\ [Next]_vars => CountInv'
  <2>1. TypeOK /\ UNCHANGED vars => TypeOK'
    BY DEF TypeOK, HistoryOK, vars, history
  <2> QED BY <2>1, TypeStep, RowStaysStep, CountStep DEF CountInv
<1>3. CountInv => CountUnlessEdited
  BY DEF CountInv, CountParts, CountRight, CountOf, CountUnlessEdited
<1> QED BY <1>1, <1>2, <1>3, PTL DEF Spec

-----------------------------------------------------------------------------
(* The reminders.                                                          *)

USE ReminderBounds

\* The reminders never touch the log.
LEMMA LogBeside == ReminderNext => [Next]_vars
<1>1. ASSUME Tick PROVE Next
  BY <1>1 DEF Next
<1> QED
  BY <1>1 DEF ReminderNext, LogStep, Minute, ApproveLeave, LoadClockIn, LoadLeave,
              RemindClockIn, LoadClockOut, RemindClockOut, RunFails

\* With the reminders beside them, the writers of the log do what they do without, so that
\* all that is proved of the log holds here (attendance_reminder.service.ts only reads it).
THEOREM RemindersKeepLog == ReminderSpec => Spec
<1>1. ReminderInit => Init
  BY DEF ReminderInit
<1>2. [ReminderNext]_reminderVars => [Next]_vars
  BY LogBeside DEF reminderVars
<1> QED BY <1>1, <1>2, PTL DEF ReminderSpec, Spec

\* The reminders' minutes are minutes of the day and do not change.
LEMMA DueType ==
  ASSUME ReminderTypeOK
  PROVE  Due("in") \in Times \cup {Null} /\ Due("out") \in Times \cup {Null}
<1>1. /\ Scheduled.start \in Times \cup {Null}
      /\ Scheduled.end \in Times \cup {Null}
  BY DEF ReminderTypeOK, Setting, Schedule, Scheduled
<1>2. \A t \in Times \cup {Null} :
        Before(t) \in Times \cup {Null} /\ After(t) \in Times \cup {Null}
  BY DEF Before, After, Times, Null
<1> QED BY <1>1, <1>2 DEF Due

LEMMA DueSame ==
  ASSUME setting' = setting PROVE Due("in")' = Due("in") /\ Due("out")' = Due("out")
BY DEF Due, Scheduled

LEMMA ReminderTypeInit == ReminderInit => ReminderTypeOK
<1> SUFFICES ASSUME ReminderInit PROVE ReminderTypeOK
  OBVIOUS
<1>1. 1 \in Times
  BY DEF Times
<1>2. BeginRun(1) \in Run /\ NoRun \in Run
  BY <1>1 DEF BeginRun, NoRun, Run, RunSteps
<1> QED BY <1>2 DEF ReminderInit, ReminderTypeOK

LEMMA ReminderTypeStep ==
  ASSUME TypeOK, ReminderTypeOK, [ReminderNext]_reminderVars PROVE ReminderTypeOK'
<1> USE DEF ReminderTypeOK
<1>1. ASSUME NEW t, NEW r \in Runs, Miss(t) \/ UNCHANGED missed PROVE missed' \in BOOLEAN
  BY <1>1 DEF Miss
<1>2. ASSUME NEW r \in Runs, NEW mail \in {"in", "out"}, NEW wanted \in BOOLEAN,
             Remind(r, mail, wanted)
      PROVE  mails' \in [{"in", "out"} -> Nat] /\ missed' \in BOOLEAN
  <2>1. mails' \in [{"in", "out"} -> Nat]
    BY <1>2 DEF Remind
  <2> QED BY <1>2, <2>1 DEF Remind, Miss
<1>3. NoRun \in Run
  BY DEF NoRun, Run, RunSteps, Times
<1>4. ASSUME NEW r \in Runs, NEW s \in Run, run' = [run EXCEPT ![r] = s]
      PROVE  run' \in [Runs -> Run]
  BY <1>4
<1>5. CASE LogStep
  BY <1>5 DEF LogStep, reminder
<1>6. CASE Minute
  <2>1. now' \in Times
    BY <1>6 DEF Minute, Tick, TypeOK, Times
  <2>2. BeginRun(now') \in Run
    BY <2>1 DEF BeginRun, Run, RunSteps
  <2> QED BY <1>6, <2>2 DEF Minute, Miss
<1>7. CASE ApproveLeave
  BY <1>7 DEF ApproveLeave
<1>8. ASSUME NEW r \in Runs, LoadClockIn(r) PROVE ReminderTypeOK'
  <2>1. [step |-> "leave", since |-> run[r].since, in |-> row.in # Null, out |-> FALSE,
         away |-> FALSE] \in Run
    BY DEF Run, RunSteps
  <2> QED BY <1>4, <1>8, <2>1 DEF LoadClockIn
<1>9. ASSUME NEW r \in Runs, LoadLeave(r) PROVE ReminderTypeOK'
  <2>1. [step |-> "remindIn", since |-> run[r].since, in |-> run[r].in, out |-> FALSE,
         away |-> leave] \in Run
    BY DEF Run, RunSteps
  <2> QED BY <1>4, <1>9, <2>1 DEF LoadLeave
<1>10. ASSUME NEW r \in Runs, RemindClockIn(r) PROVE ReminderTypeOK'
  <2>1. run' \in [Runs -> Run]
    BY <1>10 DEF RemindClockIn, GoOn, Run, RunSteps
  <2> QED BY <1>2, <1>10, <2>1 DEF RemindClockIn
<1>11. ASSUME NEW r \in Runs, LoadClockOut(r) PROVE ReminderTypeOK'
  <2>1. [step |-> "remindOut", since |-> run[r].since, in |-> row.in # Null,
         out |-> row.out # Null, away |-> FALSE] \in Run
    BY DEF Run, RunSteps
  <2> QED BY <1>4, <1>11, <2>1 DEF LoadClockOut
<1>12. ASSUME NEW r \in Runs, RemindClockOut(r) PROVE ReminderTypeOK'
  BY <1>2, <1>3, <1>4, <1>12 DEF RemindClockOut
<1>13. ASSUME NEW r \in Runs, RunFails(r) PROVE ReminderTypeOK'
  BY <1>1, <1>3, <1>4, <1>13 DEF RunFails
<1>14. CASE UNCHANGED reminderVars
  BY <1>14 DEF reminderVars, reminder
<1> QED BY <1>5, <1>6, <1>7, <1>8, <1>9, <1>10, <1>11, <1>12, <1>13, <1>14 DEF ReminderNext

\* The clock-in of the log is one that was recorded.
InRecorded == ~edited => row.in \in ins \cup {Null}

LEMMA InRecordedStep == ASSUME TypeOK, InRecorded, [Next]_vars PROVE InRecorded'
<1> USE DEF InRecorded
<1>1. ASSUME NEW p \in Slots, Remember(p), row'.in \in {row.in, punch[p].in}
      PROVE  InRecorded'
  BY <1>1 DEF Remember
<1>2. ASSUME NEW p \in Slots, UpdateClock(p) PROVE InRecorded'
  BY <1>1, <1>2 DEF UpdateClock
<1>3. ASSUME NEW p \in Slots, UpdateCount(p) PROVE InRecorded'
  BY <1>1, <1>3 DEF UpdateCount
<1>4. ASSUME NEW p \in Slots, Insert(p) PROVE InRecorded'
  BY <1>1, <1>4 DEF Insert
<1>5. CASE AdminWrite
  BY <1>5 DEF AdminWrite
<1>6. CASE UNCHANGED <<row, history>>
  BY <1>6 DEF history
<1> QED
  BY <1>2, <1>3, <1>4, <1>5, <1>6
     DEF Next, Record, Scan, RemoteIn, RemoteOut, Fill, Check, Read, Write, InsertRefused,
         AdminEdit, Tick, vars

Active(r) == run[r].step # "idle"
BeforeMail(r) == run[r].step \in {"logs", "leave", "remindIn"}

\* There is one run at a time, and it began in this minute or before.
OneRun ==
    /\ \A q, r \in Runs : Active(q) /\ Active(r) => q = r
    /\ \A r \in Runs : Active(r) => run[r].since <= now

\* A reminder sent was due, and in the minute it was due no run will come to it again.
SentOnce ==
    /\ mails["in"] \in {0, 1} /\ mails["out"] \in {0, 1}
    /\ mails["in"] = 1 => /\ Due("in") # Null /\ Due("in") <= now
                          /\ Due("in") = now => \A r \in Runs : ~BeforeMail(r)
    /\ mails["out"] = 1 => /\ Due("out") # Null /\ Due("out") <= now
                           /\ Due("out") = now => \A r \in Runs : ~Active(r)

Wanted ==
    /\ setting.active /\ ~setting.weekend
    /\ Due("in") # Null /\ Due("in") <= now
    /\ ~missed /\ ~leave /\ ins = {} /\ ~edited

\* Whoever is to be reminded was, or the run of that minute is on its way to do so and has
\* read nothing that keeps it from it.
SentOrComing ==
    Wanted => \/ mails["in"] = 1
              \/ \E r \in Runs : /\ BeforeMail(r) /\ run[r].since = Due("in")
                                 /\ ~run[r].in /\ ~run[r].away

ReminderInv == TypeOK /\ ReminderTypeOK /\ InRecorded /\ OneRun /\ SentOnce /\ SentOrComing

LEMMA ReminderInvInit == ReminderInit => ReminderInv
<1> SUFFICES ASSUME ReminderInit PROVE ReminderInv
  OBVIOUS
<1>1. TypeOK /\ ReminderTypeOK
  BY TypeInit, ReminderTypeInit DEF ReminderInit
<1>2. InRecorded
  BY DEF ReminderInit, Init, InRecorded, NoRow
<1>3. PICK r \in Runs : run = [q \in Runs |-> IF q = r THEN BeginRun(1) ELSE NoRun]
  BY DEF ReminderInit
<1>4. now = 1 /\ mails = [m \in {"in", "out"} |-> 0]
  BY DEF ReminderInit, Init
<1>5. /\ run[r].step = "logs" /\ run[r].since = 1 /\ ~run[r].in /\ ~run[r].away
      /\ \A q \in Runs \ {r} : run[q].step = "idle"
  BY <1>3 DEF BeginRun, NoRun
<1>6. OneRun
  BY <1>4, <1>5 DEF OneRun, Active
<1>7. SentOnce
  BY <1>4 DEF SentOnce
<1>8. SentOrComing
  <2>1. Due("in") \in Times \cup {Null}
    BY <1>1, DueType
  <2>2. Wanted => Due("in") = 1
    BY <1>4, <2>1 DEF Wanted, Times
  <2> QED BY <1>5, <2>2 DEF SentOrComing, BeforeMail
<1> QED BY <1>1, <1>2, <1>6, <1>7, <1>8 DEF ReminderInv

\* What one run does leaves the others alone, and the times it has.
RunStep(r) ==
    \/ LoadClockIn(r) \/ LoadLeave(r) \/ RemindClockIn(r)
    \/ LoadClockOut(r) \/ RemindClockOut(r) \/ RunFails(r)

LEMMA RunStepParts ==
  ASSUME ReminderTypeOK, NEW r \in Runs, RunStep(r)
  PROVE  /\ Active(r)
         /\ \A q \in Runs \ {r} : run'[q] = run[q]
         /\ Active(r)' => run'[r].since = run[r].since
         /\ BeforeMail(r)' => BeforeMail(r)
         /\ UNCHANGED <<vars, setting, leave>>
BY DEF ReminderTypeOK, Run, RunStep, Active, BeforeMail, LoadClockIn, LoadLeave,
       RemindClockIn, LoadClockOut, RemindClockOut, RunFails, GoOn, NoRun

LEMMA OneRunStep ==
  ASSUME ReminderInv, [ReminderNext]_reminderVars PROVE OneRun'
<1> USE DEF OneRun
<1>1. OneRun /\ ReminderTypeOK /\ now \in Nat
  BY DEF ReminderInv, TypeOK, Times
<1>2. ASSUME NEW r \in Runs, RunStep(r) PROVE OneRun'
  <2>1. now' = now
    BY <1>1, <1>2, RunStepParts DEF vars
  <2> QED BY <1>1, <1>2, <2>1, RunStepParts DEF Active
<1>3. CASE Minute
  <2>1. now' = now + 1
    BY <1>3 DEF Minute, Tick
  <2>2. \A r \in Runs : run[r].since \in Nat
    BY <1>1 DEF ReminderTypeOK, Run, Times
  <2>3. CASE \E r \in Runs : MayBegin(r)
    <3>1. PICK r \in Runs : MayBegin(r) /\ run' = [run EXCEPT ![r] = BeginRun(now')]
      BY <1>3, <2>3 DEF Minute
    <3>2. run'[r].since = now' /\ \A q \in Runs \ {r} : run'[q].step = "idle"
      BY <1>1, <3>1 DEF MayBegin, BeginRun, ReminderTypeOK
    <3> QED BY <1>1, <2>1, <3>2 DEF Active
  <2>4. CASE ~\E r \in Runs : MayBegin(r)
    <3>1. run' = run
      BY <1>3, <2>4 DEF Minute
    <3> QED BY <1>1, <2>1, <2>2, <3>1 DEF Active
  <2> QED BY <2>3, <2>4
<1>4. CASE UNCHANGED <<now, run>>
  BY <1>1, <1>4 DEF Active
<1> QED
  BY <1>2, <1>3, <1>4
     DEF ReminderNext, RunStep, LogStep, ApproveLeave, reminderVars, reminder, vars

\* A reminder is sent at most once more than it was, and only when it is due.
LEMMA RemindParts ==
  ASSUME ReminderTypeOK, NEW r \in Runs, NEW mail \in {"in", "out"}, NEW wanted \in BOOLEAN,
         Remind(r, mail, wanted)
  PROVE  /\ \A m \in {"in", "out"} \ {mail} : mails'[m] = mails[m]
         /\ \/ mails'[mail] = mails[mail]
            \/ mails'[mail] = mails[mail] + 1 /\ now = Due(mail)
BY DEF Remind, ReminderTypeOK

LEMMA SentOnceStep ==
  ASSUME ReminderInv, [ReminderNext]_reminderVars PROVE SentOnce'
<1> USE DEF SentOnce
<1>1. /\ SentOnce /\ ReminderTypeOK /\ OneRun
      /\ now \in Nat /\ now # Null
      /\ Due("in") \in Nat /\ Due("out") \in Nat
  BY DueType DEF ReminderInv, TypeOK, Times, Null
<1>2. \A r \in Runs : BeforeMail(r) => Active(r)
  BY DEF BeforeMail, Active
<1>3. Due("in")' = Due("in") /\ Due("out")' = Due("out")
  <2>1. setting' = setting
    BY DEF ReminderNext, LogStep, Minute, ApproveLeave, LoadClockIn, LoadLeave,
           RemindClockIn, LoadClockOut, RemindClockOut, RunFails, reminderVars, reminder
  <2> QED BY <2>1, DueSame
<1>4. ASSUME UNCHANGED mails, now' = now,
             \A r \in Runs : /\ BeforeMail(r)' => BeforeMail(r)
                             /\ Active(r)' => Active(r)
      PROVE  SentOnce'
  BY <1>1, <1>3, <1>4
<1>5. ASSUME NEW r \in Runs, RunStep(r), UNCHANGED mails PROVE SentOnce'
  <2>1. /\ now' = now /\ Active(r) /\ \A q \in Runs \ {r} : run'[q] = run[q]
        /\ BeforeMail(r)' => BeforeMail(r)
    BY <1>1, <1>5, RunStepParts DEF vars
  <2>2. \A q \in Runs : /\ BeforeMail(q)' => BeforeMail(q)
                        /\ Active(q)' => Active(q)
    BY <2>1 DEF BeforeMail, Active
  <2> QED BY <1>4, <1>5, <2>1, <2>2
<1>6. ASSUME NEW r \in Runs, RemindClockIn(r) PROVE SentOnce'
  <2>1. /\ now' = now /\ BeforeMail(r) /\ Active(r)
        /\ \A q \in Runs \ {r} : run'[q] = run[q]
        /\ run'[r].step = "logsAgain"
    BY <1>1, <1>6 DEF RemindClockIn, BeforeMail, Active, GoOn, ReminderTypeOK, Run, vars
  <2>2. \A q \in Runs : ~BeforeMail(q)'
    BY <1>1, <1>2, <2>1 DEF OneRun, BeforeMail, Active
  <2>3. \A q \in Runs : Active(q)' => Active(q)
    BY <2>1 DEF Active
  <2>4. /\ mails'["out"] = mails["out"]
        /\ \/ mails'["in"] = mails["in"]
           \/ mails'["in"] = mails["in"] + 1 /\ now = Due("in")
    BY <1>1, <1>6, RemindParts DEF RemindClockIn
  <2>5. mails'["in"] = mails["in"] + 1 => mails["in"] = 0
    BY <1>1, <2>1, <2>4
  <2> QED BY <1>1, <1>3, <2>1, <2>2, <2>3, <2>4, <2>5
<1>7. ASSUME NEW r \in Runs, RemindClockOut(r) PROVE SentOnce'
  <2>1. /\ now' = now /\ Active(r)
        /\ \A q \in Runs \ {r} : run'[q] = run[q]
        /\ run'[r].step = "idle"
    BY <1>1, <1>7 DEF RemindClockOut, Active, NoRun, ReminderTypeOK, vars
  <2>2. \A q \in Runs : ~Active(q)'
    BY <1>1, <2>1 DEF OneRun, Active
  <2>3. \A q \in Runs : BeforeMail(q)' => BeforeMail(q)
    BY <2>2 DEF BeforeMail, Active
  <2>4. /\ mails'["in"] = mails["in"]
        /\ \/ mails'["out"] = mails["out"]
           \/ mails'["out"] = mails["out"] + 1 /\ now = Due("out")
    BY <1>1, <1>7, RemindParts DEF RemindClockOut
  <2>5. mails'["out"] = mails["out"] + 1 => mails["out"] = 0
    BY <1>1, <2>1, <2>4
  <2> QED BY <1>1, <1>3, <2>1, <2>2, <2>3, <2>4, <2>5
<1>8. CASE Minute
  <2>1. now' = now + 1 /\ mails' = mails
    BY <1>8 DEF Minute, Tick
  <2> QED BY <1>1, <1>3, <2>1
<1>9. CASE UNCHANGED <<now, run, mails>>
  BY <1>4, <1>9 DEF BeforeMail, Active
<1> QED
  BY <1>5, <1>6, <1>7, <1>8, <1>9
     DEF ReminderNext, RunStep, LogStep, ApproveLeave, LoadClockIn, LoadLeave, LoadClockOut,
         RunFails, reminderVars, reminder, vars

\* No clock-in and no edit is forgotten.
LEMMA RecordsStay ==
  ASSUME [Next]_vars, ins' = {}, ~edited' PROVE ins = {} /\ ~edited
<1>1. ASSUME NEW p \in Slots, Remember(p) PROVE ins = {} /\ ~edited
  BY <1>1 DEF Remember
<1>2. ~AdminWrite
  BY DEF AdminWrite
<1>3. CASE UNCHANGED history
  BY <1>3 DEF history
<1> QED
  BY <1>1, <1>2, <1>3
     DEF Next, Record, Scan, RemoteIn, RemoteOut, Fill, Check, Read, Write, UpdateClock,
         UpdateCount, Insert, InsertRefused, AdminEdit, Tick, vars

LEMMA SentOrComingStep ==
  ASSUME ReminderInv, [ReminderNext]_reminderVars PROVE SentOrComing'
<1> SUFFICES ASSUME Wanted'
             PROVE  \/ mails'["in"] = 1
                    \/ \E r \in Runs : /\ BeforeMail(r)' /\ run'[r].since = Due("in")'
                                       /\ ~run'[r].in /\ ~run'[r].away
  BY DEF SentOrComing
<1> DEFINE d == Due("in")
           Ready(r) == BeforeMail(r) /\ run[r].since = d /\ ~run[r].in /\ ~run[r].away
           Goal == mails'["in"] = 1 \/ \E r \in Runs : Ready(r)'
<1>1. /\ SentOrComing /\ SentOnce /\ OneRun /\ ReminderTypeOK /\ TypeOK /\ InRecorded
      /\ now \in Nat /\ d \in Nat
  BY DueType DEF ReminderInv, TypeOK, Times, Null
<1>2. setting' = setting /\ [Next]_vars
  BY LogBeside
     DEF ReminderNext, LogStep, Minute, ApproveLeave, LoadClockIn, LoadLeave,
         RemindClockIn, LoadClockOut, RemindClockOut, RunFails, reminderVars, reminder
<1>3. d' = d
  BY <1>2, DueSame
<1>4. SUFFICES Goal
  BY <1>3
<1>5. /\ setting.active /\ ~setting.weekend
      /\ d # Null /\ d <= now'
      /\ ~missed' /\ ~leave' /\ ins = {} /\ ~edited
  <2>1. ins' = {} /\ ~edited'
    BY DEF Wanted
  <2>2. ins = {} /\ ~edited
    BY <1>2, <2>1, RecordsStay
  <2> QED BY <1>2, <1>3, <2>2 DEF Wanted
<1>6. row.in = Null
  BY <1>1, <1>5 DEF InRecorded
<1>7. ~leave
  BY <1>5 DEF ReminderNext, LogStep, Minute, ApproveLeave, LoadClockIn, LoadLeave,
           RemindClockIn, LoadClockOut, RemindClockOut, RunFails, reminderVars, reminder
<1>8. ASSUME NEW t, Miss(t) PROVE ~missed /\ t # d
  BY <1>5, <1>8 DEF Miss
<1>9. ~missed
  BY <1>5, <1>8
     DEF ReminderNext, LogStep, Minute, ApproveLeave, LoadClockIn, LoadLeave, Remind,
         RemindClockIn, LoadClockOut, RemindClockOut, RunFails, reminderVars, reminder
<1>10. ASSUME d <= now PROVE mails["in"] = 1 \/ \E r \in Runs : Ready(r)
  BY <1>1, <1>5, <1>7, <1>9, <1>10 DEF SentOrComing, Wanted
<1>11. ASSUME d <= now, UNCHANGED <<run, mails>> PROVE Goal
  BY <1>3, <1>10, <1>11 DEF BeforeMail
<1>12. CASE Minute
  <2>1. now' = now + 1 /\ mails' = mails
    BY <1>12 DEF Minute, Tick
  <2>2. CASE \E r \in Runs : MayBegin(r)
    <3>1. PICK r \in Runs : MayBegin(r) /\ run' = [run EXCEPT ![r] = BeginRun(now')]
      BY <1>12, <2>2 DEF Minute
    <3>2. run'[r] = BeginRun(now') /\ \A q \in Runs : ~BeforeMail(q)
      BY <1>1, <3>1 DEF ReminderTypeOK, MayBegin, BeforeMail
    <3>3. CASE d <= now
      BY <1>10, <2>1, <3>2, <3>3
    <3>4. CASE d = now'
      BY <1>3, <3>2, <3>4 DEF BeginRun, BeforeMail
    <3> QED BY <1>1, <1>5, <2>1, <3>3, <3>4
  <2>3. CASE ~\E r \in Runs : MayBegin(r)
    <3>1. run' = run /\ Miss(now')
      BY <1>12, <2>3 DEF Minute
    <3>2. d # now'
      BY <1>8, <3>1
    <3>3. d <= now
      BY <1>1, <1>5, <2>1, <3>2
    <3> QED BY <1>11, <2>1, <3>1, <3>3
  <2> QED BY <2>2, <2>3
<1>13. CASE UNCHANGED <<now, run, mails>>
  BY <1>5, <1>11, <1>13
<1>14. ASSUME NEW r \in Runs, RunStep(r) PROVE Goal
  <2>1. /\ now' = now /\ Active(r) /\ \A q \in Runs \ {r} : run'[q] = run[q]
        /\ row' = row
    BY <1>1, <1>14, RunStepParts DEF vars
  <2>2. d <= now
    BY <1>5, <2>1
  <2>3. CASE mails["in"] = 1
    <3>1. UNCHANGED mails \/ RemindClockIn(r) \/ RemindClockOut(r)
      BY <1>14 DEF RunStep, LoadClockIn, LoadLeave, LoadClockOut, RunFails
    <3>2. CASE RemindClockIn(r)
      <4>1. BeforeMail(r)
        BY <3>2 DEF RemindClockIn, BeforeMail
      <4>2. now # d
        BY <1>1, <2>3, <4>1 DEF SentOnce
      <4> QED BY <1>1, <2>3, <3>2, <4>2, RemindParts DEF RemindClockIn
    <3>3. CASE RemindClockOut(r)
      BY <1>1, <2>3, <3>3, RemindParts DEF RemindClockOut
    <3> QED BY <2>3, <3>1, <3>2, <3>3
  <2>4. CASE mails["in"] # 1
    <3>1. PICK q \in Runs : Ready(q)
      BY <1>10, <2>2, <2>4
    <3>2. q = r
      BY <1>1, <2>1, <3>1 DEF OneRun, Active, BeforeMail
    <3>3. BeforeMail(r) /\ run[r].since = d /\ ~run[r].in /\ ~run[r].away
      BY <3>1, <3>2
    <3>4. ~RunFails(r)
      BY <1>8, <3>3 DEF RunFails
    <3>5. CASE LoadClockIn(r)
      BY <1>1, <1>3, <1>6, <3>3, <3>5 DEF LoadClockIn, BeforeMail, ReminderTypeOK
    <3>6. CASE LoadLeave(r)
      BY <1>1, <1>3, <1>7, <3>3, <3>6 DEF LoadLeave, BeforeMail, ReminderTypeOK
    <3>7. CASE RemindClockIn(r)
      <4>1. now = d
        BY <1>8, <3>3, <3>7 DEF RemindClockIn, Remind
      <4>2. mails["in"] = 0
        BY <1>1, <2>4 DEF SentOnce
      <4>3. Remind(r, "in", TRUE)
        BY <3>3, <3>7 DEF RemindClockIn, Remind
      <4>4. mails'["in"] = mails["in"] + 1
        BY <1>1, <1>5, <4>1, <4>3 DEF Remind, ReminderTypeOK
      <4> QED BY <4>2, <4>4
    <3> QED BY <1>14, <3>3, <3>4, <3>5, <3>6, <3>7
         DEF RunStep, BeforeMail, LoadClockOut, RemindClockOut
  <2> QED BY <2>3, <2>4
<1>15. CASE LogStep
  <2>1. UNCHANGED <<now, run, mails>>
    BY <1>15 DEF LogStep, reminder
  <2> QED BY <1>13, <2>1
<1>16. CASE ApproveLeave \/ UNCHANGED reminderVars
  <2>1. UNCHANGED <<now, run, mails>>
    BY <1>16 DEF ApproveLeave, vars, reminderVars, reminder
  <2> QED BY <1>13, <2>1
<1> QED BY <1>12, <1>14, <1>15, <1>16 DEF ReminderNext, RunStep

LEMMA InvImpliesRemindersInTime == ReminderInv => RemindersInTime
<1> SUFFICES ASSUME ReminderInv PROVE RemindersInTime
  OBVIOUS
<1>1. RemindedOnce
  BY DEF ReminderInv, SentOnce, RemindedOnce
<1>2. NobodyForgotten
  <2>1. /\ SentOrComing /\ Due("in") \in Nat /\ now \in Nat
        /\ \A r \in Runs : run[r].since \in Nat
    BY DueType DEF ReminderInv, ReminderTypeOK, TypeOK, Run, Times, Null
  <2> QED BY <2>1 DEF SentOrComing, Wanted, NobodyForgotten, BeforeMail
<1> QED BY <1>1, <1>2 DEF RemindersInTime

\* Nobody is reminded twice of the same clock, and whoever has not clocked in, is at work
\* and not on leave is reminded of it, however the runs of the job and the writers of the
\* log take turns, and whatever the clock of the day (attendance_reminder.service.ts,
\* lines 40-170), unless the run of the minute was swallowed, failed or came late.
THEOREM RemindersInTimeCorrect == ReminderSpec => []RemindersInTime
<1>1. ReminderInit => ReminderInv
  BY ReminderInvInit
<1>2. ASSUME ReminderInv, [ReminderNext]_reminderVars PROVE ReminderInv'
  <2>1. [Next]_vars
    BY <1>2, LogBeside DEF reminderVars
  <2>2. TypeOK' /\ InRecorded'
    <3>1. TypeOK /\ UNCHANGED vars => TypeOK'
      BY DEF TypeOK, HistoryOK, vars, history
    <3> QED BY <1>2, <2>1, <3>1, TypeStep, InRecordedStep DEF ReminderInv
  <2>3. ReminderTypeOK' /\ OneRun' /\ SentOnce' /\ SentOrComing'
    BY <1>2, ReminderTypeStep, OneRunStep, SentOnceStep, SentOrComingStep DEF ReminderInv
  <2> QED BY <2>2, <2>3 DEF ReminderInv
<1>3. ReminderInv => RemindersInTime
  BY InvImpliesRemindersInTime
<1> QED BY <1>1, <1>2, <1>3, PTL DEF ReminderSpec

-----------------------------------------------------------------------------
(* The chatbot's cache (Chatbot).                                          *)
HIDE ReminderBounds
HIDE DayBounds

\* What is sent to the model and kept in the cache, for a role.
PromptFor(p, r) == IsPrompt(p) /\ \A i \in DOMAIN p.prompt : p.prompt[i].id \in Tagged[r]
IsEntry(k, e) ==
  /\ e = [reply |-> e.reply, ids |-> e.ids, language |-> e.language, expired |-> e.expired,
          sound |-> e.sound]
  /\ PromptFor(e.reply, k.role) /\ e.ids \subseteq Tagged[k.role] /\ e.language \in Languages
  /\ e.expired \in BOOLEAN /\ e.sound \in BOOLEAN
IsCall(f) ==
  /\ f.op \in {"model", "save"} /\ f.key \in Keys /\ PromptFor(f.asked, f.key.role)
  /\ f.op = "save" => f.ids \subseteq Tagged[f.key.role]

\* A reload by its next statement; hashes are of the sections there are.
Hashes == UNION {[s -> 1..MaxVersion] : s \in SUBSET Sections}
ReloadState ==
  {Idle} \cup [op: {"read"}, files: Seq(Sections)] \cup [op: {"diff"}, new: Hashes]
    \cup [op: {"hash"}, new: Hashes, left: SUBSET Sections, changed: SUBSET Sections]
    \cup [op: {"delete"}, changed: SUBSET Sections]

SectionTypes ==
  /\ disk \in [Sections -> 0..MaxVersion] /\ hashes \in [Sections -> 0..MaxVersion]
  /\ sections \in Seq(Section)
  /\ \A r \in Roles : \A i \in DOMAIN assembled[r] :
       assembled[r][i] \in Section /\ assembled[r][i].id \in Tagged[r]
ReloadTypes ==
  /\ reload \in [Reloads -> ReloadState]
  /\ \A m \in Reloads : reload[m].op = "hash" => reload[m].left \subseteq DOMAIN reload[m].new
  /\ mixed \in BOOLEAN /\ doubtful \in BOOLEAN
CacheTypes ==
  /\ cache = [k \in Keys |-> cache[k]]
  /\ \A k \in Keys : cache[k] # NoEntry => IsEntry(k, cache[k])
CallTypes ==
  /\ call = [c \in Calls |-> call[c]]
  /\ \A c \in Calls : call[c] # Idle => IsCall(call[c])
  /\ edits \in 0..MaxEdits /\ requests \in 0..MaxRequests
BotTypes == SectionTypes /\ ReloadTypes /\ CacheTypes /\ CallTypes

Trusted(k) == cache[k] # NoEntry /\ cache[k].sound
\* Unless reloads overlap there is one, and while they do no answer is trusted.
OneReload == ~mixed => \A m, n \in Reloads : reload[m] # Idle /\ reload[n] # Idle => m = n
TrustedApart == mixed => \A k \in Keys : ~Trusted(k)
\* A hash that will be stored and differs is known to have changed.
ChangesKnown ==
  ~mixed => \A m \in Reloads : reload[m].op = "hash" =>
    \A id \in reload[m].left : hashes[id] # reload[m].new[id] => id \in reload[m].changed
\* The answers with the section id are to be deleted.
Condemned(id) == \E m \in Reloads : reload[m].op \in {"hash", "delete"} /\ id \in reload[m].changed
\* A trusted answer is of the stored hashes or is to be deleted.
Current(s) == s.version = hashes[s.id] \/ Condemned(s.id)
TrustedOrCondemned ==
  \A k \in Keys : Trusted(k) =>
    /\ Ids(cache[k].reply.prompt) \subseteq cache[k].ids
    /\ \A i \in DOMAIN cache[k].reply.prompt : Current(cache[k].reply.prompt[i])
CacheInv == OneReload /\ TrustedApart /\ ChangesKnown /\ TrustedOrCondemned

\* The steps of ChatbotNext by who takes them.
Conversing(c) ==
  (\E k \in Keys, l \in Languages : Converse(c, k, l)) \/ Answer(c) \/ AnswerFails(c) \/ Save(c)
ReloadingStep(m) ==
  \/ ListFiles(m) \/ ReadFile(m) \/ ReadFails(m) \/ Assemble(m) \/ Compare(m)
  \/ \E id \in Sections : StoreHash(m, id) \/ Invalidate(m, id)
  \/ SyncFails(m)

LEMMA BotSteps ==
  ASSUME [ChatbotNext]_botVars
  PROVE  \/ \E c \in Calls : Conversing(c)
         \/ \E k \in Keys : Expire(k)
         \/ \E id \in Sections, v \in 0..MaxVersion : EditFile(id, v)
         \/ \E m \in Reloads : ReloadingStep(m)
         \/ Restart
         \/ UNCHANGED botVars
BY Zenon DEF ChatbotNext, Conversing, ReloadingStep

LEMMA ReloadFields ==
  ASSUME NEW f \in ReloadState
  PROVE  /\ f.op \in {"idle", "read", "diff", "hash", "delete"} /\ (f.op = "idle" <=> f = Idle)
         /\ f.op = "read" => f \in [op: {"read"}, files: Seq(Sections)]
         /\ f.op = "diff" => f \in [op: {"diff"}, new: Hashes]
         /\ f.op = "hash" => f \in [op: {"hash"}, new: Hashes, left: SUBSET Sections,
                                    changed: SUBSET Sections]
         /\ f.op = "delete" => f \in [op: {"delete"}, changed: SUBSET Sections]
BY DEF ReloadState, Idle

LEMMA HashTypes ==
  ASSUME NEW h \in Hashes
  PROVE  DOMAIN h \subseteq Sections /\ \A id \in DOMAIN h : h[id] \in 1..MaxVersion
BY DEF Hashes

LEMMA FileList ==
  ASSUME disk \in [Sections -> 0..MaxVersion]
  PROVE  /\ SetToSeq(Files) \in Seq(Sections)
         /\ \A i \in DOMAIN SetToSeq(Files) : disk[SetToSeq(Files)[i]] \in 1..MaxVersion
<1>1. IsFiniteSet(Files) /\ Files \subseteq Sections
  BY ChatbotAssumption, FS_Subset DEF Files
<1> DEFINE n == Cardinality(Files)
<1>2. n \in Nat /\ ExistsBijection(1..n, Files)
  BY <1>1, FS_CardinalityType
<1>3. \E f \in [1..n -> Files] : IsInjective(f)
  BY <1>2 DEF ExistsBijection, Bijection, Injection
<1>4. SetToSeq(Files) \in [1..n -> Files]
  BY <1>3 DEF SetToSeq
<1> HIDE DEF n
<1>5. SetToSeq(Files) \in Seq(Sections)
  BY <1>1, <1>2, <1>4
<1>6. \A id \in Files : disk[id] \in 1..MaxVersion
  BY ChatbotAssumption DEF Files, Absent
<1> QED BY <1>4, <1>5, <1>6

LEMMA LoadedType ==
  ASSUME disk \in [Sections -> 0..MaxVersion] PROVE Loaded \in Seq(Section)
<1> DEFINE f == SetToSeq(Files)
<1>1. f \in Seq(Sections) /\ \A i \in DOMAIN f : disk[f[i]] \in 1..MaxVersion
  BY FileList
<1>2. Loaded = [i \in DOMAIN f |-> [id |-> f[i], version |-> disk[f[i]]]]
  BY DEF Loaded
<1> HIDE DEF f
<1>3. DOMAIN f = 1..Len(f) /\ Len(f) \in Nat /\ \A i \in DOMAIN f : f[i] \in Sections
  BY <1>1
<1>4. \A i \in DOMAIN f : [id |-> f[i], version |-> disk[f[i]]] \in Section
  BY <1>1, <1>3 DEF Section
<1> QED BY <1>2, <1>3, <1>4

LEMMA AssembledType ==
  ASSUME NEW s \in Seq(Section)
  PROVE  \A r \in Roles : \A i \in DOMAIN AssembleAll(s)[r] :
           AssembleAll(s)[r][i] \in Section /\ AssembleAll(s)[r][i].id \in Tagged[r]
<1> SUFFICES ASSUME NEW r \in Roles, NEW i \in DOMAIN AssembleAll(s)[r]
             PROVE  AssembleAll(s)[r][i] \in Section /\ AssembleAll(s)[r][i].id \in Tagged[r]
  OBVIOUS
<1>1. AssembleAll(s)[r] = ForRole(s, r)
  BY DEF AssembleAll
<1>2. i \in DOMAIN s /\ s[i].id \in Tagged[r] /\ ForRole(s, r)[i] = s[i]
  BY <1>1 DEF ForRole, Restrict
<1> QED BY <1>1, <1>2

LEMMA RoleIds ==
  ASSUME NEW r \in Roles PROVE SectionIdsForRole(r) \subseteq Tagged[r]
BY DEF SectionIdsForRole, ForRole, Restrict, Ids

\* The hashes of the sections in memory: of two with one name, the later counts.
LEMMA ComputedHashes ==
  ASSUME NEW s \in Seq(Section)
  PROVE  [id \in Ids(s) |->
            s[CHOOSE i \in DOMAIN s :
                s[i].id = id /\ \A j \in (i + 1)..Len(s) : s[j].id # id].version] \in Hashes
<1> DEFINE version(id) ==
             s[CHOOSE i \in DOMAIN s :
                 s[i].id = id /\ \A j \in (i + 1)..Len(s) : s[j].id # id].version
<1>1. Ids(s) \subseteq Sections
  <2>1. \A i \in DOMAIN s : s[i] \in Section
    OBVIOUS
  <2>2. \A i \in DOMAIN s : s[i].id \in Sections
    BY <2>1 DEF Section
  <2> QED BY <2>2 DEF Ids
<1>2. ASSUME NEW id \in Ids(s)
      PROVE  \E i \in DOMAIN s : s[i].id = id /\ \A j \in (i + 1)..Len(s) : s[j].id # id
  <2> DEFINE N == {Len(s) - i : i \in {j \in DOMAIN s : s[j].id = id}}
  <2>1. N \subseteq Nat /\ N # {}
    BY <1>2 DEF Ids
  <2>2. PICK n \in N : \A m \in N : <<m, n>> \notin OpToRel(<, Nat)
    BY <2>1, NatLessThanWellFounded, WFMin
  <2>3. PICK i \in DOMAIN s : s[i].id = id /\ n = Len(s) - i
    OBVIOUS
  <2>4. ASSUME NEW j \in (i + 1)..Len(s), s[j].id = id PROVE FALSE
    <3>1. j \in DOMAIN s /\ j > i /\ j \in Nat /\ i \in Nat /\ Len(s) \in Nat
      OBVIOUS
    <3>2. Len(s) - j \in N
      BY <2>4, <3>1
    <3>3. ~(Len(s) - j < n)
      BY <2>1, <2>2, <3>2 DEF OpToRel
    <3> QED BY <2>3, <3>1, <3>3
  <2> QED BY <2>3, <2>4
<1>3. ASSUME NEW id \in Ids(s)
      PROVE  version(id) \in 1..MaxVersion
  <2>1. PICK n : n = CHOOSE i \in DOMAIN s : s[i].id = id /\ \A j \in (i + 1)..Len(s) : s[j].id # id
    OBVIOUS
  <2>2. n \in DOMAIN s
    BY <1>2, <1>3, <2>1
  <2>3. s[n] \in Section
    BY <2>2
  <2>4. s[n].version \in 1..MaxVersion
    BY <2>3 DEF Section
  <2> QED BY <2>1, <2>4
<1> HIDE DEF version
<1>4. [id \in Ids(s) |-> version(id)] \in Hashes
  BY <1>1, <1>3 DEF Hashes
<1> QED BY <1>4 DEF version

LEMMA BotTypesInit == ChatbotInit => BotTypes
<1> SUFFICES ASSUME ChatbotInit PROVE BotTypes
  OBVIOUS
<1> USE ChatbotAssumption
<1>1. disk \in [Sections -> 0..MaxVersion] /\ hashes \in [Sections -> 0..MaxVersion]
  BY DEF ChatbotInit, Absent
<1>2. sections \in Seq(Section) /\ assembled = AssembleAll(sections)
  BY <1>1, LoadedType DEF ChatbotInit
<1>3. SectionTypes
  BY <1>1, <1>2, AssembledType DEF SectionTypes
<1>4. ReloadTypes
  BY DEF ChatbotInit, ReloadTypes, ReloadState, Idle
<1>5. CacheTypes /\ CallTypes
  BY DEF ChatbotInit, CacheTypes, CallTypes
<1> QED BY <1>3, <1>4, <1>5 DEF BotTypes

\* Conversations.
LEMMA ConversingTypes ==
  ASSUME BotTypes, NEW c \in Calls, Conversing(c)
  PROVE  /\ CallTypes' /\ CacheTypes'
         /\ UNCHANGED <<disk, sections, assembled, hashes, reload, mixed, doubtful>>
<1>0. /\ call = [d \in Calls |-> call[d]] /\ \A d \in Calls : call[d] # Idle => IsCall(call[d])
      /\ edits \in 0..MaxEdits /\ requests \in 0..MaxRequests
      /\ CacheTypes /\ SectionTypes
  BY DEF BotTypes, CallTypes
<1>c. UNCHANGED cache => CacheTypes'
  BY <1>0 DEF CacheTypes
<1>d. ASSUME NEW f, f = Idle \/ IsCall(f), call' = [call EXCEPT ![c] = f],
             edits' \in 0..MaxEdits, requests' \in 0..MaxRequests
      PROVE  CallTypes'
  <2>1. call' = [d \in Calls |-> IF d = c THEN f ELSE call[d]]
    BY <1>0, <1>d
  <2>2. call' = [d \in Calls |-> call'[d]]
    BY <2>1
  <2>3. \A d \in Calls : call'[d] = IF d = c THEN f ELSE call[d]
    BY <2>1
  <2>4. \A d \in Calls : call'[d] # Idle => IsCall(call'[d])
    BY <1>0, <1>d, <2>3
  <2> QED BY <1>d, <2>2, <2>4 DEF CallTypes
<1>1. ASSUME NEW k \in Keys, NEW l \in Languages, Converse(c, k, l)
      PROVE  CallTypes' /\ UNCHANGED <<disk, sections, assembled, hashes, cache, reload, mixed, doubtful>>
  <2> DEFINE p == [prompt |-> assembled[k.role], language |-> l]
             f == [op |-> "model", key |-> k, asked |-> p]
  <2>1. /\ call' = [call EXCEPT ![c] = f]
        /\ UNCHANGED <<disk, sections, assembled, hashes, cache, reload, mixed, doubtful>>
    BY <1>1 DEF Converse, SystemPrompt
  <2>2. edits' \in 0..MaxEdits /\ requests' \in 0..MaxRequests
    BY <1>0, <1>1, ChatbotAssumption DEF Converse, Ask
  <2>3. k.role \in Roles
    BY DEF Keys
  <2>4. PromptFor(p, k.role)
    BY <1>0, <2>3 DEF PromptFor, IsPrompt, SectionTypes
  <2> HIDE DEF p
  <2>5. IsCall(f)
    BY <2>4 DEF IsCall
  <2> HIDE DEF f
  <2> QED BY <1>d, <2>1, <2>2, <2>5
<1>2. ASSUME Answer(c)
      PROVE  CallTypes' /\ UNCHANGED <<disk, sections, assembled, hashes, cache, reload, mixed, doubtful>>
  <2> DEFINE f == [op |-> "save", key |-> call[c].key, asked |-> call[c].asked,
                   ids |-> SectionIdsForRole(call[c].key.role)]
  <2>1. /\ call[c].op = "model" /\ call' = [call EXCEPT ![c] = f]
        /\ UNCHANGED <<disk, sections, assembled, hashes, cache, reload, mixed, doubtful, edits,
                       requests>>
    BY <1>2 DEF Answer
  <2>2. IsCall(call[c])
    BY <1>0, <2>1 DEF Idle
  <2>3. call[c].key.role \in Roles
    BY <2>2 DEF IsCall, Keys
  <2>4. SectionIdsForRole(call[c].key.role) \subseteq Tagged[call[c].key.role]
    BY <2>3, RoleIds
  <2>5. IsCall(f)
    BY <2>2, <2>4 DEF IsCall
  <2> HIDE DEF f
  <2> QED BY <1>0, <1>d, <2>1, <2>5
<1>3. ASSUME AnswerFails(c)
      PROVE  CallTypes' /\ UNCHANGED <<disk, sections, assembled, hashes, cache, reload, mixed, doubtful>>
  BY <1>0, <1>3, <1>d DEF AnswerFails
<1>4. ASSUME Save(c) PROVE CallTypes' /\ CacheTypes' /\
             UNCHANGED <<disk, sections, assembled, hashes, reload, mixed, doubtful>>
  <2> DEFINE f == call[c]
             k == call[c].key
             l == IF cache[k] = NoEntry THEN f.asked.language ELSE cache[k].language
             s == Sound(f.asked.prompt, f.ids)
             e == [reply |-> f.asked, ids |-> f.ids, language |-> l, expired |-> FALSE, sound |-> s]
  <2>1. /\ f.op = "save" /\ call' = [call EXCEPT ![c] = Idle] /\ cache' = [cache EXCEPT ![k] = e]
        /\ UNCHANGED <<disk, sections, assembled, hashes, reload, mixed, doubtful, edits, requests>>
    BY <1>4 DEF Save
  <2>2. IsCall(f)
    BY <1>0, <2>1 DEF Idle
  <2>3. k \in Keys /\ PromptFor(f.asked, k.role) /\ f.ids \subseteq Tagged[k.role]
    BY <2>1, <2>2 DEF IsCall
  <2>4. l \in Languages
    <3>1. f.asked.language \in Languages
      BY <2>3 DEF PromptFor, IsPrompt
    <3>2. cache[k] # NoEntry => cache[k].language \in Languages
      BY <1>0, <2>3 DEF CacheTypes, IsEntry
    <3> QED BY <3>1, <3>2
  <2>5. s \in BOOLEAN
    BY DEF Sound
  <2>6. CallTypes'
    BY <1>0, <1>d, <2>1
  <2> HIDE DEF k, l, s, f
  <2>7. IsEntry(k, e)
    BY <2>3, <2>4, <2>5 DEF IsEntry
  <2> HIDE DEF e
  <2>8. cache' = [j \in Keys |-> IF j = k THEN e ELSE cache[j]]
    BY <1>0, <2>1, <2>3 DEF CacheTypes
  <2>9. CacheTypes'
    <3>1. cache' = [j \in Keys |-> cache'[j]]
      BY <2>8
    <3>2. \A j \in Keys : cache'[j] = IF j = k THEN e ELSE cache[j]
      BY <2>8
    <3>3. \A j \in Keys : cache'[j] # NoEntry => IsEntry(j, cache'[j])
      BY <1>0, <2>7, <3>2 DEF CacheTypes
    <3> QED BY <3>1, <3>3 DEF CacheTypes
  <2> QED BY <2>1, <2>6, <2>9
<1> QED BY <1>1, <1>2, <1>3, <1>4, <1>c DEF Conversing

LEMMA ExpireTypes ==
  ASSUME BotTypes, NEW k \in Keys, Expire(k)
  PROVE  /\ CacheTypes'
         /\ cache[k] # NoEntry /\ cache'[k] = [cache[k] EXCEPT !.expired = TRUE]
         /\ \A j \in Keys \ {k} : cache'[j] = cache[j]
         /\ UNCHANGED <<disk, sections, assembled, hashes, call, reload, mixed, doubtful, edits, requests>>
<1> DEFINE e == [cache[k] EXCEPT !.expired = TRUE]
<1>1. /\ cache[k] # NoEntry /\ cache' = [cache EXCEPT ![k] = e]
      /\ UNCHANGED <<disk, sections, assembled, hashes, call, reload, mixed, doubtful, edits, requests>>
  BY DEF Expire, Fresh
<1>2. IsEntry(k, cache[k]) /\ CacheTypes
  BY <1>1 DEF BotTypes, CacheTypes
<1>3. IsEntry(k, e)
  <2>1. cache[k] = [reply |-> cache[k].reply, ids |-> cache[k].ids, language |-> cache[k].language,
                    expired |-> cache[k].expired, sound |-> cache[k].sound]
    BY <1>2 DEF IsEntry
  <2>2. ASSUME NEW r, NEW t,
               r = [reply |-> r.reply, ids |-> r.ids, language |-> r.language,
                    expired |-> r.expired, sound |-> r.sound]
        PROVE  [r EXCEPT !.expired = t] = [reply |-> r.reply, ids |-> r.ids,
                  language |-> r.language, expired |-> t, sound |-> r.sound]
    BY <2>2
  <2>3. e = [reply |-> cache[k].reply, ids |-> cache[k].ids, language |-> cache[k].language,
             expired |-> TRUE, sound |-> cache[k].sound]
    BY <2>1, <2>2, Zenon
  <2> HIDE DEF e
  <2> QED BY <1>2, <2>3 DEF IsEntry
<1> HIDE DEF e
<1>4. cache' = [j \in Keys |-> IF j = k THEN e ELSE cache[j]]
  BY <1>1, <1>2 DEF CacheTypes
<1>5. cache' = [j \in Keys |-> cache'[j]] /\ \A j \in Keys : cache'[j] = IF j = k THEN e ELSE cache[j]
  BY <1>4
<1>6. CacheTypes'
  BY <1>2, <1>3, <1>5 DEF CacheTypes
<1> QED BY <1>1, <1>5, <1>6 DEF e

\* Answers that are distrusted keep all but their mark, answers of a section go.
LEMMA DistrustTypes ==
  ASSUME CacheTypes, cache' = Distrust(cache)
  PROVE  CacheTypes' /\ \A k \in Keys : cache'[k] # NoEntry => cache'[k].sound = FALSE
<1>1. cache' = [k \in Keys |-> IF cache[k] = NoEntry THEN NoEntry ELSE [cache[k] EXCEPT !.sound = FALSE]]
  BY DEF Distrust
<1>2. /\ cache' = [k \in Keys |-> cache'[k]]
      /\ \A k \in Keys : cache'[k] = IF cache[k] = NoEntry THEN NoEntry
                                     ELSE [cache[k] EXCEPT !.sound = FALSE]
  BY <1>1
<1>3. ASSUME NEW k \in Keys, cache'[k] # NoEntry
      PROVE  IsEntry(k, cache'[k]) /\ cache'[k].sound = FALSE
  <2>1. cache[k] # NoEntry /\ cache'[k] = [cache[k] EXCEPT !.sound = FALSE]
    BY <1>2, <1>3
  <2>2. IsEntry(k, cache[k])
    BY <2>1 DEF CacheTypes
  <2>3. cache[k] = [reply |-> cache[k].reply, ids |-> cache[k].ids, language |-> cache[k].language,
                    expired |-> cache[k].expired, sound |-> cache[k].sound]
    BY <2>2 DEF IsEntry
  <2>4. cache'[k] = [reply |-> cache[k].reply, ids |-> cache[k].ids, language |-> cache[k].language,
                     expired |-> cache[k].expired, sound |-> FALSE]
    BY <2>1, <2>3
  <2> QED BY <2>2, <2>4 DEF IsEntry
<1> QED BY <1>2, <1>3 DEF CacheTypes

LEMMA WithoutTypes ==
  ASSUME CacheTypes, NEW id, cache' = Without(id)
  PROVE  /\ CacheTypes'
         /\ \A k \in Keys : cache'[k] # NoEntry => cache'[k] = cache[k] /\ id \notin cache[k].ids
<1>1. cache' = [k \in Keys |-> IF cache[k] # NoEntry /\ id \in cache[k].ids THEN NoEntry ELSE cache[k]]
  BY DEF Without
<1>2. /\ cache' = [k \in Keys |-> cache'[k]]
      /\ \A k \in Keys : cache'[k] # NoEntry => cache'[k] = cache[k] /\ id \notin cache[k].ids
  BY <1>1
<1> QED BY <1>2 DEF CacheTypes

\* A reload goes on to the hashes, the deletions, or is over.
LEMMA SyncMoves ==
  ASSUME ReloadTypes, NEW m \in Reloads, NEW new \in Hashes, NEW left \in SUBSET (DOMAIN new),
         NEW changed \in SUBSET Sections, Sync(m, new, left, changed)
  PROVE  /\ reload' \in [Reloads -> ReloadState]
         /\ \A n \in Reloads \ {m} : reload'[n] = reload[n]
         /\ \/ /\ left # {} /\ mixed' = mixed
               /\ reload'[m] = [op |-> "hash", new |-> new, left |-> left, changed |-> changed]
            \/ /\ left = {} /\ changed # {} /\ mixed' = mixed
               /\ reload'[m] = [op |-> "delete", changed |-> changed]
            \/ left = {} /\ changed = {} /\ Over(m) /\ reload'[m] = Idle
<1>0. reload \in [Reloads -> ReloadState] /\ DOMAIN new \subseteq Sections
  BY HashTypes DEF ReloadTypes
<1>1. CASE left # {}
  <2> DEFINE f == [op |-> "hash", new |-> new, left |-> left, changed |-> changed]
  <2>1. reload' = [reload EXCEPT ![m] = f] /\ mixed' = mixed
    BY <1>1 DEF Sync
  <2>2. left \in SUBSET Sections
    BY <1>0
  <2>3. f \in ReloadState
    BY <2>2 DEF ReloadState
  <2> HIDE DEF f
  <2>4. reload'[m] = f /\ reload' \in [Reloads -> ReloadState]
        /\ \A n \in Reloads \ {m} : reload'[n] = reload[n]
    BY <1>0, <2>1, <2>3
  <2> QED BY <1>1, <2>1, <2>4 DEF f
<1>2. CASE left = {} /\ changed # {}
  <2> DEFINE f == [op |-> "delete", changed |-> changed]
  <2>1. reload' = [reload EXCEPT ![m] = f] /\ mixed' = mixed
    BY <1>2 DEF Sync
  <2>3. f \in ReloadState
    BY DEF ReloadState
  <2> HIDE DEF f
  <2>4. reload'[m] = f /\ reload' \in [Reloads -> ReloadState]
        /\ \A n \in Reloads \ {m} : reload'[n] = reload[n]
    BY <1>0, <2>1, <2>3
  <2> QED BY <1>2, <2>1, <2>4 DEF f
<1>3. CASE left = {} /\ changed = {}
  <2>1. Over(m)
    BY <1>3 DEF Sync
  <2>2. reload' = [reload EXCEPT ![m] = Idle] /\ Idle \in ReloadState
    BY <2>1 DEF Over, ReloadState
  <2> QED BY <1>0, <1>3, <2>1, <2>2
<1> QED BY <1>1, <1>2, <1>3

\* A reload and what it leaves alone.
LEMMA ReloadingTypes ==
  ASSUME BotTypes, NEW m \in Reloads, ReloadingStep(m)
  PROVE  /\ BotTypes'
         /\ UNCHANGED <<disk, call>>
         /\ \A n \in Reloads \ {m} : reload'[n] = reload[n]
<1>0. /\ SectionTypes /\ ReloadTypes /\ CacheTypes /\ CallTypes
      /\ reload \in [Reloads -> ReloadState] /\ reload[m] \in ReloadState
      /\ mixed \in BOOLEAN /\ doubtful \in BOOLEAN
      /\ edits \in 0..MaxEdits /\ requests \in 0..MaxRequests
      /\ MaxRequests \in Nat /\ MaxVersion \in Nat
  BY ChatbotAssumption DEF BotTypes, ReloadTypes, CallTypes
<1> DEFINE Goal == /\ BotTypes' /\ UNCHANGED <<disk, call>>
                   /\ \A n \in Reloads \ {m} : reload'[n] = reload[n]
<1>s. UNCHANGED <<disk, sections, assembled, hashes>> => SectionTypes'
  BY <1>0 DEF SectionTypes
<1>c. UNCHANGED cache => CacheTypes'
  BY <1>0 DEF CacheTypes
<1>k. UNCHANGED call /\ edits' \in 0..MaxEdits /\ requests' \in 0..MaxRequests => CallTypes'
  BY <1>0 DEF CallTypes
<1>r. ASSUME NEW f \in ReloadState, reload' = [reload EXCEPT ![m] = f],
             f.op = "hash" => f.left \subseteq DOMAIN f.new,
             mixed' \in BOOLEAN, doubtful' \in BOOLEAN
      PROVE  ReloadTypes' /\ \A n \in Reloads \ {m} : reload'[n] = reload[n]
  <2>1. /\ reload' \in [Reloads -> ReloadState] /\ reload'[m] = f
        /\ \A n \in Reloads \ {m} : reload'[n] = reload[n]
    BY <1>0, <1>r
  <2>2. \A n \in Reloads : reload'[n].op = "hash" => reload'[n].left \subseteq DOMAIN reload'[n].new
    BY <1>0, <1>r, <2>1 DEF ReloadTypes
  <2> QED BY <1>r, <2>1, <2>2 DEF ReloadTypes
<1>o. ASSUME Over(m), UNCHANGED doubtful
      PROVE  ReloadTypes' /\ \A n \in Reloads \ {m} : reload'[n] = reload[n]
  <2>1. Idle \in ReloadState /\ Idle.op # "hash"
    BY DEF ReloadState, Idle
  <2>2. reload' = [reload EXCEPT ![m] = Idle]
    BY <1>o DEF Over
  <2>3. mixed' \in BOOLEAN
    BY <1>0, <1>o, Zenon DEF Over
  <2>4. doubtful' \in BOOLEAN
    BY <1>0, <1>o, Zenon
  <2> QED BY <1>r, <2>1, <2>2, <2>3, <2>4
<1>1. ASSUME ListFiles(m) PROVE Goal
  <2> DEFINE f == [op |-> "read", files |-> SetToSeq(Files)]
  <2>1. /\ reload' = [reload EXCEPT ![m] = f] /\ sections' = <<>>
        /\ mixed' = (Reloading # {})
        /\ cache' = IF mixed' THEN Distrust(cache) ELSE cache
        /\ UNCHANGED <<disk, assembled, hashes, call, doubtful, edits>>
        /\ requests' \in 0..MaxRequests
    BY <1>0, <1>1 DEF ListFiles, Ask
  <2>2. SetToSeq(Files) \in Seq(Sections)
    BY <1>0, FileList DEF SectionTypes
  <2>3. f \in ReloadState /\ f.op # "hash"
    BY <2>2 DEF ReloadState
  <2> HIDE DEF f
  <2>4. mixed' \in BOOLEAN /\ doubtful' \in BOOLEAN
    BY <1>0, <2>1, Zenon
  <2>5. ReloadTypes' /\ \A n \in Reloads \ {m} : reload'[n] = reload[n]
    BY <1>r, <2>1, <2>3, <2>4
  <2>6. sections' \in Seq(Section)
    BY <2>1
  <2>7. SectionTypes'
    BY <1>0, <2>1, <2>6 DEF SectionTypes
  <2>8. CacheTypes'
    <3>1. CASE cache' = cache
      BY <1>c, <3>1
    <3>2. CASE cache' = Distrust(cache)
      BY <1>0, <3>2, DistrustTypes
    <3> QED BY <2>1, <3>1, <3>2
  <2> QED BY <1>0, <1>k, <2>1, <2>5, <2>7, <2>8 DEF BotTypes
<1>2. ASSUME ReadFile(m) PROVE Goal
  <2> DEFINE f == [reload[m] EXCEPT !.files = Tail(reload[m].files)]
             x == [id |-> Head(reload[m].files), version |-> disk[Head(reload[m].files)]]
  <2>1. /\ reload[m].op = "read" /\ reload[m].files # <<>> /\ disk[Head(reload[m].files)] # Absent
        /\ sections' = Append(sections, x) /\ reload' = [reload EXCEPT ![m] = f]
        /\ UNCHANGED <<disk, assembled, hashes, cache, call, mixed, doubtful, edits, requests>>
    BY <1>2 DEF ReadFile
  <2>2. reload[m] \in [op: {"read"}, files: Seq(Sections)]
    BY <1>0, <2>1, ReloadFields
  <2>3. Head(reload[m].files) \in Sections /\ Tail(reload[m].files) \in Seq(Sections)
    BY <2>1, <2>2, HeadTailProperties
  <2>4. f \in [op: {"read"}, files: Seq(Sections)]
    BY <2>2, <2>3
  <2>5. f \in ReloadState /\ f.op # "hash"
    BY <2>4 DEF ReloadState
  <2>6. x \in Section
    <3>1. disk[Head(reload[m].files)] \in 1..MaxVersion
      BY <1>0, <2>1, <2>3 DEF SectionTypes, Absent
    <3> QED BY <2>3, <3>1 DEF Section
  <2> HIDE DEF f, x
  <2>7. ReloadTypes' /\ \A n \in Reloads \ {m} : reload'[n] = reload[n]
    <3>1. mixed' \in BOOLEAN /\ doubtful' \in BOOLEAN
      BY <1>0, <2>1, Zenon
    <3> QED BY <1>r, <2>1, <2>5, <3>1
  <2>8. sections' \in Seq(Section)
    BY <1>0, <2>1, <2>6, AppendProperties DEF SectionTypes
  <2>9. SectionTypes'
    BY <1>0, <2>1, <2>8 DEF SectionTypes
  <2> QED BY <1>0, <1>c, <1>k, <2>1, <2>7, <2>9 DEF BotTypes
<1>3. ASSUME ReadFails(m) PROVE Goal
  BY <1>0, <1>3, <1>o, <1>s, <1>c, <1>k DEF ReadFails, BotTypes
<1>4. ASSUME Assemble(m) PROVE Goal
  <2> DEFINE h == [id \in Ids(sections) |->
                     sections[CHOOSE i \in DOMAIN sections :
                       sections[i].id = id /\ \A j \in (i + 1)..Len(sections) : sections[j].id # id
                     ].version]
             f == [op |-> "diff", new |-> h]
  <2>1. /\ assembled' = AssembleAll(sections) /\ doubtful' = mixed
        /\ reload' = [reload EXCEPT ![m] = f]
        /\ UNCHANGED <<disk, sections, hashes, cache, call, mixed, edits, requests>>
    BY <1>4 DEF Assemble
  <2>2. h \in Hashes
    BY <1>0, ComputedHashes DEF SectionTypes
  <2> HIDE DEF h
  <2>3. f \in ReloadState /\ f.op # "hash"
    BY <2>2 DEF ReloadState
  <2> HIDE DEF f
  <2>4. ReloadTypes' /\ \A n \in Reloads \ {m} : reload'[n] = reload[n]
    <3>1. mixed' \in BOOLEAN /\ doubtful' \in BOOLEAN
      BY <1>0, <2>1, Zenon
    <3> QED BY <1>r, <2>1, <2>3, <3>1
  <2>5. SectionTypes'
    BY <1>0, <2>1, AssembledType DEF SectionTypes
  <2> QED BY <1>0, <1>c, <1>k, <2>1, <2>4, <2>5 DEF BotTypes
<1>y. ASSUME NEW new \in Hashes, NEW left \in SUBSET (DOMAIN new), NEW changed \in SUBSET Sections,
             Sync(m, new, left, changed), UNCHANGED doubtful
      PROVE  ReloadTypes' /\ \A n \in Reloads \ {m} : reload'[n] = reload[n]
  <2>1. /\ reload' \in [Reloads -> ReloadState]
        /\ \A n \in Reloads \ {m} : reload'[n] = reload[n]
        /\ \/ mixed' = mixed
              /\ reload'[m] = [op |-> "hash", new |-> new, left |-> left, changed |-> changed]
           \/ mixed' = mixed /\ reload'[m] = [op |-> "delete", changed |-> changed]
           \/ Over(m) /\ reload'[m] = Idle
    <3>1. /\ reload' \in [Reloads -> ReloadState]
          /\ \A n \in Reloads \ {m} : reload'[n] = reload[n]
          /\ \/ /\ left # {} /\ mixed' = mixed
                /\ reload'[m] = [op |-> "hash", new |-> new, left |-> left, changed |-> changed]
             \/ /\ left = {} /\ changed # {} /\ mixed' = mixed
                /\ reload'[m] = [op |-> "delete", changed |-> changed]
             \/ left = {} /\ changed = {} /\ Over(m) /\ reload'[m] = Idle
      BY <1>0, <1>y, SyncMoves
    <3> QED BY <3>1, Zenon
  <2>2. reload'[m].op = "hash" => reload'[m].left \subseteq DOMAIN reload'[m].new
    BY <2>1 DEF Idle
  <2>3. mixed' \in BOOLEAN /\ doubtful' \in BOOLEAN
    BY <1>0, <1>y, <2>1, Zenon DEF Over
  <2>4. \A n \in Reloads : reload'[n].op = "hash" => reload'[n].left \subseteq DOMAIN reload'[n].new
    BY <1>0, <2>1, <2>2 DEF ReloadTypes
  <2> QED BY <2>1, <2>3, <2>4 DEF ReloadTypes
<1>5. ASSUME Compare(m) PROVE Goal
  <2>1. /\ reload[m].op = "diff"
        /\ Sync(m, reload[m].new, DOMAIN reload[m].new, Changed(reload[m].new))
        /\ UNCHANGED <<disk, sections, assembled, hashes, cache, call, doubtful, edits, requests>>
    BY <1>5 DEF Compare
  <2>2. reload[m].new \in Hashes
    BY <1>0, <2>1, ReloadFields
  <2>3. Changed(reload[m].new) \in SUBSET Sections
    BY DEF Changed
  <2>4. ReloadTypes' /\ \A n \in Reloads \ {m} : reload'[n] = reload[n]
    BY <1>y, <2>1, <2>2, <2>3
  <2> QED BY <1>0, <1>s, <1>c, <1>k, <2>1, <2>4 DEF BotTypes
<1>6. ASSUME NEW id \in Sections, StoreHash(m, id) PROVE Goal
  <2>1. /\ reload[m].op = "hash" /\ id \in reload[m].left
        /\ hashes' = [hashes EXCEPT ![id] = reload[m].new[id]]
        /\ Sync(m, reload[m].new, reload[m].left \ {id}, reload[m].changed)
        /\ UNCHANGED <<disk, sections, assembled, cache, call, doubtful, edits, requests>>
    BY <1>6 DEF StoreHash
  <2>2. /\ reload[m].new \in Hashes /\ reload[m].left \subseteq DOMAIN reload[m].new
        /\ reload[m].changed \in SUBSET Sections
    BY <1>0, <2>1, ReloadFields DEF ReloadTypes
  <2>3. ReloadTypes' /\ \A n \in Reloads \ {m} : reload'[n] = reload[n]
    BY <1>y, <2>1, <2>2
  <2>4. reload[m].new[id] \in 0..MaxVersion
    BY <1>0, <2>1, <2>2, HashTypes
  <2>5. hashes' \in [Sections -> 0..MaxVersion]
    BY <1>0, <2>1, <2>4 DEF SectionTypes
  <2>6. SectionTypes'
    BY <1>0, <2>1, <2>5 DEF SectionTypes
  <2> QED BY <1>0, <1>c, <1>k, <2>1, <2>3, <2>6 DEF BotTypes
<1>7. ASSUME NEW id \in Sections, Invalidate(m, id) PROVE Goal
  <2>1. /\ reload[m].op = "delete" /\ cache' = Without(id)
        /\ \/ Over(m)
           \/ /\ reload' = [reload EXCEPT ![m] = [reload[m] EXCEPT !.changed = reload[m].changed \ {id}]]
              /\ UNCHANGED mixed
        /\ UNCHANGED <<disk, sections, assembled, hashes, call, doubtful, edits, requests>>
    BY <1>7 DEF Invalidate
  <2>2. CacheTypes'
    BY <1>0, <2>1, WithoutTypes
  <2>3. ReloadTypes' /\ \A n \in Reloads \ {m} : reload'[n] = reload[n]
    <3>1. CASE Over(m)
      BY <1>o, <2>1, <3>1
    <3>2. CASE ~Over(m)
      <4> DEFINE f == [reload[m] EXCEPT !.changed = reload[m].changed \ {id}]
      <4>1. reload[m] \in [op: {"delete"}, changed: SUBSET Sections]
        BY <1>0, <2>1, ReloadFields
      <4>2. reload[m].changed \ {id} \in SUBSET Sections
        BY <4>1
      <4>3. f \in [op: {"delete"}, changed: SUBSET Sections]
        BY <4>1, <4>2
      <4>4. f \in ReloadState /\ f.op # "hash"
        BY <4>3 DEF ReloadState
      <4>5. reload' = [reload EXCEPT ![m] = f] /\ UNCHANGED mixed
        BY <2>1, <3>2
      <4> HIDE DEF f
      <4>6. mixed' \in BOOLEAN /\ doubtful' \in BOOLEAN
        BY <1>0, <2>1, <4>5, Zenon
      <4> QED BY <1>r, <4>4, <4>5, <4>6
    <3> QED BY <3>1, <3>2
  <2> QED BY <1>0, <1>s, <1>k, <2>1, <2>2, <2>3 DEF BotTypes
<1>8. ASSUME SyncFails(m) PROVE Goal
  <2>1. /\ Over(m) /\ cache' \in {cache, Distrust(cache)}
        /\ UNCHANGED <<disk, sections, assembled, hashes, call, doubtful, edits, requests>>
    BY <1>8 DEF SyncFails
  <2>2. CacheTypes'
    <3>1. CASE cache' = cache
      BY <1>c, <3>1
    <3>2. CASE cache' = Distrust(cache)
      BY <1>0, <3>2, DistrustTypes
    <3> QED BY <2>1, <3>1, <3>2
  <2> QED BY <1>0, <1>o, <1>s, <1>k, <2>1, <2>2 DEF BotTypes
<1> HIDE DEF Goal
<1>9. Goal
  BY <1>1, <1>2, <1>3, <1>4, <1>5, <1>6, <1>7, <1>8 DEF ReloadingStep
<1> QED BY <1>9 DEF Goal

LEMMA RestartTypes == ASSUME BotTypes, Restart PROVE BotTypes'
<1>0. SectionTypes /\ ReloadTypes /\ CacheTypes /\ CallTypes
  BY DEF BotTypes
<1>1. /\ sections' = Loaded /\ assembled' = AssembleAll(sections')
      /\ call' = [c \in Calls |-> Idle] /\ reload' = [m \in Reloads |-> Idle]
      /\ mixed' = FALSE /\ doubtful' = FALSE
      /\ cache' \in {cache, Distrust(cache)}
      /\ UNCHANGED <<disk, hashes, edits, requests>>
  BY DEF Restart
<1>2. Loaded \in Seq(Section)
  BY <1>0, LoadedType DEF SectionTypes
<1>3. SectionTypes'
  <2>1. sections' \in Seq(Section)
    BY <1>1, <1>2
  <2>2. \A r \in Roles : \A i \in DOMAIN assembled'[r] :
          assembled'[r][i] \in Section /\ assembled'[r][i].id \in Tagged[r]
    BY <1>1, <1>2, AssembledType
  <2> QED BY <1>0, <1>1, <2>1, <2>2 DEF SectionTypes
<1>4. ReloadTypes'
  <2>1. mixed' \in BOOLEAN /\ doubtful' \in BOOLEAN
    BY <1>1, Zenon
  <2> QED BY <1>1, <2>1 DEF ReloadTypes, ReloadState, Idle
<1>5. CacheTypes'
  <2>1. CASE cache' = cache
    BY <1>0, <2>1 DEF CacheTypes
  <2>2. CASE cache' = Distrust(cache)
    BY <1>0, <2>2, DistrustTypes
  <2> QED BY <1>1, <2>1, <2>2
<1>6. CallTypes'
  BY <1>0, <1>1 DEF CallTypes
<1> QED BY <1>3, <1>4, <1>5, <1>6 DEF BotTypes

LEMMA BotTypesStep == ASSUME BotTypes, [ChatbotNext]_botVars PROVE BotTypes'
<1>0. SectionTypes /\ ReloadTypes /\ CacheTypes /\ CallTypes
  BY DEF BotTypes
<1>u. /\ UNCHANGED <<disk, sections, assembled, hashes>> => SectionTypes'
      /\ UNCHANGED <<reload, mixed, doubtful>> => ReloadTypes'
      /\ UNCHANGED cache => CacheTypes'
      /\ UNCHANGED <<call, edits, requests>> => CallTypes'
  BY <1>0, Zenon DEF SectionTypes, ReloadTypes, CacheTypes, CallTypes
<1>1. ASSUME NEW c \in Calls, Conversing(c) PROVE BotTypes'
  BY <1>1, <1>u, ConversingTypes DEF BotTypes
<1>2. ASSUME NEW k \in Keys, Expire(k) PROVE BotTypes'
  BY <1>2, <1>u, ExpireTypes DEF BotTypes
<1>3. ASSUME NEW id \in Sections, NEW v \in 0..MaxVersion, EditFile(id, v) PROVE BotTypes'
  <2>1. /\ disk' = [disk EXCEPT ![id] = v] /\ edits' \in 0..MaxEdits
        /\ UNCHANGED <<sections, assembled, hashes, cache, call, reload, mixed, doubtful, requests>>
    BY <1>0, <1>3, ChatbotAssumption DEF EditFile, CallTypes
  <2>2. SectionTypes'
    BY <1>0, <2>1 DEF SectionTypes
  <2>3. CallTypes'
    BY <1>0, <2>1 DEF CallTypes
  <2> QED BY <1>u, <2>1, <2>2, <2>3 DEF BotTypes
<1>4. ASSUME NEW m \in Reloads, ReloadingStep(m) PROVE BotTypes'
  BY <1>4, ReloadingTypes
<1>5. ASSUME Restart PROVE BotTypes'
  BY <1>5, RestartTypes
<1>6. ASSUME UNCHANGED botVars PROVE BotTypes'
  BY <1>6, <1>u DEF botVars, BotTypes
<1> QED BY <1>1, <1>2, <1>3, <1>4, <1>5, <1>6, BotSteps

\* Files, sections in memory, hashes and prompts have their form, and an answer in the cache
\* is of the sections with the tag of its role (PromptBuilderService and
\* chatbot-cache-entry.entity.ts).
THEOREM ChatbotTypeCorrect == ChatbotSpec => []ChatbotTypeOK
<1>1. BotTypes => ChatbotTypeOK
  <2> SUFFICES ASSUME BotTypes PROVE ChatbotTypeOK
    OBVIOUS
  <2>1. \A k \in Keys : cache[k] # NoEntry =>
          /\ IsPrompt(cache[k].reply) /\ cache[k].ids \subseteq Tagged[k.role]
          /\ cache[k].language \in Languages /\ {cache[k].expired, cache[k].sound} \subseteq BOOLEAN
    BY DEF BotTypes, CacheTypes, IsEntry, PromptFor
  <2>2. \A c \in Calls : call[c] # Idle =>
          call[c].op \in {"model", "save"} /\ call[c].key \in Keys /\ IsPrompt(call[c].asked)
    BY DEF BotTypes, CallTypes, IsCall, PromptFor
  <2>3. \A m \in Reloads : reload[m].op \in {"idle", "read", "diff", "hash", "delete"}
    BY ReloadFields DEF BotTypes, ReloadTypes
  <2>4. {mixed, doubtful} \subseteq BOOLEAN /\ edits \in 0..MaxEdits /\ requests \in 0..MaxRequests
    BY DEF BotTypes, ReloadTypes, CallTypes
  <2>5. /\ disk \in [Sections -> 0..MaxVersion] /\ hashes \in [Sections -> 0..MaxVersion]
        /\ \A i \in DOMAIN sections : sections[i] \in Section
    BY DEF BotTypes, SectionTypes
  <2> QED BY <2>1, <2>2, <2>3, <2>4, <2>5 DEF ChatbotTypeOK
<1>2. BotTypes /\ [ChatbotNext]_botVars => BotTypes'
  BY BotTypesStep
<1> QED BY <1>1, <1>2, BotTypesInit, PTL DEF ChatbotSpec

\* Answers that are trusted after a step were so before it, and are the same answers.
Kept == \A k \in Keys : Trusted(k)' =>
          Trusted(k) /\ cache'[k].reply = cache[k].reply /\ cache'[k].ids = cache[k].ids
\* A trusted answer relies on the section.
Relied(k, s) == s \in Section /\ s.id \in cache[k].ids /\ Current(s)

LEMMA TrustedSections ==
  ASSUME BotTypes, TrustedOrCondemned, NEW k \in Keys, Trusted(k),
         NEW i \in DOMAIN cache[k].reply.prompt
  PROVE  Relied(k, cache[k].reply.prompt[i])
<1>1. IsEntry(k, cache[k])
  BY DEF BotTypes, CacheTypes, Trusted
<1>2. cache[k].reply.prompt[i] \in Section
  BY <1>1 DEF IsEntry, PromptFor, IsPrompt
<1>3. cache[k].reply.prompt[i].id \in Ids(cache[k].reply.prompt)
  BY DEF Ids
<1> QED BY <1>2, <1>3 DEF TrustedOrCondemned, Relied

LEMMA KeepTrusted ==
  ASSUME BotTypes, TrustedOrCondemned, Kept,
         \A k \in Keys : Trusted(k)' => \A s : Relied(k, s) => Current(s)'
  PROVE  TrustedOrCondemned'
<1>1. ASSUME NEW k \in Keys, Trusted(k)'
      PROVE  /\ Ids(cache'[k].reply.prompt) \subseteq cache'[k].ids
             /\ \A i \in DOMAIN cache'[k].reply.prompt :
                  \A s : s = cache'[k].reply.prompt[i] => Current(s)'
  <2>1. Trusted(k) /\ cache'[k].reply = cache[k].reply /\ cache'[k].ids = cache[k].ids
    BY <1>1 DEF Kept
  <2>2. Ids(cache[k].reply.prompt) \subseteq cache[k].ids
    BY <2>1 DEF TrustedOrCondemned
  <2>3. ASSUME NEW i \in DOMAIN cache[k].reply.prompt, NEW s, s = cache[k].reply.prompt[i]
        PROVE  Current(s)'
    <3>1. Relied(k, s)
      BY <2>1, <2>3, TrustedSections
    <3> QED BY <1>1, <3>1
  <2> QED BY <2>1, <2>2, <2>3
<1> QED BY <1>1 DEF TrustedOrCondemned, Current, Condemned

\* Unless reloads overlap, one condemns all that is condemned.
LEMMA OnlyReload ==
  ASSUME CacheInv, ~mixed, NEW m \in Reloads, reload[m] # Idle
  PROVE  /\ \A n \in Reloads \ {m} : reload[n] = Idle
         /\ \A id : Condemned(id) <=> reload[m].op \in {"hash", "delete"} /\ id \in reload[m].changed
<1>1. \A n \in Reloads \ {m} : reload[n] = Idle
  BY DEF CacheInv, OneReload
<1> QED BY <1>1 DEF Condemned, Idle

\* A reload is over.
LEMMA OverKeeps ==
  ASSUME BotTypes, CacheInv, Kept, NEW m \in Reloads, reload[m] # Idle, Over(m),
         \A n \in Reloads \ {m} : reload'[n] = reload[n],
         ~mixed => \A k \in Keys : Trusted(k)' =>
           \A s : Relied(k, s) => s.version = hashes'[s.id]
  PROVE  CacheInv'
<1>1. /\ reload'[m] = Idle /\ mixed' = (mixed /\ ~Settled(m))
  BY DEF Over, BotTypes, ReloadTypes
<1>2. ~mixed' => \A n \in Reloads : reload'[n] = Idle
  <2>1. ASSUME ~mixed PROVE \A n \in Reloads \ {m} : reload[n] = Idle
    BY <2>1, OnlyReload
  <2>2. ASSUME Settled(m) PROVE \A n \in Reloads \ {m} : reload[n] = Idle
    BY <2>2 DEF Settled, Reloading
  <2> QED BY <1>1, <2>1, <2>2
<1>3. OneReload' /\ ChangesKnown'
  BY <1>2 DEF OneReload, ChangesKnown, Idle
<1>4. TrustedApart'
  <2>1. mixed' => mixed
    BY <1>1
  <2> QED BY <2>1 DEF CacheInv, TrustedApart, Kept
<1>5. TrustedOrCondemned'
  <2>1. CASE mixed
    <3>1. \A k \in Keys : ~Trusted(k)'
      BY <2>1 DEF CacheInv, TrustedApart, Kept
    <3> QED BY <3>1 DEF TrustedOrCondemned
  <2>2. CASE ~mixed
    <3>1. \A k \in Keys : Trusted(k)' => \A s : Relied(k, s) => Current(s)'
      BY <2>2 DEF Current
    <3> QED BY <3>1, KeepTrusted DEF CacheInv
  <2> QED BY <2>1, <2>2
<1> QED BY <1>3, <1>4, <1>5 DEF CacheInv

\* A reload goes on.
LEMMA MoveKeeps ==
  ASSUME BotTypes, CacheInv, Kept, NEW m \in Reloads, reload[m] # Idle, mixed' = mixed,
         \A n \in Reloads \ {m} : reload'[n] = reload[n],
         ~mixed /\ reload'[m].op = "hash" =>
           \A id \in reload'[m].left : hashes'[id] # reload'[m].new[id] => id \in reload'[m].changed,
         ~mixed => \A k \in Keys : Trusted(k)' => \A s : Relied(k, s) => Current(s)'
  PROVE  CacheInv'
<1>1. ASSUME ~mixed PROVE \A n \in Reloads \ {m} : reload'[n] = Idle
  BY <1>1, OnlyReload
<1>2. OneReload' /\ ChangesKnown'
  BY <1>1 DEF OneReload, ChangesKnown, Idle
<1>3. TrustedApart'
  BY DEF CacheInv, TrustedApart, Kept
<1>4. TrustedOrCondemned'
  <2>1. CASE mixed
    <3>1. \A k \in Keys : ~Trusted(k)'
      BY <2>1 DEF CacheInv, TrustedApart, Kept
    <3> QED BY <3>1 DEF TrustedOrCondemned
  <2>2. CASE ~mixed
    BY <2>2, KeepTrusted DEF CacheInv
  <2> QED BY <2>1, <2>2
<1> QED BY <1>2, <1>3, <1>4 DEF CacheInv

LEMMA CacheInvInit == ChatbotInit => CacheInv
BY DEF ChatbotInit, CacheInv, OneReload, TrustedApart, ChangesKnown, TrustedOrCondemned, Trusted,
       Idle

\* Nothing is trusted once the cache is distrusted.
LEMMA NoneTrusted ==
  ASSUME CacheTypes, cache' = Distrust(cache) PROVE \A k \in Keys : ~Trusted(k)'
<1>1. \A k \in Keys : cache'[k] # NoEntry => cache'[k].sound = FALSE
  BY DistrustTypes
<1> QED BY <1>1, Zenon DEF Trusted

LEMMA SameKept == ASSUME UNCHANGED cache PROVE Kept
BY DEF Kept, Trusted

\* Steps that touch neither hashes nor reloads.
LEMMA QuietKeeps ==
  ASSUME BotTypes, CacheInv, Kept, UNCHANGED <<hashes, reload, mixed>> PROVE CacheInv'
<1>1. \A k \in Keys : Trusted(k)' => \A s : Relied(k, s) => Current(s)'
  BY DEF Relied, Current, Condemned
<1>2. TrustedOrCondemned'
  BY <1>1, KeepTrusted DEF CacheInv
<1>3. OneReload' /\ ChangesKnown'
  BY DEF CacheInv, OneReload, ChangesKnown
<1>4. TrustedApart'
  BY DEF CacheInv, TrustedApart, Kept
<1> QED BY <1>2, <1>3, <1>4 DEF CacheInv

LEMMA ConversingKeeps ==
  ASSUME BotTypes, CacheInv, NEW c \in Calls, Conversing(c) PROVE CacheInv'
<1>1. UNCHANGED <<hashes, reload, mixed>>
  BY ConversingTypes
<1>2. ASSUME UNCHANGED cache PROVE CacheInv'
  BY <1>1, <1>2, SameKept, QuietKeeps
<1>3. ASSUME Save(c) PROVE CacheInv'
  <2>0. PICK q : q = call[c].key
    OBVIOUS
  <2> DEFINE f == call[c]
             l == IF cache[q] = NoEntry THEN f.asked.language ELSE cache[q].language
             snd == Sound(f.asked.prompt, f.ids)
             e == [reply |-> f.asked, ids |-> f.ids, language |-> l, expired |-> FALSE, sound |-> snd]
  <2>1. f.op = "save" /\ cache' = [cache EXCEPT ![q] = e]
    BY <1>3, <2>0 DEF Save
  <2>2. q \in Keys
    BY <2>0, <2>1 DEF BotTypes, CallTypes, Idle, IsCall
  <2> DEFINE p == f.asked.prompt
             d == f.ids
  <2>3. /\ e.reply.prompt = p /\ e.ids = d
        /\ (e.sound => \A i \in DOMAIN p : p[i].version = hashes[p[i].id])
        /\ (e.sound => Ids(p) \subseteq d /\ ~mixed)
    BY DEF Sound
  <2> HIDE DEF e, p, d
  <2>4. cache'[q] = e /\ \A k \in Keys \ {q} : cache'[k] = cache[k]
    BY <2>1, <2>2 DEF BotTypes, CacheTypes
  <2>5. ASSUME NEW k \in Keys, k # q
        PROVE  (Trusted(k)' <=> Trusted(k)) /\ cache'[k] = cache[k]
    BY <2>4, <2>5 DEF Trusted
  <2>6. Trusted(q)' => e.sound
    BY <2>4 DEF Trusted
  <2>7. OneReload' /\ ChangesKnown'
    BY <1>1 DEF CacheInv, OneReload, ChangesKnown
  <2>8. TrustedApart'
    <3>1. ASSUME mixed, NEW k \in Keys PROVE ~Trusted(k)'
      BY <2>3, <2>5, <2>6, <3>1 DEF CacheInv, TrustedApart
    <3> QED BY <1>1, <3>1 DEF TrustedApart
  <2>9. \A s : Current(s) => Current(s)'
    BY <1>1 DEF Current, Condemned
  <2>10. ASSUME NEW k \in Keys, Trusted(k)'
         PROVE  /\ Ids(cache'[k].reply.prompt) \subseteq cache'[k].ids
                /\ \A i \in DOMAIN cache'[k].reply.prompt :
                     \A s : s = cache'[k].reply.prompt[i] => Current(s)'
    <3>1. CASE k = q
      <4>1. cache'[k].reply.prompt = p /\ cache'[k].ids = d
        BY <2>3, <2>4, <3>1
      <4>2. Ids(p) \subseteq d /\ \A i \in DOMAIN p : p[i].version = hashes[p[i].id]
        BY <2>3, <2>6, <2>10, <3>1
      <4>3. \A i \in DOMAIN p : \A s : s = p[i] => Current(s)'
        BY <1>1, <4>2 DEF Current
      <4> QED BY <4>1, <4>2, <4>3
    <3>2. CASE k # q
      <4>1. Trusted(k) /\ cache'[k] = cache[k]
        BY <2>5, <2>10, <3>2
      <4>2. /\ Ids(cache[k].reply.prompt) \subseteq cache[k].ids
            /\ \A i \in DOMAIN cache[k].reply.prompt : \A s : s = cache[k].reply.prompt[i] => Current(s)
        BY <4>1 DEF CacheInv, TrustedOrCondemned
      <4> QED BY <2>9, <4>1, <4>2
    <3> QED BY <3>1, <3>2
  <2>11. TrustedOrCondemned'
    BY <2>10 DEF TrustedOrCondemned, Current, Condemned
  <2> QED BY <2>7, <2>8, <2>11 DEF CacheInv
<1>4. ASSUME NEW k \in Keys, NEW l \in Languages, Converse(c, k, l) PROVE UNCHANGED cache
  BY <1>4 DEF Converse
<1>5. ASSUME Answer(c) \/ AnswerFails(c) PROVE UNCHANGED cache
  BY <1>5 DEF Answer, AnswerFails
<1> QED BY <1>2, <1>3, <1>4, <1>5 DEF Conversing

LEMMA ExpireKeeps ==
  ASSUME BotTypes, CacheInv, NEW k \in Keys, Expire(k) PROVE CacheInv'
<1>1. /\ cache[k] # NoEntry /\ cache'[k] = [cache[k] EXCEPT !.expired = TRUE]
      /\ \A j \in Keys \ {k} : cache'[j] = cache[j]
      /\ UNCHANGED <<hashes, reload, mixed>>
  BY ExpireTypes
<1>2. IsEntry(k, cache[k])
  BY <1>1 DEF BotTypes, CacheTypes
<1>3. /\ cache'[k].reply = cache[k].reply /\ cache'[k].ids = cache[k].ids
      /\ cache'[k].sound = cache[k].sound
  BY <1>1, <1>2 DEF IsEntry
<1>4. Kept
  BY <1>1, <1>3 DEF Kept, Trusted
<1> QED BY <1>1, <1>4, QuietKeeps

LEMMA RestartKeeps == ASSUME BotTypes, CacheInv, Restart PROVE CacheInv'
<1>1. /\ reload' = [m \in Reloads |-> Idle] /\ mixed' = FALSE /\ hashes' = hashes
      /\ cache' = IF Syncing THEN Distrust(cache) ELSE cache
  BY DEF Restart
<1>2. OneReload' /\ ChangesKnown' /\ TrustedApart'
  BY <1>1 DEF OneReload, ChangesKnown, TrustedApart, Idle
<1>3. TrustedOrCondemned'
  <2>1. CASE Syncing
    <3>1. \A k \in Keys : ~Trusted(k)'
      BY <1>1, <2>1, NoneTrusted DEF BotTypes
    <3> QED BY <3>1 DEF TrustedOrCondemned
  <2>2. CASE ~Syncing
    <3>1. UNCHANGED cache
      BY <1>1, <2>2
    <3>2. \A id : ~Condemned(id)
      BY <2>2 DEF Syncing, Condemned
    <3>3. \A k \in Keys : Trusted(k)' => \A s : Relied(k, s) => Current(s)'
      BY <1>1, <3>2 DEF Relied, Current
    <3> QED BY <3>1, <3>3, SameKept, KeepTrusted DEF CacheInv
  <2> QED BY <2>1, <2>2
<1> QED BY <1>2, <1>3 DEF CacheInv

LEMMA ReloadingKeeps ==
  ASSUME BotTypes, CacheInv, NEW m \in Reloads, ReloadingStep(m) PROVE CacheInv'
<1>0. /\ reload \in [Reloads -> ReloadState] /\ reload[m] \in ReloadState /\ CacheTypes
      /\ \A n \in Reloads \ {m} : reload'[n] = reload[n]
  BY ReloadingTypes DEF BotTypes, ReloadTypes
<1>a. ASSUME ~mixed, reload[m] # Idle
      PROVE  \A id : Condemned(id) <=> reload[m].op \in {"hash", "delete"} /\ id \in reload[m].changed
  BY <1>a, OnlyReload
\* Before the hashes are compared nothing is condemned.
<1>b. ASSUME ~mixed, reload[m].op \in {"read", "diff"}
      PROVE  \A k \in Keys : \A s : Relied(k, s) => s.version = hashes[s.id]
  <2>1. reload[m] # Idle
    BY <1>b DEF Idle
  <2>2. \A id : ~Condemned(id)
    BY <1>a, <1>b, <2>1
  <2> QED BY <2>2 DEF Relied, Current
<1>1. ASSUME ListFiles(m) PROVE CacheInv'
  <2> DEFINE f == [op |-> "read", files |-> SetToSeq(Files)]
  <2>1. /\ reload' = [reload EXCEPT ![m] = f] /\ mixed' = (Reloading # {}) /\ hashes' = hashes
        /\ cache' = IF mixed' THEN Distrust(cache) ELSE cache
    BY <1>1 DEF ListFiles
  <2>2. reload'[m] = f /\ f.op = "read"
    BY <1>0, <2>1
  <2> HIDE DEF f
  <2>3. CASE mixed'
    <3>1. \A k \in Keys : ~Trusted(k)'
      BY <1>0, <2>1, <2>3, NoneTrusted
    <3> QED BY <2>3, <3>1 DEF CacheInv, OneReload, TrustedApart, ChangesKnown, TrustedOrCondemned
  <2>4. CASE ~mixed'
    <3>1. \A n \in Reloads : reload[n] = Idle
      BY <2>1, <2>4 DEF Reloading
    <3>2. \A n \in Reloads \ {m} : reload'[n] = Idle
      BY <1>0, <3>1
    <3>3. OneReload' /\ ChangesKnown' /\ TrustedApart'
      BY <2>2, <2>4, <3>2 DEF OneReload, ChangesKnown, TrustedApart, Idle
    <3>4. UNCHANGED cache
      BY <2>1, <2>4
    <3>5. \A id : ~Condemned(id)
      BY <3>1 DEF Condemned, Idle
    <3>6. \A k \in Keys : Trusted(k)' => \A s : Relied(k, s) => Current(s)'
      BY <2>1, <3>5 DEF Relied, Current
    <3> QED BY <3>3, <3>4, <3>6, SameKept, KeepTrusted DEF CacheInv
  <2> QED BY <2>3, <2>4
<1>2. ASSUME ReadFile(m) PROVE CacheInv'
  <2> DEFINE f == [reload[m] EXCEPT !.files = Tail(reload[m].files)]
  <2>1. /\ reload[m].op = "read" /\ reload' = [reload EXCEPT ![m] = f]
        /\ UNCHANGED <<hashes, cache, mixed>>
    BY <1>2 DEF ReadFile
  <2>2. reload[m] \in [op: {"read"}, files: Seq(Sections)] /\ reload[m] # Idle
    BY <1>0, <2>1, ReloadFields DEF Idle
  <2>3. reload'[m].op = "read"
    BY <1>0, <2>1, <2>2
  <2>4. ~mixed => \A k \in Keys : Trusted(k)' => \A s : Relied(k, s) => Current(s)'
    BY <1>b, <2>1 DEF Current
  <2> QED BY <1>0, <2>1, <2>2, <2>3, <2>4, SameKept, MoveKeeps
<1>3. ASSUME ReadFails(m) PROVE CacheInv'
  <2>1. reload[m].op = "read" /\ Over(m) /\ UNCHANGED <<hashes, cache>> /\ reload[m] # Idle
    BY <1>3 DEF ReadFails, Idle
  <2> QED BY <1>0, <1>b, <2>1, SameKept, OverKeeps
<1>4. ASSUME Assemble(m) PROVE CacheInv'
  <2>1. /\ reload[m].op = "read" /\ reload[m] # Idle /\ reload'[m].op = "diff"
        /\ UNCHANGED <<hashes, cache, mixed>>
    BY <1>0, <1>4 DEF Assemble, Idle
  <2>2. ~mixed => \A k \in Keys : Trusted(k)' => \A s : Relied(k, s) => Current(s)'
    BY <1>b, <2>1 DEF Current
  <2> QED BY <1>0, <2>1, <2>2, SameKept, MoveKeeps
<1>5. ASSUME Compare(m) PROVE CacheInv'
  <2> DEFINE new == reload[m].new
             changed == Changed(reload[m].new)
  <2>1. /\ reload[m].op = "diff" /\ reload[m] # Idle
        /\ Sync(m, new, DOMAIN new, changed)
        /\ UNCHANGED <<hashes, cache>>
    BY <1>5 DEF Compare, Idle
  <2>2. new \in Hashes /\ changed \in SUBSET Sections
    BY <1>0, <2>1, ReloadFields DEF Changed
  <2>3. \A id \in DOMAIN new : hashes[id] # new[id] => id \in changed
    BY <2>2, HashTypes DEF Changed
  <2> HIDE DEF new, changed
  <2>4. \/ /\ mixed' = mixed
           /\ reload'[m] = [op |-> "hash", new |-> new, left |-> DOMAIN new, changed |-> changed]
        \/ mixed' = mixed /\ reload'[m] = [op |-> "delete", changed |-> changed]
        \/ Over(m)
    BY <2>1, <2>2, SyncMoves DEF BotTypes
  <2>5. CASE Over(m)
    BY <1>0, <1>b, <2>1, <2>5, SameKept, OverKeeps
  <2>6. CASE ~Over(m)
    <3>1. reload'[m].op = "hash" =>
            \A id \in reload'[m].left : hashes'[id] # reload'[m].new[id] => id \in reload'[m].changed
      BY <2>1, <2>3, <2>4, <2>6
    <3>2. ~mixed => \A k \in Keys : Trusted(k)' => \A s : Relied(k, s) => Current(s)'
      BY <1>b, <2>1 DEF Current
    <3> QED BY <1>0, <2>1, <2>4, <2>6, <3>1, <3>2, SameKept, MoveKeeps
  <2> QED BY <2>5, <2>6
<1>6. ASSUME NEW id \in Sections, StoreHash(m, id) PROVE CacheInv'
  <2> DEFINE new == reload[m].new
             left == reload[m].left
             changed == reload[m].changed
  <2>1. /\ reload[m].op = "hash" /\ reload[m] # Idle /\ id \in left
        /\ hashes' = [hashes EXCEPT ![id] = new[id]]
        /\ Sync(m, new, left \ {id}, changed)
        /\ UNCHANGED cache
    BY <1>6 DEF StoreHash, Idle
  <2>2. new \in Hashes /\ left \subseteq DOMAIN new /\ changed \in SUBSET Sections
    BY <1>0, <2>1, ReloadFields DEF BotTypes, ReloadTypes
  <2>3. ~mixed => \A x \in left : hashes[x] # new[x] => x \in changed
    BY <2>1 DEF CacheInv, ChangesKnown
  <2>4. ~mixed => \A x : Condemned(x) <=> x \in changed
    BY <1>a, <2>1
  <2> HIDE DEF new, left, changed
  <2>5. \A x \in Sections : hashes'[x] = IF x = id THEN new[id] ELSE hashes[x]
    BY <2>1 DEF BotTypes, SectionTypes
  <2>6. ~mixed => \A k \in Keys : \A s : Relied(k, s) => s.version = hashes'[s.id] \/ s.id \in changed
    <3> SUFFICES ASSUME ~mixed, NEW k \in Keys, NEW s, Relied(k, s), s.id \notin changed
                 PROVE  s.version = hashes'[s.id]
      OBVIOUS
    <3>1. s.version = hashes[s.id] /\ s.id \in Sections
      BY <2>4 DEF Relied, Current, Section
    <3>2. hashes'[s.id] = hashes[s.id]
      BY <2>1, <2>3, <2>5, <3>1
    <3> QED BY <3>1, <3>2
  <2>7. \/ /\ mixed' = mixed
           /\ reload'[m] = [op |-> "hash", new |-> new, left |-> left \ {id}, changed |-> changed]
        \/ mixed' = mixed /\ reload'[m] = [op |-> "delete", changed |-> changed]
        \/ changed = {} /\ Over(m)
    <3>1. left \ {id} \in SUBSET (DOMAIN new)
      BY <2>2
    <3>2. ReloadTypes
      BY DEF BotTypes
    <3> QED BY <2>1, <2>2, <3>1, <3>2, SyncMoves
  <2>8. CASE changed = {} /\ Over(m)
    <3>1. ~mixed => \A k \in Keys : Trusted(k)' => \A s : Relied(k, s) => s.version = hashes'[s.id]
      BY <2>6, <2>8
    <3> QED BY <1>0, <2>1, <2>8, <3>1, SameKept, OverKeeps
  <2>9. CASE ~(changed = {} /\ Over(m))
    <3>1. /\ mixed' = mixed /\ reload'[m].op \in {"hash", "delete"} /\ reload'[m].changed = changed
          /\ reload'[m].op = "hash" => reload'[m].left = left \ {id} /\ reload'[m].new = new
      BY <2>7, <2>9
    <3>2. ~mixed /\ reload'[m].op = "hash" =>
            \A x \in reload'[m].left : hashes'[x] # reload'[m].new[x] => x \in reload'[m].changed
      BY <2>2, <2>3, <2>5, <3>1, HashTypes
    <3>3. ~mixed => \A k \in Keys : Trusted(k)' => \A s : Relied(k, s) => Current(s)'
      BY <2>6, <3>1 DEF Current, Condemned
    <3> QED BY <1>0, <2>1, <3>1, <3>2, <3>3, SameKept, MoveKeeps
  <2> QED BY <2>8, <2>9
<1>7. ASSUME NEW id \in Sections, Invalidate(m, id) PROVE CacheInv'
  <2> DEFINE changed == reload[m].changed
             f == [reload[m] EXCEPT !.changed = reload[m].changed \ {id}]
  <2>1. /\ reload[m].op = "delete" /\ reload[m] # Idle
        /\ cache' = Without(id) /\ UNCHANGED hashes
        /\ \/ changed = {id} /\ Over(m)
           \/ reload' = [reload EXCEPT ![m] = f] /\ UNCHANGED mixed
    BY <1>7 DEF Invalidate, Idle
  <2>2. \A k \in Keys : cache'[k] # NoEntry => cache'[k] = cache[k] /\ id \notin cache[k].ids
    BY <1>0, <2>1, WithoutTypes
  <2>3. Kept
    BY <2>2 DEF Kept, Trusted
  <2>4. reload[m] \in [op: {"delete"}, changed: SUBSET Sections]
    BY <1>0, <2>1, ReloadFields
  <2>5. f.op = "delete" /\ f.changed = changed \ {id}
    BY <2>4
  <2>6. ~mixed => \A x : Condemned(x) <=> x \in changed
    BY <1>a, <2>1
  <2> HIDE DEF changed, f
  <2>7. ~mixed => \A k \in Keys : Trusted(k)' => \A s : Relied(k, s) =>
                    s.version = hashes'[s.id] \/ s.id \in changed \ {id}
    BY <2>1, <2>2, <2>6 DEF Trusted, Relied, Current
  <2>8. CASE changed = {id} /\ Over(m)
    <3>1. ~mixed => \A k \in Keys : Trusted(k)' => \A s : Relied(k, s) => s.version = hashes'[s.id]
      BY <2>7, <2>8
    <3> QED BY <1>0, <2>1, <2>3, <2>8, <3>1, OverKeeps
  <2>9. CASE reload' = [reload EXCEPT ![m] = f] /\ UNCHANGED mixed
    <3>1. reload'[m] = f
      BY <1>0, <2>9
    <3>2. ~mixed => \A k \in Keys : Trusted(k)' => \A s : Relied(k, s) => Current(s)'
      BY <2>5, <2>7, <3>1 DEF Current, Condemned
    <3>3. reload'[m].op # "hash"
      BY <2>5, <3>1
    <3> QED BY <1>0, <2>1, <2>3, <2>9, <3>2, <3>3, MoveKeeps
  <2> QED BY <2>1, <2>8, <2>9
<1>8. ASSUME SyncFails(m) PROVE CacheInv'
  <2>1. /\ reload[m].op \in {"diff", "hash", "delete"} /\ reload[m] # Idle
        /\ Over(m) /\ UNCHANGED hashes
        /\ cache' = IF reload[m].op = "diff" THEN cache ELSE Distrust(cache)
    BY <1>8 DEF SyncFails, Idle
  <2>2. CASE reload[m].op = "diff"
    <3>1. UNCHANGED cache
      BY <2>1, <2>2
    <3> QED BY <1>0, <1>b, <2>1, <2>2, <3>1, SameKept, OverKeeps
  <2>3. CASE reload[m].op # "diff"
    <3>1. \A k \in Keys : ~Trusted(k)'
      BY <1>0, <2>1, <2>3, NoneTrusted
    <3>2. Kept
      BY <3>1 DEF Kept
    <3> QED BY <1>0, <2>1, <3>1, <3>2, OverKeeps
  <2> QED BY <2>2, <2>3
<1> QED BY <1>1, <1>2, <1>3, <1>4, <1>5, <1>6, <1>7, <1>8 DEF ReloadingStep

LEMMA CacheInvStep ==
  ASSUME BotTypes, CacheInv, [ChatbotNext]_botVars PROVE CacheInv'
<1>1. ASSUME NEW id \in Sections, NEW v \in 0..MaxVersion, EditFile(id, v) PROVE CacheInv'
  <2>1. UNCHANGED <<hashes, reload, mixed, cache>>
    BY <1>1 DEF EditFile
  <2> QED BY <2>1, SameKept, QuietKeeps
<1>2. ASSUME UNCHANGED botVars PROVE CacheInv'
  <2>1. UNCHANGED <<hashes, reload, mixed, cache>>
    BY <1>2 DEF botVars
  <2> QED BY <2>1, SameKept, QuietKeeps
<1> QED BY <1>1, <1>2, BotSteps, ConversingKeeps, ExpireKeeps, ReloadingKeeps, RestartKeeps

\* "auto-invalidate cache entries affected by changes" (prompt-builder.service.ts, line 265):
\* between a reload's first stored hash and its last deletion an answer may be outdated; at
\* all other times one that was saved for the sections whose hashes were stored is of sections
\* that still have those hashes.
THEOREM CachedAnswersAreCurrentCorrect == ChatbotSpec => []CachedAnswersAreCurrent
<1>1. BotTypes /\ CacheInv => CachedAnswersAreCurrent
  <2> SUFFICES ASSUME BotTypes, CacheInv, ~Syncing,
                      NEW k \in Keys, cache[k] # NoEntry, cache[k].sound,
                      NEW i \in DOMAIN cache[k].reply.prompt
               PROVE  cache[k].reply.prompt[i].version = hashes[cache[k].reply.prompt[i].id]
    BY DEF CachedAnswersAreCurrent
  <2>1. Current(cache[k].reply.prompt[i])
    BY DEF CacheInv, TrustedOrCondemned, Trusted
  <2>2. \A id : ~Condemned(id)
    BY DEF Syncing, Condemned
  <2> QED BY <2>1, <2>2 DEF Current
<1>2. ChatbotInit => BotTypes /\ CacheInv
  BY BotTypesInit, CacheInvInit
<1>3. BotTypes /\ CacheInv /\ [ChatbotNext]_botVars => BotTypes' /\ CacheInv'
  BY BotTypesStep, CacheInvStep
<1> QED BY <1>1, <1>2, <1>3, PTL DEF ChatbotSpec

\* What the cache serves for a question was drawn from sections with the tag of the asker's
\* role, in the same question's answer and in one found by similarity ("Admin role is
\* determined from the JWT", chatbot.controller.ts, line 26).
THEOREM ServedForRoleCorrect == ChatbotSpec => []ServedForRole
<1>1. BotTypes => ServedForRole
  <2> SUFFICES ASSUME BotTypes, NEW k \in Keys, NEW e \in Lookup(k),
                      NEW i \in DOMAIN cache[e].reply.prompt
               PROVE  cache[e].reply.prompt[i].id \in Tagged[k.role]
    BY DEF ServedForRole
  <2>1. e \in Keys /\ e.role = k.role /\ cache[e] # NoEntry
    BY DEF Lookup, FullTextSearch, Fresh
  <2> QED BY <2>1 DEF BotTypes, CacheTypes, IsEntry, PromptFor
<1>2. BotTypes /\ [ChatbotNext]_botVars => BotTypes'
  BY BotTypesStep
<1> QED BY <1>1, <1>2, BotTypesInit, PTL DEF ChatbotSpec

\* Prompts.  A list of files has none twice, unless reloads overlap a reload reads into a list
\* without them, and what was assembled from such a list is whole.
NoTwice(s) == \A i, j \in DOMAIN s : s[i].id = s[j].id => i = j
Distinct(s) == \A i, j \in DOMAIN s : s[i] = s[j] => i = j
ReadsWhole(files) ==
  /\ NoTwice(sections) /\ Distinct(files)
  /\ \A i \in DOMAIN sections, j \in DOMAIN files : sections[i].id # files[j]
WholeInv ==
  /\ ~mixed => \A m \in Reloads : reload[m].op = "read" => ReadsWhole(reload[m].files)
  /\ ~doubtful => \A r \in Roles : NoTwice(assembled[r])

LEMMA FilesDistinct ==
  ASSUME disk \in [Sections -> 0..MaxVersion]
  PROVE  Distinct(SetToSeq(Files)) /\ NoTwice(Loaded)
<1>1. IsFiniteSet(Files)
  BY ChatbotAssumption, FS_Subset DEF Files
<1> DEFINE n == Cardinality(Files)
           f == SetToSeq(Files)
<1>2. n \in Nat /\ ExistsBijection(1..n, Files)
  BY <1>1, FS_CardinalityType
<1>3. \E g \in [1..n -> Files] : IsInjective(g)
  BY <1>2 DEF ExistsBijection, Bijection, Injection, IsInjective
<1>4. f \in [1..n -> Files] /\ IsInjective(f)
  BY <1>3 DEF SetToSeq
<1>5. Distinct(f)
  BY <1>4 DEF Distinct, IsInjective
<1>6. Loaded = [i \in DOMAIN f |-> [id |-> f[i], version |-> disk[f[i]]]]
  BY DEF Loaded
<1> HIDE DEF f
<1>7. DOMAIN Loaded = DOMAIN f /\ \A i \in DOMAIN f : Loaded[i].id = f[i]
  BY <1>6
<1>8. NoTwice(Loaded)
  BY <1>5, <1>7 DEF NoTwice, Distinct
<1> QED BY <1>5, <1>8 DEF f

LEMMA AssembledWhole ==
  ASSUME NEW s, NoTwice(s) PROVE \A r \in Roles : NoTwice(AssembleAll(s)[r])
<1> SUFFICES ASSUME NEW r \in Roles PROVE NoTwice(AssembleAll(s)[r])
  OBVIOUS
<1>1. AssembleAll(s)[r] = ForRole(s, r)
  BY DEF AssembleAll
<1> DEFINE f == ForRole(s, r)
<1>2. DOMAIN f \subseteq DOMAIN s /\ \A i \in DOMAIN f : f[i] = s[i]
  BY DEF ForRole, Restrict
<1> HIDE DEF f
<1>3. NoTwice(f)
  BY <1>2 DEF NoTwice
<1> QED BY <1>1, <1>3 DEF f

LEMMA WholeInit == ChatbotInit => BotTypes /\ WholeInv
<1> SUFFICES ASSUME ChatbotInit PROVE WholeInv
  BY BotTypesInit
<1>1. \A m \in Reloads : reload[m].op # "read"
  BY DEF ChatbotInit, Idle
<1>2. NoTwice(sections) /\ assembled = AssembleAll(sections)
  <2>1. disk \in [Sections -> 0..MaxVersion]
    BY BotTypesInit DEF BotTypes, SectionTypes
  <2> QED BY <2>1, FilesDistinct DEF ChatbotInit
<1>3. \A r \in Roles : NoTwice(assembled[r])
  BY <1>2, AssembledWhole
<1> QED BY <1>1, <1>3 DEF WholeInv

LEMMA QuietWhole ==
  ASSUME WholeInv, UNCHANGED <<sections, assembled, reload, mixed, doubtful>> PROVE WholeInv'
BY DEF WholeInv, ReadsWhole

\* The reload m reads nothing after the step.
LEMMA NotReading ==
  ASSUME BotTypes, CacheInv, WholeInv, NEW m \in Reloads, reload[m] # Idle,
         UNCHANGED <<sections, assembled, doubtful>>,
         \A n \in Reloads \ {m} : reload'[n] = reload[n],
         reload'[m].op # "read", mixed' = mixed \/ Over(m)
  PROVE  WholeInv'
<1>1. ASSUME ~mixed', NEW n \in Reloads, reload'[n].op = "read"
      PROVE  ~mixed /\ reload'[n] = reload[n]
  <2>1. n # m /\ reload'[n] = reload[n]
    BY <1>1
  <2>2. CASE mixed' = mixed
    BY <1>1, <2>1, <2>2
  <2>3. CASE Over(m)
    <3>1. n \in Reloading
      BY <1>1, <2>1 DEF Reloading, Idle
    <3>2. ~Settled(m)
      BY <2>1, <3>1 DEF Settled
    <3> QED BY <1>1, <2>1, <2>3, <3>2 DEF Over
  <2> QED BY <2>2, <2>3
<1>2. \A n \in Reloads : ~mixed' /\ reload'[n].op = "read" => ReadsWhole(reload'[n].files)
  BY <1>1 DEF WholeInv
<1> QED BY <1>2 DEF WholeInv, ReadsWhole

LEMMA ReloadingWhole ==
  ASSUME BotTypes, CacheInv, WholeInv, NEW m \in Reloads, ReloadingStep(m) PROVE WholeInv'
<1>0. /\ reload \in [Reloads -> ReloadState] /\ reload[m] \in ReloadState /\ ReloadTypes
      /\ \A n \in Reloads \ {m} : reload'[n] = reload[n]
      /\ sections \in Seq(Section) /\ disk \in [Sections -> 0..MaxVersion]
  BY ReloadingTypes DEF BotTypes, ReloadTypes, SectionTypes
<1>1. ASSUME ListFiles(m) PROVE WholeInv'
  <2>0. PICK f : f = SetToSeq(Files)
    OBVIOUS
  <2>1. /\ reload' = [reload EXCEPT ![m] = [op |-> "read", files |-> f]] /\ sections' = <<>>
        /\ mixed' = (Reloading # {}) /\ UNCHANGED <<assembled, doubtful>>
    BY <1>1, <2>0 DEF ListFiles
  <2>2. reload'[m].op = "read" /\ reload'[m].files = f
    BY <1>0, <2>1
  <2>3. Distinct(f)
    BY <1>0, <2>0, FilesDistinct
  <2>4. ASSUME ~mixed', NEW n \in Reloads, reload'[n].op = "read" PROVE n = m
    <3>1. \A k \in Reloads : reload[k] = Idle
      BY <2>1, <2>4 DEF Reloading
    <3> QED BY <1>0, <2>4, <3>1 DEF Idle
  <2>5. ReadsWhole(f)'
    <3>1. DOMAIN sections' = {}
      BY <2>1
    <3> QED BY <2>3, <3>1 DEF ReadsWhole, NoTwice
  <2>6. \A n \in Reloads : ~mixed' /\ reload'[n].op = "read" => reload'[n].files = f
    BY <2>2, <2>4
  <2> QED BY <2>1, <2>5, <2>6 DEF WholeInv, ReadsWhole
<1>2. ASSUME ReadFile(m) PROVE WholeInv'
  <2>0. PICK f, x : f = reload[m].files /\ x = [id |-> Head(f), version |-> disk[Head(f)]]
    OBVIOUS
  <2>1. /\ reload[m].op = "read" /\ f # <<>> /\ sections' = Append(sections, x)
        /\ reload' = [reload EXCEPT ![m] = [reload[m] EXCEPT !.files = Tail(f)]]
        /\ UNCHANGED <<assembled, mixed, doubtful>>
    BY <1>2, <2>0 DEF ReadFile
  <2>2. reload[m] \in [op: {"read"}, files: Seq(Sections)] /\ reload[m] # Idle
    BY <1>0, <2>1, ReloadFields DEF Idle
  <2>3. reload'[m].op = "read" /\ reload'[m].files = Tail(f)
    BY <1>0, <2>1, <2>2
  <2>4. ASSUME ~mixed PROVE ReadsWhole(Tail(f))'
    <3>1. /\ NoTwice(sections) /\ Distinct(f)
          /\ \A i \in DOMAIN sections, j \in DOMAIN f : sections[i].id # f[j]
      BY <2>0, <2>1, <2>4 DEF WholeInv, ReadsWhole
    <3>2. f \in Seq(Sections) /\ Len(f) \in Nat /\ Len(f) >= 1 /\ DOMAIN f = 1..Len(f) /\ Head(f) = f[1]
      BY <2>0, <2>1, <2>2
    <3>3. DOMAIN Tail(f) = 1..(Len(f) - 1) /\ \A j \in DOMAIN Tail(f) : Tail(f)[j] = f[j + 1]
      BY <3>2
    <3>4. /\ DOMAIN sections = 1..Len(sections) /\ Len(sections) \in Nat
          /\ DOMAIN sections' = 1..(Len(sections) + 1)
          /\ \A i \in DOMAIN sections : sections'[i] = sections[i]
          /\ sections'[Len(sections) + 1].id = f[1]
      <4>1. x.id = f[1]
        BY <2>0, <3>2
      <4>2. sections'[Len(sections) + 1] = x
        BY <1>0, <2>1
      <4> QED BY <1>0, <2>1, <4>1, <4>2
    <3>5. \A j \in DOMAIN Tail(f) : j + 1 \in DOMAIN f /\ j + 1 # 1
      BY <3>2, <3>3
    <3>6. NoTwice(sections')
      <4> SUFFICES ASSUME NEW i \in DOMAIN sections', NEW j \in DOMAIN sections',
                          sections'[i].id = sections'[j].id
                   PROVE  i = j
        BY DEF NoTwice
      <4>1. 1 \in DOMAIN f
        BY <3>2
      <4>2. i \in DOMAIN sections \/ i = Len(sections) + 1
        BY <3>4
      <4>3. j \in DOMAIN sections \/ j = Len(sections) + 1
        BY <3>4
      <4> QED BY <3>1, <3>4, <4>1, <4>2, <4>3 DEF NoTwice
    <3>7. Distinct(Tail(f))
      <4> SUFFICES ASSUME NEW i \in DOMAIN Tail(f), NEW j \in DOMAIN Tail(f), Tail(f)[i] = Tail(f)[j]
                   PROVE  i = j
        BY DEF Distinct
      <4>1. i + 1 = j + 1
        BY <3>1, <3>3, <3>5 DEF Distinct
      <4> QED BY <3>2, <3>3, <4>1
    <3>8. ASSUME NEW i \in DOMAIN sections', NEW j \in DOMAIN Tail(f)
          PROVE  sections'[i].id # Tail(f)[j]
      <4>1. Tail(f)[j] = f[j + 1] /\ j + 1 \in DOMAIN f /\ j + 1 # 1 /\ 1 \in DOMAIN f
        BY <3>2, <3>3, <3>5
      <4>2. CASE i \in DOMAIN sections
        BY <3>1, <3>4, <4>1, <4>2
      <4>3. CASE i = Len(sections) + 1
        BY <3>1, <3>4, <4>1, <4>3 DEF Distinct
      <4> QED BY <3>4, <4>2, <4>3
    <3> QED BY <3>6, <3>7, <3>8 DEF ReadsWhole, NoTwice
  <2>5. ASSUME ~mixed, NEW n \in Reloads, reload'[n].op = "read" PROVE n = m
    BY <1>0, <2>2, <2>5, OnlyReload DEF Idle
  <2>6. \A n \in Reloads : ~mixed /\ reload'[n].op = "read" => reload'[n].files = Tail(f)
    BY <2>3, <2>5
  <2> QED BY <2>1, <2>4, <2>6 DEF WholeInv, ReadsWhole
<1>3. ASSUME ReadFails(m) PROVE WholeInv'
  <2>1. reload'[m].op # "read"
    BY <1>0, <1>3 DEF ReadFails, Over, Idle
  <2>2. Over(m) /\ UNCHANGED <<sections, assembled, doubtful>> /\ reload[m] # Idle
    BY <1>3 DEF ReadFails, Idle
  <2> QED BY <1>0, <2>1, <2>2, NotReading
<1>4. ASSUME Assemble(m) PROVE WholeInv'
  <2>1. /\ reload[m].op = "read" /\ reload[m] # Idle /\ reload'[m].op = "diff"
        /\ assembled' = AssembleAll(sections) /\ doubtful' = mixed
        /\ UNCHANGED <<sections, mixed>>
    BY <1>0, <1>4 DEF Assemble, Idle
  <2>2. ASSUME ~mixed PROVE \A r \in Roles : NoTwice(AssembleAll(sections)[r])
    <3>1. NoTwice(sections)
      BY <2>1, <2>2 DEF WholeInv, ReadsWhole
    <3> QED BY <3>1, AssembledWhole
  <2>3. \A n \in Reloads : reload'[n].op = "read" => reload'[n] = reload[n]
    BY <1>0, <2>1
  <2> QED BY <2>1, <2>2, <2>3 DEF WholeInv, ReadsWhole
<1>y. ASSUME NEW new \in Hashes, NEW left \in SUBSET (DOMAIN new), NEW changed \in SUBSET Sections,
             Sync(m, new, left, changed)
      PROVE  reload'[m].op # "read" /\ (mixed' = mixed \/ Over(m))
  <2>0. ReloadTypes
    BY <1>0
  <2>1. /\ reload' \in [Reloads -> ReloadState]
        /\ \A n \in Reloads \ {m} : reload'[n] = reload[n]
        /\ \/ /\ left # {} /\ mixed' = mixed
              /\ reload'[m] = [op |-> "hash", new |-> new, left |-> left, changed |-> changed]
           \/ /\ left = {} /\ changed # {} /\ mixed' = mixed
              /\ reload'[m] = [op |-> "delete", changed |-> changed]
           \/ left = {} /\ changed = {} /\ Over(m) /\ reload'[m] = Idle
    BY <1>y, <2>0, SyncMoves
  <2> QED BY <2>1 DEF Idle
<1>5. ASSUME Compare(m) PROVE WholeInv'
  <2>1. /\ reload[m].op = "diff" /\ reload[m] # Idle /\ UNCHANGED <<sections, assembled, doubtful>>
        /\ Sync(m, reload[m].new, DOMAIN reload[m].new, Changed(reload[m].new))
    BY <1>5 DEF Compare, Idle
  <2>2. reload[m].new \in Hashes /\ Changed(reload[m].new) \in SUBSET Sections
    BY <1>0, <2>1, ReloadFields DEF Changed
  <2>3. reload'[m].op # "read" /\ (mixed' = mixed \/ Over(m))
    BY <1>y, <2>1, <2>2
  <2> QED BY <1>0, <2>1, <2>3, NotReading
<1>6. ASSUME NEW id \in Sections, StoreHash(m, id) PROVE WholeInv'
  <2>1. /\ reload[m].op = "hash" /\ reload[m] # Idle /\ UNCHANGED <<sections, assembled, doubtful>>
        /\ Sync(m, reload[m].new, reload[m].left \ {id}, reload[m].changed)
    BY <1>6 DEF StoreHash, Idle
  <2>2. /\ reload[m].new \in Hashes /\ reload[m].left \ {id} \in SUBSET (DOMAIN reload[m].new)
        /\ reload[m].changed \in SUBSET Sections
    BY <1>0, <2>1, ReloadFields DEF ReloadTypes
  <2>3. reload'[m].op # "read" /\ (mixed' = mixed \/ Over(m))
    BY <1>y, <2>1, <2>2
  <2> QED BY <1>0, <2>1, <2>3, NotReading
<1>7. ASSUME NEW id \in Sections, Invalidate(m, id) PROVE WholeInv'
  <2> DEFINE f == [reload[m] EXCEPT !.changed = reload[m].changed \ {id}]
  <2>1. /\ reload[m].op = "delete" /\ reload[m] # Idle /\ UNCHANGED <<sections, assembled, doubtful>>
        /\ \/ Over(m)
           \/ reload' = [reload EXCEPT ![m] = f] /\ UNCHANGED mixed
    BY <1>7 DEF Invalidate, Idle
  <2>2. f.op = "delete"
    <3>1. reload[m] \in [op: {"delete"}, changed: SUBSET Sections]
      BY <1>0, <2>1, ReloadFields
    <3> QED BY <2>1, <3>1
  <2> HIDE DEF f
  <2>3. reload'[m].op # "read"
    BY <1>0, <2>1, <2>2 DEF Over, Idle
  <2> QED BY <1>0, <2>1, <2>3, NotReading
<1>8. ASSUME SyncFails(m) PROVE WholeInv'
  <2>1. Over(m) /\ UNCHANGED <<sections, assembled, doubtful>> /\ reload[m] # Idle
    BY <1>8 DEF SyncFails, Idle
  <2>2. reload'[m].op # "read"
    BY <1>0, <2>1 DEF Over, Idle
  <2> QED BY <1>0, <2>1, <2>2, NotReading
<1> QED BY <1>1, <1>2, <1>3, <1>4, <1>5, <1>6, <1>7, <1>8 DEF ReloadingStep

LEMMA WholeStep ==
  ASSUME BotTypes, CacheInv, WholeInv, [ChatbotNext]_botVars PROVE WholeInv'
<1>1. ASSUME NEW c \in Calls, Conversing(c) PROVE WholeInv'
  BY <1>1, ConversingTypes, QuietWhole
<1>2. ASSUME NEW k \in Keys, Expire(k) PROVE WholeInv'
  BY <1>2, ExpireTypes, QuietWhole
<1>3. ASSUME NEW id \in Sections, NEW v \in 0..MaxVersion, EditFile(id, v) PROVE WholeInv'
  BY <1>3, QuietWhole DEF EditFile
<1>4. ASSUME Restart PROVE WholeInv'
  <2>1. NoTwice(Loaded)
    BY FilesDistinct DEF BotTypes, SectionTypes
  <2>2. \A r \in Roles : NoTwice(AssembleAll(Loaded)[r])
    BY <2>1, AssembledWhole
  <2>3. assembled' = AssembleAll(Loaded) /\ reload' = [m \in Reloads |-> Idle]
    BY <1>4 DEF Restart
  <2> QED BY <2>2, <2>3 DEF WholeInv, Idle
<1>5. ASSUME UNCHANGED botVars PROVE WholeInv'
  BY <1>5, QuietWhole DEF botVars
<1> QED BY <1>1, <1>2, <1>3, <1>4, <1>5, ReloadingWhole, BotSteps

\* No section comes twice in a prompt that was assembled while one reload was under way or at
\* boot (loadSections appends to the list that reload has emptied,
\* prompt-builder.service.ts, line 91).
THEOREM PromptsAreWholeCorrect == ChatbotSpec => []PromptsAreWhole
<1>1. WholeInv => PromptsAreWhole
  BY DEF WholeInv, NoTwice, PromptsAreWhole
<1>2. ChatbotInit => BotTypes /\ CacheInv /\ WholeInv
  BY WholeInit, CacheInvInit
<1>3. BotTypes /\ CacheInv /\ WholeInv /\ [ChatbotNext]_botVars => BotTypes' /\ CacheInv' /\ WholeInv'
  BY BotTypesStep, CacheInvStep, WholeStep
<1> QED BY <1>1, <1>2, <1>3, PTL DEF ChatbotSpec
================================================================================
