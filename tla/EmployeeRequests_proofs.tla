------------------------ MODULE EmployeeRequests_proofs ------------------------
(***************************************************************************)
(* Theorems about EmployeeRequests for any sets of decisions, edits,       *)
(* columns and days, and any number of calls; and about StaffRecords for   *)
(* any sets of users, companies, faces and slots, and any numbers of       *)
(* contracts, days and requests.                                           *)
(***************************************************************************)
EXTENDS EmployeeRequests, StaffRecords, FiniteSetTheorems, WellFoundedInduction, TLAPS

USE CallBound

-----------------------------------------------------------------------------
\* Every step keeps the variables in their types.
LEMMA CreateType == ASSUME TypeOK, CreateStep PROVE TypeOK'
<1> USE DEF TypeOK, RequestOK, SheetOK, Creation, Statuses, Outcomes, Data, request,
            sheet
<1>1. CASE Save
  BY <1>1 DEF Save
<1>2. CASE Load
  BY <1>2 DEF Load
<1>3. CASE AppendRow
  BY <1>3 DEF AppendRow
<1>4. CASE SheetFails
  BY <1>4 DEF SheetFails
<1>5. CASE StoreIndex
  BY <1>5 DEF StoreIndex
<1>6. ASSUME NEW day \in Days, CreateEvent(day) PROVE TypeOK'
  BY <1>6 DEF CreateEvent
<1>7. ASSUME NEW day \in Days, EventFails(day) PROVE TypeOK'
  BY <1>7 DEF EventFails
<1>8. CASE StoreEvents
  BY <1>8 DEF StoreEvents, EventsToStore
<1> QED BY <1>1, <1>2, <1>3, <1>4, <1>5, <1>6, <1>7, <1>8 DEF CreateStep

LEMMA CallStep == ASSUME calls \in 0..MaxCalls, Call PROVE calls' \in 0..MaxCalls
BY DEF Call

LEMMA DecisionType ==
  ASSUME TypeOK, NEW d \in Decisions, DecisionStep(d) PROVE TypeOK'
<1> USE DEF TypeOK, RequestOK, SheetOK, Decision, Statuses, Outcomes, GoTo, request,
            sheet
<1>1. ASSUME NEW outcome \in Outcomes, Find(d, outcome) PROVE TypeOK'
  BY <1>1, CallStep DEF Find
<1>2. CASE Decide(d)
  BY <1>2 DEF Decide, ColumnsToWrite, EventsToDelete
<1>3. CASE ShowStatus(d)
  BY <1>3 DEF ShowStatus, Column
<1>4. CASE ShowApprover(d)
  BY <1>4 DEF ShowApprover, Column
<1>5. CASE ColumnFails(d)
  BY <1>5 DEF ColumnFails, Column
<1>6. ASSUME NEW day \in Days, DeleteEvent(d, day) PROVE TypeOK'
  BY <1>6 DEF DeleteEvent, Event
<1>7. ASSUME NEW day \in Days, DeleteFails(d, day) PROVE TypeOK'
  BY <1>7 DEF DeleteFails, Event
<1>8. CASE Reload(d)
  BY <1>8 DEF Reload
<1>9. CASE Clock(d)
  BY <1>9 DEF Clock
<1> QED BY <1>1, <1>2, <1>3, <1>4, <1>5, <1>6, <1>7, <1>8, <1>9 DEF DecisionStep

LEMMA EditType == ASSUME TypeOK, NEW e \in Edits, EditStep(e) PROVE TypeOK'
<1> USE DEF TypeOK, RequestOK, SheetOK, Edit, EditAt, Data, request, sheet
<1>1. CASE FindEdit(e)
  BY <1>1, CallStep DEF FindEdit
<1>2. CASE WriteEdit(e)
  BY <1>2 DEF WriteEdit
<1>3. CASE Reread(e)
  BY <1>3 DEF Reread
<1>4. ASSUME NEW cell \in Cells, ShowCell(e, cell) PROVE TypeOK'
  BY <1>4 DEF ShowCell, Copied, Shown
<1>5. ASSUME NEW cell \in Cells, CellFails(e, cell) PROVE TypeOK'
  BY <1>5 DEF CellFails, Copied
<1> QED BY <1>1, <1>2, <1>3, <1>4, <1>5 DEF EditStep

LEMMA InitType == Init => TypeOK
<1> SUFFICES ASSUME Init PROVE TypeOK
  OBVIOUS
<1>1. RequestOK /\ calendar \subseteq Days /\ clocked \subseteq Data
  BY DEF Init, RequestOK, Statuses, Data
<1>2. SheetOK /\ create \in Creation
  BY DEF Init, SheetOK, Creation, Statuses, Data
<1>3. NoDecision \in Decision
  BY DEF NoDecision, Decision, Outcomes, Data
<1>4. EditAt("idle") \in Edit
  BY DEF EditAt, Edit, Data
<1> QED BY <1>1, <1>2, <1>3, <1>4 DEF Init, TypeOK

\* The variables keep their types.
THEOREM TypeCorrect == Spec => []TypeOK
<1>1. Init => TypeOK
  BY InitType
<1>2. TypeOK /\ [Next]_vars => TypeOK'
  <2> SUFFICES ASSUME TypeOK, [Next]_vars PROVE TypeOK'
    OBVIOUS
  <2>1. CASE UNCHANGED vars
    BY <2>1 DEF vars, TypeOK, RequestOK, SheetOK, request, sheet
  <2> QED BY <2>1, CreateType, DecisionType, EditType DEF Next
<1> QED BY <1>1, <1>2, PTL DEF Spec

-----------------------------------------------------------------------------
\* The inductive invariant.  The index and the events are stored in the course of
\* create, so who has found them knows that create is past that point.
CreationOrder ==
    /\ indexed => create.step \in {"events", "over"}
    /\ create.step # "over" => stored = {}
    /\ create.step # "events" => create.ids = {}

Found(d) ==
    /\ decision[d].indexed => indexed
    /\ decision[d].events # {} =>
          create.step = "over" /\ decision[d].events = stored

Working(d) ==
    /\ decision[d].step # "effects" => decision[d].todo = {} /\ decision[d].left = {}
    /\ decision[d].left # {} => decision[d].status = "rejected"

\* What the only decision has written to the sheet so far.
SheetFollows(d) ==
    /\ Decided(d) /\ decision[d].indexed /\ ~decision[d].failed
    /\ \A o \in Decisions \ {d} : ~Decided(o)
    => /\ status = decision[d].status /\ approver = d
       /\ "status" \notin decision[d].todo => shownStatus = status
       /\ "approver" \notin decision[d].todo => shownApprover = approver

\* What the only edit has.
FoundByEdit(e) == edit[e].indexed => indexed
SheetFollowsEdit(e) ==
    Edited(e) /\ (\A o \in Edits \ {e} : ~Edited(o)) =>
        /\ data = e
        /\ edit[e].step = "sheet" => edit[e].data = e
        /\ edit[e].step = "sheet" /\ edit[e].indexed /\ ~edit[e].failed =>
              \A c \in Cells \ edit[e].todo : cells[c] = e

\* The events that a rejection still has to delete.
EventsLeft(d) ==
    /\ Decided(d) /\ ~decision[d].failed /\ decision[d].status = "rejected"
    /\ decision[d].events # {} /\ ~create.failed
    => calendar \subseteq decision[d].left

EventsThere ==
    (\A d \in Decisions : Decided(d) => decision[d].status = "approved")
        => stored \cup create.ids \subseteq calendar

Base ==
    /\ TypeOK
    /\ CreationOrder
    /\ \A d \in Decisions : Found(d) /\ Working(d)
    /\ \A e \in Edits : FoundByEdit(e)
IInv ==
    /\ Base
    /\ \A d \in Decisions : SheetFollows(d) /\ EventsLeft(d)
    /\ \A e \in Edits : SheetFollowsEdit(e)
    /\ EventsAreStored
    /\ EventsThere
    /\ ClockFollowsDecision

LEMMA TypeStep == ASSUME TypeOK, Next PROVE TypeOK'
BY CreateType, DecisionType, EditType DEF Next

-----------------------------------------------------------------------------
\* What each of the three leaves alone.
LEMMA CreateFrame ==
  ASSUME CreateStep
  PROVE  UNCHANGED <<type, approver, data, clocked, decision, edit>>
BY DEF CreateStep, Save, Load, AppendRow, SheetFails, StoreIndex, CreateEvent, EventFails,
       StoreEvents, request

LEMMA DecisionFrame ==
  ASSUME NEW d \in Decisions, DecisionStep(d)
  PROVE  UNCHANGED <<type, data, indexed, stored, cells, create, edit>>
BY DEF DecisionStep, Find, Decide, ShowStatus, ShowApprover, ColumnFails, DeleteEvent,
       DeleteFails, Reload, Clock, request, sheet

LEMMA EditFrame ==
  ASSUME NEW e \in Edits, EditStep(e)
  PROVE  UNCHANGED <<type, status, approver, indexed, stored, shownStatus,
                     shownApprover, calendar, clocked, create, decision>>
BY DEF EditStep, FindEdit, WriteEdit, Reread, ShowCell, CellFails, request, sheet

\* A call of approve keeps what it found, and its outcome once it is written.
Keeps(d) ==
    /\ decision[d].step # "idle" =>
          /\ decision'[d].step # "idle"
          /\ decision'[d].status = decision[d].status
          /\ decision'[d].indexed = decision[d].indexed
          /\ decision'[d].events = decision[d].events
          /\ decision'[d].data = decision[d].data
    /\ Decided(d) => Decided(d)'
    /\ decision[d].failed => decision'[d].failed \/ ~Decided(d)

LEMMA DecisionKeeps ==
  ASSUME TypeOK, NEW d \in Decisions, DecisionStep(d),
         NEW o \in Decisions
  PROVE  Keeps(o) /\ (o # d => decision'[o] = decision[o])
<1> USE DEF TypeOK, Decision, GoTo, Keeps, Decided
<1>1. ASSUME NEW outcome \in Outcomes, Find(d, outcome)
      PROVE Keeps(o) /\ (o # d => decision'[o] = decision[o])
  BY <1>1 DEF Find
<1>2. CASE Decide(d)
  BY <1>2 DEF Decide
<1>3. CASE ShowStatus(d) \/ ShowApprover(d) \/ ColumnFails(d)
  BY <1>3 DEF ShowStatus, ShowApprover, ColumnFails, Column
<1>4. ASSUME NEW day \in Days, DeleteEvent(d, day) \/ DeleteFails(d, day)
      PROVE Keeps(o) /\ (o # d => decision'[o] = decision[o])
  BY <1>4 DEF DeleteEvent, DeleteFails, Event
<1>5. CASE Reload(d) \/ Clock(d)
  BY <1>5 DEF Reload, Clock
<1> QED BY <1>1, <1>2, <1>3, <1>4, <1>5 DEF DecisionStep

-----------------------------------------------------------------------------
\* The order of create is kept by its own steps and by those of the others.
LEMMA CreateOrder ==
  ASSUME Base, CreateStep
  PROVE  /\ CreationOrder'
         /\ indexed => indexed'
         /\ create.step = "over" => stored' = stored /\ create'.step = "over"
         /\ create.failed => create'.failed
<1> USE DEF Base, TypeOK, Creation, CreationOrder, RequestOK
<1>1. CASE Save
  BY <1>1 DEF Save
<1>2. CASE Load
  BY <1>2 DEF Load, request
<1>5. CASE AppendRow
  BY <1>5 DEF AppendRow, request
<1>6. CASE SheetFails
  BY <1>6 DEF SheetFails, request
<1>7. CASE StoreIndex
  BY <1>7 DEF StoreIndex
<1>3. ASSUME NEW day \in Days, CreateEvent(day) \/ EventFails(day)
      PROVE  /\ CreationOrder'
             /\ indexed => indexed'
             /\ create.step = "over" => stored' = stored /\ create'.step = "over"
             /\ create.failed => create'.failed
  BY <1>3 DEF CreateEvent, EventFails, request
<1>4. CASE StoreEvents
  BY <1>4 DEF StoreEvents
<1> QED BY <1>1, <1>2, <1>3, <1>4, <1>5, <1>6, <1>7 DEF CreateStep

LEMMA FoundStep ==
  ASSUME Base, NEW d \in Decisions, DecisionStep(d), NEW o \in Decisions
  PROVE  Found(o)' /\ Working(o)'
<1>0. UNCHANGED <<create, indexed, stored>>
  BY DecisionFrame
<1>1. CASE o # d
  BY <1>0, <1>1, DecisionKeeps DEF Base, Found, Working
<1>2. CASE o = d
  <2> USE <1>0, <1>2 DEF Base, TypeOK, Decision, Found, Working, GoTo, CreationOrder
  <2>1. ASSUME NEW outcome \in Outcomes, Find(d, outcome) PROVE Found(o)' /\ Working(o)'
    BY <2>1 DEF Find
  <2>2. CASE Decide(d)
    BY <2>2 DEF Decide, EventsToDelete
  <2>3. CASE ShowStatus(d) \/ ShowApprover(d) \/ ColumnFails(d)
    BY <2>3 DEF ShowStatus, ShowApprover, ColumnFails, Column
  <2>4. ASSUME NEW day \in Days, DeleteEvent(d, day) \/ DeleteFails(d, day)
        PROVE Found(o)' /\ Working(o)'
    BY <2>4 DEF DeleteEvent, DeleteFails, Event
  <2>5. CASE Reload(d) \/ Clock(d)
    BY <2>5 DEF Reload, Clock
  <2> QED BY <2>1, <2>2, <2>3, <2>4, <2>5 DEF DecisionStep
<1> QED BY <1>1, <1>2

LEMMA FoundByEditStep ==
  ASSUME Base, NEW e \in Edits, EditStep(e), NEW o \in Edits PROVE FoundByEdit(o)'
<1>0. UNCHANGED indexed
  BY EditFrame
<1> USE <1>0 DEF Base, TypeOK, Edit, FoundByEdit, EditAt
<1>1. CASE FindEdit(e) \/ WriteEdit(e) \/ Reread(e)
  BY <1>1 DEF FindEdit, WriteEdit, Reread
<1>2. ASSUME NEW cell \in Cells, ShowCell(e, cell) \/ CellFails(e, cell)
      PROVE FoundByEdit(o)'
  BY <1>2 DEF ShowCell, CellFails, Copied
<1> QED BY <1>1, <1>2 DEF EditStep

LEMMA BaseStep == ASSUME Base, Next PROVE Base'
<1>1. CASE CreateStep
  <2>1. TypeOK' /\ CreationOrder'
    BY <1>1, TypeStep, CreateOrder DEF Base
  <2>2. ASSUME NEW d \in Decisions PROVE Found(d)' /\ Working(d)'
    BY <1>1, CreateOrder, CreateFrame DEF Base, Found, Working
  <2>3. ASSUME NEW e \in Edits PROVE FoundByEdit(e)'
    BY <1>1, CreateOrder, CreateFrame DEF Base, FoundByEdit
  <2> QED BY <2>1, <2>2, <2>3 DEF Base
<1>2. ASSUME NEW d \in Decisions, DecisionStep(d) PROVE Base'
  BY <1>2, TypeStep, DecisionFrame, FoundStep DEF Base, CreationOrder, FoundByEdit
<1>3. ASSUME NEW e \in Edits, EditStep(e) PROVE Base'
  BY <1>3, TypeStep, EditFrame, FoundByEditStep DEF Base, CreationOrder, Found, Working
<1> QED BY <1>1, <1>2, <1>3 DEF Next

-----------------------------------------------------------------------------
\* The only decision that is written leaves its outcome in the sheet.
LEMMA SheetStep ==
  ASSUME Base, Next, \A d \in Decisions : SheetFollows(d), NEW d \in Decisions
  PROVE  SheetFollows(d)'
<1>1. CASE CreateStep
  <2> SUFFICES ASSUME decision[d].indexed, Decided(d) PROVE SheetFollows(d)'
    BY <1>1, CreateFrame DEF SheetFollows, Decided
  <2>1. create.step \in {"events", "over"}
    BY DEF Base, Found, CreationOrder
  <2>2. UNCHANGED <<status, shownStatus, shownApprover>>
    BY <1>1, <2>1 DEF CreateStep, Save, Load, AppendRow, SheetFails, StoreIndex,
         CreateEvent, EventFails, StoreEvents, request, sheet
  <2> QED BY <1>1, <2>2, CreateFrame DEF SheetFollows, Decided
<1>2. ASSUME NEW e \in Edits, EditStep(e) PROVE SheetFollows(d)'
  BY <1>2, EditFrame DEF SheetFollows, Decided
<1>3. ASSUME NEW o \in Decisions, DecisionStep(o), o # d PROVE SheetFollows(d)'
  <2>1. decision'[d] = decision[d] /\ (Decided(o) => Decided(o)')
    BY <1>3, DecisionKeeps DEF Base, Keeps
  <2>2. \A q \in Decisions : Decided(q) => Decided(q)'
    BY <1>3, DecisionKeeps DEF Base, Keeps
  <2>3. CASE Decided(o)'
    BY <1>3, <2>3 DEF SheetFollows
  <2>4. CASE ~Decided(o)'
    <3>1. UNCHANGED <<status, approver, shownStatus, shownApprover>>
      BY <1>3, <2>4 DEF Base, TypeOK, Decision, DecisionStep, Find, Decide, ShowStatus,
           ShowApprover, ColumnFails, Column, DeleteEvent, DeleteFails, Event, Reload,
           Clock, GoTo, Decided, request, sheet
    <3> QED BY <2>1, <2>2, <3>1 DEF SheetFollows, Decided
  <2> QED BY <2>3, <2>4
<1>4. CASE DecisionStep(d)
  <2>1. \A q \in Decisions : Decided(q) => Decided(q)'
    BY <1>4, DecisionKeeps DEF Base, Keeps
  <2>2. SheetFollows(d)
    OBVIOUS
  <2> USE <2>1, <2>2 DEF Base, TypeOK, Decision, SheetFollows, Decided, GoTo, Working
  <2>3. ASSUME NEW outcome \in Outcomes, Find(d, outcome) PROVE SheetFollows(d)'
    BY <2>3 DEF Find
  <2>4. CASE Decide(d)
    BY <2>4 DEF Decide, ColumnsToWrite, ApprovalColumns
  <2>5. CASE ShowStatus(d)
    BY <2>5 DEF ShowStatus, Column, request
  <2>6. CASE ShowApprover(d)
    BY <2>6 DEF ShowApprover, Column, request
  <2>7. CASE ColumnFails(d)
    BY <2>7 DEF ColumnFails, Column
  <2>8. ASSUME NEW day \in Days, DeleteEvent(d, day) \/ DeleteFails(d, day)
        PROVE SheetFollows(d)'
    BY <2>8 DEF DeleteEvent, DeleteFails, Event, request, sheet
  <2>9. CASE Reload(d) \/ Clock(d)
    BY <2>9 DEF Reload, Clock, request, sheet
  <2> QED BY <1>4, <2>3, <2>4, <2>5, <2>6, <2>7, <2>8, <2>9 DEF DecisionStep
<1> QED BY <1>1, <1>2, <1>3, <1>4 DEF Next

-----------------------------------------------------------------------------
\* The only edit that is written leaves its data in the request and the sheet.
LEMMA EditKeeps ==
  ASSUME TypeOK, NEW e \in Edits, EditStep(e), NEW o \in Edits
  PROVE  /\ Edited(o) => Edited(o)'
         /\ o # e => edit'[o] = edit[o]
<1> USE DEF TypeOK, Edit, EditAt, Edited
<1>1. CASE FindEdit(e) \/ WriteEdit(e) \/ Reread(e)
  BY <1>1 DEF FindEdit, WriteEdit, Reread
<1>2. ASSUME NEW cell \in Cells, ShowCell(e, cell) \/ CellFails(e, cell)
      PROVE (Edited(o) => Edited(o)') /\ (o # e => edit'[o] = edit[o])
  BY <1>2 DEF ShowCell, CellFails, Copied
<1> QED BY <1>1, <1>2 DEF EditStep

LEMMA EditSheetStep ==
  ASSUME Base, Next, \A e \in Edits : SheetFollowsEdit(e), NEW e \in Edits
  PROVE  SheetFollowsEdit(e)'
<1>1. CASE CreateStep
  <2>1. edit[e].indexed => cells' = cells
    <3> SUFFICES ASSUME edit[e].indexed PROVE cells' = cells
      OBVIOUS
    <3>1. create.step \in {"events", "over"}
      BY DEF Base, FoundByEdit, CreationOrder
    <3> QED BY <1>1, <3>1 DEF CreateStep, Save, Load, AppendRow, SheetFails, StoreIndex,
                CreateEvent, EventFails, StoreEvents, sheet
  <2> QED BY <1>1, <2>1, CreateFrame DEF SheetFollowsEdit, Edited
<1>2. ASSUME NEW d \in Decisions, DecisionStep(d) PROVE SheetFollowsEdit(e)'
  BY <1>2, DecisionFrame DEF SheetFollowsEdit, Edited
<1>3. ASSUME NEW o \in Edits, EditStep(o), o # e PROVE SheetFollowsEdit(e)'
  <2>1. \A q \in Edits : Edited(q) => Edited(q)'
    BY <1>3, EditKeeps DEF Base
  <2>2. edit'[e] = edit[e]
    BY <1>3, EditKeeps DEF Base
  <2>3. CASE Edited(o)'
    BY <1>3, <2>3 DEF SheetFollowsEdit
  <2>4. CASE ~Edited(o)'
    <3>1. UNCHANGED <<data, cells>>
      BY <1>3, <2>4 DEF Base, TypeOK, Edit, EditAt, Edited, EditStep, FindEdit,
           WriteEdit, Reread, ShowCell, CellFails, Copied, request, sheet
    <3> QED BY <2>1, <2>2, <3>1 DEF SheetFollowsEdit, Edited
  <2> QED BY <2>3, <2>4
<1>4. CASE EditStep(e)
  <2>1. \A q \in Edits : Edited(q) => Edited(q)'
    BY <1>4, EditKeeps DEF Base
  <2>2. SheetFollowsEdit(e)
    OBVIOUS
  <2> USE <2>1, <2>2 DEF Base, TypeOK, Edit, EditAt, SheetFollowsEdit, Edited
  <2>3. CASE FindEdit(e)
    BY <2>3 DEF FindEdit
  <2>4. CASE WriteEdit(e)
    BY <2>4 DEF WriteEdit
  <2>5. CASE Reread(e)
    BY <2>5 DEF Reread, request
  <2>6. ASSUME NEW cell \in Cells, ShowCell(e, cell) PROVE SheetFollowsEdit(e)'
    BY <2>6 DEF ShowCell, Copied, Shown, request, SheetOK
  <2>7. ASSUME NEW cell \in Cells, CellFails(e, cell) PROVE SheetFollowsEdit(e)'
    BY <2>7 DEF CellFails, Copied, request, sheet
  <2> QED BY <1>4, <2>3, <2>4, <2>5, <2>6, <2>7 DEF EditStep
<1> QED BY <1>1, <1>2, <1>3, <1>4 DEF Next

-----------------------------------------------------------------------------
\* Only create adds to the calendar, and only a call of approve that rejects and
\* found the events deletes from it.
LEMMA DecisionCalendar ==
  ASSUME Base, NEW d \in Decisions, DecisionStep(d)
  PROVE  /\ calendar' \subseteq calendar
         /\ calendar' # calendar => Decided(d) /\ decision[d].status = "rejected"
<1> USE DEF Base, Working, Decided
<1>1. CASE \E outcome \in Outcomes : Find(d, outcome)
  BY <1>1 DEF Find
<1>2. CASE Decide(d) \/ ShowStatus(d) \/ ShowApprover(d) \/ ColumnFails(d)
  BY <1>2 DEF Decide, ShowStatus, ShowApprover, ColumnFails
<1>3. ASSUME NEW day \in Days, DeleteEvent(d, day) \/ DeleteFails(d, day)
      PROVE  /\ calendar' \subseteq calendar
             /\ calendar' # calendar => Decided(d) /\ decision[d].status = "rejected"
  BY <1>3 DEF DeleteEvent, DeleteFails, Event
<1>4. CASE Reload(d) \/ Clock(d)
  BY <1>4 DEF Reload, Clock
<1> QED BY <1>1, <1>2, <1>3, <1>4 DEF DecisionStep

LEMMA StoredStep == ASSUME Base, EventsAreStored, Next PROVE EventsAreStored'
<1>1. CASE CreateStep
  <2> USE DEF EventsAreStored, Base, CreationOrder, TypeOK, Creation
  <2>1. CASE Save
    BY <2>1 DEF Save
  <2>2. CASE Load \/ AppendRow
    BY <2>2 DEF Load, AppendRow, request
  <2>3. CASE SheetFails \/ StoreIndex
    BY <2>3 DEF SheetFails, StoreIndex, request
  <2>4. ASSUME NEW day \in Days, CreateEvent(day) PROVE EventsAreStored'
    BY <2>4 DEF CreateEvent, request
  <2>5. ASSUME NEW day \in Days, EventFails(day) PROVE EventsAreStored'
    BY <2>5 DEF EventFails, request
  <2>6. CASE StoreEvents
    BY <2>6 DEF StoreEvents, EventsToStore
  <2> QED BY <1>1, <2>1, <2>2, <2>3, <2>4, <2>5, <2>6 DEF CreateStep
<1>2. ASSUME NEW d \in Decisions, DecisionStep(d) PROVE EventsAreStored'
  BY <1>2, DecisionFrame, DecisionCalendar DEF EventsAreStored
<1>3. ASSUME NEW e \in Edits, EditStep(e) PROVE EventsAreStored'
  BY <1>3, EditFrame DEF EventsAreStored
<1> QED BY <1>1, <1>2, <1>3 DEF Next

LEMMA ThereStep == ASSUME Base, EventsThere, Next PROVE EventsThere'
<1>1. CASE CreateStep
  <2>0. decision' = decision
    BY <1>1, CreateFrame
  <2> USE <2>0 DEF EventsThere, Decided, Base, CreationOrder, TypeOK, Creation
  <2>1. CASE Save
    BY <2>1 DEF Save
  <2>2. CASE Load \/ AppendRow
    BY <2>2 DEF Load, AppendRow, request
  <2>3. CASE SheetFails \/ StoreIndex
    BY <2>3 DEF SheetFails, StoreIndex, request
  <2>4. ASSUME NEW day \in Days, CreateEvent(day) PROVE EventsThere'
    BY <2>4 DEF CreateEvent, request
  <2>5. ASSUME NEW day \in Days, EventFails(day) PROVE EventsThere'
    BY <2>5 DEF EventFails, request
  <2>6. CASE StoreEvents
    BY <2>6 DEF StoreEvents, EventsToStore
  <2> QED BY <1>1, <2>1, <2>2, <2>3, <2>4, <2>5, <2>6 DEF CreateStep
<1>2. ASSUME NEW d \in Decisions, DecisionStep(d) PROVE EventsThere'
  <2>1. \A o \in Decisions : Keeps(o)
    BY <1>2, DecisionKeeps DEF Base
  <2>2. \A o \in Decisions : Decided(o) =>
            Decided(o)' /\ decision'[o].status = decision[o].status
    BY <2>1 DEF Keeps, Decided
  <2>3. CASE calendar' = calendar
    BY <1>2, <2>2, <2>3, DecisionFrame DEF EventsThere
  <2>4. CASE calendar' # calendar
    BY <1>2, <2>2, <2>4, DecisionCalendar DEF EventsThere, Outcomes
  <2> QED BY <2>3, <2>4
<1>3. ASSUME NEW e \in Edits, EditStep(e) PROVE EventsThere'
  BY <1>3, EditFrame DEF EventsThere, Decided
<1> QED BY <1>1, <1>2, <1>3 DEF Next

LEMMA LeftStep ==
  ASSUME Base, EventsAreStored, Next, NEW d \in Decisions, EventsLeft(d)
  PROVE  EventsLeft(d)'
<1>1. CASE CreateStep
  <2>1. create.step # "over"
    BY <1>1 DEF CreateStep, Save, Load, AppendRow, SheetFails, StoreIndex, CreateEvent,
         EventFails, StoreEvents
  <2> QED BY <1>1, <2>1, CreateFrame DEF EventsLeft, Base, Found
<1>2. ASSUME NEW e \in Edits, EditStep(e) PROVE EventsLeft(d)'
  BY <1>2, EditFrame DEF EventsLeft, Decided
<1>3. ASSUME NEW o \in Decisions, DecisionStep(o), o # d PROVE EventsLeft(d)'
  BY <1>3, DecisionFrame, DecisionKeeps, DecisionCalendar
     DEF EventsLeft, Decided, Base
<1>4. CASE DecisionStep(d)
  <2>0. UNCHANGED create
    BY <1>4, DecisionFrame
  <2> USE <2>0 DEF EventsLeft, Decided, Base, TypeOK, Decision, GoTo, Working
  <2>1. ASSUME NEW outcome \in Outcomes, Find(d, outcome) PROVE EventsLeft(d)'
    BY <2>1 DEF Find
  <2>2. CASE Decide(d)
    <3> SUFFICES ASSUME decision[d].status = "rejected", decision[d].events # {},
                        ~create.failed
                 PROVE calendar \subseteq decision[d].events
      BY <2>2 DEF Decide, EventsToDelete
    <3>1. decision[d].events = stored /\ create.ids = {}
      BY DEF Found, CreationOrder
    <3> QED BY <3>1 DEF EventsAreStored
  <2>3. CASE ShowStatus(d) \/ ShowApprover(d) \/ ColumnFails(d)
    BY <2>3 DEF ShowStatus, ShowApprover, ColumnFails, Column
  <2>4. ASSUME NEW day \in Days, DeleteEvent(d, day) \/ DeleteFails(d, day)
        PROVE EventsLeft(d)'
    BY <2>4 DEF DeleteEvent, DeleteFails, Event
  <2>5. CASE Reload(d) \/ Clock(d)
    BY <2>5 DEF Reload, Clock
  <2> QED BY <1>4, <2>1, <2>2, <2>3, <2>4, <2>5 DEF DecisionStep
<1> QED BY <1>1, <1>2, <1>3, <1>4 DEF Next

-----------------------------------------------------------------------------
\* The attendance log follows the approvals.
LEMMA ClockStep ==
  ASSUME Base, ClockFollowsDecision, Next PROVE ClockFollowsDecision'
<1>1. CASE CreateStep
  BY <1>1, CreateFrame DEF ClockFollowsDecision, Decided, DecisionDone
<1>2. ASSUME NEW e \in Edits, EditStep(e) PROVE ClockFollowsDecision'
  BY <1>2, EditFrame DEF ClockFollowsDecision, Decided, DecisionDone
<1>3. ASSUME NEW d \in Decisions, DecisionStep(d) PROVE ClockFollowsDecision'
  <2>0. type' = type
    BY <1>3, DecisionFrame
  <2>1. \A o \in Decisions : Keeps(o) /\ (o # d => decision'[o] = decision[o])
    BY <1>3, DecisionKeeps DEF Base
  <2>2. \A o \in Decisions : Decided(o) =>
            /\ Decided(o)' /\ decision'[o].status = decision[o].status
            /\ decision'[o].data = decision[o].data
    BY <2>1 DEF Keeps, Decided
  <2>3. CASE Clock(d)
    <3> USE DEF Base, TypeOK, Decision, GoTo
    <3>1. /\ decision[d].step = "clock"
          /\ decision'[d].step = "over"
          /\ decision'[d].failed = decision[d].failed
          /\ clocked' = IF Corrects(decision[d]) THEN clocked \cup {decision[d].data}
                                                 ELSE clocked
      BY <2>3 DEF Clock
    <3>2. ASSUME NEW v \in clocked'
          PROVE \E o \in Decisions : /\ Decided(o)' /\ decision'[o].status = "approved"
                                     /\ decision'[o].data = v
      <4>1. CASE v \in clocked
        BY <2>2, <4>1 DEF ClockFollowsDecision
      <4>2. CASE v \notin clocked
        <5>1. Corrects(decision[d]) /\ v = decision[d].data
          BY <3>1, <3>2, <4>2
        <5> QED BY <2>2, <3>1, <5>1 DEF Corrects, Decided
      <4> QED BY <4>1, <4>2
    <3>3. ASSUME NEW o \in Decisions, DecisionDone(o)',
                 decision'[o].status = "approved", type = "clock_forget"
          PROVE decision'[o].data \in clocked'
      <4>1. CASE o = d
        BY <2>2, <3>1, <3>3, <4>1 DEF Decided, Corrects
      <4>2. CASE o # d
        BY <2>1, <3>1, <3>3, <4>2 DEF DecisionDone, ClockFollowsDecision
      <4> QED BY <4>1, <4>2
    <3> QED BY <2>0, <3>2, <3>3 DEF ClockFollowsDecision
  <2>4. CASE ~Clock(d)
    <3>1. clocked' = clocked
      BY <1>3, <2>4 DEF DecisionStep, Find, Decide, ShowStatus, ShowApprover,
           ColumnFails, DeleteEvent, DeleteFails, Reload
    <3>2. decision'[d].step # "over"
      BY <1>3, <2>4 DEF Base, TypeOK, Decision, GoTo, DecisionStep, Find, Decide,
           ShowStatus, ShowApprover, ColumnFails, Column, DeleteEvent, DeleteFails,
           Event, Reload
    <3> QED BY <2>0, <2>1, <2>2, <3>1, <3>2 DEF ClockFollowsDecision, DecisionDone
  <2> QED BY <2>3, <2>4
<1> QED BY <1>1, <1>2, <1>3 DEF Next

-----------------------------------------------------------------------------
LEMMA InitIInv == Init => IInv
<1> SUFFICES ASSUME Init PROVE IInv
  OBVIOUS
<1>1. \A d \in Decisions : decision[d] = NoDecision
  BY DEF Init
<1>2. \A e \in Edits : edit[e] = EditAt("idle")
  BY DEF Init
<1>3. CreationOrder /\ EventsAreStored /\ EventsThere
  BY DEF Init, CreationOrder, EventsAreStored, EventsThere
<1>4. ASSUME NEW d \in Decisions
      PROVE Found(d) /\ Working(d) /\ SheetFollows(d) /\ EventsLeft(d)
  <2>1. /\ decision[d].step = "idle" /\ ~decision[d].indexed
        /\ decision[d].events = {} /\ decision[d].todo = {} /\ decision[d].left = {}
    BY <1>1 DEF NoDecision
  <2>2. ~Decided(d)
    BY <2>1 DEF Decided
  <2> QED BY <2>1, <2>2 DEF Found, Working, SheetFollows, EventsLeft
<1>5. \A e \in Edits : FoundByEdit(e) /\ SheetFollowsEdit(e)
  BY <1>2 DEF EditAt, FoundByEdit, SheetFollowsEdit, Edited
<1>6. ClockFollowsDecision
  BY <1>1 DEF Init, ClockFollowsDecision, DecisionDone, NoDecision
<1> QED BY <1>3, <1>4, <1>5, <1>6, InitType DEF IInv, Base

LEMMA IInvStep == ASSUME IInv, [Next]_vars PROVE IInv'
<1>1. CASE Next
  <2>1. Base' /\ EventsAreStored' /\ EventsThere' /\ ClockFollowsDecision'
    BY <1>1, BaseStep, StoredStep, ThereStep, ClockStep DEF IInv
  <2>2. \A d \in Decisions : SheetFollows(d)' /\ EventsLeft(d)'
    BY <1>1, SheetStep, LeftStep DEF IInv
  <2>3. \A e \in Edits : SheetFollowsEdit(e)'
    BY <1>1, EditSheetStep DEF IInv
  <2> QED BY <2>1, <2>2, <2>3 DEF IInv
<1>2. CASE UNCHANGED vars
  BY <1>2 DEF IInv, Base, TypeOK, RequestOK, SheetOK, CreationOrder, Found, Working,
       FoundByEdit, SheetFollows, EventsLeft, SheetFollowsEdit, EventsAreStored,
       EventsThere, ClockFollowsDecision, Decided, Edited, DecisionDone, vars, request,
       sheet
<1> QED BY <1>1, <1>2

LEMMA Inductive == Spec => []IInv
BY InitIInv, IInvStep, PTL DEF Spec

\* A decision that found the index is shown in the sheet if it is the only one.
THEOREM SheetShowsDecisionCorrect == Spec => []SheetShowsDecision
<1>1. IInv => SheetShowsDecision
  BY DEF IInv, Base, SheetFollows, Working, SheetShowsDecision, DecisionDone, Decided
<1> QED BY <1>1, Inductive, PTL

\* An edit that found the index is shown in every column if it is the only one.
THEOREM SheetShowsEditCorrect == Spec => []SheetShowsEdit
<1>1. IInv => SheetShowsEdit
  BY DEF IInv, SheetFollowsEdit, SheetShowsEdit, EditDone, Edited
<1> QED BY <1>1, Inductive, PTL

\* No event is created that neither the request nor the call of create knows.
THEOREM EventsAreStoredCorrect == Spec => []EventsAreStored
<1>1. IInv => EventsAreStored
  BY DEF IInv
<1> QED BY <1>1, Inductive, PTL

\* A rejection that found the events leaves none of them.
THEOREM RejectionRemovesEventsCorrect == Spec => []RejectionRemovesEvents
<1>1. IInv => RejectionRemovesEvents
  BY DEF IInv, Base, EventsLeft, Working, RejectionRemovesEvents, DecisionDone, Decided
<1> QED BY <1>1, Inductive, PTL

\* Only a rejection deletes events that are stored.
THEOREM OnlyRejectionsDeleteCorrect == Spec => []OnlyRejectionsDelete
<1>1. IInv => OnlyRejectionsDelete
  BY DEF IInv, EventsThere, OnlyRejectionsDelete
<1> QED BY <1>1, Inductive, PTL

\* The sheet shows every decision and every edit that was alone and found its row.
THEOREM SheetShowsChangesCorrect == Spec => []SheetShowsChanges
BY SheetShowsDecisionCorrect, SheetShowsEditCorrect, PTL DEF SheetShowsChanges

\* The events of the calendar follow the life of the request.
THEOREM EventsFollowDecisionsCorrect == Spec => []EventsFollowDecisions
BY EventsAreStoredCorrect, RejectionRemovesEventsCorrect, OnlyRejectionsDeleteCorrect,
   PTL DEF EventsFollowDecisions

\* The attendance log is corrected by every approval and by nothing else.
THEOREM ClockFollowsDecisionCorrect == Spec => []ClockFollowsDecision
<1>1. IInv => ClockFollowsDecision
  BY DEF IInv
<1> QED BY <1>1, Inductive, PTL

-----------------------------------------------------------------------------
(* The user's row (StaffRecords).                                          *)

\* The requests by their next statement, and the run of the reminders.
ContractRequest ==
  [op: {"number"}, user: Users, expires: Expiries, number: Nat \ {0}]
    \cup [op: {"edit"}, user: Users, id: Ids, expires: Expiries]
    \cup [op: {"drop"}, user: Users, id: Ids]
    \cup [op: {"count"}, user: Users]
    \cup [op: {"latest"}, user: Users, count: 0..MaxContracts]
    \cup [op: {"copy"}, user: Users, mirror: Mirror]
FaceRequest ==
  [op: {"register"}, user: Users, face: Faces]
    \cup [op: {"review"}, user: Users, verdict: {"approved", "rejected"}]
    \cup [op: {"cancel"}, user: Users]
    \cup [op: {"clock"}, user: Users, face: Faces]
StaffRequest == {Idle} \cup ContractRequest \cup FaceRequest
Reports == (UNION Range(Managers)) \X Companies
Run ==
  {Idle} \cup [op: {"next"}, today: 1..LastDay, left: SUBSET Users]
    \cup [op: {"notify"}, today: 1..LastDay, left: SUBSET Users, user: Users,
          companies: SUBSET Companies, due: SUBSET Reports]

ContractTypes ==
  /\ made \in 0..MaxContracts
  /\ contract \in [Ids -> Contract \cup {NoContract}]
  /\ \A id \in Ids : contract[id] # NoContract => id <= made /\ contract[id].number <= made
  /\ mirror \in [Users -> Mirror]
  /\ torn \subseteq Users
ReminderTypes ==
  /\ active \in [Users -> BOOLEAN] /\ away \subseteq Users
  /\ lastSent \in [Users -> 0..LastDay] /\ today \in 1..LastDay
  /\ sweep \in Run
  /\ told \in [(UNION Range(Managers)) \X Companies \X Users \X (1..LastDay) -> Nat]
  /\ broken \subseteq Users \X (1..LastDay)
FaceTypes ==
  /\ kyc \in [Users -> KycStatuses] /\ face \in [Users -> Faces \cup {NoFace}]
  /\ \A u \in Users : kyc[u] # "none" => face[u] # NoFace
  /\ swapped \subseteq Users
  /\ reviewed \subseteq Users \X Faces /\ clockedIn \subseteq Users \X Faces
StaffRequestTypes ==
  /\ flight \in [Slots -> StaffRequest] /\ requests \in 0..MaxRequests
  /\ \A k \in Slots : flight[k].op = "number" => flight[k].number <= made + 1
  /\ \A k \in Slots : flight[k].op = "review" => face[flight[k].user] # NoFace
StaffTypes == ContractTypes /\ ReminderTypes /\ FaceTypes /\ StaffRequestTypes

\* Contracts: unless a user's copy is torn, one request at a time is at the contracts, what it
\* has read is right, and when there is none the copy is.
AtContracts(k, u) ==
  flight[k].op \in {"number", "edit", "drop", "count", "latest", "copy"} /\ flight[k].user = u
CopyNow(u) == CopyOf(u, Cardinality(ContractsOf(u)))
Aimed ==
  \A k \in Slots : flight[k].op \in {"edit", "drop"} =>
    /\ flight[k].id <= made
    /\ contract[flight[k].id].user \in {flight[k].user, NoContract.user}
OneAtContracts ==
  \A u \in Users \ torn : \A i, j \in Slots : AtContracts(i, u) /\ AtContracts(j, u) => i = j
CopyRight ==
  \A u \in Users \ torn :
    /\ (\A k \in Slots : ~AtContracts(k, u)) => mirror[u] \in CopyNow(u)
    /\ \A k \in Slots : AtContracts(k, u) =>
         /\ flight[k].op = "latest" => flight[k].count = Cardinality(ContractsOf(u))
         /\ flight[k].op = "copy" => flight[k].mirror \in CopyNow(u)
MirrorInv == Aimed /\ OneAtContracts /\ CopyRight

\* Reminders.
Told(r, c, u, d) == told[<<r, c, u, d>>]
Telling(u, d) == sweep.op = "notify" /\ sweep.user = u /\ sweep.today = d
\* The run is past the manager.
Passed(r, c, u, d) ==
  \/ lastSent[u] >= d
  \/ Telling(u, d) /\ c \notin sweep.companies /\ <<r, c>> \notin sweep.due
ActiveUnlessAway == \A u \in Users \ away : active[u] = TRUE
NotYet ==
  sweep # Idle => /\ sweep.today <= today
                  /\ \A u \in sweep.left : lastSent[u] < sweep.today
BeingTold ==
  sweep.op = "notify" =>
    /\ lastSent[sweep.user] < sweep.today /\ sweep.user \notin sweep.left
    /\ sweep.companies \subseteq CompaniesOf[sweep.user]
    /\ \A t \in sweep.due : t[2] \notin sweep.companies /\ t[1] \in Managers[t[2]]
    /\ \A c \in CompaniesOf[sweep.user] \ sweep.companies : \A r \in Managers[c] \ away :
         <<r, c>> \in sweep.due \/ Told(r, c, sweep.user, sweep.today) >= 1
OnlyOnce ==
  \A u \in Users, d \in 1..LastDay, c \in Companies : \A r \in Managers[c] :
    <<u, d>> \notin broken =>
      Told(r, c, u, d) <= 1 /\ (Told(r, c, u, d) # 0 => Passed(r, c, u, d))
AllTold ==
  \A u \in Users, d \in 1..LastDay, c \in Companies : \A r \in Managers[c] :
    lastSent[u] = d /\ c \in CompaniesOf[u] /\ r \notin away => Told(r, c, u, d) >= 1
RemindInv == ActiveUnlessAway /\ NotYet /\ BeingTold /\ OnlyOnce /\ AllTold

\* Faces.
Seen(u, f) == <<u, f>> \in reviewed \/ u \in swapped
ReviewInv ==
  /\ \A u \in Users : kyc[u] = "approved" => Seen(u, face[u])
  /\ \A k \in Slots : flight[k].op = "review" => Seen(flight[k].user, face[flight[k].user])
  /\ \A k \in Slots : flight[k].op = "clock" => Seen(flight[k].user, flight[k].face)
  /\ \A t \in clockedIn : Seen(t[1], t[2])

\* The steps of StaffNext by what they are about.
Contracting(k) ==
  \/ \E u \in Users, e \in Expiries : CreateContract(k, u, e)
  \/ \E id \in Ids : RemoveContract(k, id) \/ \E e \in Expiries : UpdateContract(k, id, e)
  \/ SaveContract(k) \/ WriteContract(k) \/ DropContract(k)
  \/ CountContracts(k) \/ FindLatest(k) \/ CopyLatest(k) \/ SyncFails(k)
Facing(k) ==
  \/ \E u \in Users, f \in Faces : RegisterFace(k, u, f) \/ FaceCheckin(k, u, f)
  \/ \E u \in Users : CancelKyc(k, u)
  \/ \E u \in Users, v \in {"approved", "rejected"} : ReviewKyc(k, u, v)
  \/ StoreFace(k) \/ WriteReview(k) \/ WriteCancel(k) \/ FaceRefused(k) \/ ClockFace(k)
Reminding ==
  \/ Sweep \/ MarkSent \/ NotifyFails \/ SweepEnds \/ NextDay
  \/ \E u \in Users : SweepPass(u)
  \/ \E c \in Companies : Recipients(c) \/ \E r \in Managers[c] : Notify(r, c)
Updating ==
  \E u \in Users, a \in BOOLEAN : \E m \in {mirror[u], [count |-> 0, expires |-> Never]} :
    UpdateUser(u, a, m)

LEMMA StaffSteps ==
  ASSUME [StaffNext]_staffVars
  PROVE  \/ \E k \in Slots : Contracting(k) \/ Facing(k)
         \/ Reminding \/ Updating \/ UNCHANGED staffVars
BY Zenon DEF StaffNext, Contracting, Facing, Reminding, Updating

\* What a request of each kind consists of.
LEMMA StaffFields ==
  ASSUME NEW f \in StaffRequest
  PROVE  /\ f.op = "number" => f \in [op: {"number"}, user: Users, expires: Expiries, number: Nat \ {0}]
         /\ f.op = "edit" => f \in [op: {"edit"}, user: Users, id: Ids, expires: Expiries]
         /\ f.op = "drop" => f \in [op: {"drop"}, user: Users, id: Ids]
         /\ f.op = "count" => f \in [op: {"count"}, user: Users]
         /\ f.op = "latest" => f \in [op: {"latest"}, user: Users, count: 0..MaxContracts]
         /\ f.op = "copy" => f \in [op: {"copy"}, user: Users, mirror: Mirror]
         /\ f.op = "register" => f \in [op: {"register"}, user: Users, face: Faces]
         /\ f.op = "review" => f \in [op: {"review"}, user: Users, verdict: {"approved", "rejected"}]
         /\ f.op = "cancel" => f \in [op: {"cancel"}, user: Users]
         /\ f.op = "clock" => f \in [op: {"clock"}, user: Users, face: Faces]
BY DEF StaffRequest, ContractRequest, FaceRequest, Idle

LEMMA IdleRequest == Idle \in StaffRequest /\ Idle.op = "idle"
BY DEF Idle, StaffRequest

LEMMA RunFields ==
  ASSUME NEW s \in Run
  PROVE  /\ s.op \in {"idle", "next", "notify"} /\ (s.op = "idle" <=> s = Idle)
         /\ s.op = "next" => s \in [op: {"next"}, today: 1..LastDay, left: SUBSET Users]
         /\ s.op = "notify" =>
              s \in [op: {"notify"}, today: 1..LastDay, left: SUBSET Users, user: Users,
                     companies: SUBSET Companies, due: SUBSET Reports]
BY DEF Run, Idle

LEMMA NumbersFinite ==
  ASSUME ContractTypes, NEW u \in Users
  PROVE  Cardinality(ContractsOf(u)) \in 0..MaxContracts
<1>1. MaxContracts \in Nat
  BY StaffAssumption
<1>2. IsFiniteSet(Ids) /\ Cardinality(Ids) = MaxContracts
  BY <1>1, FS_Interval DEF Ids
<1>3. ContractsOf(u) \subseteq Ids
  BY DEF ContractsOf
<1> QED BY <1>1, <1>2, <1>3, FS_Subset, FS_CardinalityType

LEMMA StoredContracts ==
  ASSUME ContractTypes, NEW u \in Users, NEW id \in ContractsOf(u)
  PROVE  /\ id \in Ids /\ contract[id] # NoContract /\ contract[id] \in Contract
         /\ contract[id].user = u /\ contract[id].number \in Ids
BY StaffAssumption DEF ContractTypes, ContractsOf, Contract, NoContract

LEMMA CopyType ==
  ASSUME ContractTypes, NEW u \in Users, NEW n \in 0..MaxContracts, NEW c \in CopyOf(u, n)
  PROVE  c \in Mirror
<1>1. CASE Latest(u) = {}
  BY <1>1 DEF CopyOf, Mirror
<1>2. CASE Latest(u) # {}
  <2>1. PICK i \in Latest(u) : c = [count |-> n, expires |-> contract[i].expires]
    BY <1>2 DEF CopyOf
  <2>2. contract[i] \in Contract
    BY StoredContracts DEF Latest
  <2> QED BY <2>1, <2>2 DEF Mirror, Contract
<1> QED BY <1>1, <1>2

LEMMA StaffTypesInit == StaffInit => StaffTypes
<1> SUFFICES ASSUME StaffInit PROVE StaffTypes
  OBVIOUS
<1> USE StaffAssumption
<1>1. ContractTypes
  BY DEF StaffInit, ContractTypes, Mirror
<1>2. ReminderTypes
  <2>1. active \in [Users -> BOOLEAN]
    BY Zenon DEF StaffInit
  <2>2. sweep \in Run /\ away = {} /\ broken = {} /\ today = 1
    BY DEF StaffInit, Run
  <2>3. lastSent \in [Users -> 0..LastDay]
    BY DEF StaffInit, Nothing
  <2>4. told \in [(UNION Range(Managers)) \X Companies \X Users \X (1..LastDay) -> Nat]
    BY DEF StaffInit
  <2> QED BY <2>1, <2>2, <2>3, <2>4 DEF ReminderTypes
<1>3. FaceTypes
  BY DEF StaffInit, FaceTypes, KycStatuses
<1>4. StaffRequestTypes
  BY DEF StaffInit, StaffRequestTypes, StaffRequest, Idle
<1> QED BY <1>1, <1>2, <1>3, <1>4 DEF StaffTypes

\* A request takes its next statement: the others stay as they are.
LEMMA Begun ==
  ASSUME StaffRequestTypes, NEW k \in Slots, NEW f \in StaffRequest, Start(k, f)
  PROVE  /\ flight[k].op = "idle" /\ flight'[k] = f /\ flight' \in [Slots -> StaffRequest]
         /\ \A i \in Slots \ {k} : flight'[i] = flight[i]
         /\ requests' \in 0..MaxRequests
<1>1. flight[k] = Idle /\ flight' = [flight EXCEPT ![k] = f]
  BY DEF Start
<1>2. requests' \in 0..MaxRequests
  BY StaffAssumption DEF Start, Ask, StaffRequestTypes
<1> QED BY <1>1, <1>2, IdleRequest DEF StaffRequestTypes

LEMMA Gone ==
  ASSUME StaffRequestTypes, NEW k \in Slots, NEW f \in StaffRequest, Go(k, f)
  PROVE  /\ flight'[k] = f /\ flight' \in [Slots -> StaffRequest]
         /\ \A i \in Slots \ {k} : flight'[i] = flight[i]
         /\ requests' \in 0..MaxRequests
BY DEF Go, StaffRequestTypes

LEMMA Finished ==
  ASSUME StaffRequestTypes, NEW k \in Slots, Finish(k)
  PROVE  /\ flight'[k].op = "idle" /\ flight' \in [Slots -> StaffRequest]
         /\ \A i \in Slots \ {k} : flight'[i] = flight[i]
         /\ requests' \in 0..MaxRequests
BY Gone, IdleRequest DEF Finish

LEMMA ContractKinds == NoContract \notin Contract
BY DEF NoContract, Contract

\* A request at the contracts of a user.
LEMMA ContractTypesStep ==
  ASSUME StaffTypes, NEW k \in Slots, Contracting(k)
  PROVE  /\ ContractTypes'
         /\ made <= made'
         /\ UNCHANGED <<active, away, reminders, faces>>
<1>0. /\ made \in 0..MaxContracts /\ contract \in [Ids -> Contract \cup {NoContract}]
      /\ \A id \in Ids : contract[id] # NoContract => id <= made /\ contract[id].number <= made
      /\ mirror \in [Users -> Mirror] /\ torn \subseteq Users
      /\ flight[k] \in StaffRequest /\ MaxContracts \in Nat
      /\ flight[k].op = "number" => flight[k].number <= made + 1
  BY StaffAssumption DEF StaffTypes, ContractTypes, StaffRequestTypes
<1>1. ASSUME NEW u \in Users, torn' \in {torn, torn \cup {u}}, UNCHANGED <<made, contract, mirror>>
      PROVE  ContractTypes' /\ made <= made'
  BY <1>0, <1>1 DEF ContractTypes
<1>2. ASSUME NEW u \in Users, NEW e \in Expiries, CreateContract(k, u, e)
      PROVE  ContractTypes' /\ made <= made' /\ UNCHANGED <<active, away, reminders, faces>>
  BY <1>1, <1>2 DEF CreateContract
<1>3. ASSUME NEW id \in Ids, NEW e \in Expiries, UpdateContract(k, id, e)
      PROVE  ContractTypes' /\ made <= made' /\ UNCHANGED <<active, away, reminders, faces>>
  <2>1. contract[id].user \in Users
    BY <1>0, <1>3 DEF UpdateContract, Contract
  <2> QED BY <1>1, <1>3, <2>1 DEF UpdateContract
<1>4. ASSUME NEW id \in Ids, RemoveContract(k, id)
      PROVE  ContractTypes' /\ made <= made' /\ UNCHANGED <<active, away, reminders, faces>>
  <2>1. contract[id].user \in Users
    BY <1>0, <1>4 DEF RemoveContract, Contract
  <2> QED BY <1>1, <1>4, <2>1 DEF RemoveContract
<1>5. CASE SaveContract(k)
  <2> DEFINE c == [user |-> flight[k].user, number |-> flight[k].number,
                   expires |-> flight[k].expires]
  <2>1. /\ flight[k].op = "number" /\ made < MaxContracts /\ made' = made + 1
        /\ contract' = [contract EXCEPT ![made + 1] = c]
        /\ UNCHANGED <<mirror, torn, active, away, reminders, faces>>
    BY <1>5 DEF SaveContract
  <2>2. /\ flight[k].user \in Users /\ flight[k].expires \in Expiries
        /\ flight[k].number \in Nat \ {0}
    BY <1>0, <2>1, StaffFields
  <2>3. made + 1 \in Ids /\ flight[k].number \in Ids
    BY <1>0, <2>1, <2>2 DEF Ids
  <2>4. c \in Contract /\ c.number <= made + 1
    BY <1>0, <2>1, <2>2, <2>3 DEF Contract
  <2> HIDE DEF c
  <2>5. contract' \in [Ids -> Contract \cup {NoContract}]
    BY <1>0, <2>1, <2>3, <2>4
  <2>6. ASSUME NEW id \in Ids, contract'[id] # NoContract
        PROVE  id <= made' /\ contract'[id].number <= made'
    <3>1. CASE id = made + 1
      BY <1>0, <2>1, <2>3, <2>4, <3>1
    <3>2. CASE id # made + 1
      <4>1. contract'[id] = contract[id]
        BY <1>0, <2>1, <3>2
      <4>2. id <= made /\ contract[id].number <= made /\ contract[id] \in Contract
        BY <1>0, <2>6, <4>1
      <4>3. contract[id].number \in Nat /\ id \in Nat
        BY <4>2 DEF Contract, Ids
      <4> QED BY <1>0, <2>1, <4>1, <4>2, <4>3
    <3> QED BY <3>1, <3>2
  <2>7. made' \in 0..MaxContracts
    BY <1>0, <2>1
  <2> QED BY <1>0, <2>1, <2>5, <2>6, <2>7 DEF ContractTypes
<1>6. CASE WriteContract(k)
  <2>1. /\ flight[k].op = "edit"
        /\ contract' = IF contract[flight[k].id] = NoContract THEN contract
                       ELSE [contract EXCEPT ![flight[k].id] =
                               [contract[flight[k].id] EXCEPT !.expires = flight[k].expires]]
        /\ UNCHANGED <<active, away, made, mirror, torn, reminders, faces>>
    BY <1>6 DEF WriteContract
  <2>2. flight[k].id \in Ids /\ flight[k].expires \in Expiries
    BY <1>0, <2>1, StaffFields
  <2>3. CASE contract[flight[k].id] = NoContract
    BY <1>0, <2>1, <2>3 DEF ContractTypes
  <2>4. CASE contract[flight[k].id] # NoContract
    <3> DEFINE c == [contract[flight[k].id] EXCEPT !.expires = flight[k].expires]
    <3>1. c \in Contract /\ c.number = contract[flight[k].id].number
      BY <1>0, <2>2, <2>4 DEF Contract
    <3>2. contract' = [contract EXCEPT ![flight[k].id] = c]
      BY <2>1, <2>4
    <3> HIDE DEF c
    <3>3. contract' \in [Ids -> Contract \cup {NoContract}]
      BY <1>0, <3>1, <3>2
    <3>4. \A id \in Ids : contract'[id] # NoContract => id <= made' /\ contract'[id].number <= made'
      BY <1>0, <2>1, <2>2, <2>4, <3>1, <3>2
    <3> QED BY <1>0, <2>1, <3>3, <3>4 DEF ContractTypes
  <2> QED BY <2>3, <2>4
<1>7. CASE DropContract(k)
  <2>1. /\ flight[k].op = "drop"
        /\ contract' = [contract EXCEPT ![flight[k].id] = NoContract]
        /\ UNCHANGED <<active, away, made, mirror, torn, reminders, faces>>
    BY <1>7 DEF DropContract
  <2>2. \A id \in Ids : contract'[id] # NoContract => contract'[id] = contract[id]
    BY <1>0, <2>1
  <2>3. contract' \in [Ids -> Contract \cup {NoContract}]
    BY <1>0, <2>1
  <2>4. \A id \in Ids : contract'[id] # NoContract => id <= made' /\ contract'[id].number <= made'
    BY <1>0, <2>1, <2>2
  <2> QED BY <1>0, <2>1, <2>3, <2>4 DEF ContractTypes
<1>8. CASE CountContracts(k) \/ FindLatest(k)
  BY <1>0, <1>8 DEF CountContracts, FindLatest, contracts, ContractTypes
<1>9. CASE CopyLatest(k)
  <2>1. /\ flight[k].op = "copy" /\ mirror' = [mirror EXCEPT ![flight[k].user] = flight[k].mirror]
        /\ UNCHANGED <<active, away, made, contract, torn, reminders, faces>>
    BY <1>9 DEF CopyLatest
  <2>2. flight[k].mirror \in Mirror
    BY <1>0, <2>1, StaffFields
  <2>3. mirror' \in [Users -> Mirror]
    BY <1>0, <2>1, <2>2
  <2> QED BY <1>0, <2>1, <2>3 DEF ContractTypes
<1>10. CASE SyncFails(k)
  <2>1. flight[k].user \in Users
    BY <1>0, <1>10, StaffFields DEF SyncFails
  <2> QED BY <1>1, <1>10, <2>1 DEF SyncFails
<1> QED BY <1>2, <1>3, <1>4, <1>5, <1>6, <1>7, <1>8, <1>9, <1>10 DEF Contracting

\* What becomes of the request, and of the other ones.
LEMMA ContractMoves ==
  ASSUME StaffTypes, NEW k \in Slots, Contracting(k)
  PROVE  /\ flight' \in [Slots -> StaffRequest] /\ requests' \in 0..MaxRequests
         /\ \A i \in Slots \ {k} : flight'[i] = flight[i]
         /\ flight'[k].op = "number" => flight'[k].number <= made + 1
         /\ flight'[k].op \notin {"register", "review", "cancel", "clock"}
<1>0. StaffRequestTypes /\ ContractTypes /\ flight[k] \in StaffRequest
  BY DEF StaffTypes, StaffRequestTypes
<1> DEFINE Goal ==
       /\ flight' \in [Slots -> StaffRequest] /\ requests' \in 0..MaxRequests
       /\ \A i \in Slots \ {k} : flight'[i] = flight[i]
       /\ flight'[k].op = "number" => flight'[k].number <= made + 1
       /\ flight'[k].op \notin {"register", "review", "cancel", "clock"}
<1>1. ASSUME NEW f \in ContractRequest, Start(k, f), f.op = "number" => f.number <= made + 1
      PROVE  Goal
  <2>1. f \in StaffRequest /\ f.op \notin {"register", "review", "cancel", "clock"}
    BY DEF StaffRequest, ContractRequest
  <2> QED BY <1>0, <1>1, <2>1, Begun
<1>2. ASSUME NEW f \in ContractRequest, Go(k, f), f.op # "number" PROVE Goal
  <2>1. f \in StaffRequest /\ f.op \notin {"register", "review", "cancel", "clock"}
    BY DEF StaffRequest, ContractRequest
  <2> QED BY <1>0, <1>2, <2>1, Gone
<1>3. ASSUME Finish(k) PROVE Goal
  BY <1>0, <1>3, Finished
<1> HIDE DEF Goal
<1>4. ASSUME NEW u \in Users, NEW e \in Expiries, CreateContract(k, u, e) PROVE Goal
  <2> DEFINE n == IF Latest(u) = {} THEN 1
                  ELSE contract[CHOOSE i \in Latest(u) : TRUE].number + 1
             f == [op |-> "number", user |-> u, expires |-> e, number |-> n]
  <2>1. n \in Nat \ {0} /\ n <= made + 1
    <3>1. made \in Nat
      BY <1>0, StaffAssumption DEF ContractTypes
    <3>2. CASE Latest(u) = {}
      BY <3>1, <3>2
    <3>3. CASE Latest(u) # {}
      <4>1. PICK i \in Latest(u) : n = contract[i].number + 1
        BY <3>3
      <4>2. i \in ContractsOf(u)
        BY DEF Latest
      <4>3. contract[i].number \in Nat /\ contract[i].number <= made
        BY <1>0, <4>2, StoredContracts DEF ContractTypes, Ids
      <4> QED BY <3>1, <4>1, <4>3
    <3> QED BY <3>2, <3>3
  <2>2. Start(k, [op |-> "number", user |-> u, expires |-> e, number |-> n])
    BY <1>4 DEF CreateContract
  <2> HIDE DEF n
  <2>3. f \in ContractRequest /\ f.number = n
    BY <2>1 DEF ContractRequest
  <2>4. Start(k, f)
    BY <2>2
  <2> HIDE DEF f
  <2> QED BY <1>1, <2>1, <2>3, <2>4
<1>5. ASSUME NEW id \in Ids, NEW e \in Expiries, UpdateContract(k, id, e) PROVE Goal
  <2> DEFINE f == [op |-> "edit", user |-> contract[id].user, id |-> id, expires |-> e]
  <2>1. contract[id].user \in Users
    BY <1>0, <1>5 DEF UpdateContract, Contract, ContractTypes
  <2>2. f \in ContractRequest /\ f.op = "edit"
    BY <2>1 DEF ContractRequest
  <2>3. Start(k, f)
    BY <1>5 DEF UpdateContract
  <2> HIDE DEF f
  <2> QED BY <1>1, <2>2, <2>3
<1>6. ASSUME NEW id \in Ids, RemoveContract(k, id) PROVE Goal
  <2> DEFINE f == [op |-> "drop", user |-> contract[id].user, id |-> id]
  <2>1. contract[id].user \in Users
    BY <1>0, <1>6 DEF RemoveContract, Contract, ContractTypes
  <2>2. f \in ContractRequest /\ f.op = "drop"
    BY <2>1 DEF ContractRequest
  <2>3. Start(k, f)
    BY <1>6 DEF RemoveContract
  <2> HIDE DEF f
  <2> QED BY <1>1, <2>2, <2>3
<1>7. ASSUME SaveContract(k) \/ WriteContract(k) \/ DropContract(k) PROVE Goal
  <2> DEFINE f == [op |-> "count", user |-> flight[k].user]
  <2>1. flight[k].user \in Users
    BY <1>0, <1>7, StaffFields DEF SaveContract, WriteContract, DropContract
  <2>2. f \in ContractRequest /\ f.op # "number"
    BY <2>1 DEF ContractRequest
  <2>3. Go(k, f)
    BY <1>7 DEF SaveContract, WriteContract, DropContract
  <2> HIDE DEF f
  <2> QED BY <1>2, <2>2, <2>3
<1>8. ASSUME CountContracts(k) PROVE Goal
  <2> DEFINE f == [op |-> "latest", user |-> flight[k].user,
                   count |-> Cardinality(ContractsOf(flight[k].user))]
  <2>1. flight[k].user \in Users
    BY <1>0, <1>8, StaffFields DEF CountContracts
  <2>2. Cardinality(ContractsOf(flight[k].user)) \in 0..MaxContracts
    BY <1>0, <2>1, NumbersFinite
  <2>3. f \in ContractRequest /\ f.op # "number"
    BY <2>1, <2>2 DEF ContractRequest
  <2>4. Go(k, f)
    BY <1>8 DEF CountContracts
  <2> HIDE DEF f
  <2> QED BY <1>2, <2>3, <2>4
<1>9. ASSUME FindLatest(k) PROVE Goal
  <2>1. flight[k].user \in Users /\ flight[k].count \in 0..MaxContracts
    BY <1>0, <1>9, StaffFields DEF FindLatest
  <2>2. PICK c \in CopyOf(flight[k].user, flight[k].count) :
          Go(k, [op |-> "copy", user |-> flight[k].user, mirror |-> c])
    BY <1>9 DEF FindLatest
  <2>3. c \in Mirror
    BY <1>0, <2>1, <2>2, CopyType
  <2> DEFINE f == [op |-> "copy", user |-> flight[k].user, mirror |-> c]
  <2>4. f \in ContractRequest /\ f.op # "number"
    BY <2>1, <2>3 DEF ContractRequest
  <2>5. Go(k, f)
    BY <2>2
  <2> HIDE DEF f
  <2> QED BY <1>2, <2>4, <2>5
<1>10. ASSUME CopyLatest(k) \/ SyncFails(k) PROVE Goal
  BY <1>3, <1>10 DEF CopyLatest, SyncFails
<1>11. Goal
  BY <1>4, <1>5, <1>6, <1>7, <1>8, <1>9, <1>10 DEF Contracting
<1> QED BY <1>11 DEF Goal

\* A request about a face.
LEMMA FaceTypesStep ==
  ASSUME StaffTypes, NEW k \in Slots, Facing(k)
  PROVE  /\ FaceTypes'
         /\ UNCHANGED <<active, away, contracts, reminders>>
         /\ swapped \subseteq swapped' /\ reviewed \subseteq reviewed'
         /\ \A u \in Users : face[u] # NoFace => face'[u] # NoFace
<1>0. /\ FaceTypes /\ flight[k] \in StaffRequest /\ NoFace \notin Faces
  BY StaffAssumption DEF StaffTypes, StaffRequestTypes
<1>1. ASSUME NEW u \in Users, NEW f \in Faces, RegisterFace(k, u, f) \/ FaceCheckin(k, u, f)
      PROVE  UNCHANGED <<active, away, contracts, reminders, faces>>
  BY <1>1 DEF RegisterFace, FaceCheckin
<1>2. ASSUME NEW u \in Users, CancelKyc(k, u)
      PROVE  UNCHANGED <<active, away, contracts, reminders, faces>>
  BY <1>2 DEF CancelKyc
<1>3. CASE UNCHANGED <<active, away, contracts, reminders, faces>>
  BY <1>0, <1>3 DEF faces, FaceTypes
<1>4. ASSUME NEW u \in Users, NEW v \in {"approved", "rejected"}, ReviewKyc(k, u, v)
      PROVE  /\ FaceTypes'
             /\ UNCHANGED <<active, away, contracts, reminders, kyc, face, swapped, clockedIn>>
             /\ reviewed \subseteq reviewed'
  <2>1. /\ face[u] # NoFace /\ reviewed' = reviewed \cup {<<u, face[u]>>}
        /\ UNCHANGED <<active, away, contracts, reminders, kyc, face, swapped, clockedIn>>
    BY <1>4 DEF ReviewKyc
  <2>2. <<u, face[u]>> \in Users \X Faces
    BY <1>0, <2>1 DEF FaceTypes
  <2> QED BY <1>0, <2>1, <2>2 DEF FaceTypes
<1>5. CASE StoreFace(k)
  <2>1. /\ flight[k].op = "register"
        /\ face' = [face EXCEPT ![flight[k].user] = flight[k].face]
        /\ kyc' = [kyc EXCEPT ![flight[k].user] = "pending"]
        /\ swapped' \in {swapped, swapped \cup {flight[k].user}}
        /\ UNCHANGED <<active, away, contracts, reminders, reviewed, clockedIn>>
    BY <1>5 DEF StoreFace, Registered
  <2>2. flight[k].user \in Users /\ flight[k].face \in Faces
    BY <1>0, <2>1, StaffFields
  <2>3. /\ face' \in [Users -> Faces \cup {NoFace}]
        /\ \A u \in Users : face[u] # NoFace => face'[u] # NoFace
        /\ face'[flight[k].user] # NoFace
    BY <1>0, <2>1, <2>2 DEF FaceTypes
  <2>4. kyc' \in [Users -> KycStatuses] /\ \A u \in Users \ {flight[k].user} : kyc'[u] = kyc[u]
    BY <1>0, <2>1, <2>2 DEF FaceTypes, KycStatuses
  <2>5. \A u \in Users : kyc'[u] # "none" => face'[u] # NoFace
    BY <1>0, <2>3, <2>4 DEF FaceTypes
  <2> QED BY <1>0, <2>1, <2>2, <2>3, <2>4, <2>5 DEF FaceTypes
<1>6. CASE WriteReview(k)
  <2>1. /\ flight[k].op = "review"
        /\ kyc' = [kyc EXCEPT ![flight[k].user] = flight[k].verdict]
        /\ UNCHANGED <<active, away, contracts, reminders, face, reviewed, swapped, clockedIn>>
    BY <1>6 DEF WriteReview
  <2>2. /\ flight[k].user \in Users /\ flight[k].verdict \in KycStatuses
        /\ face[flight[k].user] # NoFace
    BY <1>0, <2>1, StaffFields DEF StaffTypes, StaffRequestTypes, KycStatuses
  <2>3. kyc' \in [Users -> KycStatuses] /\ \A u \in Users \ {flight[k].user} : kyc'[u] = kyc[u]
    BY <1>0, <2>1, <2>2 DEF FaceTypes
  <2> QED BY <1>0, <2>1, <2>2, <2>3 DEF FaceTypes
<1>7. CASE WriteCancel(k)
  <2>1. /\ flight[k].op = "cancel"
        /\ kyc' = [kyc EXCEPT ![flight[k].user] = "none"]
        /\ UNCHANGED <<active, away, contracts, reminders, face, reviewed, swapped, clockedIn>>
    BY <1>7 DEF WriteCancel
  <2>2. /\ flight[k].user \in Users
    BY <1>0, <2>1, StaffFields
  <2>3. /\ kyc' \in [Users -> KycStatuses] /\ kyc'[flight[k].user] = "none"
        /\ \A u \in Users \ {flight[k].user} : kyc'[u] = kyc[u]
    BY <1>0, <2>1, <2>2 DEF FaceTypes, KycStatuses
  <2> QED BY <1>0, <2>1, <2>2, <2>3 DEF FaceTypes
<1>8. CASE FaceRefused(k)
  BY <1>3, <1>8 DEF FaceRefused
<1>9. CASE ClockFace(k)
  <2>1. /\ flight[k].op = "clock"
        /\ clockedIn' = clockedIn \cup {<<flight[k].user, flight[k].face>>}
        /\ UNCHANGED <<active, away, contracts, reminders, kyc, face, reviewed, swapped>>
    BY <1>9 DEF ClockFace
  <2>2. <<flight[k].user, flight[k].face>> \in Users \X Faces
    BY <1>0, <2>1, StaffFields
  <2> QED BY <1>0, <2>1, <2>2 DEF FaceTypes
<1> QED BY <1>1, <1>2, <1>3, <1>4, <1>5, <1>6, <1>7, <1>8, <1>9 DEF Facing

LEMMA FaceMoves ==
  ASSUME StaffTypes, NEW k \in Slots, Facing(k)
  PROVE  /\ flight' \in [Slots -> StaffRequest] /\ requests' \in 0..MaxRequests
         /\ \A i \in Slots \ {k} : flight'[i] = flight[i]
         /\ flight[k].op \notin {"number", "edit", "drop", "count", "latest", "copy"}
         /\ flight'[k].op \notin {"number", "edit", "drop", "count", "latest", "copy"}
         /\ flight'[k].op = "review" => face'[flight'[k].user] # NoFace
<1>0. StaffRequestTypes /\ FaceTypes /\ flight[k] \in StaffRequest
  BY DEF StaffTypes, StaffRequestTypes
<1> DEFINE Ops == {"number", "edit", "drop", "count", "latest", "copy"}
           Goal ==
       /\ flight' \in [Slots -> StaffRequest] /\ requests' \in 0..MaxRequests
       /\ \A i \in Slots \ {k} : flight'[i] = flight[i]
       /\ flight[k].op \notin Ops /\ flight'[k].op \notin Ops
       /\ flight'[k].op = "review" => face'[flight'[k].user] # NoFace
<1>1. ASSUME NEW f \in FaceRequest, Start(k, f), f.op = "review" => face'[f.user] # NoFace
      PROVE  Goal
  <2>1. f \in StaffRequest /\ f.op \notin Ops
    BY DEF StaffRequest, FaceRequest
  <2> QED BY <1>0, <1>1, <2>1, Begun
<1>2. ASSUME Finish(k), flight[k].op \in {"register", "review", "cancel", "clock"} PROVE Goal
  BY <1>0, <1>2, Finished
<1> HIDE DEF Goal, Ops
<1>3. ASSUME NEW u \in Users, NEW f \in Faces, RegisterFace(k, u, f) PROVE Goal
  <2> DEFINE q == [op |-> "register", user |-> u, face |-> f]
  <2>1. q \in FaceRequest /\ q.op # "review"
    BY DEF FaceRequest
  <2>2. Start(k, q)
    BY <1>3 DEF RegisterFace
  <2> HIDE DEF q
  <2> QED BY <1>1, <2>1, <2>2
<1>4. ASSUME NEW u \in Users, NEW f \in Faces, FaceCheckin(k, u, f) PROVE Goal
  <2> DEFINE q == [op |-> "clock", user |-> u, face |-> face[u]]
  <2>1. Approved(u)
    BY <1>4, Zenon DEF FaceCheckin, VerifyFace, MatchFace
  <2>2. face[u] \in Faces
    BY <1>0, <2>1 DEF Approved, FaceTypes
  <2>3. q \in FaceRequest /\ q.op # "review"
    BY <2>2 DEF FaceRequest
  <2>4. Start(k, q)
    BY <1>4 DEF FaceCheckin
  <2> HIDE DEF q
  <2> QED BY <1>1, <2>3, <2>4
<1>5. ASSUME NEW u \in Users, CancelKyc(k, u) PROVE Goal
  <2> DEFINE q == [op |-> "cancel", user |-> u]
  <2>1. q \in FaceRequest /\ q.op # "review"
    BY DEF FaceRequest
  <2>2. Start(k, q)
    BY <1>5 DEF CancelKyc
  <2> HIDE DEF q
  <2> QED BY <1>1, <2>1, <2>2
<1>6. ASSUME NEW u \in Users, NEW v \in {"approved", "rejected"}, ReviewKyc(k, u, v) PROVE Goal
  <2> DEFINE q == [op |-> "review", user |-> u, verdict |-> v]
  <2>1. q \in FaceRequest /\ q.user = u
    BY DEF FaceRequest
  <2>2. Start(k, q) /\ face'[u] # NoFace
    BY <1>6 DEF ReviewKyc
  <2> HIDE DEF q
  <2> QED BY <1>1, <2>1, <2>2
<1>7. ASSUME StoreFace(k) \/ WriteReview(k) \/ WriteCancel(k) \/ FaceRefused(k) \/ ClockFace(k)
      PROVE  Goal
  BY <1>2, <1>7 DEF StoreFace, WriteReview, WriteCancel, FaceRefused, ClockFace
<1>8. Goal
  BY <1>3, <1>4, <1>5, <1>6, <1>7 DEF Facing
<1> QED BY <1>8 DEF Goal, Ops

\* The run of the reminders.
LEMMA ReminderTypesStep ==
  ASSUME StaffTypes, Reminding
  PROVE  /\ ReminderTypes' /\ requests' \in 0..MaxRequests
         /\ UNCHANGED <<active, away, contracts, faces, flight>>
<1>0. /\ ReminderTypes /\ requests \in 0..MaxRequests /\ LastDay \in Nat /\ MaxRequests \in Nat
      /\ sweep \in Run
  BY StaffAssumption DEF StaffTypes, StaffRequestTypes, ReminderTypes
<1>1. ASSUME sweep' \in Run, UNCHANGED <<active, away, today, lastSent, told, broken>>
      PROVE  ReminderTypes'
  BY <1>0, <1>1 DEF ReminderTypes
<1> DEFINE Rest == requests' \in 0..MaxRequests
                   /\ UNCHANGED <<active, away, contracts, faces, flight>>
<1>2. ASSUME Sweep PROVE ReminderTypes' /\ Rest
  <2>1. Expiring \subseteq Users
    BY DEF Expiring
  <2>2. sweep' \in Run
    <3>1. [op |-> "next", today |-> today, left |-> Expiring] \in Run
      BY <1>0, <2>1 DEF Run, ReminderTypes
    <3> QED BY <1>2, <3>1 DEF Sweep
  <2>3. Rest
    BY <1>0, <1>2 DEF Sweep, Ask
  <2> QED BY <1>1, <1>2, <2>2, <2>3 DEF Sweep
<1>3. ASSUME NEW u \in Users, SweepPass(u) PROVE ReminderTypes' /\ Rest
  <2>1. /\ sweep.op = "next" /\ u \in sweep.left
        /\ CompaniesOf[u] = {} => sweep' = [sweep EXCEPT !.left = sweep.left \ {u}]
        /\ CompaniesOf[u] # {} =>
             sweep' = [op |-> "notify", today |-> sweep.today, left |-> sweep.left \ {u},
                       user |-> u, companies |-> CompaniesOf[u], due |-> {}]
        /\ UNCHANGED <<active, away, contracts, today, lastSent, told, broken, faces, flight,
                       requests>>
    BY <1>3 DEF SweepPass
  <2>2. sweep \in [op: {"next"}, today: 1..LastDay, left: SUBSET Users]
    BY <1>0, <2>1, RunFields
  <2>3. CASE CompaniesOf[u] = {}
    <3>1. sweep' \in [op: {"next"}, today: 1..LastDay, left: SUBSET Users]
      BY <2>1, <2>2, <2>3
    <3>2. sweep' \in Run
      BY <3>1 DEF Run
    <3> QED BY <1>0, <1>1, <2>1, <3>2
  <2>4. CASE CompaniesOf[u] # {}
    <3>1. CompaniesOf[u] \in SUBSET Companies
      BY StaffAssumption
    <3>2. sweep.today \in 1..LastDay /\ sweep.left \ {u} \in SUBSET Users
      BY <2>2
    <3>3. [op |-> "notify", today |-> sweep.today, left |-> sweep.left \ {u},
           user |-> u, companies |-> CompaniesOf[u], due |-> {}] \in Run
      BY <3>1, <3>2 DEF Run
    <3>4. sweep' \in Run
      BY <2>1, <2>4, <3>3
    <3> QED BY <1>0, <1>1, <2>1, <3>4
  <2> QED BY <2>3, <2>4
<1>4. ASSUME NEW c \in Companies, Recipients(c) PROVE ReminderTypes' /\ Rest
  <2> DEFINE d == {r \in Managers[c] : active[r]} \X {c}
  <2>1. /\ sweep.op = "notify"
        /\ sweep' = [sweep EXCEPT !.companies = sweep.companies \ {c}, !.due = d]
        /\ UNCHANGED <<active, away, contracts, today, lastSent, told, broken, faces, flight,
                       requests>>
    BY <1>4 DEF Recipients
  <2>2. d \in SUBSET Reports
    <3>1. Managers[c] \subseteq UNION Range(Managers)
      BY StaffAssumption DEF Range
    <3> QED BY <3>1 DEF Reports
  <2> HIDE DEF d
  <2>3. sweep \in [op: {"notify"}, today: 1..LastDay, left: SUBSET Users, user: Users,
                   companies: SUBSET Companies, due: SUBSET Reports]
    BY <1>0, <2>1, RunFields
  <2>4. sweep.companies \ {c} \in SUBSET Companies
    BY <2>3
  <2>5. sweep' \in [op: {"notify"}, today: 1..LastDay, left: SUBSET Users, user: Users,
                    companies: SUBSET Companies, due: SUBSET Reports]
    BY <2>1, <2>2, <2>3, <2>4
  <2>6. sweep' \in Run
    BY <2>5 DEF Run
  <2> QED BY <1>0, <1>1, <2>1, <2>6
<1>5. ASSUME NEW c \in Companies, NEW r \in Managers[c], Notify(r, c) PROVE ReminderTypes' /\ Rest
  <2>1. /\ sweep.op = "notify" /\ <<r, c>> \in sweep.due
        /\ told' = [told EXCEPT ![<<r, c, sweep.user, sweep.today>>] =
                      told[<<r, c, sweep.user, sweep.today>>] + 1]
        /\ sweep' = [sweep EXCEPT !.due = sweep.due \ {<<r, c>>}]
        /\ UNCHANGED <<active, away, contracts, today, lastSent, broken, faces, flight, requests>>
    BY <1>5 DEF Notify
  <2>2. sweep \in [op: {"notify"}, today: 1..LastDay, left: SUBSET Users, user: Users,
                   companies: SUBSET Companies, due: SUBSET Reports]
    BY <1>0, <2>1, RunFields
  <2>3. sweep.due \ {<<r, c>>} \in SUBSET Reports
    BY <2>2
  <2>4. sweep' \in [op: {"notify"}, today: 1..LastDay, left: SUBSET Users, user: Users,
                    companies: SUBSET Companies, due: SUBSET Reports]
    BY <2>1, <2>2, <2>3
  <2>5. sweep' \in Run
    BY <2>4 DEF Run
  <2> DEFINE t == <<r, c, sweep.user, sweep.today>>
             D == (UNION Range(Managers)) \X Companies \X Users \X (1..LastDay)
  <2>6. t \in D
    <3>1. r \in UNION Range(Managers)
      BY StaffAssumption DEF Range
    <3>2. sweep.user \in Users /\ sweep.today \in 1..LastDay
      BY <2>2
    <3> QED BY <3>1, <3>2
  <2>7. told \in [D -> Nat] /\ told' = [told EXCEPT ![t] = told[t] + 1]
    BY <1>0, <2>1 DEF ReminderTypes
  <2> HIDE DEF t, D
  <2>8. told' \in [D -> Nat]
    BY <2>6, <2>7
  <2> QED BY <1>0, <2>1, <2>5, <2>8 DEF ReminderTypes, D
<1>6. ASSUME MarkSent \/ NotifyFails PROVE ReminderTypes' /\ Rest
  <2> DEFINE s == [op |-> "next", today |-> sweep.today, left |-> sweep.left]
  <2>1. sweep.op = "notify" /\ sweep' = s
    BY <1>6 DEF MarkSent, NotifyFails
  <2>2. sweep.user \in Users /\ sweep.today \in 1..LastDay /\ sweep.left \in SUBSET Users
    BY <1>0, <2>1, RunFields
  <2>3. s \in Run
    BY <2>2 DEF Run
  <2> HIDE DEF s
  <2>4. CASE MarkSent
    <3>1. /\ lastSent' = [lastSent EXCEPT ![sweep.user] = sweep.today]
          /\ UNCHANGED <<active, away, contracts, today, told, broken, faces, flight, requests>>
      BY <2>4 DEF MarkSent
    <3>2. lastSent' \in [Users -> 0..LastDay]
      BY <1>0, <2>2, <3>1 DEF ReminderTypes
    <3> QED BY <1>0, <2>1, <2>3, <3>1, <3>2 DEF ReminderTypes
  <2>5. CASE NotifyFails
    <3>1. /\ broken' = broken \cup {<<sweep.user, sweep.today>>}
          /\ UNCHANGED <<active, away, contracts, today, lastSent, told, faces, flight, requests>>
      BY <2>5 DEF NotifyFails
    <3>2. broken' \subseteq Users \X (1..LastDay)
      BY <1>0, <2>2, <3>1 DEF ReminderTypes
    <3> QED BY <1>0, <2>1, <2>3, <3>1, <3>2 DEF ReminderTypes
  <2> QED BY <1>6, <2>4, <2>5
<1>7. ASSUME SweepEnds PROVE ReminderTypes' /\ Rest
  <2>1. Idle \in Run
    BY DEF Run
  <2> QED BY <1>0, <1>1, <1>7, <2>1 DEF SweepEnds
<1>8. ASSUME NextDay PROVE ReminderTypes' /\ Rest
  <2>1. today' \in 1..LastDay
    BY <1>0, <1>8 DEF NextDay, ReminderTypes
  <2> QED BY <1>0, <1>8, <2>1 DEF NextDay, ReminderTypes
<1> QED BY <1>2, <1>3, <1>4, <1>5, <1>6, <1>7, <1>8 DEF Reminding

\* The form of a user.
LEMMA UpdateTypesStep ==
  ASSUME StaffTypes, NEW u \in Users, NEW a \in BOOLEAN,
         NEW m \in {mirror[u], [count |-> 0, expires |-> Never]}, UpdateUser(u, a, m)
  PROVE  /\ ContractTypes' /\ ReminderTypes' /\ requests' \in 0..MaxRequests
         /\ UNCHANGED <<made, contract, flight, reminders, faces>>
<1>0. ContractTypes /\ ReminderTypes /\ requests \in 0..MaxRequests
  BY DEF StaffTypes, StaffRequestTypes
<1>1. m \in Mirror
  BY <1>0, StaffAssumption DEF ContractTypes, Mirror
<1>2. mirror' \in [Users -> Mirror] /\ torn' \subseteq Users
  BY <1>0, <1>1 DEF UpdateUser, ContractTypes
<1>3. active' = [active EXCEPT ![u] = a] /\ away' \subseteq Users
  BY <1>0 DEF UpdateUser, ReminderTypes
<1>4. active' \in [Users -> BOOLEAN]
  BY <1>0, <1>3, Zenon DEF ReminderTypes
<1>5. requests' \in 0..MaxRequests
  BY <1>0, StaffAssumption DEF UpdateUser, Ask
<1>6. UNCHANGED <<made, contract, flight, today, lastSent, sweep, told, broken>> /\ UNCHANGED faces
  BY DEF UpdateUser, reminders
<1> QED BY <1>0, <1>2, <1>3, <1>4, <1>5, <1>6 DEF ContractTypes, ReminderTypes, reminders

LEMMA StaffTypesStep ==
  ASSUME StaffTypes, [StaffNext]_staffVars PROVE StaffTypes'
<1>0. ContractTypes /\ ReminderTypes /\ FaceTypes /\ StaffRequestTypes
  BY DEF StaffTypes
<1>1. ASSUME UNCHANGED <<active, away, reminders>> PROVE ReminderTypes'
  BY <1>0, <1>1 DEF reminders, ReminderTypes
<1>2. ASSUME UNCHANGED contracts PROVE ContractTypes'
  BY <1>0, <1>2 DEF contracts, ContractTypes
<1>3. ASSUME UNCHANGED faces PROVE FaceTypes'
  BY <1>0, <1>3 DEF faces, FaceTypes
<1>4. ASSUME NEW k \in Slots, Contracting(k) PROVE StaffTypes'
  <2>1. ContractTypes' /\ ReminderTypes' /\ FaceTypes'
    BY <1>1, <1>3, <1>4, ContractTypesStep
  <2>2. face' = face /\ made <= made' /\ made \in Nat /\ made' \in Nat
    BY <1>0, <1>4, <2>1, ContractTypesStep, StaffAssumption DEF faces, ContractTypes
  <2>3. /\ flight' \in [Slots -> StaffRequest] /\ requests' \in 0..MaxRequests
        /\ \A i \in Slots \ {k} : flight'[i] = flight[i]
        /\ flight'[k].op = "number" => flight'[k].number <= made + 1
        /\ flight'[k].op # "review"
    BY <1>4, ContractMoves
  <2>4. ASSUME NEW i \in Slots, flight'[i].op = "number" PROVE flight'[i].number <= made' + 1
    <3>1. flight'[i].number <= made + 1
      BY <1>0, <2>3, <2>4 DEF StaffRequestTypes
    <3>2. flight'[i].number \in Nat
      BY <2>3, <2>4, StaffFields
    <3> QED BY <2>2, <3>1, <3>2
  <2>5. ASSUME NEW i \in Slots, flight'[i].op = "review" PROVE face'[flight'[i].user] # NoFace
    BY <1>0, <2>2, <2>3, <2>5 DEF StaffRequestTypes
  <2> QED BY <2>1, <2>3, <2>4, <2>5 DEF StaffTypes, StaffRequestTypes
<1>5. ASSUME NEW k \in Slots, Facing(k) PROVE StaffTypes'
  <2>1. /\ ContractTypes' /\ ReminderTypes' /\ FaceTypes' /\ made' = made
        /\ \A u \in Users : face[u] # NoFace => face'[u] # NoFace
    BY <1>1, <1>2, <1>5, FaceTypesStep DEF contracts
  <2>2. /\ flight' \in [Slots -> StaffRequest] /\ requests' \in 0..MaxRequests
        /\ \A i \in Slots \ {k} : flight'[i] = flight[i]
        /\ flight'[k].op # "number"
        /\ flight'[k].op = "review" => face'[flight'[k].user] # NoFace
    BY <1>5, FaceMoves
  <2>3. ASSUME NEW i \in Slots, flight'[i].op = "review" PROVE face'[flight'[i].user] # NoFace
    <3>1. CASE i = k
      BY <2>2, <2>3, <3>1
    <3>2. CASE i # k
      <4>1. flight'[i] = flight[i] /\ flight[i].user \in Users
        BY <1>0, <2>2, <2>3, <3>2, StaffFields DEF StaffRequestTypes
      <4>2. face[flight[i].user] # NoFace
        BY <1>0, <2>3, <4>1 DEF StaffRequestTypes
      <4> QED BY <2>1, <4>1, <4>2
    <3> QED BY <3>1, <3>2
  <2>4. \A i \in Slots : flight'[i].op = "number" => flight'[i].number <= made' + 1
    BY <1>0, <2>1, <2>2 DEF StaffRequestTypes
  <2> QED BY <2>1, <2>2, <2>3, <2>4 DEF StaffTypes, StaffRequestTypes
<1>6. ASSUME Reminding PROVE StaffTypes'
  <2>1. ReminderTypes' /\ requests' \in 0..MaxRequests
    BY <1>6, ReminderTypesStep
  <2>2. UNCHANGED <<contracts, faces, flight>>
    BY <1>6, ReminderTypesStep
  <2>3. ContractTypes' /\ FaceTypes' /\ UNCHANGED <<made, face, flight>>
    BY <1>2, <1>3, <2>2 DEF contracts, faces
  <2> QED BY <1>0, <2>1, <2>3 DEF StaffTypes, StaffRequestTypes
<1>7. ASSUME Updating PROVE StaffTypes'
  <2>1. PICK u \in Users, a \in BOOLEAN : \E m \in {mirror[u], [count |-> 0, expires |-> Never]} :
          UpdateUser(u, a, m)
    BY <1>7 DEF Updating
  <2>2. /\ ContractTypes' /\ ReminderTypes' /\ requests' \in 0..MaxRequests
        /\ UNCHANGED <<made, contract, flight, reminders, faces>>
    BY <2>1, UpdateTypesStep
  <2>3. FaceTypes' /\ UNCHANGED <<made, face, flight>>
    BY <1>3, <2>2 DEF faces
  <2> QED BY <1>0, <2>2, <2>3 DEF StaffTypes, StaffRequestTypes
<1>8. ASSUME UNCHANGED staffVars PROVE StaffTypes'
  <2>1. UNCHANGED <<contracts, faces, reminders, active, away, flight, requests, made, face>>
    BY <1>8 DEF staffVars, contracts, faces, reminders
  <2> QED BY <1>0, <1>1, <1>2, <1>3, <2>1 DEF StaffTypes, StaffRequestTypes
<1> QED BY <1>4, <1>5, <1>6, <1>7, <1>8, StaffSteps

\* Contracts, their copy, the face and its review, and the run of the reminders have their form;
\* a review is of a face there is (user.entity.ts, user_contract.entity.ts).
THEOREM StaffTypeCorrect == StaffSpec => []StaffTypeOK
<1>1. StaffTypes => StaffTypeOK
  BY RunFields DEF StaffTypes, ContractTypes, ReminderTypes, FaceTypes, StaffRequestTypes,
                   StaffTypeOK
<1>2. StaffTypes /\ [StaffNext]_staffVars => StaffTypes'
  BY StaffTypesStep
<1> QED BY <1>1, <1>2, StaffTypesInit, PTL DEF StaffSpec

-----------------------------------------------------------------------------
(* The copy of the latest contract.                                        *)

\* Contracts of others do not matter to the copy.
LEMMA Untouched ==
  ASSUME NEW u \in Users,
         \A id \in Ids : \/ contract'[id] = contract[id]
                         \/ contract[id].user # u /\ contract'[id].user # u
  PROVE  ContractsOf(u)' = ContractsOf(u) /\ CopyNow(u)' = CopyNow(u)
<1>1. ContractsOf(u)' = ContractsOf(u)
  BY DEF ContractsOf
<1>2. \A id \in ContractsOf(u) : contract'[id] = contract[id]
  BY DEF ContractsOf
<1>3. Latest(u)' = Latest(u) /\ Latest(u) \subseteq ContractsOf(u)
  BY <1>1, <1>2 DEF Latest
<1>4. Cardinality(ContractsOf(u))' = Cardinality(ContractsOf(u))
  BY <1>1
<1>5. CASE Latest(u) = {}
  <2>1. CopyNow(u) = {[count |-> Cardinality(ContractsOf(u)), expires |-> Nothing]}
    BY <1>5 DEF CopyNow, CopyOf
  <2>2. CopyNow(u)' = {[count |-> Cardinality(ContractsOf(u))', expires |-> Nothing]}
    BY <1>3, <1>5 DEF CopyNow, CopyOf
  <2> QED BY <1>1, <1>4, <2>1, <2>2
<1>6. CASE Latest(u) # {}
  <2>1. CopyNow(u) = {[count |-> Cardinality(ContractsOf(u)), expires |-> contract[i].expires] :
                        i \in Latest(u)}
    BY <1>6 DEF CopyNow, CopyOf
  <2>2. CopyNow(u)' = {[count |-> Cardinality(ContractsOf(u))', expires |-> contract'[i].expires] :
                        i \in Latest(u)}
    BY <1>3, <1>6 DEF CopyNow, CopyOf
  <2>3. \A i \in Latest(u) : contract'[i] = contract[i]
    BY <1>2, <1>3
  <2> QED BY <1>1, <1>4, <2>1, <2>2, <2>3
<1> QED BY <1>5, <1>6

LEMMA CopySize ==
  ASSUME NEW u \in Users, NEW n, n = Cardinality(ContractsOf(u)) PROVE CopyOf(u, n) = CopyNow(u)
BY DEF CopyNow

\* Rightly stands for what a request at the contracts of u has read being right.
Rightly(k, u) ==
  /\ flight[k].op = "latest" => flight[k].count = Cardinality(ContractsOf(u))
  /\ flight[k].op = "copy" => flight[k].mirror \in CopyNow(u)

\* What a request means to a user whose copy is not torn after it: nothing, or it is the one
\* at the contracts, or it ends with the right copy.
Elsewhere(k, u) ==
  /\ ~AtContracts(k, u) /\ ~AtContracts(k, u)' /\ mirror'[u] = mirror[u]
  /\ ContractsOf(u)' = ContractsOf(u) /\ CopyNow(u)' = CopyNow(u)
Alone(k, u) ==
  /\ \A i \in Slots \ {k} : ~AtContracts(i, u)
  /\ AtContracts(k, u)' /\ Rightly(k, u)'
Settling(k, u) ==
  /\ AtContracts(k, u) /\ ~AtContracts(k, u)' /\ mirror'[u] \in CopyNow(u)'

LEMMA Starting ==
  ASSUME StaffTypes, NEW k \in Slots, NEW v \in Users, NEW f \in ContractRequest, Start(k, f),
         f.user = v, f.op \in {"number", "edit", "drop"},
         torn' = IF Busy(k, v) THEN torn \cup {v} ELSE torn,
         UNCHANGED <<contract, mirror>>, NEW u \in Users \ torn'
  PROVE  u \notin torn /\ (Elsewhere(k, u) \/ Alone(k, u))
<1>1. f \in StaffRequest /\ StaffRequestTypes
  BY DEF StaffRequest, StaffTypes
<1>2. flight[k].op = "idle" /\ flight'[k] = f
  BY <1>1, Begun
<1>3. u \notin torn /\ (u = v => ~Busy(k, v))
  OBVIOUS
<1>4. CASE u # v
  <2>1. ContractsOf(u)' = ContractsOf(u) /\ CopyNow(u)' = CopyNow(u)
    BY Untouched
  <2> QED BY <1>2, <1>3, <1>4, <2>1 DEF Elsewhere, AtContracts
<1>5. CASE u = v
  BY <1>2, <1>3, <1>5 DEF Alone, AtContracts, Busy, Rightly
<1> QED BY <1>3, <1>4, <1>5

LEMMA Changing ==
  ASSUME StaffTypes, OneAtContracts, NEW k \in Slots, NEW v \in Users, AtContracts(k, v),
         Go(k, [op |-> "count", user |-> v]), UNCHANGED <<mirror, torn>>,
         \A id \in Ids : contract'[id] = contract[id]
                         \/ (contract[id].user \in {v, NoContract.user}
                             /\ contract'[id].user \in {v, NoContract.user}),
         NEW u \in Users \ torn'
  PROVE  u \notin torn /\ (Elsewhere(k, u) \/ Alone(k, u))
<1>1. flight'[k] = [op |-> "count", user |-> v]
  BY Gone, StaffFields DEF Go, StaffTypes, StaffRequestTypes
<1>2. flight'[k].op = "count" /\ flight'[k].user = v
  BY <1>1
<1>3. CASE u # v
  <2>1. ContractsOf(u)' = ContractsOf(u) /\ CopyNow(u)' = CopyNow(u)
    BY <1>3, Untouched, StaffAssumption
  <2>2. ~AtContracts(k, u)
    BY <1>3 DEF AtContracts
  <2> QED BY <1>2, <1>3, <2>1, <2>2 DEF Elsewhere, AtContracts
<1>4. CASE u = v
  <2>1. \A i \in Slots \ {k} : ~AtContracts(i, u)
    BY <1>4 DEF OneAtContracts
  <2> QED BY <1>2, <1>4, <2>1 DEF Alone, AtContracts, Rightly
<1> QED BY <1>3, <1>4

LEMMA Reading ==
  ASSUME StaffTypes, OneAtContracts, NEW k \in Slots, NEW v \in Users, AtContracts(k, v),
         UNCHANGED <<contract, mirror, torn>>,
         flight'[k].op \in {"latest", "copy"}, flight'[k].user = v,
         v \in Users \ torn => Rightly(k, v)', NEW u \in Users \ torn'
  PROVE  u \notin torn /\ (Elsewhere(k, u) \/ Alone(k, u))
<1>1. CASE u # v
  <2>1. ContractsOf(u)' = ContractsOf(u) /\ CopyNow(u)' = CopyNow(u)
    BY Untouched
  <2> QED BY <1>1, <2>1 DEF Elsewhere, AtContracts
<1>2. CASE u = v
  <2>1. \A i \in Slots \ {k} : ~AtContracts(i, u)
    BY <1>2 DEF OneAtContracts
  <2>2. AtContracts(k, u)'
    BY <1>2 DEF AtContracts
  <2>3. Rightly(k, u)'
    BY <1>2
  <2> QED BY <2>1, <2>2, <2>3 DEF Alone
<1> QED BY <1>1, <1>2

LEMMA CopyMoves ==
  ASSUME StaffTypes, MirrorInv, NEW k \in Slots, Contracting(k), NEW u \in Users \ torn'
  PROVE  u \notin torn /\ (Elsewhere(k, u) \/ Alone(k, u) \/ Settling(k, u))
<1>0. /\ ContractTypes /\ flight[k] \in StaffRequest
      /\ contract \in [Ids -> Contract \cup {NoContract}] /\ made \in Nat
      /\ mirror \in [Users -> Mirror]
      /\ Aimed /\ OneAtContracts /\ CopyRight
  BY StaffAssumption DEF StaffTypes, StaffRequestTypes, ContractTypes, MirrorInv
<1> DEFINE Goal == u \notin torn /\ (Elsewhere(k, u) \/ Alone(k, u) \/ Settling(k, u))
<1> SUFFICES Goal
  OBVIOUS
<1>s. ASSUME u \notin torn, Elsewhere(k, u) \/ Alone(k, u) PROVE Goal
  BY <1>s
<1>t. ASSUME Settling(k, u), u \notin torn PROVE Goal
  BY <1>t
<1> HIDE DEF Goal
<1>1. ASSUME NEW v \in Users, NEW e \in Expiries, CreateContract(k, v, e) PROVE Goal
  <2> DEFINE n == IF Latest(v) = {} THEN 1
                  ELSE contract[CHOOSE i \in Latest(v) : TRUE].number + 1
             f == [op |-> "number", user |-> v, expires |-> e, number |-> n]
  <2>1. n \in Nat \ {0}
    <3>1. ASSUME NEW i \in Latest(v) PROVE contract[i].number + 1 \in Nat \ {0}
      <4>1. contract[i].number \in Ids
        BY <1>0, StoredContracts DEF Latest
      <4> QED BY <4>1 DEF Ids
    <3>2. CASE Latest(v) = {}
      BY <3>2
    <3>3. CASE Latest(v) # {}
      BY <3>1, <3>3
    <3> QED BY <3>2, <3>3
  <2>2. Start(k, [op |-> "number", user |-> v, expires |-> e, number |-> n])
    BY <1>1 DEF CreateContract
  <2>3. /\ torn' = IF Busy(k, v) THEN torn \cup {v} ELSE torn
        /\ UNCHANGED <<contract, mirror>>
    BY <1>1 DEF CreateContract
  <2> HIDE DEF n
  <2>4. f \in ContractRequest /\ f.user = v /\ f.op \in {"number", "edit", "drop"}
    BY <2>1 DEF ContractRequest
  <2>5. Start(k, f)
    BY <2>2
  <2> HIDE DEF f
  <2> QED BY <1>s, <2>3, <2>4, <2>5, Starting
<1>2. ASSUME NEW id \in Ids, NEW e \in Expiries, UpdateContract(k, id, e) PROVE Goal
  <2> DEFINE v == contract[id].user
             f == [op |-> "edit", user |-> contract[id].user, id |-> id, expires |-> e]
  <2>1. v \in Users
    BY <1>0, <1>2 DEF UpdateContract, Contract
  <2>2. f \in ContractRequest /\ f.user = v /\ f.op \in {"number", "edit", "drop"}
    BY <2>1 DEF ContractRequest
  <2>3. /\ Start(k, f) /\ torn' = IF Busy(k, v) THEN torn \cup {v} ELSE torn
        /\ UNCHANGED <<contract, mirror>>
    BY <1>2 DEF UpdateContract
  <2> HIDE DEF f, v
  <2> QED BY <1>s, <2>1, <2>2, <2>3, Starting
<1>3. ASSUME NEW id \in Ids, RemoveContract(k, id) PROVE Goal
  <2> DEFINE v == contract[id].user
             f == [op |-> "drop", user |-> contract[id].user, id |-> id]
  <2>1. v \in Users
    BY <1>0, <1>3 DEF RemoveContract, Contract
  <2>2. f \in ContractRequest /\ f.user = v /\ f.op \in {"number", "edit", "drop"}
    BY <2>1 DEF ContractRequest
  <2>3. /\ Start(k, f) /\ torn' = IF Busy(k, v) THEN torn \cup {v} ELSE torn
        /\ UNCHANGED <<contract, mirror>>
    BY <1>3 DEF RemoveContract
  <2> HIDE DEF f, v
  <2> QED BY <1>s, <2>1, <2>2, <2>3, Starting
<1>4. ASSUME SaveContract(k) PROVE Goal
  <2> DEFINE v == flight[k].user
             c == [user |-> flight[k].user, number |-> flight[k].number,
                   expires |-> flight[k].expires]
  <2>1. /\ flight[k].op = "number" /\ made < MaxContracts
        /\ contract' = [contract EXCEPT ![made + 1] = c]
        /\ Go(k, [op |-> "count", user |-> v]) /\ UNCHANGED <<mirror, torn>>
    BY <1>4 DEF SaveContract
  <2>2. v \in Users /\ AtContracts(k, v)
    BY <1>0, <2>1, StaffFields DEF AtContracts
  <2>3. made + 1 \in Ids /\ contract[made + 1] = NoContract
    <3>1. made + 1 \in Ids /\ ~(made + 1 <= made)
      BY <1>0, <2>1, StaffAssumption DEF Ids
    <3> QED BY <1>0, <3>1 DEF ContractTypes
  <2>4. c.user = v
    OBVIOUS
  <2> HIDE DEF v, c
  <2>5. \A id \in Ids : contract'[id] = contract[id]
                         \/ (contract[id].user \in {v, NoContract.user}
                             /\ contract'[id].user \in {v, NoContract.user})
    BY <1>0, <2>1, <2>3, <2>4
  <2> QED BY <1>0, <1>s, <2>1, <2>2, <2>5, Changing
<1>5. ASSUME WriteContract(k) PROVE Goal
  <2> DEFINE v == flight[k].user
             i == flight[k].id
             c == [contract[i] EXCEPT !.expires = flight[k].expires]
  <2>1. /\ flight[k].op = "edit"
        /\ contract' = IF contract[i] = NoContract THEN contract
                       ELSE [contract EXCEPT ![i] = c]
        /\ Go(k, [op |-> "count", user |-> v]) /\ UNCHANGED <<mirror, torn>>
    BY <1>5 DEF WriteContract
  <2>2. v \in Users /\ AtContracts(k, v) /\ i \in Ids
    BY <1>0, <2>1, StaffFields DEF AtContracts
  <2>3. contract[i].user \in {v, NoContract.user}
    BY <1>0, <2>1 DEF Aimed
  <2>4. contract[i] # NoContract => c.user = contract[i].user
    BY <1>0, <2>2 DEF Contract
  <2> HIDE DEF v, c, i
  <2>5. \A id \in Ids : contract'[id] = contract[id]
                         \/ (contract[id].user \in {v, NoContract.user}
                             /\ contract'[id].user \in {v, NoContract.user})
    BY <1>0, <2>1, <2>2, <2>3, <2>4
  <2> QED BY <1>0, <1>s, <2>1, <2>2, <2>5, Changing
<1>6. ASSUME DropContract(k) PROVE Goal
  <2> DEFINE v == flight[k].user
             i == flight[k].id
  <2>1. /\ flight[k].op = "drop"
        /\ contract' = [contract EXCEPT ![i] = NoContract]
        /\ Go(k, [op |-> "count", user |-> v]) /\ UNCHANGED <<mirror, torn>>
    BY <1>6 DEF DropContract
  <2>2. v \in Users /\ AtContracts(k, v) /\ i \in Ids
    BY <1>0, <2>1, StaffFields DEF AtContracts
  <2>3. contract[i].user \in {v, NoContract.user}
    BY <1>0, <2>1 DEF Aimed
  <2> HIDE DEF v, i
  <2>5. \A id \in Ids : contract'[id] = contract[id]
                         \/ (contract[id].user \in {v, NoContract.user}
                             /\ contract'[id].user \in {v, NoContract.user})
    BY <1>0, <2>1, <2>2, <2>3
  <2> QED BY <1>0, <1>s, <2>1, <2>2, <2>5, Changing
<1>7. ASSUME CountContracts(k) PROVE Goal
  <2>1. /\ flight[k].op = "count" /\ UNCHANGED <<contract, mirror, torn>>
        /\ Go(k, [op |-> "latest", user |-> flight[k].user,
                  count |-> Cardinality(ContractsOf(flight[k].user))])
    BY <1>7 DEF CountContracts, contracts
  <2>2. PICK v \in Users : v = flight[k].user
    BY <1>0, <2>1, StaffFields
  <2>3. PICK n \in 0..MaxContracts : n = Cardinality(ContractsOf(v))
    BY <1>0, NumbersFinite
  <2>4. flight'[k] = [op |-> "latest", user |-> v, count |-> n]
    BY <1>0, <2>1, <2>2, <2>3 DEF Go, StaffTypes, StaffRequestTypes
  <2>5. flight'[k].op = "latest" /\ flight'[k].user = v /\ flight'[k].count = n
    BY <2>4
  <2>6. ContractsOf(v)' = ContractsOf(v)
    BY <2>1, Untouched
  <2>7. Cardinality(ContractsOf(v))' = n
    BY <2>3, <2>6
  <2>8. Rightly(k, v)'
    BY <2>5, <2>7 DEF Rightly
  <2>9. AtContracts(k, v)
    BY <2>1, <2>2 DEF AtContracts
  <2> QED BY <1>0, <1>s, <2>1, <2>5, <2>8, <2>9, Reading
<1>8. ASSUME FindLatest(k) PROVE Goal
  <2>1. flight[k].op = "latest" /\ UNCHANGED <<contract, mirror, torn>>
    BY <1>8 DEF FindLatest, contracts
  <2>2. PICK v \in Users : v = flight[k].user
    BY <1>0, <2>1, StaffFields
  <2>3. PICK n \in 0..MaxContracts : n = flight[k].count
    BY <1>0, <2>1, StaffFields
  <2>4. PICK c \in CopyOf(v, n) : Go(k, [op |-> "copy", user |-> v, mirror |-> c])
    BY <1>8, <2>2, <2>3 DEF FindLatest
  <2>5. AtContracts(k, v)
    BY <2>1, <2>2 DEF AtContracts
  <2>6. flight'[k] = [op |-> "copy", user |-> v, mirror |-> c]
    BY <1>0, <2>4 DEF Go, StaffTypes, StaffRequestTypes
  <2>7. flight'[k].op = "copy" /\ flight'[k].user = v /\ flight'[k].mirror = c
    BY <2>6
  <2>8. v \in Users \ torn => n = Cardinality(ContractsOf(v))
    BY <1>0, <2>1, <2>3, <2>5 DEF CopyRight
  <2>9. CopyNow(v)' = CopyNow(v)
    BY <2>1, Untouched
  <2>10. v \in Users \ torn => c \in CopyNow(v)
    BY <2>4, <2>8, CopySize
  <2>11. v \in Users \ torn => Rightly(k, v)'
    BY <2>7, <2>9, <2>10 DEF Rightly
  <2> QED BY <1>0, <1>s, <2>1, <2>5, <2>7, <2>11, Reading
<1>9. ASSUME CopyLatest(k) \/ SyncFails(k) PROVE Goal
  <2> DEFINE v == flight[k].user
  <2>1. flight[k].op \in {"count", "latest", "copy"} /\ Finish(k) /\ UNCHANGED contract
    BY <1>9 DEF CopyLatest, SyncFails
  <2>2. v \in Users /\ AtContracts(k, v) /\ (flight[k].op = "copy" => flight[k].mirror \in Mirror)
    BY <1>0, <2>1, StaffFields DEF AtContracts
  <2>3. flight'[k].op = "idle"
    BY <1>0, <2>1, Finished DEF StaffTypes
  <2>4. ~AtContracts(k, u)'
    BY <2>3 DEF AtContracts
  <2>5. ContractsOf(u)' = ContractsOf(u) /\ CopyNow(u)' = CopyNow(u)
    BY <2>1, Untouched
  <2>6. torn' = torn \/ torn' = torn \cup {v}
    BY <1>9 DEF CopyLatest, SyncFails
  <2>7. CASE u # v
    <3>1. mirror'[u] = mirror[u]
      BY <1>0, <1>9, <2>2, <2>7 DEF CopyLatest, SyncFails
    <3>2. Elsewhere(k, u)
      BY <2>4, <2>5, <2>7, <3>1 DEF Elsewhere, AtContracts
    <3> QED BY <1>s, <2>6, <3>2
  <2>8. CASE u = v
    <3>1. CopyLatest(k)
      BY <1>9, <2>8 DEF SyncFails
    <3>2. flight[k].op = "copy" /\ mirror'[u] = flight[k].mirror /\ u \notin torn
      BY <1>0, <2>2, <2>8, <3>1 DEF CopyLatest
    <3>3. flight[k].mirror \in CopyNow(u)
      BY <1>0, <2>2, <2>8, <3>2 DEF CopyRight
    <3> QED BY <1>t, <2>2, <2>4, <2>5, <2>8, <3>2, <3>3 DEF Settling
  <2> QED BY <2>7, <2>8
<1> QED BY <1>1, <1>2, <1>3, <1>4, <1>5, <1>6, <1>7, <1>8, <1>9 DEF Contracting

\* A row stays its user's as long as there is one, and a request is at a row of its user.
LEMMA AimedStep ==
  ASSUME StaffTypes, Aimed, NEW k \in Slots, Contracting(k) PROVE Aimed'
<1>0. /\ flight[k] \in StaffRequest /\ flight \in [Slots -> StaffRequest]
      /\ contract \in [Ids -> Contract \cup {NoContract}] /\ made \in Nat /\ made' \in Nat
      /\ \A id \in Ids : contract[id] # NoContract => id <= made
      /\ made <= made' /\ \A i \in Slots \ {k} : flight'[i] = flight[i]
  BY ContractTypesStep, ContractMoves, StaffAssumption
     DEF StaffTypes, StaffRequestTypes, ContractTypes
<1> DEFINE Keep == \A id \in Ids : id <= made =>
                     contract'[id].user \in {contract[id].user, NoContract.user}
           Aim == flight'[k].op \in {"edit", "drop"} =>
                    /\ flight'[k].id <= made'
                    /\ contract'[flight'[k].id].user \in {flight'[k].user, NoContract.user}
<1>1. ASSUME NEW id \in Ids, NEW e \in Expiries, UpdateContract(k, id, e) PROVE Keep /\ Aim
  <2>1. /\ UNCHANGED <<made, contract>> /\ contract[id] # NoContract
        /\ flight' = [flight EXCEPT ![k] =
                        [op |-> "edit", user |-> contract[id].user, id |-> id, expires |-> e]]
    BY <1>1 DEF UpdateContract, Start
  <2>2. flight'[k] = [op |-> "edit", user |-> contract[id].user, id |-> id, expires |-> e]
    BY <1>0, <2>1
  <2> QED BY <1>0, <2>1, <2>2
<1>2. ASSUME NEW id \in Ids, RemoveContract(k, id) PROVE Keep /\ Aim
  <2>1. /\ UNCHANGED <<made, contract>> /\ contract[id] # NoContract
        /\ flight' = [flight EXCEPT ![k] =
                        [op |-> "drop", user |-> contract[id].user, id |-> id]]
    BY <1>2 DEF RemoveContract, Start
  <2>2. flight'[k] = [op |-> "drop", user |-> contract[id].user, id |-> id]
    BY <1>0, <2>1
  <2> QED BY <1>0, <2>1, <2>2
<1>3. ASSUME NEW u \in Users, NEW e \in Expiries, CreateContract(k, u, e) PROVE Keep /\ Aim
  <2>1. UNCHANGED <<made, contract>> /\ flight'[k].op = "number"
    BY <1>0, <1>3 DEF CreateContract, Start
  <2> QED BY <2>1
<1>4. ASSUME NEW f \in StaffRequest, f.op \notin {"edit", "drop"}, Go(k, f) PROVE Aim
  BY <1>0, <1>4 DEF Go
<1>5. ASSUME SaveContract(k) \/ WriteContract(k) \/ DropContract(k) PROVE Aim
  <2>1. flight[k].user \in Users /\ Go(k, [op |-> "count", user |-> flight[k].user])
    BY <1>0, <1>5, StaffFields DEF SaveContract, WriteContract, DropContract
  <2>2. flight'[k].op = "count"
    BY <1>0, <2>1 DEF Go
  <2> QED BY <2>2
<1>6. ASSUME SaveContract(k) PROVE Keep
  <2>1. made < MaxContracts /\ made + 1 \in Ids
    BY <1>0, <1>6, StaffAssumption DEF SaveContract, Ids
  <2>2. \A id \in Ids : id <= made => id # made + 1
    BY <1>0 DEF Ids
  <2>3. \A id \in Ids : id <= made => contract'[id] = contract[id]
    BY <1>0, <1>6, <2>1, <2>2 DEF SaveContract
  <2> QED BY <2>3
<1>7. ASSUME WriteContract(k) PROVE Keep
  <2> DEFINE i == flight[k].id
             c == [contract[i] EXCEPT !.expires = flight[k].expires]
  <2>1. /\ i \in Ids
        /\ contract' = IF contract[i] = NoContract THEN contract ELSE [contract EXCEPT ![i] = c]
    BY <1>0, <1>7, StaffFields DEF WriteContract
  <2>2. contract[i] # NoContract => c.user = contract[i].user
    BY <1>0, <2>1 DEF Contract
  <2> HIDE DEF i, c
  <2> QED BY <1>0, <2>1, <2>2
<1>8. ASSUME DropContract(k) PROVE Keep
  BY <1>0, <1>8 DEF DropContract
<1>9. ASSUME CountContracts(k) \/ FindLatest(k) \/ CopyLatest(k) \/ SyncFails(k)
      PROVE  Keep /\ Aim
  <2>1. UNCHANGED contract
    BY <1>9 DEF CountContracts, FindLatest, CopyLatest, SyncFails, contracts
  <2>2. flight'[k].op \in {"idle", "latest", "copy"}
    BY <1>0, <1>9 DEF CountContracts, FindLatest, CopyLatest, SyncFails, Finish, Go, Idle
  <2> QED BY <2>1, <2>2
<1>10. Keep /\ Aim
  BY <1>1, <1>2, <1>3, <1>5, <1>6, <1>7, <1>8, <1>9 DEF Contracting
<1> HIDE DEF Keep
<1>11. ASSUME NEW j \in Slots, flight'[j].op \in {"edit", "drop"}
       PROVE  /\ flight'[j].id <= made'
              /\ contract'[flight'[j].id].user \in {flight'[j].user, NoContract.user}
  <2>1. CASE j = k
    BY <1>10, <1>11, <2>1
  <2>2. CASE j # k
    <3>1. /\ flight'[j] = flight[j] /\ flight[j].id \in Ids /\ flight[j].id <= made
          /\ contract[flight[j].id].user \in {flight[j].user, NoContract.user}
      BY <1>0, <1>11, <2>2, StaffFields DEF Aimed
    <3>2. contract'[flight[j].id].user \in {contract[flight[j].id].user, NoContract.user}
      BY <1>10, <3>1 DEF Keep
    <3>3. flight[j].id \in Nat
      BY <3>1 DEF Ids
    <3> QED BY <1>0, <3>1, <3>2, <3>3
  <2> QED BY <2>1, <2>2
<1> QED BY <1>11 DEF Aimed

\* What leaves contracts and requests at them alone keeps what is known of the copy of a user
\* whose own row it leaves alone as well.
LEMMA MirrorKept ==
  ASSUME StaffTypes, MirrorInv, UNCHANGED <<made, contract>>,
         \A j \in Slots : \/ flight'[j] = flight[j]
                          \/ /\ flight[j].op \notin {"number", "edit", "drop", "count", "latest", "copy"}
                             /\ flight'[j].op \notin {"number", "edit", "drop", "count", "latest", "copy"},
         torn \subseteq torn', \A u \in Users \ torn' : mirror'[u] = mirror[u]
  PROVE  MirrorInv'
<1>1. ASSUME NEW u \in Users \ torn'
      PROVE  /\ u \notin torn /\ ContractsOf(u)' = ContractsOf(u) /\ CopyNow(u)' = CopyNow(u)
             /\ \A j \in Slots : AtContracts(j, u)' <=> AtContracts(j, u)
             /\ \A j \in Slots : AtContracts(j, u) => flight'[j] = flight[j]
  BY Untouched DEF AtContracts
<1>2. Aimed'
  BY DEF MirrorInv, Aimed
<1>3. OneAtContracts'
  BY <1>1, Zenon DEF MirrorInv, OneAtContracts
<1>4. CopyRight'
  <2> SUFFICES ASSUME NEW u \in Users \ torn'
               PROVE  /\ (\A k \in Slots : ~AtContracts(k, u)') => mirror'[u] \in CopyNow(u)'
                      /\ \A k \in Slots : AtContracts(k, u)' =>
                           /\ flight'[k].op = "latest" =>
                                flight'[k].count = Cardinality(ContractsOf(u))'
                           /\ flight'[k].op = "copy" => flight'[k].mirror \in CopyNow(u)'
    BY DEF CopyRight
  <2>1. Cardinality(ContractsOf(u))' = Cardinality(ContractsOf(u))
    BY <1>1
  <2> QED BY <1>1, <2>1 DEF MirrorInv, CopyRight
<1> QED BY <1>2, <1>3, <1>4 DEF MirrorInv

LEMMA MirrorStep ==
  ASSUME StaffTypes, MirrorInv, [StaffNext]_staffVars PROVE MirrorInv'
<1>1. ASSUME NEW k \in Slots, Contracting(k) PROVE MirrorInv'
  <2>1. Aimed'
    BY <1>1, AimedStep DEF MirrorInv
  <2>2. \A i \in Slots \ {k} : flight'[i] = flight[i]
    BY <1>1, ContractMoves
  <2>3. \A u \in Users \ torn' : u \notin torn /\ (Elsewhere(k, u) \/ Alone(k, u) \/ Settling(k, u))
    BY <1>1, CopyMoves
  <2>4. \A i \in Slots \ {k}, u \in Users : AtContracts(i, u)' <=> AtContracts(i, u)
    BY <2>2 DEF AtContracts
  <2>5. OneAtContracts'
    <3> SUFFICES ASSUME NEW u \in Users \ torn', NEW i \in Slots, NEW j \in Slots,
                        AtContracts(i, u)', AtContracts(j, u)'
                 PROVE  i = j
      BY DEF OneAtContracts
    <3>1. CASE Alone(k, u)
      BY <2>4, <3>1 DEF Alone
    <3>2. CASE Elsewhere(k, u) \/ Settling(k, u)
      <4>1. i # k /\ j # k
        BY <3>2 DEF Elsewhere, Settling
      <4>2. AtContracts(i, u) /\ AtContracts(j, u)
        BY <2>4, <4>1
      <4> QED BY <2>3, <4>2 DEF MirrorInv, OneAtContracts
    <3> QED BY <2>3, <3>1, <3>2
  <2>6. CopyRight'
    <3> SUFFICES ASSUME NEW u \in Users \ torn'
                 PROVE  /\ (\A i \in Slots : ~AtContracts(i, u)') => mirror'[u] \in CopyNow(u)'
                        /\ \A i \in Slots : AtContracts(i, u)' => Rightly(i, u)'
      BY DEF CopyRight, Rightly
    <3>1. CASE Alone(k, u)
      BY <2>4, <3>1 DEF Alone
    <3>2. CASE Settling(k, u)
      <4>1. \A i \in Slots : ~AtContracts(i, u)'
        BY <2>3, <2>4, <3>2 DEF Settling, MirrorInv, OneAtContracts
      <4> QED BY <3>2, <4>1 DEF Settling
    <3>3. CASE Elsewhere(k, u)
      <4>1. ~AtContracts(k, u) /\ ~AtContracts(k, u)'
        BY <3>3 DEF Elsewhere
      <4>2. (\A i \in Slots : ~AtContracts(i, u)') => mirror[u] \in CopyNow(u)
        BY <2>3, <2>4, <4>1 DEF MirrorInv, CopyRight
      <4>3. mirror'[u] = mirror[u] /\ CopyNow(u)' = CopyNow(u) /\ ContractsOf(u)' = ContractsOf(u)
        BY <3>3 DEF Elsewhere
      <4>4. ASSUME NEW i \in Slots, AtContracts(i, u)' PROVE Rightly(i, u)'
        <5>1. i # k /\ AtContracts(i, u) /\ flight'[i] = flight[i]
          BY <2>2, <2>4, <4>1, <4>4
        <5>2. Rightly(i, u)
          BY <2>3, <5>1 DEF MirrorInv, CopyRight, Rightly
        <5>3. Cardinality(ContractsOf(u))' = Cardinality(ContractsOf(u))
          BY <4>3
        <5> QED BY <4>3, <5>1, <5>2, <5>3 DEF Rightly
      <4> QED BY <4>2, <4>3, <4>4
    <3> QED BY <2>3, <3>1, <3>2, <3>3
  <2> QED BY <2>1, <2>5, <2>6 DEF MirrorInv
<1>2. ASSUME NEW k \in Slots, Facing(k) PROVE MirrorInv'
  <2>1. UNCHANGED <<made, contract, mirror, torn>>
    BY <1>2, FaceTypesStep DEF contracts
  <2>2. /\ \A i \in Slots \ {k} : flight'[i] = flight[i]
        /\ flight[k].op \notin {"number", "edit", "drop", "count", "latest", "copy"}
        /\ flight'[k].op \notin {"number", "edit", "drop", "count", "latest", "copy"}
    BY <1>2, FaceMoves
  <2> QED BY <2>1, <2>2, MirrorKept
<1>3. ASSUME Reminding PROVE MirrorInv'
  <2>1. UNCHANGED <<contracts, flight>>
    BY <1>3, ReminderTypesStep
  <2>2. UNCHANGED <<made, contract, mirror, torn, flight>>
    BY <2>1 DEF contracts
  <2> QED BY <2>2, MirrorKept
<1>4. ASSUME Updating PROVE MirrorInv'
  <2>1. PICK u \in Users, a \in BOOLEAN, m \in Mirror : UpdateUser(u, a, m)
    <3>1. \A u \in Users : mirror[u] \in Mirror /\ [count |-> 0, expires |-> Never] \in Mirror
      BY StaffAssumption DEF StaffTypes, ContractTypes, Mirror
    <3> QED BY <1>4, <3>1 DEF Updating
  <2>2. /\ mirror' = [mirror EXCEPT ![u] = m] /\ UNCHANGED <<made, contract, flight>>
        /\ torn' = IF m # mirror[u] THEN torn \cup {u} ELSE torn
    BY <2>1 DEF UpdateUser
  <2>3. \A v \in Users \ torn' : mirror'[v] = mirror[v]
    BY <2>2 DEF StaffTypes, ContractTypes
  <2> QED BY <2>2, <2>3, MirrorKept
<1>5. ASSUME UNCHANGED staffVars PROVE MirrorInv'
  <2>1. UNCHANGED <<made, contract, mirror, torn, flight>>
    BY <1>5 DEF staffVars
  <2> QED BY <2>1, MirrorKept
<1> QED BY <1>1, <1>2, <1>3, <1>4, <1>5, StaffSteps

\* There is a contract with the highest number.
LEMMA SomeLatest ==
  ASSUME ContractTypes, NEW u \in Users, ContractsOf(u) # {} PROVE Latest(u) # {}
<1> DEFINE N == {MaxContracts - contract[i].number : i \in ContractsOf(u)}
<1>1. MaxContracts \in Nat /\ \A i \in ContractsOf(u) :
        contract[i].number \in Nat /\ contract[i].number <= MaxContracts
  BY StoredContracts, StaffAssumption DEF Ids
<1>2. N \subseteq Nat /\ N # {}
  BY <1>1
<1>3. PICK n \in N : \A m \in N : <<m, n>> \notin OpToRel(<, Nat)
  BY <1>2, NatLessThanWellFounded, WFMin
<1>4. PICK i \in ContractsOf(u) : n = MaxContracts - contract[i].number
  OBVIOUS
<1>5. ASSUME NEW j \in ContractsOf(u) PROVE contract[j].number <= contract[i].number
  <2> DEFINE m == MaxContracts - contract[j].number
  <2>1. m \in N /\ m \in Nat /\ n \in Nat
    BY <1>1, <1>2
  <2>2. ~(m < n)
    BY <1>3, <2>1 DEF OpToRel
  <2> QED BY <1>1, <1>4, <2>2
<1>6. i \in Latest(u)
  BY <1>4, <1>5 DEF Latest
<1> QED BY <1>6

LEMMA MirrorInit == StaffInit => MirrorInv
<1> SUFFICES ASSUME StaffInit PROVE MirrorInv
  OBVIOUS
<1>1. \A k \in Slots : flight[k].op = "idle"
  BY DEF StaffInit, Idle
<1>2. Aimed /\ OneAtContracts
  BY <1>1 DEF Aimed, OneAtContracts, AtContracts
<1>3. ASSUME NEW u \in Users PROVE mirror[u] \in CopyNow(u)
  <2>1. ContractsOf(u) = {}
    BY StaffAssumption DEF StaffInit, ContractsOf
  <2>2. Latest(u) = {}
    BY <2>1 DEF Latest
  <2>3. Cardinality(ContractsOf(u)) = 0
    BY <2>1, FS_EmptySet
  <2>4. mirror[u] = [count |-> 0, expires |-> Nothing]
    BY DEF StaffInit
  <2> QED BY <2>2, <2>3, <2>4 DEF CopyNow, CopyOf
<1> QED BY <1>1, <1>2, <1>3 DEF MirrorInv, CopyRight, AtContracts

\* Unless requests on a user's contracts overlapped, one broke off, or the form of the user was
\* saved with other fields, the user's row has their number and the end of the latest one as
\* soon as no request of the user's is under way (syncUserContractFields of
\* user_contracts.service.ts).
THEOREM MirrorIsLatestCorrect == StaffSpec => []MirrorIsLatest
<1>1. StaffTypes /\ MirrorInv => MirrorIsLatest
  <2> SUFFICES ASSUME StaffTypes, MirrorInv, NEW u \in Users \ torn,
                      \A k \in Slots : flight[k] # Idle =>
                        "user" \notin DOMAIN flight[k] \/ flight[k].user # u
               PROVE  /\ mirror[u].count = Cardinality(ContractsOf(u))
                      /\ ContractsOf(u) = {} => mirror[u].expires = Nothing
                      /\ ContractsOf(u) # {} =>
                           \E i \in ContractsOf(u) :
                             /\ mirror[u].expires = contract[i].expires
                             /\ \A j \in ContractsOf(u) : contract[j].number <= contract[i].number
    BY DEF MirrorIsLatest
  <2>1. ASSUME NEW k \in Slots PROVE ~AtContracts(k, u)
    <3> SUFFICES ASSUME AtContracts(k, u) PROVE FALSE
      OBVIOUS
    <3>1. flight[k] \in StaffRequest
      BY DEF StaffTypes, StaffRequestTypes
    <3>2. "user" \in DOMAIN flight[k] /\ flight[k] # Idle
      BY <3>1, StaffFields DEF AtContracts, Idle
    <3> QED BY <3>2 DEF AtContracts
  <2>2. mirror[u] \in CopyNow(u)
    BY <2>1 DEF MirrorInv, CopyRight
  <2>3. ContractsOf(u) = {} => Latest(u) = {}
    BY DEF Latest
  <2>4. ContractsOf(u) # {} => Latest(u) # {}
    BY SomeLatest DEF StaffTypes
  <2>5. CASE ContractsOf(u) = {}
    BY <2>2, <2>3, <2>5 DEF CopyNow, CopyOf
  <2>6. CASE ContractsOf(u) # {}
    <3>1. PICK i \in Latest(u) : mirror[u] = [count |-> Cardinality(ContractsOf(u)),
                                              expires |-> contract[i].expires]
      BY <2>2, <2>4, <2>6 DEF CopyNow, CopyOf
    <3> QED BY <2>6, <3>1 DEF Latest
  <2> QED BY <2>5, <2>6
<1>2. StaffTypes /\ MirrorInv /\ [StaffNext]_staffVars => StaffTypes' /\ MirrorInv'
  BY StaffTypesStep, MirrorStep
<1> QED BY <1>1, <1>2, StaffTypesInit, MirrorInit, PTL DEF StaffSpec

-----------------------------------------------------------------------------
(* The reminders.                                                          *)

ToldIndex == (UNION Range(Managers)) \X Companies \X Users \X (1..LastDay)

LEMMA ToldIndices ==
  ASSUME ReminderTypes, NEW c \in Companies, NEW r \in Managers[c], NEW u \in Users,
         NEW d \in 1..LastDay
  PROVE  /\ <<r, c, u, d>> \in ToldIndex /\ told \in [ToldIndex -> Nat] /\ Told(r, c, u, d) \in Nat
         /\ lastSent[u] \in Nat /\ d \in Nat
<1>1. r \in UNION Range(Managers)
  BY StaffAssumption DEF Range
<1>2. <<r, c, u, d>> \in ToldIndex
  BY <1>1 DEF ToldIndex
<1>3. told \in [ToldIndex -> Nat]
  BY DEF ReminderTypes, ToldIndex
<1>4. lastSent[u] \in Nat /\ d \in Nat
  BY DEF ReminderTypes
<1> QED BY <1>2, <1>3, <1>4 DEF Told

LEMMA RemindInit == StaffInit => RemindInv
<1> SUFFICES ASSUME StaffInit PROVE RemindInv
  OBVIOUS
<1>1. ActiveUnlessAway /\ NotYet /\ BeingTold
  BY DEF StaffInit, ActiveUnlessAway, NotYet, BeingTold, Idle
<1>2. ASSUME NEW u \in Users, NEW d \in 1..LastDay, NEW c \in Companies, NEW r \in Managers[c]
      PROVE  Told(r, c, u, d) = 0 /\ lastSent[u] # d
  <2>1. <<r, c, u, d>> \in ToldIndex
    BY <1>2, ToldIndices, StaffTypesInit DEF StaffTypes
  <2>2. told = [t \in ToldIndex |-> 0] /\ lastSent[u] = 0
    BY DEF StaffInit, ToldIndex, Nothing
  <2> QED BY <2>1, <2>2 DEF Told
<1>3. OnlyOnce /\ AllTold
  BY <1>2 DEF OnlyOnce, AllTold
<1> QED BY <1>1, <1>3 DEF RemindInv

\* Whoever stays a recipient was one before.
LEMMA RemindKept ==
  ASSUME RemindInv, UNCHANGED reminders, away \subseteq away',
         \A u \in Users \ away' : active'[u] = TRUE
  PROVE  RemindInv'
<1>1. UNCHANGED <<today, lastSent, sweep, told, broken>>
  BY DEF reminders
<1>2. ActiveUnlessAway'
  BY DEF ActiveUnlessAway
<1>3. NotYet'
  BY <1>1 DEF RemindInv, NotYet
<1>4. BeingTold'
  BY <1>1 DEF RemindInv, BeingTold, Told
<1>5. OnlyOnce'
  <2>1. ASSUME NEW u \in Users, NEW d \in 1..LastDay, NEW c \in Companies, NEW r \in Managers[c]
        PROVE  Told(r, c, u, d)' = Told(r, c, u, d) /\ (Passed(r, c, u, d)' <=> Passed(r, c, u, d))
    BY <1>1 DEF Told, Passed, Telling
  <2> QED BY <1>1, <2>1 DEF RemindInv, OnlyOnce
<1>6. AllTold'
  BY <1>1, Zenon DEF RemindInv, AllTold, Told
<1> QED BY <1>2, <1>3, <1>4, <1>5, <1>6 DEF RemindInv

\* Nobody is told or marked by the step, and who was passed over is.
LEMMA NoneTold ==
  ASSUME RemindInv, UNCHANGED <<active, away, lastSent, told>>, broken \subseteq broken', NotYet', BeingTold',
         \A u \in Users, d \in 1..LastDay, c \in Companies : \A r \in Managers[c] :
           <<u, d>> \notin broken' /\ Passed(r, c, u, d) => Passed(r, c, u, d)'
  PROVE  RemindInv'
<1>1. ActiveUnlessAway' /\ AllTold'
  BY DEF RemindInv, ActiveUnlessAway, AllTold, Told
<1>2. OnlyOnce'
  BY DEF RemindInv, OnlyOnce, Told
<1> QED BY <1>1, <1>2 DEF RemindInv

LEMMA SweepReminds == ASSUME StaffTypes, RemindInv, Sweep PROVE RemindInv'
<1>1. /\ sweep = Idle /\ sweep' = [op |-> "next", today |-> today, left |-> Expiring]
      /\ UNCHANGED <<active, away, today, lastSent, told, broken>>
  BY DEF Sweep
<1>2. sweep.op = "idle" /\ sweep'.op = "next" /\ sweep'.today = today /\ sweep'.left = Expiring
  BY <1>1 DEF Idle
<1>3. NotYet'
  BY <1>1, <1>2 DEF NotYet, Expiring, StaffTypes, ReminderTypes
<1>4. BeingTold'
  BY <1>2 DEF BeingTold
<1> QED BY <1>1, <1>2, <1>3, <1>4, NoneTold DEF Passed, Telling

LEMMA PassReminds == ASSUME StaffTypes, RemindInv, NEW v \in Users, SweepPass(v) PROVE RemindInv'
<1>1. /\ sweep.op = "next" /\ v \in sweep.left
      /\ CompaniesOf[v] = {} => sweep' = [sweep EXCEPT !.left = sweep.left \ {v}]
      /\ CompaniesOf[v] # {} =>
           sweep' = [op |-> "notify", today |-> sweep.today, left |-> sweep.left \ {v},
                     user |-> v, companies |-> CompaniesOf[v], due |-> {}]
      /\ UNCHANGED <<active, away, today, lastSent, told, broken>>
  BY DEF SweepPass
<1>2. sweep \in [op: {"next"}, today: 1..LastDay, left: SUBSET Users] /\ sweep # Idle
  BY <1>1, RunFields DEF StaffTypes, ReminderTypes
<1>3. sweep.today <= today /\ \A u \in sweep.left : lastSent[u] < sweep.today
  BY <1>2 DEF RemindInv, NotYet
<1>4. CASE CompaniesOf[v] = {}
  <2>1. sweep'.op = "next" /\ sweep'.today = sweep.today /\ sweep'.left = sweep.left \ {v}
    BY <1>1, <1>2, <1>4
  <2>2. NotYet' /\ BeingTold'
    BY <1>1, <1>3, <2>1 DEF NotYet, BeingTold
  <2> QED BY <1>1, <2>1, <2>2, NoneTold DEF Passed, Telling
<1>5. CASE CompaniesOf[v] # {}
  <2>1. /\ sweep'.op = "notify" /\ sweep'.today = sweep.today /\ sweep'.left = sweep.left \ {v}
        /\ sweep'.user = v /\ sweep'.companies = CompaniesOf[v] /\ sweep'.due = {}
    BY <1>1, <1>5
  <2>2. NotYet' /\ BeingTold'
    BY <1>1, <1>3, <2>1 DEF NotYet, BeingTold
  <2> QED BY <1>1, <2>1, <2>2, NoneTold DEF Passed, Telling
<1> QED BY <1>4, <1>5

\* What holds of the employee whose managers are being told.
LEMMA Telling1 ==
  ASSUME StaffTypes, RemindInv, sweep.op = "notify"
  PROVE  /\ sweep \in [op: {"notify"}, today: 1..LastDay, left: SUBSET Users, user: Users,
                       companies: SUBSET Companies, due: SUBSET Reports]
         /\ sweep # Idle /\ sweep.today <= today /\ \A u \in sweep.left : lastSent[u] < sweep.today
         /\ lastSent[sweep.user] < sweep.today /\ sweep.user \notin sweep.left
         /\ sweep.companies \subseteq CompaniesOf[sweep.user]
         /\ \A t \in sweep.due : t[2] \notin sweep.companies /\ t[1] \in Managers[t[2]]
         /\ \A c \in CompaniesOf[sweep.user] \ sweep.companies : \A r \in Managers[c] \ away :
              <<r, c>> \in sweep.due \/ Told(r, c, sweep.user, sweep.today) >= 1
         /\ sweep.today \in Nat /\ \A u \in Users : lastSent[u] \in Nat
         /\ CompaniesOf[sweep.user] \subseteq Companies
<1>1. sweep \in [op: {"notify"}, today: 1..LastDay, left: SUBSET Users, user: Users,
                 companies: SUBSET Companies, due: SUBSET Reports] /\ sweep # Idle
  BY RunFields DEF StaffTypes, ReminderTypes
<1>2. NotYet /\ BeingTold
  BY DEF RemindInv
<1>3. sweep.today \in Nat /\ \A u \in Users : lastSent[u] \in Nat
  BY <1>1 DEF StaffTypes, ReminderTypes
<1>4. CompaniesOf[sweep.user] \subseteq Companies
  BY <1>1, StaffAssumption
<1> QED BY <1>1, <1>2, <1>3, <1>4 DEF NotYet, BeingTold

LEMMA RecipientsReminds ==
  ASSUME StaffTypes, RemindInv, NEW c \in Companies, Recipients(c) PROVE RemindInv'
<1> DEFINE d == {r \in Managers[c] : active[r]} \X {c}
<1>1. /\ sweep.op = "notify" /\ sweep.due = {} /\ c \in sweep.companies
      /\ sweep' = [sweep EXCEPT !.companies = sweep.companies \ {c}, !.due = d]
      /\ UNCHANGED <<active, away, today, lastSent, told, broken>>
  BY DEF Recipients
<1>2. /\ \A t \in d : t[2] = c /\ t[1] \in Managers[c]
      /\ \A r \in Managers[c] : active[r] = TRUE => <<r, c>> \in d
      /\ \A x, y : <<x, y>> \in d => y = c
  OBVIOUS
<1> HIDE DEF d
<1>3. /\ sweep'.op = "notify" /\ sweep'.today = sweep.today /\ sweep'.left = sweep.left
      /\ sweep'.user = sweep.user /\ sweep'.companies = sweep.companies \ {c} /\ sweep'.due = d
  BY <1>1, Telling1
<1>4. NotYet'
  BY <1>1, <1>3, Telling1 DEF NotYet
<1>5. BeingTold'
  <2> SUFFICES
        /\ lastSent[sweep.user] < sweep.today /\ sweep.user \notin sweep.left
        /\ sweep.companies \ {c} \subseteq CompaniesOf[sweep.user]
        /\ \A t \in d : t[2] \notin sweep.companies \ {c} /\ t[1] \in Managers[t[2]]
        /\ \A b \in CompaniesOf[sweep.user] \ (sweep.companies \ {c}) : \A r \in Managers[b] \ away :
             <<r, b>> \in d \/ Told(r, b, sweep.user, sweep.today) >= 1
    BY <1>1, <1>3 DEF BeingTold, Told
  <2>1. ASSUME NEW b \in CompaniesOf[sweep.user] \ (sweep.companies \ {c}),
               NEW r \in Managers[b] \ away
        PROVE  <<r, b>> \in d \/ Told(r, b, sweep.user, sweep.today) >= 1
    <3>1. CASE b = c
      <4>1. r \in Users
        BY <3>1, StaffAssumption
      <4>2. active[r] = TRUE
        BY <4>1 DEF RemindInv, ActiveUnlessAway
      <4> QED BY <1>2, <3>1, <4>2
    <3>2. CASE b # c
      BY <1>1, <3>2, Telling1
    <3> QED BY <3>1, <3>2
  <2> QED BY <1>1, <1>2, <2>1, Telling1
<1>6. ASSUME NEW u \in Users, NEW e \in 1..LastDay, NEW b \in Companies, NEW r \in Managers[b],
             Passed(r, b, u, e)
      PROVE  Passed(r, b, u, e)'
  BY <1>1, <1>2, <1>3, <1>6 DEF Passed, Telling
<1> QED BY <1>1, <1>4, <1>5, <1>6, NoneTold

LEMMA NotifyReminds ==
  ASSUME StaffTypes, RemindInv, NEW c \in Companies, NEW r \in Managers[c], Notify(r, c)
  PROVE  RemindInv'
<1> DEFINE t == <<r, c, sweep.user, sweep.today>>
<1>1. /\ sweep.op = "notify" /\ <<r, c>> \in sweep.due
      /\ told' = [told EXCEPT ![t] = told[t] + 1]
      /\ sweep' = [sweep EXCEPT !.due = sweep.due \ {<<r, c>>}]
      /\ UNCHANGED <<active, away, today, lastSent, broken>>
  BY DEF Notify
<1>2. /\ sweep'.op = "notify" /\ sweep'.today = sweep.today /\ sweep'.left = sweep.left
      /\ sweep'.user = sweep.user /\ sweep'.companies = sweep.companies
      /\ sweep'.due = sweep.due \ {<<r, c>>}
  BY <1>1, Telling1
<1>3. sweep.user \in Users /\ sweep.today \in 1..LastDay /\ c \notin sweep.companies
  BY <1>1, Telling1
<1>4. t \in ToldIndex /\ told \in [ToldIndex -> Nat] /\ told[t] \in Nat
  BY <1>3, ToldIndices DEF StaffTypes, Told
<1>5. told'[t] = told[t] + 1 /\ \A s \in ToldIndex \ {t} : told'[s] = told[s]
  BY <1>1, <1>4
<1>t. \A s \in ToldIndex : told'[s] >= told[s] /\ told[s] \in Nat /\ told'[s] \in Nat
  <2> HIDE DEF t
  <2>1. ASSUME NEW s \in ToldIndex PROVE told'[s] >= told[s] /\ told[s] \in Nat /\ told'[s] \in Nat
    <3>1. CASE s = t
      BY <1>4, <1>5, <3>1
    <3>2. CASE s # t
      BY <1>4, <1>5, <3>2
    <3> QED BY <3>1, <3>2
  <2> QED BY <2>1
<1>6. ActiveUnlessAway'
  BY <1>1 DEF RemindInv, ActiveUnlessAway
<1>7. NotYet'
  BY <1>1, <1>2, Telling1 DEF NotYet
<1>8. BeingTold'
  <2> SUFFICES
        /\ lastSent[sweep.user] < sweep.today /\ sweep.user \notin sweep.left
        /\ sweep.companies \subseteq CompaniesOf[sweep.user]
        /\ \A s \in sweep.due \ {<<r, c>>} : s[2] \notin sweep.companies /\ s[1] \in Managers[s[2]]
        /\ \A b \in CompaniesOf[sweep.user] \ sweep.companies : \A q \in Managers[b] \ away :
             <<q, b>> \in sweep.due \ {<<r, c>>} \/ told'[<<q, b, sweep.user, sweep.today>>] >= 1
    BY <1>1, <1>2 DEF BeingTold, Told
  <2>1. ASSUME NEW b \in CompaniesOf[sweep.user] \ sweep.companies, NEW q \in Managers[b] \ away
        PROVE  <<q, b>> \in sweep.due \ {<<r, c>>} \/ told'[<<q, b, sweep.user, sweep.today>>] >= 1
    <3>1. CASE q = r /\ b = c
      BY <1>4, <1>5, <3>1
    <3>2. CASE ~(q = r /\ b = c)
      <4>1. <<q, b>> \in sweep.due \/ Told(q, b, sweep.user, sweep.today) >= 1
        BY <1>1, Telling1
      <4>2. b \in Companies
        BY <1>1, Telling1
      <4>3. <<q, b, sweep.user, sweep.today>> \in ToldIndex
        BY <1>3, <4>2, ToldIndices DEF StaffTypes
      <4> QED BY <1>t, <3>2, <4>1, <4>3 DEF Told
    <3> QED BY <3>1, <3>2
  <2> QED BY <1>1, <2>1, Telling1
<1>9. ASSUME NEW u \in Users, NEW d \in 1..LastDay, NEW b \in Companies, NEW q \in Managers[b]
      PROVE  /\ <<u, d>> \notin broken =>
                  told'[<<q, b, u, d>>] <= 1 /\ (told'[<<q, b, u, d>>] # 0 => Passed(q, b, u, d)')
             /\ lastSent[u] = d /\ b \in CompaniesOf[u] /\ q \notin away =>
                  told'[<<q, b, u, d>>] >= 1
  <2>1. <<q, b, u, d>> \in ToldIndex
    BY ToldIndices DEF StaffTypes
  <2>2. /\ <<u, d>> \notin broken =>
             told[<<q, b, u, d>>] <= 1 /\ (told[<<q, b, u, d>>] # 0 => Passed(q, b, u, d))
        /\ lastSent[u] = d /\ b \in CompaniesOf[u] /\ q \notin away => told[<<q, b, u, d>>] >= 1
    BY DEF RemindInv, OnlyOnce, AllTold, Told
  <2>3. lastSent[u] = d /\ b \in CompaniesOf[u] /\ q \notin away => told'[<<q, b, u, d>>] >= 1
    BY <1>t, <2>1, <2>2
  <2>4. CASE <<q, b, u, d>> = t
    <3>1. q = r /\ b = c /\ u = sweep.user /\ d = sweep.today
      BY <2>4
    <3>2. ~Passed(q, b, u, d)
      BY <1>1, <3>1, Telling1 DEF Passed
    <3>3. Passed(q, b, u, d)'
      BY <1>2, <1>3, <3>1 DEF Passed, Telling
    <3>4. <<u, d>> \notin broken => told[t] = 0
      BY <2>2, <2>4, <3>2
    <3> QED BY <1>4, <1>5, <2>3, <2>4, <3>3, <3>4
  <2>5. CASE <<q, b, u, d>> # t
    <3>1. told'[<<q, b, u, d>>] = told[<<q, b, u, d>>]
      BY <1>5, <2>1, <2>5
    <3>2. Passed(q, b, u, d) => Passed(q, b, u, d)'
      BY <1>1, <1>2 DEF Passed, Telling
    <3> QED BY <2>2, <2>3, <3>1, <3>2
  <2> QED BY <2>4, <2>5
<1>10. OnlyOnce' /\ AllTold'
  BY <1>1, <1>9 DEF OnlyOnce, AllTold, Told
<1> QED BY <1>6, <1>7, <1>8, <1>10 DEF RemindInv

LEMMA MarkReminds == ASSUME StaffTypes, RemindInv, MarkSent PROVE RemindInv'
<1>1. /\ sweep.op = "notify" /\ sweep.companies = {} /\ sweep.due = {}
      /\ lastSent' = [lastSent EXCEPT ![sweep.user] = sweep.today]
      /\ sweep' = [op |-> "next", today |-> sweep.today, left |-> sweep.left]
      /\ UNCHANGED <<active, away, today, told, broken>>
  BY DEF MarkSent
<1>2. sweep'.op = "next" /\ sweep'.today = sweep.today /\ sweep'.left = sweep.left
  BY <1>1
<1>3. /\ sweep.user \in Users /\ sweep.today \in 1..LastDay /\ sweep.left \subseteq Users
      /\ lastSent \in [Users -> 0..LastDay]
  BY <1>1, Telling1 DEF StaffTypes, ReminderTypes
<1>4. /\ lastSent'[sweep.user] = sweep.today
      /\ \A u \in Users \ {sweep.user} : lastSent'[u] = lastSent[u]
  BY <1>1, <1>3
<1>5. \A u \in Users : lastSent'[u] >= lastSent[u]
  BY <1>1, <1>4, Telling1
<1>6. ActiveUnlessAway'
  BY <1>1 DEF RemindInv, ActiveUnlessAway
<1>7. NotYet'
  BY <1>1, <1>2, <1>3, <1>4, Telling1 DEF NotYet
<1>8. BeingTold'
  BY <1>2 DEF BeingTold
<1>9. ASSUME NEW u \in Users, NEW d \in 1..LastDay, NEW b \in Companies, NEW q \in Managers[b]
      PROVE  /\ <<u, d>> \notin broken =>
                  Told(q, b, u, d) <= 1 /\ (Told(q, b, u, d) # 0 => lastSent'[u] >= d)
             /\ lastSent'[u] = d /\ b \in CompaniesOf[u] /\ q \notin away => Told(q, b, u, d) >= 1
  <2>1. /\ <<u, d>> \notin broken =>
             Told(q, b, u, d) <= 1 /\ (Told(q, b, u, d) # 0 => Passed(q, b, u, d))
        /\ lastSent[u] = d /\ b \in CompaniesOf[u] /\ q \notin away => Told(q, b, u, d) >= 1
    BY DEF RemindInv, OnlyOnce, AllTold
  <2>2. Passed(q, b, u, d) => lastSent'[u] >= d
    <3>1. lastSent[u] \in Nat /\ lastSent'[u] \in Nat /\ d \in Nat
      BY <1>1, <1>3, <1>4
    <3>2. Telling(u, d) => lastSent'[u] >= d
      BY <1>4, <3>1 DEF Telling
    <3> QED BY <1>5, <3>1, <3>2 DEF Passed
  <2>3. CASE u = sweep.user
    <3>1. lastSent'[u] = d => d = sweep.today
      BY <1>4, <2>3
    <3>2. d = sweep.today /\ b \in CompaniesOf[u] /\ q \notin away => Told(q, b, u, d) >= 1
      BY <1>1, <2>3, Telling1
    <3> QED BY <2>1, <2>2, <3>1, <3>2
  <2>4. CASE u # sweep.user
    BY <1>4, <2>1, <2>2, <2>4
  <2> QED BY <2>3, <2>4
<1>10. OnlyOnce'
  BY <1>1, <1>9 DEF OnlyOnce, Told, Passed
<1>11. AllTold'
  BY <1>1, <1>9 DEF AllTold, Told
<1> QED BY <1>6, <1>7, <1>8, <1>10, <1>11 DEF RemindInv

LEMMA FailReminds == ASSUME StaffTypes, RemindInv, NotifyFails PROVE RemindInv'
<1>1. /\ sweep.op = "notify" /\ broken' = broken \cup {<<sweep.user, sweep.today>>}
      /\ sweep' = [op |-> "next", today |-> sweep.today, left |-> sweep.left]
      /\ UNCHANGED <<active, away, today, lastSent, told>>
  BY DEF NotifyFails
<1>2. sweep'.op = "next" /\ sweep'.today = sweep.today /\ sweep'.left = sweep.left
  BY <1>1
<1>3. NotYet' /\ BeingTold'
  BY <1>1, <1>2, Telling1 DEF NotYet, BeingTold
<1>4. ASSUME NEW u \in Users, NEW d \in 1..LastDay, NEW b \in Companies, NEW q \in Managers[b],
             <<u, d>> \notin broken', Passed(q, b, u, d)
      PROVE  Passed(q, b, u, d)'
  BY <1>1, <1>4 DEF Passed, Telling
<1> QED BY <1>1, <1>3, <1>4, NoneTold

LEMMA EndReminds == ASSUME StaffTypes, RemindInv, SweepEnds \/ NextDay PROVE RemindInv'
<1>1. UNCHANGED <<active, away, lastSent, told, broken>>
  BY DEF SweepEnds, NextDay
<1>2. CASE SweepEnds
  <2>1. sweep.op = "next" /\ sweep' = Idle /\ sweep'.op = "idle"
    BY <1>2 DEF SweepEnds, Idle
  <2>2. NotYet' /\ BeingTold'
    BY <2>1 DEF NotYet, BeingTold
  <2> QED BY <1>1, <2>1, <2>2, NoneTold DEF Passed, Telling
<1>3. CASE NextDay
  <2>1. today' = today + 1 /\ sweep' = sweep /\ today \in Nat
    BY <1>3 DEF NextDay, StaffTypes, ReminderTypes
  <2>2. sweep # Idle => sweep.today \in Nat
    BY RunFields DEF StaffTypes, ReminderTypes
  <2>3. NotYet'
    BY <1>1, <2>1, <2>2 DEF RemindInv, NotYet
  <2>4. BeingTold'
    BY <1>1, <2>1 DEF RemindInv, BeingTold, Told
  <2> QED BY <1>1, <2>1, <2>3, <2>4, NoneTold DEF Passed, Telling
<1> QED BY <1>2, <1>3

LEMMA RemindStep ==
  ASSUME StaffTypes, RemindInv, [StaffNext]_staffVars PROVE RemindInv'
<1>1. ASSUME UNCHANGED <<active, away, reminders>> PROVE RemindInv'
  BY <1>1, RemindKept DEF RemindInv, ActiveUnlessAway
<1>2. ASSUME NEW k \in Slots, Contracting(k) PROVE RemindInv'
  BY <1>1, <1>2, ContractTypesStep
<1>3. ASSUME NEW k \in Slots, Facing(k) PROVE RemindInv'
  BY <1>1, <1>3, FaceTypesStep
<1>4. ASSUME Reminding PROVE RemindInv'
  BY <1>4, SweepReminds, PassReminds, RecipientsReminds, NotifyReminds, MarkReminds, FailReminds,
     EndReminds DEF Reminding
<1>5. ASSUME Updating PROVE RemindInv'
  <2>1. PICK u \in Users, a \in BOOLEAN :
          /\ active' = [active EXCEPT ![u] = a] /\ UNCHANGED reminders
          /\ away' = IF a THEN away ELSE away \cup {u}
    BY <1>5, Zenon DEF Updating, UpdateUser
  <2>2. active \in [Users -> BOOLEAN] /\ away \subseteq away'
    BY <2>1 DEF StaffTypes, ReminderTypes
  <2>3. ASSUME NEW v \in Users \ away' PROVE active'[v] = TRUE
    <3>1. active[v] = TRUE
      BY <2>2 DEF RemindInv, ActiveUnlessAway
    <3>2. CASE v = u
      <4>1. a = TRUE
        BY <2>1, <3>2
      <4> QED BY <2>1, <2>2, <3>2, <4>1
    <3>3. CASE v # u
      BY <2>1, <2>2, <3>1, <3>3
    <3> QED BY <3>2, <3>3
  <2> QED BY <2>1, <2>2, <2>3, RemindKept
<1>6. ASSUME UNCHANGED staffVars PROVE RemindInv'
  <2>1. UNCHANGED <<active, away, reminders>>
    BY <1>6 DEF staffVars, reminders
  <2> QED BY <1>1, <2>1
<1> QED BY <1>2, <1>3, <1>4, <1>5, <1>6, StaffSteps

\* Once an employee is marked, every manager of every company of the employee who has been
\* active all along has been told that day, and none twice unless a run broke off
\* (notifyForEmployee and contract_reminder_last_sent_at of
\* contract_expiry_reminder.service.ts).
THEOREM RemindedOnceCorrect == StaffSpec => []RemindedOnce
<1>1. RemindInv => RemindedOnce
  BY DEF RemindInv, OnlyOnce, AllTold, Told, RemindedOnce
<1>2. StaffTypes /\ RemindInv /\ [StaffNext]_staffVars => StaffTypes' /\ RemindInv'
  BY StaffTypesStep, RemindStep
<1> QED BY <1>1, <1>2, StaffTypesInit, RemindInit, PTL DEF StaffSpec

-----------------------------------------------------------------------------
(* Faces and their review.                                                 *)

LEMMA ReviewInit == StaffInit => ReviewInv
BY DEF StaffInit, ReviewInv, Idle

\* Faces stay as they are, and so do the requests about them.
LEMMA ReviewKept ==
  ASSUME ReviewInv, UNCHANGED faces,
         \A j \in Slots : flight'[j] = flight[j] \/ flight'[j].op \notin {"review", "clock"}
  PROVE  ReviewInv'
<1>1. UNCHANGED <<kyc, face, reviewed, swapped, clockedIn>>
  BY DEF faces
<1> QED BY <1>1 DEF ReviewInv, Seen

LEMMA FacesReviewed ==
  ASSUME StaffTypes, ReviewInv, NEW k \in Slots, Facing(k) PROVE ReviewInv'
<1>0. /\ flight[k] \in StaffRequest /\ flight \in [Slots -> StaffRequest]
      /\ kyc \in [Users -> KycStatuses] /\ face \in [Users -> Faces \cup {NoFace}]
      /\ \A j \in Slots \ {k} : flight'[j] = flight[j]
      /\ StaffRequestTypes
  BY FaceMoves DEF StaffTypes, StaffRequestTypes, FaceTypes
<1>i. Finish(k) => flight'[k].op = "idle"
  BY <1>0, Finished
<1>1. ASSUME NEW u \in Users, NEW f \in Faces, RegisterFace(k, u, f) PROVE ReviewInv'
  <2>1. flight'[k].op = "register" /\ UNCHANGED faces
    BY <1>0, <1>1 DEF RegisterFace, Start
  <2> QED BY <1>0, <2>1, ReviewKept
<1>2. ASSUME NEW u \in Users, CancelKyc(k, u) PROVE ReviewInv'
  <2>1. flight'[k].op = "cancel" /\ UNCHANGED faces
    BY <1>0, <1>2 DEF CancelKyc, Start
  <2> QED BY <1>0, <2>1, ReviewKept
<1>3. ASSUME FaceRefused(k) PROVE ReviewInv'
  <2>1. flight'[k].op = "idle" /\ UNCHANGED faces
    BY <1>i, <1>3 DEF FaceRefused
  <2> QED BY <1>0, <2>1, ReviewKept
<1>4. ASSUME NEW u \in Users, NEW f \in Faces, FaceCheckin(k, u, f) PROVE ReviewInv'
  <2>1. /\ UNCHANGED <<kyc, face, reviewed, swapped, clockedIn>>
        /\ flight'[k] = [op |-> "clock", user |-> u, face |-> face[u]]
    BY <1>0, <1>4 DEF FaceCheckin, Start, faces
  <2>2. flight'[k].op = "clock" /\ flight'[k].user = u /\ flight'[k].face = face[u]
    BY <2>1
  <2>3. kyc[u] = "approved"
    BY <1>4, Zenon DEF FaceCheckin, VerifyFace, MatchFace, Approved
  <2>4. Seen(u, face[u])
    BY <2>3 DEF ReviewInv
  <2> QED BY <1>0, <2>1, <2>2, <2>4 DEF ReviewInv, Seen
<1>5. ASSUME NEW u \in Users, NEW v \in {"approved", "rejected"}, ReviewKyc(k, u, v)
      PROVE  ReviewInv'
  <2>1. /\ UNCHANGED <<kyc, face, swapped, clockedIn>> /\ reviewed' = reviewed \cup {<<u, face[u]>>}
        /\ flight'[k] = [op |-> "review", user |-> u, verdict |-> v]
    BY <1>0, <1>5 DEF ReviewKyc, Start
  <2>2. flight'[k].op = "review" /\ flight'[k].user = u
    BY <2>1
  <2> QED BY <1>0, <2>1, <2>2 DEF ReviewInv, Seen
<1>6. ASSUME StoreFace(k) PROVE ReviewInv'
  <2> DEFINE u == flight[k].user
             SeenNow(v, f) == <<v, f>> \in reviewed' \/ v \in swapped'
  <2>1. /\ flight[k].op = "register" /\ flight'[k].op = "idle"
        /\ face' = [face EXCEPT ![u] = flight[k].face]
        /\ kyc' = [kyc EXCEPT ![u] = "pending"]
        /\ swapped' = IF UnderReview(u) THEN swapped \cup {u} ELSE swapped
        /\ UNCHANGED <<reviewed, clockedIn>>
    BY <1>i, <1>6 DEF StoreFace, Registered
  <2>2. u \in Users
    BY <1>0, <2>1, StaffFields
  <2> HIDE DEF u
  <2>3. kyc'[u] = "pending" /\ \A v \in Users \ {u} : kyc'[v] = kyc[v] /\ face'[v] = face[v]
    BY <1>0, <2>1, <2>2
  <2>4. reviewed' = reviewed /\ swapped \subseteq swapped'
    BY <2>1
  <2>5. ASSUME NEW j \in Slots, flight'[j].op = "review"
        PROVE  SeenNow(flight'[j].user, face'[flight'[j].user])
    <3>1. flight'[j] = flight[j] /\ flight[j].op = "review" /\ flight[j].user \in Users
      BY <1>0, <2>1, <2>5, StaffFields
    <3>2. CASE flight[j].user = u
      BY <2>1, <3>1, <3>2 DEF UnderReview, Seen
    <3>3. CASE flight[j].user # u
      <4>1. Seen(flight[j].user, face[flight[j].user]) /\ face'[flight[j].user] = face[flight[j].user]
        BY <2>3, <3>1, <3>3 DEF ReviewInv
      <4> QED BY <2>4, <3>1, <4>1 DEF Seen
    <3> QED BY <3>2, <3>3
  <2>6. ASSUME NEW j \in Slots, flight'[j].op = "clock"
        PROVE  SeenNow(flight'[j].user, flight'[j].face)
    <3>1. flight'[j] = flight[j] /\ flight[j].op = "clock"
      BY <1>0, <2>1, <2>6
    <3>2. Seen(flight[j].user, flight[j].face)
      BY <3>1 DEF ReviewInv
    <3> QED BY <2>4, <3>1, <3>2 DEF Seen
  <2>7. ASSUME NEW v \in Users, kyc'[v] = "approved" PROVE SeenNow(v, face'[v])
    <3>1. v # u
      BY <2>3, <2>7
    <3>2. Seen(v, face[v]) /\ face'[v] = face[v]
      BY <2>3, <2>7, <3>1 DEF ReviewInv
    <3> QED BY <2>4, <3>2 DEF Seen
  <2>8. \A t \in clockedIn' : SeenNow(t[1], t[2])
    BY <2>1, <2>4 DEF ReviewInv, Seen
  <2> QED BY <2>5, <2>6, <2>7, <2>8 DEF ReviewInv, Seen
<1>7. ASSUME WriteReview(k) \/ WriteCancel(k) PROVE ReviewInv'
  <2> DEFINE u == flight[k].user
             s == IF flight[k].op = "review" THEN flight[k].verdict ELSE "none"
  <2>1. /\ flight[k].op \in {"review", "cancel"} /\ flight'[k].op = "idle"
        /\ kyc' = [kyc EXCEPT ![u] = s] /\ UNCHANGED <<face, reviewed, swapped, clockedIn>>
    BY <1>i, <1>7 DEF WriteReview, WriteCancel
  <2>2. u \in Users
    BY <1>0, <2>1, StaffFields
  <2>3. s = "approved" => Seen(u, face[u])
    BY <2>1 DEF ReviewInv
  <2> HIDE DEF u, s
  <2>4. kyc'[u] = s /\ \A v \in Users \ {u} : kyc'[v] = kyc[v]
    BY <1>0, <2>1, <2>2
  <2>5. \A v \in Users : kyc'[v] = "approved" => Seen(v, face[v])
    BY <2>3, <2>4 DEF ReviewInv
  <2> QED BY <1>0, <2>1, <2>5 DEF ReviewInv, Seen
<1>8. ASSUME ClockFace(k) PROVE ReviewInv'
  <2>1. /\ flight[k].op = "clock" /\ flight'[k].op = "idle"
        /\ clockedIn' = clockedIn \cup {<<flight[k].user, flight[k].face>>}
        /\ UNCHANGED <<kyc, face, reviewed, swapped>>
    BY <1>i, <1>8 DEF ClockFace
  <2>2. Seen(flight[k].user, flight[k].face)
    BY <2>1 DEF ReviewInv
  <2> QED BY <1>0, <2>1, <2>2 DEF ReviewInv, Seen
<1> QED BY <1>1, <1>2, <1>3, <1>4, <1>5, <1>6, <1>7, <1>8 DEF Facing

LEMMA ReviewStep ==
  ASSUME StaffTypes, ReviewInv, [StaffNext]_staffVars PROVE ReviewInv'
<1>1. ASSUME NEW k \in Slots, Contracting(k) PROVE ReviewInv'
  <2>1. UNCHANGED faces
    BY <1>1, ContractTypesStep
  <2>2. /\ \A j \in Slots \ {k} : flight'[j] = flight[j]
        /\ flight'[k].op \notin {"review", "clock"}
    BY <1>1, ContractMoves
  <2> QED BY <2>1, <2>2, ReviewKept
<1>2. ASSUME NEW k \in Slots, Facing(k) PROVE ReviewInv'
  BY <1>2, FacesReviewed
<1>3. ASSUME Reminding PROVE ReviewInv'
  BY <1>3, ReminderTypesStep, ReviewKept
<1>4. ASSUME Updating PROVE ReviewInv'
  BY <1>4, ReviewKept DEF Updating, UpdateUser
<1>5. ASSUME UNCHANGED staffVars PROVE ReviewInv'
  <2>1. UNCHANGED faces /\ UNCHANGED flight
    BY <1>5 DEF staffVars, faces
  <2> QED BY <2>1, ReviewKept
<1> QED BY <1>1, <1>2, <1>3, <1>4, <1>5, StaffSteps

\* A face clocks its user in only after an administrator has reviewed that face, unless
\* another was registered while a review was under way (reviewKyc of users.service.ts,
\* faceCheckin of attendance_logs.service.ts).
THEOREM OnlyReviewedFacesClockCorrect == StaffSpec => []OnlyReviewedFacesClock
<1>1. StaffTypes /\ ReviewInv => OnlyReviewedFacesClock
  <2> SUFFICES ASSUME StaffTypes, ReviewInv, NEW t \in clockedIn
               PROVE  t \in reviewed \/ t[1] \in swapped
    BY DEF OnlyReviewedFacesClock
  <2>1. t = <<t[1], t[2]>>
    BY DEF StaffTypes, FaceTypes
  <2> QED BY <2>1 DEF ReviewInv, Seen
<1>2. StaffTypes /\ ReviewInv /\ [StaffNext]_staffVars => StaffTypes' /\ ReviewInv'
  BY StaffTypesStep, ReviewStep
<1> QED BY <1>1, <1>2, StaffTypesInit, ReviewInit, PTL DEF StaffSpec
================================================================================
