---------------------------- MODULE EmployeeRequests ----------------------------
(***************************************************************************)
(* One employee request (leave, overtime, forgotten clock, ...) and the    *)
(* three places it is copied to: a row of the company's Google Sheet,      *)
(* events in its Google Calendar, one per working day, and, for a          *)
(* forgotten clock, the attendance log.                                    *)
(*                                                                         *)
(* create, update and approve are sequences of database statements and     *)
(* calls to Google, without a transaction or a lock; other calls may run   *)
(* between any two of them.  A call to Google that fails is logged and     *)
(* skipped.  A call that dies of a failing statement, or with the server,  *)
(* is here one that takes no further step.                                 *)
(***************************************************************************)
EXTENDS Naturals

CONSTANTS
    Decisions,   \* the calls of approve, each by an approver of its own
    Edits,       \* the calls of update
    OwnerEdits,  \* those of them by the owner of the request
    Created,     \* the data (times, reason, ...) the request is created with
    Cells,       \* the columns of the sheet that show the data
    Days,        \* the working days of the request
    MaxCalls     \* bound: calls of approve and update that are made

ASSUME CallBound == MaxCalls \in Nat

VARIABLES
    type, status, approver, data, indexed, stored,  \* the row of the request
    cells, shownStatus, shownApprover,              \* its row in the sheet
    calendar,   \* the days with an event in the calendar
    clocked,    \* what data the attendance log has been corrected by
    create,     \* the call of create
    decision,   \* the calls of approve
    edit,       \* the calls of update
    calls

request == <<type, status, approver, data, indexed, stored>>
sheet == <<cells, shownStatus, shownApprover>>
vars == <<request, sheet, calendar, clocked, create, decision, edit, calls>>

-----------------------------------------------------------------------------
Nobody == "nobody"
Outcomes == {"approved", "rejected"}
Statuses == {"none", "pending"} \cup Outcomes
Data == Edits \cup {Created}
ApprovalColumns == {"status", "approver"}

\* indexed: the row index of the sheet is stored (sheet_row_index);
\* stored: the days whose events are (calendar_event_id).
RequestOK ==
    /\ type \in {"clock_forget", "other"}
    /\ status \in Statuses
    /\ approver \in Decisions \cup {Nobody}
    /\ data \in Data
    /\ indexed \in BOOLEAN
    /\ stored \subseteq Days

\* While shownStatus is "none" the sheet has no row of the request.
SheetOK ==
    /\ cells \in [Cells -> Data]
    /\ shownStatus \in Statuses
    /\ shownApprover \in Decisions \cup {Nobody}

\* status and data: as loaded for the sheet; left: days without an event yet;
\* ids: the events that were created; failed: an event may have been lost.
Creation == [step : {"none", "saved", "append", "index", "events", "over"},
             status : Statuses, data : Data, left : SUBSET Days,
             ids : SUBSET Days, failed : BOOLEAN]

\* indexed, events and data: of the request as it was found; todo: columns of
\* the sheet to write; left: events to delete; failed: an effect may be missing.
Decision == [step : {"idle", "write", "effects", "clock", "over"},
             status : Outcomes, indexed : BOOLEAN, events : SUBSET Days,
             data : Data, todo : SUBSET ApprovalColumns, left : SUBSET Days,
             failed : BOOLEAN]
NoDecision == [step |-> "idle", status |-> "rejected", indexed |-> FALSE,
               events |-> {}, data |-> Created, todo |-> {}, left |-> {},
               failed |-> FALSE]

\* indexed and data: of the request as it was read after the update.
Edit == [step : {"idle", "write", "reread", "sheet"},
         indexed : BOOLEAN, data : Data, todo : SUBSET Cells, failed : BOOLEAN]
EditAt(step) == [step |-> step, indexed |-> FALSE, data |-> Created, todo |-> {},
                 failed |-> FALSE]

\* Type invariant.
TypeOK ==
    /\ RequestOK
    /\ SheetOK
    /\ calendar \subseteq Days
    /\ clocked \subseteq Data
    /\ create \in Creation
    /\ decision \in [Decisions -> Decision]
    /\ edit \in [Edits -> Edit]
    /\ calls \in 0..MaxCalls

Init ==
    /\ type \in {"clock_forget", "other"}
    /\ status = "none" /\ approver = Nobody /\ data = Created
    /\ indexed = FALSE /\ stored = {}
    /\ cells = [c \in Cells |-> Created]
    /\ shownStatus = "none" /\ shownApprover = Nobody
    /\ calendar = {}
    /\ clocked = {}
    /\ create = [step |-> "none", status |-> "none", data |-> Created,
                 left |-> {}, ids |-> {}, failed |-> FALSE]
    /\ decision = [d \in Decisions |-> NoDecision]
    /\ edit = [e \in Edits |-> EditAt("idle")]
    /\ calls = 0

Call == calls < MaxCalls /\ calls' = calls + 1

-----------------------------------------------------------------------------
\* create saves the request; from now on others find it ...
Save ==
    /\ create.step = "none"
    /\ status' = "pending"
    /\ create' = [create EXCEPT !.step = "saved"]
    /\ UNCHANGED <<type, approver, data, indexed, stored, sheet, calendar, clocked,
                   decision, edit, calls>>

\* ... loads it again and announces it in Slack ...
Load ==
    /\ create.step = "saved"
    /\ create' = [create EXCEPT !.step = "append", !.status = status, !.data = data]
    /\ UNCHANGED <<request, sheet, calendar, clocked, decision, edit, calls>>

\* ... and appends it to the sheet, the approver left blank.
AppendRow ==
    /\ create.step = "append"
    /\ cells' = [c \in Cells |-> create.data]
    /\ shownStatus' = create.status /\ shownApprover' = Nobody
    /\ create' = [create EXCEPT !.step = "index"]
    /\ UNCHANGED <<request, calendar, clocked, decision, edit, calls>>

\* No sheet is configured, or Google fails; or (after AppendRow) the index is lost.
SheetFails ==
    /\ create.step \in {"append", "index"}
    /\ create' = [create EXCEPT !.step = "events", !.left = Days]
    /\ UNCHANGED <<request, sheet, calendar, clocked, decision, edit, calls>>

StoreIndex ==
    /\ create.step = "index"
    /\ indexed' = TRUE
    /\ create' = [create EXCEPT !.step = "events", !.left = Days]
    /\ UNCHANGED <<type, status, approver, data, stored, sheet, calendar, clocked,
                   decision, edit, calls>>

\* createEvents goes through the days one by one ...
CreateEvent(day) ==
    /\ create.step = "events"
    /\ day \in create.left
    /\ calendar' = calendar \cup {day}
    /\ create' = [create EXCEPT !.left = create.left \ {day},
                                !.ids = create.ids \cup {day}]
    /\ UNCHANGED <<request, sheet, clocked, decision, edit, calls>>

\* ... leaving out those that fail, be it after Google has created the event.
EventFails(day) ==
    /\ create.step = "events"
    /\ day \in create.left
    /\ calendar' \in {calendar, calendar \cup {day}}
    /\ create' = [create EXCEPT !.left = create.left \ {day}, !.failed = TRUE]
    /\ UNCHANGED <<request, sheet, clocked, decision, edit, calls>>

\* Mutant of EventsToStore: the id of one event only.
OneId(c) == IF c.ids = {} THEN {} ELSE {CHOOSE day \in c.ids : TRUE}
EventsToStore(c) == c.ids
StoreEvents ==
    /\ create.step = "events"
    /\ create.left = {}
    /\ stored' = EventsToStore(create)
    /\ create' = [create EXCEPT !.step = "over", !.ids = {}]
    /\ UNCHANGED <<type, status, approver, data, indexed, sheet, calendar, clocked,
                   decision, edit, calls>>

-----------------------------------------------------------------------------
\* approve finds the request pending ...
Find(d, outcome) ==
    /\ Call
    /\ decision[d].step = "idle"
    /\ status = "pending"
    /\ decision' = [decision EXCEPT ![d] =
          [step |-> "write", status |-> outcome, indexed |-> indexed,
           events |-> stored, data |-> data, todo |-> {}, left |-> {},
           failed |-> FALSE]]
    /\ UNCHANGED <<request, sheet, calendar, clocked, create, edit>>

\* The call of approve goes on, with what it found and the given rest of work.
GoTo(d, step, todo, left, failed) ==
    LET c == decision[d]
    IN  decision' = [decision EXCEPT ![d] =
            [step |-> step, status |-> c.status, indexed |-> c.indexed,
             events |-> c.events, data |-> c.data,
             todo |-> todo, left |-> left, failed |-> failed]]

\* Mutant of ColumnsToWrite: the approver is forgotten.
StatusOnly(c) == IF c.indexed THEN {"status"} ELSE {}
ColumnsToWrite(c) == IF c.indexed THEN ApprovalColumns ELSE {}
\* Mutant of EventsToDelete: only one of the events.
OneEvent(c) == IF c.status = "rejected" /\ c.events # {}
               THEN {CHOOSE day \in c.events : TRUE} ELSE {}
EventsToDelete(c) == IF c.status = "rejected" THEN c.events ELSE {}

\* ... and writes the outcome, without looking again ...
Decide(d) ==
    /\ decision[d].step = "write"
    /\ status' = decision[d].status
    /\ approver' = d
    /\ GoTo(d, "effects", ColumnsToWrite(decision[d]), EventsToDelete(decision[d]),
            FALSE)
    /\ UNCHANGED <<type, data, indexed, stored, sheet, calendar, clocked, create,
                   edit, calls>>

\* (A column or an event is done; failed: perhaps only in appearance.)
Column(d, column, failed) ==
    /\ decision[d].step = "effects"
    /\ column \in decision[d].todo
    /\ GoTo(d, "effects", decision[d].todo \ {column}, decision[d].left, failed)
Event(d, day, failed) ==
    /\ decision[d].step = "effects"
    /\ decision[d].todo = {}
    /\ day \in decision[d].left
    /\ GoTo(d, "effects", {}, decision[d].left \ {day}, failed)

\* ... then shows it in the sheet, column by column, if the request was found
\* with the index of its row ...
ShowStatus(d) ==
    /\ Column(d, "status", decision[d].failed)
    /\ shownStatus' = decision[d].status
    /\ UNCHANGED <<request, cells, shownApprover, calendar, clocked, create, edit,
                   calls>>

ShowApprover(d) ==
    /\ Column(d, "approver", decision[d].failed)
    /\ shownApprover' = d
    /\ UNCHANGED <<request, cells, shownStatus, calendar, clocked, create, edit,
                   calls>>

ColumnFails(d) ==
    /\ \E column \in ApprovalColumns : Column(d, column, TRUE)
    /\ UNCHANGED <<request, sheet, calendar, clocked, create, edit, calls>>

\* ... deletes, if it is a rejection, the events that were found ...
DeleteEvent(d, day) ==
    /\ Event(d, day, decision[d].failed)
    /\ calendar' = calendar \ {day}
    /\ UNCHANGED <<request, sheet, clocked, create, edit, calls>>

DeleteFails(d, day) ==
    /\ Event(d, day, TRUE)
    /\ UNCHANGED <<request, sheet, calendar, clocked, create, edit, calls>>

\* ... loads the request for the answer ...
Reload(d) ==
    /\ decision[d].step = "effects"
    /\ decision[d].todo = {} /\ decision[d].left = {}
    /\ GoTo(d, "clock", {}, {}, decision[d].failed)
    /\ UNCHANGED <<request, sheet, calendar, clocked, create, edit, calls>>

\* ... and corrects the attendance log by the request as it was found.
\* Mutant of Corrects: whatever the outcome.
CorrectsAlways(c) == type = "clock_forget"
Corrects(c) == c.status = "approved" /\ type = "clock_forget"
Clock(d) ==
    /\ decision[d].step = "clock"
    /\ clocked' = IF Corrects(decision[d]) THEN clocked \cup {decision[d].data}
                                           ELSE clocked
    /\ GoTo(d, "over", {}, {}, decision[d].failed)
    /\ UNCHANGED <<request, sheet, calendar, create, edit, calls>>

-----------------------------------------------------------------------------
\* update lets the owner edit a pending request, and the privileged any ...
FindEdit(e) ==
    /\ Call
    /\ edit[e].step = "idle"
    /\ status # "none"
    /\ e \in OwnerEdits => status = "pending"
    /\ edit' = [edit EXCEPT ![e] = EditAt("write")]
    /\ UNCHANGED <<request, sheet, calendar, clocked, create, decision>>

WriteEdit(e) ==
    /\ edit[e].step = "write"
    /\ data' = e
    /\ edit' = [edit EXCEPT ![e] = EditAt("reread")]
    /\ UNCHANGED <<type, status, approver, indexed, stored, sheet, calendar, clocked,
                   create, decision, calls>>

\* ... reads the request again, as others may have left it meanwhile ...
Reread(e) ==
    /\ edit[e].step = "reread"
    /\ edit' = [edit EXCEPT ![e] =
          [step |-> "sheet", indexed |-> indexed, data |-> data,
           todo |-> IF indexed THEN Cells ELSE {}, failed |-> FALSE]]
    /\ UNCHANGED <<request, sheet, calendar, clocked, create, decision, calls>>

\* ... and copies the data to the sheet, column by column.
\* Mutant of Shown: the data as it was before the edit.
ShownBefore(c) == Created
Shown(c) == c.data
Copied(e, cell, failed) ==
    /\ edit[e].step = "sheet"
    /\ cell \in edit[e].todo
    /\ edit' = [edit EXCEPT ![e] =
          [step |-> "sheet", indexed |-> edit[e].indexed, data |-> edit[e].data,
           todo |-> edit[e].todo \ {cell}, failed |-> failed]]

ShowCell(e, cell) ==
    /\ cells' = [cells EXCEPT ![cell] = Shown(edit[e])]
    /\ Copied(e, cell, edit[e].failed)
    /\ UNCHANGED <<request, shownStatus, shownApprover, calendar, clocked, create,
                   decision, calls>>

CellFails(e, cell) ==
    /\ Copied(e, cell, TRUE)
    /\ UNCHANGED <<request, sheet, calendar, clocked, create, decision, calls>>

-----------------------------------------------------------------------------
CreateStep ==
    \/ Save \/ Load \/ AppendRow \/ SheetFails \/ StoreIndex
    \/ \E day \in Days : CreateEvent(day) \/ EventFails(day)
    \/ StoreEvents

DecisionStep(d) ==
    \/ \E outcome \in Outcomes : Find(d, outcome)
    \/ Decide(d) \/ ShowStatus(d) \/ ShowApprover(d) \/ ColumnFails(d)
    \/ \E day \in Days : DeleteEvent(d, day) \/ DeleteFails(d, day)
    \/ Reload(d) \/ Clock(d)

EditStep(e) ==
    \/ FindEdit(e) \/ WriteEdit(e) \/ Reread(e)
    \/ \E cell \in Cells : ShowCell(e, cell) \/ CellFails(e, cell)

Next ==
    \/ CreateStep
    \/ \E d \in Decisions : DecisionStep(d)
    \/ \E e \in Edits : EditStep(e)

Spec == Init /\ [][Next]_vars

-----------------------------------------------------------------------------
\* The call has written its outcome, or its edit, to the request.
Decided(d) == decision[d].step \in {"effects", "clock", "over"}
Edited(e) == edit[e].step \in {"reread", "sheet"}

\* The call has come to its end and nothing it attempted has failed.
DecisionDone(d) == decision[d].step = "over" /\ ~decision[d].failed
EditDone(e) == edit[e].step = "sheet" /\ edit[e].todo = {} /\ ~edit[e].failed

\* A decision that found the index of the row leaves its outcome and approver in
\* the sheet, unless another approver decided too (employee_requests.service.ts:437),
\* although the creation and edits of the request write the same row of the sheet.
SheetShowsDecision ==
    \A d \in Decisions :
        /\ DecisionDone(d) /\ decision[d].indexed
        /\ \A o \in Decisions \ {d} : ~Decided(o)
        => shownStatus = status /\ shownApprover = approver

\* An edit that found the index leaves its data in every column, unless somebody
\* else edited too (employee_requests.service.ts:378), also when the request is
\* being created or decided meanwhile.
SheetShowsEdit ==
    \A e \in Edits :
        /\ EditDone(e) /\ edit[e].indexed
        /\ \A o \in Edits \ {e} : ~Edited(o)
        => \A c \in Cells : cells[c] = data

\* Unless something failed while the request was created, every event in the
\* calendar can be found again, by the request or by the call that creates it.
EventsAreStored ==
    ~create.failed => calendar \subseteq stored \cup create.ids

\* A rejection that found the events stored leaves none of them in the calendar
\* (employee_requests.service.ts:454), whatever other calls do meanwhile.
RejectionRemovesEvents ==
    \A d \in Decisions :
        /\ DecisionDone(d) /\ decision[d].status = "rejected"
        /\ decision[d].events # {} /\ ~create.failed
        => calendar = {}

\* No stored event disappears from the calendar but by a rejection.
OnlyRejectionsDelete ==
    (\A d \in Decisions : Decided(d) => decision[d].status = "approved")
        => stored \subseteq calendar

\* The sheet shows what was decided and what was edited, each in the columns of its
\* own, although the creation, decisions and edits write the same row of it.
SheetShowsChanges == SheetShowsDecision /\ SheetShowsEdit

\* The events of a request are never lost from sight while it lives, stay until a
\* rejection, and do not survive a rejection that found them.
EventsFollowDecisions ==
    EventsAreStored /\ RejectionRemovesEvents /\ OnlyRejectionsDelete

\* The attendance log is corrected by approvals only, by data the request had
\* when it was found pending, and by every approval that did not fail
\* (employee_requests.service.ts:464).
ClockFollowsDecision ==
    /\ \A v \in clocked : \E d \in Decisions :
          Decided(d) /\ decision[d].status = "approved" /\ decision[d].data = v
    /\ \A d \in Decisions :
          DecisionDone(d) /\ decision[d].status = "approved" /\ type = "clock_forget"
              => decision[d].data \in clocked

\* "If rejected, remove the calendar event(s) that were created on submission"
\* (employee_requests.service.ts:454): with every call at its end and none
\* failed, a rejected request has no event.
RejectedLeavesNoEvent ==
    /\ create.step = "over" /\ ~create.failed
    /\ \A d \in Decisions : decision[d].step # "idle" => DecisionDone(d)
    /\ status = "rejected"
    => calendar = {}
=============================================================================
