---------------------------- MODULE StaffRecords ----------------------------
(***************************************************************************)
(* What the users table says of an employee besides the login: the copy of *)
(* the latest contract, the day of the last expiry reminder, and the face  *)
(* registered for clocking in, with its review (users.service.ts,          *)
(* user_contracts.service.ts, contract_expiry_reminder.service.ts,         *)
(* face.service.ts and faceCheckin of attendance_logs.service.ts).         *)
(* Every operation reads with one statement and writes with later ones; no *)
(* transaction spans two.                                                  *)
(***************************************************************************)
EXTENDS Naturals, FiniteSets, FiniteSetsExt, Functions, Folds

CONSTANTS
  Users,         \* employees
  Companies,
  CompaniesOf,   \* the companies each employee has a department in
  Managers,      \* the recipients of each company's reminders
  LastDay,       \* bound: days are 1..LastDay
  Expiries,      \* days on which contracts may end, Never among them
  Never,         \* the end of an indefinite contract
  Window,        \* contract_expiry_reminder_days
  MaxContracts,  \* bound on the contracts ever stored
  Faces,         \* faces a client may register or show
  Distance,      \* distance between two faces
  Threshold,     \* FACE_MATCH_THRESHOLD, FACE_VERIFY_THRESHOLD
  Margin,        \* AMBIGUITY_MARGIN
  Slots,         \* requests that may overlap
  MaxRequests    \* bound on the requests

Nothing == 0
Ids == 1..MaxContracts
Idle == [op |-> "idle"]
NoContract == [user |-> "none"]
NoFace == "none"

ASSUME StaffAssumption ==
  /\ NoContract.user \notin Users /\ NoFace \notin Faces
  /\ CompaniesOf \in [Users -> SUBSET Companies]
  /\ Managers \in [Companies -> SUBSET Users]
  /\ {LastDay, Window, MaxContracts, MaxRequests, Never} \subseteq Nat /\ LastDay # 0
  /\ Never > LastDay + Window /\ Never \in Expiries /\ Expiries \subseteq Nat \ {0}
  /\ Distance \in [Faces \X Faces -> Nat]
  /\ {Threshold, Margin} \subseteq Nat /\ Margin < Threshold

VARIABLES
  active,      \* users.is_activated
  away,        \* history: users who were once inactive
  made,        \* number of contracts stored so far
  contract,    \* rows of user_contracts, NoContract when removed
  mirror,      \* users.contract_count and contract_expired_date (Nothing: null)
  lastSent,    \* users.contract_reminder_last_sent_at (Nothing: null)
  kyc,         \* users.kyc_status
  face,        \* users.face_descriptor
  today,       \* the present day
  sweep,       \* the reminder run under way
  flight,      \* requests suspended at an await
  told,        \* rows of notifications, by recipient, company, employee and day
  torn,        \* history: users whose contracts changed with no or a stale copy made
  broken,      \* history: users whose reminders broke off, with the day
  reviewed,    \* history: <<user, face>> an administrator's review has read as pending
  swapped,     \* history: users whose face was replaced while a review was under way
  clockedIn,     \* history: <<user, face>> that clocked in
  requests     \* number of requests, for the bound

contracts == <<made, contract, mirror, torn>>
reminders == <<today, lastSent, sweep, told, broken>>
faces == <<kyc, face, reviewed, swapped, clockedIn>>
staffVars == <<active, away, made, contract, mirror, lastSent, kyc, face, today, sweep, flight, told,
               torn, broken, reviewed, swapped, clockedIn, requests>>

\* A row of user_contracts.
Contract == [user: Users, number: Ids, expires: Expiries]
Mirror == [count: 0..MaxContracts, expires: Expiries \cup {Nothing}]
ContractsOf(u) == {id \in Ids : contract[id].user = u}

\* The contracts with the highest number; more than one if two were numbered alike.
Latest(u) ==
  {i \in ContractsOf(u) : \A j \in ContractsOf(u) : contract[j].number <= contract[i].number}

StaffInit ==
  /\ active = [u \in Users |-> TRUE] /\ away = {}
  /\ made = 0
  /\ contract = [id \in Ids |-> NoContract]
  /\ mirror = [u \in Users |-> [count |-> 0, expires |-> Nothing]]
  /\ lastSent = [u \in Users |-> Nothing]
  /\ kyc = [u \in Users |-> "none"]
  /\ face = [u \in Users |-> NoFace]
  /\ today = 1
  /\ sweep = Idle
  /\ flight = [k \in Slots |-> Idle]
  /\ told = [t \in (UNION Range(Managers)) \X Companies \X Users \X (1..LastDay) |-> 0]
  /\ torn = {} /\ broken = {}
  /\ reviewed = {} /\ swapped = {} /\ clockedIn = {}
  /\ requests = 0

Ask == requests < MaxRequests /\ requests' = requests + 1
Start(k, f) == Ask /\ flight[k] = Idle /\ flight' = [flight EXCEPT ![k] = f]
Go(k, f) == flight' = [flight EXCEPT ![k] = f] /\ UNCHANGED requests
Finish(k) == Go(k, Idle)

----------------------------------------------------------------------------
(* Contracts.                                                              *)

\* Other requests are at the contracts of the user.
Busy(k, u) ==
  \E i \in Slots \ {k} :
    flight[i].op \in {"number", "edit", "drop", "count", "latest", "copy"} /\ flight[i].user = u

\* create, up to the row: the next number is the highest one plus one.
CreateContract(k, u, e) ==
  /\ Start(k, [op |-> "number", user |-> u, expires |-> e,
               number |-> IF Latest(u) = {} THEN 1
                          ELSE contract[CHOOSE i \in Latest(u) : TRUE].number + 1])
  /\ torn' = IF Busy(k, u) THEN torn \cup {u} ELSE torn
  /\ UNCHANGED <<active, away, made, contract, mirror, reminders, faces>>

SaveContract(k) ==
  LET f == flight[k] IN
  /\ f.op = "number"
  /\ made < MaxContracts
  /\ made' = made + 1
  /\ contract' = [contract EXCEPT ![made + 1] =
       [user |-> f.user, number |-> f.number, expires |-> f.expires]]
  /\ Go(k, [op |-> "count", user |-> f.user])
  /\ UNCHANGED <<active, away, mirror, torn, reminders, faces>>

\* update, up to the row.
UpdateContract(k, id, e) ==
  LET u == contract[id].user IN
  /\ contract[id] # NoContract
  /\ Start(k, [op |-> "edit", user |-> u, id |-> id, expires |-> e])
  /\ torn' = IF Busy(k, u) THEN torn \cup {u} ELSE torn
  /\ UNCHANGED <<active, away, made, contract, mirror, reminders, faces>>

WriteContract(k) ==
  LET f == flight[k] IN
  /\ f.op = "edit"
  /\ contract' = IF contract[f.id] = NoContract THEN contract
                 ELSE [contract EXCEPT ![f.id].expires = f.expires]
  /\ Go(k, [op |-> "count", user |-> f.user])
  /\ UNCHANGED <<active, away, made, mirror, torn, reminders, faces>>

\* remove, up to the row.
RemoveContract(k, id) ==
  LET u == contract[id].user IN
  /\ contract[id] # NoContract
  /\ Start(k, [op |-> "drop", user |-> u, id |-> id])
  /\ torn' = IF Busy(k, u) THEN torn \cup {u} ELSE torn
  /\ UNCHANGED <<active, away, made, contract, mirror, reminders, faces>>

DropContract(k) ==
  LET f == flight[k] IN
  /\ f.op = "drop"
  /\ contract' = [contract EXCEPT ![f.id] = NoContract]
  /\ Go(k, [op |-> "count", user |-> f.user])
  /\ UNCHANGED <<active, away, made, mirror, torn, reminders, faces>>

\* syncUserContractFields counts the contracts, ...
CountContracts(k) ==
  LET f == flight[k] IN
  /\ f.op = "count"
  /\ Go(k, [op |-> "latest", user |-> f.user, count |-> Cardinality(ContractsOf(f.user))])
  /\ UNCHANGED <<active, away, contracts, reminders, faces>>

\* Mutant of CopyOf: the contract that ends last counts.
CopyOfLongest(u, n) ==
  LET s == ContractsOf(u) IN
  IF s = {} THEN {[count |-> n, expires |-> Nothing]}
  ELSE {[count |-> n, expires |-> Max({contract[i].expires : i \in s})]}

\* What the user's row is to say, given the count.
CopyOf(u, n) ==
  IF Latest(u) = {} THEN {[count |-> n, expires |-> Nothing]}
  ELSE {[count |-> n, expires |-> contract[i].expires] : i \in Latest(u)}

\* ... finds the latest one, ...
FindLatest(k) ==
  LET f == flight[k] IN
  /\ f.op = "latest"
  /\ \E c \in CopyOf(f.user, f.count) : Go(k, [op |-> "copy", user |-> f.user, mirror |-> c])
  /\ UNCHANGED <<active, away, contracts, reminders, faces>>

\* ... and copies it to the user.
CopyLatest(k) ==
  LET f == flight[k] IN
  /\ f.op = "copy"
  /\ mirror' = [mirror EXCEPT ![f.user] = f.mirror]
  /\ Finish(k)
  /\ UNCHANGED <<active, away, made, contract, torn, reminders, faces>>

\* A statement after the contract was written fails.
SyncFails(k) ==
  /\ flight[k].op \in {"count", "latest", "copy"}
  /\ torn' = torn \cup {flight[k].user}
  /\ Finish(k)
  /\ UNCHANGED <<active, away, made, contract, mirror, reminders, faces>>

\* PUT /users/:id: the form may set the account active or not, and the copied fields.
UpdateUser(u, isActive, m) ==
  /\ Ask
  /\ active' = [active EXCEPT ![u] = isActive]
  /\ away' = IF isActive THEN away ELSE away \cup {u}
  /\ mirror' = [mirror EXCEPT ![u] = m]
  /\ torn' = IF m # mirror[u] THEN torn \cup {u} ELSE torn
  /\ UNCHANGED <<made, contract, flight, reminders, faces>>

----------------------------------------------------------------------------
(* Expiry reminders: at eight every day, or when an administrator asks.    *)

\* Mutant of Expiring: who has been reminded of today is not left out.
ExpiringAgain ==
  {u \in Users : active[u] /\ \E i \in Latest(u) :
     contract[i].expires # Never /\ contract[i].expires \in today..(today + Window)}

\* checkExpiringContracts: active users whose latest contract ends within the window, and
\* whose managers have not heard of it today.
Expiring ==
  {u \in Users :
     /\ active[u]
     /\ lastSent[u] < today
     /\ \E i \in Latest(u) :
          contract[i].expires # Never /\ contract[i].expires \in today..(today + Window)}

\* handleContractExpiryReminders: nothing while a run is under way.
Sweep ==
  /\ sweep = Idle
  /\ Ask
  /\ sweep' = [op |-> "next", today |-> today, left |-> Expiring]
  /\ UNCHANGED <<active, away, contracts, today, lastSent, told, broken, faces, flight>>

\* notifyForEmployee: an employee without a department is passed over.
SweepPass(u) ==
  /\ sweep.op = "next" /\ u \in sweep.left
  /\ sweep' =
       IF CompaniesOf[u] = {} THEN [sweep EXCEPT !.left = @ \ {u}]
       ELSE [op |-> "notify", today |-> sweep.today, left |-> sweep.left \ {u}, user |-> u,
             companies |-> CompaniesOf[u], due |-> {}]
  /\ UNCHANGED <<active, away, contracts, today, lastSent, told, broken, faces, flight, requests>>

\* The active managers of one company after the other ...
Recipients(c) ==
  /\ sweep.op = "notify" /\ sweep.due = {} /\ c \in sweep.companies
  /\ sweep' = [sweep EXCEPT !.companies = @ \ {c}, !.due = {r \in Managers[c] : active[r]} \X {c}]
  /\ UNCHANGED <<active, away, contracts, today, lastSent, told, broken, faces, flight, requests>>

\* ... get a mail, a notification and an event each.
Notify(r, c) ==
  /\ sweep.op = "notify" /\ <<r, c>> \in sweep.due
  /\ told' = [told EXCEPT ![<<r, c, sweep.user, sweep.today>>] = @ + 1]
  /\ sweep' = [sweep EXCEPT !.due = @ \ {<<r, c>>}]
  /\ UNCHANGED <<active, away, contracts, today, lastSent, broken, faces, flight, requests>>

\* All have been told: the employee is marked.
MarkSent ==
  /\ sweep.op = "notify" /\ sweep.companies = {} /\ sweep.due = {}
  /\ lastSent' = [lastSent EXCEPT ![sweep.user] = sweep.today]
  /\ sweep' = [op |-> "next", today |-> sweep.today, left |-> sweep.left]
  /\ UNCHANGED <<active, away, contracts, today, told, broken, faces, flight, requests>>

\* A notification cannot be stored or the mark not be set: the next employee's turn.
NotifyFails ==
  /\ sweep.op = "notify"
  /\ broken' = broken \cup {<<sweep.user, sweep.today>>}
  /\ sweep' = [op |-> "next", today |-> sweep.today, left |-> sweep.left]
  /\ UNCHANGED <<active, away, contracts, today, lastSent, told, faces, flight, requests>>

SweepEnds ==
  /\ sweep.op = "next" /\ sweep.left = {}
  /\ sweep' = Idle
  /\ UNCHANGED <<active, away, contracts, today, lastSent, told, broken, faces, flight, requests>>

NextDay ==
  /\ today < LastDay
  /\ today' = today + 1
  /\ UNCHANGED <<active, away, contracts, lastSent, sweep, told, broken, faces, flight, requests>>

----------------------------------------------------------------------------
(* Faces.                                                                  *)

\* registerFace, up to the upload of the picture: not once the face is approved.
RegisterFace(k, u, f) ==
  /\ kyc[u] # "approved"
  /\ Start(k, [op |-> "register", user |-> u, face |-> f])
  /\ UNCHANGED <<active, away, contracts, reminders, faces>>

\* Some review has read the status of the user and not written it.
UnderReview(u) == \E i \in Slots : flight[i].op = "review" /\ flight[i].user = u

\* Mutant of Registered: only a first registration has to be reviewed.
RegisteredAsIs(u) == IF kyc[u] = "none" THEN "pending" ELSE kyc[u]

Registered(u) == "pending"

\* The face is stored, and has to be reviewed.
StoreFace(k) ==
  LET f == flight[k] IN
  /\ f.op = "register"
  /\ face' = [face EXCEPT ![f.user] = f.face]
  /\ kyc' = [kyc EXCEPT ![f.user] = Registered(f.user)]
  /\ swapped' = IF UnderReview(f.user) THEN swapped \cup {f.user} ELSE swapped
  /\ Finish(k)
  /\ UNCHANGED <<active, away, contracts, reminders, reviewed, clockedIn>>

\* reviewKyc, up to the write: of a pending face.
ReviewKyc(k, u, verdict) ==
  /\ face[u] # NoFace /\ kyc[u] = "pending"
  /\ Start(k, [op |-> "review", user |-> u, verdict |-> verdict])
  /\ reviewed' = reviewed \cup {<<u, face[u]>>}
  /\ UNCHANGED <<active, away, contracts, reminders, kyc, face, swapped, clockedIn>>

WriteReview(k) ==
  LET f == flight[k] IN
  /\ f.op = "review"
  /\ kyc' = [kyc EXCEPT ![f.user] = f.verdict]
  /\ Finish(k)
  /\ UNCHANGED <<active, away, contracts, reminders, face, reviewed, swapped, clockedIn>>

\* cancelKyc, up to the write; the face stays.
CancelKyc(k, u) ==
  /\ kyc[u] # "none"
  /\ Start(k, [op |-> "cancel", user |-> u])
  /\ UNCHANGED <<active, away, contracts, reminders, faces>>

WriteCancel(k) ==
  LET f == flight[k] IN
  /\ f.op = "cancel"
  /\ kyc' = [kyc EXCEPT ![f.user] = "none"]
  /\ Finish(k)
  /\ UNCHANGED <<active, away, contracts, reminders, face, reviewed, swapped, clockedIn>>

Approved(u) == active[u] /\ kyc[u] = "approved" /\ face[u] # NoFace

\* verifyFace: the face of a known user.
VerifyFace(u, f) == Approved(u) /\ Distance[f, face[u]] <= Threshold

\* The second best distance after a candidate at distance d.
SecondBest(m, d) == IF d < m.best THEN m.best ELSE IF d < m.second THEN d ELSE m.second

\* matchFace, one candidate at distance d: best and second best so far.  An infinite distance
\* is one that no face has.
Infinity == Threshold + Margin + 1000
NoMatch == [user |-> NoFace, best |-> Threshold, second |-> Infinity]
Scan(m, u, d) ==
  [user |-> IF d < m.best THEN u ELSE m.user,
   best |-> IF d < m.best THEN d ELSE m.best,
   second |-> SecondBest(m, d)]

\* The candidates are read in some order, and the face is taken for the best one.
Picks(f, candidates, u) ==
  LET places == 1..Cardinality(candidates) IN
  \E order \in Bijection(places, candidates) :
    LET m == MapThenFoldSet(LAMBDA v, x : Scan(x, v, Distance[f, face[v]]), NoMatch,
                            LAMBDA i : order[i], Max, places) IN
    m.user = u /\ m.second - m.best >= Margin

\* Whom the kiosk may take the face for.
MatchFace(f) ==
  LET candidates == {u \in Users : Approved(u)} IN {u \in candidates : Picks(f, candidates, u)}

\* faceCheckin, up to the upload of the picture: of a user who is logged in, or of whoever
\* stands at the kiosk.  The controller always names the user, so that requests over HTTP
\* take the first way only.
FaceCheckin(k, u, f) ==
  /\ VerifyFace(u, f) \/ u \in MatchFace(f)
  /\ Start(k, [op |-> "clock", user |-> u, face |-> face[u]])
  /\ UNCHANGED <<active, away, contracts, reminders, faces>>

\* The network is not an allowed one, or the upload fails.
FaceRefused(k) ==
  /\ flight[k].op = "clock"
  /\ Finish(k)
  /\ UNCHANGED <<active, away, contracts, reminders, faces>>

\* The user is clocked in or out.
ClockFace(k) ==
  LET f == flight[k] IN
  /\ f.op = "clock"
  /\ clockedIn' = clockedIn \cup {<<f.user, f.face>>}
  /\ Finish(k)
  /\ UNCHANGED <<active, away, contracts, reminders, kyc, face, reviewed, swapped>>

----------------------------------------------------------------------------
StaffNext ==
  \/ \E k \in Slots :
       \/ \E u \in Users, e \in Expiries : CreateContract(k, u, e)
       \/ \E id \in Ids : RemoveContract(k, id) \/ \E e \in Expiries : UpdateContract(k, id, e)
       \/ SaveContract(k) \/ WriteContract(k) \/ DropContract(k)
       \/ CountContracts(k) \/ FindLatest(k) \/ CopyLatest(k) \/ SyncFails(k)
       \/ \E u \in Users, f \in Faces : RegisterFace(k, u, f) \/ FaceCheckin(k, u, f)
       \/ \E u \in Users : CancelKyc(k, u)
       \/ \E u \in Users, v \in {"approved", "rejected"} : ReviewKyc(k, u, v)
       \/ StoreFace(k) \/ WriteReview(k) \/ WriteCancel(k) \/ FaceRefused(k) \/ ClockFace(k)
  \/ \E u \in Users, a \in BOOLEAN : \E m \in {mirror[u], [count |-> 0, expires |-> Never]} :
       UpdateUser(u, a, m)
  \/ Sweep \/ MarkSent \/ NotifyFails \/ SweepEnds \/ NextDay
  \/ \E u \in Users : SweepPass(u)
  \/ \E c \in Companies : Recipients(c) \/ \E r \in Managers[c] : Notify(r, c)

StaffSpec == StaffInit /\ [][StaffNext]_staffVars

----------------------------------------------------------------------------
(* Properties.                                                             *)

KycStatuses == {"none", "pending", "approved", "rejected"}

\* Types; a status other than none is of a registered face.
StaffTypeOK ==
  /\ active \in [Users -> BOOLEAN]
  /\ made \in 0..MaxContracts
  /\ \A id \in Ids : contract[id] \in Contract \cup {NoContract}
  /\ mirror \in [Users -> Mirror]
  /\ lastSent \in [Users -> 0..LastDay] /\ today \in 1..LastDay
  /\ kyc \in [Users -> KycStatuses] /\ face \in [Users -> Faces \cup {NoFace}]
  /\ \A u \in Users : kyc[u] # "none" => face[u] # NoFace
  /\ sweep.op \in {"idle", "next", "notify"}
  /\ {torn, away, swapped} \subseteq SUBSET Users
  /\ broken \subseteq Users \X (1..LastDay)
  /\ {reviewed, clockedIn} \subseteq SUBSET (Users \X Faces)
  /\ requests \in 0..MaxRequests

\* "Recomputes contract_count on the user and mirrors the latest contract's fields"
\* (user_contracts.service.ts, line 131): between requests on the contracts of a user, the
\* row of the user has their number and the end of the latest one, unless two requests
\* overlapped, one broke off, or the form of the user was saved with other fields.
MirrorIsLatest ==
  \A u \in Users \ torn :
    (\A k \in Slots : flight[k] # Idle => "user" \notin DOMAIN flight[k] \/ flight[k].user # u)
      => LET s == ContractsOf(u) IN
         /\ mirror[u].count = Cardinality(s)
         /\ IF s = {} THEN mirror[u].expires = Nothing
            ELSE \E i \in s : /\ mirror[u].expires = contract[i].expires
                              /\ \A j \in s : contract[j].number <= contract[i].number

\* "Mark reminder as sent today so we don't send again" (contract_expiry_reminder.service.ts,
\* line 211): once an employee is marked, every manager in every company of the employee has
\* been told that day, once for each company, however often runs are asked for; unless a
\* run broke off after it had told some, or the manager was not active.
RemindedOnce ==
  \A u \in Users, d \in 1..LastDay, c \in Companies : \A r \in Managers[c] :
    /\ <<u, d>> \notin broken => told[<<r, c, u, d>>] <= 1
    /\ lastSent[u] = d /\ c \in CompaniesOf[u] /\ r \notin away => told[<<r, c, u, d>>] >= 1

\* "Approved ... face is activated for attendance check-in" (users.service.ts, line 617): a
\* face clocks its user in only after an administrator's review of that face, unless another
\* was registered while the review was under way.
OnlyReviewedFacesClock ==
  \A t \in clockedIn : t \in reviewed \/ t[1] \in swapped

\* "If the best and second-best match are within this margin, the result is ambiguous and
\* must be rejected" (face.service.ts, line 13), whatever the order of the candidates.
MatchIsSure ==
  \A f \in Faces : \A u \in MatchFace(f) :
    /\ Approved(u) /\ Distance[f, face[u]] < Threshold
    /\ \A v \in Users \ {u} : Approved(v) => Distance[f, face[v]] >= Distance[f, face[u]] + Margin
=============================================================================
