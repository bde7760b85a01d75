-------------------------- MODULE BackofficeProofs --------------------------
(***************************************************************************)
(* What holds in the back office for any areas, staff, tasks, tickets,     *)
(* organizations, leads and invoices, and any mix of requests.             *)
(***************************************************************************)
EXTENDS Backoffice, FiniteSetTheorems, TLAPS

-----------------------------------------------------------------------------
(* Requests *)

\* Requests are kept in a function, and one at a time unless they overlap.
RequestsOK ==
  /\ req = [r \in Request |-> req[r]]
  /\ workload \in Workloads
  /\ ~workload.overlap =>
       \A x, y \in Request : req[x] # Idle /\ req[y] # Idle => x = y

\* One request begins, goes on or ends, with an operation among ops.
Moves(r, ops) ==
  /\ r \in Request
  /\ MayStart(r) \/ req[r].op \in ops
  /\ req' = [x \in Request |-> req'[x]]
  /\ \A x \in Request : x # r => req'[x] = req[x]
  /\ req'[r] = req[r] \/ req'[r] = Idle \/ req'[r].op \in ops

\* Whatever operation is under way after a step was before it, or is among ops.
Stirs(ops) ==
  \A x \in Request : req'[x] = req[x] \/ req'[x] = Idle \/ req'[x].op \in ops

\* When requests do not overlap, all that is under way after a step is among ops.
Clears(ops) ==
  ~workload.overlap => \A x \in Request : req'[x] = Idle \/ req'[x].op \in ops

LEMMA MovesAlone ==
  ASSUME RequestsOK, NEW r, NEW ops, Moves(r, ops), "idle" \notin ops, workload' = workload
  PROVE  RequestsOK' /\ Stirs(ops) /\ Clears(ops)
<1>1. RequestsOK'
  BY DEF RequestsOK, Moves, MayStart, Quiet, Idle
<1>2. Stirs(ops)
  BY DEF Moves, Stirs
<1>3. Clears(ops)
  BY DEF RequestsOK, Moves, MayStart, Quiet, Idle, Clears
<1>. QED BY <1>1, <1>2, <1>3

\* A handler that fails leaves the others as they are.
LEMMA FailsAlone ==
  ASSUME RequestsOK, NEW r \in Request, NEW ops, Fails(r), workload' = workload
  PROVE  RequestsOK' /\ Stirs(ops) /\ Clears(ops)
<1>1. /\ req' = [x \in Request |-> req'[x]] /\ req'[r] = Idle /\ req[r] # Idle
      /\ \A x \in Request : x # r => req'[x] = req[x]
  BY DEF RequestsOK, Fails, Reply
<1>. QED BY <1>1 DEF RequestsOK, Stirs, Clears

LEMMA Awaited ==
  ASSUME RequestsOK, NEW r \in Request, NEW h, Awaits(r, h)
  PROVE  /\ req' = [x \in Request |-> req'[x]] /\ req'[r] = h
         /\ \A x \in Request : x # r => req'[x] = req[x]
BY DEF RequestsOK, Awaits

LEMMA Replied ==
  ASSUME RequestsOK, NEW r \in Request, Reply(r)
  PROVE  /\ req' = [x \in Request |-> req'[x]] /\ req'[r] = Idle
         /\ \A x \in Request : x # r => req'[x] = req[x]
BY DEF RequestsOK, Reply

\* A handler of an operation goes on: when requests do not overlap, it is the only one.
LEMMA Resumed ==
  ASSUME RequestsOK, NEW r \in Request, NEW op, Resumes(r, op), op # "idle"
  PROVE  /\ req[r] # Idle
         /\ ~workload.overlap => \A x \in Request : x # r => req[x] = Idle
<1>1. req[r] # Idle
  BY DEF Resumes, Idle
<1>. QED BY <1>1 DEF RequestsOK

\* The steps handlers take: one starts, goes on to another write, or ends.
LEMMA Started ==
  ASSUME RequestsOK, NEW r \in Request, NEW ops, MayStart(r),
         (\E h : Awaits(r, h) /\ h.op \in ops) \/ UNCHANGED req
  PROVE  Moves(r, ops)
BY Awaited DEF Moves, RequestsOK

LEMMA Continued ==
  ASSUME RequestsOK, NEW r \in Request, NEW ops, req[r].op \in ops,
         (\E h : Awaits(r, h) /\ h.op \in ops) \/ Reply(r) \/ UNCHANGED req
  PROVE  Moves(r, ops)
BY Awaited, Replied DEF Moves, RequestsOK

LEMMA GivenType ==
  ASSUME NEW S, NEW f \in Optional(S), NEW c \in S
  PROVE  /\ Given(f, c) \in S
         /\ f = {} => Given(f, c) = c
         /\ f # {} => Given(f, c) \in f /\ f = {Given(f, c)}
<1>1. CASE f = {}
  BY <1>1 DEF Given
<1>2. CASE f # {}
  <2>1. PICK v \in S : f = {v}
    BY <1>2 DEF Optional
  <2>2. (CHOOSE w \in f : TRUE) \in f
    BY <2>1
  <2>. QED BY <1>2, <2>1, <2>2 DEF Given
<1>. QED BY <1>1, <1>2

LEMMA GivenFlag ==
  ASSUME NEW f \in Optional(BOOLEAN), NEW c \in BOOLEAN
  PROVE  /\ Given(f, c) \in BOOLEAN
         /\ f = {} => Given(f, c) = c
         /\ f # {} => Given(f, c) \in f /\ f = {Given(f, c)}
BY GivenType, Zenon

LEMMA GivenAnyway ==
  ASSUME NEW f \in Optional(BOOLEAN), f # {}, NEW c \in BOOLEAN, NEW d \in BOOLEAN
  PROVE  Given(f, c) = Given(f, d)
<1>1. f = {Given(f, c)} /\ f = {Given(f, d)}
  BY GivenFlag
<1>. QED BY <1>1

LEMMA GivenRow ==
  ASSUME NEW n, NEW f \in Optional(0..n), NEW c \in 0..n
  PROVE  /\ Given(f, c) \in 0..n
         /\ f = {} => Given(f, c) = c
         /\ f # {} => Given(f, c) \in f /\ f = {Given(f, c)}
BY GivenType, Zenon

-----------------------------------------------------------------------------
(* Territory and staff *)

TerritoryOps ==
  {"createArea", "updateArea", "removeArea", "deleteArea", "createOffice", "updateOffice",
   "removeOffice", "assignToManager", "assignToWorker", "createManager", "updateManager",
   "updateStatus", "createWorker", "updateWorker", "updateRole"}

\* What is in a profile is there only if the profile is, and so is the role.
Profiled(p) ==
  /\ p.row = "absent" => ~p.manager /\ ~p.worker
  /\ ~p.manager => p.areas = {} /\ p.role # "MANAGER"
  /\ ~p.worker => p.area = 0 /\ p.role # "WORKER"

\* The values a handler of the territory has been given.
TerritoryHandler(h) ==
  /\ h.op = "createArea" => h.offices \in SUBSET (1..Offices) /\ h.active \in BOOLEAN
  /\ h.op = "updateArea" =>
       /\ h.area \in 1..Areas /\ h.active \in Optional(BOOLEAN)
       /\ h.offices \in SUBSET (1..Offices)
       /\ h.changing => h.active # {}
  /\ h.op \in {"removeArea", "deleteArea"} => h.area \in 1..Areas
  /\ h.op = "createOffice" => h.name \in Name /\ h.area \in 0..Areas
  /\ h.op = "updateOffice" =>
       /\ h.office \in 1..Offices /\ h.area \in 0..Areas
       /\ h.name \in Optional(Name) /\ h.active \in Optional(BOOLEAN)
       /\ h.to \in Optional(0..Areas)
       /\ h.changing => h.active # {}
  /\ h.op = "removeOffice" => h.office \in 1..Offices /\ h.area \in 0..Areas
  /\ h.op = "assignToManager" => h.pincodes \in SUBSET Pincode
  /\ h.op = "assignToWorker" => h.pincode \in Pincode
  /\ h.op \in {"createManager", "updateManager", "assignToManager", "assignToWorker",
               "createWorker", "updateWorker", "updateRole"} => h.user \in Person
  /\ h.op = "createManager" =>
       h.offices \in SUBSET (1..Offices) /\ h.areas \in SUBSET (1..Areas)
  /\ h.op = "updateManager" =>
       /\ h.active \in Optional(BOOLEAN) /\ h.offices \in SUBSET (1..Offices)
       /\ h.areas \in Optional(SUBSET (1..Areas))
  /\ h.op = "updateStatus" => h.users \in SUBSET Person /\ h.active \in BOOLEAN
  /\ h.op \in {"createWorker", "updateWorker"} => h.manager \in Person
  /\ h.op = "createWorker" => h.area \in 1..Areas
  /\ h.op = "updateWorker" =>
       h.active \in Optional(BOOLEAN) /\ h.area \in Optional(1..Areas) /\ h.manager # h.user
  /\ h.op = "updateRole" =>
       /\ h.role \in Role \ {"SUPER_ADMIN"}
       /\ h.role = "MANAGER" => h.place \in 1..Offices
       /\ h.role = "WORKER" => h.place \in 1..Areas

\* What it knows of people never ceases to be so.
KnowsStaff(h) ==
  /\ h.op \in {"assignToManager", "updateManager"} =>
       Exists(h.user) /\ person[h.user].manager
  /\ h.op \in {"assignToWorker", "updateWorker"} => Exists(h.user) /\ person[h.user].worker
  /\ h.op \in {"createWorker", "updateWorker"} => Exists(h.manager) /\ person[h.manager].manager
  /\ h.op = "updateRole" => Exists(h.user) /\ person[h.user].role # "SUPER_ADMIN"

\* What a handler has checked, which holds until it writes if it is alone.
TerritoryChecked(h) ==
  /\ h.op \in {"updateArea", "removeArea", "deleteArea"} => AreaExists(h.area)
  /\ h.op = "updateArea" => (h.changing <=> h.active \notin {{}, {area[h.area].active}})
  /\ h.op = "removeArea" => (h.changing <=> area[h.area].active)
  /\ h.op = "deleteArea" =>
       OfficesOf(h.area) = {} /\ ManagersOf(h.area) = {} /\ WorkersOf(h.area) = {}
  /\ h.op = "createOffice" => NameAvailable(h.name, 0)
  /\ h.op = "updateOffice" => \A n \in h.name : NameAvailable(n, h.office)

TerritoryInv ==
  /\ TerritoryTypeOK
  /\ \A u \in Person : Profiled(person[u])
  /\ \A x \in Request : TerritoryHandler(req[x]) /\ KnowsStaff(req[x])
  /\ ~workload.overlap => \A x \in Request : TerritoryChecked(req[x])
  /\ OfficeNamesDistinct

\* A handler has been started that knows what it needs, and has changed nothing.
TerritoryTakes(h) ==
  /\ h.op \in TerritoryOps
  /\ TerritoryHandler(h) /\ KnowsStaff(h) /\ TerritoryChecked(h)

LEMMA TerritoryBegins ==
  ASSUME TerritoryInv, RequestsOK, NEW r \in Request, TerritoryStarts(r)
  PROVE  \/ \E p \in Pincode, active \in BOOLEAN : SetPincode(r, p, active)
         \/ \E h : Awaits(r, h) /\ TerritoryTakes(h) /\ UNCHANGED territory
<1>. DEFINE Goal == \E h : Awaits(r, h) /\ TerritoryTakes(h) /\ UNCHANGED territory
<1>t. TerritoryTypeOK
  BY DEF TerritoryInv
<1>1. ASSUME NEW S \in SUBSET (1..Offices), NEW active \in BOOLEAN, CreateArea(r, S, active)
      PROVE  Goal
  BY <1>1 DEF CreateArea, TerritoryTakes, TerritoryOps, TerritoryHandler, KnowsStaff, TerritoryChecked
<1>2. ASSUME NEW a \in 1..Areas, NEW active \in Optional(BOOLEAN), NEW S \in SUBSET (1..Offices),
             UpdateArea(r, a, active, S)
      PROVE  Goal
  <2>. DEFINE h == [op |-> "updateArea", area |-> a, active |-> active, offices |-> S,
                    changing |-> active \notin {{}, {area[a].active}}]
  <2>1. TerritoryTakes(h)
    BY <1>2 DEF UpdateArea, TerritoryTakes, TerritoryOps, TerritoryHandler, KnowsStaff, TerritoryChecked
  <2>. QED BY <1>2, <2>1 DEF UpdateArea
<1>3. ASSUME NEW a \in 1..Areas, RemoveArea(r, a) PROVE Goal
  <2>. DEFINE h == [op |-> "removeArea", area |-> a, changing |-> area[a].active]
  <2>1. TerritoryTakes(h)
    BY <1>3 DEF RemoveArea, TerritoryTakes, TerritoryOps, TerritoryHandler, KnowsStaff, TerritoryChecked
  <2>. QED BY <1>3, <2>1 DEF RemoveArea
<1>4. ASSUME NEW a \in 1..Areas, DeleteArea(r, a) PROVE Goal
  BY <1>4 DEF DeleteArea, TerritoryTakes, TerritoryOps, TerritoryHandler, KnowsStaff, TerritoryChecked
<1>5. ASSUME NEW n \in Name, NEW a \in 0..Areas, CreateOffice(r, n, a) PROVE Goal
  BY <1>5 DEF CreateOffice, TerritoryTakes, TerritoryOps, TerritoryHandler, KnowsStaff, TerritoryChecked
<1>6. ASSUME NEW o \in 1..Offices, NEW name \in Optional(Name), NEW active \in Optional(BOOLEAN),
             NEW to \in Optional(0..Areas), UpdateOffice(r, o, name, active, to)
      PROVE  Goal
  <2>. DEFINE h == [op |-> "updateOffice", office |-> o, name |-> name, active |-> active,
                    to |-> to, area |-> office[o].area,
                    changing |-> active \notin {{}, {office[o].active}}]
  <2>1. office[o].area \in 0..Areas
    BY <1>t DEF TerritoryTypeOK, OfficeRow
  <2>2. TerritoryTakes(h)
    BY <1>6, <2>1 DEF UpdateOffice, TerritoryTakes, TerritoryOps, TerritoryHandler, KnowsStaff, TerritoryChecked
  <2>. QED BY <1>6, <2>2 DEF UpdateOffice
<1>7. ASSUME NEW o \in 1..Offices, RemoveOffice(r, o) PROVE Goal
  <2>. DEFINE h == [op |-> "removeOffice", office |-> o, area |-> office[o].area,
                    changing |-> office[o].active]
  <2>1. office[o].area \in 0..Areas
    BY <1>t DEF TerritoryTypeOK, OfficeRow
  <2>2. TerritoryTakes(h)
    BY <1>7, <2>1 DEF RemoveOffice, TerritoryTakes, TerritoryOps, TerritoryHandler, KnowsStaff, TerritoryChecked
  <2>. QED BY <1>7, <2>2 DEF RemoveOffice
<1>. QED BY <1>1, <1>2, <1>3, <1>4, <1>5, <1>6, <1>7 DEF TerritoryStarts

LEMMA StaffBegins ==
  ASSUME TerritoryInv, RequestsOK, NEW r \in Request, StaffStarts(r)
  PROVE  \E h : Awaits(r, h) /\ TerritoryTakes(h) /\ UNCHANGED territory
<1>. DEFINE Goal == \E h : Awaits(r, h) /\ TerritoryTakes(h) /\ UNCHANGED territory
<1>t. TerritoryTypeOK /\ workload.people \subseteq Person
  BY TerritoryAssumption DEF TerritoryInv, RequestsOK
<1>. USE DEF TerritoryTakes, TerritoryOps, TerritoryHandler, KnowsStaff, TerritoryChecked
<1>1. ASSUME NEW u \in Person, NEW P \in SUBSET Pincode, AssignToManager(r, u, P) PROVE Goal
  BY <1>1 DEF AssignToManager
<1>2. ASSUME NEW u \in Person, NEW p \in Pincode, AssignToWorker(r, u, p) PROVE Goal
  BY <1>2 DEF AssignToWorker
<1>3. ASSUME NEW u \in Person, NEW O \in SUBSET (1..Offices), NEW A \in SUBSET (1..Areas),
             CreateManager(r, u, O, A)
      PROVE  Goal
  BY <1>3 DEF CreateManager
<1>4. ASSUME NEW u \in Person, NEW active \in Optional(BOOLEAN), NEW O \in SUBSET (1..Offices),
             NEW A \in Optional(SUBSET (1..Areas)), UpdateManager(r, u, active, O, A)
      PROVE  Goal
  BY <1>4 DEF UpdateManager
<1>5. ASSUME NEW u \in Person, NEW active \in BOOLEAN,
             UpdateManagerStatus(r, u, active) \/ UpdateUserStatus(r, u, active)
      PROVE  Goal
  <2>1. StaffOf(u) \subseteq Person
    BY DEF StaffOf
  <2>2. CASE UpdateManagerStatus(r, u, active)
    <3>. DEFINE h == [op |-> "updateStatus", users |-> {u} \union StaffOf(u), active |-> active]
    <3>1. TerritoryTakes(h)
      BY <2>1
    <3>. QED BY <2>2, <3>1 DEF UpdateManagerStatus
  <2>3. CASE UpdateUserStatus(r, u, active)
    <3>. DEFINE U == {u} \union IF Has(u, "MANAGER") /\ person[u].active # active
                                  THEN StaffOf(u) ELSE {}
                h == [op |-> "updateStatus", active |-> active, users |-> U]
    <3>1. U \subseteq Person
      BY <2>1
    <3>2. TerritoryTakes(h)
      BY <3>1
    <3>. QED BY <2>3, <3>2 DEF UpdateUserStatus
  <2>. QED BY <1>5, <2>2, <2>3
<1>6. ASSUME NEW u \in Person, NEW m \in Person, NEW O \in SUBSET (1..Offices), NEW a \in 1..Areas,
             CreateWorker(r, m, u, O, a)
      PROVE  Goal
  BY <1>6 DEF CreateWorker, Has
<1>7. ASSUME NEW u \in Person, NEW m \in Person, NEW O \in SUBSET (1..Offices),
             NEW active \in Optional(BOOLEAN), NEW A \in Optional(1..Areas),
             UpdateWorker(r, m, u, active, O, A)
      PROVE  Goal
  BY <1>7 DEF UpdateWorker, Has, InTeam, InFilter
<1>8. ASSUME NEW u \in Person, NEW actor \in Person, NEW role \in Role,
             NEW place \in 0..(Areas + Offices), UpdateRole(r, actor, u, role, place)
      PROVE  Goal
  <2>. DEFINE h == [op |-> "updateRole", user |-> u, role |-> role, place |-> place]
  <2>1. person[actor].role \in Role /\ person[u].role \in Role
    BY <1>t DEF TerritoryTypeOK, PersonRow
  <2>2. role # "SUPER_ADMIN"
    BY <1>8, <2>1 DEF UpdateRole, ROLE_CAN_ASSIGN, Role
  <2>3. person[u].role # "SUPER_ADMIN"
    BY <1>8, <2>1 DEF UpdateRole, Outranks, ROLE_RANK, Role
  <2>4. /\ role = "MANAGER" => place \in 1..Offices
        /\ role = "WORKER" => place \in 1..Areas
    BY <1>8 DEF UpdateRole, OfficeExists, AreaExists
  <2>5. Exists(u)
    BY <1>8 DEF UpdateRole
  <2>6. TerritoryTakes(h)
    BY <2>2, <2>3, <2>4, <2>5
  <2>. QED BY <1>8, <2>6 DEF UpdateRole
<1>. QED BY <1>t, <1>1, <1>2, <1>3, <1>4, <1>5, <1>6, <1>7, <1>8 DEF StaffStarts

\* People come and change, and what handlers know of them stays so.
RowStays(p, q) ==
  /\ q \in PersonRow /\ Profiled(q)
  /\ p.row = "present" =>
       /\ q.row = "present" /\ (p.manager => q.manager) /\ (p.worker => q.worker)
       /\ p.role = "SUPER_ADMIN" <=> q.role = "SUPER_ADMIN"

StaffStays ==
  /\ person' \in [Person -> PersonRow]
  /\ \A u \in Person : RowStays(person[u], person'[u])

LEMMA StaffSame ==
  ASSUME TerritoryInv, person' = person
  PROVE  StaffStays
BY DEF StaffStays, RowStays, TerritoryInv, TerritoryTypeOK

\* The columns of a person that handlers write.
LEMMA RowEdits ==
  ASSUME NEW p \in PersonRow, Profiled(p)
  PROVE  /\ \A P \in SUBSET Pincode : p.manager => RowStays(p, [p EXCEPT !.pincodes = P])
         /\ \A c \in Pincode : RowStays(p, [p EXCEPT !.pincode = c])
         /\ \A A \in SUBSET (1..Areas) : p.manager => RowStays(p, [p EXCEPT !.areas = A])
         /\ p.role # "SUPER_ADMIN" /\ p.row = "present" =>
              /\ \A o \in 0..Offices :
                   RowStays(p, [p EXCEPT !.role = "MANAGER", !.manager = TRUE, !.primary = o])
              /\ \A a \in 0..Areas :
                   RowStays(p, [p EXCEPT !.role = "WORKER", !.worker = TRUE, !.area = a])
<1>1. \A P \in SUBSET Pincode : p.manager => RowStays(p, [p EXCEPT !.pincodes = P])
  BY DEF RowStays, PersonRow, Profiled
<1>2. \A c \in Pincode : RowStays(p, [p EXCEPT !.pincode = c])
  BY DEF RowStays, PersonRow, Profiled
<1>3. \A A \in SUBSET (1..Areas) : p.manager => RowStays(p, [p EXCEPT !.areas = A])
  BY DEF RowStays, PersonRow, Profiled
<1>4. ASSUME NEW o \in 0..Offices, p.role # "SUPER_ADMIN", p.row = "present"
      PROVE  RowStays(p, [p EXCEPT !.role = "MANAGER", !.manager = TRUE, !.primary = o])
  BY <1>4 DEF RowStays, PersonRow, Profiled, Role
<1>5. ASSUME NEW a \in 0..Areas, p.role # "SUPER_ADMIN", p.row = "present"
      PROVE  RowStays(p, [p EXCEPT !.role = "WORKER", !.worker = TRUE, !.area = a])
  BY <1>5 DEF RowStays, PersonRow, Profiled, Role
<1>. QED BY <1>1, <1>2, <1>3, <1>4, <1>5

LEMMA OneChanges ==
  ASSUME TerritoryInv, NEW u \in Person, NEW q, RowStays(person[u], q),
         person' = [person EXCEPT ![u] = q]
  PROVE  StaffStays
BY DEF StaffStays, RowStays, TerritoryInv, TerritoryTypeOK

LEMMA ManyChange ==
  ASSUME TerritoryInv, NEW U, NEW active \in BOOLEAN,
         person' = [u \in Person |-> IF u \in U THEN [person[u] EXCEPT !.active = active] ELSE person[u]]
  PROVE  StaffStays
<1>1. ASSUME NEW p \in PersonRow, Profiled(p)
      PROVE  RowStays(p, p) /\ RowStays(p, [p EXCEPT !.active = active])
  BY <1>1 DEF PersonRow, Profiled, RowStays
<1>2. \A u \in Person : person[u] \in PersonRow /\ Profiled(person[u])
  BY DEF TerritoryInv, TerritoryTypeOK
<1>3. \A u \in Person : RowStays(person[u], person'[u])
  BY <1>1, <1>2
<1>4. \A u \in Person : person'[u] \in PersonRow
  BY <1>3 DEF RowStays
<1>. QED BY <1>3, <1>4 DEF StaffStays

LEMMA Cascades ==
  ASSUME TerritoryInv, NEW a, NEW active \in BOOLEAN, person' = Cascade(a, active)
  PROVE  StaffStays
<1>. DEFINE U == ManagersOf(a) \union WorkersOf(a)
<1>1. person' = [u \in Person |-> IF u \in U THEN [person[u] EXCEPT !.active = active] ELSE person[u]]
  BY DEF Cascade
<1>. HIDE DEF U
<1>. QED BY <1>1, ManyChange

-----------------------------------------------------------------------------
(* What the transactions of the territory write *)

\* A handler of the territory has ended; only the names may still be in doubt.
TerritoryWrote(r) ==
  /\ Reply(r) /\ req[r] # Idle
  /\ area' \in [1..Areas -> AreaRow] /\ office' \in [1..Offices -> OfficeRow]
  /\ pincode' \in [Pincode -> BOOLEAN]
  /\ StaffStays

NamesStay ==
  \A o \in 1..Offices : office'[o].row = office[o].row /\ office'[o].name = office[o].name

LEMMA AttachType ==
  ASSUME TerritoryInv, NEW S \in SUBSET (1..Offices), NEW a \in 0..Areas, office' = Attach(S, a)
  PROVE  office' \in [1..Offices -> OfficeRow] /\ NamesStay
BY DEF TerritoryInv, TerritoryTypeOK, Attach, OfficeRow, NamesStay

LEMMA AreasWrite ==
  ASSUME TerritoryInv, RequestsOK, NEW r \in Request,
         CreateAreaWrite(r) \/ UpdateAreaWrite(r) \/ RemoveAreaWrite(r) \/ DeleteAreaWrite(r)
  PROVE  TerritoryWrote(r) /\ NamesStay
<1>. DEFINE h == req[r]
<1>t. /\ area \in [1..Areas -> AreaRow] /\ office \in [1..Offices -> OfficeRow]
      /\ pincode \in [Pincode -> BOOLEAN] /\ person \in [Person -> PersonRow]
      /\ TerritoryHandler(h)
      /\ \A u \in Person : Profiled(person[u])
  BY DEF TerritoryInv, TerritoryTypeOK
<1>1. CASE CreateAreaWrite(r)
  <2>1. PICK a \in NextRow(area, Areas) :
          /\ area' = [area EXCEPT ![a] = [row |-> "present", active |-> h.active]]
          /\ office' = Attach(h.offices, a)
    BY <1>1 DEF CreateAreaWrite
  <2>2. a \in 1..Areas /\ h.op = "createArea" /\ Reply(r) /\ UNCHANGED <<pincode, person>>
    BY <1>1 DEF CreateAreaWrite, NextRow, Resumes
  <2>3. h.offices \in SUBSET (1..Offices) /\ h.active \in BOOLEAN
    BY <1>t, <2>2 DEF TerritoryHandler
  <2>4. a \in 0..Areas
    BY <2>2, TerritoryAssumption
  <2>5. office' \in [1..Offices -> OfficeRow] /\ NamesStay
    BY <2>1, <2>3, <2>4, AttachType
  <2>6. area' \in [1..Areas -> AreaRow]
    BY <1>t, <2>1, <2>2, <2>3 DEF AreaRow
  <2>. QED BY <1>t, <2>2, <2>5, <2>6, StaffSame DEF TerritoryWrote, Idle
<1>2. CASE UpdateAreaWrite(r)
  <2>. DEFINE a == h.area
              S == h.offices
  <2>1. h.op = "updateArea" /\ Reply(r) /\ pincode' = pincode
    BY <1>2 DEF UpdateAreaWrite, Resumes
  <2>2. /\ a \in 1..Areas /\ h.active \in Optional(BOOLEAN) /\ S \in SUBSET (1..Offices)
        /\ h.changing => h.active # {}
    BY <1>t, <2>1 DEF TerritoryHandler
  <2>3. CASE AreaExists(a)
    <3>1. /\ area' = [area EXCEPT ![a].active = Given(h.active, area[a].active)]
          /\ office' = [o \in 1..Offices |->
                           IF S = {} THEN office[o]
                           ELSE IF o \in S THEN [office[o] EXCEPT !.area = a]
                           ELSE IF office[o].area = a THEN [office[o] EXCEPT !.area = 0]
                           ELSE office[o]]
          /\ person' = IF h.changing THEN Cascade(a, Given(h.active, TRUE)) ELSE person
      BY <1>2, <2>3 DEF UpdateAreaWrite
    <3>2. Given(h.active, area[a].active) \in BOOLEAN /\ Given(h.active, TRUE) \in BOOLEAN
      <4>1. area[a].active \in BOOLEAN /\ TRUE \in BOOLEAN
        BY <1>t, <2>2 DEF AreaRow
      <4>. QED BY <2>2, <4>1, GivenFlag
    <3>3. area' \in [1..Areas -> AreaRow]
      BY <1>t, <2>2, <3>1, <3>2 DEF AreaRow
    <3>4. office' \in [1..Offices -> OfficeRow] /\ NamesStay
      <4>1. a \in 0..Areas /\ 0 \in 0..Areas
        BY <2>2, TerritoryAssumption
      <4>2. ASSUME NEW o \in 1..Offices
            PROVE  /\ office'[o] \in OfficeRow
                   /\ office'[o].row = office[o].row /\ office'[o].name = office[o].name
        BY <1>t, <3>1, <4>1 DEF OfficeRow
      <4>. QED BY <3>1, <4>2 DEF NamesStay
    <3>5. StaffStays
      BY <3>1, <3>2, Cascades, StaffSame
    <3>. QED BY <1>t, <2>1, <3>3, <3>4, <3>5 DEF TerritoryWrote, Idle
  <2>4. CASE ~AreaExists(a)
    <3>1. UNCHANGED <<area, office, person>>
      BY <1>2, <2>4 DEF UpdateAreaWrite
    <3>. QED BY <1>t, <2>1, <3>1, StaffSame DEF TerritoryWrote, NamesStay, Idle
  <2>. QED BY <2>3, <2>4
<1>3. CASE RemoveAreaWrite(r)
  <2>. DEFINE a == h.area
  <2>1. h.op = "removeArea" /\ Reply(r) /\ UNCHANGED <<office, pincode>> /\ a \in 1..Areas
    BY <1>3, <1>t DEF RemoveAreaWrite, Resumes, TerritoryHandler
  <2>2. area' \in [1..Areas -> AreaRow]
    <3>1. area \in [1..Areas -> AreaRow] /\ area[a] \in AreaRow
      BY <1>t, <2>1
    <3>2. area' = area \/ area' = [area EXCEPT ![a] = [area[a] EXCEPT !.active = FALSE]]
      BY <1>3 DEF RemoveAreaWrite
    <3>3. [area[a] EXCEPT !.active = FALSE] \in AreaRow
      BY <3>1 DEF AreaRow
    <3>. QED BY <3>1, <3>2, <3>3
  <2>3. StaffStays
    BY <1>3, Cascades, StaffSame DEF RemoveAreaWrite
  <2>. QED BY <1>t, <2>1, <2>2, <2>3 DEF TerritoryWrote, NamesStay, Idle
<1>4. CASE DeleteAreaWrite(r)
  <2>. DEFINE a == h.area
  <2>1. h.op = "deleteArea" /\ Reply(r) /\ pincode' = pincode /\ a \in 1..Areas
    BY <1>4, <1>t DEF DeleteAreaWrite, Resumes, TerritoryHandler
  <2>2. CASE AreaExists(a)
    <3>1. /\ area' = [area EXCEPT ![a].row = "gone"]
          /\ office' = Attach(OfficesOf(a), 0)
          /\ person' = [u \in Person |->
                [person[u] EXCEPT !.areas = person[u].areas \ {a},
                                  !.area = IF person[u].area = a THEN 0 ELSE person[u].area]]
      BY <1>4, <2>2 DEF DeleteAreaWrite
    <3>2. OfficesOf(a) \in SUBSET (1..Offices) /\ 0 \in 0..Areas
      BY TerritoryAssumption DEF OfficesOf
    <3>3. office' \in [1..Offices -> OfficeRow] /\ NamesStay
      BY <3>1, <3>2, AttachType
    <3>4. area' \in [1..Areas -> AreaRow]
      BY <1>t, <2>1, <3>1 DEF AreaRow
    <3>5. ASSUME NEW p \in PersonRow, Profiled(p)
          PROVE  RowStays(p, [p EXCEPT !.areas = p.areas \ {a}, !.area = IF p.area = a THEN 0 ELSE p.area])
      BY <3>2, <3>5 DEF PersonRow, Profiled, RowStays
    <3>6. \A u \in Person : RowStays(person[u], person'[u])
      BY <1>t, <3>1, <3>5
    <3>7. person' \in [Person -> PersonRow]
      BY <3>1, <3>6 DEF RowStays
    <3>. QED BY <1>t, <2>1, <3>3, <3>4, <3>6, <3>7 DEF TerritoryWrote, StaffStays, Idle
  <2>3. CASE ~AreaExists(a)
    <3>1. UNCHANGED <<area, office, person>>
      BY <1>4, <2>3 DEF DeleteAreaWrite
    <3>. QED BY <1>t, <2>1, <3>1, StaffSame DEF TerritoryWrote, NamesStay, Idle
  <2>. QED BY <2>2, <2>3
<1>. QED BY <1>1, <1>2, <1>3, <1>4

\* One office gets another name, which none of the others has.
LEMMA Renamed ==
  ASSUME TerritoryInv, workload' = workload, NEW o \in 1..Offices,
         ~workload.overlap /\ office'[o].row = "present" =>
           (office'[o].name = office[o].name /\ office[o].row = "present")
             \/ NameAvailable(office'[o].name, o),
         \A p \in 1..Offices : p # o => office'[p].row = office[p].row /\ office'[p].name = office[p].name
  PROVE  OfficeNamesDistinct'
<1>1. SUFFICES ASSUME ~workload.overlap, NEW p \in 1..Offices, NEW q \in 1..Offices, p # q,
                      OfficeExists(p)', OfficeExists(q)'
               PROVE  ~SameName(office'[p].name, office'[q].name)
  BY DEF OfficeNamesDistinct, SameName
<1>2. \A x, y \in 1..Offices :
        x # y /\ OfficeExists(x) /\ OfficeExists(y) => ~SameName(office[x].name, office[y].name)
  BY <1>1 DEF TerritoryInv, OfficeNamesDistinct
<1>3. CASE p # o /\ q # o
  BY <1>1, <1>2, <1>3 DEF OfficeExists
<1>4. ASSUME NEW x \in 1..Offices, x # o, OfficeExists(x)', OfficeExists(o)'
      PROVE  ~SameName(office'[x].name, office'[o].name)
  <2>1. OfficeExists(x) /\ office'[x].name = office[x].name /\ office'[o].row = "present"
    BY <1>4 DEF OfficeExists
  <2>2. CASE office'[o].name = office[o].name /\ office[o].row = "present"
    BY <1>2, <1>4, <2>1, <2>2 DEF OfficeExists
  <2>3. CASE NameAvailable(office'[o].name, o)
    BY <1>4, <2>1, <2>3 DEF NameAvailable
  <2>. QED BY <1>1, <2>1, <2>2, <2>3
<1>. QED BY <1>1, <1>3, <1>4 DEF SameName

LEMMA NamesKept ==
  ASSUME TerritoryInv, workload' = workload, NamesStay
  PROVE  OfficeNamesDistinct'
BY DEF TerritoryInv, NamesStay, OfficeNamesDistinct, OfficeExists

LEMMA OfficesWrite ==
  ASSUME TerritoryInv, RequestsOK, workload' = workload, NEW r \in Request,
         CreateOfficeWrite(r) \/ UpdateOfficeWrite(r) \/ RemoveOfficeWrite(r)
  PROVE  TerritoryWrote(r) /\ OfficeNamesDistinct'
<1>. DEFINE h == req[r]
<1>t. /\ area \in [1..Areas -> AreaRow] /\ office \in [1..Offices -> OfficeRow]
      /\ pincode \in [Pincode -> BOOLEAN]
      /\ TerritoryHandler(h)
      /\ ~workload.overlap => TerritoryChecked(h)
  BY DEF TerritoryInv, TerritoryTypeOK
<1>1. CASE CreateOfficeWrite(r)
  <2>1. PICK o \in NextRow(office, Offices) :
          office' = IF h.area # 0 /\ ~AreaExists(h.area) THEN office
                    ELSE [office EXCEPT ![o] = [row |-> "present", active |-> TRUE,
                                                area |-> h.area, name |-> h.name]]
    BY <1>1 DEF CreateOfficeWrite
  <2>2. o \in 1..Offices /\ h.op = "createOffice" /\ Reply(r) /\ UNCHANGED <<area, pincode, person>>
    BY <1>1 DEF CreateOfficeWrite, NextRow, Resumes
  <2>3. h.name \in Name /\ h.area \in 0..Areas
    BY <1>t, <2>2 DEF TerritoryHandler
  <2>4. office' \in [1..Offices -> OfficeRow]
    BY <1>t, <2>1, <2>2, <2>3 DEF OfficeRow
  <2>5. TerritoryWrote(r)
    BY <1>t, <2>2, <2>4, StaffSame DEF TerritoryWrote, Idle
  <2>6. CASE office' = office
    BY <2>5, <2>6, NamesKept DEF NamesStay
  <2>7. CASE office' = [office EXCEPT ![o] = [row |-> "present", active |-> TRUE,
                                              area |-> h.area, name |-> h.name]]
    <3>1. ~workload.overlap => NameAvailable(h.name, 0)
      BY <1>t, <2>2 DEF TerritoryChecked
    <3>2. ~workload.overlap => NameAvailable(h.name, o)
      BY <3>1 DEF NameAvailable
    <3>3. office'[o].name = h.name
      BY <1>t, <2>2, <2>7
    <3>4. \A p \in 1..Offices : p # o => office'[p].row = office[p].row /\ office'[p].name = office[p].name
      BY <1>t, <2>2, <2>7
    <3>. QED BY <2>2, <2>5, <3>2, <3>3, <3>4, Renamed
  <2>. QED BY <2>1, <2>5, <2>6, <2>7
<1>2. CASE UpdateOfficeWrite(r)
  <2>. DEFINE o == h.office
              a == h.area
              follows == h.changing /\ a # 0
  <2>1. h.op = "updateOffice" /\ Reply(r) /\ pincode' = pincode
    BY <1>2 DEF UpdateOfficeWrite, Resumes
  <2>2. /\ o \in 1..Offices /\ a \in 0..Areas /\ h.name \in Optional(Name)
        /\ h.active \in Optional(BOOLEAN) /\ h.to \in Optional(0..Areas)
    BY <1>t, <2>1 DEF TerritoryHandler
  <2>3. CASE (follows => AreaExists(a)) /\ \A b \in h.to : b # 0 => AreaExists(b)
    <3>1. /\ office' = [office EXCEPT ![o].name = Given(h.name, office[o].name),
                                      ![o].active = Given(h.active, office[o].active),
                                      ![o].area = Given(h.to, office[o].area)]
          /\ area' = IF follows THEN [area EXCEPT ![a].active = Given(h.active, area[a].active)]
                     ELSE area
          /\ person' = IF follows THEN Cascade(a, Given(h.active, TRUE)) ELSE person
      BY <1>2, <2>3 DEF UpdateOfficeWrite
    <3>2. /\ office[o].name \in Name \union {None} /\ office[o].active \in BOOLEAN
          /\ office[o].area \in 0..Areas
      BY <1>t, <2>2 DEF OfficeRow
    <3>3. Given(h.name, office[o].name) \in Name \union {None}
      <4>1. h.name \in Optional(Name \union {None})
        BY <2>2 DEF Optional
      <4>. QED BY <3>2, <4>1, GivenType
    <3>4. Given(h.active, office[o].active) \in BOOLEAN
      BY <2>2, <3>2, GivenFlag
    <3>5. Given(h.to, office[o].area) \in 0..Areas
      BY <2>2, <3>2, GivenRow
    <3>6. office' \in [1..Offices -> OfficeRow]
      <4>1. office[o] \in OfficeRow
        BY <1>t, <2>2
      <4>2. [office[o] EXCEPT !.name = Given(h.name, office[o].name),
                              !.active = Given(h.active, office[o].active),
                              !.area = Given(h.to, office[o].area)] \in OfficeRow
        BY <3>3, <3>4, <3>5, <4>1 DEF OfficeRow
      <4>3. office' = [office EXCEPT ![o] = [office[o] EXCEPT
                              !.name = Given(h.name, office[o].name),
                              !.active = Given(h.active, office[o].active),
                              !.area = Given(h.to, office[o].area)]]
        BY <1>t, <2>2, <3>1, <4>1 DEF OfficeRow
      <4>. QED BY <1>t, <2>2, <4>2, <4>3
    <3>7. area' \in [1..Areas -> AreaRow]
      <4>1. CASE follows
        <5>1. a \in 1..Areas
          BY <2>2, <4>1, TerritoryAssumption
        <5>2. area[a] \in AreaRow /\ area[a].active \in BOOLEAN
          BY <1>t, <5>1 DEF AreaRow
        <5>3. Given(h.active, area[a].active) \in BOOLEAN
          BY <2>2, <5>2, GivenFlag
        <5>. QED BY <1>t, <3>1, <4>1, <5>1, <5>2, <5>3 DEF AreaRow
      <4>. QED BY <1>t, <3>1, <4>1
    <3>8. StaffStays
      <4>1. TRUE \in BOOLEAN
        OBVIOUS
      <4>2. Given(h.active, TRUE) \in BOOLEAN
        BY <2>2, <4>1, GivenFlag
      <4>. QED BY <3>1, <4>2, Cascades, StaffSame
    <3>9. TerritoryWrote(r)
      BY <1>t, <2>1, <3>6, <3>7, <3>8 DEF TerritoryWrote, Idle
    <3>10. /\ office'[o].name = Given(h.name, office[o].name) /\ office'[o].row = office[o].row
           /\ \A p \in 1..Offices : p # o => office'[p] = office[p]
      BY <1>t, <2>2, <3>1 DEF OfficeRow
    <3>11. ~workload.overlap =>
             office'[o].name = office[o].name \/ NameAvailable(office'[o].name, o)
      <4>1. CASE h.name = {}
        BY <3>10, <4>1 DEF Given
      <4>2. CASE h.name # {}
        <5>1. h.name \in Optional(Name \union {None})
          BY <2>2 DEF Optional
        <5>2. Given(h.name, office[o].name) \in h.name
          BY <3>2, <4>2, <5>1, GivenType
        <5>. QED BY <1>t, <2>1, <3>10, <5>2 DEF TerritoryChecked
      <4>. QED BY <4>1, <4>2
    <3>12. OfficeNamesDistinct'
      <4>1. ~workload.overlap /\ office'[o].row = "present" =>
              (office'[o].name = office[o].name /\ office[o].row = "present")
                \/ NameAvailable(office'[o].name, o)
        BY <3>10, <3>11
      <4>. QED BY <2>2, <3>10, <4>1, Renamed
    <3>. QED BY <3>9, <3>12
  <2>4. CASE ~((follows => AreaExists(a)) /\ \A b \in h.to : b # 0 => AreaExists(b))
    <3>1. UNCHANGED <<area, office, person>>
      BY <1>2, <2>4 DEF UpdateOfficeWrite
    <3>. QED BY <1>t, <2>1, <3>1, StaffSame, NamesKept DEF TerritoryWrote, NamesStay, Idle
  <2>. QED BY <2>3, <2>4
<1>3. CASE RemoveOfficeWrite(r)
  <2>. DEFINE a == h.area
              follows == h.changing /\ a # 0
  <2>1. /\ h.op = "removeOffice" /\ Reply(r) /\ pincode' = pincode
        /\ h.office \in 1..Offices /\ a \in 0..Areas
    BY <1>3, <1>t DEF RemoveOfficeWrite, Resumes, TerritoryHandler
  <2>2. CASE follows => AreaExists(a)
    <3>1. /\ office' = [office EXCEPT ![h.office].active = FALSE]
          /\ area' = IF follows THEN [area EXCEPT ![a].active = FALSE] ELSE area
          /\ person' = IF follows THEN Cascade(a, FALSE) ELSE person
      BY <1>3, <2>2 DEF RemoveOfficeWrite
    <3>2. office' \in [1..Offices -> OfficeRow] /\ NamesStay
      BY <1>t, <2>1, <3>1 DEF OfficeRow, NamesStay
    <3>3. area' \in [1..Areas -> AreaRow]
      BY <1>t, <2>1, <3>1, TerritoryAssumption DEF AreaRow
    <3>4. StaffStays
      BY <3>1, Cascades, StaffSame
    <3>. QED BY <1>t, <2>1, <3>2, <3>3, <3>4, NamesKept DEF TerritoryWrote, Idle
  <2>3. CASE ~(follows => AreaExists(a))
    <3>1. UNCHANGED <<area, office, person>>
      BY <1>3, <2>3 DEF RemoveOfficeWrite
    <3>. QED BY <1>t, <2>1, <3>1, StaffSame, NamesKept DEF TerritoryWrote, NamesStay, Idle
  <2>. QED BY <2>2, <2>3
<1>. QED BY <1>1, <1>2, <1>3

LEMMA StaffWrite ==
  ASSUME TerritoryInv, RequestsOK, NEW r \in Request,
         \/ AssignToManagerWrite(r) \/ AssignToWorkerWrite(r)
         \/ CreateManagerWrite(r) \/ UpdateManagerWrite(r) \/ UpdateStatusWrite(r)
         \/ CreateWorkerWrite(r) \/ UpdateWorkerWrite(r) \/ UpdateRoleWrite(r)
  PROVE  TerritoryWrote(r) /\ UNCHANGED <<area, office, pincode>>
<1>. DEFINE h == req[r]
<1>t. /\ area \in [1..Areas -> AreaRow] /\ office \in [1..Offices -> OfficeRow]
      /\ pincode \in [Pincode -> BOOLEAN] /\ person \in [Person -> PersonRow]
      /\ TerritoryHandler(h) /\ KnowsStaff(h)
      /\ \A u \in Person : person[u] \in PersonRow /\ Profiled(person[u])
  BY DEF TerritoryInv, TerritoryTypeOK
<1>u. /\ Reply(r) /\ UNCHANGED <<area, office, pincode>>
      /\ h.op \in TerritoryOps
  BY DEF AssignToManagerWrite, AssignToWorkerWrite, CreateManagerWrite, UpdateManagerWrite,
         UpdateStatusWrite, CreateWorkerWrite, UpdateWorkerWrite, UpdateRoleWrite, Resumes, TerritoryOps
<1>s. SUFFICES StaffStays
  BY <1>t, <1>u DEF TerritoryWrote, Idle, TerritoryOps
<1>1. CASE AssignToManagerWrite(r)
  <2>1. /\ h.op = "assignToManager"
        /\ person' = [person EXCEPT ![h.user].pincodes = h.pincodes]
    BY <1>1 DEF AssignToManagerWrite, Resumes
  <2>2. h.user \in Person /\ h.pincodes \in SUBSET Pincode /\ person[h.user].manager
    BY <1>t, <2>1 DEF TerritoryHandler, KnowsStaff
  <2>3. RowStays(person[h.user], [person[h.user] EXCEPT !.pincodes = h.pincodes])
    BY <1>t, <2>2, RowEdits
  <2>. QED BY <1>t, <2>1, <2>2, <2>3, OneChanges
<1>2. CASE AssignToWorkerWrite(r)
  <2>1. /\ h.op = "assignToWorker"
        /\ person' = [person EXCEPT ![h.user].pincode = h.pincode]
    BY <1>2 DEF AssignToWorkerWrite, Resumes
  <2>2. h.user \in Person /\ h.pincode \in Pincode
    BY <1>t, <2>1 DEF TerritoryHandler
  <2>3. RowStays(person[h.user], [person[h.user] EXCEPT !.pincode = h.pincode])
    BY <1>t, <2>2, RowEdits
  <2>. QED BY <1>t, <2>1, <2>2, <2>3, OneChanges
<1>3. CASE CreateManagerWrite(r)
  <2>1. h.op = "createManager"
    BY <1>3 DEF CreateManagerWrite, Resumes
  <2>2. h.user \in Person /\ h.offices \in SUBSET (1..Offices) /\ h.areas \in SUBSET (1..Areas)
    BY <1>t, <2>1 DEF TerritoryHandler
  <2>3. CASE person' = person
    BY <2>3, StaffSame
  <2>4. CASE person' # person
    <3>1. PICK o \in h.offices :
            /\ ~Exists(h.user)
            /\ person' = [person EXCEPT ![h.user] =
                  [Nobody EXCEPT !.row = "present", !.role = "MANAGER", !.manager = TRUE,
                                 !.offices = h.offices, !.primary = o, !.areas = h.areas]]
      BY <1>3, <2>4 DEF CreateManagerWrite
    <3>2. o \in 0..Offices /\ 0 \in 0..Areas
      BY <2>2, TerritoryAssumption
    <3>3. RowStays(person[h.user],
            [Nobody EXCEPT !.row = "present", !.role = "MANAGER", !.manager = TRUE,
                           !.offices = h.offices, !.primary = o, !.areas = h.areas])
      BY <1>t, <2>2, <3>1, <3>2 DEF RowStays, PersonRow, Profiled, Nobody, Role, Exists
    <3>. QED BY <2>2, <3>1, <3>3, OneChanges
  <2>. QED BY <2>3, <2>4
<1>4. CASE UpdateManagerWrite(r)
  <2>1. h.op = "updateManager"
    BY <1>4 DEF UpdateManagerWrite, Resumes
  <2>. DEFINE m == h.user
              p == person[m]
  <2>2. /\ m \in Person /\ h.active \in Optional(BOOLEAN) /\ h.offices \in SUBSET (1..Offices)
        /\ h.areas \in Optional(SUBSET (1..Areas))
        /\ p.row = "present" /\ p.manager
    BY <1>t, <2>1 DEF TerritoryHandler, KnowsStaff, Exists
  <2>3. CASE person' = person
    BY <2>3, StaffSame
  <2>4. CASE person' # person
    <3>1. PICK o \in IF h.offices = {} THEN {p.primary} ELSE h.offices :
            person' = [person EXCEPT ![m] =
                  [p EXCEPT !.active = Given(h.active, p.active),
                            !.offices = IF h.offices = {} THEN p.offices ELSE h.offices,
                            !.primary = o, !.areas = Given(h.areas, p.areas)]]
      BY <1>4, <2>4 DEF UpdateManagerWrite
    <3>2. /\ p \in PersonRow /\ p.active \in BOOLEAN /\ p.areas \in SUBSET (1..Areas)
          /\ p.offices \in SUBSET (1..Offices) /\ p.primary \in 0..Offices
      BY <1>t, <2>2 DEF PersonRow
    <3>3. Given(h.active, p.active) \in BOOLEAN /\ Given(h.areas, p.areas) \in SUBSET (1..Areas)
      BY <2>2, <3>2, GivenFlag, GivenType
    <3>4. o \in 0..Offices
      BY <2>2, <3>1, <3>2, TerritoryAssumption
    <3>5. RowStays(p, [p EXCEPT !.active = Given(h.active, p.active),
                            !.offices = IF h.offices = {} THEN p.offices ELSE h.offices,
                            !.primary = o, !.areas = Given(h.areas, p.areas)])
      <4>. DEFINE v == Given(h.active, p.active)
                  S == IF h.offices = {} THEN p.offices ELSE h.offices
                  A == Given(h.areas, p.areas)
                  q == [p EXCEPT !.active = v, !.offices = S, !.primary = o, !.areas = A]
      <4>1. v \in BOOLEAN /\ S \in SUBSET (1..Offices) /\ A \in SUBSET (1..Areas)
        BY <2>2, <3>2, <3>3
      <4>2. Profiled(p) /\ p.row = "present" /\ p.manager
        BY <1>t, <2>2
      <4>. HIDE DEF v, S, A, p
      <4>3. q \in PersonRow
        BY <3>2, <3>4, <4>1 DEF PersonRow
      <4>4. /\ q.row = p.row /\ q.role = p.role /\ q.manager = p.manager /\ q.worker = p.worker
            /\ q.area = p.area
        BY <3>2 DEF PersonRow
      <4>5. RowStays(p, q)
        <5>. HIDE DEF q
        <5>. QED BY <4>2, <4>3, <4>4 DEF RowStays, Profiled
      <4>. QED BY <4>5 DEF v, S, A
    <3>. QED BY <2>2, <3>1, <3>5, OneChanges
  <2>. QED BY <2>3, <2>4
<1>5. CASE UpdateStatusWrite(r)
  <2>1. h.op = "updateStatus" /\ person' = SetActive(h.users, h.active)
    BY <1>5 DEF UpdateStatusWrite, Resumes
  <2>2. h.active \in BOOLEAN
    BY <1>t, <2>1 DEF TerritoryHandler
  <2>. QED BY <2>1, <2>2, ManyChange DEF SetActive
<1>6. CASE CreateWorkerWrite(r)
  <2>. DEFINE w == h.user
              m == h.manager
              q == [Nobody EXCEPT !.row = "present", !.role = "WORKER", !.worker = TRUE, !.area = h.area]
  <2>1. /\ h.op = "createWorker"
        /\ person' = IF ~Exists(w) /\ AreaExists(h.area) THEN LinkArea(m, w, q) ELSE person
    BY <1>6 DEF CreateWorkerWrite, Resumes
  <2>2. /\ w \in Person /\ m \in Person /\ h.area \in 1..Areas
        /\ Exists(m) /\ person[m].manager
    BY <1>t, <2>1 DEF TerritoryHandler, KnowsStaff
  <2>3. CASE person' = LinkArea(m, w, q) /\ ~Exists(w)
    <3>1. m # w
      BY <2>2, <2>3
    <3>2. q \in PersonRow /\ Profiled(q) /\ q.area = h.area
      <4>1. h.area \in 0..Areas /\ 0 \in 0..Offices
        BY <2>2, TerritoryAssumption
      <4>. QED BY <4>1 DEF Nobody, PersonRow, Profiled, Role
    <3>3. RowStays(person[w], q)
      BY <2>3, <3>2 DEF RowStays, Exists
    <3>4. RowStays(person[m], [person[m] EXCEPT !.areas = @ \union ({q.area} \ {0})])
      <4>1. /\ person[m] \in PersonRow /\ Profiled(person[m]) /\ person[m].manager
            /\ person[m].areas \in SUBSET (1..Areas) /\ q.area \in 1..Areas
        BY <1>t, <2>2, <3>2 DEF PersonRow
      <4>2. person[m].areas \union ({q.area} \ {0}) \in SUBSET (1..Areas)
        BY <4>1
      <4>. HIDE DEF q
      <4>. QED BY <4>1, <4>2, RowEdits
    <3>5. person' = [person EXCEPT ![w] = q,
                                   ![m] = [person[m] EXCEPT !.areas = @ \union ({q.area} \ {0})]]
      BY <1>t, <2>2, <2>3, <3>1 DEF LinkArea
    <3>6. ASSUME NEW u \in Person PROVE RowStays(person[u], person'[u])
      BY <1>t, <2>2, <3>1, <3>3, <3>4, <3>5 DEF RowStays
    <3>7. person' \in [Person -> PersonRow]
      BY <1>t, <3>5, <3>6 DEF RowStays
    <3>. QED BY <3>6, <3>7 DEF StaffStays
  <2>. QED BY <2>1, <2>3, StaffSame
<1>7. CASE UpdateWorkerWrite(r)
  <2>. DEFINE w == h.user
              m == h.manager
              p == person[w]
              q == [p EXCEPT !.active = Given(h.active, p.active), !.area = Given(h.area, p.area)]
  <2>1. /\ h.op = "updateWorker"
        /\ person' = IF h.area = {} THEN [person EXCEPT ![w] = q]
                     ELSE IF \A a \in h.area : AreaExists(a) THEN LinkArea(m, w, q) ELSE person
    BY <1>7 DEF UpdateWorkerWrite, Resumes
  <2>2. /\ w \in Person /\ m \in Person /\ m # w
        /\ h.active \in Optional(BOOLEAN) /\ h.area \in Optional(1..Areas)
        /\ Exists(m) /\ person[m].manager /\ Exists(w) /\ p.worker
    BY <1>t, <2>1 DEF TerritoryHandler, KnowsStaff
  <2>3. p \in PersonRow /\ p.active \in BOOLEAN /\ p.area \in 0..Areas
    BY <1>t, <2>2 DEF PersonRow
  <2>4. Given(h.active, p.active) \in BOOLEAN /\ Given(h.area, p.area) \in 0..Areas
    <3>1. h.area \in Optional(0..Areas)
      BY <2>2, TerritoryAssumption DEF Optional
    <3>. QED BY <2>2, <2>3, <3>1, GivenFlag, GivenRow
  <2>5. RowStays(p, q) /\ q.area \in 0..Areas
    BY <1>t, <2>2, <2>3, <2>4 DEF RowStays, PersonRow, Profiled
  <2>6. CASE person' = [person EXCEPT ![w] = q]
    BY <2>2, <2>5, <2>6, OneChanges
  <2>7. CASE person' = LinkArea(m, w, q)
    <3>1. RowStays(person[m], [person[m] EXCEPT !.areas = @ \union ({q.area} \ {0})])
      <4>1. person[m].areas \union ({q.area} \ {0}) \in SUBSET (1..Areas)
        BY <1>t, <2>2, <2>5, TerritoryAssumption DEF PersonRow
      <4>. QED BY <1>t, <2>2, <4>1, RowEdits
    <3>2. person' = [person EXCEPT ![w] = q,
                                   ![m] = [person[m] EXCEPT !.areas = @ \union ({q.area} \ {0})]]
      BY <1>t, <2>2, <2>7 DEF LinkArea
    <3>3. ASSUME NEW u \in Person PROVE RowStays(person[u], person'[u])
      BY <1>t, <2>2, <2>5, <3>1, <3>2 DEF RowStays
    <3>4. person' \in [Person -> PersonRow]
      BY <1>t, <3>2, <3>3 DEF RowStays
    <3>. QED BY <3>3, <3>4 DEF StaffStays
  <2>. QED BY <2>1, <2>6, <2>7, StaffSame
<1>8. CASE UpdateRoleWrite(r)
  <2>. DEFINE u == h.user
              p == person[u]
  <2>1. h.op = "updateRole"
    BY <1>8 DEF UpdateRoleWrite, Resumes
  <2>2. /\ u \in Person /\ h.role \in Role \ {"SUPER_ADMIN"}
        /\ h.role = "MANAGER" => h.place \in 1..Offices
        /\ h.role = "WORKER" => h.place \in 1..Areas
        /\ p.row = "present" /\ p.role # "SUPER_ADMIN"
    BY <1>t, <2>1 DEF TerritoryHandler, KnowsStaff, Exists
  <2>3. /\ p \in PersonRow /\ Profiled(p)
    BY <1>t, <2>2
  <2>4. CASE h.role = "MANAGER"
    <3>1. person' = [person EXCEPT ![u] = [p EXCEPT !.role = "MANAGER", !.manager = TRUE,
                                                    !.primary = h.place]]
      BY <1>8, <2>4 DEF UpdateRoleWrite
    <3>2. RowStays(p, [p EXCEPT !.role = "MANAGER", !.manager = TRUE, !.primary = h.place])
      <4>1. h.place \in 0..Offices
        BY <2>2, <2>4, TerritoryAssumption
      <4>. QED BY <2>2, <2>3, <4>1, RowEdits
    <3>. QED BY <2>2, <3>1, <3>2, OneChanges
  <2>5. CASE h.role = "WORKER" /\ AreaExists(h.place)
    <3>1. person' = [person EXCEPT ![u] = [p EXCEPT !.role = "WORKER", !.worker = TRUE,
                                                    !.area = h.place]]
      BY <1>8, <2>5 DEF UpdateRoleWrite
    <3>2. RowStays(p, [p EXCEPT !.role = "WORKER", !.worker = TRUE, !.area = h.place])
      <4>1. h.place \in 0..Areas
        BY <2>2, <2>5, TerritoryAssumption
      <4>. QED BY <2>2, <2>3, <4>1, RowEdits
    <3>. QED BY <2>2, <3>1, <3>2, OneChanges
  <2>6. CASE h.role = "WORKER" /\ ~AreaExists(h.place)
    <3>1. person' = person
      BY <1>8, <2>6 DEF UpdateRoleWrite
    <3>. QED BY <3>1, StaffSame
  <2>7. CASE h.role \notin {"MANAGER", "WORKER"}
    <3>1. person' = [person EXCEPT ![u].role = h.role]
      BY <1>8, <2>7 DEF UpdateRoleWrite
    <3>2. RowStays(p, [p EXCEPT !.role = h.role])
      BY <2>2, <2>3, <2>7 DEF RowStays, PersonRow, Profiled, Role
    <3>. QED BY <1>t, <2>2, <3>1, <3>2, OneChanges
  <2>. QED BY <2>4, <2>5, <2>6, <2>7
<1>. QED BY <1>1, <1>2, <1>3, <1>4, <1>5, <1>6, <1>7, <1>8

LEMMA TerritoryWriters ==
  ASSUME NEW r, TerritoryWrites(r)
  PROVE  req[r].op \in TerritoryOps
<1>1. ASSUME CreateAreaWrite(r) \/ UpdateAreaWrite(r) \/ RemoveAreaWrite(r) \/ DeleteAreaWrite(r)
             \/ CreateOfficeWrite(r) \/ UpdateOfficeWrite(r) \/ RemoveOfficeWrite(r)
      PROVE  req[r].op \in TerritoryOps
  BY <1>1 DEF CreateAreaWrite, UpdateAreaWrite, RemoveAreaWrite, DeleteAreaWrite, CreateOfficeWrite,
       UpdateOfficeWrite, RemoveOfficeWrite, Resumes, TerritoryOps
<1>2. ASSUME AssignToManagerWrite(r) \/ AssignToWorkerWrite(r) \/ UpdateStatusWrite(r)
             \/ CreateManagerWrite(r) \/ UpdateManagerWrite(r)
      PROVE  req[r].op \in TerritoryOps
  BY <1>2 DEF AssignToManagerWrite, AssignToWorkerWrite, CreateManagerWrite, UpdateManagerWrite,
       UpdateStatusWrite, Resumes, TerritoryOps
<1>3. ASSUME CreateWorkerWrite(r) \/ UpdateWorkerWrite(r) \/ UpdateRoleWrite(r)
      PROVE  req[r].op \in TerritoryOps
  BY <1>3 DEF CreateWorkerWrite, UpdateWorkerWrite, UpdateRoleWrite, Resumes, TerritoryOps
<1>. QED BY <1>1, <1>2, <1>3 DEF TerritoryWrites

\* After a transaction nobody else is under way, unless requests overlap.
LEMMA TerritoryEnds ==
  ASSUME TerritoryInv, RequestsOK, workload' = workload, NEW r \in Request,
         TerritoryWrites(r), TerritoryWrote(r), OfficeNamesDistinct'
  PROVE  TerritoryInv' /\ Moves(r, TerritoryOps)
<1>1. /\ req' = [x \in Request |-> req'[x]] /\ req'[r] = Idle
      /\ \A x \in Request : x # r => req'[x] = req[x]
  BY Replied DEF TerritoryWrote
<1>2. Moves(r, TerritoryOps)
  BY <1>1, TerritoryWriters DEF Moves
<1>3. TerritoryTypeOK' /\ \A u \in Person : Profiled(person'[u])
  BY DEF TerritoryTypeOK, TerritoryWrote, StaffStays, RowStays
<1>4. ASSUME NEW x \in Request PROVE TerritoryHandler(req'[x]) /\ KnowsStaff(req[x])'
  <2>1. CASE req'[x] = Idle
    BY <2>1 DEF Idle, TerritoryHandler, KnowsStaff
  <2>2. CASE req'[x] = req[x]
    <3>1. /\ TerritoryHandler(req[x]) /\ KnowsStaff(req[x])
          /\ \A u \in Person : RowStays(person[u], person'[u])
      BY DEF TerritoryInv, TerritoryWrote, StaffStays
    <3>2. KnowsStaff(req[x])'
      BY <2>2, <3>1 DEF KnowsStaff, TerritoryHandler, RowStays, Exists
    <3>. QED BY <2>2, <3>1, <3>2
  <2>. QED BY <1>1, <2>1, <2>2
<1>5. ~workload.overlap => \A x \in Request : req'[x] = Idle
  BY <1>1 DEF RequestsOK, TerritoryWrote
<1>6. ~workload'.overlap => \A x \in Request : TerritoryChecked(req[x])'
  BY <1>5 DEF TerritoryChecked, Idle
<1>. QED BY <1>2, <1>3, <1>4, <1>6 DEF TerritoryInv

\* A handler of the territory takes its place.
LEMMA TerritoryTaken ==
  ASSUME TerritoryInv, RequestsOK, workload' = workload, NEW r \in Request, MayStart(r),
         NEW h, Awaits(r, h), TerritoryTakes(h), UNCHANGED territory
  PROVE  TerritoryInv' /\ Moves(r, TerritoryOps)
<1>1. /\ req' = [x \in Request |-> req'[x]] /\ req'[r] = h
      /\ \A x \in Request : x # r => req'[x] = req[x]
  BY Awaited
<1>2. Moves(r, TerritoryOps)
  BY <1>1 DEF Moves, TerritoryTakes
<1>3. TerritoryTypeOK' /\ (\A u \in Person : Profiled(person'[u])) /\ OfficeNamesDistinct'
  BY DEF TerritoryInv, TerritoryTypeOK, territory, OfficeNamesDistinct, OfficeExists
<1>4. ASSUME NEW x \in Request
      PROVE  TerritoryHandler(req'[x]) /\ KnowsStaff(req[x])'
  BY <1>1 DEF TerritoryInv, TerritoryTakes, KnowsStaff, territory, Exists
<1>5. ASSUME NEW x \in Request, ~workload.overlap
      PROVE  TerritoryChecked(req[x])'
  <2>1. TerritoryChecked(req'[x])
    BY <1>1, <1>5 DEF TerritoryInv, TerritoryTakes
  <2>. QED BY <2>1 DEF TerritoryChecked, territory, AreaExists, OfficesOf, ManagersOf, WorkersOf,
                      NameAvailable, OfficeExists, Exists
<1>. QED BY <1>2, <1>3, <1>4, <1>5 DEF TerritoryInv

LEMMA PincodeSet ==
  ASSUME TerritoryInv, RequestsOK, workload' = workload, NEW r \in Request,
         NEW p \in Pincode, NEW active \in BOOLEAN, SetPincode(r, p, active)
  PROVE  TerritoryInv' /\ Moves(r, TerritoryOps) /\ UNCHANGED <<area, office, person>>
<1>1. /\ req' = req /\ MayStart(r) /\ UNCHANGED <<area, office, person>>
      /\ pincode' = [pincode EXCEPT ![p] = active]
  BY DEF SetPincode, AtOnce, Arrives
<1>2. Moves(r, TerritoryOps)
  BY <1>1 DEF Moves, RequestsOK
<1>3. TerritoryTypeOK' /\ (\A u \in Person : Profiled(person'[u])) /\ OfficeNamesDistinct'
  BY <1>1 DEF TerritoryInv, TerritoryTypeOK, OfficeNamesDistinct, OfficeExists
<1>4. ASSUME NEW x \in Request
      PROVE  TerritoryHandler(req'[x]) /\ KnowsStaff(req[x])'
  BY <1>1 DEF TerritoryInv, KnowsStaff, Exists
<1>5. ASSUME NEW x \in Request, ~workload.overlap
      PROVE  TerritoryChecked(req[x])'
  <2>1. TerritoryChecked(req[x])
    BY <1>5 DEF TerritoryInv
  <2>. QED BY <1>1, <2>1 DEF TerritoryChecked, AreaExists, OfficesOf, ManagersOf, WorkersOf,
                      NameAvailable, OfficeExists, Exists
<1>. QED BY <1>1, <1>2, <1>3, <1>4, <1>5 DEF TerritoryInv

\* A step of another part of the back office.
LEMMA TerritoryFrame ==
  ASSUME TerritoryInv, workload' = workload, NEW ops, Stirs(ops),
         ops \intersect TerritoryOps = {}, UNCHANGED territory
  PROVE  TerritoryInv'
<1>1. TerritoryTypeOK' /\ (\A u \in Person : Profiled(person'[u])) /\ OfficeNamesDistinct'
  BY DEF TerritoryInv, TerritoryTypeOK, territory, OfficeNamesDistinct, OfficeExists
<1>2. ASSUME NEW x \in Request
      PROVE  req'[x] = req[x] \/ req'[x].op \notin TerritoryOps
  BY DEF Stirs, Idle, TerritoryOps
<1>3. ASSUME NEW x \in Request
      PROVE  TerritoryHandler(req'[x]) /\ KnowsStaff(req[x])'
  <2>1. CASE req'[x] = req[x]
    BY <2>1 DEF TerritoryInv, KnowsStaff, territory, Exists
  <2>2. CASE req'[x].op \notin TerritoryOps
    BY <2>2 DEF TerritoryHandler, KnowsStaff, TerritoryOps
  <2>. QED BY <1>2, <2>1, <2>2
<1>4. ASSUME NEW x \in Request, ~workload.overlap
      PROVE  TerritoryChecked(req[x])'
  <2>1. CASE req'[x] = req[x]
    <3>1. TerritoryChecked(req'[x])
      BY <1>4, <2>1 DEF TerritoryInv
    <3>. QED BY <3>1 DEF TerritoryChecked, territory, AreaExists, OfficesOf, ManagersOf, WorkersOf,
                        NameAvailable, OfficeExists, Exists
  <2>2. CASE req'[x].op \notin TerritoryOps
    BY <2>2 DEF TerritoryChecked, TerritoryOps
  <2>. QED BY <1>2, <2>1, <2>2
<1>. QED BY <1>1, <1>3, <1>4 DEF TerritoryInv

LEMMA TerritoryKeeps ==
  ASSUME TerritoryInv, RequestsOK, workload' = workload, TerritoryNext
  PROVE  TerritoryInv' /\ \E r : Moves(r, TerritoryOps)
<1>1. PICK r \in Request : (MayStart(r) /\ (TerritoryStarts(r) \/ StaffStarts(r))) \/ TerritoryWrites(r)
  BY DEF TerritoryNext
<1>2. CASE MayStart(r) /\ TerritoryStarts(r)
  BY <1>2, TerritoryBegins, TerritoryTaken, PincodeSet
<1>3. CASE MayStart(r) /\ StaffStarts(r)
  BY <1>3, StaffBegins, TerritoryTaken
<1>4. CASE TerritoryWrites(r)
  <2>1. CASE CreateAreaWrite(r) \/ UpdateAreaWrite(r) \/ RemoveAreaWrite(r) \/ DeleteAreaWrite(r)
    BY <1>4, <2>1, AreasWrite, NamesKept, TerritoryEnds
  <2>2. CASE CreateOfficeWrite(r) \/ UpdateOfficeWrite(r) \/ RemoveOfficeWrite(r)
    BY <1>4, <2>2, OfficesWrite, TerritoryEnds
  <2>3. CASE \/ AssignToManagerWrite(r) \/ AssignToWorkerWrite(r)
             \/ CreateManagerWrite(r) \/ UpdateManagerWrite(r) \/ UpdateStatusWrite(r)
             \/ CreateWorkerWrite(r) \/ UpdateWorkerWrite(r) \/ UpdateRoleWrite(r)
    <3>1. TerritoryWrote(r) /\ UNCHANGED <<area, office, pincode>>
      BY <2>3, StaffWrite
    <3>2. OfficeNamesDistinct'
      BY <3>1, NamesKept DEF NamesStay
    <3>. QED BY <1>4, <3>1, <3>2, TerritoryEnds
  <2>. QED BY <1>4, <2>1, <2>2, <2>3 DEF TerritoryWrites
<1>. QED BY <1>1, <1>2, <1>3, <1>4

LEMMA TerritoryStartsOut ==
  ASSUME RequestInit, TerritoryInit
  PROVE  TerritoryInv
<1>1. TerritoryTypeOK
  BY TerritoryAssumption DEF TerritoryInit, TerritoryTypeOK, AreaRow, OfficeRow
<1>2. \A u \in Person : Profiled(person[u])
  BY FoundersAssumption DEF TerritoryInit, Profiled
<1>3. \A x \in Request : TerritoryHandler(req[x]) /\ KnowsStaff(req[x]) /\ TerritoryChecked(req[x])
  BY DEF RequestInit, Idle, TerritoryHandler, KnowsStaff, TerritoryChecked
<1>4. OfficeNamesDistinct
  BY DEF TerritoryInit, OfficeNamesDistinct, OfficeExists
<1>. QED BY <1>1, <1>2, <1>3, <1>4 DEF TerritoryInv

-----------------------------------------------------------------------------
(* Staff follow their places *)

CascadeStep ==
  ~workload.overlap =>
    \A a \in 1..Areas : area'[a].active # area[a].active /\ area'[a].row = area[a].row =>
      \A u \in ManagersOf(a) \union WorkersOf(a) : person'[u].active = area'[a].active

DeletionStep ==
  ~workload.overlap =>
    \A a \in 1..Areas : AreaExists(a) /\ area'[a].row = "gone" => UNCHANGED <<office, person>>

HiredStep ==
  \A r \in Request, m, w \in Person :
    /\ req[r].op \in {"createWorker", "updateWorker"} /\ req'[r] = Idle
    /\ req[r].manager = m /\ req[r].user = w
    /\ person'[w].area # person[w].area
    /\ person[m].pincodes = {} /\ person'[w].role = "WORKER"
    => InTeam(m, w)'

SuperStep ==
  \A u \in Person : Exists(u) => (person'[u].role = "SUPER_ADMIN" <=> person[u].role = "SUPER_ADMIN")

\* The status of one area is written, and everyone there follows.
LEMMA CascadeReaches ==
  ASSUME NEW a \in 1..Areas, NEW active, person \in [Person -> PersonRow],
         person' = Cascade(a, active), area'[a].active = active,
         \A b \in 1..Areas : b # a => area'[b] = area[b]
  PROVE  CascadeStep
<1>1. ASSUME NEW u \in ManagersOf(a) \union WorkersOf(a) PROVE person'[u].active = active
  BY DEF Cascade, ManagersOf, WorkersOf, PersonRow
<1>. QED BY <1>1 DEF CascadeStep

LEMMA AreasFollow ==
  ASSUME TerritoryInv, RequestsOK, NEW r \in Request,
         \/ CreateAreaWrite(r) \/ UpdateAreaWrite(r) \/ RemoveAreaWrite(r)
         \/ UpdateOfficeWrite(r) \/ RemoveOfficeWrite(r)
  PROVE  CascadeStep /\ DeletionStep
<1>. DEFINE h == req[r]
<1>t. /\ area \in [1..Areas -> AreaRow] /\ person \in [Person -> PersonRow]
      /\ TerritoryHandler(h)
      /\ ~workload.overlap => TerritoryChecked(h)
      /\ \A a \in 1..Areas : area[a].active \in BOOLEAN
  BY DEF TerritoryInv, TerritoryTypeOK, AreaRow
<1>0. CASE workload.overlap
  BY <1>0 DEF CascadeStep, DeletionStep
<1>s. SUFFICES ASSUME ~workload.overlap PROVE CascadeStep /\ DeletionStep
  BY <1>0
<1>c. TerritoryChecked(h)
  BY <1>t, <1>s
<1>1. CASE CreateAreaWrite(r)
  <2>1. PICK a \in NextRow(area, Areas) :
          area' = [area EXCEPT ![a] = [row |-> "present", active |-> h.active]]
    BY <1>1 DEF CreateAreaWrite
  <2>2. a \in 1..Areas /\ area[a].row = "absent"
    BY DEF NextRow
  <2>3. \A b \in 1..Areas : area'[b] = area[b] \/ (area[b].row = "absent" /\ area'[b].row = "present")
    BY <1>t, <2>1, <2>2
  <2>. QED BY <2>3 DEF CascadeStep, DeletionStep, AreaExists
<1>2. CASE UpdateAreaWrite(r)
  <2>. DEFINE a == h.area
  <2>1. /\ h.op = "updateArea"
        /\ a \in 1..Areas /\ h.active \in Optional(BOOLEAN) /\ AreaExists(a)
        /\ h.changing <=> h.active \notin {{}, {area[a].active}}
    BY <1>2, <1>t, <1>c DEF UpdateAreaWrite, Resumes, TerritoryHandler, TerritoryChecked
  <2>2. /\ area' = [area EXCEPT ![a].active = Given(h.active, area[a].active)]
        /\ person' = IF h.changing THEN Cascade(a, Given(h.active, TRUE)) ELSE person
    BY <1>2, <2>1 DEF UpdateAreaWrite
  <2>3. area'[a].row = area[a].row /\ area'[a].active = Given(h.active, area[a].active)
        /\ \A b \in 1..Areas : b # a => area'[b] = area[b]
    BY <1>t, <2>1, <2>2 DEF AreaRow
  <2>4. DeletionStep
    BY <2>3 DEF DeletionStep, AreaExists
  <2>5. CASE h.changing
    <3>. DEFINE v == Given(h.active, TRUE)
    <3>1. Given(h.active, area[a].active) = v
      <4>1. h.active # {}
        BY <2>1, <2>5
      <4>. QED BY <1>t, <2>1, <4>1, GivenAnyway
    <3>2. a \in 1..Areas /\ person' = Cascade(a, v) /\ area'[a].active = v
      BY <2>1, <2>2, <2>3, <2>5, <3>1
    <3>. HIDE DEF v
    <3>. QED BY <1>t, <2>3, <2>4, <3>2, CascadeReaches
  <2>6. CASE ~h.changing
    <3>1. Given(h.active, area[a].active) = area[a].active
      BY <1>t, <2>1, <2>6, GivenFlag
    <3>. QED BY <2>3, <2>4, <3>1 DEF CascadeStep
  <2>. QED BY <2>5, <2>6
<1>3. CASE RemoveAreaWrite(r)
  <2>. DEFINE a == h.area
  <2>1. /\ a \in 1..Areas /\ AreaExists(a) /\ (h.changing <=> area[a].active)
    BY <1>3, <1>t, <1>c DEF RemoveAreaWrite, Resumes, TerritoryHandler, TerritoryChecked
  <2>2. /\ area' = [area EXCEPT ![a].active = FALSE]
        /\ person' = IF h.changing THEN Cascade(a, FALSE) ELSE person
    BY <1>3, <2>1 DEF RemoveAreaWrite
  <2>3. area'[a].row = area[a].row /\ area'[a].active = FALSE
        /\ \A b \in 1..Areas : b # a => area'[b] = area[b]
    BY <1>t, <2>1, <2>2 DEF AreaRow
  <2>4. DeletionStep
    BY <2>3 DEF DeletionStep, AreaExists
  <2>5. CASE h.changing
    BY <1>t, <2>1, <2>2, <2>3, <2>4, <2>5, CascadeReaches
  <2>6. CASE ~h.changing
    <3>1. area[a].active = FALSE
      BY <1>t, <2>1, <2>6
    <3>. QED BY <2>3, <2>4, <3>1 DEF CascadeStep
  <2>. QED BY <2>5, <2>6
<1>4. CASE UpdateOfficeWrite(r)
  <2>. DEFINE a == h.area
  <2>1. /\ h.op = "updateOffice" /\ a \in 0..Areas /\ (h.changing => h.active # {})
        /\ h.active \in Optional(BOOLEAN)
    BY <1>4, <1>t DEF UpdateOfficeWrite, Resumes, TerritoryHandler
  <2>2. CASE area' = area
    BY <2>2 DEF CascadeStep, DeletionStep, AreaExists
  <2>3. CASE area' # area
    <3>1. /\ h.changing /\ AreaExists(a)
          /\ area' = [area EXCEPT ![a].active = Given(h.active, area[a].active)]
          /\ person' = Cascade(a, Given(h.active, TRUE))
      BY <1>4, <2>3 DEF UpdateOfficeWrite
    <3>2. a \in 1..Areas
      BY <3>1 DEF AreaExists
    <3>3. area'[a].row = area[a].row /\ area'[a].active = Given(h.active, area[a].active)
          /\ \A b \in 1..Areas : b # a => area'[b] = area[b]
      BY <1>t, <3>1, <3>2 DEF AreaRow
    <3>4. DeletionStep
      BY <3>3 DEF DeletionStep, AreaExists
    <3>. DEFINE v == Given(h.active, TRUE)
    <3>5. Given(h.active, area[a].active) = v
      <4>1. h.active # {}
        BY <2>1, <3>1
      <4>. QED BY <1>t, <2>1, <3>2, <4>1, GivenAnyway
    <3>6. person' = Cascade(a, v) /\ area'[a].active = v
      BY <3>1, <3>3, <3>5
    <3>. HIDE DEF v
    <3>. QED BY <1>t, <3>2, <3>3, <3>4, <3>6, CascadeReaches
  <2>. QED BY <2>2, <2>3
<1>5. CASE RemoveOfficeWrite(r)
  <2>. DEFINE a == h.area
  <2>2. CASE area' = area
    BY <2>2 DEF CascadeStep, DeletionStep, AreaExists
  <2>3. CASE area' # area
    <3>1. /\ h.changing /\ AreaExists(a)
          /\ area' = [area EXCEPT ![a].active = FALSE]
          /\ person' = Cascade(a, FALSE)
      BY <1>5, <2>3 DEF RemoveOfficeWrite
    <3>2. a \in 1..Areas
      BY <3>1 DEF AreaExists
    <3>3. area'[a].row = area[a].row /\ area'[a].active = FALSE
          /\ \A b \in 1..Areas : b # a => area'[b] = area[b]
      BY <1>t, <3>1, <3>2 DEF AreaRow
    <3>4. DeletionStep
      BY <3>3 DEF DeletionStep, AreaExists
    <3>. QED BY <1>t, <3>1, <3>2, <3>3, <3>4, CascadeReaches
  <2>. QED BY <2>2, <2>3
<1>. QED BY <1>1, <1>2, <1>3, <1>4, <1>5

\* Nobody was in the area, so that nobody, and no office, leaves it.
LEMMA DeletionFollows ==
  ASSUME TerritoryInv, RequestsOK, NEW r \in Request, DeleteAreaWrite(r)
  PROVE  CascadeStep /\ DeletionStep
<1>. DEFINE h == req[r]
            a == h.area
<1>t. /\ area \in [1..Areas -> AreaRow] /\ office \in [1..Offices -> OfficeRow]
      /\ person \in [Person -> PersonRow]
      /\ TerritoryHandler(h)
      /\ ~workload.overlap => TerritoryChecked(h)
      /\ \A u \in Person : Profiled(person[u])
  BY DEF TerritoryInv, TerritoryTypeOK
<1>1. h.op = "deleteArea" /\ a \in 1..Areas
  BY <1>t DEF DeleteAreaWrite, Resumes, TerritoryHandler
<1>2. CASE AreaExists(a)
  <2>1. /\ area' = [area EXCEPT ![a].row = "gone"]
        /\ office' = Attach(OfficesOf(a), 0)
        /\ person' = [u \in Person |->
              [person[u] EXCEPT !.areas = person[u].areas \ {a},
                                !.area = IF person[u].area = a THEN 0 ELSE person[u].area]]
    BY <1>2 DEF DeleteAreaWrite
  <2>2. \A b \in 1..Areas : area'[b].active = area[b].active
    BY <1>t, <1>1, <2>1 DEF AreaRow
  <2>3. ASSUME ~workload.overlap PROVE UNCHANGED <<office, person>>
    <3>1. OfficesOf(a) = {} /\ ManagersOf(a) = {} /\ WorkersOf(a) = {}
      BY <1>t, <1>1, <2>3 DEF TerritoryChecked
    <3>2. office' = office
      BY <1>t, <2>1, <3>1 DEF Attach
    <3>3. ASSUME NEW u \in Person PROVE person'[u] = person[u]
      <4>1. person[u] \in PersonRow /\ Profiled(person[u]) /\ u \notin ManagersOf(a) /\ u \notin WorkersOf(a)
        BY <1>t, <3>1
      <4>2. a # 0
        BY <1>1
      <4>3. a \notin person[u].areas /\ person[u].area # a
        BY <4>1, <4>2 DEF ManagersOf, WorkersOf, Exists, PersonRow, Profiled
      <4>4. person[u].areas \ {a} = person[u].areas
        BY <4>3
      <4>5. [person[u] EXCEPT !.areas = person[u].areas, !.area = person[u].area] = person[u]
        BY <4>1 DEF PersonRow
      <4>. QED BY <2>1, <4>3, <4>4, <4>5
    <3>4. person' = person
      BY <1>t, <2>1, <3>3
    <3>. QED BY <3>2, <3>4
  <2>. QED BY <2>2, <2>3 DEF CascadeStep, DeletionStep
<1>3. CASE ~AreaExists(a)
  BY <1>3 DEF DeleteAreaWrite, CascadeStep, DeletionStep, AreaExists
<1>. QED BY <1>2, <1>3

\* The area a worker has been put in is among those of the manager.
LEMMA HiredFollows ==
  ASSUME TerritoryInv, RequestsOK, NEW x \in Request, NEW m \in Person, NEW w \in Person,
         req[x].op \in {"createWorker", "updateWorker"}, req[x].manager = m, req[x].user = w,
         TerritoryWrites(x), person'[w].area # person[w].area,
         person[m].pincodes = {}, person'[w].role = "WORKER"
  PROVE  InTeam(m, w)'
<1>. DEFINE h == req[x]
<1>t. /\ person \in [Person -> PersonRow]
      /\ TerritoryHandler(h) /\ KnowsStaff(h)
      /\ \A u \in Person : person[u] \in PersonRow /\ Profiled(person[u])
  BY DEF TerritoryInv, TerritoryTypeOK
<1>u. m \in Person /\ w \in Person /\ Exists(m) /\ person[m].manager
  BY <1>t DEF TerritoryHandler, KnowsStaff
<1>1. CASE CreateWorkerWrite(x)
  <2>. DEFINE q == [Nobody EXCEPT !.row = "present", !.role = "WORKER", !.worker = TRUE, !.area = h.area]
  <2>1. h.op = "createWorker"
    BY <1>1 DEF CreateWorkerWrite, Resumes
  <2>2. person' = LinkArea(m, w, q) /\ ~Exists(w)
    BY <1>1 DEF CreateWorkerWrite
  <2>3. h.area \in 1..Areas /\ m # w
    BY <1>t, <1>u, <2>1, <2>2 DEF TerritoryHandler
  <2>4. q.row = "present" /\ q.role = "WORKER" /\ q.worker /\ q.area = h.area
    BY DEF Nobody
  <2>5. /\ person'[w] = q
        /\ person'[m] = [person[m] EXCEPT !.areas = person[m].areas \union ({q.area} \ {0})]
    BY <1>t, <1>u, <2>2, <2>3 DEF LinkArea
  <2>6. person'[m].pincodes = {} /\ h.area \in person'[m].areas
    BY <1>t, <1>u, <2>3, <2>4, <2>5 DEF PersonRow
  <2>. QED BY <2>4, <2>5, <2>6 DEF InTeam, InFilter, Has, Exists
<1>2. CASE UpdateWorkerWrite(x)
  <2>. DEFINE p == person[w]
              q == [p EXCEPT !.active = Given(h.active, p.active), !.area = Given(h.area, p.area)]
  <2>1. h.op = "updateWorker"
    BY <1>2 DEF UpdateWorkerWrite, Resumes
  <2>2. m # w /\ Exists(w) /\ p.worker /\ h.area \in Optional(1..Areas)
    BY <1>t, <2>1 DEF TerritoryHandler, KnowsStaff
  <2>3. p \in PersonRow
    BY <1>t, <1>u
  <2>4. h.area # {}
    <3>1. ASSUME h.area = {} PROVE FALSE
      <4>1. person' = [person EXCEPT ![w] = q]
        BY <1>2, <3>1 DEF UpdateWorkerWrite
      <4>2. q.area = p.area
        BY <2>3, <3>1 DEF Given, PersonRow
      <4>. QED BY <1>t, <1>u, <4>1, <4>2
    <3>. QED BY <3>1
  <2>5. person' = LinkArea(m, w, q)
    BY <1>2, <2>4 DEF UpdateWorkerWrite
  <2>6. Given(h.area, p.area) \in 1..Areas
    <3>1. PICK a \in 1..Areas : h.area = {a}
      BY <2>2, <2>4 DEF Optional
    <3>2. (CHOOSE v \in h.area : TRUE) \in h.area
      BY <3>1
    <3>. QED BY <2>4, <3>1, <3>2 DEF Given
  <2>7. /\ person'[w] = q
        /\ person'[m] = [person[m] EXCEPT !.areas = person[m].areas \union ({q.area} \ {0})]
    BY <1>t, <1>u, <2>2, <2>5 DEF LinkArea
  <2>8. q.row = "present" /\ q.worker /\ q.area = Given(h.area, p.area)
    BY <2>2, <2>3 DEF PersonRow, Exists
  <2>9. q.area # 0
    BY <2>6, <2>8
  <2>10. person'[m].pincodes = {} /\ q.area \in person'[m].areas
    BY <1>t, <1>u, <2>7, <2>9 DEF PersonRow
  <2>. QED BY <2>7, <2>8, <2>10 DEF InTeam, InFilter, Has, Exists
<1>. QED BY <1>1, <1>2 DEF TerritoryWrites, Resumes, CreateAreaWrite, UpdateAreaWrite, RemoveAreaWrite,
         DeleteAreaWrite, CreateOfficeWrite, UpdateOfficeWrite, RemoveOfficeWrite,
         AssignToManagerWrite, AssignToWorkerWrite, CreateManagerWrite, UpdateManagerWrite,
         UpdateStatusWrite, UpdateRoleWrite

LEMMA TerritoryFollows ==
  ASSUME TerritoryInv, RequestsOK, workload' = workload, TerritoryNext
  PROVE  CascadeStep /\ DeletionStep /\ HiredStep /\ SuperStep
<1>1. PICK r \in Request : (MayStart(r) /\ (TerritoryStarts(r) \/ StaffStarts(r))) \/ TerritoryWrites(r)
  BY DEF TerritoryNext
<1>2. CASE MayStart(r) /\ (TerritoryStarts(r) \/ StaffStarts(r))
  <2>1. UNCHANGED <<area, office, person>>
    BY <1>2, TerritoryBegins, StaffBegins, PincodeSet DEF territory
  <2>. QED BY <2>1 DEF CascadeStep, DeletionStep, HiredStep, SuperStep
<1>3. CASE TerritoryWrites(r)
  <2>1. TerritoryWrote(r)
    BY <1>3, AreasWrite, OfficesWrite, StaffWrite DEF TerritoryWrites
  <2>2. SuperStep
    BY <2>1 DEF TerritoryWrote, StaffStays, RowStays, SuperStep, Exists
  <2>3. HiredStep
    <3>1. SUFFICES ASSUME NEW x \in Request, NEW m \in Person, NEW w \in Person,
                          req[x].op \in {"createWorker", "updateWorker"}, req'[x] = Idle,
                          req[x].manager = m, req[x].user = w,
                          person'[w].area # person[w].area,
                          person[m].pincodes = {}, person'[w].role = "WORKER"
                   PROVE  InTeam(m, w)'
      BY DEF HiredStep
    <3>2. x = r
      BY <2>1, <3>1, Replied DEF TerritoryWrote, Idle
    <3>. QED BY <1>3, <3>1, <3>2, HiredFollows
  <2>4. CascadeStep /\ DeletionStep
    <3>1. CASE \/ CreateAreaWrite(r) \/ UpdateAreaWrite(r) \/ RemoveAreaWrite(r)
               \/ UpdateOfficeWrite(r) \/ RemoveOfficeWrite(r)
      BY <3>1, AreasFollow
    <3>2. CASE DeleteAreaWrite(r)
      BY <3>2, DeletionFollows
    <3>3. CASE area' = area
      BY <3>3 DEF CascadeStep, DeletionStep, AreaExists
    <3>4. CASE \/ CreateOfficeWrite(r) \/ AssignToManagerWrite(r) \/ AssignToWorkerWrite(r)
               \/ CreateManagerWrite(r) \/ UpdateManagerWrite(r) \/ UpdateStatusWrite(r)
               \/ CreateWorkerWrite(r) \/ UpdateWorkerWrite(r) \/ UpdateRoleWrite(r)
      <4>1. area' = area
        BY <3>4 DEF CreateOfficeWrite, AssignToManagerWrite, AssignToWorkerWrite,
               CreateManagerWrite, UpdateManagerWrite, UpdateStatusWrite,
               CreateWorkerWrite, UpdateWorkerWrite, UpdateRoleWrite
      <4>. QED BY <3>3, <4>1
    <3>. QED BY <1>3, <3>1, <3>2, <3>4 DEF TerritoryWrites
  <2>. QED BY <2>2, <2>3, <2>4
<1>. QED BY <1>1, <1>2, <1>3

LEMMA OthersFollow ==
  ASSUME UNCHANGED territory
  PROVE  CascadeStep /\ DeletionStep /\ HiredStep /\ SuperStep
BY DEF territory, CascadeStep, DeletionStep, HiredStep, SuperStep

-----------------------------------------------------------------------------
(* Tasks *)

TaskOps ==
  {"createTask", "updateTask", "removeTask", "assignWorker", "approveTask", "rejectTask",
   "startTask", "completeTask"}

\* A task that awaits approval, or has it, has its photos; and its date if it has it.
Evident(row) ==
  /\ row.row = "absent" => row.worker = None
  /\ row.status \in {"COMPLETED_PENDING_APPROVAL", "COMPLETED"} => row.photos
  /\ row.status = "COMPLETED" => row.stamped

\* The values a handler of tasks has been given; photos are never taken back.
TaskHandler(h) ==
  /\ h.op \in TaskOps \ {"createTask"} => h.task \in 1..Tasks
  /\ h.op = "createTask" =>
       h.pincode \in Pincode /\ h.manager \in Optional(Person) /\ h.worker \in Optional(Person)
  /\ h.op = "updateTask" =>
       /\ h.pincode \in Optional(Pincode)
       /\ h.manager \in Optional(Person) /\ h.worker \in Optional(Person)
  /\ h.op = "assignWorker" => h.worker \in Person
  /\ h.op = "approveTask" => task[h.task].photos

\* What it has checked, which holds until it writes if it is alone.
TaskChecked(h) ==
  /\ h.op \in {"rejectTask", "startTask", "completeTask"} => task[h.task].status # "COMPLETED"
  /\ h.op = "createTask" =>
       \A w \in h.worker : person[w].active /\ person[w].pincode = h.pincode
  /\ h.op = "updateTask" =>
       \A w \in h.worker : person[w].active /\ person[w].pincode = Given(h.pincode, task[h.task].pincode)
  /\ h.op = "assignWorker" =>
       person[h.worker].active /\ person[h.worker].pincode = task[h.task].pincode

TaskInv ==
  /\ TaskTypeOK
  /\ \A t \in 1..Tasks : Evident(task[t])
  /\ \A x \in Request : TaskHandler(req[x])
  /\ ~workload.overlap => \A x \in Request : TaskChecked(req[x])

LEMMA TaskFrame ==
  ASSUME TaskInv, workload' = workload, NEW ops, Stirs(ops), ops \intersect TaskOps = {},
         task' = task, UNCHANGED territory \/ Clears(ops)
  PROVE  TaskInv'
<1>1. TaskTypeOK' /\ \A t \in 1..Tasks : Evident(task'[t])
  BY DEF TaskInv, TaskTypeOK
<1>2. ASSUME NEW x \in Request
      PROVE  req'[x] = req[x] \/ req'[x].op \notin TaskOps
  BY DEF Stirs, Idle, TaskOps
<1>3. ASSUME NEW x \in Request
      PROVE  TaskHandler(req[x])'
  <2>1. CASE req'[x] = req[x]
    BY <2>1 DEF TaskInv, TaskHandler
  <2>2. CASE req'[x].op \notin TaskOps
    BY <2>2 DEF TaskHandler, TaskOps
  <2>. QED BY <1>2, <2>1, <2>2
<1>4. ASSUME NEW x \in Request, ~workload.overlap
      PROVE  TaskChecked(req[x])'
  <2>1. CASE req'[x] = req[x] /\ UNCHANGED territory
    BY <1>4, <2>1 DEF TaskInv, TaskChecked, territory
  <2>2. CASE req'[x].op \notin TaskOps
    BY <2>2 DEF TaskChecked, TaskOps
  <2>3. CASE Clears(ops)
    <3>1. req'[x].op \notin TaskOps
      BY <1>4, <2>3 DEF Clears, Idle, TaskOps
    <3>. QED BY <2>2, <3>1
  <2>. QED BY <1>2, <2>1, <2>2, <2>3
<1>. QED BY <1>1, <1>3, <1>4 DEF TaskInv

LEMMA TaskBegins ==
  ASSUME TaskInv, TerritoryInv, RequestsOK, NEW r \in Request, TaskStarts(r)
  PROVE  \E h : Awaits(r, h) /\ h.op \in TaskOps /\ TaskHandler(h) /\ TaskChecked(h) /\ task' = task
<1>. DEFINE Goal == \E h : Awaits(r, h) /\ h.op \in TaskOps /\ TaskHandler(h) /\ TaskChecked(h) /\ task' = task
<1>t. /\ TaskTypeOK /\ workload.people \subseteq Person
      /\ \A t \in 1..Tasks : Evident(task[t])
  BY TerritoryAssumption DEF TaskInv, RequestsOK
<1>o. Optional(workload.people) \subseteq Optional(Person)
  BY <1>t DEF Optional
<1>. USE DEF TaskOps, TaskHandler, TaskChecked
<1>1. ASSUME NEW p \in Pincode, NEW M \in Optional(Person), NEW W \in Optional(Person),
             CreateTask(r, p, M, W)
      PROVE  Goal
  BY <1>1 DEF CreateTask, validateWorkerForPincode
<1>2. ASSUME NEW t \in 1..Tasks, NEW P \in Optional(Pincode), NEW M \in Optional(Person),
             NEW W \in Optional(Person), UpdateTask(r, t, P, M, W)
      PROVE  Goal
  BY <1>2 DEF UpdateTask, validateWorkerForPincode
<1>3. ASSUME NEW t \in 1..Tasks, RemoveTask(r, t) PROVE Goal
  BY <1>3 DEF RemoveTask
<1>4. ASSUME NEW t \in 1..Tasks, NEW u \in Person, ApproveTask(r, t, u) PROVE Goal
  BY <1>t, <1>4 DEF ApproveTask, Evident
<1>5. ASSUME NEW t \in 1..Tasks, NEW u \in Person, RejectTask(r, t, u) PROVE Goal
  BY <1>5 DEF RejectTask
<1>6. ASSUME NEW t \in 1..Tasks, NEW u \in Person, StartTask(r, t, u) \/ CompleteTask(r, t, u) PROVE Goal
  <2>1. task[t].status \in TaskStatus
    BY <1>t DEF TaskTypeOK, TaskRow
  <2>. QED BY <1>6, <2>1 DEF StartTask, CompleteTask, assertTransition, ALLOWED_TRANSITIONS, TaskStatus
<1>7. ASSUME NEW t \in 1..Tasks, NEW u \in Person, NEW w \in Person,
             AssignWorker(r, t, u, w) \/ AssignWorkerToTask(r, t, u, w)
      PROVE  Goal
  BY <1>7 DEF AssignWorker, AssignWorkerToTask, validateWorkerForPincode
<1>. QED BY <1>t, <1>o, <1>1, <1>2, <1>3, <1>4, <1>5, <1>6, <1>7 DEF TaskStarts

ApprovalStep ==
  ~workload.overlap =>
    \A t \in 1..Tasks : TaskExists(t) /\ task[t].status = "COMPLETED" => task'[t].status = "COMPLETED"

AssignedStep ==
  ~workload.overlap =>
    \A t \in 1..Tasks : \A w \in Person :
      TaskExists(t)' /\ task'[t].worker = w /\ task[t].worker # w
        => person[w].active /\ person[w].pincode = task'[t].pincode

\* One row is written: it loses no photos; and if the handler is alone it stays
\* approved, and nobody is put on it who does not belong there.
TaskRowGoes(p, q) ==
  /\ q \in TaskRow /\ Evident(q) /\ (p.photos => q.photos)
  /\ ~workload.overlap =>
       /\ p.row = "present" /\ p.status = "COMPLETED" => q.status = "COMPLETED"
       /\ \A w \in Person : q.row = "present" /\ q.worker = w /\ p.worker # w
            => person[w].active /\ person[w].pincode = q.pincode

LEMMA TaskSet ==
  ASSUME TaskInv, NEW t \in 1..Tasks, NEW row, TaskRowGoes(task[t], row),
         task' = task \/ task' = [task EXCEPT ![t] = row]
  PROVE  /\ task' \in [1..Tasks -> TaskRow]
         /\ \A u \in 1..Tasks : TaskRowGoes(task[u], task'[u])
BY DEF TaskInv, TaskTypeOK, TaskRowGoes

\* What the write of each handler makes of the row.
LEMMA TaskWrite ==
  ASSUME TaskInv, NEW r \in Request, TaskWrites(r)
  PROVE  /\ Reply(r) /\ req[r].op \in TaskOps
         /\ \E t \in 1..Tasks : \E row :
              TaskRowGoes(task[t], row) /\ (task' = task \/ task' = [task EXCEPT ![t] = row])
<1>. DEFINE h == req[r]
            Goal == \E t \in 1..Tasks : \E row :
              TaskRowGoes(task[t], row) /\ (task' = task \/ task' = [task EXCEPT ![t] = row])
<1>t. /\ task \in [1..Tasks -> TaskRow] /\ TaskHandler(h)
      /\ ~workload.overlap => TaskChecked(h)
      /\ \A t \in 1..Tasks : task[t] \in TaskRow /\ Evident(task[t])
  BY DEF TaskInv, TaskTypeOK
<1>1. Reply(r) /\ h.op \in TaskOps
  BY DEF TaskWrites, CreateTaskWrite, UpdateTaskWrite, RemoveTaskWrite, AssignWorkerWrite,
         ApproveTaskWrite, RejectTaskWrite, StartTaskWrite, CompleteTaskWrite, Resumes, TaskOps
<1>g. SUFFICES Goal
  BY <1>1
<1>2. CASE CreateTaskWrite(r)
  <2>1. h.op = "createTask"
    BY <1>2 DEF CreateTaskWrite, Resumes
  <2>2. h.pincode \in Pincode /\ h.manager \in Optional(Person) /\ h.worker \in Optional(Person)
    BY <1>t, <2>1 DEF TaskHandler
  <2>3. PICK t \in NextRow(task, Tasks) :
          task' = [task EXCEPT ![t] =
                  [task[t] EXCEPT !.row = "present", !.pincode = h.pincode,
                                  !.manager = Given(h.manager, None), !.worker = Given(h.worker, None)]]
    BY <1>2 DEF CreateTaskWrite
  <2>. DEFINE row == [task[t] EXCEPT !.row = "present", !.pincode = h.pincode,
                                  !.manager = Given(h.manager, None), !.worker = Given(h.worker, None)]
  <2>4. t \in 1..Tasks /\ task[t].row = "absent"
    BY DEF NextRow
  <2>5. Given(h.manager, None) \in Person \union {None} /\ Given(h.worker, None) \in Person \union {None}
    <3>1. h.manager \in Optional(Person \union {None}) /\ h.worker \in Optional(Person \union {None})
      BY <2>2 DEF Optional
    <3>. QED BY <3>1, GivenType
  <2>6. row \in TaskRow /\ Evident(row) /\ (task[t].photos => row.photos)
    BY <1>t, <2>2, <2>4, <2>5 DEF TaskRow, Evident
  <2>7. ASSUME ~workload.overlap, NEW w \in Person, row.worker = w, task[t].worker # w
        PROVE  person[w].active /\ person[w].pincode = row.pincode
    <3>1. row.worker = Given(h.worker, None) /\ row.pincode = h.pincode
      BY <1>t, <2>4 DEF TaskRow
    <3>2. task[t].worker = None
      BY <1>t, <2>4 DEF Evident
    <3>3. h.worker # {}
      BY <2>7, <3>1, <3>2 DEF Given
    <3>4. h.worker \in Optional(Person \union {None})
      BY <2>2 DEF Optional
    <3>5. Given(h.worker, None) \in h.worker
      BY <3>3, <3>4, GivenType
    <3>. QED BY <1>t, <2>1, <2>7, <3>1, <3>5 DEF TaskChecked
  <2>8. TaskRowGoes(task[t], row)
    BY <2>4, <2>6, <2>7 DEF TaskRowGoes
  <2>. HIDE DEF row
  <2>. QED BY <2>3, <2>4, <2>8 DEF row
<1>s. CASE task' = task /\ h.op # "createTask"
  <2>1. h.task \in 1..Tasks
    BY <1>t, <1>1, <1>s DEF TaskHandler
  <2>2. TaskRowGoes(task[h.task], task[h.task])
    BY <1>t, <2>1 DEF TaskRowGoes
  <2>. QED BY <1>s, <2>1, <2>2
<1>3. CASE UpdateTaskWrite(r) /\ task' # task
  <2>1. h.op = "updateTask"
    BY <1>3 DEF UpdateTaskWrite, Resumes
  <2>. DEFINE t == h.task
              row == [task[t] EXCEPT !.pincode = Given(h.pincode, task[t].pincode),
                                     !.manager = Given(h.manager, task[t].manager),
                                     !.worker = Given(h.worker, task[t].worker)]
  <2>2. /\ t \in 1..Tasks /\ h.pincode \in Optional(Pincode)
        /\ h.manager \in Optional(Person) /\ h.worker \in Optional(Person)
    BY <1>t, <2>1 DEF TaskHandler, TaskOps
  <2>3. TaskExists(t) /\ task' = [task EXCEPT ![t] = row]
    BY <1>3 DEF UpdateTaskWrite, SetTask
  <2>4. /\ task[t].pincode \in Pincode \union {None} /\ task[t].manager \in Person \union {None}
        /\ task[t].worker \in Person \union {None}
    BY <1>t, <2>2 DEF TaskRow
  <2>5. /\ Given(h.manager, task[t].manager) \in Person \union {None}
        /\ Given(h.worker, task[t].worker) \in Person \union {None}
        /\ Given(h.pincode, task[t].pincode) \in Pincode \union {None}
    <3>1. /\ h.manager \in Optional(Person \union {None}) /\ h.worker \in Optional(Person \union {None})
          /\ h.pincode \in Optional(Pincode \union {None})
      BY <2>2 DEF Optional
    <3>. QED BY <2>4, <3>1, GivenType
  <2>6. row \in TaskRow /\ Evident(row) /\ (task[t].photos => row.photos) /\ row.status = task[t].status
    <3>1. row \in TaskRow
      BY <1>t, <2>2, <2>5 DEF TaskRow
    <3>2. /\ row.row = "present" /\ row.status = task[t].status
          /\ row.photos = task[t].photos /\ row.stamped = task[t].stamped
      BY <1>t, <2>2, <2>3 DEF TaskRow, TaskExists
    <3>. QED BY <1>t, <2>2, <3>1, <3>2 DEF Evident
  <2>7. ASSUME ~workload.overlap, NEW w \in Person, row.worker = w, task[t].worker # w
        PROVE  person[w].active /\ person[w].pincode = row.pincode
    <3>1. row.worker = Given(h.worker, task[t].worker) /\ row.pincode = Given(h.pincode, task[t].pincode)
      BY <1>t, <2>2 DEF TaskRow
    <3>2. h.worker # {}
      BY <2>7, <3>1 DEF Given
    <3>3. h.worker \in Optional(Person \union {None})
      BY <2>2 DEF Optional
    <3>4. Given(h.worker, task[t].worker) \in h.worker
      BY <2>4, <3>2, <3>3, GivenType
    <3>. QED BY <1>t, <2>1, <2>7, <3>1, <3>4 DEF TaskChecked
  <2>8. TaskRowGoes(task[t], row)
    BY <2>2, <2>6, <2>7 DEF TaskRowGoes
  <2>. HIDE DEF row
  <2>. QED BY <2>2, <2>3, <2>8
<1>4. CASE RemoveTaskWrite(r) /\ task' # task
  <2>. DEFINE t == h.task
              row == [task[t] EXCEPT !.row = "gone"]
  <2>1. t \in 1..Tasks /\ TaskExists(t) /\ task' = [task EXCEPT ![t] = row]
    BY <1>4, <1>t DEF RemoveTaskWrite, Resumes, SetTask, TaskHandler, TaskOps
  <2>2. TaskRowGoes(task[t], row)
    BY <1>t, <2>1 DEF TaskRow, TaskRowGoes, Evident
  <2>. HIDE DEF row
  <2>. QED BY <2>1, <2>2
<1>5. CASE AssignWorkerWrite(r) /\ task' # task
  <2>. DEFINE t == h.task
              row == [task[t] EXCEPT !.worker = h.worker]
  <2>1. /\ t \in 1..Tasks /\ TaskExists(t) /\ task' = [task EXCEPT ![t] = row]
        /\ h.worker \in Person /\ h.op = "assignWorker"
    BY <1>5, <1>t DEF AssignWorkerWrite, Resumes, SetTask, TaskHandler, TaskOps
  <2>2. ~workload.overlap => person[h.worker].active /\ person[h.worker].pincode = task[t].pincode
    BY <1>t, <2>1 DEF TaskChecked
  <2>3. TaskRowGoes(task[t], row)
    BY <1>t, <2>1, <2>2 DEF TaskRow, TaskRowGoes, Evident, TaskExists
  <2>. HIDE DEF row
  <2>. QED BY <2>1, <2>3
<1>6. CASE ApproveTaskWrite(r) /\ task' # task
  <2>. DEFINE t == h.task
              row == [task[t] EXCEPT !.status = "COMPLETED", !.stamped = TRUE]
  <2>1. t \in 1..Tasks /\ TaskExists(t) /\ task' = [task EXCEPT ![t] = row] /\ task[t].photos
    BY <1>6, <1>t DEF ApproveTaskWrite, Resumes, SetTask, TaskHandler, TaskOps
  <2>2. TaskRowGoes(task[t], row)
    <3>1. task[t] \in TaskRow /\ Evident(task[t]) /\ task[t].row = "present"
      BY <1>t, <2>1 DEF TaskExists
    <3>. QED BY <2>1, <3>1 DEF TaskRow, TaskStatus, TaskRowGoes, Evident
  <2>. HIDE DEF row
  <2>. QED BY <2>1, <2>2
<1>7. CASE (RejectTaskWrite(r) \/ StartTaskWrite(r)) /\ task' # task
  <2>. DEFINE t == h.task
              row == [task[t] EXCEPT !.status = "IN_PROGRESS"]
  <2>1. /\ t \in 1..Tasks /\ TaskExists(t) /\ task' = [task EXCEPT ![t] = row]
        /\ h.op \in {"rejectTask", "startTask"}
    BY <1>7, <1>t DEF RejectTaskWrite, StartTaskWrite, Resumes, SetTask, TaskHandler, TaskOps
  <2>2. ~workload.overlap => task[t].status # "COMPLETED"
    BY <1>t, <2>1 DEF TaskChecked
  <2>3. TaskRowGoes(task[t], row)
    <3>1. task[t] \in TaskRow /\ Evident(task[t]) /\ task[t].row = "present"
      BY <1>t, <2>1 DEF TaskExists
    <3>. QED BY <2>2, <3>1 DEF TaskRow, TaskStatus, TaskRowGoes, Evident
  <2>. HIDE DEF row
  <2>. QED BY <2>1, <2>3
<1>8. CASE CompleteTaskWrite(r) /\ task' # task
  <2>. DEFINE t == h.task
              row == [task[t] EXCEPT !.status = "COMPLETED_PENDING_APPROVAL", !.photos = TRUE]
  <2>1. /\ t \in 1..Tasks /\ TaskExists(t) /\ task' = [task EXCEPT ![t] = row]
        /\ h.op = "completeTask"
    BY <1>8, <1>t DEF CompleteTaskWrite, Resumes, SetTask, TaskHandler, TaskOps
  <2>2. ~workload.overlap => task[t].status # "COMPLETED"
    BY <1>t, <2>1 DEF TaskChecked
  <2>3. TaskRowGoes(task[t], row)
    <3>1. task[t] \in TaskRow /\ Evident(task[t]) /\ task[t].row = "present"
      BY <1>t, <2>1 DEF TaskExists
    <3>. QED BY <2>2, <3>1 DEF TaskRow, TaskStatus, TaskRowGoes, Evident
  <2>. HIDE DEF row
  <2>. QED BY <2>1, <2>3
<1>n. h.op = "createTask" => CreateTaskWrite(r)
  BY DEF TaskWrites, UpdateTaskWrite, RemoveTaskWrite, AssignWorkerWrite,
         ApproveTaskWrite, RejectTaskWrite, StartTaskWrite, CompleteTaskWrite, Resumes
<1>. HIDE DEF Goal
<1>. QED BY <1>1, <1>2, <1>s, <1>3, <1>4, <1>5, <1>6, <1>7, <1>8, <1>n DEF TaskWrites

LEMMA TaskKeeps ==
  ASSUME TaskInv, TerritoryInv, RequestsOK, workload' = workload, TaskNext, UNCHANGED territory
  PROVE  /\ TaskInv' /\ \E r : Moves(r, TaskOps)
         /\ ApprovalStep /\ AssignedStep
<1>1. PICK r \in Request : (MayStart(r) /\ TaskStarts(r)) \/ TaskWrites(r)
  BY DEF TaskNext
<1>2. CASE MayStart(r) /\ TaskStarts(r)
  <2>1. PICK h : Awaits(r, h) /\ h.op \in TaskOps /\ TaskHandler(h) /\ TaskChecked(h) /\ task' = task
    BY <1>2, TaskBegins
  <2>2. Moves(r, TaskOps)
    BY <1>2, <2>1, Started
  <2>3. ASSUME NEW x \in Request
        PROVE  TaskHandler(req[x])' /\ (~workload.overlap => TaskChecked(req[x])')
    <3>1. TaskHandler(req'[x]) /\ (~workload.overlap => TaskChecked(req'[x]))
      BY <2>1, Awaited DEF TaskInv
    <3>. QED BY <2>1, <3>1 DEF TaskHandler, TaskChecked, territory
  <2>4. TaskInv'
    BY <2>1, <2>3 DEF TaskInv, TaskTypeOK
  <2>. QED BY <2>1, <2>2, <2>4 DEF ApprovalStep, AssignedStep, TaskExists
<1>3. CASE TaskWrites(r)
  <2>1. Reply(r) /\ req[r].op \in TaskOps
    BY <1>3, TaskWrite
  <2>2. PICK t \in 1..Tasks : \E row :
          TaskRowGoes(task[t], row) /\ (task' = task \/ task' = [task EXCEPT ![t] = row])
    BY <1>3, TaskWrite
  <2>3. /\ task' \in [1..Tasks -> TaskRow]
        /\ \A u \in 1..Tasks : TaskRowGoes(task[u], task'[u])
    BY <2>2, TaskSet
  <2>4. Moves(r, TaskOps)
    BY <2>1, Continued
  <2>5. ASSUME NEW x \in Request PROVE TaskHandler(req[x])'
    <3>1. CASE req'[x] = Idle
      BY <3>1 DEF Idle, TaskHandler, TaskOps
    <3>2. CASE req'[x] = req[x]
      BY <2>3, <3>2 DEF TaskInv, TaskHandler, TaskRowGoes, TaskOps
    <3>. QED BY <2>1, <3>1, <3>2, Replied
  <2>6. ASSUME NEW x \in Request, ~workload.overlap PROVE TaskChecked(req[x])'
    <3>1. req'[x] = Idle
      <4>1. req[r] # Idle
        BY <2>1 DEF Idle, TaskOps
      <4>. QED BY <2>1, <2>6, <4>1, Replied DEF RequestsOK
    <3>. QED BY <3>1 DEF Idle, TaskChecked
  <2>7. TaskInv'
    BY <2>3, <2>5, <2>6 DEF TaskInv, TaskTypeOK, TaskRowGoes
  <2>8. ApprovalStep
    BY <2>3 DEF ApprovalStep, TaskExists, TaskRowGoes
  <2>9. AssignedStep
    BY <2>3 DEF AssignedStep, TaskExists, TaskRowGoes
  <2>. QED BY <2>4, <2>7, <2>8, <2>9
<1>. QED BY <1>1, <1>2, <1>3

LEMMA TaskStartsOut ==
  ASSUME RequestInit, TaskInit
  PROVE  TaskInv
BY DEF RequestInit, TaskInit, TaskInv, TaskTypeOK, TaskRow, TaskStatus, Evident, Idle, TaskHandler,
       TaskChecked, TaskOps

=============================================================================
