------------------------------ MODULE Territory ------------------------------
(***************************************************************************)
(* Areas, office locations, pincodes and the staff placed in them: the     *)
(* areas, office-locations and users services, and what the admin and      *)
(* manager panels write to the same rows.                                  *)
(*                                                                         *)
(* The queries by which a handler checks its input are one step; what it   *)
(* writes, always one transaction or one query, is the next.  Names are    *)
(* kept for offices only, whose table has no unique key; addresses,        *)
(* salaries, documents, shifts and the services of an area are left out.   *)
(***************************************************************************)
EXTENDS Requests

CONSTANTS
  Person,   \* everyone who has, or may get, an account
  Pincode,  \* postal codes
  Word,     \* the words office names are made of
  Areas,    \* bound: areas ever created
  Offices,  \* bound: offices ever created
  Founders  \* the accounts there are at the start

VARIABLES
  area,     \* the Area table
  office,   \* the OfficeLocation table
  pincode,  \* which Pincode rows are active
  person    \* User with its ManagerProfile and WorkerProfile

territory == <<area, office, pincode, person>>

Role == {"USER", "WORKER", "MANAGER", "ADMIN", "SUPER_ADMIN"}

Name == [word : Word, spelling : {"lower", "capital"}]

AreaRow == [row : {"absent", "present", "gone"}, active : BOOLEAN]

OfficeRow == [row : {"absent", "present"}, active : BOOLEAN, area : 0..Areas,
              name : Name \union {None}]

\* areas, offices and pincodes are the join tables of a manager, primary the
\* older single office; area and pincode are where a worker works (0: NULL).
PersonRow ==
  [row : {"absent", "present"}, role : Role, active : BOOLEAN,
   manager : BOOLEAN, worker : BOOLEAN,  \* a profile of that kind exists
   areas : SUBSET (1..Areas), offices : SUBSET (1..Offices), primary : 0..Offices,
   pincodes : SUBSET Pincode, area : 0..Areas, pincode : Pincode \union {None}]

Nobody == [row |-> "absent", role |-> "USER", active |-> TRUE, manager |-> FALSE,
           worker |-> FALSE, areas |-> {}, offices |-> {}, primary |-> 0, pincodes |-> {},
           area |-> 0, pincode |-> None]

ASSUME TerritoryAssumption ==
  /\ Areas \in Nat \ {0} /\ Offices \in Nat \ {0} /\ Word # {}
  /\ None \notin Person
  /\ Founders \in [Person -> PersonRow]
  /\ \A w \in Workloads : w.people \subseteq Person

\* What is in a profile is there only if the profile is, and so is the role.
ASSUME FoundersAssumption ==
  \A u \in Person : LET f == Founders[u] IN
    /\ f.row = "absent" => ~f.manager /\ ~f.worker
    /\ ~f.manager => f.areas = {} /\ f.role # "MANAGER"
    /\ ~f.worker => f.area = 0 /\ f.role # "WORKER"

\* One active area with one active office in it; the staff are the founders.
TerritoryInit ==
  /\ area = [a \in 1..Areas |-> [row |-> IF a = 1 THEN "present" ELSE "absent", active |-> TRUE]]
  /\ office = [o \in 1..Offices |->
                 [row |-> IF o = 1 THEN "present" ELSE "absent", active |-> TRUE,
                  area |-> IF o = 1 THEN 1 ELSE 0, name |-> None]]
  /\ pincode = [p \in Pincode |-> TRUE]
  /\ person = Founders

AreaExists(a) == a \in 1..Areas /\ area[a].row = "present"
OfficeExists(o) == o \in 1..Offices /\ office[o].row = "present"
Exists(u) == person[u].row = "present"
Has(u, role) == Exists(u) /\ person[u].role = role

OfficesOf(a) == {o \in 1..Offices : OfficeExists(o) /\ office[o].area = a}

ManagersOf(a) == {u \in Person : Exists(u) /\ person[u].manager /\ a \in person[u].areas}

WorkersOf(a) == {u \in Person : Exists(u) /\ person[u].worker /\ person[u].area = a}

-----------------------------------------------------------------------------
(* Cascades *)

\* Mutant: only the managers follow.
CascadeManagersOnly(a, active) ==
  [u \in Person |-> IF u \in ManagersOf(a) THEN [person[u] EXCEPT !.active = active]
                    ELSE person[u]]

\* cascadeAreaStatusInTx, in both services.
Cascade(a, active) ==
  [u \in Person |-> IF u \in ManagersOf(a) \union WorkersOf(a)
                      THEN [person[u] EXCEPT !.active = active] ELSE person[u]]

\* The workers of a manager's areas, who follow the manager's status.
StaffOf(m) ==
  IF person[m].manager
    THEN {u \in Person : Exists(u) /\ person[u].worker /\ person[u].area \in person[m].areas}
    ELSE {}

\* updateMany of isActive.
SetActive(U, active) ==
  [u \in Person |-> IF u \in U THEN [person[u] EXCEPT !.active = active] ELSE person[u]]

-----------------------------------------------------------------------------
(* Areas *)

Attach(S, a) == [o \in 1..Offices |-> IF o \in S THEN [office[o] EXCEPT !.area = a] ELSE office[o]]

CreateArea(r, S, active) ==
  /\ Arrives(r, "createArea")
  /\ S # {} /\ \A o \in S : OfficeExists(o)
  /\ Awaits(r, [op |-> "createArea", offices |-> S, active |-> active])
  /\ UNCHANGED territory

\* The offices leave the areas they were in.
CreateAreaWrite(r) ==
  /\ Resumes(r, "createArea")
  /\ \E a \in NextRow(area, Areas) :
       /\ area' = [area EXCEPT ![a] = [row |-> "present", active |-> req[r].active]]
       /\ office' = Attach(req[r].offices, a)
  /\ Reply(r)
  /\ UNCHANGED <<pincode, person>>

\* `changing' is decided on the row read before the transaction.
UpdateArea(r, a, active, S) ==
  /\ Arrives(r, "updateArea")
  /\ AreaExists(a) /\ \A o \in S : OfficeExists(o)
  /\ Awaits(r, [op |-> "updateArea", area |-> a, active |-> active, offices |-> S,
                changing |-> active \notin {{}, {area[a].active}}])
  /\ UNCHANGED territory

UpdateAreaWrite(r) ==
  /\ Resumes(r, "updateArea")
  /\ LET a == req[r].area
         S == req[r].offices
     IN IF AreaExists(a)
          THEN /\ area' = [area EXCEPT ![a].active = Given(req[r].active, @)]
               /\ office' = [o \in 1..Offices |->
                               IF S = {} THEN office[o]
                               ELSE IF o \in S THEN [office[o] EXCEPT !.area = a]
                               ELSE IF office[o].area = a THEN [office[o] EXCEPT !.area = 0]
                               ELSE office[o]]
               /\ person' = IF req[r].changing
                              THEN Cascade(a, Given(req[r].active, TRUE)) ELSE person
          ELSE UNCHANGED <<area, office, person>>
  /\ Reply(r)
  /\ UNCHANGED pincode

RemoveArea(r, a) ==
  /\ Arrives(r, "removeArea")
  /\ AreaExists(a)
  /\ Awaits(r, [op |-> "removeArea", area |-> a, changing |-> area[a].active])
  /\ UNCHANGED territory

RemoveAreaWrite(r) ==
  /\ Resumes(r, "removeArea")
  /\ LET a == req[r].area IN
       IF AreaExists(a)
         THEN /\ area' = [area EXCEPT ![a].active = FALSE]
              /\ person' = IF req[r].changing THEN Cascade(a, FALSE) ELSE person
         ELSE UNCHANGED <<area, person>>
  /\ Reply(r)
  /\ UNCHANGED <<office, pincode>>

\* delete: the counts of everything that refers to the area.  (Tasks count
\* too; whatever else they do, they do not depend on it.)
DeleteArea(r, a) ==
  /\ Arrives(r, "deleteArea")
  /\ AreaExists(a) /\ OfficesOf(a) = {} /\ ManagersOf(a) = {} /\ WorkersOf(a) = {}
  /\ Awaits(r, [op |-> "deleteArea", area |-> a])
  /\ UNCHANGED territory

\* The foreign keys set NULL and cascade.
DeleteAreaWrite(r) ==
  /\ Resumes(r, "deleteArea")
  /\ LET a == req[r].area IN
       IF AreaExists(a)
         THEN /\ area' = [area EXCEPT ![a].row = "gone"]
              /\ office' = Attach(OfficesOf(a), 0)
              /\ person' = [u \in Person |->
                              [person[u] EXCEPT !.areas = @ \ {a}, !.area = IF @ = a THEN 0 ELSE @]]
         ELSE UNCHANGED <<area, office, person>>
  /\ Reply(r)
  /\ UNCHANGED pincode

-----------------------------------------------------------------------------
(* Office locations *)

SameName(m, n) == m # None /\ n # None /\ m.word = n.word

NameAvailable(n, o) ==
  \A p \in 1..Offices : p # o /\ OfficeExists(p) => ~SameName(office[p].name, n)

CreateOffice(r, n, a) ==
  /\ Arrives(r, "createOffice")
  /\ NameAvailable(n, 0)
  /\ a # 0 => AreaExists(a) /\ area[a].active
  /\ Awaits(r, [op |-> "createOffice", name |-> n, area |-> a])
  /\ UNCHANGED territory

\* Connecting an area that is gone makes the insert throw.
CreateOfficeWrite(r) ==
  /\ Resumes(r, "createOffice")
  /\ \E o \in NextRow(office, Offices) :
       office' = IF req[r].area # 0 /\ ~AreaExists(req[r].area) THEN office
                 ELSE [office EXCEPT ![o] = [row |-> "present", active |-> TRUE,
                                             area |-> req[r].area, name |-> req[r].name]]
  /\ Reply(r)
  /\ UNCHANGED <<area, pincode, person>>

\* The area whose status follows is the one the office was read with.
UpdateOffice(r, o, name, active, to) ==
  /\ Arrives(r, "updateOffice")
  /\ OfficeExists(o)
  /\ \A n \in name : NameAvailable(n, o)
  /\ \A a \in to : a # 0 => AreaExists(a) /\ area[a].active
  /\ Awaits(r, [op |-> "updateOffice", office |-> o, name |-> name, active |-> active,
                to |-> to, area |-> office[o].area,
                changing |-> active \notin {{}, {office[o].active}}])
  /\ UNCHANGED territory

\* One transaction, which throws if either area is gone.
UpdateOfficeWrite(r) ==
  /\ Resumes(r, "updateOffice")
  /\ LET o == req[r].office
         a == req[r].area
         follows == req[r].changing /\ a # 0
     IN IF (follows => AreaExists(a)) /\ \A b \in req[r].to : b # 0 => AreaExists(b)
          THEN /\ office' = [office EXCEPT ![o].name = Given(req[r].name, @),
                                           ![o].active = Given(req[r].active, @),
                                           ![o].area = Given(req[r].to, @)]
               /\ area' = IF follows THEN [area EXCEPT ![a].active = Given(req[r].active, @)]
                          ELSE area
               /\ person' = IF follows THEN Cascade(a, Given(req[r].active, TRUE)) ELSE person
          ELSE UNCHANGED <<area, office, person>>
  /\ Reply(r)
  /\ UNCHANGED pincode

RemoveOffice(r, o) ==
  /\ Arrives(r, "removeOffice")
  /\ OfficeExists(o)
  /\ Awaits(r, [op |-> "removeOffice", office |-> o, area |-> office[o].area,
                changing |-> office[o].active])
  /\ UNCHANGED territory

RemoveOfficeWrite(r) ==
  /\ Resumes(r, "removeOffice")
  /\ LET a == req[r].area
         follows == req[r].changing /\ a # 0
     IN IF follows => AreaExists(a)
          THEN /\ office' = [office EXCEPT ![req[r].office].active = FALSE]
               /\ area' = IF follows THEN [area EXCEPT ![a].active = FALSE] ELSE area
               /\ person' = IF follows THEN Cascade(a, FALSE) ELSE person
          ELSE UNCHANGED <<area, office, person>>
  /\ Reply(r)
  /\ UNCHANGED pincode

-----------------------------------------------------------------------------
(* Pincodes *)

\* update and remove: isActive is written whatever it was.
SetPincode(r, p, active) ==
  /\ AtOnce(r, "setPincode")
  /\ pincode' = [pincode EXCEPT ![p] = active]
  /\ UNCHANGED <<area, office, person>>

AssignToManager(r, m, P) ==
  /\ Arrives(r, "assignToManager")
  /\ Exists(m) /\ person[m].manager /\ \A p \in P : pincode[p]
  /\ Awaits(r, [op |-> "assignToManager", user |-> m, pincodes |-> P])
  /\ UNCHANGED territory

AssignToManagerWrite(r) ==
  /\ Resumes(r, "assignToManager")
  /\ person' = [person EXCEPT ![req[r].user].pincodes = req[r].pincodes]
  /\ Reply(r)
  /\ UNCHANGED <<area, office, pincode>>

AssignToWorker(r, w, p) ==
  /\ Arrives(r, "assignToWorker")
  /\ Exists(w) /\ person[w].worker /\ pincode[p]
  /\ Awaits(r, [op |-> "assignToWorker", user |-> w, pincode |-> p])
  /\ UNCHANGED territory

AssignToWorkerWrite(r) ==
  /\ Resumes(r, "assignToWorker")
  /\ person' = [person EXCEPT ![req[r].user].pincode = req[r].pincode]
  /\ Reply(r)
  /\ UNCHANGED <<area, office, pincode>>

-----------------------------------------------------------------------------
(* Managers, by an administrator *)

\* validateAreasForOffices: each area has an office among O.
AreasAmong(A, O) == \A a \in A : AreaExists(a) /\ \E o \in O : office[o].area = a

ActiveOffices(O) == \A o \in O : OfficeExists(o) /\ office[o].active

CreateManager(r, u, O, A) ==
  /\ Arrives(r, "createManager")
  /\ ~Exists(u) /\ O # {} /\ ActiveOffices(O) /\ AreasAmong(A, O)
  /\ Awaits(r, [op |-> "createManager", user |-> u, offices |-> O, areas |-> A])
  /\ UNCHANGED territory

\* E-mail and phone are unique and areas are foreign keys: else it throws.
\* (The primary office is the first of the list.)
CreateManagerWrite(r) ==
  /\ Resumes(r, "createManager")
  /\ LET u == req[r].user IN
       IF ~Exists(u) /\ \A a \in req[r].areas : AreaExists(a)
         THEN \E o \in req[r].offices :
                person' = [person EXCEPT ![u] =
                  [Nobody EXCEPT !.row = "present", !.role = "MANAGER", !.manager = TRUE,
                                 !.offices = req[r].offices, !.primary = o,
                                 !.areas = req[r].areas]]
         ELSE person' = person
  /\ Reply(r)
  /\ UNCHANGED <<area, office, pincode>>

\* Areas are checked against the new offices, or those on record; new offices
\* are not checked against the areas on record.
UpdateManager(r, m, active, O, A) ==
  /\ Arrives(r, "updateManager")
  /\ Exists(m) /\ person[m].manager
  /\ ActiveOffices(O)
  /\ \A S \in A : AreasAmong(S, IF O = {} THEN person[m].offices ELSE O)
  /\ Awaits(r, [op |-> "updateManager", user |-> m, active |-> active, offices |-> O, areas |-> A])
  /\ UNCHANGED territory

UpdateManagerWrite(r) ==
  /\ Resumes(r, "updateManager")
  /\ LET m == req[r].user
         O == req[r].offices
     IN IF \A S \in req[r].areas : \A a \in S : AreaExists(a)
          THEN \E o \in IF O = {} THEN {person[m].primary} ELSE O :
                 person' = [person EXCEPT ![m] =
                   [person[m] EXCEPT !.active = Given(req[r].active, @),
                                     !.offices = IF O = {} THEN @ ELSE O, !.primary = o,
                                     !.areas = Given(req[r].areas, @)]]
          ELSE person' = person
  /\ Reply(r)
  /\ UNCHANGED <<area, office, pincode>>

\* The workers that follow are read before the transaction.
UpdateManagerStatus(r, m, active) ==
  /\ Arrives(r, "updateManagerStatus")
  /\ Exists(m) /\ person[m].manager
  /\ Awaits(r, [op |-> "updateStatus", users |-> {m} \union StaffOf(m), active |-> active])
  /\ UNCHANGED territory

UpdateUserStatus(r, u, active) ==
  /\ Arrives(r, "updateUserStatus")
  /\ Exists(u)
  /\ Awaits(r, [op |-> "updateStatus", active |-> active,
                users |-> {u} \union IF Has(u, "MANAGER") /\ person[u].active # active
                                       THEN StaffOf(u) ELSE {}])
  /\ UNCHANGED territory

UpdateStatusWrite(r) ==
  /\ Resumes(r, "updateStatus")
  /\ person' = SetActive(req[r].users, req[r].active)
  /\ Reply(r)
  /\ UNCHANGED <<area, office, pincode>>

-----------------------------------------------------------------------------
(* Workers, by a manager *)

\* getManagerOfficeIds: the join table, or the older single office.
OwnOffices(m) ==
  IF person[m].offices # {} THEN person[m].offices
  ELSE {person[m].primary} \ {0}

\* resolveWorkerFilter: by pincode if the manager has any, by area otherwise.
InFilter(m, w) ==
  /\ person[w].worker
  /\ IF person[m].pincodes # {} THEN person[w].pincode \in person[m].pincodes
     ELSE person[w].area \in person[m].areas

\* authorizeWorker.
InTeam(m, w) == Has(w, "WORKER") /\ InFilter(m, w)

\* validateOfficeAreaMapping: an active area with an office among O.
AreaIn(a, O) == AreaExists(a) /\ area[a].active /\ \E o \in O : office[o].area = a

\* The area a worker is put in is linked to the manager in the transaction.
LinkArea(m, w, row) == [person EXCEPT ![w] = row, ![m].areas = @ \union ({row.area} \ {0})]

CreateWorker(r, m, w, O, a) ==
  /\ Arrives(r, "createWorker")
  /\ Has(m, "MANAGER") /\ person[m].manager /\ person[m].active /\ ~Exists(w)
  /\ O \subseteq OwnOffices(m) /\ AreaIn(a, O)
  /\ Awaits(r, [op |-> "createWorker", manager |-> m, user |-> w, area |-> a])
  /\ UNCHANGED territory

CreateWorkerWrite(r) ==
  /\ Resumes(r, "createWorker")
  /\ LET w == req[r].user IN
       person' = IF ~Exists(w) /\ AreaExists(req[r].area)
                   THEN LinkArea(req[r].manager, w,
                          [Nobody EXCEPT !.row = "present", !.role = "WORKER", !.worker = TRUE,
                                         !.area = req[r].area])
                   ELSE person
  /\ Reply(r)
  /\ UNCHANGED <<area, office, pincode>>

UpdateWorker(r, m, w, active, O, A) ==
  /\ Arrives(r, "updateWorker")
  /\ Has(m, "MANAGER") /\ person[m].manager /\ person[m].active /\ InTeam(m, w)
  /\ O \subseteq OwnOffices(m)
  /\ \A a \in A : AreaIn(a, IF O = {} THEN OwnOffices(m) ELSE O)
  /\ Awaits(r, [op |-> "updateWorker", manager |-> m, user |-> w, active |-> active, area |-> A])
  /\ UNCHANGED territory

UpdateWorkerWrite(r) ==
  /\ Resumes(r, "updateWorker")
  /\ LET m == req[r].manager
         w == req[r].user
         row == [person[w] EXCEPT !.active = Given(req[r].active, @),
                                  !.area = Given(req[r].area, @)]
     IN person' = IF req[r].area = {} THEN [person EXCEPT ![w] = row]
                  ELSE IF \A a \in req[r].area : AreaExists(a) THEN LinkArea(m, w, row)
                  ELSE person
  /\ Reply(r)
  /\ UNCHANGED <<area, office, pincode>>

-----------------------------------------------------------------------------
(* Roles *)

ROLE_RANK ==
  [role \in Role |-> CASE role = "USER" -> 0 [] role = "WORKER" -> 1 [] role = "MANAGER" -> 2
                       [] role = "ADMIN" -> 3 [] role = "SUPER_ADMIN" -> 4]

ROLE_CAN_ASSIGN ==
  [role \in Role |-> CASE role = "SUPER_ADMIN" -> {"ADMIN", "MANAGER", "WORKER", "USER"}
                       [] role = "ADMIN" -> {"MANAGER", "WORKER", "USER"}
                       [] role = "MANAGER" -> {"WORKER"}
                       [] OTHER -> {}]

Outranks(actor, target) == ROLE_RANK[actor] > ROLE_RANK[target]

\* Mutant: the place of work is not looked up.
UpdateRoleAnyPlace(r, actor, u, role, place) ==
  /\ Arrives(r, "updateRole")
  /\ Exists(actor) /\ person[actor].active /\ Exists(u)
  /\ Outranks(person[actor].role, person[u].role)
  /\ role \in ROLE_CAN_ASSIGN[person[actor].role]
  /\ Awaits(r, [op |-> "updateRole", user |-> u, role |-> role, place |-> place])
  /\ UNCHANGED territory

\* The role of the actor is the one found when the request was admitted.
UpdateRole(r, actor, u, role, place) ==
  /\ Arrives(r, "updateRole")
  /\ Exists(actor) /\ person[actor].active /\ Exists(u)
  /\ Outranks(person[actor].role, person[u].role)
  /\ role \in ROLE_CAN_ASSIGN[person[actor].role]
  /\ CASE role = "MANAGER" -> OfficeExists(place)
       [] role = "WORKER" -> AreaExists(place)
       [] OTHER -> place = 0
  /\ Awaits(r, [op |-> "updateRole", user |-> u, role |-> role, place |-> place])
  /\ UNCHANGED territory

\* The role, and the profile that goes with it, in one transaction.
UpdateRoleWrite(r) ==
  /\ Resumes(r, "updateRole")
  /\ LET u == req[r].user
         place == req[r].place
     IN person' =
          CASE req[r].role = "MANAGER" ->
                 [person EXCEPT ![u] = [@ EXCEPT !.role = "MANAGER", !.manager = TRUE,
                                                 !.primary = place]]
            [] req[r].role = "WORKER" ->
                 IF AreaExists(place)
                   THEN [person EXCEPT ![u] = [@ EXCEPT !.role = "WORKER", !.worker = TRUE,
                                                        !.area = place]]
                   ELSE person
            [] OTHER -> [person EXCEPT ![u].role = req[r].role]
  /\ Reply(r)
  /\ UNCHANGED <<area, office, pincode>>

-----------------------------------------------------------------------------

TerritoryStarts(r) ==
  \/ \E S \in SUBSET (1..Offices), active \in BOOLEAN : CreateArea(r, S, active)
  \/ \E a \in 1..Areas :
       \/ \E active \in Optional(BOOLEAN), S \in SUBSET (1..Offices) : UpdateArea(r, a, active, S)
       \/ RemoveArea(r, a) \/ DeleteArea(r, a)
  \/ \E n \in Name, a \in 0..Areas : CreateOffice(r, n, a)
  \/ Asked({"updateOffice", "removeOffice"}) /\ \E o \in 1..Offices :
       \/ \E name \in Optional(Name), active \in Optional(BOOLEAN), to \in Optional(0..Areas) :
            UpdateOffice(r, o, name, active, to)
       \/ RemoveOffice(r, o)
  \/ \E p \in Pincode, active \in BOOLEAN : SetPincode(r, p, active)

StaffStarts(r) ==
  \E u \in workload.people :
    \/ \E P \in SUBSET Pincode : AssignToManager(r, u, P)
    \/ \E p \in Pincode : AssignToWorker(r, u, p)
    \/ /\ Asked({"createManager"})
       /\ \E O \in SUBSET (1..Offices), A \in SUBSET (1..Areas) : CreateManager(r, u, O, A)
    \/ /\ Asked({"updateManager"})
       /\ \E active \in Optional(BOOLEAN), O \in SUBSET (1..Offices),
             A \in Optional(SUBSET (1..Areas)) : UpdateManager(r, u, active, O, A)
    \/ \E active \in BOOLEAN : UpdateManagerStatus(r, u, active) \/ UpdateUserStatus(r, u, active)
    \/ /\ Asked({"createWorker", "updateWorker"})
       /\ \E m \in workload.people, O \in SUBSET (1..Offices) :
            \/ \E a \in 1..Areas : CreateWorker(r, m, u, O, a)
            \/ \E active \in Optional(BOOLEAN), A \in Optional(1..Areas) :
                 UpdateWorker(r, m, u, active, O, A)
    \/ /\ Asked({"updateRole"})
       /\ \E actor \in workload.people, role \in Role, place \in 0..(Areas + Offices) :
            UpdateRole(r, actor, u, role, place)

TerritoryWrites(r) ==
  \/ CreateAreaWrite(r) \/ UpdateAreaWrite(r) \/ RemoveAreaWrite(r) \/ DeleteAreaWrite(r)
  \/ CreateOfficeWrite(r) \/ UpdateOfficeWrite(r) \/ RemoveOfficeWrite(r)
  \/ AssignToManagerWrite(r) \/ AssignToWorkerWrite(r)
  \/ CreateManagerWrite(r) \/ UpdateManagerWrite(r) \/ UpdateStatusWrite(r)
  \/ CreateWorkerWrite(r) \/ UpdateWorkerWrite(r) \/ UpdateRoleWrite(r)

TerritoryNext ==
  \E r \in Request : (MayStart(r) /\ (TerritoryStarts(r) \/ StaffStarts(r))) \/ TerritoryWrites(r)

-----------------------------------------------------------------------------
(* Properties *)

TerritoryTypeOK ==
  /\ area \in [1..Areas -> AreaRow]
  /\ office \in [1..Offices -> OfficeRow]
  /\ pincode \in [Pincode -> BOOLEAN]
  /\ person \in [Person -> PersonRow]

\* When the status of an area changes, by whichever of the six ways, everyone
\* who manages it or works in it has that status afterwards.  Holds when
\* requests do not overlap.
CascadeReachesEveryone ==
  [][~workload.overlap =>
       \A a \in 1..Areas : area'[a].active # area[a].active /\ area'[a].row = area[a].row =>
         \A u \in ManagersOf(a) \union WorkersOf(a) : person'[u].active = area'[a].active]_territory

\* Deleting an area takes nobody's place away: what referred to it was counted
\* first.  Holds when requests do not overlap.
DeletionTakesNoPlace ==
  [][~workload.overlap =>
       \A a \in 1..Areas : AreaExists(a) /\ area'[a].row = "gone"
         => UNCHANGED <<office, person>>]_territory

\* No two offices have names that differ only in spelling, although nothing in
\* the database forbids it.  Holds when requests do not overlap.
OfficeNamesDistinct ==
  ~workload.overlap =>
    \A o, p \in 1..Offices :
      o # p /\ OfficeExists(o) /\ OfficeExists(p) => ~SameName(office[o].name, office[p].name)

\* A worker a manager has hired, or moved, is in the manager's team as soon as
\* the transaction commits, whatever other requests do, if the manager works by
\* area; otherwise every endpoint of the panel would answer "not in your team".
HiredIsInTeam ==
  [][\A r \in Request, m, w \in Person :
       /\ req[r].op \in {"createWorker", "updateWorker"} /\ req'[r] = Idle
       /\ req[r].manager = m /\ req[r].user = w
       /\ person'[w].area # person[w].area
       /\ person[m].pincodes = {} /\ person'[w].role = "WORKER"
       => InTeam(m, w)']_<<territory, req>>

\* Whatever sequence of role changes, overlapping or not: nobody becomes a super
\* administrator, and none is demoted.
SuperAdminsStay ==
  [][\A u \in Person : Exists(u) => (person'[u].role = "SUPER_ADMIN" <=> person[u].role = "SUPER_ADMIN")]_territory

\* Staff have the profile their panel reads, through every change of role.
RoleHasProfile ==
  \A u \in Person :
    /\ Has(u, "MANAGER") => person[u].manager
    /\ Has(u, "WORKER") => person[u].worker
=============================================================================
