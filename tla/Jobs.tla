-------------------------------- MODULE Jobs --------------------------------
(***************************************************************************)
(* Jobs, which is what the manager's panel calls bookings: who is told of  *)
(* a new one, which managers see it, and whom they may put on it; with the *)
(* attendance that decides who is on duty.  Module Booking has the         *)
(* handlers of one booking query by query; here a job meets the areas,     *)
(* pincodes and staff of module Territory, which change under it.          *)
(*                                                                         *)
(* Slots, services, OTPs and photos are left out, and so are leave, which  *)
(* also keeps a worker off duty, and the position and the shift that are   *)
(* checked when a worker checks in.  An address is its postal code.        *)
(***************************************************************************)
EXTENDS Tasks

CONSTANTS
  Jobs,      \* bound: jobs ever booked
  Invoices,  \* bound: invoices ever issued
  Code,      \* the postal codes of addresses
  AreaCode   \* the postal code of each area

VARIABLES
  job,       \* the Booking table, and the managers notified of each row
  invoice,   \* the Invoice table, with its payments that succeeded or are open
  duty       \* the latest Attendance row of each person

work == <<job, invoice, duty>>

ASSUME JobsAssumption ==
  /\ Jobs \in Nat /\ Invoices \in Nat
  /\ Pincode \subseteq Code /\ AreaCode \in [1..Areas -> Code]

Life == INSTANCE BookingStatus
Sets == INSTANCE FiniteSetsExt

\* What a job costs, and the part of it that is paid in advance.
Total == 2
Advance == 1

\* collected: the worker has taken the rest in person.
JobRow ==
  [row : {"absent", "present", "gone"}, code : Code \union {None},
   customer : Person \union {None}, manager : Person \union {None},
   worker : Person \union {None}, status : Life!Status, collected : BOOLEAN,
   told : SUBSET Person]

InvoiceStatus ==
  {"DRAFT", "SENT", "PARTIALLY_PAID", "PAID", "OVERDUE", "CANCELLED", "REFUNDED"}

PaymentType == {"ADVANCE", "FULL"}

\* A PENDING payment: an order at the gateway that may still be paid.
OpenOrder == [type : PaymentType, amount : 1..Total]

\* job 0: the invoice is for no booking.  payments: how many SUCCESS payments of
\* each amount.  orders: how many open orders of each kind.  late (history): an
\* order was paid for more than was outstanding by then, or too late to be paid.
InvoiceRow ==
  [row : {"absent", "present"}, job : 0..Jobs, customer : Person \union {None},
   status : InvoiceStatus, total : 0..Total, payments : [1..Total -> Nat],
   orders : [OpenOrder -> Nat], late : BOOLEAN]

\* fresh: updated within the last five minutes.
DutyRow ==
  [day : {"none", "today", "earlier"}, fresh : BOOLEAN,
   status : {"CHECKED_IN", "CHECKED_OUT", "ABSENT", "PRESENT", "HALF_DAY"}]

WorkInit ==
  /\ job = [j \in 1..Jobs |->
              [row |-> "absent", code |-> None, customer |-> None, manager |-> None,
               worker |-> None, status |-> "PENDING_PAYMENT", collected |-> FALSE, told |-> {}]]
  /\ invoice = [i \in 1..Invoices |->
                  [row |-> "absent", job |-> 0, customer |-> None, status |-> "DRAFT",
                   total |-> 0, payments |-> [a \in 1..Total |-> 0],
                   orders |-> [o \in OpenOrder |-> 0], late |-> FALSE]]
  /\ duty = [u \in Person |-> [day |-> "none", fresh |-> FALSE, status |-> "CHECKED_OUT"]]

JobExists(j) == j # 0 /\ job[j].row = "present"

\* The update by id, which throws if the row is gone.
SetJob(j, row) == job' = IF JobExists(j) THEN [job EXCEPT ![j] = row] ELSE job

InvoicesOf(j) == {i \in 1..Invoices : invoice[i].row = "present" /\ invoice[i].job = j}

\* The sum of the successful payments of an invoice.
Paid(i) == Advance * invoice[i].payments[Advance] + Total * invoice[i].payments[Total]

\* getRemainingAmount: what no successful payment has covered, and no worker has
\* collected.
Remaining(j) ==
  IF job[j].collected THEN 0
  ELSE IF InvoicesOf(j) = {} THEN Total
  ELSE LET paid == Paid(CHOOSE i \in InvoicesOf(j) : TRUE)
       IN IF paid >= Total THEN 0 ELSE Total - paid

-----------------------------------------------------------------------------
(* Attendance *)

OnDuty(u) == duty[u].day = "today" /\ duty[u].status = "CHECKED_IN"

Stamped(u, day, status) == duty' = [duty EXCEPT ![u] = [day |-> day, fresh |-> TRUE, status |-> status]]

CheckIn(r, u) ==
  /\ AtOnce(r, "attend")
  /\ Exists(u) /\ ~OnDuty(u)
  /\ Stamped(u, "today", "CHECKED_IN")
  /\ UNCHANGED <<job, invoice>>

CheckOut(r, u) ==
  /\ AtOnce(r, "attend")
  /\ OnDuty(u)
  /\ Stamped(u, "today", "CHECKED_OUT")
  /\ UNCHANGED <<job, invoice>>

\* flagIfMissedCheckout, once the deadline has passed.
FlagMissed(r, u) ==
  /\ AtOnce(r, "flag")
  /\ duty[u].day # "none" /\ duty[u].status = "CHECKED_IN"
  /\ Stamped(u, duty[u].day, "ABSENT")
  /\ UNCHANGED <<job, invoice>>

\* The manager accepts the explanation of a missed check-out.
ApproveMissed(r, u) ==
  /\ AtOnce(r, "flag")
  /\ duty[u].day # "none" /\ duty[u].status = "ABSENT"
  /\ \E status \in {"PRESENT", "HALF_DAY"} : Stamped(u, duty[u].day, status)
  /\ UNCHANGED <<job, invoice>>

\* Five minutes pass; a day does.
Ages(r, u) ==
  /\ AtOnce(r, "clock")
  /\ duty[u].fresh
  /\ duty' = [duty EXCEPT ![u].fresh = FALSE]
  /\ UNCHANGED <<job, invoice>>

Midnight(r) ==
  /\ AtOnce(r, "clock")
  /\ duty' = [u \in Person |-> [duty[u] EXCEPT !.day = IF @ = "today" THEN "earlier" ELSE @]]
  /\ UNCHANGED <<job, invoice>>

-----------------------------------------------------------------------------
(* Customers *)

\* An active area has the code of the address.
Served(code) == {a \in 1..Areas : AreaExists(a) /\ area[a].active /\ AreaCode[a] = code}

CreateJob(r, c, code) ==
  /\ Arrives(r, "createJob")
  /\ Exists(c) /\ Served(code) # {}
  /\ Awaits(r, [op |-> "createJob", customer |-> c, code |-> code])
  /\ UNCHANGED work

CreateJobWrite(r) ==
  /\ Resumes(r, "createJob")
  /\ \E j \in NextRow(job, Jobs) :
       /\ job' = [job EXCEPT ![j] = [@ EXCEPT !.row = "present", !.code = req[r].code,
                                              !.customer = req[r].customer]]
       /\ Awaits(r, [op |-> "notify", job |-> j])
  /\ UNCHANGED <<invoice, duty>>

\* notifyAreaManagers: the first active area with the code, and its managers.
NotifyAreaManagers(r) ==
  /\ Resumes(r, "notify")
  /\ LET j == req[r].job IN
       IF Served(job[j].code) = {} THEN job' = job
       ELSE \E a \in Served(job[j].code) : SetJob(j, [job[j] EXCEPT !.told = ManagersOf(a)])
  /\ Reply(r)
  /\ UNCHANGED <<invoice, duty>>

\* Only what is over may be deleted; its invoice stays, for no booking.
RemoveJob(r, j) ==
  /\ Arrives(r, "removeJob")
  /\ JobExists(j) /\ ~Life!NotTerminal(job[j].status)
  /\ Awaits(r, [op |-> "removeJob", job |-> j])
  /\ UNCHANGED work

RemoveJobWrite(r) ==
  /\ Resumes(r, "removeJob")
  /\ LET j == req[r].job IN
       /\ SetJob(j, [job[j] EXCEPT !.row = "gone"])
       /\ invoice' = [i \in 1..Invoices |-> IF i \in InvoicesOf(j) THEN [invoice[i] EXCEPT !.job = 0]
                                            ELSE invoice[i]]
  /\ Reply(r)
  /\ UNCHANGED duty

-----------------------------------------------------------------------------
(* What a manager sees *)

\* resolveManagerPincodes, in both services.
ManagerCodes(m) ==
  LET own == {p \in person[m].pincodes : pincode[p]}
  IN  IF own # {} THEN own
      ELSE {AreaCode[a] : a \in {b \in person[m].areas : AreaExists(b) /\ area[b].active}}

\* resolveManagerBookingScope: a worker counts whatever role the account has.
InScope(m, j) ==
  \/ job[j].manager = m
  \/ job[j].worker # None /\ InFilter(m, job[j].worker)
  \/ job[j].code \in ManagerCodes(m)

Scope(m) == {j \in 1..Jobs : JobExists(j) /\ InScope(m, j)}

\* getManagerBookings, the list of the older panel.
OlderScope(m) == {j \in 1..Jobs : JobExists(j) /\ (job[j].manager = m \/ job[j].code \in ManagerCodes(m))}

\* The requests of the day on the manager's dashboard.
TodayRequests(m) ==
  {j \in 1..Jobs : JobExists(j) /\ job[j].code \in {AreaCode[a] : a \in person[m].areas}}

-----------------------------------------------------------------------------
(* Managers *)

\* By an administrator.
AssignManager(r, j, m) ==
  /\ Arrives(r, "assignManager")
  /\ JobExists(j) /\ Life!NotTerminal(job[j].status)
  /\ (Has(m, "MANAGER") \/ Has(m, "ADMIN")) /\ person[m].active
  /\ Awaits(r, [op |-> "assignManager", job |-> j, manager |-> m])
  /\ UNCHANGED work

AssignManagerWrite(r) ==
  /\ Resumes(r, "assignManager")
  /\ LET j == req[r].job
     IN SetJob(j, [job[j] EXCEPT !.manager = req[r].manager, !.status = "CONFIRMED"])
  /\ Reply(r)
  /\ UNCHANGED <<invoice, duty>>

\* authorizeManagerBooking.
Manages(m, j) == Has(m, "MANAGER") /\ person[m].active /\ j \in Scope(m)

\* Mutant: any worker will do.
MaySendAnyone(m, j, w) ==
  /\ Manages(m, j) /\ Life!NotTerminal(job[j].status)
  /\ Has(w, "WORKER") /\ person[w].active /\ OnDuty(w)

\* assignWorker, behind the panel's own checks.
MaySend(m, j, w) ==
  /\ Manages(m, j) /\ InTeam(m, w)
  /\ Life!NotTerminal(job[j].status)
  /\ Has(w, "WORKER") /\ person[w].active /\ OnDuty(w)

AssignJobWorker(r, m, j, w) ==
  /\ Arrives(r, "assignJobWorker")
  /\ MaySend(m, j, w) /\ job[j].worker = None
  /\ Awaits(r, [op |-> "sendWorker", manager |-> m, job |-> j, worker |-> w])
  /\ UNCHANGED work

ReassignJobWorker(r, m, j, w) ==
  /\ Arrives(r, "reassignJobWorker")
  /\ MaySend(m, j, w) /\ job[j].worker # None
  /\ Awaits(r, [op |-> "sendWorker", manager |-> m, job |-> j, worker |-> w])
  /\ UNCHANGED work

SendWorkerWrite(r) ==
  /\ Resumes(r, "sendWorker")
  /\ LET j == req[r].job
     IN SetJob(j, [job[j] EXCEPT !.worker = req[r].worker, !.status = "ASSIGNED"])
  /\ Reply(r)
  /\ UNCHANGED <<invoice, duty>>

StartJob(r, m, j) ==
  /\ Arrives(r, "startJob")
  /\ Manages(m, j) /\ job[j].worker # None
  /\ Life!CanTransition(job[j].status, "IN_PROGRESS")
  /\ Awaits(r, [op |-> "moveJob", manager |-> m, job |-> j, status |-> "IN_PROGRESS"])
  /\ UNCHANGED work

\* complete tests the statuses itself.
CompleteJob(r, m, j) ==
  /\ Arrives(r, "completeJob")
  /\ Manages(m, j) /\ job[j].status \in {"ASSIGNED", "IN_PROGRESS"} /\ Remaining(j) = 0
  /\ Awaits(r, [op |-> "moveJob", manager |-> m, job |-> j, status |-> "COMPLETED"])
  /\ UNCHANGED work

CancelJob(r, m, j) ==
  /\ Arrives(r, "cancelJob")
  /\ Manages(m, j) /\ Life!CanTransition(job[j].status, "CANCELLED")
  /\ Awaits(r, [op |-> "moveJob", manager |-> m, job |-> j, status |-> "CANCELLED"])
  /\ UNCHANGED work

\* collectPayment, by the worker of the job, whatever its status.
CollectPayment(r, j) ==
  /\ Arrives(r, "collectPayment")
  /\ JobExists(j) /\ job[j].worker # None
  /\ Awaits(r, [op |-> "collectPayment", job |-> j])
  /\ UNCHANGED work

CollectPaymentWrite(r) ==
  /\ Resumes(r, "collectPayment")
  /\ LET j == req[r].job IN SetJob(j, [job[j] EXCEPT !.collected = TRUE])
  /\ Reply(r)
  /\ UNCHANGED <<invoice, duty>>

MoveJobWrite(r) ==
  /\ Resumes(r, "moveJob")
  /\ LET j == req[r].job IN SetJob(j, [job[j] EXCEPT !.status = req[r].status])
  /\ Reply(r)
  /\ UNCHANGED <<invoice, duty>>

-----------------------------------------------------------------------------
(* The lists of workers of a manager *)

ByArea(m) == {w \in Person : Exists(w) /\ person[w].worker /\ person[w].area \in person[m].areas}

\* getWorkers and getLiveWorkers: profiles in the manager's areas, of active users.
Listed(m) == {w \in ByArea(m) : person[w].active}

\* buildWorkerWhere: a manager without areas gets everybody.
Reported(m) ==
  {w \in Person : Has(w, "WORKER") /\ person[w].worker
                  /\ (person[m].areas # {} => person[w].area \in person[m].areas)}

\* getInactiveWorkerList.
Inactive(m) == {w \in Reported(m) : ~person[w].active}

\* Mutant: the suspended are counted too.
CountedAll(m) == {w \in Person : InTeam(m, w)}

\* assignedWorkers of the dashboard.
Counted(m) == {w \in Person : InTeam(m, w) /\ person[w].active}

\* getLiveWorkers: offline, or not; the latest session of today decides.
Live(w) ==
  IF duty[w].day # "today" \/ duty[w].status = "CHECKED_OUT" \/ ~duty[w].fresh THEN "offline"
  ELSE IF InProgress(w) # {} THEN "active" ELSE "free"

\* buildTrackingRecord: the latest session of all.
Tracked(w) ==
  IF OnDuty(w) THEN IF duty[w].fresh THEN "LIVE" ELSE "CHECKED_IN"
  ELSE "OFFLINE"

-----------------------------------------------------------------------------

JobStarts(r) ==
  \/ Midnight(r)
  \/ \E u \in workload.people :
       \/ CheckIn(r, u) \/ CheckOut(r, u) \/ FlagMissed(r, u) \/ ApproveMissed(r, u) \/ Ages(r, u)
       \/ \E code \in Code : CreateJob(r, u, code)
       \/ \E j \in 1..Jobs :
            \/ AssignManager(r, j, u)
            \/ StartJob(r, u, j) \/ CompleteJob(r, u, j) \/ CancelJob(r, u, j)
            \/ \E w \in workload.people : AssignJobWorker(r, u, j, w) \/ ReassignJobWorker(r, u, j, w)
  \/ \E j \in 1..Jobs : RemoveJob(r, j) \/ CollectPayment(r, j)

JobWrites(r) ==
  \/ CreateJobWrite(r) \/ NotifyAreaManagers(r) \/ RemoveJobWrite(r)
  \/ AssignManagerWrite(r) \/ SendWorkerWrite(r) \/ MoveJobWrite(r)
  \/ CollectPaymentWrite(r)

JobNext == \E r \in Request : (MayStart(r) /\ JobStarts(r)) \/ JobWrites(r)

-----------------------------------------------------------------------------
(* Properties *)

WorkTypeOK ==
  /\ job \in [1..Jobs -> JobRow]
  /\ invoice \in [1..Invoices -> InvoiceRow]
  /\ duty \in [Person -> DutyRow]

\* Whoever is notified of a new booking "in your assigned area" finds it: on
\* the dashboard at once, and on both panels unless the manager works by
\* pincode.  Areas, their managers and their status change between the booking
\* and the notification.
ToldManagersSee ==
  [][\A j \in 1..Jobs : \A m \in job'[j].told \ job[j].told :
       /\ j \in TodayRequests(m)'
       /\ person[m].pincodes = {} => j \in Scope(m)' \intersect OlderScope(m)']_<<work, territory>>

\* What a manager does to a job never takes it off the manager's own panel:
\* it may be there only because of the worker, and the worker may be replaced.
\* Holds when requests do not overlap.
JobStaysOnPanel ==
  [][~workload.overlap =>
       \A r \in Request, m \in Person, j \in 1..Jobs :
         /\ req[r].op \in {"sendWorker", "moveJob"} /\ req'[r] = Idle
         /\ req[r].manager = m /\ req[r].job = j
         => j \in Scope(m)']_<<work, req>>

\* Each worker of a manager who works by area is on one list of the panel, with
\* those who may sign in or with those who may not, is counted on the dashboard
\* if on the first, and may be opened from either: the lists come from four
\* queries of three services, over roles, profiles and areas that change.
EveryoneListedOnce ==
  \A m \in Person :
    Has(m, "MANAGER") /\ person[m].areas # {} /\ person[m].pincodes = {} =>
      LET staff == {w \in Person : Has(w, "WORKER")} IN
        /\ Listed(m) \intersect staff = Counted(m)
        /\ Counted(m) \union Inactive(m) = {w \in staff : InTeam(m, w)}
        /\ Counted(m) \intersect Inactive(m) = {}

\* Who is shown as free, or active, is on the live map too, and may be given a
\* job; unless a missed check-out has just been flagged, or excused.
ShownFreeIsOnDuty ==
  \A w \in Person : duty[w].status \in {"CHECKED_IN", "CHECKED_OUT"} =>
    /\ Live(w) # "offline" <=> Tracked(w) = "LIVE"
    /\ Live(w) # "offline" => OnDuty(w)
=============================================================================
