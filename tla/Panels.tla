------------------------------- MODULE Panels -------------------------------
(***************************************************************************)
(* Who is shown what: the lists of workers, jobs and tickets on the panels *)
(* of offices, managers, workers and customers, as functions of the tables *)
(* of modules Jobs, Invoicing and Tickets, and the checks a row meets when *)
(* it is opened from a list.  Each list is a query of its own, some in     *)
(* three services; they are translated one by one, so that those which     *)
(* should agree can be compared in every state.                            *)
(*                                                                         *)
(* A filter that is not sent is {} or 0.  Search, ranges of dates, paging, *)
(* images and the layout of the rows are left out.                         *)
(***************************************************************************)
EXTENDS Reports, Tickets

-----------------------------------------------------------------------------
(* Workers *)

\* getManagerScope: what the filters of a manager are made of.
getManagerScope(m) == [areas |-> person[m].areas, pincodes |-> person[m].pincodes]

\* getWorkers: profiles of active users, in the areas of a manager (None: the
\* office asks); present is who has a row of today, whatever became of it.
getWorkers(m, areas, status) ==
  {w \in Person :
     /\ Exists(w) /\ person[w].worker /\ person[w].active
     /\ m # None => person[w].area \in person[m].areas
     /\ areas # {} => person[w].area \in areas
     /\ status = "PRESENT" => duty[w].day = "today"
     /\ status = "ABSENT" => duty[w].day # "today"
     /\ status \notin {"ON_LEAVE", "HALF_DAY"}}

\* The card of such a row: a flagged or excused session looks closed.
ShownStatus(w) ==
  IF duty[w].day # "today" THEN "ABSENT"
  ELSE IF duty[w].status = "CHECKED_IN" THEN "CHECKED_IN" ELSE "CHECKED_OUT"

\* The manager's list, of one area or (0) of all.
getWorkerList(m, status, a) ==
  IF a # 0 /\ a \notin getManagerScope(m).areas THEN {}
  ELSE IF status = "inactive" THEN {w \in Inactive(m) : a # 0 => person[w].area = a}
  ELSE getWorkers(m, IF a = 0 THEN {} ELSE {a}, status)

\* What the manager's list makes of a row of each of its three sources.
WorkerCard(m, w) ==
  LET report == getWorkerReport[w]
      reported == w \in Reported(m)
  IN [status |-> IF w \in Listed(m) THEN Live(w)
                 ELSE IF ShownStatus(w) = "CHECKED_IN" THEN "active" ELSE "offline",
      today |-> ShownStatus(w),
      totalJobs |-> IF reported THEN report.completedJobs + report.pendingJobs ELSE 0,
      completedJobs |-> IF reported THEN report.completedJobs ELSE 0]

getPresentWorkers(m) == getWorkers(m, {}, "PRESENT")

getAbsentWorkers(m) == getWorkers(m, {}, "ABSENT")

\* Opening a row: authorizeWorker, then the figures of the worker's report.
getWorkerDetails(m, w) ==
  IF ~InTeam(m, w) THEN {}
  ELSE LET report == getWorkerReport[w]
       IN {[isActive |-> person[w].active,
            completedJobs |-> report.completedJobs, pendingJobs |-> report.pendingJobs,
            present |-> duty[w].day = "today",
            officeLocations |-> IF AreaExists(person[w].area) THEN OfficesOf(person[w].area) ELSE {}]}

\* {} when the worker is not found, in the team or in the live list.
getWorkerLiveStatus(m, w) == IF InTeam(m, w) /\ w \in Listed(m) THEN {Live(w)} ELSE {}

\* The sessions reported: by the latest of each worker.
getReportsAttendance(m) == {w \in Person : Has(w, "WORKER") /\ InFilter(m, w) /\ duty[w].day # "none"}

-----------------------------------------------------------------------------
(* The live map *)

\* Workers, of a manager or of an office.
fetchWorkerTrackingRecords(m, o) ==
  {w \in Person :
     /\ Exists(w) /\ person[w].worker /\ person[w].active
     /\ m # None => person[w].area \in person[m].areas
     /\ o # 0 => AreaExists(person[w].area) /\ o \in OfficesOf(person[w].area)}

\* Managers, of an office by the older link or the newer; a manager's own map has
\* all of them.
fetchManagerTrackingRecords(o) ==
  {u \in Person :
     /\ Exists(u) /\ person[u].manager /\ person[u].active
     /\ o # 0 => person[u].primary = o \/ o \in person[u].offices}

\* The records of each kind that are asked for, with a tracking status if one is.
getLiveTracking(roles, m, o, statuses) ==
  UNION {{role} \X {u \in IF role = "WORKER" THEN fetchWorkerTrackingRecords(m, o)
                         ELSE fetchManagerTrackingRecords(o) :
                     statuses # {} => Tracked(u) \in statuses} : role \in roles}

-----------------------------------------------------------------------------
(* Jobs *)

\* The manager's list: of one worker, one area or one office, each his own.
getJobsList(m, w, a, o) ==
  LET areas == IF a # 0 THEN {a} ELSE {b \in person[m].areas : AreaExists(b) /\ office[o].area = b}
  IN IF \/ w # None /\ ~InTeam(m, w)
        \/ a # 0 /\ a \notin person[m].areas
        \/ a = 0 /\ o # 0 /\ o \notin OwnOffices(m)
     THEN {}
     ELSE {j \in Scope(m) :
             /\ w # None => job[j].worker = w
             /\ a # 0 \/ o # 0 =>
                  \/ /\ job[j].worker # None /\ person[job[j].worker].worker
                     /\ person[job[j].worker].area \in areas
                  \/ job[j].code \in {AreaCode[b] : b \in {c \in areas : AreaExists(c)}}}

\* Opening one: authorizeManagerBooking, then the job with its money.
getJobDetail(m, j) ==
  IF j \notin Scope(m) THEN {}
  ELSE {[status |-> job[j].status, payment |-> {invoice[i].status : i \in InvoicesOf(j)}]}

\* findAll of the office and, by its filters, of a customer and of a worker.
buildWhere(status, c, w, m) ==
  JobsThat(LAMBDA j : /\ status # {} => job[j].status \in status
                      /\ c # None => job[j].customer = c
                      /\ w # None => job[j].worker = w
                      /\ m # None => job[j].manager = m)

findAll == buildWhere({}, None, None, None)

\* What a customer sees: not what still awaits its payment, unless asked for.
getMyBookings(c, status) ==
  buildWhere(IF status = {} THEN Life!Status \ {"PENDING_PAYMENT"} ELSE status, c, None, None)

getWorkerBookings(w) == buildWhere({}, None, w, None)

\* A worker opens, and collects for, the jobs that are his.
getWorkerJobById(w, j) == JobExists(j) /\ job[j].worker = w

\* A customer pays for his own booking, the worker on it for him.
assertPaymentActor(u, j) ==
  IF person[u].role = "WORKER" THEN job[j].worker = u ELSE job[j].customer = u

-----------------------------------------------------------------------------
(* What a job owes *)

\* computeBookingPaymentSummary, in both services.
computeBookingPaymentSummary(j) ==
  LET online == SumOver(InvoicesOf(j), Paid)
      paid == IF job[j].collected THEN Total ELSE online
  IN [paidAmount |-> paid, remainingAmount |-> IF paid >= Total THEN 0 ELSE Total - paid,
      paymentStatus |-> IF paid >= Total THEN "PAID"
                        ELSE IF paid > 0 THEN "PARTIALLY_PAID" ELSE "UNPAID"]

\* A customer may read the summary of his own booking only.
getSummary(u, j) ==
  IF person[u].role = "USER" /\ job[j].customer # u THEN {} ELSE {computeBookingPaymentSummary(j)}

\* What the payment screen asks for: the rest of the invoice or, without one, the
\* advance.
getPaymentConfig(u, j) ==
  IF ~assertPaymentActor(u, j) THEN {}
  ELSE IF InvoicesOf(j) = {} THEN {[total |-> Advance, remaining |-> Advance]}
  ELSE {[total |-> invoice[i].total, remaining |-> Outstanding(i)] : i \in InvoicesOf(j)}

-----------------------------------------------------------------------------
(* Tickets *)

\* resolveManagerBookingWhere: by the manager or the worker of the booking, not
\* by its postal code.
resolveManagerBookingWhere(m, j) ==
  job[j].manager = m \/ (job[j].worker # None /\ InFilter(m, job[j].worker))

\* A ticket about no booking is hidden from every manager.
isTicketInManagerScope(t, m) ==
  JobExists(ticket[t].job) /\ resolveManagerBookingWhere(m, ticket[t].job)

findTickets(u) ==
  {t \in 1..Tickets :
     /\ TicketExists(t)
     /\ IsLimitedRole(u) => ticket[t].author = u
     /\ person[u].role = "MANAGER" => isTicketInManagerScope(t, u)}

\* findOne of the support panel.
OpensTicket(u, t) ==
  /\ TicketExists(t)
  /\ IsLimitedRole(u) => ticket[t].author = u
  /\ person[u].role = "MANAGER" => isTicketInManagerScope(t, u)

-----------------------------------------------------------------------------
(* Properties *)

ByAreaOnly(m) == Has(m, "MANAGER") /\ person[m].areas # {} /\ person[m].pincodes = {}

\* The workers a manager who works by area is shown: present and absent make up
\* the list, area by area too; each can be opened, with the figures of the row,
\* and stands on the live map, live only if on the live list; and nobody shown
\* as free or active is shown absent or gone in the next column, unless a missed
\* check-out was flagged.
WorkersOpen ==
  \A m \in Person : ByAreaOnly(m) =>
    LET all == getWorkerList(m, "all", 0)
        present == getPresentWorkers(m)
        absent == getAbsentWorkers(m)
        listed == Listed(m)
    IN
    /\ present \intersect absent = {}
    /\ present \union absent = all
    /\ UNION {getWorkerList(m, "all", a) : a \in person[m].areas} = listed
    /\ UNION {getWorkerList(m, "inactive", a) : a \in person[m].areas} = Inactive(m)
    /\ listed = fetchWorkerTrackingRecords(m, 0)
    /\ \A w \in {u \in all \union getWorkerList(m, "inactive", 0) : Has(u, "WORKER")} :
         \E row \in getWorkerDetails(m, w) :
           /\ row.completedJobs = WorkerCard(m, w).completedJobs
           /\ row.isActive => (row.present <=> w \notin absent)
    /\ {w \in present : Has(w, "WORKER")} \subseteq getReportsAttendance(m)
    /\ \A w \in listed : Has(w, "WORKER") => getWorkerLiveStatus(m, w) # {}
    /\ \A row \in getLiveTracking({"WORKER"}, m, 0, {"LIVE"}) :
         row[1] = "WORKER" => row[2] \in listed /\ Live(row[2]) # "offline"
    /\ \A w \in listed :
         duty[w].status \in {"CHECKED_IN", "CHECKED_OUT"} /\ WorkerCard(m, w).status # "offline" =>
           WorkerCard(m, w).today = "CHECKED_IN"

\* The jobs a manager is shown: the lists of the manager's areas miss none that
\* is there through its worker or its address, each job of a worker of the team is
\* on the panel, and a ticket is shown only with the job it is about.
JobsOpen ==
  \A m \in Person : Has(m, "MANAGER") =>
    /\ ByAreaOnly(m) =>
         \A j \in Scope(m) :
           \/ job[j].manager = m
           \/ \E a \in person[m].areas : j \in getJobsList(m, None, a, 0)
    /\ \A w \in Person : InTeam(m, w) => getWorkerBookings(w) = getJobsList(m, w, 0, 0)
    /\ \A w \in Person : \A j \in getJobsList(m, w, 0, 0) : getWorkerJobById(w, j)
    /\ \A t \in findTickets(m) : OpensTicket(m, t) /\ getJobDetail(m, ticket[t].job) # {}

\* Whoever has paid through the gateway finds the booking in the app, and may
\* read what is left to pay, as soon as the payment is recorded, unless recording
\* it fails half-way.
PaidIsShown ==
  [][~workload.failures => \A r \in Request :
       req[r].op = "sync" /\ req[r].online /\ req'[r] = Idle =>
         \A j \in {invoice[req[r].invoice].job} : JobExists(j)' =>
           (/\ j \in getMyBookings(job[j].customer, {})
            /\ getSummary(job[j].customer, j) # {})']_<<work, req>>

\* What is owed: an invoice for the whole price and the summary of its job tell
\* the same, and the payment screen asks for nothing more once the summary says
\* PAID, unless the rest was collected in person, of which the invoice never
\* learns, and but for what an order paid late left on the invoice.  Holds when
\* requests neither overlap nor fail half-way.
SummaryFollowsInvoice ==
  ~workload.overlap /\ ~workload.failures /\ Quiet =>
    \A i \in 1..Invoices : InvoiceExists(i) /\ JobExists(invoice[i].job) =>
      LET j == invoice[i].job
          owed == computeBookingPaymentSummary(j)
      IN /\ invoice[i].status = "PAID" /\ invoice[i].total = Total => owed.paymentStatus = "PAID"
         /\ ~job[j].collected =>
              /\ ~invoice[i].late =>
                   /\ invoice[i].status = "PARTIALLY_PAID" => owed.paymentStatus = "PARTIALLY_PAID"
                   /\ invoice[i].status = "REFUNDED" => owed.paymentStatus = "UNPAID"
              /\ owed.paymentStatus = "PAID" =>
                   \A ask \in getPaymentConfig(job[j].customer, j) : ask.remaining = 0
=============================================================================
