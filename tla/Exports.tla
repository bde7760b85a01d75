------------------------------ MODULE Exports ------------------------------
(***************************************************************************)
(* The sheets of the office.  reports.service.ts answers each report a     *)
(* second time as a workbook and a printed table, and keeps a third for    *)
(* download; admin.service.ts has statistics, analytics and a list of      *)
(* tickets of its own.  Each has its own query, and of its rows the model  *)
(* keeps what another sheet or screen tells too.                           *)
(*                                                                         *)
(* Ranges of dates, search, limits of rows, names, layout, and the file a  *)
(* sheet becomes are left out.                                             *)
(***************************************************************************)
EXTENDS Screens

AllOf(role) == {u \in Person : Has(u, role)}

CompletedBy(P(_)) == Cardinality(JobsThat(LAMBDA j : P(j) /\ job[j].status = "COMPLETED"))

WorkArea(w) == IF w # None /\ person[w].worker THEN person[w].area ELSE 0

-----------------------------------------------------------------------------
(* Jobs and money *)

exportRevenue ==
  [j \in JobsThat(LAMBDA j : buildRevenueWhere(j, {}, {})) |->
     [customer |-> job[j].customer, area |-> WorkArea(job[j].worker), amount |-> Amount(j),
      status |-> {invoice[i].status : i \in InvoicesOf(j)}]]

\* A job without an invoice is on it too, at no amount.
exportBooking ==
  [j \in getBookingReport({}, {}, {}, {}) |->
     [status |-> job[j].status, manager |-> job[j].manager, worker |-> job[j].worker,
      area |-> WorkArea(job[j].worker), amount |-> Amount(j)]]

\* The amount is the price of the job, not the total of its invoice.
fetchBookingsExportData ==
  [j \in 1..Jobs |-> IF ~JobExists(j) THEN {}
                     ELSE {[status |-> job[j].status, manager |-> job[j].manager,
                            worker |-> job[j].worker, amount |-> Total]}]

\* The invoices taxed, with the customer and the job each names.
exportTax ==
  [i \in WithStatus({"PAID", "SENT", "PARTIALLY_PAID"}) |->
     [job |-> invoice[i].job, customer |-> invoice[i].customer, total |-> invoice[i].total]]

\* Spent is what is PAID: the sheet kept for download counts every invoice.
exportCustomer ==
  [u \in AllOf("USER") |->
     [totalBookings |-> Cardinality(JobsThat(LAMBDA j : job[j].customer = u)),
      totalSpent |-> Money({i \in WithStatus({"PAID"}) : invoice[i].customer = u})]]

-----------------------------------------------------------------------------
(* Staff *)

\* The manager named is one of those of the area, whichever comes first.
exportWorkerExcel ==
  [w \in AllOf("WORKER") |->
     [area |-> WorkArea(w), managers |-> {m \in Person : WorkArea(w) \in person[m].areas},
      completedJobs |-> CompletedBy(LAMBDA j : job[j].worker = w),
      earnings |-> SumOver(JobsThat(LAMBDA j : job[j].worker = w /\ PaidJob(j)), Amount),
      isActive |-> person[w].active]]

exportWorkerPdf ==
  [w \in AllOf("WORKER") |->
     [area |-> WorkArea(w), completedJobs |-> CompletedBy(LAMBDA j : job[j].worker = w),
      isActive |-> person[w].active]]

\* Profiles, whatever role their owners have by now.
fetchWorkersExportData ==
  [w \in {u \in Person : Exists(u) /\ person[u].worker} |->
     [area |-> person[w].area, isActive |-> person[w].active]]

exportManager ==
  [m \in AllOf("MANAGER") |->
     [office |-> person[m].primary, areas |-> person[m].areas,
      completedJobs |-> CompletedBy(LAMBDA j : job[j].manager = m), isActive |-> person[m].active]]

fetchManagersExportData ==
  [m \in {u \in Person : Exists(u) /\ person[u].manager} |->
     [office |-> person[m].primary, isActive |-> person[m].active]]

-----------------------------------------------------------------------------
(* Tickets *)

\* A filter that is not sent is {}.
getComplaintReport(statuses, priorities) ==
  [t \in {s \in 1..Tickets : /\ TicketExists(s)
                             /\ statuses # {} => ticket[s].status \in statuses
                             /\ priorities # {} => ticket[s].priority \in priorities} |->
     [ticketNumber |-> ticket[t].number, status |-> ticket[t].status,
      assignedTo |-> ticket[t].assigned, closed |-> ticket[t].closedAt]]

\* The list of the admin panel, which anyone there may open.
getSupportTickets(statuses, priorities) ==
  {t \in 1..Tickets : /\ TicketExists(t)
                      /\ statuses = {} \/ ticket[t].status \in statuses
                      /\ priorities = {} \/ ticket[t].priority \in priorities}

\* The last of the charts.
complaintStatus == [s \in TicketStatus |-> Cardinality({t \in 1..Tickets :
                                                          TicketExists(t) /\ ticket[t].status = s})]

-----------------------------------------------------------------------------
(* Statistics of the admin panel *)

getStats ==
  [revenueTotal |-> Money(WithStatus({"PAID"})), totalBookings |-> Cardinality(findAll),
   activeBookings |-> Cardinality(JobsThat(LAMBDA j : job[j].status \in Current)),
   totalUsers |-> Cardinality(AllOf("USER")), totalWorkers |-> Cardinality(AllOf("WORKER")),
   totalManagers |-> Cardinality(AllOf("MANAGER"))]

\* None of the top workers is cut off.
getAnalytics ==
  [bookings |-> Cardinality(findAll),
   topWorkers |-> [w \in Person |-> CompletedBy(LAMBDA j : job[j].worker = w)]]

-----------------------------------------------------------------------------
(* Properties *)

\* What a sheet tells, another does not contradict.  Money: an invoice that is
\* taxed for a job stands on the job's row of the revenue, for the same customer
\* and amount; what workers earned in an area is in its revenue, and what customers
\* are said to have spent makes up the revenue of the panel.  A completed job whose
\* rest was not collected in person is billed at its price, unless an order was
\* paid late: then the job may be done for an invoice that has shrunk meanwhile.
MoneySheetsAgree ==
  LET revenue == exportRevenue
      bookings == exportBooking
      tax == exportTax
      workers == exportWorkerExcel
      customers == exportCustomer
  IN /\ \A i \in DOMAIN tax : tax[i].job # 0 =>
          LET j == tax[i].job IN /\ j \in DOMAIN revenue
                                 /\ revenue[j].customer = tax[i].customer
                                 /\ revenue[j].amount = tax[i].total
     /\ \A j \in DOMAIN bookings :
          /\ bookings[j].amount > 0 => j \in DOMAIN revenue
          /\ bookings[j].status = "COMPLETED" /\ ~job[j].collected
               /\ (\A i \in InvoicesOf(j) : ~invoice[i].late)
               /\ ~workload.overlap /\ ~workload.failures =>
                 \A row \in fetchBookingsExportData[j] : bookings[j].amount = row.amount
     /\ \A a \in 1..Areas :
          SumOver({w \in DOMAIN workers : workers[w].area = a}, LAMBDA w : workers[w].earnings)
            <= SumOver({j \in DOMAIN revenue : revenue[j].area = a}, Amount)
     /\ SumOver(DOMAIN customers, LAMBDA u : customers[u].totalSpent) <= getStats.revenueTotal
     /\ \A u \in DOMAIN customers :
          customers[u].totalSpent <= fetchCustomersExportData[u].totalSpent

\* Staff: who has a row by role has one by profile, which names the same place;
\* a manager named beside an active worker has that worker in the team; the places
\* named exist; and the jobs on the rows are those of the analytics.
StaffSheetsAgree ==
  LET workers == exportWorkerExcel
      profiles == fetchWorkersExportData
      managers == exportManager
      top == getAnalytics.topWorkers
  IN /\ \A w \in DOMAIN workers :
          /\ w \in DOMAIN profiles /\ profiles[w].area = workers[w].area
          /\ workers[w].area # 0 => AreaExists(workers[w].area)
          /\ \A m \in workers[w].managers : ByAreaOnly(m) /\ workers[w].isActive => w \in Counted(m)
          /\ exportWorkerPdf[w].completedJobs = top[w]
     /\ \A m \in DOMAIN managers :
          /\ m \in DOMAIN fetchManagersExportData
          /\ managers[m].office \in {0} \union {o \in 1..Offices : OfficeExists(o)}
          /\ \A a \in managers[m].areas : AreaExists(a)
     /\ SumOver(DOMAIN managers, LAMBDA m : managers[m].completedJobs)
          <= SumOver(Person, LAMBDA w : top[w])
     /\ getStats.totalWorkers <= getWorkerStats.workers.total
     /\ getAdminDashboard.totalManagers <= getStats.totalManagers

\* Tickets: each stands under one status of the chart; one a customer opened has
\* somebody who works on it when it says so, and the day it was closed; one of the
\* office has a number that no other has.
TicketSheetsAgree ==
  LET all == getComplaintReport({}, {}) IN
  /\ \A s \in TicketStatus : complaintStatus[s] = Cardinality(getSupportTickets({s}, {}))
  /\ \A t \in DOMAIN all :
       /\ all[t].ticketNumber = 0 =>
            /\ all[t].status = "IN_PROGRESS" => all[t].assignedTo # None
            /\ all[t].status = "CLOSED" => all[t].closed
       /\ all[t].ticketNumber # 0 =>
            \A s \in DOMAIN all \ {t} : all[s].ticketNumber # all[t].ticketNumber

SheetsAgree == MoneySheetsAgree /\ StaffSheetsAgree /\ TicketSheetsAgree
=============================================================================
