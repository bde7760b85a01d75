------------------------------ MODULE Reports ------------------------------
(***************************************************************************)
(* The figures of the reports, charts and sheets, as functions of the      *)
(* tables of jobs, invoices and people: reports.service.ts, and the        *)
(* manager's and worker's own figures.  Each is translated from the query  *)
(* that computes it, so that those which should agree can be compared in   *)
(* every state.  Ranges of dates, search, paging and layout are left out.  *)
(***************************************************************************)
EXTENDS Invoicing

Money(I) == Sets!MapThenSumSet(LAMBDA i : invoice[i].total, I)

\* A sum over people, or over jobs.
SumOver(S, f(_)) == Sets!MapThenSumSet(f, S)

WithStatus(statuses) == {i \in 1..Invoices : InvoiceExists(i) /\ invoice[i].status \in statuses}

JobsThat(P(_)) == {j \in 1..Jobs : JobExists(j) /\ P(j)}

\* The one invoice a job has is PAID.
PaidJob(j) == InvoicesOf(j) # {} /\ invoice[CHOOSE i \in InvoicesOf(j) : TRUE].status = "PAID"

\* What a report shows for a job: the total of the one invoice it has.
Amount(j) == IF InvoicesOf(j) = {} THEN 0 ELSE invoice[CHOOSE i \in InvoicesOf(j) : TRUE].total

Current == {"PENDING", "CONFIRMED", "ASSIGNED", "IN_PROGRESS"}

-----------------------------------------------------------------------------
(* Administrators *)

getDashboard ==
  [totalRevenue |-> Money(WithStatus({"PAID"})),
   totalBookings |-> Cardinality(JobsThat(LAMBDA j : TRUE)),
   completedJobs |-> Cardinality(JobsThat(LAMBDA j : job[j].status = "COMPLETED")),
   cancelledJobs |-> Cardinality(JobsThat(LAMBDA j : job[j].status = "CANCELLED")),
   activeCustomers |-> Cardinality({u \in Person : Has(u, "USER") /\ person[u].active}),
   activeWorkers |-> Cardinality({u \in Person : Has(u, "WORKER") /\ person[u].active}),
   activeManagers |-> Cardinality({u \in Person : Has(u, "MANAGER") /\ person[u].active})]

\* The sheet "overview".
fetchOverviewExportData ==
  [activeBookings |-> Cardinality(JobsThat(LAMBDA j : job[j].status \in Current)),
   totalUsers |-> Cardinality({u \in Person : Has(u, "USER")}),
   totalWorkers |-> Cardinality({u \in Person : Has(u, "WORKER")}),
   totalManagers |-> Cardinality({u \in Person : Has(u, "MANAGER")})]

\* A filter is a set: {} when it is not sent.  The area is the worker's now.
buildRevenueWhere(j, managers, areas) ==
  /\ InvoicesOf(j) # {}
  /\ managers # {} => job[j].manager \in managers
  /\ areas # {} => job[j].worker # None /\ person[job[j].worker].worker
                   /\ person[job[j].worker].area \in areas

\* The rows of getRevenueReport that are PAID.
RevenueOf(managers, areas) ==
  SumOver(JobsThat(LAMBDA j : buildRevenueWhere(j, managers, areas) /\ PaidJob(j)), Amount)

getCustomerReport ==
  [u \in {v \in Person : Has(v, "USER")} |->
     [totalBookings |-> Cardinality(JobsThat(LAMBDA j : job[j].customer = u)),
      totalSpent |-> Money({i \in WithStatus({"PAID"}) : invoice[i].customer = u})]]

getWorkerReport ==
  [w \in {v \in Person : Has(v, "WORKER")} |->
     [completedJobs |-> Cardinality(JobsThat(LAMBDA j : job[j].worker = w /\ job[j].status = "COMPLETED")),
      pendingJobs |-> Cardinality(JobsThat(LAMBDA j : job[j].worker = w /\ job[j].status \in Current)),
      earnings |-> SumOver(JobsThat(LAMBDA j : job[j].worker = w /\ PaidJob(j)), Amount)]]

getManagerReport ==
  [m \in {v \in Person : Has(v, "MANAGER")} |->
     [workerCount |-> SumOver(person[m].areas, LAMBDA a : Cardinality(WorkersOf(a))),
      completedJobs |-> Cardinality(JobsThat(LAMBDA j : job[j].manager = m /\ job[j].status = "COMPLETED")),
      pendingJobs |-> Cardinality(JobsThat(LAMBDA j : job[j].manager = m /\ job[j].status \in Current)),
      revenue |-> SumOver(JobsThat(LAMBDA j : job[j].manager = m /\ PaidJob(j)), Amount)]]

\* The summary of the tax report, which calls this revenue too.
getTaxReport == Money(WithStatus({"PAID", "SENT", "PARTIALLY_PAID"}))

\* topWorkers and topManagers, of whatever role, none cut off; paymentMethods.
getCharts ==
  [topWorkers |-> [w \in Person |->
     Cardinality(JobsThat(LAMBDA j : job[j].worker = w /\ job[j].status = "COMPLETED"))],
   topManagers |-> [m \in Person |->
     Cardinality(JobsThat(LAMBDA j : job[j].manager = m /\ PaidJob(j)))],
   paid |-> SumOver({i \in 1..Invoices : InvoiceExists(i)}, Paid)]

-----------------------------------------------------------------------------
(* Managers and workers *)

\* getJobsDashboard of the panel.
getJobsDashboard(m) ==
  [status \in Life!Status |-> Cardinality({j \in Scope(m) : job[j].status = status})]

\* getReportsDashboard: the jobs with the manager's name on them.
getReportsDashboard(m) ==
  LET count(statuses) == Cardinality(JobsThat(LAMBDA j : job[j].manager = m /\ job[j].status \in statuses))
  IN [totalJobs |-> count(Life!Status), completedJobs |-> count({"COMPLETED"}),
      pendingJobs |-> count(Life!Status) - count({"COMPLETED"}) - count({"CANCELLED"})]

\* getReportsEarnings: every SUCCESS payment, whatever became of the invoice.
getReportsEarnings(m) ==
  SumOver({i \in 1..Invoices : InvoiceExists(i) /\ JobExists(invoice[i].job)
                               /\ job[invoice[i].job].manager = m}, Paid)

\* getEarnings of the worker's panel.
getEarnings(w) ==
  (Total - Advance) * Cardinality(JobsThat(LAMBDA j : job[j].worker = w /\ job[j].status = "COMPLETED"))

-----------------------------------------------------------------------------
(* Properties *)

\* The same revenue is found along every way the screens offer: by invoice, by
\* job, by customer and, for jobs that have them, by manager; whatever overlaps
\* and fails.  It needs one invoice for a job, and the job's own customer on it.
\* And when requests neither overlap nor fail, what is called paid has been: the
\* payments on the charts, and on a manager's own screen, cover the revenue.
RevenueAddsUp ==
  LET alone(I) == {i \in I : invoice[i].job = 0}
      paid == WithStatus({"PAID"})
      revenue == getDashboard.totalRevenue
      customers == getCustomerReport
      managers == getManagerReport
  IN /\ revenue = RevenueOf({}, {}) + Money(alone(paid))
     /\ \A u \in DOMAIN customers :
          customers[u].totalSpent =
            SumOver(JobsThat(LAMBDA j : job[j].customer = u /\ PaidJob(j)), Amount)
              + Money({i \in alone(paid) : invoice[i].customer = u})
     /\ \A m \in DOMAIN managers : managers[m].revenue = RevenueOf({m}, {})
     /\ revenue <= getTaxReport
     /\ ~workload.overlap /\ ~workload.failures /\ Quiet =>
          /\ revenue <= getCharts.paid
          /\ \A m \in DOMAIN managers : managers[m].revenue <= getReportsEarnings(m)

\* Every job that is completed is on somebody's record: the charts and the
\* workers' reports add up to the dashboard, what workers read on their own panel
\* is for the same jobs, and none that is to be done is counted twice; whatever
\* overlaps and fails.  (A worker whose role has changed is on the chart only.)
\* And a manager sees on the panel every job the reports count for the manager.
CompletedIsCredited ==
  LET completed == getDashboard.completedJobs
      workers == getWorkerReport
      managers == getManagerReport
      top == getCharts.topWorkers
      staff == DOMAIN workers
  IN /\ completed = SumOver(staff, LAMBDA w : workers[w].completedJobs)
                     + SumOver(Person \ staff, LAMBDA w : top[w])
     /\ SumOver(Person, getEarnings) = (Total - Advance) * completed
     /\ SumOver(staff, LAMBDA w : workers[w].pendingJobs) <= fetchOverviewExportData.activeBookings
     /\ \A m \in DOMAIN managers :
          LET own == getReportsDashboard(m)
          IN /\ managers[m].completedJobs = own.completedJobs
             /\ managers[m].completedJobs <= getJobsDashboard(m)["COMPLETED"]
             /\ managers[m].pendingJobs <= own.pendingJobs

\* What a job that is completed counts for, and for whom, stays: its worker, its
\* manager, its status and, unless it was settled in person, the total of its
\* invoice, through reassignments, orders for another part of the price, and
\* edits.  Holds when requests neither overlap nor fail half-way (an invoice whose
\* payment is recorded, and whose status is not, can still be edited); deleting the
\* job takes it out of every report.
CompletedIsFixed ==
  [][~workload.overlap /\ ~workload.failures =>
       \A j \in 1..Jobs : JobExists(j) /\ job[j].status = "COMPLETED" /\ JobExists(j)' =>
         /\ [job'[j] EXCEPT !.collected = TRUE] = [job[j] EXCEPT !.collected = TRUE]
         /\ ~job[j].collected => Amount(j)' = Amount(j)]_work
=============================================================================
