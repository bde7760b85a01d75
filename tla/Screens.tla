------------------------------ MODULE Screens ------------------------------
(***************************************************************************)
(* The home screens and cards of the office, of managers and of workers,   *)
(* and the sheets: admin, dashboard, analytics, users and organizations    *)
(* services, and the rest of the reports.  The same figure stands on       *)
(* several of them, counted by a query of its own each time.               *)
(*                                                                         *)
(* The 60 seconds for which three of the screens are kept, ranges of       *)
(* dates, search, paging, personal data and layout are left out.           *)
(***************************************************************************)
EXTENDS Documents, Organizations

\* Math.max(0, n - k).
Less(n, k) == IF k >= n THEN 0 ELSE n - k

CountTasks(P(_)) == Cardinality({t \in 1..Tasks : TaskExists(t) /\ P(task[t])})

CheckedIn(w) == duty[w].day = "today" /\ duty[w].status = "CHECKED_IN"

-----------------------------------------------------------------------------
(* Customers and invoices, in the office *)

\* totalSpent is every invoice, paid or not.
getCustomers ==
  [u \in {v \in Person : Has(v, "USER")} |->
     [totalBookings |-> Cardinality(buildWhere({}, u, None, None)),
      totalSpent |-> Money({i \in 1..Invoices : InvoiceExists(i) /\ invoice[i].customer = u})]]

PENDING_STATUSES == {"PENDING", "CONFIRMED", "ASSIGNED", "IN_PROGRESS", "RESCHEDULED"}

getCustomerById(u) ==
  [completedBookings |-> Cardinality(buildWhere({"COMPLETED"}, u, None, None)),
   cancelledBookings |-> Cardinality(buildWhere({"CANCELLED"}, u, None, None)),
   pendingBookings |-> Cardinality(buildWhere(PENDING_STATUSES, u, None, None))]

\* The sheet "customers": of each the jobs, and every invoice, paid or not.
fetchCustomersExportData ==
  [u \in {v \in Person : Has(v, "USER")} |->
     [totalBookings |-> Cardinality(JobsThat(LAMBDA j : job[j].customer = u)),
      totalSpent |-> Money({i \in WithStatus(InvoiceStatus) : invoice[i].customer = u})]]

\* getStats of the invoices: counts.byStatus, and the sums.
invoiceStats ==
  [byStatus |-> [s \in InvoiceStatus |-> Money(WithStatus({s}))],
   totalBilled |-> Money(WithStatus(InvoiceStatus \ {"CANCELLED", "REFUNDED"})),
   totalPaid |-> Money(WithStatus({"PAID"})),
   totalOutstanding |-> Money(WithStatus({"SENT", "PARTIALLY_PAID", "OVERDUE"}))]

\* A filter that is not sent is {}.
buildBookingWhere(j, statuses, managers, workers, areas) ==
  /\ statuses # {} => job[j].status \in statuses
  /\ managers # {} => job[j].manager \in managers
  /\ workers # {} => job[j].worker \in workers
  /\ areas # {} => job[j].worker # None /\ person[job[j].worker].worker
                   /\ person[job[j].worker].area \in areas

getBookingReport(statuses, managers, workers, areas) ==
  JobsThat(LAMBDA j : buildBookingWhere(j, statuses, managers, workers, areas))

\* The sheet "revenue": the jobs with an invoice.
fetchRevenueExportData == JobsThat(LAMBDA j : InvoicesOf(j) # {})

-----------------------------------------------------------------------------
(* Home screens *)

\* getAdminDashboard: active accounts, and the sessions open today.
getAdminDashboard ==
  [totalWorkers |-> Cardinality({u \in Person : Has(u, "WORKER") /\ person[u].active}),
   totalManagers |-> Cardinality({u \in Person : Has(u, "MANAGER") /\ person[u].active}),
   activeWorkersToday |-> Cardinality({u \in Person : Has(u, "WORKER") /\ CheckedIn(u)}),
   tasks |-> [s \in TaskStatus |-> CountTasks(LAMBDA t : t.status = s)]]

\* The revenue is all SUCCESS payments, whatever became of the invoice.
getSuperAdminDashboard ==
  [invoices |-> Cardinality(WithStatus(InvoiceStatus \ {"CANCELLED", "REFUNDED"})),
   revenue |-> SumOver({i \in 1..Invoices : InvoiceExists(i)}, Paid)]

\* buildManagerDashboard resolves the filter for workers by itself.
buildManagerDashboard(m) ==
  LET mine(w) == /\ Has(w, "WORKER") /\ person[w].worker
                 /\ IF person[m].pincodes # {} THEN person[w].pincode \in person[m].pincodes
                    ELSE person[w].area \in person[m].areas
      tasks(S) == CountTasks(LAMBDA t : t.manager = m /\ t.status \in S)
  IN [assignedWorkers |-> Cardinality({w \in Person : mine(w) /\ person[w].active}),
      workersCheckedInToday |-> Cardinality({w \in Person : mine(w) /\ CheckedIn(w)}),
      active |-> tasks({"PENDING", "IN_PROGRESS"}),
      pendingApproval |-> tasks({"COMPLETED_PENDING_APPROVAL"}),
      completed |-> tasks({"COMPLETED"}),
      todayRequests |-> TodayRequests(m)]

\* getAttendance of a manager: a session that was flagged is not open.
getAttendance(u) ==
  [isCheckedIn |-> CheckedIn(u),
   attendanceStatus |-> IF duty[u].day # "today" THEN "NOT_CHECKED_IN" ELSE duty[u].status]

\* The home screen of a manager: totalWorkers counts the suspended too.
managerHome(m) ==
  LET own == buildManagerDashboard(m)
  IN [totalWorkers |-> Cardinality({w \in Person : Has(w, "WORKER") /\ InFilter(m, w)}),
      activeWorkers |-> own.assignedWorkers, presentToday |-> own.workersCheckedInToday,
      absentToday |-> Less(own.assignedWorkers, own.workersCheckedInToday),
      pendingJobs |-> own.active, completedJobs |-> own.completed,
      isCheckedIn |-> getAttendance(m).isCheckedIn]

getWorkerDashboard(w) ==
  LET tasks(s) == CountTasks(LAMBDA t : t.worker = w /\ t.status = s)
  IN [checkedInToday |-> duty[w].day = "today", isCheckedIn |-> CheckedIn(w),
      pending |-> tasks("PENDING"), active |-> tasks("IN_PROGRESS"),
      pendingApproval |-> tasks("COMPLETED_PENDING_APPROVAL"), completed |-> tasks("COMPLETED")]

-----------------------------------------------------------------------------
(* Staff, in the office *)

\* The list of managers takes their team from the manager's home screen.
getManagers ==
  [m \in {u \in Person : Exists(u) /\ person[u].manager} |->
     LET team == buildManagerDashboard(m)
     IN [totalWorkers |-> team.assignedWorkers, presentWorkers |-> team.workersCheckedInToday,
         absentWorkers |-> Less(team.assignedWorkers, team.workersCheckedInToday),
         officeLocations |-> OwnOffices(m),
         todayAttendanceStatus |-> IF duty[m].day = "today" THEN "PRESENT" ELSE "NO_CHECKIN"]]

\* The areas on the card of a manager, each with one of its offices: the manager's
\* own, if there is one.
assignedAreas(m) ==
  [a \in {b \in person[m].areas : AreaExists(b)} |->
     LET own == OfficesOf(a) \intersect OwnOffices(m) IN IF own # {} THEN own ELSE OfficesOf(a)]

\* The rest of the card: it counts profiles in the areas, suspended or not, and
\* lists those of active users, each with the area worked in.
ManagerCard(m) ==
  LET report == getManagerReport[m]
      reported == Has(m, "MANAGER")
  IN [totalWorkers |-> Cardinality(ByArea(m)),
      completedJobs |-> IF reported THEN report.completedJobs ELSE 0,
      pendingJobs |-> IF reported THEN report.pendingJobs ELSE 0,
      workers |-> [w \in getWorkers(m, {}, "ALL") |-> person[w].area]]

getManagerById(m) ==
  [card |-> ManagerCard(m), areas |-> assignedAreas(m), officeLocations |-> OwnOffices(m),
   todayAttendanceStatus |-> IF duty[m].day = "today" THEN "Present" ELSE "Absent"]

\* The card of a worker; {} when there is no such account of that role.
getWorkerById(w) ==
  IF ~Has(w, "WORKER") THEN {}
  ELSE LET report == getWorkerReport[w]
       IN {[completedJobs |-> report.completedJobs, pendingJobs |-> report.pendingJobs,
            officeLocations |-> IF AreaExists(person[w].area) THEN OfficesOf(person[w].area) ELSE {}]}

\* getWorkerStats of the users service: profiles, and sessions of today by role.
getWorkerStats ==
  LET figures(S, role) ==
        LET active == {u \in S : person[u].active}
            today == {u \in Person : Has(u, role) /\ duty[u].day = "today"}
        IN [total |-> Cardinality(S), active |-> Cardinality(active),
            inactive |-> Cardinality(S \ active), todayCheckedIn |-> Cardinality(today),
            absent |-> Less(Cardinality(active), Cardinality(today))]
  IN [workers |-> figures({u \in Person : Exists(u) /\ person[u].worker}, "WORKER"),
      managers |-> figures({u \in Person : Exists(u) /\ person[u].manager}, "MANAGER")]

-----------------------------------------------------------------------------
(* Tasks and organizations *)

\* Of the task report: the priorities, and what is overdue, are left out.
getTasksSummary ==
  LET byStatus == [s \in TaskStatus |-> CountTasks(LAMBDA t : t.status = s)]
  IN [byStatus |-> byStatus, total |-> SumOver(TaskStatus, LAMBDA s : byStatus[s]),
      completedCount |-> byStatus["COMPLETED"]]

getWorkerPerformance ==
  [w \in {u \in Person : Has(u, "WORKER") /\ person[u].active} |->
     [totalTasks |-> CountTasks(LAMBDA t : t.worker = w),
      completedTasks |-> CountTasks(LAMBDA t : t.worker = w /\ t.status = "COMPLETED"),
      timed |-> CountTasks(LAMBDA t : t.worker = w /\ t.status = "COMPLETED" /\ t.stamped)]]

\* getOverview of the analytics; taskTrends counts the completed that have a date.
getOverview ==
  [pincodePerformance |->
     [p \in Pincode |->
        [totalTasks |-> CountTasks(LAMBDA t : t.pincode = p),
         completedTasks |-> CountTasks(LAMBDA t : t.pincode = p /\ t.status = "COMPLETED")]],
   managerPerformance |->
     [m \in {u \in Person : Has(u, "MANAGER") /\ person[u].active} |->
        [totalTasks |-> CountTasks(LAMBDA t : t.manager = m),
         completedTasks |-> CountTasks(LAMBDA t : t.manager = m /\ t.status = "COMPLETED")]],
   taskTrends |-> CountTasks(LAMBDA t : t.status = "COMPLETED" /\ t.stamped)]

\* getDashboard of an organization: what its active members have.
orgDashboard(o) ==
  LET members == {u \in Person : member[o][u].row = "present" /\ member[o][u].active}
  IN [memberCount |-> Cardinality(members),
      bookings |-> JobsThat(LAMBDA j : job[j].customer \in members),
      invoices |-> {i \in 1..Invoices : InvoiceExists(i) /\ invoice[i].customer \in members}]

-----------------------------------------------------------------------------
(* Properties *)

\* Customers: the cards and the list add up to the bookings of the dashboard,
\* and a customer sees as many as the office counts, less what awaits payment;
\* what is called spent covers what was, and what was billed is paid, owed or in
\* draft.  An area shows the same jobs in the booking report as in the revenue,
\* and an organization that is gone shows none.  When requests neither overlap
\* nor fail, the payments a super administrator sees cover what is called paid.
CustomersAddUp ==
  LET list == getCustomers
      billed == invoiceStats
      sheet == fetchRevenueExportData
      every == findAll
  IN /\ getDashboard.totalBookings =
          SumOver(DOMAIN list, LAMBDA u : list[u].totalBookings)
            + Cardinality({j \in every : job[j].customer \notin DOMAIN list})
     /\ \A u \in DOMAIN list :
          LET card == getCustomerById(u)
          IN /\ card.completedBookings + card.cancelledBookings + card.pendingBookings
                  = Cardinality(getMyBookings(u, {}) \ getMyBookings(u, {"NO_SHOW"}))
             /\ fetchCustomersExportData[u].totalSpent >= getCustomerReport[u].totalSpent
     /\ billed.totalBilled = billed.totalPaid + billed.totalOutstanding + billed.byStatus["DRAFT"]
     /\ \A a \in 1..Areas :
          getBookingReport({}, {}, {}, {a}) \intersect sheet
            = {j \in every : buildRevenueWhere(j, {}, {a})}
     /\ \A o \in 1..Orgs : ~OrgExists(o) =>
          orgDashboard(o).bookings = {} /\ orgDashboard(o).invoices = {}
     /\ ~workload.overlap /\ ~workload.failures /\ Quiet =>
          LET admin == getSuperAdminDashboard
          IN /\ billed.totalPaid <= admin.revenue
             /\ Cardinality(WithStatus({"PAID"})) <= admin.invoices

\* Staff: a manager's home screen counts whom the reports count, its row in the
\* office not more, and the card not less; who is at work by one screen has come by
\* the others; and no screen counts an active worker the profiles do not.
StaffAddUp ==
  /\ \A m \in Person : Has(m, "MANAGER") =>
       LET home == managerHome(m)
           row == getManagers[m]
           detail == getManagerById(m)
           card == detail.card
       IN /\ home.activeWorkers = Cardinality(Counted(m))
          /\ home.activeWorkers <= home.totalWorkers /\ home.presentToday <= home.totalWorkers
          /\ row.totalWorkers <= home.totalWorkers
          /\ home.isCheckedIn => row.todayAttendanceStatus = "PRESENT"
          /\ Tracked(m) # "OFFLINE" <=> getAttendance(m).attendanceStatus = "CHECKED_IN"
          /\ ByAreaOnly(m) =>
               /\ row.totalWorkers <= card.totalWorkers
               /\ row.totalWorkers <= Cardinality(DOMAIN card.workers)
               /\ getManagerReport[m].workerCount = card.totalWorkers
               /\ \A w \in DOMAIN card.workers : Has(w, "WORKER") =>
                    /\ card.workers[w] \in DOMAIN detail.areas
                    /\ \A own \in getWorkerById(w) :
                         detail.areas[card.workers[w]] \subseteq own.officeLocations
                    /\ getWorkerById(w) # {}
  /\ LET profiles == getWorkerStats
         accounts == getAdminDashboard
     IN /\ accounts.totalWorkers <= profiles.workers.active
        /\ accounts.totalManagers <= profiles.managers.active
        /\ accounts.activeWorkersToday <= profiles.workers.todayCheckedIn

\* Tasks: all those with a manager are on the screens of managers, those with a
\* worker on the screens of workers, and each completed one is in the trend, for
\* it has a date; so the report knows how long each took.
TasksAddUp ==
  LET managed(m) == LET own == buildManagerDashboard(m)
                    IN own.active + own.pendingApproval + own.completed
      worked(w) == LET own == getWorkerDashboard(w)
                   IN own.pending + own.active + own.pendingApproval + own.completed
      overview == getOverview
      performance == getWorkerPerformance
      all == getTasksSummary.total
  IN /\ SumOver(Person, managed) = all - CountTasks(LAMBDA t : t.manager = None)
     /\ SumOver(Person, worked) = all - CountTasks(LAMBDA t : t.worker = None)
     /\ SumOver(DOMAIN overview.managerPerformance,
                LAMBDA m : overview.managerPerformance[m].totalTasks)
          <= SumOver(Pincode, LAMBDA p : overview.pincodePerformance[p].totalTasks)
     /\ \A m \in DOMAIN overview.managerPerformance :
          overview.managerPerformance[m].completedTasks = buildManagerDashboard(m).completed
     /\ SumOver(Pincode, LAMBDA p : overview.pincodePerformance[p].completedTasks)
          <= overview.taskTrends
     /\ overview.taskTrends = getTasksSummary.completedCount
     /\ \A w \in DOMAIN performance : performance[w].timed = getWorkerDashboard(w).completed

ScreensAgree == CustomersAddUp /\ StaffAddUp /\ TasksAddUp
=============================================================================
