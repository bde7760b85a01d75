---------------------------- MODULE LeavePolicy ----------------------------
(***************************************************************************)
(* Leave balances: the leave-policy service, with its two scheduled jobs   *)
(* and the catch-up of every start of the process.                         *)
(*                                                                         *)
(* As in module Booking, a handler is a sequence of awaited queries and    *)
(* req[r] is what handler r remembers between two of them.  The helpers of *)
(* this service are called from attendance and from leave requests: such a *)
(* handler stands at "balance", "lwp" or "create" while it is in one, and  *)
(* goes on at `next' (or, from ensureBalanceRow, at `back').               *)
(*                                                                         *)
(* Amounts are days.  The policy itself is constant; the modules that      *)
(* extend this one add the tables of attendance and leave requests.        *)
(***************************************************************************)
EXTENDS Integers, FiniteSets

CONSTANTS
  Staff,        \* ids of active users with role WORKER or MANAGER
  Session,      \* ids of Attendance rows
  Leave,        \* ids of WorkerLeaveRequest rows
  Request,      \* the requests and jobs that may be in flight at once
  Type,         \* the leave types the policy governs that are in use
  Allocation,   \* days credited of each type, monthly or (SICK) yearly
  Resets,       \* the types reset at the end of the financial year
  CarryLimit,   \* days of each type that survive a reset; 0: none
  ResetMonths,  \* the months that follow a financial year
  DaysPerMonth, \* length of a month
  Days,         \* how many days there are
  Failures,     \* how many queries may throw, or processes die
  Workload,     \* the operations that occur (all of them, or a subset)
  None          \* SQL NULL

ASSUME TypeAssumption ==
  /\ Type \subseteq {"CASUAL", "SICK", "PLANNED", "PAID"}
  /\ Allocation \in [Type -> Nat]
  /\ CarryLimit \in [Type -> Nat]
  /\ Resets \subseteq Type

ASSUME CalendarAssumption ==
  /\ DaysPerMonth \in Nat \ {0}
  /\ Days \in Nat \ {0}
  /\ ResetMonths \subseteq Nat

ASSUME NothingAssumption ==
  /\ Failures \in Nat
  /\ None \notin Staff \union Session \union Leave \union Type

\* The rows and requests that are counted.
ASSUME FinitenessAssumption == IsFiniteSet(Session) /\ IsFiniteSet(Request)

VARIABLES
  balance,   \* the LeaveBalance table
  ledger,    \* the LeaveTransaction table, summed by type and transactionType
  policy,    \* lastMonthlyAllocationRunMonth and lastFinancialYearResetRunYear
  today,     \* the calendar
  failures,  \* queries that threw, and processes that died, so far
  req        \* the handlers in flight

policyVars == <<balance, ledger, policy>>

clockVars == <<today, failures>>

-----------------------------------------------------------------------------
(* Rows and handlers *)

\* used and lwpUsed only concern the row of one employee.
Balance == [row : BOOLEAN, alloc : [Type -> Int], used : [Type -> Nat], lwp : Nat]

NoBalance ==
  [row |-> FALSE, alloc |-> [t \in Type |-> 0], used |-> [t \in Type |-> 0], lwp |-> 0]

\* RESET is the sum of RESET and CARRY_FORWARD.
Totals == [ALLOCATION : Int, DEDUCTION : Int, RESET : Int]

NoTotals == [ALLOCATION |-> 0, DEDUCTION |-> 0, RESET |-> 0]

Month == (today + DaysPerMonth - 1) \div DaysPerMonth

\* One of the updates made of an employee's row by a job, or as its first grant.
Task == {"grant", "reset", "credit"} \X Type

JobOps == {"allocate", "reset", "backfill"}

AttendanceOps == {"checkIn", "checkOut", "today", "sweep", "correct", "decideMissed"}

LeaveOps == {"apply", "cancel", "decideLeave"}

Ops == JobOps \union AttendanceOps \union LeaveOps \union {"view"}

Place ==
  {"done", "create", "task", "resetWrite", "next", "ensure", "balance", "pay", "lwp",
   "lwpWrite", "insert", "today", "flag", "mark", "rows", "find", "checkOut", "correct",
   "escalate", "settle", "apply", "cancel", "decide"}

Handler ==
  [op : Ops \union {"idle"}, at : Place,
   next : Place, back : Place,         \* where to go on after a helper
   staff : Staff \union {None},        \* whose balance, or session, it is about
   id : Session \union Leave \union {None},
   type : Type \union {"EMERGENCY", None},
   todo : SUBSET (Staff \union Session), tasks : SUBSET Task,
   alloc : Int, used : Nat, lwp : Nat, \* as read, or to be written
   days : {-1, 0, 1},                  \* what recordUnpaidAbsence shall add
   date : 0..Days,                     \* of a leave, or the month of a job
   level : {"MANAGER", "ADMIN"},       \* who decides
   decision : {"APPROVED", "REJECTED"},
   status : {"CHECKED_IN", "CHECKED_OUT", "PRESENT", "ABSENT"}]

Idle ==
  [op |-> "idle", at |-> "done", next |-> "done", back |-> "done", staff |-> None,
   id |-> None, type |-> None, todo |-> {}, tasks |-> {}, alloc |-> 0, used |-> 0,
   lwp |-> 0, days |-> 0, date |-> 0, level |-> "MANAGER", decision |-> "APPROVED",
   status |-> "ABSENT"]

Handle(op, at) == [Idle EXCEPT !.op = op, !.at = at]

\* While the process starts it serves no requests.
Begin(r, h) ==
  /\ h.op \in Workload
  /\ req[r] = Idle
  /\ \A q \in Request : req[q].op # "backfill"
  /\ req' = [req EXCEPT ![r] = h]

Reply(r) == req' = [req EXCEPT ![r] = Idle]

GoOn(h, at) == IF at = "done" THEN Idle ELSE [h EXCEPT !.at = at]

Await(r, at) == req' = [req EXCEPT ![r] = GoOn(req[r], at)]

\* h with these tasks to do, and then to go on at `back'.
WithTasks(h, tasks, back) ==
  IF tasks = {} THEN GoOn([h EXCEPT !.tasks = {}, !.back = "done"], back)
                ELSE [h EXCEPT !.at = "task", !.tasks = tasks, !.back = back]

-----------------------------------------------------------------------------
(* Rows of LeaveBalance *)

\* ensureBalanceRow: handler r goes on as h, once the row is there.
EnsureBalanceRow(r, h) ==
  req' = [req EXCEPT ![r] = IF balance[req[r].staff].row THEN h
                            ELSE [req[r] EXCEPT !.at = "create", !.back = req[r].at]]

Granted == {t \in Type : Allocation[t] > 0}

\* The row is created, then each type is credited in a query of its own.  If
\* another handler was faster the unique key makes this one fail.
CreateBalance(r) ==
  LET h == req[r]
  IN  /\ h.at = "create"
      /\ IF balance[h.staff].row
           THEN balance' = balance /\ Reply(r)
           ELSE /\ balance' = [balance EXCEPT ![h.staff].row = TRUE]
                /\ req' = [req EXCEPT ![r] = WithTasks(h, {"grant"} \X Granted, h.back)]
      /\ UNCHANGED <<ledger, policy, clockVars>>

\* getBalance, of the dashboards.
ViewBalance(r, w) ==
  /\ Begin(r, [Handle("view", "create") EXCEPT !.staff = w])
  /\ ~balance[w].row
  /\ UNCHANGED <<policyVars, clockVars>>

\* The order in which the tasks of a handler are done.
Order(k) ==
  [grant |-> 0, reset |-> 10, credit |-> 20][k[1]]
    + [CASUAL |-> 1, SICK |-> 2, PLANNED |-> 3, PAID |-> 4][k[2]]

NextTask(r) ==
  CHOOSE k \in req[r].tasks : \A j \in req[r].tasks : Order(k) <= Order(j)

Finish(r, k) ==
  req' = [req EXCEPT ![r] = WithTasks([req[r] EXCEPT !.alloc = 0, !.used = 0],
                                      req[r].tasks \ {k}, req[r].back)]

\* [mutant] the first grant leaves no transaction.
CreditUnrecorded(r) ==
  LET k == NextTask(r)
      w == req[r].staff
      t == k[2]
  IN  /\ req[r].at = "task" /\ k[1] \in {"grant", "credit"}
      /\ balance' = [balance EXCEPT ![w].alloc[t] = @ + Allocation[t]]
      /\ ledger' = IF k[1] = "grant" THEN ledger
                   ELSE [ledger EXCEPT ![w][t].ALLOCATION = @ + Allocation[t]]
      /\ Finish(r, k)
      /\ UNCHANGED <<policy, clockVars>>

\* credit: the increment and its transaction are written together.
Credit(r) ==
  LET k == NextTask(r)
      w == req[r].staff
      t == k[2]
  IN  /\ req[r].at = "task" /\ k[1] \in {"grant", "credit"}
      /\ balance' = [balance EXCEPT ![w].alloc[t] = @ + Allocation[t]]
      /\ ledger' = [ledger EXCEPT ![w][t].ALLOCATION = @ + Allocation[t]]
      /\ Finish(r, k)
      /\ UNCHANGED <<policy, clockVars>>

\* resetTypeAtFinancialYearEnd, reading.
ResetRead(r) ==
  LET k == NextTask(r)
      row == balance[req[r].staff]
  IN  /\ req[r].at = "task" /\ k[1] = "reset"
      /\ IF row.alloc[k[2]] = 0 /\ row.used[k[2]] = 0
           THEN Finish(r, k)
           ELSE req' = [req EXCEPT ![r].at = "resetWrite", ![r].alloc = row.alloc[k[2]],
                                   ![r].used = row.used[k[2]]]
      /\ UNCHANGED <<policyVars, clockVars>>

Carried(t, remaining) ==
  IF CarryLimit[t] = 0 THEN 0
  ELSE IF remaining < CarryLimit[t] THEN remaining ELSE CarryLimit[t]

\* [mutant] what is allocated lapses in the ledger, not what remains.
ResetWriteAllocated(r) ==
  LET k == NextTask(r)
      w == req[r].staff
      t == k[2]
      carried == Carried(t, req[r].alloc - req[r].used)
  IN  /\ req[r].at = "resetWrite"
      /\ balance' = [balance EXCEPT ![w].alloc[t] = carried, ![w].used[t] = 0]
      /\ ledger' = [ledger EXCEPT ![w][t].RESET =
                      @ - req[r].alloc + IF carried > 0 THEN carried ELSE 0]
      /\ Finish(r, k)
      /\ UNCHANGED <<policy, clockVars>>

\* A CARRY_FORWARD transaction is only written for a positive amount.
ResetWrite(r) ==
  LET k == NextTask(r)
      w == req[r].staff
      t == k[2]
      remaining == req[r].alloc - req[r].used
      carried == Carried(t, remaining)
  IN  /\ req[r].at = "resetWrite"
      /\ balance' = [balance EXCEPT ![w].alloc[t] = carried, ![w].used[t] = 0]
      /\ ledger' = [ledger EXCEPT ![w][t].RESET =
                      @ - remaining + IF carried > 0 THEN carried ELSE 0]
      /\ Finish(r, k)
      /\ UNCHANGED <<policy, clockVars>>

-----------------------------------------------------------------------------
(* Leave taken *)

\* [mutant] the day is taken from the balance whatever remains of it.
DeductReadAnyway(r) ==
  /\ req[r].at = "balance"
  /\ EnsureBalanceRow(r, [req[r] EXCEPT !.at = "pay"])
  /\ UNCHANGED <<policyVars, clockVars>>

\* deductForApprovedLeave: a day of the balance, or else a day without pay.
DeductRead(r) ==
  LET h == req[r]
      alloc == balance[h.staff].alloc[h.type]
      used == balance[h.staff].used[h.type]
  IN  /\ h.at = "balance"
      /\ EnsureBalanceRow(r, IF alloc - used > 0 THEN [h EXCEPT !.at = "pay"]
                             ELSE [h EXCEPT !.at = "lwp", !.days = 1])
      /\ UNCHANGED <<policyVars, clockVars>>

Pay(r) ==
  LET h == req[r]
  IN  /\ h.at = "pay"
      /\ balance' = [balance EXCEPT ![h.staff].used[h.type] = @ + 1]
      /\ ledger' = [ledger EXCEPT ![h.staff][h.type].DEDUCTION = @ + 1]
      /\ Await(r, h.next)
      /\ UNCHANGED <<policy, clockVars>>

\* [mutant] the counter is not clamped at zero.
LwpReadUnclamped(r) ==
  LET h == req[r]
  IN  /\ h.at = "lwp"
      /\ EnsureBalanceRow(r, [h EXCEPT !.at = "lwpWrite", !.lwp = balance[h.staff].lwp + h.days])
      /\ UNCHANGED <<policyVars, clockVars>>

\* recordUnpaidAbsence computes the new value here, and writes it later.
LwpRead(r) ==
  LET h == req[r]
      lwp == balance[h.staff].lwp + h.days
  IN  /\ h.at = "lwp"
      /\ EnsureBalanceRow(r, [h EXCEPT !.at = "lwpWrite", !.lwp = IF lwp > 0 THEN lwp ELSE 0])
      /\ UNCHANGED <<policyVars, clockVars>>

LwpWrite(r) ==
  LET h == req[r]
  IN  /\ h.at = "lwpWrite"
      /\ balance' = [balance EXCEPT ![h.staff].lwp = h.lwp]
      /\ req' = [req EXCEPT ![r] = GoOn([h EXCEPT !.lwp = 0, !.days = 0], h.next)]
      /\ UNCHANGED <<ledger, policy, clockVars>>

-----------------------------------------------------------------------------
(* Jobs *)

\* [mutant] every start credits again.
MonthlyAllocationAgain(r) ==
  /\ Begin(r, [Handle("allocate", "next") EXCEPT !.todo = Staff, !.date = Month])
  /\ UNCHANGED <<policyVars, clockVars>>

\* runMonthlyAllocation, by the cron, at every start, or by an administrator.
MonthlyAllocation(r) ==
  /\ Begin(r, [Handle("allocate", "next") EXCEPT !.todo = Staff, !.date = Month])
  /\ policy.month # Month
  /\ UNCHANGED <<policyVars, clockVars>>

\* runFinancialYearReset
FinancialYearReset(r) ==
  /\ Begin(r, [Handle("reset", "next") EXCEPT !.todo = {w \in Staff : balance[w].row},
                                              !.date = Month])
  /\ Month \in ResetMonths
  /\ policy.year # Month
  /\ UNCHANGED <<policyVars, clockVars>>

\* backfillMissingSickGrant, at every start of the process.
BackfillSick(r) ==
  LET missing == {w \in Staff : balance[w].row /\ balance[w].alloc["SICK"] = 0}
  IN  /\ "SICK" \in Granted
      /\ \A q \in Request : req[q] = Idle
      /\ Begin(r, [Handle("backfill", "next") EXCEPT !.todo = missing])
      /\ missing # {}
      /\ UNCHANGED <<policyVars, clockVars>>

JobTasks(op) ==
  CASE op = "allocate" -> {"credit"} \X (Granted \ {"SICK"})
    [] op = "reset"    -> ({"reset"} \X Resets) \union ({"credit"} \X (Granted \intersect {"SICK"}))
    [] op = "backfill" -> {<<"credit", "SICK">>}

\* The employees are served one after the other, in no particular order.
NextEmployee(r) ==
  /\ req[r].at = "next"
  /\ \E w \in req[r].todo :
       req' = [req EXCEPT ![r].at = "ensure", ![r].staff = w, ![r].todo = @ \ {w}]
  /\ UNCHANGED <<policyVars, clockVars>>

EnsureEmployee(r) ==
  /\ req[r].at = "ensure"
  /\ EnsureBalanceRow(r, WithTasks(req[r], JobTasks(req[r].op), "next"))
  /\ UNCHANGED <<policyVars, clockVars>>

\* Only now is the month, or the year, marked as done.
JobDone(r) ==
  /\ req[r].at = "next" /\ req[r].todo = {}
  /\ policy' = CASE req[r].op = "allocate" -> [policy EXCEPT !.month = req[r].date]
                 [] req[r].op = "reset"    -> [policy EXCEPT !.year = req[r].date]
                 [] req[r].op = "backfill" -> policy
  /\ Reply(r)
  /\ UNCHANGED <<balance, ledger, clockVars>>

PolicyCall(r) ==
  \/ \E w \in Staff : ViewBalance(r, w)
  \/ MonthlyAllocation(r)
  \/ FinancialYearReset(r)
  \/ BackfillSick(r)

PolicyContinue(r) ==
  \/ CreateBalance(r)
  \/ Credit(r)
  \/ ResetRead(r)
  \/ ResetWrite(r)
  \/ DeductRead(r)
  \/ Pay(r)
  \/ LwpRead(r)
  \/ LwpWrite(r)
  \/ NextEmployee(r)
  \/ EnsureEmployee(r)
  \/ JobDone(r)

-----------------------------------------------------------------------------
(* Time and failures *)

Midnight ==
  /\ today < Days
  /\ today' = today + 1
  /\ UNCHANGED <<policyVars, failures, req>>

\* A query throws, and with it the handler: nothing here catches it.
Throw(r) ==
  /\ req[r] # Idle
  /\ failures < Failures
  /\ failures' = failures + 1
  /\ Reply(r)
  /\ UNCHANGED <<policyVars, today>>

\* The process dies with everything in flight.
Crash ==
  /\ \E r \in Request : req[r] # Idle
  /\ failures < Failures
  /\ failures' = failures + 1
  /\ req' = [r \in Request |-> Idle]
  /\ UNCHANGED <<policyVars, today>>

PolicyInit ==
  /\ balance = [w \in Staff |-> NoBalance]
  /\ ledger = [w \in Staff |-> [t \in Type |-> NoTotals]]
  /\ policy = [month |-> 0, year |-> 0]
  /\ today = 1
  /\ failures = 0
  /\ req = [r \in Request |-> Idle]
=============================================================================
