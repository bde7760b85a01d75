--------------------------- MODULE WorkforceProofs ---------------------------
(***************************************************************************)
(* What the handlers of Workforce remember, and the types of its rows;     *)
(* that an approval has both decisions it requires, that a missed          *)
(* check-out costs one day at most, and that the balances follow from      *)
(* their ledger: for any staff, sessions, requests, jobs and overlap.      *)
(***************************************************************************)
EXTENDS Workforce, FiniteSetTheorems, WellFoundedInduction, TLAPS

-----------------------------------------------------------------------------
(* What a handler remembers *)

\* Where the handler of an operation goes on after a helper.
NextOf(op) ==
  CASE op = "checkOut" -> "find" [] op = "sweep" -> "rows" [] op = "decideLeave" -> "decide"
    [] OTHER -> "done"

\* The places in which only some operations are.
PlaceOK(h) ==
  /\ h.at = "done" => h.op = "idle"
  /\ h.at \in {"next", "ensure", "resetWrite"} => h.op \in JobOps
  /\ h.at = "resetWrite" => h.op = "reset"
  /\ h.at \in {"balance", "pay", "decide"} => h.op = "decideLeave"
  /\ h.at = "rows" => h.op = "sweep"
  /\ h.at \in {"find", "checkOut"} => h.op = "checkOut"
  /\ h.at = "settle" => h.op = "decideMissed"
  /\ h.at = "escalate" => h.op \in {"decideMissed", "decideLeave"}
  /\ h.at = "cancel" => h.op = "cancel"
  /\ h.at = "correct" => h.op = "correct"
  /\ h.at = "insert" => h.op = "checkIn"
  /\ h.at = "today" => h.op \in {"checkIn", "today"}
  /\ h.at = "flag" => h.op \in {"checkIn", "today", "checkOut"}
  /\ h.at = "mark" => h.op \in {"checkIn", "today", "checkOut", "sweep"}
  /\ h.at \in {"lwp", "lwpWrite"} =>
       h.op \in {"checkIn", "today", "checkOut", "sweep", "decideMissed", "decideLeave"}
  /\ h.at = "apply" => h.op = "apply"
  /\ h.at \in {"create", "task", "resetWrite"} =>
       /\ h.back \in {"done", "ensure", "next", "balance", "lwp"}
       /\ h.back = "done" => h.op = "view"
       /\ h.back \in {"ensure", "next"} => h.op \in JobOps
       /\ h.back = "balance" => h.op = "decideLeave"
       /\ h.back = "lwp" =>
            h.op \in {"checkIn", "today", "checkOut", "sweep", "decideMissed", "decideLeave"}

\* Whom and what it is about.
SubjectOK(h) ==
  /\ h.op \in Workload \union {"idle"}
  /\ h.next = NextOf(h.op)
  /\ h.at \notin {"done", "next", "rows", "correct", "cancel"} => h.staff \in Staff
  /\ h.op = "decideLeave" /\ h.at \notin {"decide", "escalate"} => h.type \in Type
  /\ h.at \in {"task", "resetWrite"} => h.tasks # {}
  /\ \A t \in Type : <<"reset", t>> \in h.tasks => h.op = "reset"
  /\ h.op = "backfill" => "SICK" \in Granted
  /\ h.op \in JobOps => h.todo \subseteq Staff
  /\ h.days # 0 => /\ h.at \in {"lwp", "lwpWrite", "create", "task"}
                   /\ h.at \in {"create", "task"} => h.back = "lwp"

\* The rows it has found are still there, of the same employee, and of the level
\* that was required when they were made.
RowsOK(h, s, m, l) ==
  /\ h.at \in {"flag", "find", "checkOut", "mark", "correct"} \/ h.op \in {"decideMissed", "checkOut"} =>
       h.id \in Session /\ s[h.id].status # "NONE"
  /\ h.at \in {"flag", "mark"} \/ h.op \in {"decideMissed", "checkOut"} => h.staff = s[h.id].staff
  /\ h.op = "sweep" => \A x \in h.todo : x \in Session /\ s[x].status # "NONE"
  /\ h.op \in {"cancel", "decideLeave"} =>
       h.id \in Leave /\ l[h.id].approval.status # "NONE"
  /\ h.op = "decideLeave" => h.staff = l[h.id].staff
  /\ h.op = "decideMissed" => m[h.id].approval.status # "NONE"
  /\ h.op = "decideMissed" /\ h.at # "escalate" /\ h.decision = "APPROVED" /\ h.level = "MANAGER" =>
       ~m[h.id].approval.required
  /\ h.op = "decideLeave" /\ h.at # "escalate" /\ h.decision = "APPROVED" /\ h.level = "MANAGER" =>
       ~l[h.id].approval.required

HandlerOK(h, s, m, l) == PlaceOK(h) /\ SubjectOK(h) /\ RowsOK(h, s, m, l)

\* A row that is there has its employee; a session that was flagged has its request.
TablesOK ==
  /\ \A s \in Session : session[s].status # "NONE" => session[s].staff \in Staff
  /\ \A s \in Session : session[s].status = "NONE" => session[s] = NoSession
  /\ \A s \in Session : missed[s].approval.status # "NONE" => session[s].status # "NONE"
  /\ \A s \in Session : session[s].missedCheckout => missed[s].approval.status # "NONE"
  /\ \A l \in Leave : leave[l].approval.status # "NONE" => leave[l].staff \in Staff
  /\ \A l \in Leave : leave[l].approval.status = "NONE" => leave[l] = NoLeave

\* What is true between any two queries.
WorkInv ==
  /\ TypeOK
  /\ TablesOK
  /\ \A r \in Request : HandlerOK(req[r], session, missed, leave)

-----------------------------------------------------------------------------
(* Handlers and their columns *)

LEMMA IdleType == Idle \in Handler
<1>1. "MANAGER" \in {"MANAGER", "ADMIN"} /\ 0 \in 0..Days
  BY CalendarAssumption
<1>. QED BY <1>1 DEF Idle, Handler, Place, Task

LEMMA IdleOK == \A s, m, l : HandlerOK(Idle, s, m, l)
<1>1. /\ Idle.op = "idle" /\ Idle.at = "done" /\ Idle.next = "done" /\ Idle.tasks = {}
      /\ Idle.days = 0
  BY DEF Idle
<1>. QED BY <1>1 DEF HandlerOK, PlaceOK, SubjectOK, RowsOK, NextOf, JobOps

\* What stays while a handler runs.
Same(g, h) ==
  g.op = h.op /\ g.next = h.next /\ g.level = h.level /\ g.decision = h.decision
  /\ g.type = h.type /\ g.id = h.id /\ g.staff = h.staff /\ g.todo = h.todo
  /\ g.status = h.status

WithAt(h, at) == [h EXCEPT !.at = at]

LEMMA SetAt ==
  ASSUME NEW h \in Handler, NEW at \in Place, NEW g, g = WithAt(h, at)
  PROVE  /\ g \in Handler /\ Same(g, h) /\ g.at = at /\ g.back = h.back
         /\ g.tasks = h.tasks /\ g.days = h.days /\ g.lwp = h.lwp
BY DEF Handler, Same, WithAt

WithBack(h, at, back) == [h EXCEPT !.at = at, !.back = back]

LEMMA SetBack ==
  ASSUME NEW h \in Handler, NEW at \in Place, NEW back \in Place, NEW g, g = WithBack(h, at, back)
  PROVE  /\ g \in Handler /\ Same(g, h) /\ g.at = at /\ g.back = back
         /\ g.tasks = h.tasks /\ g.days = h.days /\ g.lwp = h.lwp
BY DEF Handler, Same, WithBack

WithTasksOnly(h, tasks, back) == [h EXCEPT !.tasks = tasks, !.back = back]

LEMMA SetTasksOnly ==
  ASSUME NEW h \in Handler, NEW tasks \in SUBSET Task, NEW back \in Place, NEW g, g = WithTasksOnly(h, tasks, back)
  PROVE  /\ g \in Handler /\ Same(g, h) /\ g.at = h.at /\ g.back = back
         /\ g.tasks = tasks /\ g.days = h.days /\ g.lwp = h.lwp
BY DEF Handler, Same, WithTasksOnly

WithTasksAt(h, at, tasks, back) == [h EXCEPT !.at = at, !.tasks = tasks, !.back = back]

LEMMA SetTasksAt ==
  ASSUME NEW h \in Handler, NEW at \in Place, NEW tasks \in SUBSET Task, NEW back \in Place, NEW g, g = WithTasksAt(h, at, tasks, back)
  PROVE  /\ g \in Handler /\ Same(g, h) /\ g.at = at /\ g.back = back
         /\ g.tasks = tasks /\ g.days = h.days /\ g.lwp = h.lwp
BY DEF Handler, Same, WithTasksAt

WithAmounts(h, alloc, used) == [h EXCEPT !.alloc = alloc, !.used = used]

LEMMA SetAmounts ==
  ASSUME NEW h \in Handler, NEW alloc \in Int, NEW used \in Nat, NEW g, g = WithAmounts(h, alloc, used)
  PROVE  /\ g \in Handler /\ Same(g, h) /\ g.at = h.at /\ g.back = h.back
         /\ g.tasks = h.tasks /\ g.days = h.days /\ g.lwp = h.lwp
BY DEF Handler, Same, WithAmounts

WithAmountsAt(h, at, alloc, used) == [h EXCEPT !.at = at, !.alloc = alloc, !.used = used]

LEMMA SetAmountsAt ==
  ASSUME NEW h \in Handler, NEW at \in Place, NEW alloc \in Int, NEW used \in Nat, NEW g, g = WithAmountsAt(h, at, alloc, used)
  PROVE  /\ g \in Handler /\ Same(g, h) /\ g.at = at /\ g.back = h.back
         /\ g.tasks = h.tasks /\ g.days = h.days /\ g.lwp = h.lwp /\ g.alloc = alloc /\ g.used = used
BY DEF Handler, Same, WithAmountsAt

WithDays(h, at, days) == [h EXCEPT !.at = at, !.days = days]

LEMMA SetDays ==
  ASSUME NEW h \in Handler, NEW at \in Place, NEW days \in {-1, 0, 1}, NEW g, g = WithDays(h, at, days)
  PROVE  /\ g \in Handler /\ Same(g, h) /\ g.at = at /\ g.back = h.back
         /\ g.tasks = h.tasks /\ g.days = days /\ g.lwp = h.lwp
BY DEF Handler, Same, WithDays

WithLwp(h, at, lwp) == [h EXCEPT !.at = at, !.lwp = lwp]

LEMMA SetLwp ==
  ASSUME NEW h \in Handler, NEW at \in Place, NEW lwp \in Nat, NEW g, g = WithLwp(h, at, lwp)
  PROVE  /\ g \in Handler /\ Same(g, h) /\ g.at = at /\ g.back = h.back
         /\ g.tasks = h.tasks /\ g.days = h.days /\ g.lwp = lwp
BY DEF Handler, Same, WithLwp

WithCharged(h, lwp, days) == [h EXCEPT !.lwp = lwp, !.days = days]

LEMMA SetCharged ==
  ASSUME NEW h \in Handler, NEW days \in {-1, 0, 1}, NEW lwp \in Nat, NEW g, g = WithCharged(h, lwp, days)
  PROVE  /\ g \in Handler /\ Same(g, h) /\ g.at = h.at /\ g.back = h.back
         /\ g.tasks = h.tasks /\ g.days = days /\ g.lwp = lwp
BY DEF Handler, Same, WithCharged

\* The rows found before are the rows found after.
LEMMA RowsKept ==
  ASSUME NEW g, NEW h, NEW s, NEW m, NEW l, RowsOK(h, s, m, l), Same(g, h),
         g.at \notin {"flag", "find", "checkOut", "mark", "correct"},
         g.at # "escalate" => h.at # "escalate"
  PROVE  RowsOK(g, s, m, l)
BY DEF RowsOK, Same

\* The next state of the handler of r, if nobody else moves.
Becomes(r, g) == g \in Handler /\ HandlerOK(g, session, missed, leave) /\ req' = [req EXCEPT ![r] = g]

LEMMA ReplyBecomes ==
  ASSUME NEW r \in Request, Reply(r)
  PROVE  Becomes(r, Idle)
BY IdleType, IdleOK DEF Becomes, Reply

\* After the tasks on a row, a handler goes on where it stood.
LEMMA WithTasksOK ==
  ASSUME NEW s, NEW m, NEW l, NEW h \in Handler, HandlerOK(h, s, m, l),
         NEW tasks \in SUBSET Task, NEW back,
         \A t \in Type : <<"reset", t>> \in tasks => h.op = "reset",
         \/ h.at \in {"create", "task", "resetWrite"} /\ back = h.back
         \/ h.at = "ensure" /\ back = "next"
  PROVE  /\ WithTasks(h, tasks, back) \in Handler
         /\ HandlerOK(WithTasks(h, tasks, back), s, m, l)
<1>0. /\ back \in {"done", "ensure", "next", "balance", "lwp"}
      /\ back = "done" => h.op = "view"
      /\ back \in {"ensure", "next"} => h.op \in JobOps
      /\ back = "balance" => h.op = "decideLeave"
      /\ back = "lwp" =>
           h.op \in {"checkIn", "today", "checkOut", "sweep", "decideMissed", "decideLeave"}
      /\ h.days # 0 => back = "lwp"
      /\ h.staff \in Staff
      /\ h.op = "decideLeave" => h.type \in Type
      /\ h.at # "escalate"
  BY DEF HandlerOK, PlaceOK, SubjectOK
<1>1. back \in Place /\ "done" \in Place /\ {} \in SUBSET Task
  BY <1>0 DEF Place
<1>2. CASE tasks # {}
  <2>. DEFINE g == WithTasksAt(h, "task", tasks, back)
  <2>0. "task" \in Place
    BY DEF Place
  <2>1. g \in Handler /\ Same(g, h) /\ g.at = "task" /\ g.back = back /\ g.tasks = tasks /\ g.days = h.days
    BY <1>1, <2>0, SetTasksAt
  <2>2. WithTasks(h, tasks, back) = g
    BY <1>2 DEF WithTasks, WithTasksAt
  <2>. HIDE DEF g
  <2>3. PlaceOK(g)
    BY <1>0, <2>1 DEF PlaceOK, Same
  <2>4. SubjectOK(g)
    BY <1>0, <1>2, <2>1 DEF HandlerOK, SubjectOK, Same
  <2>5. RowsOK(g, s, m, l)
    BY <1>0, <2>1, RowsKept DEF HandlerOK
  <2>. QED BY <2>1, <2>2, <2>3, <2>4, <2>5 DEF HandlerOK
<1>3. CASE tasks = {} /\ back = "done"
  BY <1>3, IdleType, IdleOK DEF WithTasks, GoOn
<1>4. CASE tasks = {} /\ back # "done"
  <2>. DEFINE f == WithTasksOnly(h, {}, "done")
              g == WithAt(f, back)
  <2>1. f \in Handler /\ Same(f, h) /\ f.tasks = {} /\ f.days = h.days
    BY <1>1, SetTasksOnly
  <2>2. WithTasks(h, tasks, back) = g
    BY <1>4 DEF WithTasks, GoOn, WithTasksOnly, WithAt
  <2>. HIDE DEF f
  <2>3. g \in Handler /\ Same(g, f) /\ g.at = back /\ g.tasks = f.tasks /\ g.days = f.days
    BY <1>1, <2>1, SetAt
  <2>. HIDE DEF g
  <2>4. Same(g, h) /\ g.tasks = {} /\ g.days = h.days
    BY <2>1, <2>3 DEF Same
  <2>5. PlaceOK(g)
    BY <1>0, <1>4, <2>3, <2>4 DEF PlaceOK, Same
  <2>6. SubjectOK(g)
    BY <1>0, <1>4, <2>3, <2>4 DEF HandlerOK, SubjectOK, Same
  <2>7. RowsOK(g, s, m, l)
    BY <1>0, <2>3, <2>4, RowsKept DEF HandlerOK
  <2>. QED BY <2>2, <2>3, <2>5, <2>6, <2>7 DEF HandlerOK
<1>. QED BY <1>2, <1>3, <1>4

\* A handler waits for its row of LeaveBalance where it stands.
LEMMA EnsureBecomes ==
  ASSUME NEW r \in Request, NEW h \in Handler, EnsureBalanceRow(r, h),
         req[r] \in Handler, HandlerOK(req[r], session, missed, leave), req[r].at \in {"ensure", "balance", "lwp"},
         balance[req[r].staff].row => HandlerOK(h, session, missed, leave)
  PROVE  \E g : Becomes(r, g)
<1>1. CASE balance[req[r].staff].row
  BY <1>1 DEF EnsureBalanceRow, Becomes
<1>2. CASE ~balance[req[r].staff].row
  <2>. DEFINE g == WithBack(req[r], "create", req[r].at)
  <2>0. req[r].at \in Place /\ "create" \in Place
    BY DEF Place
  <2>1. g \in Handler /\ Same(g, req[r]) /\ g.at = "create" /\ g.back = req[r].at
        /\ g.tasks = req[r].tasks /\ g.days = req[r].days
    BY <2>0, SetBack
  <2>2. req' = [req EXCEPT ![r] = g]
    BY <1>2 DEF EnsureBalanceRow, WithBack
  <2>. HIDE DEF g
  <2>3. PlaceOK(g)
    BY <2>1 DEF HandlerOK, PlaceOK, Same
  <2>4. SubjectOK(g)
    BY <2>1 DEF HandlerOK, PlaceOK, SubjectOK, Same
  <2>5. RowsOK(g, session, missed, leave)
    BY <2>1, RowsKept DEF HandlerOK
  <2>. QED BY <2>1, <2>2, <2>3, <2>4, <2>5 DEF HandlerOK, Becomes
<1>. QED BY <1>1, <1>2


-----------------------------------------------------------------------------
(* Calls *)

\* Rows are not deleted, and keep their employee and the level they require.
Keeps(s, m, l, s2, m2, l2) ==
  /\ \A x \in Session : s[x].status # "NONE" => s2[x].status # "NONE" /\ s2[x].staff = s[x].staff
  /\ \A x \in Session : m[x].approval.status # "NONE" =>
       m2[x].approval.status # "NONE" /\ m2[x].approval.required = m[x].approval.required
  /\ \A x \in Leave : l[x].approval.status # "NONE" =>
       /\ l2[x].approval.status # "NONE" /\ l2[x].approval.required = l[x].approval.required
       /\ l2[x].staff = l[x].staff

LEMMA Remembers ==
  ASSUME NEW h, NEW s, NEW m, NEW l, NEW s2, NEW m2, NEW l2,
         HandlerOK(h, s, m, l), Keeps(s, m, l, s2, m2, l2)
  PROVE  HandlerOK(h, s2, m2, l2)
BY DEF HandlerOK, RowsOK, Keeps

\* A month is begun on its first day.
LEMMA MonthType ==
  ASSUME today \in 1..Days
  PROVE  Month \in 0..Days
<1>. DEFINE n == today + DaysPerMonth - 1
            q == n \div DaysPerMonth
<1>0. /\ DaysPerMonth \in Nat /\ DaysPerMonth >= 1 /\ Days \in Nat
      /\ n \in Nat /\ today \in Nat /\ today >= 1 /\ today <= Days
  BY CalendarAssumption
<1>1. q \in Int /\ DaysPerMonth * q <= n
  BY <1>0
<1>2. q >= 0
  BY <1>0
<1>3. q <= today
  <2>1. SUFFICES ASSUME q >= today + 1 PROVE FALSE
    BY <1>0, <1>1
  <2>. HIDE DEF q
  <2>2. DaysPerMonth * q >= DaysPerMonth * (today + 1)
    BY <1>0, <1>1, <2>1
  <2>3. DaysPerMonth * (today + 1) = DaysPerMonth * today + DaysPerMonth
    BY <1>0
  <2>4. DaysPerMonth * today >= today
    BY <1>0
  <2>. QED BY <1>0, <1>1, <2>2, <2>3, <2>4
<1>. QED BY <1>0, <1>1, <1>2, <1>3 DEF Month

\* The columns in which calls differ.
OfStaff(op, at, w) == [Handle(op, at) EXCEPT !.staff = w]

OfJob(op, todo, date) == [Handle(op, "next") EXCEPT !.todo = todo, !.date = date]

OfSweep(todo) == [Handle("sweep", "rows") EXCEPT !.todo = todo, !.next = "rows"]

OfRow(op, id) == [Handle(op, op) EXCEPT !.id = id]

OfCorrect(id, status) == [Handle("correct", "correct") EXCEPT !.id = id, !.status = status]

OfCheckOut(w, id) == [Handle("checkOut", "flag") EXCEPT !.staff = w, !.id = id, !.next = "find"]

OfApply(w, d, t) == [Handle("apply", "apply") EXCEPT !.staff = w, !.date = d, !.type = t]

OfMissed(at, id, level, decision, w, status) ==
  [Handle("decideMissed", at) EXCEPT !.id = id, !.level = level, !.decision = decision,
                                     !.staff = w, !.status = status]

OfLeave(at, id, level, decision, w, t) ==
  [Handle("decideLeave", at) EXCEPT !.id = id, !.level = level, !.decision = decision,
                                    !.staff = w, !.type = t, !.next = "decide"]

Fresh(g) == g.days = 0 /\ g.tasks = {} /\ g.lwp = 0 /\ g.back = "done"

LEMMA HandleType ==
  ASSUME NEW op \in Ops, NEW at \in Place, NEW g, g = Handle(op, at)
  PROVE  /\ g \in Handler /\ g.op = op /\ g.at = at /\ Fresh(g)
         /\ g.next = "done" /\ g.todo = {} /\ g.staff = None /\ g.id = None /\ g.type = None
         /\ g.decision = "APPROVED" /\ g.level = "MANAGER" /\ g.date = 0
<1>1. Idle.op = "idle" /\ Idle.at = "done"
  BY DEF Idle
<1>2. [Idle EXCEPT !.op = op, !.at = at] \in Handler
  BY IdleType DEF Handler
<1>. QED BY <1>2 DEF Handle, Idle, Fresh

LEMMA OfStaffType ==
  ASSUME NEW op \in Ops, NEW at \in Place, NEW w \in Staff, NEW g, g = OfStaff(op, at, w)
  PROVE  /\ g \in Handler /\ g.op = op /\ g.at = at /\ Fresh(g)
         /\ g.next = "done" /\ g.todo = {} /\ g.staff = w
<1>. DEFINE f == Handle(op, at)
<1>1. f \in Handler /\ f.op = op /\ f.at = at /\ Fresh(f) /\ f.next = "done" /\ f.todo = {}
  BY HandleType
<1>2. g = [f EXCEPT !.staff = w]
  BY DEF OfStaff
<1>. HIDE DEF f
<1>. QED BY <1>1, <1>2 DEF Handler, Fresh

LEMMA OfJobType ==
  ASSUME NEW op \in JobOps, NEW todo \in SUBSET Staff, NEW date \in 0..Days,
         NEW g, g = OfJob(op, todo, date)
  PROVE  /\ g \in Handler /\ Fresh(g) /\ g.op = op /\ g.at = "next"
         /\ g.next = "done" /\ g.todo = todo /\ g.date = date
<1>. DEFINE f == Handle(op, "next")
<1>0. op \in Ops /\ "next" \in Place
  BY DEF Ops, JobOps, AttendanceOps, LeaveOps, Place
<1>1. /\ f \in Handler /\ f.op = op /\ f.at = "next" /\ Fresh(f)
      /\ f.next = "done" /\ f.todo = {} /\ f.decision = "APPROVED"
  BY <1>0, HandleType
<1>2. g = [f EXCEPT !.todo = todo, !.date = date]
  BY DEF OfJob
<1>. HIDE DEF f
<1>. QED BY ZenonT(60), <1>0, <1>1, <1>2 DEF Handler, Fresh

LEMMA OfSweepType ==
  ASSUME NEW todo \in SUBSET Session,
         NEW g, g = OfSweep(todo)
  PROVE  /\ g \in Handler /\ Fresh(g) /\ g.op = "sweep" /\ g.at = "rows"
         /\ g.next = "rows" /\ g.todo = todo
<1>. DEFINE f == Handle("sweep", "rows")
<1>0. "sweep" \in Ops /\ "rows" \in Place
  BY DEF Ops, JobOps, AttendanceOps, LeaveOps, Place
<1>1. /\ f \in Handler /\ f.op = "sweep" /\ f.at = "rows" /\ Fresh(f)
      /\ f.next = "done" /\ f.todo = {} /\ f.decision = "APPROVED"
  BY <1>0, HandleType
<1>2. g = [f EXCEPT !.todo = todo, !.next = "rows"]
  BY DEF OfSweep
<1>. HIDE DEF f
<1>. QED BY ZenonT(60), <1>0, <1>1, <1>2 DEF Handler, Fresh

LEMMA OfRowType ==
  ASSUME NEW op \in {"cancel"}, NEW id \in Leave,
         NEW g, g = OfRow(op, id)
  PROVE  /\ g \in Handler /\ Fresh(g) /\ g.op = op /\ g.at = op
         /\ g.next = "done" /\ g.id = id
<1>. DEFINE f == Handle(op, op)
<1>0. op \in Ops /\ op \in Place
  BY DEF Ops, JobOps, AttendanceOps, LeaveOps, Place
<1>1. /\ f \in Handler /\ f.op = op /\ f.at = op /\ Fresh(f)
      /\ f.next = "done" /\ f.todo = {} /\ f.decision = "APPROVED"
  BY <1>0, HandleType
<1>2. g = [f EXCEPT !.id = id]
  BY DEF OfRow
<1>. HIDE DEF f
<1>. QED BY <1>0, <1>1, <1>2 DEF Handler, Fresh

LEMMA OfCorrectType ==
  ASSUME NEW id \in Session,
         NEW status \in {"CHECKED_IN", "CHECKED_OUT", "PRESENT", "ABSENT"},
         NEW g, g = OfCorrect(id, status)
  PROVE  /\ g \in Handler /\ Fresh(g) /\ g.op = "correct" /\ g.at = "correct"
         /\ g.next = "done" /\ g.id = id
<1>. DEFINE f == Handle("correct", "correct")
<1>0. "correct" \in Ops /\ "correct" \in Place
  BY DEF Ops, JobOps, AttendanceOps, LeaveOps, Place
<1>1. /\ f \in Handler /\ f.op = "correct" /\ f.at = "correct" /\ Fresh(f)
      /\ f.next = "done" /\ f.todo = {} /\ f.decision = "APPROVED"
  BY <1>0, HandleType
<1>2. g = [f EXCEPT !.id = id, !.status = status]
  BY DEF OfCorrect
<1>. HIDE DEF f
<1>. QED BY ZenonT(60), <1>0, <1>1, <1>2 DEF Handler, Fresh

LEMMA OfCheckOutType ==
  ASSUME NEW w \in Staff, NEW id \in Session,
         NEW g, g = OfCheckOut(w, id)
  PROVE  /\ g \in Handler /\ Fresh(g) /\ g.op = "checkOut" /\ g.at = "flag"
         /\ g.next = "find" /\ g.id = id /\ g.staff = w
<1>. DEFINE f == Handle("checkOut", "flag")
<1>0. "checkOut" \in Ops /\ "flag" \in Place /\ "find" \in Place
  BY DEF Ops, JobOps, AttendanceOps, LeaveOps, Place
<1>1. /\ f \in Handler /\ f.op = "checkOut" /\ f.at = "flag" /\ Fresh(f)
      /\ f.next = "done" /\ f.todo = {} /\ f.decision = "APPROVED"
  BY <1>0, HandleType
<1>2. g = [f EXCEPT !.staff = w, !.id = id, !.next = "find"]
  BY DEF OfCheckOut
<1>. HIDE DEF f
<1>. QED BY ZenonT(60), <1>0, <1>1, <1>2 DEF Handler, Fresh

LEMMA OfApplyType ==
  ASSUME NEW w \in Staff, NEW d \in 1..Days, NEW t \in Type \union {"EMERGENCY"},
         NEW g, g = OfApply(w, d, t)
  PROVE  /\ g \in Handler /\ Fresh(g) /\ g.op = "apply" /\ g.at = "apply"
         /\ g.next = "done" /\ g.type = t /\ g.staff = w
<1>. DEFINE f == Handle("apply", "apply")
<1>0. "apply" \in Ops /\ "apply" \in Place
  BY DEF Ops, JobOps, AttendanceOps, LeaveOps, Place
<1>3. d \in 0..Days /\ w \in Staff \union {None} /\ t \in Type \union {"EMERGENCY", None}
  BY CalendarAssumption
<1>1. /\ f \in Handler /\ f.op = "apply" /\ f.at = "apply" /\ Fresh(f)
      /\ f.next = "done" /\ f.todo = {} /\ f.decision = "APPROVED"
  BY <1>0, HandleType
<1>2. g = [f EXCEPT !.staff = w, !.date = d, !.type = t]
  BY DEF OfApply
<1>. HIDE DEF f
<1>. QED BY ZenonT(60), <1>1, <1>2, <1>3 DEF Handler, Fresh

LEMMA OfMissedType ==
  ASSUME NEW at \in Place, NEW id \in Session, NEW level \in {"MANAGER", "ADMIN"},
         NEW decision \in {"APPROVED", "REJECTED"}, NEW w \in Staff, NEW status \in {"PRESENT", "ABSENT"},
         NEW g, g = OfMissed(at, id, level, decision, w, status)
  PROVE  /\ g \in Handler /\ Fresh(g) /\ g.op = "decideMissed" /\ g.at = at
         /\ g.next = "done" /\ g.id = id /\ g.staff = w /\ g.decision = decision /\ g.level = level
<1>. DEFINE f == Handle("decideMissed", at)
<1>0. "decideMissed" \in Ops
  BY DEF Ops, JobOps, AttendanceOps, LeaveOps, Place
<1>1. /\ f \in Handler /\ f.op = "decideMissed" /\ f.at = at /\ Fresh(f)
      /\ f.next = "done" /\ f.todo = {} /\ f.decision = "APPROVED"
  BY <1>0, HandleType
<1>2. g = [f EXCEPT !.id = id, !.level = level, !.decision = decision,
                    !.staff = w, !.status = status]
  BY DEF OfMissed
<1>. HIDE DEF f
<1>. QED BY ZenonT(60), <1>0, <1>1, <1>2 DEF Handler, Fresh

LEMMA OfLeaveType ==
  ASSUME NEW at \in Place, NEW id \in Leave, NEW level \in {"MANAGER", "ADMIN"},
         NEW decision \in {"APPROVED", "REJECTED"}, NEW w \in Staff,
         NEW t \in Type \union {"EMERGENCY", None},
         NEW g, g = OfLeave(at, id, level, decision, w, t)
  PROVE  /\ g \in Handler /\ Fresh(g) /\ g.op = "decideLeave" /\ g.at = at
         /\ g.next = "decide" /\ g.id = id /\ g.staff = w /\ g.decision = decision /\ g.level = level
         /\ g.type = t
<1>. DEFINE f == Handle("decideLeave", at)
<1>0. "decideLeave" \in Ops /\ "decide" \in Place
  BY DEF Ops, JobOps, AttendanceOps, LeaveOps, Place
<1>1. /\ f \in Handler /\ f.op = "decideLeave" /\ f.at = at /\ Fresh(f)
      /\ f.next = "done" /\ f.todo = {} /\ f.decision = "APPROVED"
  BY <1>0, HandleType
<1>2. g = [f EXCEPT !.id = id, !.level = level, !.decision = decision,
                    !.staff = w, !.type = t, !.next = "decide"]
  BY DEF OfLeave
<1>. HIDE DEF f
<1>3. g \in Handler
  BY ZenonT(60), <1>0, <1>1, <1>2 DEF Handler
<1>4. g.op = f.op /\ g.at = f.at /\ Fresh(g)
  BY <1>1, <1>2 DEF Handler, Fresh
<1>5. /\ g.next = "decide" /\ g.id = id /\ g.staff = w /\ g.decision = decision /\ g.level = level
      /\ g.type = t
  BY <1>1, <1>2 DEF Handler
<1>. QED BY <1>1, <1>3, <1>4, <1>5

\* A call charges nothing yet, and has read no balance.
Starts(r, g) == Becomes(r, g) /\ Fresh(g) /\ g.at \notin {"lwpWrite", "pay"}

LEMMA BeginStarts ==
  ASSUME NEW r \in Request, NEW h \in Handler, Begin(r, h), Fresh(h), h.at \notin {"lwpWrite", "pay"},
         HandlerOK(h, session, missed, leave)
  PROVE  \E g : Starts(r, g)
BY DEF Begin, Becomes, Starts

LEMMA StartsJob ==
  ASSUME WorkInv, NEW r \in Request, PolicyCall(r)
  PROVE  \E g : Starts(r, g)
<1>0. today \in 1..Days /\ Month \in 0..Days
  BY MonthType DEF WorkInv, TypeOK
<1>1. ASSUME NEW w \in Staff, ViewBalance(r, w) PROVE \E g : Starts(r, g)
  <2>. DEFINE h == OfStaff("view", "create", w)
  <2>0. "view" \in Ops /\ "create" \in Place
    BY DEF Ops, Place
  <2>1. /\ h \in Handler /\ h.op = "view" /\ h.at = "create" /\ Fresh(h)
        /\ h.next = "done" /\ h.todo = {} /\ h.staff = w
    BY <2>0, OfStaffType
  <2>2. Begin(r, h) /\ h.op \in Workload
    BY <1>1 DEF ViewBalance, OfStaff, Begin
  <2>. HIDE DEF h
  <2>3. HandlerOK(h, session, missed, leave)
    BY <2>1, <2>2 DEF HandlerOK, PlaceOK, SubjectOK, RowsOK, NextOf, Fresh, JobOps
  <2>. QED BY <2>1, <2>2, <2>3, BeginStarts
<1>2. ASSUME NEW op \in JobOps, NEW todo \in SUBSET Staff, NEW date \in 0..Days,
             Begin(r, OfJob(op, todo, date)), op = "backfill" => "SICK" \in Granted
      PROVE \E g : Starts(r, g)
  <2>. DEFINE h == OfJob(op, todo, date)
  <2>1. h \in Handler /\ Fresh(h) /\ h.op = op /\ h.at = "next" /\ h.next = "done" /\ h.todo = todo
    BY OfJobType
  <2>2. Begin(r, h) /\ h.op \in Workload
    BY <1>2 DEF Begin
  <2>. HIDE DEF h
  <2>3. HandlerOK(h, session, missed, leave)
    BY <1>2, <2>1, <2>2 DEF HandlerOK, PlaceOK, SubjectOK, RowsOK, NextOf, Fresh, JobOps
  <2>. QED BY <2>1, <2>2, <2>3, BeginStarts
<1>3. ASSUME MonthlyAllocation(r) PROVE \E g : Starts(r, g)
  <2>1. Begin(r, OfJob("allocate", Staff, Month))
    BY <1>3 DEF MonthlyAllocation, OfJob
  <2>. QED BY <1>0, <1>2, <2>1 DEF JobOps
<1>4. ASSUME FinancialYearReset(r) PROVE \E g : Starts(r, g)
  <2>1. Begin(r, OfJob("reset", {w \in Staff : balance[w].row}, Month))
    BY <1>4 DEF FinancialYearReset, OfJob
  <2>2. {w \in Staff : balance[w].row} \in SUBSET Staff
    OBVIOUS
  <2>. QED BY <1>0, <1>2, <2>1, <2>2 DEF JobOps
<1>5. ASSUME BackfillSick(r) PROVE \E g : Starts(r, g)
  <2>. DEFINE missing == {w \in Staff : balance[w].row /\ balance[w].alloc["SICK"] = 0}
  <2>1. Begin(r, [Handle("backfill", "next") EXCEPT !.todo = missing]) /\ "SICK" \in Granted
    BY <1>5 DEF BackfillSick
  <2>3. missing \in SUBSET Staff /\ 0 \in 0..Days
    BY CalendarAssumption
  <2>. HIDE DEF missing
  <2>2. [Handle("backfill", "next") EXCEPT !.todo = missing] = OfJob("backfill", missing, 0)
    <3>. DEFINE f == Handle("backfill", "next")
    <3>1. f \in Handler /\ f.date = 0
      BY HandleType DEF Ops, JobOps, Place
    <3>. HIDE DEF f
    <3>2. [f EXCEPT !.todo = missing] = [f EXCEPT !.todo = missing, !.date = 0]
      BY <2>3, <3>1 DEF Handler
    <3>. QED BY <3>2 DEF f, OfJob
  <2>. QED BY <1>2, <2>1, <2>2, <2>3 DEF JobOps
<1>. QED BY <1>1, <1>3, <1>4, <1>5 DEF PolicyCall

LEMMA StartsAttendance ==
  ASSUME WorkInv, NEW r \in Request, AttendanceCall(r) \/ Sweep(r)
  PROVE  \E g : Starts(r, g)
<1>0. TablesOK /\ session \in [Session -> SessionRow] /\ missed \in [Session -> MissedRow]
  BY DEF WorkInv, TypeOK
<1>1. ASSUME NEW w \in Staff, CheckIn(r, w) \/ GetTodayAttendance(r, w)
      PROVE  \E g : Starts(r, g)
  <2>0. PICK op \in {"checkIn", "today"}, at \in {"insert", "today"} :
          /\ Begin(r, OfStaff(op, at, w))
          /\ at = "insert" => op = "checkIn"
    BY <1>1 DEF CheckIn, GetTodayAttendance, OfStaff
  <2>. DEFINE h == OfStaff(op, at, w)
  <2>1. op \in Ops /\ at \in Place
    BY DEF Ops, AttendanceOps, Place
  <2>2. /\ h \in Handler /\ h.op = op /\ h.at = at /\ Fresh(h)
        /\ h.next = "done" /\ h.todo = {} /\ h.staff = w
    BY <2>1, OfStaffType
  <2>3. Begin(r, h) /\ h.op \in Workload
    BY <2>0 DEF Begin
  <2>. HIDE DEF h
  <2>4. HandlerOK(h, session, missed, leave)
    BY <2>0, <2>2, <2>3 DEF HandlerOK, PlaceOK, SubjectOK, RowsOK, NextOf, Fresh, JobOps
  <2>. QED BY <2>2, <2>3, <2>4, BeginStarts
<1>2. ASSUME NEW w \in Staff, CheckOut(r, w) PROVE \E g : Starts(r, g)
  <2>0. PICK s \in Session : s \in OpenOn(w, today) /\ Begin(r, OfCheckOut(w, s))
    BY <1>2 DEF CheckOut, OfCheckOut, OpenOn
  <2>. DEFINE h == OfCheckOut(w, s)
  <2>1. /\ h \in Handler /\ Fresh(h) /\ h.op = "checkOut" /\ h.at = "flag"
        /\ h.next = "find" /\ h.id = s /\ h.staff = w
    BY OfCheckOutType
  <2>2. Begin(r, h) /\ h.op \in Workload /\ session[s].status # "NONE" /\ session[s].staff = w
    BY <2>0 DEF Begin, OpenOn
  <2>. HIDE DEF h
  <2>3. HandlerOK(h, session, missed, leave)
    BY <2>1, <2>2 DEF HandlerOK, PlaceOK, SubjectOK, RowsOK, NextOf, Fresh, JobOps
  <2>. QED BY <2>1, <2>2, <2>3, BeginStarts
<1>3. ASSUME NEW s \in Session, NEW out \in BOOLEAN, Correct(r, s, out)
      PROVE  \E g : Starts(r, g)
  <2>. DEFINE status == IF out THEN "CHECKED_OUT" ELSE session[s].status
              h == OfCorrect(s, status)
  <2>0. session[s].status # "NONE" /\ status \in {"CHECKED_IN", "CHECKED_OUT", "PRESENT", "ABSENT"}
    BY <1>0, <1>3 DEF Correct, SessionRow
  <2>1. h \in Handler /\ Fresh(h) /\ h.op = "correct" /\ h.at = "correct" /\ h.next = "done" /\ h.id = s
    BY <2>0, OfCorrectType
  <2>2. Begin(r, h) /\ h.op \in Workload
    BY <1>3 DEF Correct, OfCorrect, Begin
  <2>. HIDE DEF h
  <2>3. HandlerOK(h, session, missed, leave)
    BY <2>0, <2>1, <2>2 DEF HandlerOK, PlaceOK, SubjectOK, RowsOK, NextOf, Fresh, JobOps
  <2>. QED BY <2>1, <2>2, <2>3, BeginStarts
<1>4. ASSUME NEW s \in Session, NEW level \in {"MANAGER", "ADMIN"},
             NEW decision \in {"APPROVED", "REJECTED"}, NEW counts \in BOOLEAN,
             DecideMissed(r, s, level, decision, counts)
      PROVE  \E g : Starts(r, g)
  <2>. DEFINE a == missed[s].approval
              at == IF decision = "APPROVED" THEN AfterApproval(a, level, "settle") ELSE "settle"
              status == IF counts THEN "PRESENT" ELSE "ABSENT"
              w == session[s].staff
              h == OfMissed(at, s, level, decision, w, status)
  <2>0. a.status # "NONE" /\ w \in Staff /\ session[s].status # "NONE"
    BY <1>0, <1>4 DEF DecideMissed, PendingAt, TablesOK
  <2>1. /\ at \in {"settle", "escalate"} /\ at \in Place
        /\ decision = "APPROVED" /\ level = "MANAGER" /\ at # "escalate" => ~a.required
    BY DEF AfterApproval, Place
  <2>2. status \in {"PRESENT", "ABSENT"}
    OBVIOUS
  <2>3. /\ h \in Handler /\ Fresh(h) /\ h.op = "decideMissed" /\ h.at = at
        /\ h.next = "done" /\ h.id = s /\ h.staff = w /\ h.decision = decision /\ h.level = level
    <3>. HIDE DEF at, status, w
    <3>. QED BY <2>0, <2>1, <2>2, OfMissedType
  <2>4. Begin(r, h)
    <3>1. Handle("decideMissed", "settle") \in Handler /\ Handle("decideMissed", "settle").at = "settle"
      BY HandleType DEF Ops, AttendanceOps, Place
    <3>. DEFINE f == [Handle("decideMissed", "settle") EXCEPT !.id = s, !.level = level,
                        !.decision = decision, !.staff = w, !.status = status]
    <3>2. Begin(r, IF decision = "APPROVED" THEN [f EXCEPT !.at = AfterApproval(a, level, "settle")] ELSE f)
      BY <1>4 DEF DecideMissed
    <3>3. OfMissed("settle", s, level, decision, w, status) = f
      BY DEF OfMissed
    <3>4. OfMissed(AfterApproval(a, level, "settle"), s, level, decision, w, status)
            = [f EXCEPT !.at = AfterApproval(a, level, "settle")]
      BY ZenonT(60), <3>1 DEF OfMissed, Handle, Idle
    <3>. QED BY <3>2, <3>3, <3>4
  <2>5. h.op \in Workload
    BY <2>4 DEF Begin
  <2>. HIDE DEF h, at, w, status
  <2>6. PlaceOK(h) /\ SubjectOK(h)
    BY <2>0, <2>1, <2>3, <2>5 DEF PlaceOK, SubjectOK, NextOf, Fresh, JobOps
  <2>7. w = session[s].staff
    BY DEF w
  <2>8. RowsOK(h, session, missed, leave)
    BY <2>0, <2>1, <2>3, <2>7 DEF RowsOK
  <2>. QED BY <2>1, <2>3, <2>4, <2>6, <2>8, BeginStarts DEF HandlerOK
<1>5. ASSUME Sweep(r) PROVE \E g : Starts(r, g)
  <2>. DEFINE open == {s \in Session : session[s].status = "CHECKED_IN"}
              h == OfSweep(open)
  <2>0. open \in SUBSET Session
    OBVIOUS
  <2>1. h \in Handler /\ Fresh(h) /\ h.op = "sweep" /\ h.at = "rows" /\ h.next = "rows" /\ h.todo = open
    BY <2>0, OfSweepType
  <2>2. Begin(r, h) /\ h.op \in Workload
    BY <1>5 DEF Sweep, OfSweep, Begin
  <2>. HIDE DEF h
  <2>3. HandlerOK(h, session, missed, leave)
    BY <2>1, <2>2 DEF HandlerOK, PlaceOK, SubjectOK, RowsOK, NextOf, Fresh, JobOps
  <2>. QED BY <2>1, <2>2, <2>3, BeginStarts
<1>. QED BY <1>1, <1>2, <1>3, <1>4, <1>5 DEF AttendanceCall

LEMMA StartsLeave ==
  ASSUME WorkInv, NEW r \in Request, LeaveCall(r)
  PROVE  \E g : Starts(r, g)
<1>0. TablesOK /\ leave \in [Leave -> LeaveRow]
  BY DEF WorkInv, TypeOK
<1>1. ASSUME NEW w \in Staff, NEW d \in 1..Days, NEW t \in Type \union {"EMERGENCY"},
             ApplyLeave(r, w, d, t)
      PROVE  \E g : Starts(r, g)
  <2>. DEFINE h == OfApply(w, d, t)
  <2>1. /\ h \in Handler /\ Fresh(h) /\ h.op = "apply" /\ h.at = "apply"
        /\ h.next = "done" /\ h.type = t /\ h.staff = w
    BY OfApplyType
  <2>2. Begin(r, h) /\ h.op \in Workload
    BY <1>1 DEF ApplyLeave, OfApply, Begin
  <2>. HIDE DEF h
  <2>3. HandlerOK(h, session, missed, leave)
    BY <2>1, <2>2
    DEF HandlerOK, PlaceOK, SubjectOK, RowsOK, NextOf, Fresh, JobOps
  <2>. QED BY <2>1, <2>2, <2>3, BeginStarts
<1>2. ASSUME NEW l \in Leave, CancelLeave(r, l) PROVE \E g : Starts(r, g)
  <2>. DEFINE h == OfRow("cancel", l)
  <2>1. h \in Handler /\ Fresh(h) /\ h.op = "cancel" /\ h.at = "cancel" /\ h.next = "done" /\ h.id = l
    BY OfRowType
  <2>2. Begin(r, h) /\ h.op \in Workload /\ leave[l].approval.status # "NONE"
    BY <1>2 DEF CancelLeave, OfRow, Begin
  <2>. HIDE DEF h
  <2>3. HandlerOK(h, session, missed, leave)
    BY <2>1, <2>2 DEF HandlerOK, PlaceOK, SubjectOK, RowsOK, NextOf, Fresh, JobOps
  <2>. QED BY <2>1, <2>2, <2>3, BeginStarts
<1>3. ASSUME NEW l \in Leave, NEW level \in {"MANAGER", "ADMIN"},
             NEW decision \in {"APPROVED", "REJECTED"}, DecideLeave(r, l, level, decision)
      PROVE  \E g : Starts(r, g)
  <2>. DEFINE a == leave[l].approval
              type == leave[l].type
              w == leave[l].staff
              final == IF type \in Type THEN "balance" ELSE "decide"
              at == IF decision = "REJECTED" THEN "decide" ELSE AfterApproval(a, level, final)
              h == OfLeave(at, l, level, decision, w, type)
  <2>0. a.status # "NONE" /\ w \in Staff /\ type \in Type \union {"EMERGENCY", None}
    BY <1>0, <1>3 DEF DecideLeave, PendingAt, TablesOK, LeaveRow
  <2>1. /\ at \in {"balance", "decide", "escalate"} /\ at \in Place
        /\ at = "balance" => type \in Type
        /\ decision = "APPROVED" /\ level = "MANAGER" /\ at # "escalate" => ~a.required
    BY DEF AfterApproval, Place
  <2>2. Begin(r, h)
    BY <1>3 DEF DecideLeave, OfLeave
  <2>3. /\ h \in Handler /\ Fresh(h) /\ h.op = "decideLeave" /\ h.at = at
        /\ h.next = "decide" /\ h.id = l /\ h.staff = w /\ h.decision = decision
        /\ h.level = level /\ h.type = type
    <3>. HIDE DEF at, w, type
    <3>. QED BY <2>0, <2>1, OfLeaveType
  <2>5. h.op \in Workload
    BY <2>2 DEF Begin
  <2>. HIDE DEF h, at, type
  <2>6. PlaceOK(h) /\ SubjectOK(h)
    BY <2>0, <2>1, <2>3, <2>5 DEF PlaceOK, SubjectOK, NextOf, Fresh, JobOps
  <2>8. RowsOK(h, session, missed, leave)
    BY <2>0, <2>1, <2>3 DEF RowsOK
  <2>. QED BY <2>1, <2>2, <2>3, <2>6, <2>8, BeginStarts DEF HandlerOK
<1>. QED BY <1>1, <1>2, <1>3 DEF LeaveCall

-----------------------------------------------------------------------------
(* The next query of a handler *)

\* The tasks of a handler have a first one.
LEMMA NextTaskType ==
  ASSUME NEW r \in Request, req[r] \in Handler, HandlerOK(req[r], session, missed, leave),
         req[r].at \in {"task", "resetWrite"}
  PROVE  /\ NextTask(r) \in req[r].tasks /\ NextTask(r) \in Task
         /\ NextTask(r)[2] \in Type
         /\ NextTask(r)[1] = "reset" => req[r].op = "reset"
         /\ req[r].staff \in Staff
<1>. DEFINE K == req[r].tasks
            N == {Order(k) : k \in K}
            R == OpToRel(<, Nat)
<1>1. K \subseteq Task /\ K # {}
  BY DEF Handler, HandlerOK, SubjectOK
<1>2. ASSUME NEW k \in Task PROVE Order(k) \in Nat
  <2>1. k[1] \in {"grant", "reset", "credit"} /\ k[2] \in {"CASUAL", "SICK", "PLANNED", "PAID"}
    BY TypeAssumption DEF Task
  <2>. QED BY <2>1 DEF Order
<1>3. N \subseteq Nat /\ N # {}
  BY <1>1, <1>2
<1>4. IsWellFoundedOn(R, Nat)
  BY NatLessThanWellFounded, Zenon
<1>. HIDE DEF R
<1>5. PICK n \in N : \A m \in N : ~(<<m, n>> \in R)
  BY <1>3, <1>4, WFMin
<1>6. \A m \in N : n <= m
  <2>1. ASSUME NEW m \in N PROVE n <= m
    <3>1. ~(<<m, n>> \in R) /\ m \in Nat /\ n \in Nat
      BY <1>3, <1>5
    <3>2. ~(m < n)
      BY <3>1 DEF R, OpToRel
    <3>. QED BY <3>1, <3>2
  <2>. QED BY <2>1
<1>7. PICK k \in K : n = Order(k)
  BY <1>5
<1>8. \A j \in K : Order(k) <= Order(j)
  BY <1>6, <1>7
<1>9. NextTask(r) \in K
  BY <1>8 DEF NextTask
<1>. HIDE DEF K
<1>10. NextTask(r) \in Task
  BY <1>1, <1>9
<1>11. NextTask(r)[2] \in Type /\ NextTask(r) = <<NextTask(r)[1], NextTask(r)[2]>>
  BY <1>10 DEF Task
<1>12. \A t \in Type : <<"reset", t>> \in K => req[r].op = "reset"
  BY DEF K, HandlerOK, SubjectOK
<1>13. req[r].staff \in Staff
  BY DEF HandlerOK, SubjectOK
<1>. QED BY <1>9, <1>10, <1>11, <1>12, <1>13 DEF K

\* Its tasks may become fewer where it stands.
LEMMA HandlerSame ==
  ASSUME NEW s, NEW m, NEW l, NEW g, NEW h, HandlerOK(h, s, m, l), Same(g, h), g.at = h.at,
         g.back = h.back, g.tasks = h.tasks, g.days = h.days
  PROVE  HandlerOK(g, s, m, l)
<1>1. PlaceOK(g)
  BY DEF HandlerOK, PlaceOK, Same
<1>2. SubjectOK(g)
  BY DEF HandlerOK, SubjectOK, Same
<1>3. RowsOK(g, s, m, l)
  BY DEF HandlerOK, RowsOK, Same
<1>. QED BY <1>1, <1>2, <1>3 DEF HandlerOK

LEMMA FinishBecomes ==
  ASSUME NEW r \in Request, NEW k, Finish(r, k), req[r] \in Handler,
         HandlerOK(req[r], session, missed, leave), req[r].at \in {"task", "resetWrite"}
  PROVE  \E g : Becomes(r, g)
<1>. DEFINE h == WithAmounts(req[r], 0, 0)
            tasks == req[r].tasks \ {k}
            g == WithTasks(h, tasks, req[r].back)
<1>1. /\ h \in Handler /\ Same(h, req[r]) /\ h.at = req[r].at /\ h.back = req[r].back
      /\ h.tasks = req[r].tasks /\ h.days = req[r].days
  BY SetAmounts
<1>2. req' = [req EXCEPT ![r] = g]
  BY DEF Finish, WithAmounts
<1>. HIDE DEF h
<1>3. HandlerOK(h, session, missed, leave)
  BY <1>1, HandlerSame
<1>4. tasks \in SUBSET Task /\ \A t \in Type : <<"reset", t>> \in tasks => h.op = "reset"
  BY <1>1 DEF Handler, HandlerOK, SubjectOK, Same
<1>. HIDE DEF tasks
<1>5. g \in Handler /\ HandlerOK(g, session, missed, leave)
  BY <1>1, <1>3, <1>4, WithTasksOK
<1>. QED BY <1>2, <1>5 DEF Becomes

WithEmployee(h, w) == [h EXCEPT !.at = "ensure", !.staff = w, !.todo = @ \ {w}]

LEMMA SetEmployee ==
  ASSUME NEW h \in Handler, NEW w \in Staff, NEW g, g = WithEmployee(h, w)
  PROVE  /\ g \in Handler /\ g.op = h.op /\ g.next = h.next /\ g.back = h.back
         /\ g.at = "ensure" /\ g.staff = w /\ g.todo = h.todo \ {w}
         /\ g.tasks = h.tasks /\ g.days = h.days /\ g.type = h.type
<1>1. "ensure" \in Place /\ h.todo \ {w} \in SUBSET (Staff \union Session)
  BY DEF Place, Handler
<1>. QED BY <1>1 DEF Handler, WithEmployee

LEMMA ContinuesPolicy ==
  ASSUME WorkInv, NEW r \in Request, PolicyContinue(r)
  PROVE  \E g : Becomes(r, g)
<1>. DEFINE h == req[r]
<1>0. /\ h \in Handler /\ HandlerOK(h, session, missed, leave)
      /\ balance \in [Staff -> Balance]
  BY DEF WorkInv, TypeOK
<1>. HIDE DEF h
<1>1. ASSUME CreateBalance(r) PROVE \E g : Becomes(r, g)
  <2>1. CASE balance[h.staff].row
    BY <1>1, <2>1, ReplyBecomes DEF CreateBalance, h
  <2>2. CASE ~balance[h.staff].row
    <3>. DEFINE tasks == {"grant"} \X Granted
    <3>1. h.at = "create" /\ req' = [req EXCEPT ![r] = WithTasks(h, tasks, h.back)]
      BY <1>1, <2>2 DEF CreateBalance, h
    <3>2. tasks \in SUBSET Task /\ \A t \in Type : <<"reset", t>> \notin tasks
      BY DEF Task, Granted
    <3>. HIDE DEF tasks
    <3>3. /\ WithTasks(h, tasks, h.back) \in Handler
          /\ HandlerOK(WithTasks(h, tasks, h.back), session, missed, leave)
      BY <1>0, <3>1, <3>2, WithTasksOK
    <3>. QED BY <3>1, <3>3 DEF Becomes
  <2>. QED BY <2>1, <2>2
<1>2. ASSUME Credit(r) \/ ResetWrite(r) PROVE \E g : Becomes(r, g)
  <2>1. h.at \in {"task", "resetWrite"} /\ Finish(r, NextTask(r))
    BY <1>2 DEF Credit, ResetWrite, h
  <2>. QED BY <1>0, <2>1, FinishBecomes DEF h
<1>3. ASSUME ResetRead(r) PROVE \E g : Becomes(r, g)
  <2>. DEFINE k == NextTask(r)
              row == balance[h.staff]
  <2>0. h.at = "task" /\ k[1] = "reset" /\ k[2] \in Type /\ h.op = "reset" /\ h.staff \in Staff
    BY <1>0, <1>3, NextTaskType DEF ResetRead, h
  <2>1. row.alloc[k[2]] \in Int /\ row.used[k[2]] \in Nat
    BY <1>0, <2>0 DEF Balance
  <2>2. CASE row.alloc[k[2]] = 0 /\ row.used[k[2]] = 0
    <3>1. Finish(r, k)
      BY <1>3, <2>2 DEF ResetRead, h
    <3>. QED BY <1>0, <2>0, <3>1, FinishBecomes DEF h
  <2>3. CASE ~(row.alloc[k[2]] = 0 /\ row.used[k[2]] = 0)
    <3>. DEFINE g == WithAmountsAt(h, "resetWrite", row.alloc[k[2]], row.used[k[2]])
    <3>1. req' = [req EXCEPT ![r] = g]
      BY <1>3, <2>3 DEF ResetRead, h, WithAmountsAt
    <3>2. "resetWrite" \in Place
      BY DEF Place
    <3>. HIDE DEF k, row
    <3>3. /\ g \in Handler /\ Same(g, h) /\ g.at = "resetWrite" /\ g.back = h.back
          /\ g.tasks = h.tasks /\ g.days = h.days
      BY <1>0, <2>1, <3>2, SetAmountsAt
    <3>. HIDE DEF g
    <3>4. PlaceOK(g)
      BY <1>0, <2>0, <3>3 DEF HandlerOK, PlaceOK, Same, JobOps
    <3>5. SubjectOK(g)
      BY <1>0, <2>0, <3>3 DEF HandlerOK, PlaceOK, SubjectOK, Same
    <3>6. RowsOK(g, session, missed, leave)
      BY <1>0, <2>0, <3>3, RowsKept DEF HandlerOK
    <3>. QED BY <3>1, <3>3, <3>4, <3>5, <3>6 DEF Becomes, HandlerOK
  <2>. QED BY <2>2, <2>3
<1>4. ASSUME DeductRead(r) PROVE \E g : Becomes(r, g)
  <2>. DEFINE p == WithAt(h, "pay")
              u == WithDays(h, "lwp", 1)
  <2>0. h.at = "balance" /\ "pay" \in Place /\ "lwp" \in Place
    BY <1>4 DEF DeductRead, h, Place
  <2>1. EnsureBalanceRow(r, p) \/ EnsureBalanceRow(r, u)
    BY <1>4 DEF DeductRead, h, WithAt, WithDays
  <2>2. /\ p \in Handler /\ Same(p, h) /\ p.at = "pay" /\ p.back = h.back
        /\ p.tasks = h.tasks /\ p.days = h.days
    BY <1>0, <2>0, SetAt
  <2>3. /\ u \in Handler /\ Same(u, h) /\ u.at = "lwp" /\ u.back = h.back
        /\ u.tasks = h.tasks /\ u.days = 1
    BY <1>0, <2>0, SetDays
  <2>. HIDE DEF p, u
  <2>4. HandlerOK(p, session, missed, leave)
    <3>1. PlaceOK(p)
      BY <1>0, <2>0, <2>2 DEF HandlerOK, PlaceOK, Same
    <3>2. SubjectOK(p)
      BY <1>0, <2>0, <2>2 DEF HandlerOK, PlaceOK, SubjectOK, Same
    <3>. QED BY <1>0, <2>0, <2>2, <3>1, <3>2, RowsKept DEF HandlerOK
  <2>5. HandlerOK(u, session, missed, leave)
    <3>1. PlaceOK(u)
      BY <1>0, <2>0, <2>3 DEF HandlerOK, PlaceOK, Same
    <3>2. SubjectOK(u)
      BY <1>0, <2>0, <2>3 DEF HandlerOK, PlaceOK, SubjectOK, Same
    <3>. QED BY <1>0, <2>0, <2>3, <3>1, <3>2, RowsKept DEF HandlerOK
  <2>. QED BY <1>0, <2>0, <2>1, <2>2, <2>3, <2>4, <2>5, EnsureBecomes DEF h
<1>5. ASSUME Pay(r) PROVE \E g : Becomes(r, g)
  <2>. DEFINE g == WithAt(h, "decide")
  <2>0. h.at = "pay" /\ h.next = "decide" /\ "decide" \in Place
    BY <1>0, <1>5 DEF Pay, h, HandlerOK, PlaceOK, SubjectOK, NextOf, Place
  <2>1. req' = [req EXCEPT ![r] = g]
    BY <1>5, <2>0 DEF Pay, Await, GoOn, h, WithAt
  <2>2. /\ g \in Handler /\ Same(g, h) /\ g.at = "decide" /\ g.back = h.back
        /\ g.tasks = h.tasks /\ g.days = h.days
    BY <1>0, <2>0, SetAt
  <2>. HIDE DEF g
  <2>3. PlaceOK(g)
    BY <1>0, <2>0, <2>2 DEF HandlerOK, PlaceOK, Same
  <2>4. SubjectOK(g)
    BY <1>0, <2>0, <2>2 DEF HandlerOK, PlaceOK, SubjectOK, Same
  <2>5. RowsOK(g, session, missed, leave)
    BY <1>0, <2>0, <2>2, RowsKept DEF HandlerOK
  <2>. QED BY <2>1, <2>2, <2>3, <2>4, <2>5 DEF Becomes, HandlerOK
<1>6. ASSUME LwpRead(r) PROVE \E g : Becomes(r, g)
  <2>. DEFINE n == balance[h.staff].lwp + h.days
              lwp == IF n > 0 THEN n ELSE 0
              g == WithLwp(h, "lwpWrite", lwp)
  <2>0. h.at = "lwp" /\ h.staff \in Staff /\ h.days \in {-1, 0, 1} /\ "lwpWrite" \in Place
    BY <1>0, <1>6 DEF LwpRead, h, HandlerOK, SubjectOK, Handler, Place
  <2>1. balance[h.staff].lwp \in Nat
    BY <1>0, <2>0 DEF Balance
  <2>2. lwp \in Nat
    BY <2>0, <2>1
  <2>3. EnsureBalanceRow(r, g)
    BY <1>6 DEF LwpRead, h, WithLwp
  <2>. HIDE DEF lwp
  <2>4. /\ g \in Handler /\ Same(g, h) /\ g.at = "lwpWrite" /\ g.back = h.back
        /\ g.tasks = h.tasks /\ g.days = h.days
    BY <1>0, <2>0, <2>2, SetLwp
  <2>. HIDE DEF g
  <2>5. PlaceOK(g)
    BY <1>0, <2>0, <2>4 DEF HandlerOK, PlaceOK, Same
  <2>6. SubjectOK(g)
    BY <1>0, <2>0, <2>4 DEF HandlerOK, PlaceOK, SubjectOK, Same
  <2>7. RowsOK(g, session, missed, leave)
    BY <1>0, <2>0, <2>4, RowsKept DEF HandlerOK
  <2>. QED BY <1>0, <2>0, <2>3, <2>4, <2>5, <2>6, <2>7, EnsureBecomes DEF HandlerOK, h
<1>7. ASSUME LwpWrite(r) PROVE \E g : Becomes(r, g)
  <2>. DEFINE f == WithCharged(h, 0, 0)
              g == WithAt(f, h.next)
  <2>0. h.at = "lwpWrite" /\ req' = [req EXCEPT ![r] = GoOn(f, h.next)]
    BY <1>7 DEF LwpWrite, h, WithCharged
  <2>1. /\ h.op \in {"checkIn", "today", "checkOut", "sweep", "decideMissed", "decideLeave"}
        /\ h.next = NextOf(h.op) /\ h.next \in Place
    BY <1>0, <2>0 DEF HandlerOK, PlaceOK, SubjectOK, Handler
  <2>2. /\ f \in Handler /\ Same(f, h) /\ f.at = h.at /\ f.back = h.back
        /\ f.tasks = h.tasks /\ f.days = 0
    BY <1>0, SetCharged
  <2>3. CASE h.next = "done"
    BY <2>0, <2>3, IdleType, IdleOK DEF GoOn, Becomes
  <2>4. CASE h.next # "done"
    <3>1. req' = [req EXCEPT ![r] = g]
      BY <2>0, <2>4 DEF GoOn, WithAt
    <3>. HIDE DEF f
    <3>2. /\ g \in Handler /\ Same(g, f) /\ g.at = h.next /\ g.back = f.back
          /\ g.tasks = f.tasks /\ g.days = f.days
      BY <2>1, <2>2, SetAt
    <3>. HIDE DEF g
    <3>3. Same(g, h) /\ g.days = 0
      BY <2>2, <3>2 DEF Same
    <3>4. g.op = h.op /\ g.staff = h.staff
      BY <3>3 DEF Same
    <3>5. /\ g.at \in {"find", "rows", "decide"}
          /\ g.at = "find" => g.op = "checkOut"
          /\ g.at = "rows" => g.op = "sweep"
          /\ g.at = "decide" => g.op = "decideLeave"
      BY <2>1, <2>4, <3>2, <3>4 DEF NextOf
    <3>6. PlaceOK(g)
      BY <3>5 DEF PlaceOK
    <3>7. SubjectOK(g)
      BY <1>0, <2>0, <2>1, <2>2, <3>2, <3>3, <3>5 DEF HandlerOK, SubjectOK, Same
    <3>8. RowsOK(g, session, missed, leave)
      BY <1>0, <2>0, <3>3, <3>5 DEF HandlerOK, RowsOK, Same
    <3>. QED BY <3>1, <3>2, <3>6, <3>7, <3>8 DEF Becomes, HandlerOK
  <2>. QED BY <2>3, <2>4
<1>8. ASSUME NextEmployee(r) PROVE \E g : Becomes(r, g)
  <2>0. h.at = "next" /\ h.op \in JobOps /\ h.todo \subseteq Staff
    BY <1>0, <1>8 DEF NextEmployee, h, HandlerOK, PlaceOK, SubjectOK
  <2>1. PICK w \in h.todo : req' = [req EXCEPT ![r] = WithEmployee(h, w)]
    BY <1>8 DEF NextEmployee, h, WithEmployee
  <2>. DEFINE g == WithEmployee(h, w)
  <2>2. /\ g \in Handler /\ g.op = h.op /\ g.next = h.next /\ g.back = h.back
        /\ g.at = "ensure" /\ g.staff = w /\ g.todo = h.todo \ {w}
        /\ g.tasks = h.tasks /\ g.days = h.days /\ g.type = h.type /\ w \in Staff
    BY <1>0, <2>0, SetEmployee
  <2>. HIDE DEF g
  <2>3. PlaceOK(g)
    BY <2>0, <2>2 DEF PlaceOK
  <2>4. SubjectOK(g)
    BY <1>0, <2>0, <2>2 DEF HandlerOK, SubjectOK, JobOps
  <2>5. RowsOK(g, session, missed, leave)
    BY <2>0, <2>2 DEF RowsOK, JobOps
  <2>. QED BY <2>1, <2>2, <2>3, <2>4, <2>5 DEF Becomes, HandlerOK, g
<1>9. ASSUME EnsureEmployee(r) PROVE \E g : Becomes(r, g)
  <2>. DEFINE tasks == JobTasks(h.op)
              g == WithTasks(h, tasks, "next")
  <2>0. h.at = "ensure" /\ h.op \in JobOps /\ EnsureBalanceRow(r, g)
    BY <1>0, <1>9 DEF EnsureEmployee, h, HandlerOK, PlaceOK
  <2>1. h.op = "backfill" => "SICK" \in Granted
    BY <1>0 DEF HandlerOK, SubjectOK
  <2>2. tasks \in SUBSET Task
    BY <2>0, <2>1, TypeAssumption DEF JobTasks, JobOps, Task, Granted
  <2>3. \A t \in Type : <<"reset", t>> \in tasks => h.op = "reset"
    BY <2>0 DEF JobTasks, JobOps
  <2>. HIDE DEF tasks
  <2>4. g \in Handler /\ HandlerOK(g, session, missed, leave)
    BY <1>0, <2>0, <2>2, <2>3, WithTasksOK
  <2>. QED BY <1>0, <2>0, <2>4, EnsureBecomes DEF h
<1>10. ASSUME JobDone(r) PROVE \E g : Becomes(r, g)
  BY <1>10, ReplyBecomes DEF JobDone
<1>. QED BY <1>1, <1>2, <1>3, <1>4, <1>5, <1>6, <1>7, <1>8, <1>9, <1>10 DEF PolicyContinue

WithFound(h, at, id) == [h EXCEPT !.at = at, !.id = id]

WithRow(h, x, at, id, w) ==
  [h EXCEPT !.todo = @ \ {x}, !.at = at, !.id = id, !.staff = w]

LEMMA SetFound ==
  ASSUME NEW h \in Handler, NEW at \in Place, NEW id \in Session, NEW g, g = WithFound(h, at, id)
  PROVE  /\ g \in Handler /\ g.op = h.op /\ g.next = h.next /\ g.at = at /\ g.id = id
         /\ g.staff = h.staff /\ g.days = h.days /\ g.tasks = h.tasks
BY DEF Handler, WithFound

LEMMA SetRow ==
  ASSUME NEW h \in Handler, NEW x \in Session, NEW at \in Place,
         NEW id \in Session \union {None},
         NEW w \in Staff \union {None}
  PROVE  LET g == WithRow(h, x, at, id, w)
         IN  /\ g \in Handler /\ g.op = h.op /\ g.next = h.next /\ g.at = at /\ g.id = id
             /\ g.staff = w /\ g.days = h.days /\ g.tasks = h.tasks /\ g.todo = h.todo \ {x}
<1>1. h.todo \ {x} \in SUBSET (Staff \union Session)
  BY DEF Handler
<1>. QED BY <1>1 DEF Handler, WithRow

LEMMA ContinuesAttendance ==
  ASSUME WorkInv, NEW r \in Request, AttendanceContinue(r)
  PROVE  \E g : Becomes(r, g)
<1>. DEFINE h == req[r]
<1>0. /\ h \in Handler /\ HandlerOK(h, session, missed, leave) /\ TablesOK
      /\ session \in [Session -> SessionRow]
  BY DEF WorkInv, TypeOK
<1>. HIDE DEF h
<1>1. ASSUME InsertSession(r) PROVE \E g : Becomes(r, g)
  <2>. DEFINE g == WithAt(h, "today")
  <2>0. h.at = "insert" /\ req' = [req EXCEPT ![r] = g] /\ "today" \in Place
    BY <1>1 DEF InsertSession, Await, GoOn, h, WithAt, Place
  <2>1. /\ g \in Handler /\ Same(g, h) /\ g.at = "today" /\ g.back = h.back
        /\ g.tasks = h.tasks /\ g.days = h.days
    BY <1>0, <2>0, SetAt
  <2>. HIDE DEF g
  <2>2. PlaceOK(g)
    BY <1>0, <2>0, <2>1 DEF HandlerOK, PlaceOK, Same
  <2>3. SubjectOK(g)
    BY <1>0, <2>0, <2>1 DEF HandlerOK, PlaceOK, SubjectOK, Same
  <2>4. RowsOK(g, session, missed, leave)
    BY <1>0, <2>0, <2>1, RowsKept DEF HandlerOK
  <2>. QED BY <2>0, <2>1, <2>2, <2>3, <2>4 DEF Becomes, HandlerOK
<1>2. ASSUME FindToday(r) PROVE \E g : Becomes(r, g)
  <2>1. CASE Reply(r)
    BY <2>1, ReplyBecomes
  <2>2. CASE ~Reply(r)
    <3>1. PICK s \in OpenOn(h.staff, today) : req' = [req EXCEPT ![r] = WithFound(h, "flag", s)]
      BY <1>2, <2>2 DEF FindToday, h, WithFound
    <3>. DEFINE g == WithFound(h, "flag", s)
    <3>2. /\ s \in Session /\ session[s].staff = h.staff /\ session[s].status # "NONE"
          /\ "flag" \in Place /\ h.at = "today"
      BY <1>2 DEF FindToday, h, OpenOn, Place
    <3>3. /\ g \in Handler /\ g.op = h.op /\ g.next = h.next /\ g.at = "flag" /\ g.id = s
          /\ g.staff = h.staff /\ g.days = h.days /\ g.tasks = h.tasks
      BY <1>0, <3>2, SetFound
    <3>4. req' = [req EXCEPT ![r] = g]
      BY <3>1
    <3>. HIDE DEF g
    <3>5. h.op \in {"checkIn", "today"}
      BY <1>0, <3>2 DEF HandlerOK, PlaceOK
    <3>6. PlaceOK(g)
      BY <3>3, <3>5 DEF PlaceOK
    <3>7. SubjectOK(g)
      BY <1>0, <3>2, <3>3, <3>5 DEF HandlerOK, SubjectOK, JobOps
    <3>8. RowsOK(g, session, missed, leave)
      BY <3>2, <3>3, <3>5 DEF RowsOK
    <3>. QED BY <3>3, <3>4, <3>6, <3>7, <3>8 DEF Becomes, HandlerOK
  <2>. QED BY <2>1, <2>2
<1>3. ASSUME Flag(r) PROVE \E g : Becomes(r, g)
  <2>0. PICK at \in {"mark", h.next} : h.at = "flag" /\ req' = [req EXCEPT ![r] = GoOn(h, at)]
    BY <1>3 DEF Flag, Await, h
  <2>1. h.op \in {"checkIn", "today", "checkOut"} /\ h.next = NextOf(h.op) /\ h.days = 0
    BY <1>0, <2>0 DEF HandlerOK, PlaceOK, SubjectOK
  <2>2. CASE at = "done"
    BY <2>0, <2>2, IdleType, IdleOK DEF GoOn, Becomes
  <2>3. CASE at # "done"
    <3>. DEFINE g == WithAt(h, at)
    <3>1. at \in {"mark", "find"} /\ (at = "find" => h.op = "checkOut") /\ at \in Place
      BY <2>0, <2>1, <2>3 DEF NextOf, Place
    <3>2. /\ g \in Handler /\ Same(g, h) /\ g.at = at /\ g.back = h.back
          /\ g.tasks = h.tasks /\ g.days = h.days
      BY <1>0, <3>1, SetAt
    <3>3. req' = [req EXCEPT ![r] = g]
      BY <2>0, <2>3 DEF GoOn, WithAt
    <3>. HIDE DEF g
    <3>4. PlaceOK(g)
      BY <2>1, <3>1, <3>2 DEF PlaceOK, Same
    <3>5. SubjectOK(g)
      BY <1>0, <2>0, <2>1, <3>1, <3>2 DEF HandlerOK, SubjectOK, Same, JobOps
    <3>6. RowsOK(g, session, missed, leave)
      BY <1>0, <2>0, <2>1, <3>1, <3>2 DEF HandlerOK, RowsOK, Same
    <3>. QED BY <3>2, <3>3, <3>4, <3>5, <3>6 DEF Becomes, HandlerOK
  <2>. QED BY <2>2, <2>3
<1>4. ASSUME FindOpen(r) PROVE \E g : Becomes(r, g)
  <2>1. CASE Reply(r)
    BY <2>1, ReplyBecomes
  <2>2. CASE ~Reply(r)
    <3>. DEFINE d == session[h.id].day
    <3>1. PICK s \in OpenOn(h.staff, d) : req' = [req EXCEPT ![r] = WithFound(h, "checkOut", s)]
      BY <1>4, <2>2 DEF FindOpen, h, WithFound
    <3>. DEFINE g == WithFound(h, "checkOut", s)
    <3>2. /\ s \in Session /\ session[s].staff = h.staff /\ session[s].status # "NONE"
          /\ "checkOut" \in Place /\ h.at = "find"
      BY <1>4 DEF FindOpen, h, OpenOn, Place
    <3>3. /\ g \in Handler /\ g.op = h.op /\ g.next = h.next /\ g.at = "checkOut" /\ g.id = s
          /\ g.staff = h.staff /\ g.days = h.days /\ g.tasks = h.tasks
      BY <1>0, <3>2, SetFound
    <3>4. req' = [req EXCEPT ![r] = g]
      BY <3>1
    <3>. HIDE DEF g, d
    <3>5. h.op = "checkOut"
      BY <1>0, <3>2 DEF HandlerOK, PlaceOK
    <3>6. PlaceOK(g)
      BY <3>3, <3>5 DEF PlaceOK
    <3>7. SubjectOK(g)
      BY <1>0, <3>2, <3>3, <3>5 DEF HandlerOK, SubjectOK, JobOps
    <3>8. RowsOK(g, session, missed, leave)
      BY <3>2, <3>3, <3>5 DEF RowsOK
    <3>. QED BY <3>3, <3>4, <3>6, <3>7, <3>8 DEF Becomes, HandlerOK
  <2>. QED BY <2>1, <2>2
<1>5. ASSUME CheckOutWrite(r) \/ CorrectWrite(r) \/ EscalateMissed(r) PROVE \E g : Becomes(r, g)
  BY <1>5, ReplyBecomes DEF CheckOutWrite, CorrectWrite, EscalateMissed
<1>6. ASSUME NextRow(r) PROVE \E g : Becomes(r, g)
  <2>1. CASE Reply(r)
    BY <2>1, ReplyBecomes
  <2>2. CASE ~Reply(r)
    <3>0. h.at = "rows" /\ h.op = "sweep" /\ h.days = 0 /\ h.next = "rows"
      BY <1>0, <1>6 DEF NextRow, h, HandlerOK, PlaceOK, SubjectOK, NextOf
    <3>1. PICK s \in h.todo :
            req' = [req EXCEPT ![r].todo = @ \ {s},
                               ![r].at = IF session[s].past THEN "mark" ELSE "rows",
                               ![r].id = IF session[s].past THEN s ELSE None,
                               ![r].staff = IF session[s].past THEN session[s].staff ELSE None]
      BY <1>6, <2>2 DEF NextRow, h
    <3>2. s \in Session /\ session[s].status # "NONE" /\ session[s].staff \in Staff
      BY <1>0, <3>0 DEF HandlerOK, RowsOK, TablesOK
    <3>. DEFINE at == IF session[s].past THEN "mark" ELSE "rows"
                id == IF session[s].past THEN s ELSE None
                w == IF session[s].past THEN session[s].staff ELSE None
                g == WithRow(h, s, at, id, w)
    <3>3. /\ at \in Place /\ id \in Session \union {None} /\ w \in Staff \union {None}
          /\ at \in {"mark", "rows"}
          /\ at = "mark" => id = s /\ w = session[s].staff
      BY <3>2 DEF Place
    <3>9. req' = [req EXCEPT ![r].todo = @ \ {s}, ![r].at = at, ![r].id = id, ![r].staff = w]
      BY <3>1
    <3>. HIDE DEF at, id, w
    <3>4. req' = [req EXCEPT ![r] = g]
      BY <3>9 DEF h, WithRow
    <3>5. /\ g \in Handler /\ g.op = h.op /\ g.next = h.next /\ g.at = at /\ g.id = id
          /\ g.staff = w /\ g.days = h.days /\ g.tasks = h.tasks /\ g.todo = h.todo \ {s}
      <4>1. h \in Handler /\ s \in Session
        BY <1>0, <3>2
      <4>2. at \in Place /\ id \in Session \union {None} /\ w \in Staff \union {None}
        BY <3>3
      <4>. QED BY <4>1, <4>2, SetRow
    <3>. HIDE DEF g
    <3>6. PlaceOK(g)
      BY <3>0, <3>3, <3>5 DEF PlaceOK
    <3>7. SubjectOK(g)
      BY <1>0, <3>0, <3>2, <3>3, <3>5 DEF HandlerOK, SubjectOK, JobOps
    <3>8. RowsOK(g, session, missed, leave)
      BY <1>0, <3>0, <3>2, <3>3, <3>5 DEF HandlerOK, RowsOK
    <3>. QED BY <3>4, <3>5, <3>6, <3>7, <3>8 DEF Becomes, HandlerOK
  <2>. QED BY <2>1, <2>2
<1>7. ASSUME Mark(r) \/ SettleMissed(r) PROVE \E g : Becomes(r, g)
  <2>1. CASE Reply(r)
    BY <2>1, ReplyBecomes
  <2>2. CASE ~Reply(r)
    <3>0. PICK days \in {-1, 1} : req' = [req EXCEPT ![r] = WithDays(h, "lwp", days)]
      BY <1>7, <2>2 DEF Mark, SettleMissed, h, WithDays
    <3>1. h.at \in {"mark", "settle"} /\ "lwp" \in Place
      BY <1>7 DEF Mark, SettleMissed, h, Place
    <3>. DEFINE g == WithDays(h, "lwp", days)
    <3>2. /\ g \in Handler /\ Same(g, h) /\ g.at = "lwp" /\ g.back = h.back
          /\ g.tasks = h.tasks /\ g.days = days
      BY <1>0, <3>1, SetDays
    <3>3. req' = [req EXCEPT ![r] = g]
      BY <3>0
    <3>. HIDE DEF g
    <3>4. PlaceOK(g)
      BY <1>0, <3>1, <3>2 DEF HandlerOK, PlaceOK, Same
    <3>5. SubjectOK(g)
      BY <1>0, <3>1, <3>2 DEF HandlerOK, PlaceOK, SubjectOK, Same
    <3>6. RowsOK(g, session, missed, leave)
      BY <1>0, <3>1, <3>2, RowsKept DEF HandlerOK
    <3>. QED BY <3>2, <3>3, <3>4, <3>5, <3>6 DEF Becomes, HandlerOK
  <2>. QED BY <2>1, <2>2
<1>. QED BY <1>1, <1>2, <1>3, <1>4, <1>5, <1>6, <1>7 DEF AttendanceContinue

LEMMA ContinuesLeave ==
  ASSUME NEW r \in Request, LeaveContinue(r)
  PROVE  \E g : Becomes(r, g)
BY ReplyBecomes DEF LeaveContinue, InsertLeave, CancelLeaveWrite, EscalateLeave, SettleLeave

-----------------------------------------------------------------------------
(* A step of the tables *)

\* Rows as they may follow one another.
TablesKept == Keeps(session, missed, leave, session', missed', leave')

LEMMA ApprovalsKept ==
  ASSUME NEW a \in Approval, NEW level \in {"MANAGER", "ADMIN"},
         NEW decision \in {"APPROVED", "REJECTED"}
  PROVE  /\ Escalated(a) \in Approval /\ Escalated(a).status = a.status
         /\ Escalated(a).required = a.required
         /\ Decided(a, level, decision) \in Approval
         /\ Decided(a, level, decision).status = decision
         /\ Decided(a, level, decision).required = a.required
BY DEF Approval, Escalated, Decided

LEMMA NewApprovalType ==
  ASSUME NEW w, NEW required \in BOOLEAN
  PROVE  /\ NewApproval(w, required) \in Approval
         /\ NewApproval(w, required).status = "PENDING"
         /\ NewApproval(w, required).adminDecision = "NONE"
<1>1. NoApproval \in Approval
  BY DEF NoApproval, Approval
<1>2. w \in Manager \/ required \in BOOLEAN
  OBVIOUS
<1>. QED BY <1>1, <1>2 DEF NewApproval, NoApproval, Approval

\* Attendance: what a step does to the sessions and their requests.
LEMMA AttendanceTables ==
  ASSUME WorkInv, NEW r \in Request, AttendanceContinue(r), leave' = leave
  PROVE  /\ session' \in [Session -> SessionRow] /\ missed' \in [Session -> MissedRow]
         /\ TablesOK' /\ TablesKept
<1>. DEFINE h == req[r]
<1>0. /\ h \in Handler /\ HandlerOK(h, session, missed, leave) /\ TablesOK
      /\ session \in [Session -> SessionRow] /\ missed \in [Session -> MissedRow]
      /\ today \in 1..Days
  BY DEF WorkInv, TypeOK
<1>7. leave' = leave
  OBVIOUS
<1>. HIDE DEF h
<1>1. CASE UNCHANGED attendanceVars
  BY <1>0, <1>1, <1>7 DEF attendanceVars, TablesOK, TablesKept, Keeps
<1>2. ASSUME InsertSession(r)
      PROVE  /\ session' \in [Session -> SessionRow] /\ missed' \in [Session -> MissedRow]
             /\ TablesOK' /\ TablesKept
  <2>. DEFINE row == [NoSession EXCEPT !.status = "CHECKED_IN", !.staff = h.staff, !.day = today]
  <2>0. missed' = missed /\ h.staff \in Staff
    BY <1>0, <1>2 DEF InsertSession, h, HandlerOK, SubjectOK
  <2>1. PICK s \in Session : session[s] = NoSession /\ session' = [session EXCEPT ![s] = row]
    BY <1>2 DEF InsertSession, h
  <2>2. row \in SessionRow /\ row.status = "CHECKED_IN" /\ row.staff = h.staff /\ ~row.missedCheckout
    <3>1. NoSession \in SessionRow /\ ~NoSession.missedCheckout /\ today \in 0..Days
      BY <1>0, CalendarAssumption DEF NoSession, SessionRow
    <3>. HIDE <1>0
    <3>. QED BY <2>0, <3>1 DEF SessionRow
  <2>3. session[s].status = "NONE"
    BY <2>1 DEF NoSession
  <2>. HIDE DEF row
  <2>4. /\ session' \in [Session -> SessionRow] /\ session'[s] = row
        /\ \A x \in Session : x # s => session'[x] = session[x]
    BY <1>0, <2>1, <2>2
  <2>5. TablesOK'
    BY <1>0, <2>0, <2>2, <2>3, <2>4, <1>7 DEF TablesOK
  <2>6. TablesKept
    BY <1>0, <2>0, <2>3, <2>4, <1>7 DEF TablesKept, Keeps
  <2>. QED BY <1>0, <2>0, <2>4, <2>5, <2>6
<1>3. ASSUME CheckOutWrite(r) \/ CorrectWrite(r)
      PROVE  /\ session' \in [Session -> SessionRow] /\ missed' \in [Session -> MissedRow]
             /\ TablesOK' /\ TablesKept
  <2>0. PICK status \in {"CHECKED_IN", "CHECKED_OUT", "PRESENT", "ABSENT"} :
          session' = [session EXCEPT ![h.id].status = status]
    BY <1>0, <1>3 DEF CheckOutWrite, CorrectWrite, h, Handler
  <2>1. missed' = missed /\ h.id \in Session /\ session[h.id].status # "NONE"
    BY <1>0, <1>3 DEF CheckOutWrite, CorrectWrite, h, HandlerOK, RowsOK
  <2>2. /\ session' \in [Session -> SessionRow] /\ session'[h.id].status = status
        /\ session'[h.id].staff = session[h.id].staff
        /\ session'[h.id].missedCheckout = session[h.id].missedCheckout
        /\ \A x \in Session : x # h.id => session'[x] = session[x]
    BY <1>0, <2>0, <2>1 DEF SessionRow
  <2>3. TablesOK'
    BY <1>0, <2>1, <2>2, <1>7 DEF TablesOK
  <2>4. TablesKept
    BY <1>0, <2>1, <2>2, <1>7 DEF TablesKept, Keeps
  <2>. QED BY <1>0, <2>1, <2>2, <2>3, <2>4
<1>4. ASSUME Mark(r), ~UNCHANGED attendanceVars
      PROVE  /\ session' \in [Session -> SessionRow] /\ missed' \in [Session -> MissedRow]
             /\ TablesOK' /\ TablesKept
  <2>0. /\ h.id \in Session /\ session[h.id].status # "NONE"
        /\ missed[h.id].approval.status = "NONE"
    BY <1>0, <1>4 DEF Mark, h, HandlerOK, RowsOK
  <2>1. /\ session' = [session EXCEPT ![h.id].status = "ABSENT", ![h.id].missedCheckout = TRUE]
        /\ \E required \in BOOLEAN :
             missed' = [missed EXCEPT ![h.id].approval = NewApproval(session[h.id].staff, required)]
    BY <1>4 DEF Mark, h
  <2>2. PICK a \in Approval : a.status = "PENDING" /\ missed' = [missed EXCEPT ![h.id].approval = a]
    BY <2>1, NewApprovalType
  <2>3. /\ session' \in [Session -> SessionRow] /\ session'[h.id].status = "ABSENT"
        /\ session'[h.id].staff = session[h.id].staff
        /\ \A x \in Session : x # h.id => session'[x] = session[x]
    BY <1>0, <2>0, <2>1 DEF SessionRow
  <2>4. /\ missed' \in [Session -> MissedRow] /\ missed'[h.id].approval = a
        /\ \A x \in Session : x # h.id => missed'[x] = missed[x]
    BY <1>0, <2>0, <2>2 DEF MissedRow
  <2>5. TablesOK'
    BY <1>0, <2>0, <2>2, <2>3, <2>4, <1>7 DEF TablesOK
  <2>6. TablesKept
    BY <1>0, <2>0, <2>2, <2>3, <2>4, <1>7 DEF TablesKept, Keeps
  <2>. QED BY <2>3, <2>4, <2>5, <2>6
<1>5. ASSUME EscalateMissed(r)
      PROVE  /\ session' \in [Session -> SessionRow] /\ missed' \in [Session -> MissedRow]
             /\ TablesOK' /\ TablesKept
  <2>0. /\ h.id \in Session /\ missed[h.id].approval.status # "NONE" /\ session' = session
    BY <1>0, <1>5 DEF EscalateMissed, h, HandlerOK, RowsOK
  <2>. DEFINE a == Escalated(missed[h.id].approval)
  <2>1. missed' = [missed EXCEPT ![h.id].approval = a]
    BY <1>5 DEF EscalateMissed, h
  <2>2. /\ a \in Approval /\ a.status = missed[h.id].approval.status
        /\ a.required = missed[h.id].approval.required
    BY <1>0, <2>0, ApprovalsKept DEF MissedRow
  <2>. HIDE DEF a
  <2>4. /\ missed' \in [Session -> MissedRow] /\ missed'[h.id].approval = a
        /\ \A x \in Session : x # h.id => missed'[x] = missed[x]
    BY <1>0, <2>0, <2>1, <2>2 DEF MissedRow
  <2>5. TablesOK'
    BY <1>0, <2>0, <2>2, <2>4, <1>7 DEF TablesOK
  <2>6. TablesKept
    BY <1>0, <2>0, <2>2, <2>4, <1>7 DEF TablesKept, Keeps
  <2>. QED BY <1>0, <2>0, <2>4, <2>5, <2>6
<1>6. ASSUME SettleMissed(r)
      PROVE  /\ session' \in [Session -> SessionRow] /\ missed' \in [Session -> MissedRow]
             /\ TablesOK' /\ TablesKept
  <2>. DEFINE a == Decided(missed[h.id].approval, h.level, h.decision)
              counts == h.status = "PRESENT"
  <2>0. /\ h.id \in Session /\ missed[h.id].approval.status # "NONE"
        /\ session[h.id].status # "NONE" /\ h.level \in {"MANAGER", "ADMIN"}
        /\ h.decision \in {"APPROVED", "REJECTED"}
        /\ h.status \in {"CHECKED_IN", "CHECKED_OUT", "PRESENT", "ABSENT"}
    BY <1>0, <1>6 DEF SettleMissed, h, HandlerOK, RowsOK, Handler
  <2>1. /\ session' = [session EXCEPT ![h.id].status = h.status]
        /\ missed' = [missed EXCEPT ![h.id] = [approval |-> a, counts |-> counts]]
    BY <1>6 DEF SettleMissed, h
  <2>2. /\ a \in Approval /\ a.status = h.decision /\ a.required = missed[h.id].approval.required
        /\ counts \in BOOLEAN
    BY <1>0, <2>0, ApprovalsKept DEF MissedRow
  <2>. HIDE DEF a, counts
  <2>3. /\ session' \in [Session -> SessionRow] /\ session'[h.id].status = h.status
        /\ session'[h.id].staff = session[h.id].staff
        /\ session'[h.id].missedCheckout = session[h.id].missedCheckout
        /\ \A x \in Session : x # h.id => session'[x] = session[x]
    BY <1>0, <2>0, <2>1 DEF SessionRow
  <2>4. /\ missed' \in [Session -> MissedRow] /\ missed'[h.id].approval = a
        /\ \A x \in Session : x # h.id => missed'[x] = missed[x]
    BY <1>0, <2>0, <2>1, <2>2 DEF MissedRow
  <2>5. TablesOK'
    BY <1>0, <2>0, <2>2, <2>3, <2>4, <1>7 DEF TablesOK
  <2>6. TablesKept
    BY <1>0, <2>0, <2>2, <2>3, <2>4, <1>7 DEF TablesKept, Keeps
  <2>. QED BY <2>3, <2>4, <2>5, <2>6
<1>. QED BY <1>1, <1>2, <1>3, <1>4, <1>5, <1>6
     DEF AttendanceContinue, FindToday, Flag, FindOpen, NextRow

\* Leave: what a step does to the requests.
LEMMA LeaveTables ==
  ASSUME WorkInv, NEW r \in Request, LeaveContinue(r)
  PROVE  leave' \in [Leave -> LeaveRow] /\ TablesOK' /\ TablesKept
<1>. DEFINE h == req[r]
<1>0. /\ h \in Handler /\ HandlerOK(h, session, missed, leave) /\ TablesOK
      /\ leave \in [Leave -> LeaveRow]
  BY DEF WorkInv, TypeOK
<1>7. session' = session /\ missed' = missed
  BY DEF LeaveContinue, InsertLeave, CancelLeaveWrite, EscalateLeave, SettleLeave, attendanceVars
<1>. HIDE DEF h
<1>1. ASSUME InsertLeave(r) PROVE leave' \in [Leave -> LeaveRow] /\ TablesOK' /\ TablesKept
  <2>6. PICK l \in Leave, required \in BOOLEAN :
          /\ leave[l] = NoLeave
          /\ leave' = [leave EXCEPT ![l] = [approval |-> NewApproval(h.staff, required),
                                            staff |-> h.staff, date |-> h.date, type |-> h.type]]
    BY <1>1 DEF InsertLeave, h
  <2>. DEFINE a == NewApproval(h.staff, required)
  <2>0. /\ leave[l] = NoLeave /\ a \in Approval /\ a.status = "PENDING"
        /\ leave' = [leave EXCEPT ![l] = [approval |-> a, staff |-> h.staff, date |-> h.date,
                                          type |-> h.type]]
    BY <2>6, NewApprovalType
  <2>. HIDE DEF a
  <2>1. h.staff \in Staff /\ h.date \in 0..Days /\ h.type \in Type \union {"EMERGENCY", None}
    BY <1>0, <1>1 DEF InsertLeave, h, HandlerOK, SubjectOK, Handler
  <2>2. leave[l].approval.status = "NONE"
    BY <2>0 DEF NoLeave, NoApproval
  <2>3. /\ leave' \in [Leave -> LeaveRow] /\ leave'[l].approval = a /\ leave'[l].staff = h.staff
        /\ \A x \in Leave : x # l => leave'[x] = leave[x]
    BY <1>0, <2>0, <2>1 DEF LeaveRow
  <2>4. TablesOK'
    BY <1>0, <1>7, <2>0, <2>1, <2>3 DEF TablesOK
  <2>5. TablesKept
    BY <1>0, <1>7, <2>2, <2>3 DEF TablesKept, Keeps
  <2>. QED BY <2>3, <2>4, <2>5
<1>2. ASSUME NEW a \in Approval, h.id \in Leave, leave[h.id].approval.status # "NONE",
             leave' = [leave EXCEPT ![h.id].approval = a], a.status # "NONE",
             a.required = leave[h.id].approval.required
      PROVE  leave' \in [Leave -> LeaveRow] /\ TablesOK' /\ TablesKept
  <2>1. /\ leave' \in [Leave -> LeaveRow] /\ leave'[h.id].approval = a
        /\ leave'[h.id].staff = leave[h.id].staff
        /\ \A x \in Leave : x # h.id => leave'[x] = leave[x]
    BY <1>0, <1>2 DEF LeaveRow
  <2>2. TablesOK'
    BY <1>0, <1>7, <1>2, <2>1 DEF TablesOK
  <2>3. TablesKept
    BY <1>0, <1>7, <1>2, <2>1 DEF TablesKept, Keeps
  <2>. QED BY <2>1, <2>2, <2>3
<1>3. ASSUME ~InsertLeave(r)
      PROVE  /\ h.id \in Leave /\ leave[h.id].approval.status # "NONE"
             /\ leave[h.id].approval \in Approval
             /\ h.level \in {"MANAGER", "ADMIN"} /\ h.decision \in {"APPROVED", "REJECTED"}
  <2>1. h.op \in {"cancel", "decideLeave"}
    BY <1>0, <1>3 DEF LeaveContinue, CancelLeaveWrite, EscalateLeave, SettleLeave, h, HandlerOK, PlaceOK
  <2>2. h.id \in Leave /\ leave[h.id].approval.status # "NONE"
    BY <1>0, <2>1 DEF HandlerOK, RowsOK
  <2>. QED BY <1>0, <2>2 DEF LeaveRow, Handler
<1>4. ASSUME CancelLeaveWrite(r), ~InsertLeave(r)
      PROVE  leave' \in [Leave -> LeaveRow] /\ TablesOK' /\ TablesKept
  <2>. DEFINE a == [leave[h.id].approval EXCEPT !.status = "CANCELLED"]
  <2>1. leave' = [leave EXCEPT ![h.id].approval = a]
    BY <1>4 DEF CancelLeaveWrite, h
  <2>2. a \in Approval /\ a.status = "CANCELLED" /\ a.required = leave[h.id].approval.required
    BY <1>3, <1>4 DEF Approval
  <2>. HIDE DEF a
  <2>. QED BY <1>2, <1>3, <1>4, <2>1, <2>2
<1>5. ASSUME EscalateLeave(r), ~InsertLeave(r)
      PROVE  leave' \in [Leave -> LeaveRow] /\ TablesOK' /\ TablesKept
  <2>. DEFINE a == Escalated(leave[h.id].approval)
  <2>1. leave' = [leave EXCEPT ![h.id].approval = a]
    BY <1>5 DEF EscalateLeave, h
  <2>2. /\ a \in Approval /\ a.status = leave[h.id].approval.status
        /\ a.required = leave[h.id].approval.required
    BY <1>3, <1>5, ApprovalsKept
  <2>. HIDE DEF a
  <2>. QED BY <1>2, <1>3, <1>5, <2>1, <2>2
<1>6. ASSUME SettleLeave(r), ~InsertLeave(r)
      PROVE  leave' \in [Leave -> LeaveRow] /\ TablesOK' /\ TablesKept
  <2>. DEFINE a == Decided(leave[h.id].approval, h.level, h.decision)
  <2>1. leave' = [leave EXCEPT ![h.id].approval = a]
    BY <1>6 DEF SettleLeave, h
  <2>2. a \in Approval /\ a.status = h.decision /\ a.required = leave[h.id].approval.required
    BY <1>3, <1>6, ApprovalsKept
  <2>. HIDE DEF a
  <2>. QED BY <1>2, <1>3, <1>6, <2>1, <2>2
<1>. QED BY <1>1, <1>4, <1>5, <1>6 DEF LeaveContinue

LEMMA FieldsType ==
  ASSUME balance \in [Staff -> Balance], ledger \in [Staff -> [Type -> Totals]],
         NEW w \in Staff, NEW t \in Type
  PROVE  /\ balance[w].alloc[t] \in Int /\ balance[w].used[t] \in Nat
         /\ ledger[w][t].ALLOCATION \in Int /\ ledger[w][t].DEDUCTION \in Int
         /\ ledger[w][t].RESET \in Int
<1>1. balance[w] \in Balance /\ ledger[w][t] \in Totals
  OBVIOUS
<1>. QED BY <1>1 DEF Balance, Totals

\* A field of a balance, or of the ledger, is changed.
LEMMA BalanceRow ==
  ASSUME NEW b \in [Staff -> Balance], NEW w \in Staff, NEW t \in Type
  PROVE  /\ \A n \in Int : [b EXCEPT ![w].alloc[t] = n] \in [Staff -> Balance]
         /\ \A n \in Nat : [b EXCEPT ![w].used[t] = n] \in [Staff -> Balance]
<1>1. b[w].alloc \in [Type -> Int] /\ b[w].used \in [Type -> Nat] /\ b[w] \in Balance
  BY DEF Balance
<1>2. ASSUME NEW n \in Int PROVE [b EXCEPT ![w].alloc[t] = n] \in [Staff -> Balance]
  <2>. DEFINE f == [b[w].alloc EXCEPT ![t] = n]
              row == [b[w] EXCEPT !.alloc = f]
  <2>1. f \in [Type -> Int]
    BY <1>1
  <2>2. [b EXCEPT ![w].alloc[t] = n] = [b EXCEPT ![w] = row]
    OBVIOUS
  <2>. HIDE DEF f
  <2>3. row \in Balance
    BY <1>1, <2>1 DEF Balance
  <2>. HIDE DEF row
  <2>. QED BY <2>2, <2>3
<1>3. ASSUME NEW n \in Nat PROVE [b EXCEPT ![w].used[t] = n] \in [Staff -> Balance]
  <2>. DEFINE f == [b[w].used EXCEPT ![t] = n]
              row == [b[w] EXCEPT !.used = f]
  <2>1. f \in [Type -> Nat]
    BY <1>1
  <2>2. [b EXCEPT ![w].used[t] = n] = [b EXCEPT ![w] = row]
    OBVIOUS
  <2>. HIDE DEF f
  <2>3. row \in Balance
    BY <1>1, <2>1 DEF Balance
  <2>. HIDE DEF row
  <2>. QED BY <2>2, <2>3
<1>. QED BY <1>1, <1>2, <1>3

LEMMA LedgerRow ==
  ASSUME NEW b \in [Staff -> [Type -> Totals]], NEW w \in Staff, NEW t \in Type, NEW n \in Int
  PROVE  /\ [b EXCEPT ![w][t].ALLOCATION = n] \in [Staff -> [Type -> Totals]]
         /\ [b EXCEPT ![w][t].DEDUCTION = n] \in [Staff -> [Type -> Totals]]
         /\ [b EXCEPT ![w][t].RESET = n] \in [Staff -> [Type -> Totals]]
<1>. DEFINE Row(x) == [b EXCEPT ![w] = [b[w] EXCEPT ![t] = x]]
<1>1. b[w] \in [Type -> Totals] /\ b[w][t] \in Totals
  OBVIOUS
<1>2. \A x \in Totals : Row(x) \in [Staff -> [Type -> Totals]]
  <2>. TAKE x \in Totals
  <2>1. [b[w] EXCEPT ![t] = x] \in [Type -> Totals]
    BY <1>1
  <2>. QED BY <2>1
<1>3. /\ [b EXCEPT ![w][t].ALLOCATION = n] = Row([b[w][t] EXCEPT !.ALLOCATION = n])
      /\ [b EXCEPT ![w][t].DEDUCTION = n] = Row([b[w][t] EXCEPT !.DEDUCTION = n])
      /\ [b EXCEPT ![w][t].RESET = n] = Row([b[w][t] EXCEPT !.RESET = n])
  OBVIOUS
<1>. HIDE DEF Row
<1>4. /\ [b[w][t] EXCEPT !.ALLOCATION = n] \in Totals
      /\ [b[w][t] EXCEPT !.DEDUCTION = n] \in Totals
      /\ [b[w][t] EXCEPT !.RESET = n] \in Totals
  BY <1>1 DEF Totals
<1>. QED BY <1>2, <1>3, <1>4

\* The policy: what a step does to the balances, their ledger and the dates of the jobs.
LEMMA PolicyTables ==
  ASSUME WorkInv, NEW r \in Request, PolicyContinue(r)
  PROVE  /\ balance' \in [Staff -> Balance]
         /\ ledger' \in [Staff -> [Type -> Totals]]
         /\ policy' \in [month : Nat, year : Nat]
<1>. DEFINE h == req[r]
            Typed == /\ balance' \in [Staff -> Balance]
                     /\ ledger' \in [Staff -> [Type -> Totals]]
                     /\ policy' \in [month : Nat, year : Nat]
<1>0. /\ h \in Handler /\ HandlerOK(h, session, missed, leave)
      /\ balance \in [Staff -> Balance] /\ ledger \in [Staff -> [Type -> Totals]]
      /\ policy \in [month : Nat, year : Nat]
  BY DEF WorkInv, TypeOK
<1>. HIDE DEF h
<1>1. CASE UNCHANGED policyVars
  BY <1>0, <1>1 DEF policyVars
<1>2. ASSUME CreateBalance(r), ~UNCHANGED policyVars PROVE Typed
  <2>1. h.staff \in Staff
    BY <1>0, <1>2 DEF CreateBalance, h, HandlerOK, SubjectOK
  <2>2. /\ balance' = [balance EXCEPT ![h.staff].row = TRUE]
        /\ ledger' = ledger /\ policy' = policy
    BY <1>2 DEF CreateBalance, h, policyVars
  <2>. QED BY <1>0, <2>1, <2>2 DEF Balance
<1>3. ASSUME Credit(r) PROVE Typed
  <2>. DEFINE k == NextTask(r)
              t == k[2]
              w == h.staff
  <2>1. w \in Staff /\ t \in Type /\ Allocation[t] \in Nat
    BY <1>0, <1>3, NextTaskType, TypeAssumption DEF Credit, h
  <2>2. /\ balance' = [balance EXCEPT ![w].alloc[t] = @ + Allocation[t]]
        /\ ledger' = [ledger EXCEPT ![w][t].ALLOCATION = @ + Allocation[t]]
        /\ policy' = policy
    BY <1>3 DEF Credit, h
  <2>. HIDE DEF k, w
  <2>. DEFINE n == balance[w].alloc[t] + Allocation[t]
              c == ledger[w][t].ALLOCATION + Allocation[t]
  <2>5. n \in Int /\ c \in Int
    BY <1>0, <2>1, FieldsType
  <2>6. /\ balance' = [balance EXCEPT ![w].alloc[t] = n]
        /\ ledger' = [ledger EXCEPT ![w][t].ALLOCATION = c]
    BY <2>2
  <2>. HIDE DEF n, c, t
  <2>3. balance' \in [Staff -> Balance]
    BY <1>0, <2>1, <2>5, <2>6, BalanceRow
  <2>4. ledger' \in [Staff -> [Type -> Totals]]
    BY <1>0, <2>1, <2>5, <2>6, LedgerRow
  <2>. QED BY <1>0, <2>2, <2>3, <2>4
<1>4. ASSUME ResetWrite(r) PROVE Typed
  <2>. DEFINE k == NextTask(r)
              t == k[2]
              w == h.staff
              remaining == h.alloc - h.used
              carried == Carried(t, remaining)
              lapsed == IF carried > 0 THEN carried ELSE 0
  <2>1. w \in Staff /\ t \in Type /\ CarryLimit[t] \in Nat
    BY <1>0, <1>4, NextTaskType, TypeAssumption DEF ResetWrite, h
  <2>2. remaining \in Int /\ carried \in Int /\ lapsed \in Int
    BY <1>0, <2>1 DEF Handler, Carried
  <2>3. /\ balance' = [balance EXCEPT ![w].alloc[t] = carried, ![w].used[t] = 0]
        /\ ledger' = [ledger EXCEPT ![w][t].RESET = @ - remaining + lapsed]
        /\ policy' = policy
    BY <1>4 DEF ResetWrite, h
  <2>. HIDE DEF k, w, remaining, carried, lapsed
  <2>4. balance' \in [Staff -> Balance]
    BY <1>0, <2>1, <2>2, <2>3 DEF Balance
  <2>. DEFINE c == ledger[w][t].RESET - remaining + lapsed
  <2>6. c \in Int
    BY <1>0, <2>1, <2>2, FieldsType
  <2>7. ledger' = [ledger EXCEPT ![w][t].RESET = c]
    BY <2>3
  <2>. HIDE DEF c, t
  <2>5. ledger' \in [Staff -> [Type -> Totals]]
    BY <1>0, <2>1, <2>6, <2>7, LedgerRow
  <2>. QED BY <1>0, <2>3, <2>4, <2>5
<1>5. ASSUME Pay(r) PROVE Typed
  <2>1. h.staff \in Staff /\ h.type \in Type
    BY <1>0, <1>5 DEF Pay, h, HandlerOK, PlaceOK, SubjectOK
  <2>2. /\ balance' = [balance EXCEPT ![h.staff].used[h.type] = @ + 1]
        /\ ledger' = [ledger EXCEPT ![h.staff][h.type].DEDUCTION = @ + 1]
        /\ policy' = policy
    BY <1>5 DEF Pay, h
  <2>. DEFINE n == balance[h.staff].used[h.type] + 1
              c == ledger[h.staff][h.type].DEDUCTION + 1
  <2>5. n \in Nat /\ c \in Int
    BY <1>0, <2>1, FieldsType
  <2>6. /\ balance' = [balance EXCEPT ![h.staff].used[h.type] = n]
        /\ ledger' = [ledger EXCEPT ![h.staff][h.type].DEDUCTION = c]
    BY <2>2
  <2>. HIDE DEF n, c
  <2>3. balance' \in [Staff -> Balance]
    BY <1>0, <2>1, <2>5, <2>6, BalanceRow
  <2>4. ledger' \in [Staff -> [Type -> Totals]]
    BY <1>0, <2>1, <2>5, <2>6, LedgerRow
  <2>. QED BY <1>0, <2>2, <2>3, <2>4
<1>6. ASSUME LwpWrite(r) PROVE Typed
  <2>1. h.staff \in Staff /\ h.lwp \in Nat
    BY <1>0, <1>6 DEF LwpWrite, h, HandlerOK, SubjectOK, Handler
  <2>2. /\ balance' = [balance EXCEPT ![h.staff].lwp = h.lwp]
        /\ ledger' = ledger /\ policy' = policy
    BY <1>6 DEF LwpWrite, h
  <2>. QED BY <1>0, <2>1, <2>2 DEF Balance
<1>7. ASSUME JobDone(r) PROVE Typed
  <2>1. h.op \in JobOps /\ h.date \in Nat /\ balance' = balance /\ ledger' = ledger
    BY <1>0, <1>7, CalendarAssumption DEF JobDone, h, HandlerOK, PlaceOK, Handler
  <2>2. \/ policy' = policy
        \/ policy' = [policy EXCEPT !.month = h.date]
        \/ policy' = [policy EXCEPT !.year = h.date]
    BY <1>7, <2>1 DEF JobDone, h, JobOps
  <2>. QED BY <1>0, <2>1, <2>2
<1>. QED BY <1>1, <1>2, <1>3, <1>4, <1>5, <1>6, <1>7
     DEF PolicyContinue, ResetRead, DeductRead, LwpRead, NextEmployee, EnsureEmployee

-----------------------------------------------------------------------------
(* The invariant *)

LEMMA WorkInit == Init => WorkInv
<1>. SUFFICES ASSUME Init PROVE WorkInv
  OBVIOUS
<1>. USE DEF Init, PolicyInit, AttendanceInit, LeaveInit
<1>1. NoBalance \in Balance /\ NoTotals \in Totals
  BY DEF NoBalance, NoTotals, Balance, Totals
<1>2. NoSession \in SessionRow /\ NoSession.status = "NONE" /\ ~NoSession.missedCheckout
  BY CalendarAssumption DEF NoSession, SessionRow
<1>3. NoApproval \in Approval /\ NoApproval.status = "NONE"
  BY DEF NoApproval, Approval
<1>4. NoLeave \in LeaveRow /\ NoLeave.approval = NoApproval
  BY <1>3, CalendarAssumption DEF NoLeave, LeaveRow
<1>5. \A s \in Session : missed[s] \in MissedRow /\ missed[s].approval = NoApproval
  BY <1>3 DEF MissedRow
<1>6. TypeOK
  <2>1. balance \in [Staff -> Balance] /\ ledger \in [Staff -> [Type -> Totals]]
    BY <1>1
  <2>2. policy \in [month : Nat, year : Nat]
    OBVIOUS
  <2>3. today \in 1..Days /\ failures \in 0..Failures
    BY CalendarAssumption, NothingAssumption
  <2>4. req \in [Request -> Handler]
    BY IdleType
  <2>5. session \in [Session -> SessionRow] /\ leave \in [Leave -> LeaveRow]
    BY <1>2, <1>4
  <2>6. missed \in [Session -> MissedRow]
    BY <1>3 DEF MissedRow
  <2>. QED BY <2>1, <2>2, <2>3, <2>4, <2>5, <2>6 DEF TypeOK
<1>7. TablesOK
  BY <1>2, <1>3, <1>4, <1>5 DEF TablesOK
<1>8. \A r \in Request : HandlerOK(req[r], session, missed, leave)
  BY IdleOK
<1>. QED BY <1>6, <1>7, <1>8 DEF WorkInv

LEMMA HandlersStep ==
  ASSUME WorkInv, NEW r \in Request, \E g : Becomes(r, g), TablesKept
  PROVE  /\ req' \in [Request -> Handler]
         /\ \A q \in Request : HandlerOK(req'[q], session', missed', leave')
<1>1. PICK g \in Handler : HandlerOK(g, session, missed, leave) /\ req' = [req EXCEPT ![r] = g]
  BY DEF Becomes
<1>2. req \in [Request -> Handler] /\ \A q \in Request : HandlerOK(req[q], session, missed, leave)
  BY DEF WorkInv, TypeOK
<1>3. req' \in [Request -> Handler] /\ \A q \in Request : req'[q] \in {req[q], g}
  BY <1>1, <1>2
<1>4. ASSUME NEW q \in Request PROVE HandlerOK(req'[q], session, missed, leave)
  BY <1>1, <1>2, <1>3
<1>5. ASSUME NEW q \in Request PROVE HandlerOK(req'[q], session', missed', leave')
  BY <1>4, Remembers DEF TablesKept
<1>. QED BY <1>3, <1>5

LEMMA Kept ==
  ASSUME UNCHANGED <<session, missed, leave>>
  PROVE  TablesKept
BY DEF TablesKept, Keeps

\* Time, crashes and deadlines.
LEMMA EnvironmentStep == WorkInv /\ Environment => WorkInv'
<1>. SUFFICES ASSUME WorkInv, Environment PROVE WorkInv'
  OBVIOUS
<1>0. TypeOK /\ TablesOK /\ \A r \in Request : HandlerOK(req[r], session, missed, leave)
  BY DEF WorkInv
<1>1. CASE Midnight /\ UNCHANGED <<attendanceVars, leave>>
  <2>1. UNCHANGED <<balance, ledger, policy, failures, req, session, missed, leave>>
    BY <1>1 DEF Midnight, policyVars, attendanceVars
  <2>2. today' \in 1..Days
    BY <1>0, <1>1, CalendarAssumption DEF Midnight, TypeOK
  <2>3. TypeOK'
    BY <1>0, <2>1, <2>2 DEF TypeOK
  <2>4. TablesOK'
    BY <1>0, <2>1 DEF TablesOK
  <2>. QED BY <1>0, <2>1, <2>3, <2>4 DEF WorkInv
<1>2. CASE Crash /\ UNCHANGED <<attendanceVars, leave>>
  <2>1. UNCHANGED <<balance, ledger, policy, today, session, missed, leave>>
    BY <1>2 DEF Crash, policyVars, attendanceVars
  <2>2. failures' \in 0..Failures
    BY <1>0, <1>2, NothingAssumption DEF Crash, TypeOK
  <2>3. req' \in [Request -> Handler] /\ \A r \in Request : req'[r] = Idle
    BY <1>2, IdleType DEF Crash
  <2>4. TypeOK'
    BY <1>0, <2>1, <2>2, <2>3 DEF TypeOK
  <2>5. TablesOK'
    BY <1>0, <2>1 DEF TablesOK
  <2>6. \A r \in Request : HandlerOK(req'[r], session', missed', leave')
    BY <2>3, IdleOK
  <2>. QED BY <2>4, <2>5, <2>6 DEF WorkInv
<1>3. CASE (\E r \in Request : Throw(r)) /\ UNCHANGED <<attendanceVars, leave>>
  <2>1. UNCHANGED <<balance, ledger, policy, today, session, missed, leave>>
    BY <1>3 DEF Throw, policyVars, attendanceVars
  <2>2. failures' \in 0..Failures
    BY <1>0, <1>3, NothingAssumption DEF Throw, TypeOK
  <2>3. PICK r \in Request : Reply(r)
    BY <1>3 DEF Throw
  <2>4. /\ req' \in [Request -> Handler]
        /\ \A q \in Request : HandlerOK(req'[q], session', missed', leave')
    BY <2>1, <2>3, ReplyBecomes, Kept, HandlersStep
  <2>5. TypeOK'
    BY <1>0, <2>1, <2>2, <2>4 DEF TypeOK
  <2>6. TablesOK'
    BY <1>0, <2>1 DEF TablesOK
  <2>. QED BY <2>4, <2>5, <2>6 DEF WorkInv
<1>4. CASE \E s \in Session : Deadline(s) /\ UNCHANGED leave
  <2>1. PICK s \in Session : /\ session' = [session EXCEPT ![s].past = TRUE]
                             /\ session[s].status = "CHECKED_IN"
    BY <1>4 DEF Deadline
  <2>2. UNCHANGED <<balance, ledger, policy, today, failures, req, missed, leave>>
    BY <1>4 DEF Deadline, policyVars, clockVars
  <2>3. session' \in [Session -> SessionRow]
    <3>. DEFINE row == [session[s] EXCEPT !.past = TRUE]
    <3>1. session \in [Session -> SessionRow]
      BY <1>0 DEF TypeOK
    <3>2. session[s] \in SessionRow
      BY <3>1
    <3>3. row \in SessionRow
      BY <3>2 DEF SessionRow
    <3>4. session' = [session EXCEPT ![s] = row]
      BY <2>1
    <3>. HIDE DEF row
    <3>. QED BY <3>1, <3>3, <3>4
  <2>4. \A x \in Session : /\ session'[x].status = session[x].status
                           /\ session'[x].staff = session[x].staff
                           /\ session'[x].missedCheckout = session[x].missedCheckout
    BY <1>0, <2>1 DEF TypeOK, SessionRow
  <2>5. \A x \in Session : x # s => session'[x] = session[x]
    BY <1>0, <2>1 DEF TypeOK
  <2>6. TypeOK'
    BY <1>0, <2>2, <2>3 DEF TypeOK
  <2>7. TablesOK'
    <3>1. \A x \in Session : session'[x].status = "NONE" => session'[x] = NoSession
      BY <1>0, <2>1, <2>4, <2>5 DEF TablesOK
    <3>2. \A x \in Session :
            /\ session'[x].status # "NONE" => session'[x].staff \in Staff
            /\ missed'[x].approval.status # "NONE" => session'[x].status # "NONE"
            /\ session'[x].missedCheckout => missed'[x].approval.status # "NONE"
      BY <1>0, <2>2, <2>4 DEF TablesOK
    <3>. QED BY <1>0, <2>2, <3>1, <3>2 DEF TablesOK
  <2>8. TablesKept
    BY <2>2, <2>4 DEF TablesKept, Keeps
  <2>9. \A r \in Request : HandlerOK(req'[r], session', missed', leave')
    BY <1>0, <2>2, <2>8, Remembers DEF TablesKept
  <2>. QED BY <2>6, <2>7, <2>9 DEF WorkInv
<1>. QED BY <1>1, <1>2, <1>3, <1>4 DEF Environment

LEMMA CallsChangeNoRow ==
  ASSUME NEW r \in Request, Call(r) \/ (Sweep(r) /\ UNCHANGED leave)
  PROVE  UNCHANGED <<balance, ledger, policy, today, failures, session, missed, leave>>
<1>. USE DEF policyVars, clockVars, attendanceVars
<1>1. CASE PolicyCall(r) /\ UNCHANGED <<attendanceVars, leave>>
  BY <1>1 DEF PolicyCall, ViewBalance, MonthlyAllocation, FinancialYearReset, BackfillSick
<1>2. CASE AttendanceCall(r) /\ UNCHANGED leave
  BY <1>2 DEF AttendanceCall, CheckIn, GetTodayAttendance, CheckOut, Correct, DecideMissed
<1>3. CASE LeaveCall(r)
  BY <1>3 DEF LeaveCall, ApplyLeave, CancelLeave, DecideLeave
<1>4. CASE Sweep(r) /\ UNCHANGED leave
  BY <1>4 DEF Sweep
<1>. QED BY <1>1, <1>2, <1>3, <1>4 DEF Call


\* A step of a handler, with what it may touch.
LEMMA HandlerMoves ==
  ASSUME WorkInv, NEW r \in Request, \E g : Becomes(r, g), TablesKept, TablesOK',
         UNCHANGED <<today, failures>>,
         balance' \in [Staff -> Balance], ledger' \in [Staff -> [Type -> Totals]],
         policy' \in [month : Nat, year : Nat],
         session' \in [Session -> SessionRow], missed' \in [Session -> MissedRow],
         leave' \in [Leave -> LeaveRow]
  PROVE  WorkInv'
<1>1. /\ req' \in [Request -> Handler]
      /\ \A q \in Request : HandlerOK(req'[q], session', missed', leave')
  BY HandlersStep
<1>2. today' \in 1..Days /\ failures' \in 0..Failures
  BY DEF WorkInv, TypeOK
<1>3. TypeOK'
  BY <1>1, <1>2 DEF TypeOK
<1>. QED BY <1>1, <1>3 DEF WorkInv

LEMMA WorkStep == WorkInv /\ [Next]_vars => WorkInv'
<1>. SUFFICES ASSUME WorkInv, [Next]_vars PROVE WorkInv'
  OBVIOUS
<1>0. /\ TablesOK /\ today \in 1..Days /\ failures \in 0..Failures
      /\ balance \in [Staff -> Balance] /\ ledger \in [Staff -> [Type -> Totals]]
      /\ policy \in [month : Nat, year : Nat] /\ req \in [Request -> Handler]
      /\ session \in [Session -> SessionRow] /\ missed \in [Session -> MissedRow]
      /\ leave \in [Leave -> LeaveRow]
      /\ \A r \in Request : HandlerOK(req[r], session, missed, leave)
  BY DEF WorkInv, TypeOK
<1>1. CASE Environment
  BY <1>1, EnvironmentStep
<1>2. ASSUME NEW r \in Request, Call(r) \/ (Sweep(r) /\ UNCHANGED leave) PROVE WorkInv'
  <2>1. UNCHANGED <<balance, ledger, policy, today, failures, session, missed, leave>>
    BY <1>2, CallsChangeNoRow
  <2>2. \E g : Becomes(r, g)
    BY <1>2, StartsJob, StartsAttendance, StartsLeave DEF Call, Starts
  <2>3. TablesKept /\ TablesOK'
    BY <1>0, <2>1, Kept DEF TablesOK
  <2>. QED BY <1>0, <2>1, <2>2, <2>3, HandlerMoves
<1>3. ASSUME NEW r \in Request, PolicyContinue(r), UNCHANGED <<attendanceVars, leave>> PROVE WorkInv'
  <2>1. UNCHANGED <<today, failures, session, missed, leave>>
    BY <1>3 DEF PolicyContinue, CreateBalance, Credit, ResetRead, ResetWrite, DeductRead, Pay,
                LwpRead, LwpWrite, NextEmployee, EnsureEmployee, JobDone, policyVars, clockVars,
                attendanceVars
  <2>2. \E g : Becomes(r, g)
    BY <1>3, ContinuesPolicy
  <2>3. TablesKept /\ TablesOK'
    BY <1>0, <2>1, Kept DEF TablesOK
  <2>4. /\ balance' \in [Staff -> Balance]
        /\ ledger' \in [Staff -> [Type -> Totals]]
        /\ policy' \in [month : Nat, year : Nat]
    BY <1>3, PolicyTables
  <2>. QED BY <1>0, <2>1, <2>2, <2>3, <2>4, HandlerMoves
<1>4. ASSUME NEW r \in Request, AttendanceContinue(r), UNCHANGED leave PROVE WorkInv'
  <2>1. UNCHANGED <<balance, ledger, policy, today, failures, leave>>
    BY <1>4 DEF AttendanceContinue, InsertSession, FindToday, Flag, FindOpen, CheckOutWrite,
                CorrectWrite, NextRow, Mark, EscalateMissed, SettleMissed, policyVars, clockVars
  <2>2. \E g : Becomes(r, g)
    BY <1>4, ContinuesAttendance
  <2>3. /\ session' \in [Session -> SessionRow] /\ missed' \in [Session -> MissedRow]
        /\ TablesOK' /\ TablesKept
    BY <1>4, AttendanceTables
  <2>. QED BY <1>0, <2>1, <2>2, <2>3, HandlerMoves
<1>5. ASSUME NEW r \in Request, LeaveContinue(r) PROVE WorkInv'
  <2>1. UNCHANGED <<balance, ledger, policy, today, failures, session, missed>>
    BY <1>5 DEF LeaveContinue, InsertLeave, CancelLeaveWrite, EscalateLeave, SettleLeave,
                policyVars, clockVars, attendanceVars
  <2>2. \E g : Becomes(r, g)
    BY <1>5, ContinuesLeave
  <2>3. leave' \in [Leave -> LeaveRow] /\ TablesOK' /\ TablesKept
    BY <1>5, LeaveTables
  <2>. QED BY <1>0, <2>1, <2>2, <2>3, HandlerMoves
<1>6. CASE UNCHANGED vars
  <2>1. UNCHANGED <<balance, ledger, policy, today, failures, req, session, missed, leave>>
    BY <1>6 DEF vars
  <2>2. TypeOK'
    BY <1>0, <2>1 DEF TypeOK
  <2>3. TablesOK'
    BY <1>0, <2>1 DEF TablesOK
  <2>. QED BY <1>0, <2>1, <2>2, <2>3 DEF WorkInv
<1>. QED BY <1>1, <1>2, <1>3, <1>4, <1>5, <1>6 DEF Next, Continue

LEMMA WorkAlways == Spec => []WorkInv
<1>. QED BY WorkInit, WorkStep, PTL DEF Spec

\* Rows and handlers have their shapes: counters stay naturals, a handler is only in
\* the places of its operation, and every row it goes on with is there.
THEOREM RowsAndHandlersTyped == Spec => []TypeOK
<1>1. WorkInv => TypeOK
  BY DEF WorkInv
<1>. QED BY <1>1, WorkAlways, PTL

-----------------------------------------------------------------------------
(* The level that decides *)

DecidedByWhomItOwes(a) == a.status = "APPROVED" /\ a.required => a.adminDecision = "APPROVED"

\* A pending request of which the handler writes the decision.
LEMMA DecidedAtLevel ==
  ASSUME NEW a \in Approval, NEW level \in {"MANAGER", "ADMIN"},
         NEW decision \in {"APPROVED", "REJECTED"},
         decision = "APPROVED" /\ level = "MANAGER" => ~a.required
  PROVE  DecidedByWhomItOwes(Decided(a, level, decision))
BY DEF DecidedByWhomItOwes, Decided, Approval

LEMMA EscalatedAtLevel ==
  ASSUME NEW a \in Approval, DecidedByWhomItOwes(a)
  PROVE  DecidedByWhomItOwes(Escalated(a))
BY DEF DecidedByWhomItOwes, Escalated, Approval

LevelInv ==
  /\ \A l \in Leave : DecidedByWhomItOwes(leave[l].approval)
  /\ \A s \in Session : DecidedByWhomItOwes(missed[s].approval)

LEMMA LevelInit == Init => LevelInv
<1>1. ~(NoApproval.status = "APPROVED")
  BY DEF NoApproval
<1>. QED BY <1>1 DEF Init, AttendanceInit, LeaveInit, LevelInv, DecidedByWhomItOwes, NoLeave

\* What is left alone keeps its decision.
LEMMA LevelKept ==
  ASSUME LevelInv, UNCHANGED <<missed, leave>>
  PROVE  LevelInv'
BY DEF LevelInv

LEMMA LevelAttendance ==
  ASSUME WorkInv, LevelInv, NEW r \in Request, AttendanceContinue(r), leave' = leave
  PROVE  LevelInv'
<1>. DEFINE h == req[r]
<1>0. /\ h \in Handler /\ HandlerOK(h, session, missed, leave)
      /\ missed \in [Session -> MissedRow]
  BY DEF WorkInv, TypeOK
<1>9. leave' = leave
  OBVIOUS
<1>. HIDE DEF h
<1>1. CASE missed' = missed
  BY <1>1, LevelKept
<1>2. ASSUME NEW a, h.id \in Session, DecidedByWhomItOwes(a),
             \/ missed' = [missed EXCEPT ![h.id].approval = a]
             \/ \E c : missed' = [missed EXCEPT ![h.id] = [approval |-> a, counts |-> c]]
      PROVE  LevelInv'
  <2>1. /\ missed'[h.id].approval = a
        /\ \A x \in Session : x # h.id => missed'[x] = missed[x]
    <3>1. ASSUME NEW row, row.approval = a, missed' = [missed EXCEPT ![h.id] = row]
          PROVE  /\ missed'[h.id].approval = a
                 /\ \A x \in Session : x # h.id => missed'[x] = missed[x]
      BY <1>0, <1>2, <3>1
    <3>2. CASE missed' = [missed EXCEPT ![h.id].approval = a]
      <4>. DEFINE row == [missed[h.id] EXCEPT !.approval = a]
      <4>1. row.approval = a
        BY <1>0, <1>2 DEF MissedRow
      <4>2. missed' = [missed EXCEPT ![h.id] = row]
        BY <3>2
      <4>. HIDE DEF row
      <4>. QED BY <3>1, <4>1, <4>2
    <3>3. CASE \E c : missed' = [missed EXCEPT ![h.id] = [approval |-> a, counts |-> c]]
      <4>1. PICK c : missed' = [missed EXCEPT ![h.id] = [approval |-> a, counts |-> c]]
        BY <3>3
      <4>. DEFINE row == [approval |-> a, counts |-> c]
      <4>2. row.approval = a /\ missed' = [missed EXCEPT ![h.id] = row]
        BY <4>1
      <4>. HIDE DEF row
      <4>. QED BY <3>1, <4>2
    <3>. QED BY <1>2, <3>2, <3>3
  <2>. QED BY <1>2, <1>9, <2>1 DEF LevelInv
<1>3. ASSUME Mark(r), ~(missed' = missed) PROVE LevelInv'
  <2>1. h.id \in Session
    BY <1>0, <1>3 DEF Mark, h, HandlerOK, RowsOK
  <2>2. PICK required \in BOOLEAN :
          missed' = [missed EXCEPT ![h.id].approval = NewApproval(session[h.id].staff, required)]
    BY <1>3 DEF Mark, h, attendanceVars
  <2>. DEFINE a == NewApproval(session[h.id].staff, required)
  <2>3. DecidedByWhomItOwes(a) /\ missed' = [missed EXCEPT ![h.id].approval = a]
    BY <2>2, NewApprovalType DEF DecidedByWhomItOwes
  <2>. HIDE DEF a
  <2>. QED BY <1>2, <2>1, <2>3
<1>4. ASSUME EscalateMissed(r) PROVE LevelInv'
  <2>1. h.id \in Session /\ missed[h.id].approval \in Approval
    BY <1>0, <1>4 DEF EscalateMissed, h, HandlerOK, RowsOK, MissedRow
  <2>. DEFINE a == Escalated(missed[h.id].approval)
  <2>2. DecidedByWhomItOwes(a)
    BY <2>1, EscalatedAtLevel DEF LevelInv
  <2>3. missed' = [missed EXCEPT ![h.id].approval = a]
    BY <1>4 DEF EscalateMissed, h
  <2>. HIDE DEF a
  <2>. QED BY <1>2, <2>1, <2>2, <2>3
<1>5. ASSUME SettleMissed(r) PROVE LevelInv'
  <2>1. /\ h.id \in Session /\ h.level \in {"MANAGER", "ADMIN"}
        /\ h.decision \in {"APPROVED", "REJECTED"}
        /\ h.decision = "APPROVED" /\ h.level = "MANAGER" => ~missed[h.id].approval.required
    BY <1>0, <1>5 DEF SettleMissed, h, HandlerOK, RowsOK, Handler
  <2>2. missed[h.id].approval \in Approval
    BY <1>0, <2>1 DEF MissedRow
  <2>. DEFINE a == Decided(missed[h.id].approval, h.level, h.decision)
  <2>3. DecidedByWhomItOwes(a)
    BY <2>1, <2>2, DecidedAtLevel
  <2>4. \E c : missed' = [missed EXCEPT ![h.id] = [approval |-> a, counts |-> c]]
    BY <1>5 DEF SettleMissed, h
  <2>. HIDE DEF a
  <2>. QED BY <1>2, <2>1, <2>3, <2>4
<1>. QED BY <1>1, <1>3, <1>4, <1>5 DEF AttendanceContinue, InsertSession, FindToday, Flag, FindOpen,
           CheckOutWrite, CorrectWrite, NextRow, attendanceVars

LEMMA LevelLeave ==
  ASSUME WorkInv, LevelInv, NEW r \in Request, LeaveContinue(r)
  PROVE  LevelInv'
<1>. DEFINE h == req[r]
<1>0. /\ h \in Handler /\ HandlerOK(h, session, missed, leave)
      /\ leave \in [Leave -> LeaveRow]
  BY DEF WorkInv, TypeOK
<1>9. missed' = missed
  BY DEF LeaveContinue, InsertLeave, CancelLeaveWrite, EscalateLeave, SettleLeave, attendanceVars
<1>. HIDE DEF h
<1>1. ASSUME InsertLeave(r) PROVE LevelInv'
  <2>1. PICK l \in Leave, required \in BOOLEAN :
          leave' = [leave EXCEPT ![l] = [approval |-> NewApproval(h.staff, required),
                                         staff |-> h.staff, date |-> h.date, type |-> h.type]]
    BY <1>1 DEF InsertLeave, h
  <2>2. NewApproval(h.staff, required).status = "PENDING"
    BY NewApprovalType
  <2>. QED BY <1>0, <1>9, <2>1, <2>2 DEF LevelInv, DecidedByWhomItOwes
<1>2. ASSUME NEW a, h.id \in Leave, DecidedByWhomItOwes(a),
             leave' = [leave EXCEPT ![h.id].approval = a]
      PROVE  LevelInv'
  <2>1. leave'[h.id].approval = a /\ \A x \in Leave : x # h.id => leave'[x] = leave[x]
    BY <1>0, <1>2 DEF LeaveRow
  <2>. QED BY <1>2, <1>9, <2>1 DEF LevelInv
<1>3. ASSUME CancelLeaveWrite(r) \/ EscalateLeave(r) \/ SettleLeave(r)
      PROVE  /\ h.id \in Leave /\ leave[h.id].approval \in Approval
             /\ h.level \in {"MANAGER", "ADMIN"} /\ h.decision \in {"APPROVED", "REJECTED"}
             /\ DecidedByWhomItOwes(leave[h.id].approval)
  <2>1. h.op \in {"cancel", "decideLeave"}
    BY <1>0, <1>3 DEF CancelLeaveWrite, EscalateLeave, SettleLeave, h, HandlerOK, PlaceOK
  <2>2. h.id \in Leave
    BY <1>0, <2>1 DEF HandlerOK, RowsOK
  <2>. QED BY <1>0, <2>2 DEF LeaveRow, Handler, LevelInv
<1>4. ASSUME CancelLeaveWrite(r) PROVE LevelInv'
  <2>. DEFINE a == [leave[h.id].approval EXCEPT !.status = "CANCELLED"]
  <2>1. leave' = [leave EXCEPT ![h.id].approval = a]
    BY <1>4 DEF CancelLeaveWrite, h
  <2>2. DecidedByWhomItOwes(a)
    BY <1>3, <1>4 DEF Approval, DecidedByWhomItOwes
  <2>. HIDE DEF a
  <2>. QED BY <1>2, <1>3, <1>4, <2>1, <2>2
<1>5. ASSUME EscalateLeave(r) PROVE LevelInv'
  <2>. DEFINE a == Escalated(leave[h.id].approval)
  <2>1. leave' = [leave EXCEPT ![h.id].approval = a]
    BY <1>5 DEF EscalateLeave, h
  <2>2. DecidedByWhomItOwes(a)
    BY <1>3, <1>5, EscalatedAtLevel
  <2>. HIDE DEF a
  <2>. QED BY <1>2, <1>3, <1>5, <2>1, <2>2
<1>6. ASSUME SettleLeave(r) PROVE LevelInv'
  <2>. DEFINE a == Decided(leave[h.id].approval, h.level, h.decision)
  <2>1. leave' = [leave EXCEPT ![h.id].approval = a]
    BY <1>6 DEF SettleLeave, h
  <2>3. h.decision = "APPROVED" /\ h.level = "MANAGER" => ~leave[h.id].approval.required
    BY <1>0, <1>6 DEF SettleLeave, h, HandlerOK, PlaceOK, RowsOK
  <2>2. DecidedByWhomItOwes(a)
    BY <1>3, <1>6, <2>3, DecidedAtLevel
  <2>. HIDE DEF a
  <2>. QED BY <1>2, <1>3, <1>6, <2>1, <2>2
<1>. QED BY <1>1, <1>4, <1>5, <1>6 DEF LeaveContinue

LEMMA LevelStep == WorkInv /\ LevelInv /\ [Next]_vars => LevelInv'
<1>. SUFFICES ASSUME WorkInv, LevelInv, [Next]_vars PROVE LevelInv'
  OBVIOUS
<1>1. CASE Environment
  <2>1. UNCHANGED <<missed, leave>>
    BY <1>1 DEF Environment, Midnight, Crash, Throw, Deadline, attendanceVars
  <2>. QED BY <2>1, LevelKept
<1>2. ASSUME NEW r \in Request, Call(r) \/ (Sweep(r) /\ UNCHANGED leave) PROVE LevelInv'
  BY <1>2, CallsChangeNoRow, LevelKept
<1>3. ASSUME NEW r \in Request, Continue(r) PROVE LevelInv'
  BY <1>3, LevelAttendance, LevelLeave, LevelKept DEF Continue, attendanceVars
<1>4. CASE UNCHANGED vars
  BY <1>4, LevelKept DEF vars
<1>. QED BY <1>1, <1>2, <1>3, <1>4 DEF Next

-----------------------------------------------------------------------------
(* Days without pay *)

\* A handler owes a day to the counter of an employee, or has computed the counter.
Charges(h, w) == h.staff = w /\ h.days = 1 /\ h.at # "lwpWrite"

Writes(h, w) == h.staff = w /\ h.at = "lwpWrite"

Charging(w) == {r \in Request : Charges(req[r], w)}

Flagged(w) == {s \in Session : session[s].staff = w /\ session[s].missedCheckout}

OnLeave(w) == \E l \in Leave : leave[l].staff = w

\* What is counted, what is about to be written, and what is still owed: no more
\* than the sessions that were flagged.
Counts(w) ==
  ~OnLeave(w) =>
    /\ balance[w].lwp + Cardinality(Charging(w)) <= Cardinality(Flagged(w))
    /\ \A r \in Request : Writes(req[r], w) =>
         req[r].lwp + Cardinality(Charging(w)) <= Cardinality(Flagged(w))

ChargeInv == \A w \in Staff : Counts(w)

LEMMA CountsAreFinite ==
  \A w : /\ IsFiniteSet(Charging(w)) /\ Cardinality(Charging(w)) \in Nat
         /\ IsFiniteSet(Flagged(w)) /\ Cardinality(Flagged(w)) \in Nat
<1>1. \A w : Charging(w) \subseteq Request /\ Flagged(w) \subseteq Session
  BY DEF Charging, Flagged
<1>. QED BY <1>1, FinitenessAssumption, FS_Subset, FS_CardinalityType

LEMMA CountsAreFiniteAfter ==
  \A w : /\ IsFiniteSet(Charging(w)') /\ Cardinality(Charging(w)') \in Nat
         /\ IsFiniteSet(Flagged(w)') /\ Cardinality(Flagged(w)') \in Nat
<1>1. \A w : Charging(w)' \subseteq Request /\ Flagged(w)' \subseteq Session
  BY DEF Charging, Flagged
<1>. QED BY <1>1, FinitenessAssumption, FS_Subset, FS_CardinalityType

\* Who has applied for leave has done so for good, and a flag stays.
LEMMA RowsStay ==
  ASSUME WorkInv, TablesKept, NEW w \in Staff
  PROVE  OnLeave(w) => OnLeave(w)'
<1>1. ASSUME NEW l \in Leave, leave[l].staff = w PROVE leave'[l].staff = w
  <2>1. leave[l].approval.status # "NONE"
    BY <1>1, NothingAssumption DEF WorkInv, TablesOK, NoLeave
  <2>. QED BY <1>1, <2>1 DEF TablesKept, Keeps
<1>. QED BY <1>1 DEF OnLeave

\* Nobody owes more, nobody is about to write, and no flag is taken back.
Spares(r, w) ==
  /\ \A q \in Request : q # r => req'[q] = req[q]
  /\ Charges(req'[r], w) => Charges(req[r], w)
  /\ ~Writes(req'[r], w)

FlagsStay ==
  \A x \in Session : session[x].missedCheckout =>
    session'[x].missedCheckout /\ session'[x].staff = session[x].staff

LEMMA FlaggedGrows ==
  ASSUME FlagsStay, NEW w
  PROVE  Flagged(w) \subseteq Flagged(w)' /\ Cardinality(Flagged(w)) <= Cardinality(Flagged(w)')
<1>1. Flagged(w) \subseteq Flagged(w)'
  BY DEF FlagsStay, Flagged
<1>. QED BY <1>1, CountsAreFiniteAfter, FS_Subset

LEMMA CountsSpared ==
  ASSUME WorkInv, WorkInv', TablesKept, NEW w \in Staff, Counts(w), FlagsStay,
         balance'[w].lwp = balance[w].lwp,
         \A q \in Request : Charges(req'[q], w) => Charges(req[q], w),
         \A q \in Request : Writes(req'[q], w) => Writes(req[q], w) /\ req'[q].lwp = req[q].lwp
  PROVE  Counts(w)'
<1>1. SUFFICES ASSUME ~OnLeave(w)'
      PROVE  /\ balance'[w].lwp + Cardinality(Charging(w)') <= Cardinality(Flagged(w)')
             /\ \A r \in Request : Writes(req'[r], w) =>
                  req'[r].lwp + Cardinality(Charging(w)') <= Cardinality(Flagged(w)')
  BY DEF Counts, Writes
<1>2. ~OnLeave(w)
  BY <1>1, RowsStay
<1>3. Charging(w)' \subseteq Charging(w)
  BY DEF Charging, Charges
<1>4. Cardinality(Charging(w)') <= Cardinality(Charging(w))
  BY <1>3, CountsAreFinite, FS_Subset
<1>5. Cardinality(Flagged(w)) <= Cardinality(Flagged(w)')
  BY FlaggedGrows
<1>6. balance[w].lwp \in Nat /\ \A r \in Request : req[r].lwp \in Nat
  BY DEF WorkInv, TypeOK, Balance, Handler
<1>7. /\ Cardinality(Charging(w)) \in Nat /\ Cardinality(Charging(w)') \in Nat
      /\ Cardinality(Flagged(w)) \in Nat /\ Cardinality(Flagged(w)') \in Nat
  BY CountsAreFinite, CountsAreFiniteAfter
<1>8. balance'[w].lwp + Cardinality(Charging(w)') <= Cardinality(Flagged(w)')
  BY <1>2, <1>4, <1>5, <1>6, <1>7 DEF Counts
<1>9. ASSUME NEW r \in Request, Writes(req'[r], w)
      PROVE  req'[r].lwp + Cardinality(Charging(w)') <= Cardinality(Flagged(w)')
  <2>1. req'[r].lwp = req[r].lwp /\ req[r].lwp + Cardinality(Charging(w)) <= Cardinality(Flagged(w))
    BY <1>2, <1>9 DEF Counts
  <2>. QED BY <1>4, <1>5, <1>6, <1>7, <2>1
<1>. QED BY <1>8, <1>9


\* A handler that stands elsewhere owes nothing.
LEMMA SparesAtRest ==
  ASSUME WorkInv', NEW r \in Request, \A q \in Request : q # r => req'[q] = req[q],
         req'[r].at \notin {"lwp", "lwpWrite", "create", "task"}, NEW w
  PROVE  Spares(r, w)
<1>1. HandlerOK(req'[r], session', missed', leave')
  BY DEF WorkInv
<1>2. req'[r].days = 0
  BY <1>1 DEF HandlerOK, SubjectOK
<1>. QED BY <1>2 DEF Spares, Charges, Writes

LEMMA IdleSpares ==
  ASSUME NEW r \in Request, req \in [Request -> Handler], Reply(r), NEW w
  PROVE  Spares(r, w)
<1>1. Idle.days = 0 /\ Idle.at = "done"
  BY DEF Idle
<1>2. req'[r] = Idle /\ \A q \in Request : q # r => req'[q] = req[q]
  BY DEF Reply
<1>. QED BY <1>1, <1>2 DEF Spares, Charges, Writes

LEMMA TasksSpare ==
  ASSUME NEW h \in Handler, NEW tasks \in SUBSET Task, NEW back \in Place, back # "lwpWrite",
         NEW w, h.at # "lwpWrite"
  PROVE  /\ Charges(WithTasks(h, tasks, back), w) => Charges(h, w)
         /\ ~Writes(WithTasks(h, tasks, back), w)
<1>1. CASE tasks # {}
  <2>. DEFINE g == WithTasksAt(h, "task", tasks, back)
  <2>0. "task" \in Place
    BY DEF Place
  <2>1. Same(g, h) /\ g.at = "task" /\ g.days = h.days
    BY <2>0, SetTasksAt
  <2>2. WithTasks(h, tasks, back) = g
    BY <1>1 DEF WithTasks, WithTasksAt
  <2>. HIDE DEF g
  <2>. QED BY <2>1, <2>2 DEF Charges, Writes, Same
<1>2. CASE tasks = {} /\ back = "done"
  <2>1. WithTasks(h, tasks, back) = Idle /\ Idle.days = 0 /\ Idle.at = "done"
    BY <1>2 DEF WithTasks, GoOn, Idle
  <2>. QED BY <2>1 DEF Charges, Writes
<1>3. CASE tasks = {} /\ back # "done"
  <2>. DEFINE f == WithTasksOnly(h, {}, "done")
              g == WithAt(f, back)
  <2>0. "done" \in Place /\ {} \in SUBSET Task
    BY DEF Place
  <2>1. f \in Handler /\ Same(f, h) /\ f.days = h.days
    BY <2>0, SetTasksOnly
  <2>2. WithTasks(h, tasks, back) = g
    BY <1>3 DEF WithTasks, GoOn, WithTasksOnly, WithAt
  <2>. HIDE DEF f
  <2>3. Same(g, f) /\ g.at = back /\ g.days = f.days
    BY <2>1, SetAt
  <2>. HIDE DEF g
  <2>. QED BY <2>1, <2>2, <2>3 DEF Charges, Writes, Same
<1>. QED BY <1>1, <1>2, <1>3

LEMMA FinishSpares ==
  ASSUME WorkInv, NEW r \in Request, NEW k, Finish(r, k), NEW w,
         req[r].at \in {"task", "resetWrite"}
  PROVE  Spares(r, w)
<1>. DEFINE h == WithAmounts(req[r], 0, 0)
            tasks == req[r].tasks \ {k}
            back == req[r].back
<1>0. /\ req \in [Request -> Handler] /\ req[r] \in Handler
      /\ HandlerOK(req[r], session, missed, leave)
  BY DEF WorkInv, TypeOK
<1>1. h \in Handler /\ Same(h, req[r]) /\ h.at = req[r].at /\ h.days = req[r].days
  BY <1>0, SetAmounts
<1>2. /\ req'[r] = WithTasks(h, tasks, back)
      /\ \A q \in Request : q # r => req'[q] = req[q]
  BY <1>0 DEF Finish, WithAmounts
<1>. HIDE DEF h
<1>3. tasks \in SUBSET Task /\ back \in Place /\ back # "lwpWrite" /\ h.at # "lwpWrite"
  BY <1>0, <1>1 DEF HandlerOK, PlaceOK, Handler
<1>. HIDE DEF tasks, back
<1>4. (Charges(req'[r], w) => Charges(h, w)) /\ ~Writes(req'[r], w)
  BY <1>1, <1>2, <1>3, TasksSpare
<1>. QED BY <1>1, <1>2, <1>4 DEF Spares, Charges, Same

\* Every step of the policy but those of the counter spares everybody.
LEMMA PolicySpares ==
  ASSUME WorkInv, WorkInv', NEW r \in Request, PolicyContinue(r), NEW w,
         ~DeductRead(r), ~LwpRead(r), ~LwpWrite(r)
  PROVE  Spares(r, w)
<1>. DEFINE h == req[r]
<1>0. /\ req \in [Request -> Handler] /\ req' \in [Request -> Handler] /\ h \in Handler
      /\ HandlerOK(h, session, missed, leave)
  BY DEF WorkInv, TypeOK
<1>. HIDE DEF h
<1>1. ASSUME CreateBalance(r) PROVE Spares(r, w)
  <2>1. CASE Reply(r)
    BY <1>0, <2>1, IdleSpares
  <2>2. CASE ~Reply(r)
    <3>. DEFINE tasks == {"grant"} \X Granted
    <3>1. h.at = "create" /\ req' = [req EXCEPT ![r] = WithTasks(h, tasks, h.back)]
      BY <1>1, <2>2 DEF CreateBalance, h
    <3>2. tasks \in SUBSET Task
      BY DEF Task, Granted
    <3>3. h.back \in Place /\ h.back # "lwpWrite"
      BY <1>0, <3>1 DEF Handler, HandlerOK, PlaceOK
    <3>4. /\ req'[r] = WithTasks(h, tasks, h.back)
          /\ \A q \in Request : q # r => req'[q] = req[q]
      BY <1>0, <3>1
    <3>. HIDE DEF tasks
    <3>5. (Charges(req'[r], w) => Charges(h, w)) /\ ~Writes(req'[r], w)
      BY <1>0, <3>1, <3>2, <3>3, <3>4, TasksSpare
    <3>. QED BY <3>4, <3>5 DEF Spares, h
  <2>. QED BY <2>1, <2>2
<1>2. ASSUME Credit(r) \/ ResetWrite(r) PROVE Spares(r, w)
  <2>1. Finish(r, NextTask(r)) /\ req[r].at \in {"task", "resetWrite"}
    BY <1>2 DEF Credit, ResetWrite
  <2>. QED BY <2>1, FinishSpares
<1>3. ASSUME ResetRead(r) PROVE Spares(r, w)
  <2>1. CASE Finish(r, NextTask(r))
    BY <1>3, <2>1, FinishSpares DEF ResetRead
  <2>2. CASE ~Finish(r, NextTask(r))
    <3>1. /\ req'[r].at = "resetWrite"
          /\ \A q \in Request : q # r => req'[q] = req[q]
      BY <1>0, <1>3, <2>2 DEF ResetRead, Handler
    <3>. QED BY <3>1, SparesAtRest
  <2>. QED BY <2>1, <2>2
<1>4. ASSUME Pay(r) PROVE Spares(r, w)
  <2>1. h.next = "decide"
    BY <1>0, <1>4 DEF Pay, h, HandlerOK, PlaceOK, SubjectOK, NextOf
  <2>2. /\ req'[r].at = "decide"
        /\ \A q \in Request : q # r => req'[q] = req[q]
    BY <1>0, <1>4, <2>1 DEF Pay, Await, GoOn, h, Handler
  <2>. QED BY <2>2, SparesAtRest
<1>5. ASSUME NextEmployee(r) PROVE Spares(r, w)
  <2>1. /\ req'[r].at = "ensure"
        /\ \A q \in Request : q # r => req'[q] = req[q]
    BY <1>0, <1>5 DEF NextEmployee, Handler
  <2>. QED BY <2>1, SparesAtRest
<1>6. ASSUME EnsureEmployee(r) PROVE Spares(r, w)
  <2>1. h.at = "ensure" /\ h.days = 0 /\ h.op \in JobOps
    BY <1>0, <1>6 DEF EnsureEmployee, h, HandlerOK, PlaceOK, SubjectOK
  <2>2. CASE balance[h.staff].row
    <3>. DEFINE tasks == JobTasks(h.op)
    <3>1. req' = [req EXCEPT ![r] = WithTasks(h, tasks, "next")]
      BY <1>6, <2>2 DEF EnsureEmployee, EnsureBalanceRow, h
    <3>2. tasks \in SUBSET Task
      <4>1. h.op = "backfill" => "SICK" \in Granted
        BY <1>0 DEF HandlerOK, SubjectOK
      <4>. QED BY <2>1, <4>1, TypeAssumption DEF JobTasks, JobOps, Task, Granted
    <3>3. "next" \in Place
      BY DEF Place
    <3>4. /\ req'[r] = WithTasks(h, tasks, "next")
          /\ \A q \in Request : q # r => req'[q] = req[q]
      BY <1>0, <3>1
    <3>. HIDE DEF tasks
    <3>5. (Charges(req'[r], w) => Charges(h, w)) /\ ~Writes(req'[r], w)
      BY <1>0, <2>1, <3>2, <3>3, <3>4, TasksSpare
    <3>. QED BY <3>4, <3>5 DEF Spares, h
  <2>3. CASE ~balance[h.staff].row
    <3>1. /\ req'[r].at = "create" /\ req'[r].days = h.days
          /\ \A q \in Request : q # r => req'[q] = req[q]
      BY <1>0, <1>6, <2>3 DEF EnsureEmployee, EnsureBalanceRow, h, Handler
    <3>. QED BY <2>1, <3>1 DEF Spares, Charges, Writes
  <2>. QED BY <2>2, <2>3
<1>7. ASSUME JobDone(r) PROVE Spares(r, w)
  BY <1>0, <1>7, IdleSpares DEF JobDone
<1>. QED BY <1>1, <1>2, <1>3, <1>4, <1>5, <1>6, <1>7 DEF PolicyContinue

\* And every step of attendance, but the flagging of a session.
LEMMA AttendanceSpares ==
  ASSUME WorkInv, WorkInv', NEW r \in Request, AttendanceContinue(r), NEW w,
         Mark(r) => Reply(r)
  PROVE  Spares(r, w)
<1>. DEFINE h == req[r]
<1>0. /\ req \in [Request -> Handler] /\ req' \in [Request -> Handler] /\ h \in Handler
      /\ HandlerOK(h, session, missed, leave)
  BY DEF WorkInv, TypeOK
<1>. HIDE DEF h
<1>1. CASE Reply(r)
  BY <1>0, <1>1, IdleSpares
<1>2. ASSUME NEW at \in {"today", "flag", "mark", "find", "done", "checkOut", "rows"},
             req'[r].at = at, \A q \in Request : q # r => req'[q] = req[q]
      PROVE  Spares(r, w)
  BY <1>2, SparesAtRest
<1>3. ASSUME InsertSession(r) PROVE Spares(r, w)
  <2>1. req'[r].at = "today" /\ \A q \in Request : q # r => req'[q] = req[q]
    BY <1>0, <1>3 DEF InsertSession, Await, GoOn, h, Handler
  <2>. QED BY <1>2, <2>1
<1>4. ASSUME FindToday(r), ~Reply(r) PROVE Spares(r, w)
  <2>1. req'[r].at = "flag" /\ \A q \in Request : q # r => req'[q] = req[q]
    BY <1>0, <1>4 DEF FindToday, Handler
  <2>. QED BY <1>2, <2>1
<1>5. ASSUME Flag(r) PROVE Spares(r, w)
  <2>1. h.at = "flag" /\ h.op \in {"checkIn", "today", "checkOut"} /\ h.next = NextOf(h.op)
    BY <1>0, <1>5 DEF Flag, h, HandlerOK, PlaceOK, SubjectOK
  <2>2. PICK at \in {"mark", h.next} : req' = [req EXCEPT ![r] = GoOn(h, at)]
    BY <1>5 DEF Flag, Await, h
  <2>3. at \in {"mark", "find", "done"}
    BY <2>1, <2>2 DEF NextOf
  <2>4. CASE at = "done"
    BY <1>0, <2>2, <2>4, IdleSpares DEF GoOn, Reply
  <2>5. CASE at # "done"
    <3>1. req'[r].at = at /\ \A q \in Request : q # r => req'[q] = req[q]
      BY <1>0, <2>2, <2>5 DEF GoOn, Handler
    <3>. QED BY <1>2, <2>3, <3>1
  <2>. QED BY <2>4, <2>5
<1>6. ASSUME FindOpen(r), ~Reply(r) PROVE Spares(r, w)
  <2>1. req'[r].at = "checkOut" /\ \A q \in Request : q # r => req'[q] = req[q]
    BY <1>0, <1>6 DEF FindOpen, Handler
  <2>. QED BY <1>2, <2>1
<1>7. ASSUME NextRow(r), ~Reply(r) PROVE Spares(r, w)
  <2>0. PICK at \in {"mark", "rows"} : \E id, u, todo :
          req' = [req EXCEPT ![r].todo = todo, ![r].at = at, ![r].id = id, ![r].staff = u]
    BY <1>7 DEF NextRow
  <2>1. req'[r].at = at /\ \A q \in Request : q # r => req'[q] = req[q]
    BY <1>0, <2>0 DEF Handler
  <2>. QED BY <1>2, <2>1
<1>8. ASSUME SettleMissed(r), ~Reply(r) PROVE Spares(r, w)
  <2>1. /\ req'[r].at = "lwp" /\ req'[r].days = -1
        /\ \A q \in Request : q # r => req'[q] = req[q]
    BY <1>0, <1>8 DEF SettleMissed, Handler
  <2>. QED BY <2>1 DEF Spares, Charges, Writes
<1>. QED BY <1>1, <1>3, <1>4, <1>5, <1>6, <1>7, <1>8
     DEF AttendanceContinue, CheckOutWrite, CorrectWrite, EscalateMissed


LEMMA SparesCounts ==
  ASSUME WorkInv, WorkInv', TablesKept, NEW r \in Request, NEW w \in Staff, Counts(w), FlagsStay,
         balance'[w].lwp = balance[w].lwp, Spares(r, w)
  PROVE  Counts(w)'
<1>1. \A q \in Request : Charges(req'[q], w) => Charges(req[q], w)
  BY DEF Spares
<1>2. \A q \in Request : Writes(req'[q], w) => Writes(req[q], w) /\ req'[q].lwp = req[q].lwp
  BY DEF Spares
<1>. QED BY <1>1, <1>2, CountsSpared

\* Flags and columns that no step of the policy, or of leave, touches.
LEMMA FlagsUntouched ==
  ASSUME session' = session
  PROVE  FlagsStay
BY DEF FlagsStay

\* The days of the counter are not changed by what is credited, or deducted.
LEMMA CounterStays ==
  ASSUME WorkInv, NEW r \in Request, PolicyContinue(r), ~LwpWrite(r), NEW w \in Staff
  PROVE  balance'[w].lwp = balance[w].lwp
<1>0. balance \in [Staff -> Balance] /\ balance[w] \in Balance
  BY DEF WorkInv, TypeOK
<1>2. CASE balance' = balance
  BY <1>2
<1>3. ASSUME CreateBalance(r), ~(balance' = balance) PROVE balance'[w].lwp = balance[w].lwp
  BY <1>0, <1>3 DEF CreateBalance, Balance
<1>4. ASSUME Credit(r) PROVE balance'[w].lwp = balance[w].lwp
  <2>1. PICK x, t, n : balance' = [balance EXCEPT ![x].alloc[t] = n]
    BY <1>4 DEF Credit
  <2>. QED BY <1>0, <2>1 DEF Balance
<1>5. ASSUME ResetWrite(r) PROVE balance'[w].lwp = balance[w].lwp
  <2>1. PICK x, t, n : balance' = [balance EXCEPT ![x].alloc[t] = n, ![x].used[t] = 0]
    BY <1>5 DEF ResetWrite
  <2>. QED BY <1>0, <2>1 DEF Balance
<1>6. ASSUME Pay(r) PROVE balance'[w].lwp = balance[w].lwp
  <2>1. PICK x, t, n : balance' = [balance EXCEPT ![x].used[t] = n]
    BY <1>6 DEF Pay
  <2>. QED BY <1>0, <2>1 DEF Balance
<1>. QED BY <1>2, <1>3, <1>4, <1>5, <1>6
     DEF PolicyContinue, ResetRead, DeductRead, LwpRead, NextEmployee, EnsureEmployee, JobDone, policyVars

\* A day of leave without pay is charged to somebody who has applied for leave.
LEMMA DeductCounts ==
  ASSUME WorkInv, WorkInv', NEW r \in Request, DeductRead(r), UNCHANGED <<session, missed, leave>>,
         NEW w \in Staff, Counts(w)
  PROVE  Counts(w)'
<1>. DEFINE h == req[r]
<1>0. /\ req \in [Request -> Handler] /\ req' \in [Request -> Handler] /\ h \in Handler
      /\ HandlerOK(h, session, missed, leave)
  BY DEF WorkInv, TypeOK
<1>. HIDE DEF h
<1>1. h.at = "balance" /\ h.op = "decideLeave" /\ h.id \in Leave /\ h.staff = leave[h.id].staff
      /\ h.days = 0
  BY <1>0 DEF DeductRead, h, HandlerOK, PlaceOK, SubjectOK, RowsOK
<1>2. CASE w = h.staff
  <2>1. OnLeave(w)
    BY <1>1, <1>2 DEF OnLeave
  <2>2. OnLeave(w)'
    BY <2>1 DEF OnLeave
  <2>. QED BY <2>2 DEF Counts
<1>3. CASE w # h.staff
  <2>1. /\ req'[r].staff = h.staff
        /\ \A q \in Request : q # r => req'[q] = req[q]
    BY <1>0 DEF DeductRead, EnsureBalanceRow, h, Handler
  <2>2. Spares(r, w)
    BY <1>3, <2>1 DEF Spares, Charges, Writes
  <2>3. balance'[w].lwp = balance[w].lwp
    BY DEF DeductRead, policyVars
  <2>. QED BY <2>2, <2>3, Kept, FlagsUntouched, SparesCounts
<1>. QED BY <1>2, <1>3


\* What is read, the day that is owed included, is at most what was flagged.
LEMMA ReadCounts ==
  ASSUME WorkInv, WorkInv', NEW r \in Request, LwpRead(r), UNCHANGED <<session, missed, leave>>,
         NEW w \in Staff, Counts(w)
  PROVE  Counts(w)'
<1>. DEFINE h == req[r]
            C == Cardinality(Charging(w))
            F == Cardinality(Flagged(w))
<1>0. /\ req \in [Request -> Handler] /\ req' \in [Request -> Handler] /\ h \in Handler
      /\ balance \in [Staff -> Balance] /\ balance' = balance
  BY DEF WorkInv, TypeOK, LwpRead, policyVars
<1>1. h.at = "lwp" /\ h.days \in {-1, 0, 1} /\ balance[w].lwp \in Nat
  BY <1>0 DEF LwpRead, Handler, Balance
<1>2. \A q \in Request : q # r => req'[q] = req[q]
  BY <1>0 DEF LwpRead, EnsureBalanceRow
<1>3. CASE ~balance[h.staff].row
  <2>1. req'[r].staff = h.staff /\ req'[r].days = h.days /\ req'[r].at = "create"
    BY <1>0, <1>3 DEF LwpRead, EnsureBalanceRow, Handler
  <2>2. Spares(r, w)
    BY <1>1, <1>2, <2>1 DEF Spares, Charges, Writes
  <2>. QED BY <1>0, <2>2, Kept, FlagsUntouched, SparesCounts
<1>4. CASE balance[h.staff].row
  <2>. DEFINE n == balance[h.staff].lwp + h.days
              lwp == IF n > 0 THEN n ELSE 0
  <2>1. req' = [req EXCEPT ![r] = WithLwp(h, "lwpWrite", lwp)]
    BY <1>4 DEF LwpRead, EnsureBalanceRow, WithLwp
  <2>2. req'[r].staff = h.staff /\ req'[r].at = "lwpWrite" /\ req'[r].lwp = lwp
    BY <1>0, <2>1 DEF WithLwp, Handler
  <2>3. CASE w # h.staff
    <3>1. Spares(r, w)
      BY <1>2, <2>2, <2>3 DEF Spares, Charges, Writes
    <3>. QED BY <1>0, <3>1, Kept, FlagsUntouched, SparesCounts
  <2>4. CASE w = h.staff
    <3>1. Charging(w)' = Charging(w) \ {r}
      BY <1>2, <2>2 DEF Charging, Charges
    <3>2. r \in Charging(w) <=> h.days = 1
      BY <1>1, <2>4 DEF Charging, Charges
    <3>3. IsFiniteSet(Charging(w)) /\ C \in Nat /\ F \in Nat
      BY CountsAreFinite
    <3>4. Cardinality(Charging(w)') = IF h.days = 1 THEN C - 1 ELSE C
      BY <3>1, <3>2, <3>3, FS_RemoveElement
    <3>5. Cardinality(Flagged(w)') = F
      BY DEF Flagged
    <3>6. SUFFICES ASSUME ~OnLeave(w)'
          PROVE  /\ balance'[w].lwp + Cardinality(Charging(w)') <= Cardinality(Flagged(w)')
                 /\ \A q \in Request : Writes(req'[q], w) =>
                      req'[q].lwp + Cardinality(Charging(w)') <= Cardinality(Flagged(w)')
      BY DEF Counts, Writes
    <3>7. ~OnLeave(w)
      BY <3>6 DEF OnLeave
    <3>8. balance[w].lwp + C <= F
      BY <3>7 DEF Counts
    <3>9. Cardinality(Charging(w)') \in Nat
      BY CountsAreFiniteAfter
    <3>10. balance'[w].lwp + Cardinality(Charging(w)') <= F
      BY <1>0, <1>1, <3>3, <3>4, <3>8
    <3>11. lwp + Cardinality(Charging(w)') <= F
      <4>. HIDE DEF C, F
      <4>. QED BY <1>1, <2>4, <3>3, <3>4, <3>8
    <3>12. ASSUME NEW q \in Request, Writes(req'[q], w)
           PROVE  req'[q].lwp + Cardinality(Charging(w)') <= F
      <4>1. CASE q = r
        BY <2>2, <3>11, <4>1
      <4>2. CASE q # r
        <5>1. Writes(req[q], w) /\ req'[q].lwp = req[q].lwp
          BY <1>2, <3>12, <4>2
        <5>2. req[q].lwp + C <= F /\ req[q].lwp \in Nat
          BY <1>0, <3>7, <5>1 DEF Counts, Handler
        <5>. QED BY <3>3, <3>4, <5>1, <5>2
      <4>. QED BY <4>1, <4>2
    <3>. QED BY <3>5, <3>10, <3>12
  <2>. QED BY <2>3, <2>4
<1>. QED BY <1>3, <1>4

\* Whoever writes last, what it writes is at most what was flagged.
LEMMA WriteCounts ==
  ASSUME WorkInv, WorkInv', NEW r \in Request, LwpWrite(r), UNCHANGED <<session, missed, leave>>,
         NEW w \in Staff, Counts(w)
  PROVE  Counts(w)'
<1>. DEFINE h == req[r]
            f == WithCharged(h, 0, 0)
<1>0. /\ req \in [Request -> Handler] /\ req' \in [Request -> Handler] /\ h \in Handler
      /\ balance \in [Staff -> Balance] /\ HandlerOK(h, session, missed, leave)
  BY DEF WorkInv, TypeOK
<1>1. h.at = "lwpWrite" /\ req' = [req EXCEPT ![r] = GoOn(f, h.next)]
      /\ balance' = [balance EXCEPT ![h.staff].lwp = h.lwp] /\ h.staff \in Staff
  BY <1>0 DEF LwpWrite, WithCharged, HandlerOK, SubjectOK
<1>2. \A q \in Request : q # r => req'[q] = req[q]
  BY <1>0, <1>1
<1>3. /\ f \in Handler /\ f.days = 0
      /\ h.next \in {"done", "find", "rows", "decide"}
  BY <1>0, SetCharged DEF HandlerOK, SubjectOK, NextOf
<1>4. req'[r] = GoOn(f, h.next)
  BY <1>0, <1>1
<1>. HIDE DEF f
<1>5. req'[r].days = 0 /\ req'[r].at # "lwpWrite"
  <2>1. Idle.days = 0 /\ Idle.at = "done"
    BY DEF Idle
  <2>2. CASE h.next = "done"
    BY <1>4, <2>1, <2>2 DEF GoOn
  <2>3. CASE h.next # "done"
    BY <1>3, <1>4, <2>3 DEF GoOn, Handler
  <2>. QED BY <2>2, <2>3
<1>6. Spares(r, w)
  BY <1>2, <1>5 DEF Spares, Charges, Writes
<1>7. CASE w # h.staff
  <2>1. balance'[w].lwp = balance[w].lwp
    BY <1>0, <1>1, <1>7 DEF Balance
  <2>. QED BY <1>6, <2>1, Kept, FlagsUntouched, SparesCounts
<1>8. CASE w = h.staff
  <2>1. Charging(w)' \subseteq Charging(w)
    BY <1>6 DEF Spares, Charging
  <2>2. Cardinality(Charging(w)') <= Cardinality(Charging(w))
    BY <2>1, CountsAreFinite, FS_Subset
  <2>3. Flagged(w)' = Flagged(w)
    BY DEF Flagged
  <2>4. SUFFICES ASSUME ~OnLeave(w)'
        PROVE  /\ balance'[w].lwp + Cardinality(Charging(w)') <= Cardinality(Flagged(w)')
               /\ \A q \in Request : Writes(req'[q], w) =>
                    req'[q].lwp + Cardinality(Charging(w)') <= Cardinality(Flagged(w)')
    BY DEF Counts, Writes
  <2>5. ~OnLeave(w)
    BY <2>4 DEF OnLeave
  <2>6. balance'[w].lwp = h.lwp
    BY <1>0, <1>1, <1>8 DEF Balance
  <2>7. h.lwp + Cardinality(Charging(w)) <= Cardinality(Flagged(w)) /\ h.lwp \in Nat
    BY <1>0, <1>1, <1>8, <2>5 DEF Counts, Writes, Handler
  <2>8. /\ Cardinality(Charging(w)) \in Nat /\ Cardinality(Charging(w)') \in Nat
        /\ Cardinality(Flagged(w)) \in Nat
    BY CountsAreFinite, CountsAreFiniteAfter
  <2>9. balance'[w].lwp + Cardinality(Charging(w)') <= Cardinality(Flagged(w))
    BY <2>2, <2>6, <2>7, <2>8
  <2>10. ASSUME NEW q \in Request, Writes(req'[q], w)
         PROVE  req'[q].lwp + Cardinality(Charging(w)') <= Cardinality(Flagged(w))
    <3>1. req'[q] = req[q] /\ Writes(req[q], w)
      BY <1>6, <2>10 DEF Spares
    <3>2. req[q].lwp + Cardinality(Charging(w)) <= Cardinality(Flagged(w)) /\ req[q].lwp \in Nat
      BY <1>0, <2>5, <3>1 DEF Counts, Handler
    <3>. QED BY <2>2, <2>8, <3>1, <3>2
  <2>. QED BY <2>3, <2>9, <2>10
<1>. QED BY <1>7, <1>8

\* One session is flagged, and one day is owed.
LEMMA MarkCounts ==
  ASSUME WorkInv, WorkInv', TablesKept, NEW r \in Request, Mark(r), ~Reply(r), leave' = leave,
         NEW w \in Staff, Counts(w)
  PROVE  Counts(w)'
<1>. DEFINE h == req[r]
            s == h.id
            C == Cardinality(Charging(w))
            F == Cardinality(Flagged(w))
<1>0. /\ req \in [Request -> Handler] /\ req' \in [Request -> Handler] /\ h \in Handler
      /\ session \in [Session -> SessionRow] /\ session' \in [Session -> SessionRow]
      /\ HandlerOK(h, session, missed, leave) /\ TablesOK
  BY DEF WorkInv, TypeOK
<1>1. /\ h.at = "mark" /\ s \in Session /\ h.staff = session[s].staff /\ h.days = 0
      /\ missed[s].approval.status = "NONE" /\ ~session[s].missedCheckout
  BY <1>0 DEF Mark, HandlerOK, SubjectOK, RowsOK, TablesOK, SessionRow
<1>2. /\ req'[r].at = "lwp" /\ req'[r].days = 1 /\ req'[r].staff = h.staff
      /\ \A q \in Request : q # r => req'[q] = req[q]
  BY <1>0 DEF Mark, Handler
<1>3. /\ session'[s].missedCheckout /\ session'[s].staff = h.staff
      /\ \A x \in Session : x # s => session'[x] = session[x]
  BY <1>0, <1>1 DEF Mark, SessionRow
<1>4. balance' = balance /\ balance[w].lwp \in Nat
  BY DEF Mark, policyVars, WorkInv, TypeOK, Balance
<1>. HIDE DEF h
<1>5. CASE w # h.staff
  <2>1. Spares(r, w)
    BY <1>2, <1>5 DEF Spares, Charges, Writes
  <2>2. FlagsStay
    BY <1>1, <1>3 DEF FlagsStay
  <2>. QED BY <1>4, <2>1, <2>2, SparesCounts
<1>6. CASE w = h.staff
  <2>1. Charging(w)' = Charging(w) \union {r} /\ r \notin Charging(w)
    BY <1>1, <1>2, <1>6 DEF Charging, Charges, h
  <2>2. Flagged(w)' = Flagged(w) \union {s} /\ s \notin Flagged(w)
    BY <1>1, <1>3, <1>6 DEF Flagged
  <2>3. C \in Nat /\ F \in Nat /\ IsFiniteSet(Charging(w)) /\ IsFiniteSet(Flagged(w))
    BY CountsAreFinite
  <2>4. Cardinality(Charging(w)') = C + 1
    BY <2>1, <2>3, FS_AddElement
  <2>5. Cardinality(Flagged(w)') = F + 1
    BY <2>2, <2>3, FS_AddElement
  <2>6. SUFFICES ASSUME ~OnLeave(w)'
        PROVE  /\ balance'[w].lwp + Cardinality(Charging(w)') <= Cardinality(Flagged(w)')
               /\ \A q \in Request : Writes(req'[q], w) =>
                    req'[q].lwp + Cardinality(Charging(w)') <= Cardinality(Flagged(w)')
    BY DEF Counts, Writes
  <2>7. ~OnLeave(w)
    BY <2>6 DEF OnLeave
  <2>8. balance'[w].lwp + C + 1 <= F + 1
    BY <1>4, <2>3, <2>7 DEF Counts
  <2>9. ASSUME NEW q \in Request, Writes(req'[q], w)
        PROVE  req'[q].lwp + Cardinality(Charging(w)') <= Cardinality(Flagged(w)')
    <3>1. Writes(req[q], w) /\ req'[q].lwp = req[q].lwp
      BY <1>2, <2>9 DEF Writes
    <3>2. req[q].lwp + C <= F /\ req[q].lwp \in Nat
      BY <1>0, <2>7, <3>1 DEF Counts, Handler
    <3>. QED BY <2>3, <2>4, <2>5, <3>1, <3>2
  <2>. QED BY <1>4, <2>3, <2>4, <2>5, <2>8, <2>9
<1>. QED BY <1>5, <1>6


LEMMA ChargeInit == Init => ChargeInv
<1>. SUFFICES ASSUME Init, NEW w \in Staff PROVE Counts(w)
  BY DEF ChargeInv
<1>1. balance[w].lwp = 0
  BY DEF Init, PolicyInit, NoBalance
<1>2. \A r \in Request : req[r] = Idle
  BY DEF Init, PolicyInit
<1>3. Idle.days = 0 /\ Idle.at = "done"
  BY DEF Idle
<1>4. Charging(w) = {} /\ \A r \in Request : ~Writes(req[r], w)
  BY <1>2, <1>3 DEF Charging, Charges, Writes
<1>5. Cardinality(Charging(w)) = 0 /\ Cardinality(Flagged(w)) \in Nat
  BY <1>4, CountsAreFinite, FS_EmptySet
<1>. QED BY <1>1, <1>4, <1>5 DEF Counts

\* No step takes a flag back.
LEMMA FlagsAttendance ==
  ASSUME WorkInv, NEW r \in Request, AttendanceContinue(r)
  PROVE  FlagsStay
<1>. DEFINE h == req[r]
<1>0. /\ h \in Handler /\ HandlerOK(h, session, missed, leave)
      /\ session \in [Session -> SessionRow]
  BY DEF WorkInv, TypeOK
<1>. HIDE DEF h
<1>1. CASE session' = session
  BY <1>1, FlagsUntouched
<1>2. ASSUME InsertSession(r) PROVE FlagsStay
  <2>1. PICK s, row : s \in Session /\ session[s] = NoSession /\ session' = [session EXCEPT ![s] = row]
    BY <1>2 DEF InsertSession
  <2>2. ~session[s].missedCheckout
    BY <2>1 DEF NoSession
  <2>. QED BY <1>0, <2>1, <2>2 DEF FlagsStay
<1>3. ASSUME NEW s, NEW status, session' = [session EXCEPT ![s].status = status] PROVE FlagsStay
  BY <1>0, <1>3 DEF FlagsStay, SessionRow
<1>4. ASSUME Mark(r), ~(session' = session) PROVE FlagsStay
  <2>1. session' = [session EXCEPT ![h.id].status = "ABSENT", ![h.id].missedCheckout = TRUE]
    BY <1>4 DEF Mark, h, attendanceVars
  <2>. QED BY <1>0, <2>1 DEF FlagsStay, SessionRow
<1>5. ASSUME CheckOutWrite(r) \/ CorrectWrite(r) \/ SettleMissed(r) PROVE FlagsStay
  BY <1>3, <1>5 DEF CheckOutWrite, CorrectWrite, SettleMissed
<1>. QED BY <1>1, <1>2, <1>4, <1>5
     DEF AttendanceContinue, FindToday, Flag, FindOpen, NextRow, EscalateMissed, attendanceVars

LEMMA ChargeEnvironment ==
  ASSUME WorkInv, WorkInv', Environment, NEW w \in Staff, Counts(w)
  PROVE  Counts(w)'
<1>0. req \in [Request -> Handler] /\ session \in [Session -> SessionRow]
  BY DEF WorkInv, TypeOK
<1>1. balance'[w].lwp = balance[w].lwp
  BY DEF Environment, Midnight, Crash, Throw, Deadline, policyVars
<1>2. FlagsStay /\ TablesKept
  <2>1. CASE UNCHANGED <<session, missed, leave>>
    BY <2>1, Kept, FlagsUntouched
  <2>2. CASE \E s \in Session : Deadline(s) /\ UNCHANGED leave
    <3>1. PICK s \in Session : session' = [session EXCEPT ![s].past = TRUE]
      BY <2>2 DEF Deadline
    <3>2. missed' = missed /\ leave' = leave
      BY <2>2 DEF Deadline
    <3>3. \A x \in Session : /\ session'[x].status = session[x].status
                             /\ session'[x].staff = session[x].staff
                             /\ session'[x].missedCheckout = session[x].missedCheckout
      BY <1>0, <3>1 DEF SessionRow
    <3>. QED BY <3>2, <3>3 DEF FlagsStay, TablesKept, Keeps
  <2>. QED BY <2>1, <2>2 DEF Environment, attendanceVars
<1>3. \A q \in Request : req'[q] \in {req[q], Idle}
  BY <1>0 DEF Environment, Midnight, Crash, Throw, Reply, Deadline
<1>4. Idle.days = 0 /\ Idle.at = "done"
  BY DEF Idle
<1>5. /\ \A q \in Request : Charges(req'[q], w) => Charges(req[q], w)
      /\ \A q \in Request : Writes(req'[q], w) => Writes(req[q], w) /\ req'[q].lwp = req[q].lwp
  BY <1>3, <1>4 DEF Charges, Writes
<1>. QED BY <1>1, <1>2, <1>5, CountsSpared

LEMMA CallCounts ==
  ASSUME WorkInv, WorkInv', NEW r \in Request, Call(r) \/ (Sweep(r) /\ UNCHANGED leave),
         NEW w \in Staff, Counts(w)
  PROVE  Counts(w)'
<1>1. UNCHANGED <<balance, session, missed, leave>>
  BY CallsChangeNoRow
<1>2. PICK g : Starts(r, g)
  BY StartsJob, StartsAttendance, StartsLeave DEF Call
<1>3. req \in [Request -> Handler]
  BY DEF WorkInv, TypeOK
<1>4. Spares(r, w)
  BY <1>2, <1>3 DEF Starts, Becomes, Fresh, Spares, Charges, Writes
<1>. QED BY <1>1, <1>4, Kept, FlagsUntouched, SparesCounts

LEMMA ContinueCounts ==
  ASSUME WorkInv, WorkInv', NEW r \in Request, Continue(r), NEW w \in Staff, Counts(w)
  PROVE  Counts(w)'
<1>0. req \in [Request -> Handler]
  BY DEF WorkInv, TypeOK
<1>1. ASSUME PolicyContinue(r), UNCHANGED <<attendanceVars, leave>> PROVE Counts(w)'
  <2>0. UNCHANGED <<session, missed, leave>>
    BY <1>1 DEF attendanceVars
  <2>1. CASE DeductRead(r)
    BY <2>0, <2>1, DeductCounts
  <2>2. CASE LwpRead(r)
    BY <2>0, <2>2, ReadCounts
  <2>3. CASE LwpWrite(r)
    BY <2>0, <2>3, WriteCounts
  <2>4. CASE ~DeductRead(r) /\ ~LwpRead(r) /\ ~LwpWrite(r)
    <3>1. Spares(r, w) /\ balance'[w].lwp = balance[w].lwp
      BY <1>1, <2>4, PolicySpares, CounterStays
    <3>. QED BY <2>0, <3>1, Kept, FlagsUntouched, SparesCounts
  <2>. QED BY <2>1, <2>2, <2>3, <2>4
<1>2. ASSUME AttendanceContinue(r), UNCHANGED leave PROVE Counts(w)'
  <2>1. TablesKept
    BY <1>2, AttendanceTables
  <2>2. CASE Mark(r) /\ ~Reply(r)
    BY <1>2, <2>1, <2>2, MarkCounts
  <2>3. CASE Mark(r) => Reply(r)
    <3>1. Spares(r, w)
      BY <1>2, <2>3, AttendanceSpares
    <3>2. balance' = balance
      BY <1>2 DEF AttendanceContinue, InsertSession, FindToday, Flag, FindOpen, CheckOutWrite,
                  CorrectWrite, NextRow, Mark, EscalateMissed, SettleMissed, policyVars
    <3>. QED BY <1>2, <2>1, <3>1, <3>2, FlagsAttendance, SparesCounts
  <2>. QED BY <2>2, <2>3
<1>3. ASSUME LeaveContinue(r) PROVE Counts(w)'
  <2>1. TablesKept
    BY <1>3, LeaveTables
  <2>2. Reply(r) /\ session' = session /\ balance' = balance
    BY <1>3 DEF LeaveContinue, InsertLeave, CancelLeaveWrite, EscalateLeave, SettleLeave,
                attendanceVars, policyVars
  <2>3. Spares(r, w)
    BY <1>0, <2>2, IdleSpares
  <2>. QED BY <2>1, <2>2, <2>3, FlagsUntouched, SparesCounts
<1>. QED BY <1>1, <1>2, <1>3 DEF Continue

LEMMA ChargeStep == WorkInv /\ WorkInv' /\ ChargeInv /\ [Next]_vars => ChargeInv'
<1>. SUFFICES ASSUME WorkInv, WorkInv', ChargeInv, [Next]_vars, NEW w \in Staff
              PROVE  Counts(w)'
  BY DEF ChargeInv
<1>0. Counts(w)
  BY DEF ChargeInv
<1>1. CASE UNCHANGED vars
  BY <1>0, <1>1 DEF vars, Counts, OnLeave, Charging, Flagged
<1>2. CASE Next
  BY <1>0, <1>2, ChargeEnvironment, CallCounts, ContinueCounts DEF Next
<1>. QED BY <1>1, <1>2

DecisionInv == WorkInv /\ LevelInv /\ ChargeInv

\* No approval without the decision of the level that owes it, and no day charged
\* twice, however many handlers flag, decide and write the counter at once.
THEOREM NoDecisionCountsTwice == Spec => []DecidedOnce
<1>1. Init => DecisionInv
  BY WorkInit, LevelInit, ChargeInit DEF DecisionInv
<1>2. DecisionInv /\ [Next]_vars => DecisionInv'
  BY WorkStep, LevelStep, ChargeStep DEF DecisionInv
<1>3. DecisionInv => DecidedOnce
  <2>. SUFFICES ASSUME DecisionInv PROVE DecidedOnce
    OBVIOUS
  <2>1. ApprovedAtRequiredLevel
    BY DEF DecisionInv, LevelInv, DecidedByWhomItOwes, ApprovedAtRequiredLevel
  <2>2. ASSUME NEW w \in Staff, \A l \in Leave : leave[l].staff # w
        PROVE  balance[w].lwp <= Cardinality(Flagged(w))
    <3>1. balance[w].lwp + Cardinality(Charging(w)) <= Cardinality(Flagged(w))
      BY <2>2 DEF DecisionInv, ChargeInv, Counts, OnLeave
    <3>2. balance[w].lwp \in Nat
      BY DEF DecisionInv, WorkInv, TypeOK, Balance
    <3>. QED BY <3>1, <3>2, CountsAreFinite
  <2>. QED BY <2>1, <2>2 DEF DecidedOnce, ChargedOnce, Flagged
<1>. QED BY <1>1, <1>2, <1>3, PTL DEF Spec

-----------------------------------------------------------------------------
(* Balances and their ledger *)

Serial == \A q, r \in Request : q = r

Agrees(b, l) ==
  \A w \in Staff, t \in Type :
    b[w].alloc[t] - b[w].used[t] = l[w][t].ALLOCATION - l[w][t].DEDUCTION + l[w][t].RESET

Covers(b) == \A w \in Staff, t \in Type : b[w].used[t] <= b[w].alloc[t]

FirstOf(tasks) == CHOOSE k \in tasks : \A j \in tasks : Order(k) <= Order(j)

\* Handler h has read the balances b: there is a day left of the leave it is about
\* to pay, and what it is about to reset is what is there.
HasRead(h, b) ==
  /\ h.at = "pay" => b[h.staff].used[h.type] < b[h.staff].alloc[h.type]
  /\ h.at = "resetWrite" =>
       /\ h.alloc = b[h.staff].alloc[FirstOf(h.tasks)[2]]
       /\ h.used = b[h.staff].used[FirstOf(h.tasks)[2]]

BalanceInv ==
  /\ Agrees(balance, ledger)
  /\ Serial => Covers(balance) /\ \A r \in Request : HasRead(req[r], balance)

\* Anywhere else a handler has read nothing it relies on.
Reads(h) == h.at \in {"pay", "resetWrite"}

LEMMA NothingRead ==
  ASSUME NEW h, NEW b, ~Reads(h)
  PROVE  HasRead(h, b)
BY DEF Reads, HasRead

LEMMA BalanceInit == Init => BalanceInv
<1>. SUFFICES ASSUME Init PROVE BalanceInv
  OBVIOUS
<1>. USE DEF Init, PolicyInit
<1>1. \A w \in Staff, t \in Type :
        /\ balance[w].alloc[t] = 0 /\ balance[w].used[t] = 0
        /\ ledger[w][t].ALLOCATION = 0 /\ ledger[w][t].DEDUCTION = 0 /\ ledger[w][t].RESET = 0
  BY DEF NoBalance, NoTotals
<1>2. \A r \in Request : ~Reads(req[r])
  BY DEF Reads, Idle
<1>. QED BY <1>1, <1>2, NothingRead DEF BalanceInv, Agrees, Covers

\* Balances, ledger and what is read are left alone.
LEMMA BalancesKept ==
  ASSUME BalanceInv, UNCHANGED <<balance, ledger>>,
         \A r \in Request : req'[r] = req[r] \/ ~Reads(req'[r])
  PROVE  BalanceInv'
<1>1. \A r \in Request : Serial /\ HasRead(req[r], balance) => HasRead(req'[r], balance')
  BY NothingRead
<1>2. Agrees(balance', ledger')
  BY DEF BalanceInv
<1>3. Serial => Covers(balance')
  BY DEF BalanceInv
<1>. QED BY <1>1, <1>2, <1>3 DEF BalanceInv

Rests(r) == ~Reads(req'[r]) /\ \A q \in Request : q # r => req'[q] = req[q]

LEMMA IdleReads ==
  ASSUME WorkInv, NEW r \in Request, Reply(r)
  PROVE  Rests(r)
<1>1. req \in [Request -> Handler]
  BY DEF WorkInv, TypeOK
<1>. QED BY <1>1 DEF Reply, Idle, Reads, Rests

\* So are the amounts, while the row is created or the counter of days is written.
LEMMA AmountsKept ==
  ASSUME BalanceInv, NEW r \in Request, Rests(r), ledger' = ledger,
         \A x \in Staff : balance'[x].alloc = balance[x].alloc /\ balance'[x].used = balance[x].used
  PROVE  BalanceInv'
<1>1. Agrees(balance', ledger')
  BY DEF BalanceInv, Agrees
<1>2. Serial => Covers(balance')
  BY DEF BalanceInv, Covers
<1>3. Serial => \A q \in Request : HasRead(req'[q], balance')
  BY NothingRead DEF Serial, Rests
<1>. QED BY <1>1, <1>2, <1>3 DEF BalanceInv

\* No handler of attendance or leave goes to a query that writes a balance.
LEMMA AttendanceReads ==
  ASSUME WorkInv, NEW r \in Request, AttendanceContinue(r)
  PROVE  Rests(r)
<1>. DEFINE h == req[r]
<1>0. /\ req \in [Request -> Handler] /\ h \in Handler
      /\ HandlerOK(h, session, missed, leave)
  BY DEF WorkInv, TypeOK
<1>. HIDE DEF h
<1>1. CASE Reply(r)
  BY <1>1, IdleReads
<1>2. ASSUME NEW at \in {"today", "flag", "mark", "find", "checkOut", "rows", "lwp"},
             req'[r].at = at, \A q \in Request : q # r => req'[q] = req[q]
      PROVE  Rests(r)
  BY <1>2 DEF Reads, Rests
<1>3. ASSUME InsertSession(r) PROVE Rests(r)
  <2>1. req'[r].at = "today" /\ \A q \in Request : q # r => req'[q] = req[q]
    BY <1>0, <1>3 DEF InsertSession, Await, GoOn, h, Handler
  <2>. QED BY <1>2, <2>1
<1>4. ASSUME FindToday(r), ~Reply(r) PROVE Rests(r)
  <2>1. req'[r].at = "flag" /\ \A q \in Request : q # r => req'[q] = req[q]
    BY <1>0, <1>4 DEF FindToday, Handler
  <2>. QED BY <1>2, <2>1
<1>5. ASSUME Flag(r) PROVE Rests(r)
  <2>1. h.at = "flag" /\ h.op \in {"checkIn", "today", "checkOut"} /\ h.next = NextOf(h.op)
    BY <1>0, <1>5 DEF Flag, h, HandlerOK, PlaceOK, SubjectOK
  <2>2. PICK at \in {"mark", h.next} : req' = [req EXCEPT ![r] = GoOn(h, at)]
    BY <1>5 DEF Flag, Await, h
  <2>3. at \in {"mark", "find", "done"}
    BY <2>1, <2>2 DEF NextOf
  <2>4. CASE at = "done"
    BY <2>2, <2>4, IdleReads DEF GoOn, Reply
  <2>5. CASE at # "done"
    <3>1. req'[r].at = at /\ \A q \in Request : q # r => req'[q] = req[q]
      BY <1>0, <2>2, <2>5 DEF GoOn, Handler
    <3>. QED BY <1>2, <2>3, <2>5, <3>1
  <2>. QED BY <2>4, <2>5
<1>6. ASSUME FindOpen(r), ~Reply(r) PROVE Rests(r)
  <2>1. req'[r].at = "checkOut" /\ \A q \in Request : q # r => req'[q] = req[q]
    BY <1>0, <1>6 DEF FindOpen, Handler
  <2>. QED BY <1>2, <2>1
<1>7. ASSUME NextRow(r), ~Reply(r) PROVE Rests(r)
  <2>0. PICK at \in {"mark", "rows"} : \E id, u, todo :
          req' = [req EXCEPT ![r].todo = todo, ![r].at = at, ![r].id = id, ![r].staff = u]
    BY <1>7 DEF NextRow
  <2>1. req'[r].at = at /\ \A q \in Request : q # r => req'[q] = req[q]
    BY <1>0, <2>0 DEF Handler
  <2>. QED BY <1>2, <2>1
<1>8. ASSUME SettleMissed(r) \/ Mark(r), ~Reply(r) PROVE Rests(r)
  <2>1. /\ req'[r].at = "lwp"
        /\ \A q \in Request : q # r => req'[q] = req[q]
    BY <1>0, <1>8 DEF SettleMissed, Mark, Handler
  <2>. QED BY <1>2, <2>1
<1>. QED BY <1>1, <1>3, <1>4, <1>5, <1>6, <1>7, <1>8
     DEF AttendanceContinue, CheckOutWrite, CorrectWrite, EscalateMissed

LEMMA TasksRead ==
  ASSUME NEW h, NEW tasks, NEW back \in {"done", "ensure", "next", "balance", "lwp"},
         h \in Handler
  PROVE  ~Reads(WithTasks(h, tasks, back))
<1>1. CASE tasks # {}
  BY <1>1 DEF WithTasks, Reads, Handler
<1>2. CASE tasks = {} /\ back = "done"
  BY <1>2 DEF WithTasks, GoOn, Reads, Idle
<1>3. CASE tasks = {} /\ back # "done"
  BY <1>3 DEF WithTasks, GoOn, Reads, Handler
<1>. QED BY <1>1, <1>2, <1>3

\* The tasks of a helper end where the helper was called from.
LEMMA FinishReads ==
  ASSUME WorkInv, NEW r \in Request, NEW k, Finish(r, k), req[r].at \in {"task", "resetWrite"}
  PROVE  Rests(r)
<1>. DEFINE h == req[r]
            f == WithAmounts(h, 0, 0)
            tasks == h.tasks \ {k}
<1>0. /\ req \in [Request -> Handler] /\ h \in Handler
      /\ HandlerOK(h, session, missed, leave)
  BY DEF WorkInv, TypeOK
<1>1. req' = [req EXCEPT ![r] = WithTasks(f, tasks, h.back)]
  BY DEF Finish, WithAmounts
<1>2. h.back \in {"done", "ensure", "next", "balance", "lwp"}
  BY <1>0 DEF HandlerOK, PlaceOK
<1>3. f \in Handler
  BY <1>0, SetAmounts
<1>. HIDE DEF f, tasks
<1>4. ~Reads(WithTasks(f, tasks, h.back))
  BY <1>2, <1>3, TasksRead
<1>. QED BY <1>0, <1>1, <1>4 DEF Rests

LEMMA PolicyReads ==
  ASSUME WorkInv, NEW r \in Request, PolicyContinue(r), ~DeductRead(r), ~ResetRead(r)
  PROVE  Rests(r)
<1>. DEFINE h == req[r]
<1>0. /\ req \in [Request -> Handler] /\ h \in Handler
      /\ HandlerOK(h, session, missed, leave)
  BY DEF WorkInv, TypeOK
<1>. HIDE DEF h
<1>1. CASE Reply(r)
  BY <1>1, IdleReads
<1>2. ASSUME NEW g, req' = [req EXCEPT ![r] = g], ~Reads(g) PROVE Rests(r)
  BY <1>0, <1>2 DEF Rests
<1>3. ASSUME CreateBalance(r), ~Reply(r) PROVE Rests(r)
  <2>. DEFINE tasks == {"grant"} \X Granted
  <2>1. h.at = "create" /\ req' = [req EXCEPT ![r] = WithTasks(h, tasks, h.back)]
    BY <1>3 DEF CreateBalance, h
  <2>2. h.back \in {"done", "ensure", "next", "balance", "lwp"}
    BY <1>0, <2>1 DEF HandlerOK, PlaceOK
  <2>. HIDE DEF tasks
  <2>. QED BY <1>0, <1>2, <2>1, <2>2, TasksRead
<1>4. ASSUME Credit(r) \/ ResetWrite(r) PROVE Rests(r)
  <2>1. h.at \in {"task", "resetWrite"} /\ Finish(r, NextTask(r))
    BY <1>4 DEF Credit, ResetWrite, h
  <2>. QED BY <2>1, FinishReads DEF h
<1>5. ASSUME Pay(r) PROVE Rests(r)
  <2>1. h.next = "decide"
    BY <1>0, <1>5 DEF Pay, h, HandlerOK, PlaceOK, SubjectOK, NextOf
  <2>2. req' = [req EXCEPT ![r] = [h EXCEPT !.at = "decide"]]
    BY <1>5, <2>1 DEF Pay, Await, GoOn, h
  <2>3. ~Reads([h EXCEPT !.at = "decide"])
    BY <1>0 DEF Reads, Handler
  <2>. QED BY <1>2, <2>2, <2>3
<1>6. ASSUME LwpRead(r) PROVE Rests(r)
  <2>1. req'[r].at \in {"lwpWrite", "create"} /\ \A q \in Request : q # r => req'[q] = req[q]
    BY <1>0, <1>6 DEF LwpRead, EnsureBalanceRow, h, Handler
  <2>. QED BY <2>1 DEF Reads, Rests
<1>7. ASSUME LwpWrite(r) PROVE Rests(r)
  <2>. DEFINE f == WithCharged(h, 0, 0)
  <2>1. h.next \in {"done", "find", "rows", "decide"}
    BY <1>0 DEF HandlerOK, SubjectOK, NextOf
  <2>2. f \in Handler
    BY <1>0, SetCharged
  <2>3. req' = [req EXCEPT ![r] = GoOn(f, h.next)]
    BY <1>7 DEF LwpWrite, WithCharged, h
  <2>. HIDE DEF f
  <2>4. ~Reads(GoOn(f, h.next))
    BY <2>1, <2>2 DEF GoOn, Reads, Idle, Handler
  <2>. QED BY <1>2, <2>3, <2>4
<1>8. ASSUME NextEmployee(r) PROVE Rests(r)
  <2>1. req'[r].at = "ensure" /\ \A q \in Request : q # r => req'[q] = req[q]
    BY <1>0, <1>8 DEF NextEmployee, Handler
  <2>. QED BY <2>1 DEF Reads, Rests
<1>9. ASSUME EnsureEmployee(r) PROVE Rests(r)
  <2>. DEFINE tasks == JobTasks(h.op)
  <2>1. EnsureBalanceRow(r, WithTasks(h, tasks, "next"))
    BY <1>9 DEF EnsureEmployee, h
  <2>. HIDE DEF tasks
  <2>2. ~Reads(WithTasks(h, tasks, "next"))
    BY <1>0, TasksRead
  <2>3. ~Reads([h EXCEPT !.at = "create", !.back = h.at])
    BY <1>0 DEF Reads, Handler
  <2>. QED BY <1>2, <2>1, <2>2, <2>3 DEF EnsureBalanceRow, h
<1>. QED BY <1>1, <1>3, <1>4, <1>5, <1>6, <1>7, <1>8, <1>9 DEF PolicyContinue, JobDone

\* What a write to the ledger leaves alone.
LEMMA LedgerWritten ==
  ASSUME NEW l \in [Staff -> [Type -> Totals]], NEW w \in Staff, NEW t \in Type, NEW n
  PROVE  \A x \in Staff, y \in Type :
           /\ LET c == [l EXCEPT ![w][t].ALLOCATION = n]
              IN  /\ c[x][y].ALLOCATION = IF x = w /\ y = t THEN n ELSE l[x][y].ALLOCATION
                  /\ c[x][y].DEDUCTION = l[x][y].DEDUCTION /\ c[x][y].RESET = l[x][y].RESET
           /\ LET c == [l EXCEPT ![w][t].DEDUCTION = n]
              IN  /\ c[x][y].DEDUCTION = IF x = w /\ y = t THEN n ELSE l[x][y].DEDUCTION
                  /\ c[x][y].ALLOCATION = l[x][y].ALLOCATION /\ c[x][y].RESET = l[x][y].RESET
           /\ LET c == [l EXCEPT ![w][t].RESET = n]
              IN  /\ c[x][y].RESET = IF x = w /\ y = t THEN n ELSE l[x][y].RESET
                  /\ c[x][y].ALLOCATION = l[x][y].ALLOCATION
                  /\ c[x][y].DEDUCTION = l[x][y].DEDUCTION
BY DEF Totals

\* A credit, and its transaction.
LEMMA CreditAgrees ==
  ASSUME WorkInv, BalanceInv, NEW r \in Request, Credit(r)
  PROVE  BalanceInv'
<1>. DEFINE k == NextTask(r)
            t == k[2]
            w == req[r].staff
            n == balance[w].alloc[t] + Allocation[t]
            c == ledger[w][t].ALLOCATION + Allocation[t]
<1>0. /\ req[r] \in Handler /\ HandlerOK(req[r], session, missed, leave)
      /\ balance \in [Staff -> Balance] /\ ledger \in [Staff -> [Type -> Totals]]
  BY DEF WorkInv, TypeOK
<1>1. w \in Staff /\ t \in Type /\ Allocation[t] \in Nat
  BY <1>0, NextTaskType, TypeAssumption DEF Credit
<1>2. /\ balance' = [balance EXCEPT ![w].alloc[t] = n]
      /\ ledger' = [ledger EXCEPT ![w][t].ALLOCATION = c]
  BY DEF Credit
<1>3. Rests(r)
  BY PolicyReads DEF PolicyContinue, Credit, DeductRead, ResetRead
<1>4. \A x \in Staff, y \in Type :
        /\ balance[x].alloc[y] \in Int /\ balance[x].used[y] \in Nat
        /\ ledger[x][y].ALLOCATION \in Int /\ ledger[x][y].DEDUCTION \in Int
        /\ ledger[x][y].RESET \in Int
  BY <1>0, FieldsType
<1>. HIDE DEF k, t, w
<1>5. \A x \in Staff, y \in Type :
        /\ balance'[x].used[y] = balance[x].used[y]
        /\ balance'[x].alloc[y] = IF x = w /\ y = t THEN n ELSE balance[x].alloc[y]
  <2>. HIDE DEF n
  <2>. DEFINE b == [balance EXCEPT ![w].alloc[t] = n]
  <2>1. \A x \in Staff, y \in Type :
          /\ b[x].used[y] = balance[x].used[y]
          /\ b[x].alloc[y] = IF x = w /\ y = t THEN n ELSE balance[x].alloc[y]
    BY <1>0, <1>1 DEF Balance
  <2>2. balance' = b
    BY <1>2
  <2>. HIDE DEF b
  <2>. QED BY <2>1, <2>2
<1>6. \A x \in Staff, y \in Type :
        /\ ledger'[x][y].ALLOCATION = IF x = w /\ y = t THEN c ELSE ledger[x][y].ALLOCATION
        /\ ledger'[x][y].DEDUCTION = ledger[x][y].DEDUCTION /\ ledger'[x][y].RESET = ledger[x][y].RESET
  <2>. HIDE DEF c
  <2>. QED BY <1>0, <1>1, <1>2, LedgerWritten
<1>7. Agrees(balance', ledger')
  <2>1. n \in Int /\ c \in Int /\ n - balance[w].alloc[t] = c - ledger[w][t].ALLOCATION
    BY <1>1, <1>4
  <2>. HIDE DEF n, c
  <2>2. ASSUME NEW x \in Staff, NEW y \in Type
        PROVE  balance'[x].alloc[y] - balance'[x].used[y] =
                 ledger'[x][y].ALLOCATION - ledger'[x][y].DEDUCTION + ledger'[x][y].RESET
    <3>1. balance[x].alloc[y] - balance[x].used[y] =
            ledger[x][y].ALLOCATION - ledger[x][y].DEDUCTION + ledger[x][y].RESET
      BY DEF BalanceInv, Agrees
    <3>2. CASE x = w /\ y = t
      <4>1. balance'[x].alloc[y] = n /\ balance'[x].used[y] = balance[x].used[y]
        BY <1>5, <3>2
      <4>2. /\ ledger'[x][y].ALLOCATION = c
            /\ ledger'[x][y].DEDUCTION = ledger[x][y].DEDUCTION /\ ledger'[x][y].RESET = ledger[x][y].RESET
        BY <1>6, <3>2
      <4>3. /\ balance[x].alloc[y] \in Int /\ balance[x].used[y] \in Int
            /\ ledger[x][y].ALLOCATION \in Int /\ ledger[x][y].DEDUCTION \in Int
            /\ ledger[x][y].RESET \in Int
        BY <1>4
      <4>4. n - balance[x].alloc[y] = c - ledger[x][y].ALLOCATION
        BY <2>1, <3>2
      <4>. DEFINE al == balance[x].alloc[y]
                  us == balance[x].used[y]
                  a == ledger[x][y].ALLOCATION
                  d == ledger[x][y].DEDUCTION
                  e == ledger[x][y].RESET
      <4>5. al \in Int /\ us \in Int /\ a \in Int /\ d \in Int /\ e \in Int
            /\ n - al = c - a /\ al - us = a - d + e
        BY <3>1, <4>3, <4>4
      <4>6. /\ balance'[x].alloc[y] = n /\ balance'[x].used[y] = us
            /\ ledger'[x][y].ALLOCATION = c /\ ledger'[x][y].DEDUCTION = d /\ ledger'[x][y].RESET = e
        BY <4>1, <4>2
      <4>. HIDE DEF al, us, a, d, e
      <4>7. n - us = c - d + e
        BY <2>1, <4>5
      <4>. QED BY <4>6, <4>7
    <3>3. CASE ~(x = w /\ y = t)
      BY <1>5, <1>6, <3>1, <3>3
    <3>. QED BY <3>2, <3>3
  <2>. QED BY <2>2 DEF Agrees
<1>8. Serial => Covers(balance')
  BY <1>1, <1>4, <1>5 DEF BalanceInv, Covers
<1>9. Serial => \A q \in Request : HasRead(req'[q], balance')
  BY <1>3, NothingRead DEF Serial, Rests
<1>. QED BY <1>7, <1>8, <1>9 DEF BalanceInv

\* A day taken from the balance, and its transaction.
LEMMA PayAgrees ==
  ASSUME WorkInv, BalanceInv, NEW r \in Request, Pay(r)
  PROVE  BalanceInv'
<1>. DEFINE t == req[r].type
            w == req[r].staff
            n == balance[w].used[t] + 1
            c == ledger[w][t].DEDUCTION + 1
<1>0. /\ req[r] \in Handler /\ HandlerOK(req[r], session, missed, leave)
      /\ balance \in [Staff -> Balance] /\ ledger \in [Staff -> [Type -> Totals]]
  BY DEF WorkInv, TypeOK
<1>1. w \in Staff /\ t \in Type
  BY <1>0 DEF Pay, HandlerOK, PlaceOK, SubjectOK
<1>2. /\ balance' = [balance EXCEPT ![w].used[t] = n]
      /\ ledger' = [ledger EXCEPT ![w][t].DEDUCTION = c]
  BY DEF Pay
<1>3. Rests(r)
  BY PolicyReads DEF PolicyContinue, Pay, DeductRead, ResetRead
<1>4. \A x \in Staff, y \in Type :
        /\ balance[x].alloc[y] \in Int /\ balance[x].used[y] \in Nat
        /\ ledger[x][y].ALLOCATION \in Int /\ ledger[x][y].DEDUCTION \in Int
        /\ ledger[x][y].RESET \in Int
  BY <1>0, FieldsType
<1>10. Serial => balance[w].used[t] < balance[w].alloc[t]
  BY DEF BalanceInv, HasRead, Pay
<1>. HIDE DEF t, w
<1>5. \A x \in Staff, y \in Type :
        /\ balance'[x].alloc[y] = balance[x].alloc[y]
        /\ balance'[x].used[y] = IF x = w /\ y = t THEN n ELSE balance[x].used[y]
  <2>. HIDE DEF n
  <2>. DEFINE b == [balance EXCEPT ![w].used[t] = n]
  <2>1. \A x \in Staff, y \in Type :
          /\ b[x].alloc[y] = balance[x].alloc[y]
          /\ b[x].used[y] = IF x = w /\ y = t THEN n ELSE balance[x].used[y]
    BY <1>0, <1>1 DEF Balance
  <2>2. balance' = b
    BY <1>2
  <2>. HIDE DEF b
  <2>. QED BY <2>1, <2>2
<1>6. \A x \in Staff, y \in Type :
        /\ ledger'[x][y].DEDUCTION = IF x = w /\ y = t THEN c ELSE ledger[x][y].DEDUCTION
        /\ ledger'[x][y].ALLOCATION = ledger[x][y].ALLOCATION /\ ledger'[x][y].RESET = ledger[x][y].RESET
  <2>. HIDE DEF c
  <2>. QED BY <1>0, <1>1, <1>2, LedgerWritten
<1>7. Agrees(balance', ledger')
  <2>1. n \in Int /\ c \in Int /\ n - balance[w].used[t] = c - ledger[w][t].DEDUCTION
    BY <1>1, <1>4
  <2>. HIDE DEF n, c
  <2>. QED BY <1>1, <1>4, <1>5, <1>6, <2>1 DEF BalanceInv, Agrees
<1>8. Serial => Covers(balance')
  BY <1>1, <1>4, <1>5, <1>10 DEF BalanceInv, Covers
<1>9. Serial => \A q \in Request : HasRead(req'[q], balance')
  BY <1>3, NothingRead DEF Serial, Rests
<1>. QED BY <1>7, <1>8, <1>9 DEF BalanceInv

\* What remains lapses, but for what is carried: nobody has written the row since it was
\* read, as long as requests do not overlap.
LEMMA ResetAgrees ==
  ASSUME WorkInv, BalanceInv, Serial, NEW r \in Request, ResetWrite(r)
  PROVE  BalanceInv'
<1>. DEFINE k == NextTask(r)
            t == k[2]
            w == req[r].staff
            remaining == req[r].alloc - req[r].used
            carried == Carried(t, remaining)
            c == ledger[w][t].RESET - remaining + IF carried > 0 THEN carried ELSE 0
<1>0. /\ req[r] \in Handler /\ HandlerOK(req[r], session, missed, leave)
      /\ balance \in [Staff -> Balance] /\ ledger \in [Staff -> [Type -> Totals]]
  BY DEF WorkInv, TypeOK
<1>1. w \in Staff /\ t \in Type /\ CarryLimit[t] \in Nat
  BY <1>0, NextTaskType, TypeAssumption DEF ResetWrite
<1>2. /\ balance' = [balance EXCEPT ![w].alloc[t] = carried, ![w].used[t] = 0]
      /\ ledger' = [ledger EXCEPT ![w][t].RESET = c]
  BY DEF ResetWrite
<1>3. Rests(r)
  BY PolicyReads DEF PolicyContinue, ResetWrite, DeductRead, ResetRead
<1>4. \A x \in Staff, y \in Type :
        /\ balance[x].alloc[y] \in Int /\ balance[x].used[y] \in Nat
        /\ ledger[x][y].ALLOCATION \in Int /\ ledger[x][y].DEDUCTION \in Int
        /\ ledger[x][y].RESET \in Int
  BY <1>0, FieldsType
<1>10. k = FirstOf(req[r].tasks)
  BY DEF NextTask, FirstOf
<1>11. req[r].alloc = balance[w].alloc[t] /\ req[r].used = balance[w].used[t]
  BY <1>10 DEF BalanceInv, HasRead, ResetWrite
<1>. HIDE DEF k, t, w
<1>12. balance[w].used[t] <= balance[w].alloc[t]
  BY <1>1 DEF BalanceInv, Covers
<1>13. remaining = balance[w].alloc[t] - balance[w].used[t] /\ remaining \in Int /\ remaining >= 0
  BY <1>1, <1>4, <1>11, <1>12
<1>14. carried \in Int /\ carried >= 0
  <2>. HIDE DEF remaining
  <2>. QED BY <1>1, <1>13 DEF Carried
<1>15. c = ledger[w][t].RESET - remaining + carried
  <2>. HIDE DEF remaining, carried
  <2>. QED BY <1>1, <1>4, <1>13, <1>14
<1>. HIDE DEF c, carried, remaining
<1>5. \A x \in Staff, y \in Type :
        /\ balance'[x].alloc[y] = IF x = w /\ y = t THEN carried ELSE balance[x].alloc[y]
        /\ balance'[x].used[y] = IF x = w /\ y = t THEN 0 ELSE balance[x].used[y]
  <2>. DEFINE b == [balance EXCEPT ![w].alloc[t] = carried, ![w].used[t] = 0]
  <2>1. \A x \in Staff, y \in Type :
          /\ b[x].alloc[y] = IF x = w /\ y = t THEN carried ELSE balance[x].alloc[y]
          /\ b[x].used[y] = IF x = w /\ y = t THEN 0 ELSE balance[x].used[y]
    BY <1>0, <1>1 DEF Balance
  <2>2. balance' = b
    BY <1>2
  <2>. HIDE DEF b
  <2>. QED BY <2>1, <2>2
<1>6. \A x \in Staff, y \in Type :
        /\ ledger'[x][y].RESET = IF x = w /\ y = t THEN c ELSE ledger[x][y].RESET
        /\ ledger'[x][y].ALLOCATION = ledger[x][y].ALLOCATION
        /\ ledger'[x][y].DEDUCTION = ledger[x][y].DEDUCTION
  BY <1>0, <1>1, <1>2, LedgerWritten
<1>7. Agrees(balance', ledger')
  BY <1>1, <1>4, <1>5, <1>6, <1>13, <1>14, <1>15 DEF BalanceInv, Agrees
<1>8. Covers(balance')
  BY <1>1, <1>4, <1>5, <1>14 DEF BalanceInv, Covers
<1>9. \A q \in Request : HasRead(req'[q], balance')
  BY <1>3, NothingRead DEF Serial, Rests
<1>. QED BY <1>7, <1>8, <1>9 DEF BalanceInv

LEMMA ReadsAgree ==
  ASSUME WorkInv, BalanceInv, NEW r \in Request, DeductRead(r) \/ ResetRead(r)
  PROVE  BalanceInv'
<1>. DEFINE h == req[r]
<1>0. /\ req \in [Request -> Handler] /\ h \in Handler
      /\ HandlerOK(h, session, missed, leave)
      /\ balance \in [Staff -> Balance] /\ ledger \in [Staff -> [Type -> Totals]]
      /\ balance' = balance /\ ledger' = ledger
  BY DEF WorkInv, TypeOK, DeductRead, ResetRead, policyVars
<1>. HIDE DEF h
<1>1. CASE Rests(r)
  BY <1>0, <1>1, BalancesKept DEF Rests
<1>2. ASSUME HasRead(req'[r], balance) PROVE BalanceInv'
  BY <1>0, <1>2 DEF BalanceInv, Serial
<1>3. CASE DeductRead(r)
  <2>1. h.at = "balance" /\ h.staff \in Staff /\ h.type \in Type
    BY <1>0, <1>3 DEF DeductRead, h, HandlerOK, PlaceOK, SubjectOK
  <2>2. balance[h.staff].alloc[h.type] \in Int /\ balance[h.staff].used[h.type] \in Nat
    BY <1>0, <2>1, FieldsType
  <2>3. CASE req'[r] = [h EXCEPT !.at = "pay"]
             /\ balance[h.staff].alloc[h.type] - balance[h.staff].used[h.type] > 0
    <3>1. /\ req'[r].at = "pay" /\ req'[r].staff = h.staff /\ req'[r].type = h.type
      BY <1>0, <2>3 DEF Handler
    <3>. QED BY <1>2, <2>2, <2>3, <3>1 DEF HasRead
  <2>4. CASE /\ req'[r].at \in {"lwp", "create"}
             /\ \A q \in Request : q # r => req'[q] = req[q]
    BY <1>1, <2>4 DEF Rests, Reads
  <2>. QED BY <1>0, <1>3, <2>3, <2>4 DEF DeductRead, EnsureBalanceRow, h, Handler
<1>4. CASE ResetRead(r)
  <2>. DEFINE k == NextTask(r)
              row == balance[h.staff]
  <2>1. h.at = "task"
    BY <1>4 DEF ResetRead, h
  <2>2. CASE Finish(r, k)
    BY <1>1, <2>1, <2>2, FinishReads DEF h
  <2>3. CASE ~Finish(r, k)
    <3>1. req' = [req EXCEPT ![r] = WithAmountsAt(h, "resetWrite", row.alloc[k[2]], row.used[k[2]])]
      BY <1>4, <2>3 DEF ResetRead, h, WithAmountsAt
    <3>2. k = FirstOf(h.tasks)
      BY DEF NextTask, FirstOf, h
    <3>. HIDE DEF k
    <3>3. /\ req'[r].at = "resetWrite" /\ req'[r].staff = h.staff /\ req'[r].tasks = h.tasks
          /\ req'[r].alloc = row.alloc[k[2]] /\ req'[r].used = row.used[k[2]]
      BY <1>0, <3>1 DEF WithAmountsAt, Handler
    <3>. QED BY <1>2, <3>2, <3>3 DEF HasRead
  <2>. QED BY <2>2, <2>3
<1>. QED BY <1>3, <1>4

LEMMA BalanceStep ==
  ASSUME WorkInv, BalanceInv, [Next]_vars, "reset" \notin Workload \/ Serial
  PROVE  BalanceInv'
<1>0. req \in [Request -> Handler]
  BY DEF WorkInv, TypeOK
<1>1. CASE Environment
  <2>1. UNCHANGED <<balance, ledger>>
    BY <1>1 DEF Environment, Midnight, Crash, Throw, Deadline, policyVars
  <2>2. \A r \in Request : req'[r] \in {req[r], Idle}
    BY <1>0, <1>1 DEF Environment, Midnight, Crash, Throw, Reply, Deadline
  <2>3. ~Reads(Idle)
    BY DEF Reads, Idle
  <2>. QED BY <2>1, <2>2, <2>3, BalancesKept
<1>2. ASSUME NEW r \in Request, Call(r) \/ (Sweep(r) /\ UNCHANGED leave) PROVE BalanceInv'
  <2>1. UNCHANGED <<balance, ledger>>
    BY <1>2, CallsChangeNoRow
  <2>2. PICK g : Starts(r, g)
    BY <1>2, StartsJob, StartsAttendance, StartsLeave DEF Call
  <2>3. ~Reads(g)
    BY <2>2 DEF Starts, Becomes, HandlerOK, SubjectOK, Fresh, Reads
  <2>4. \A q \in Request : req'[q] = req[q] \/ ~Reads(req'[q])
    BY <1>0, <2>2, <2>3 DEF Starts, Becomes
  <2>. QED BY <2>1, <2>4, BalancesKept
<1>3. ASSUME NEW r \in Request, PolicyContinue(r) PROVE BalanceInv'
  <2>1. CASE Credit(r)
    BY <2>1, CreditAgrees
  <2>2. CASE Pay(r)
    BY <2>2, PayAgrees
  <2>3. CASE ResetWrite(r)
    <3>1. req[r].op = "reset" /\ req[r].op \in Workload \union {"idle"}
      BY <2>3 DEF ResetWrite, WorkInv, HandlerOK, PlaceOK, SubjectOK
    <3>. QED BY <2>3, <3>1, ResetAgrees
  <2>4. CASE DeductRead(r) \/ ResetRead(r)
    BY <2>4, ReadsAgree
  <2>5. CASE CreateBalance(r) \/ LwpWrite(r)
    <3>1. CASE DeductRead(r) \/ ResetRead(r)
      BY <3>1, ReadsAgree
    <3>2. CASE ~(DeductRead(r) \/ ResetRead(r))
      <4>1. Rests(r)
        BY <1>3, <3>2, PolicyReads
      <4>2. ledger' = ledger /\ balance \in [Staff -> Balance]
        BY <2>5 DEF CreateBalance, LwpWrite, WorkInv, TypeOK
      <4>3. \E w, b : balance' \in {balance, [balance EXCEPT ![w].row = b], [balance EXCEPT ![w].lwp = b]}
        BY <2>5 DEF CreateBalance, LwpWrite
      <4>4. \A x \in Staff : balance'[x].alloc = balance[x].alloc /\ balance'[x].used = balance[x].used
        BY <4>2, <4>3 DEF Balance
      <4>. QED BY <4>1, <4>2, <4>4, AmountsKept
    <3>. QED BY <3>1, <3>2
  <2>6. CASE LwpRead(r) \/ NextEmployee(r) \/ EnsureEmployee(r) \/ JobDone(r)
    <3>1. UNCHANGED <<balance, ledger>>
      BY <2>6 DEF LwpRead, NextEmployee, EnsureEmployee, JobDone, policyVars
    <3>2. CASE DeductRead(r) \/ ResetRead(r)
      BY <3>2, ReadsAgree
    <3>3. CASE ~(DeductRead(r) \/ ResetRead(r))
      BY <1>3, <3>1, <3>3, PolicyReads, BalancesKept DEF Rests
    <3>. QED BY <3>2, <3>3
  <2>. QED BY <1>3, <2>1, <2>2, <2>3, <2>4, <2>5, <2>6 DEF PolicyContinue
<1>4. ASSUME NEW r \in Request, AttendanceContinue(r) PROVE BalanceInv'
  <2>1. UNCHANGED <<balance, ledger>>
    BY <1>4 DEF AttendanceContinue, InsertSession, FindToday, Flag, FindOpen, CheckOutWrite,
                CorrectWrite, NextRow, Mark, EscalateMissed, SettleMissed, policyVars
  <2>. QED BY <1>4, <2>1, AttendanceReads, BalancesKept DEF Rests
<1>5. ASSUME NEW r \in Request, LeaveContinue(r) PROVE BalanceInv'
  <2>1. UNCHANGED <<balance, ledger>> /\ Reply(r)
    BY <1>5 DEF LeaveContinue, InsertLeave, CancelLeaveWrite, EscalateLeave, SettleLeave, policyVars
  <2>. QED BY <2>1, IdleReads, BalancesKept DEF Rests
<1>6. CASE UNCHANGED vars
  BY <1>6, BalancesKept DEF vars
<1>. QED BY <1>1, <1>2, <1>3, <1>4, <1>5, <1>6 DEF Next, Continue

\* What remains of each type is what was credited, less what was taken, plus what the
\* resets changed, however handlers overlap; with resets, when they do not.
THEOREM BalancesFollowLedger ==
  ASSUME "reset" \notin Workload \/ Serial
  PROVE  Spec => []LedgerAgrees
<1>1. BalanceInv => LedgerAgrees
  BY DEF BalanceInv, Agrees, LedgerAgrees
<1>2. WorkInv /\ BalanceInv /\ [Next]_vars => BalanceInv'
  BY BalanceStep
<1>. QED BY WorkAlways, BalanceInit, <1>1, <1>2, PTL DEF Spec

\* Leave beyond the balance is leave without pay, when requests do not overlap.
THEOREM NoBalanceOverdrawn ==
  ASSUME Serial
  PROVE  Spec => []NeverOverdrawn
<1>1. BalanceInv => NeverOverdrawn
  BY DEF BalanceInv, Covers, NeverOverdrawn
<1>2. WorkInv /\ BalanceInv /\ [Next]_vars => BalanceInv'
  BY BalanceStep
<1>. QED BY WorkAlways, BalanceInit, <1>1, <1>2, PTL DEF Spec

-----------------------------------------------------------------------------
(* Requests are approved as TwoLevelApproval says *)

\* An approval that goes to the administrator requires one.
ApprovalOK(a) ==
  /\ a.status = "NONE" => a = NoApproval
  /\ a.level = "ADMIN" => a.required

Deciding == {"cancel", "decideLeave", "decideMissed"}

\* The request waits for the decision that handler h is about to write.
WaitsFor(h, a) ==
  /\ PendingAt(a, h.level)
  /\ h.at = "escalate" => h.level = "MANAGER" /\ a.required

AboutToDecide(h, m, l) ==
  /\ h.op = "cancel" => l[h.id].approval.status = "PENDING"
  /\ h.op = "decideLeave" => WaitsFor(h, l[h.id].approval)
  /\ h.op = "decideMissed" /\ h.at \in {"settle", "escalate"} => WaitsFor(h, m[h.id].approval)

StageInv ==
  /\ \A l \in Leave : ApprovalOK(leave[l].approval)
  /\ \A s \in Session : ApprovalOK(missed[s].approval)
  /\ \A r \in Request : AboutToDecide(req[r], missed, leave)

LEMMA StageInit == Init => StageInv
<1>. SUFFICES ASSUME Init PROVE StageInv
  OBVIOUS
<1>. USE DEF Init, PolicyInit, AttendanceInit, LeaveInit
<1>1. ApprovalOK(NoApproval) /\ NoLeave.approval = NoApproval
  BY DEF ApprovalOK, NoApproval, NoLeave
<1>2. Idle.op = "idle"
  BY DEF Idle
<1>. QED BY <1>1, <1>2 DEF StageInv, AboutToDecide

\* A handler stays with its operation and what it was asked to write, a handler that
\* decides at its request.
Stays(g, h) ==
  \/ g = Idle
  \/ /\ g.op = h.op /\ g.status = h.status
     /\ g.at \notin {"settle", "escalate", "insert", "correct"}
     /\ h.op \in Deciding => g.id = h.id /\ g.level = h.level

LEMMA StaysDecides ==
  ASSUME NEW m, NEW n, NEW l, NEW g, NEW h, AboutToDecide(h, m, l), Stays(g, h)
  PROVE  AboutToDecide(g, n, l)
<1>1. Idle.op = "idle"
  BY DEF Idle
<1>. QED BY <1>1 DEF Stays, AboutToDecide, WaitsFor, Deciding

LEMMA TasksStay ==
  ASSUME NEW h \in Handler, NEW tasks, NEW back \in {"done", "ensure", "next", "balance", "lwp"}
  PROVE  Stays(WithTasks(h, tasks, back), h)
<1>1. CASE tasks # {}
  BY <1>1 DEF WithTasks, Stays, Handler
<1>2. CASE tasks = {} /\ back = "done"
  BY <1>2 DEF WithTasks, GoOn, Stays
<1>3. CASE tasks = {} /\ back # "done"
  BY <1>3 DEF WithTasks, GoOn, Stays, Handler
<1>. QED BY <1>1, <1>2, <1>3

LEMMA EnsureStays ==
  ASSUME NEW r \in Request, NEW g, EnsureBalanceRow(r, g), Stays(g, req[r]),
         req \in [Request -> Handler]
  PROVE  Stays(req'[r], req[r])
<1>1. Stays([req[r] EXCEPT !.at = "create", !.back = req[r].at], req[r])
  BY DEF Stays, Handler
<1>. QED BY <1>1 DEF EnsureBalanceRow

LEMMA FinishStays ==
  ASSUME WorkInv, NEW r \in Request, NEW k, Finish(r, k), req[r].at \in {"task", "resetWrite"}
  PROVE  Stays(req'[r], req[r])
<1>. DEFINE h == req[r]
            f == WithAmounts(h, 0, 0)
            tasks == h.tasks \ {k}
<1>0. /\ req \in [Request -> Handler] /\ h \in Handler
      /\ HandlerOK(h, session, missed, leave)
  BY DEF WorkInv, TypeOK
<1>1. req' = [req EXCEPT ![r] = WithTasks(f, tasks, h.back)]
  BY DEF Finish, WithAmounts
<1>2. h.back \in {"done", "ensure", "next", "balance", "lwp"}
  BY <1>0 DEF HandlerOK, PlaceOK
<1>3. f \in Handler /\ Same(f, h)
  BY <1>0, SetAmounts
<1>. HIDE DEF f, tasks, h
<1>4. Stays(WithTasks(f, tasks, h.back), f)
  BY <1>2, <1>3, TasksStay
<1>5. Stays(WithTasks(f, tasks, h.back), h)
  BY <1>3, <1>4 DEF Stays, Same
<1>6. req'[r] = WithTasks(f, tasks, h.back)
  BY <1>0, <1>1
<1>. QED BY <1>5, <1>6 DEF h

LEMMA PolicyStays ==
  ASSUME WorkInv, NEW r \in Request, PolicyContinue(r)
  PROVE  Stays(req'[r], req[r])
<1>. DEFINE h == req[r]
<1>0. /\ req \in [Request -> Handler] /\ h \in Handler
      /\ HandlerOK(h, session, missed, leave)
  BY DEF WorkInv, TypeOK
<1>. HIDE DEF h
<1>1. CASE Reply(r)
  BY <1>0, <1>1 DEF Reply, Stays
<1>2. ASSUME CreateBalance(r), ~Reply(r) PROVE Stays(req'[r], h)
  <2>. DEFINE tasks == {"grant"} \X Granted
  <2>1. h.at = "create" /\ req' = [req EXCEPT ![r] = WithTasks(h, tasks, h.back)]
    BY <1>2 DEF CreateBalance, h
  <2>2. h.back \in {"done", "ensure", "next", "balance", "lwp"}
    BY <1>0, <2>1 DEF HandlerOK, PlaceOK
  <2>. HIDE DEF tasks
  <2>. QED BY <1>0, <2>1, <2>2, TasksStay
<1>3. ASSUME Credit(r) \/ ResetWrite(r) PROVE Stays(req'[r], h)
  BY <1>3, FinishStays DEF Credit, ResetWrite, h
<1>4. ASSUME ResetRead(r) PROVE Stays(req'[r], h)
  <2>1. CASE Finish(r, NextTask(r))
    BY <1>4, <2>1, FinishStays DEF ResetRead, h
  <2>2. CASE ~Finish(r, NextTask(r))
    <3>. DEFINE n == balance[h.staff].alloc[NextTask(r)[2]]
                m == balance[h.staff].used[NextTask(r)[2]]
    <3>1. req' = [req EXCEPT ![r] = WithAmountsAt(h, "resetWrite", n, m)]
      BY <1>4, <2>2 DEF ResetRead, h, WithAmountsAt
    <3>. HIDE DEF n, m
    <3>. QED BY <1>0, <3>1 DEF WithAmountsAt, Stays, Handler
  <2>. QED BY <2>1, <2>2
<1>5. ASSUME DeductRead(r) PROVE Stays(req'[r], h)
  <2>1. Stays([h EXCEPT !.at = "pay"], h) /\ Stays([h EXCEPT !.at = "lwp", !.days = 1], h)
    BY <1>0 DEF Stays, Handler
  <2>2. EnsureBalanceRow(r, [h EXCEPT !.at = "pay"])
          \/ EnsureBalanceRow(r, [h EXCEPT !.at = "lwp", !.days = 1])
    BY <1>5 DEF DeductRead, h
  <2>. QED BY <1>0, <2>1, <2>2, EnsureStays DEF h
<1>6. ASSUME Pay(r) PROVE Stays(req'[r], h)
  <2>1. h.next = "decide"
    BY <1>0, <1>6 DEF Pay, h, HandlerOK, PlaceOK, SubjectOK, NextOf
  <2>2. req' = [req EXCEPT ![r] = [h EXCEPT !.at = "decide"]]
    BY <1>6, <2>1 DEF Pay, Await, GoOn, h
  <2>. QED BY <1>0, <2>2 DEF Stays, Handler
<1>7. ASSUME LwpRead(r) PROVE Stays(req'[r], h)
  <2>1. PICK n : EnsureBalanceRow(r, [h EXCEPT !.at = "lwpWrite", !.lwp = n])
    BY <1>7 DEF LwpRead, h
  <2>2. Stays([h EXCEPT !.at = "lwpWrite", !.lwp = n], h)
    BY <1>0 DEF Stays, Handler
  <2>. QED BY <1>0, <2>1, <2>2, EnsureStays DEF h
<1>8. ASSUME LwpWrite(r) PROVE Stays(req'[r], h)
  <2>. DEFINE f == WithCharged(h, 0, 0)
  <2>1. h.next \in {"done", "find", "rows", "decide"}
    BY <1>0 DEF HandlerOK, SubjectOK, NextOf
  <2>2. f \in Handler /\ Same(f, h)
    BY <1>0, SetCharged
  <2>3. req' = [req EXCEPT ![r] = GoOn(f, h.next)]
    BY <1>8 DEF LwpWrite, WithCharged, h
  <2>. HIDE DEF f
  <2>4. Stays(GoOn(f, h.next), h)
    BY <2>1, <2>2 DEF GoOn, Stays, Same, Handler
  <2>. QED BY <1>0, <2>3, <2>4
<1>9. ASSUME NextEmployee(r) PROVE Stays(req'[r], h)
  <2>1. PICK w : req' = [req EXCEPT ![r] = WithEmployee(h, w)]
    BY <1>9 DEF NextEmployee, h, WithEmployee
  <2>. QED BY <1>0, <2>1 DEF WithEmployee, Stays, Handler
<1>10. ASSUME EnsureEmployee(r) PROVE Stays(req'[r], h)
  <2>. DEFINE tasks == JobTasks(h.op)
  <2>1. EnsureBalanceRow(r, WithTasks(h, tasks, "next"))
    BY <1>10 DEF EnsureEmployee, h
  <2>. HIDE DEF tasks
  <2>2. Stays(WithTasks(h, tasks, "next"), h)
    BY <1>0, TasksStay
  <2>. QED BY <1>0, <2>1, <2>2, EnsureStays DEF h
<1>. QED BY <1>1, <1>2, <1>3, <1>4, <1>5, <1>6, <1>7, <1>8, <1>9, <1>10 DEF PolicyContinue, JobDone, h

\* A handler of attendance that decides is done, or owes a day.
LEMMA AttendanceStays ==
  ASSUME WorkInv, NEW r \in Request, AttendanceContinue(r)
  PROVE  Stays(req'[r], req[r])
<1>. DEFINE h == req[r]
<1>0. /\ req \in [Request -> Handler] /\ h \in Handler
      /\ HandlerOK(h, session, missed, leave)
  BY DEF WorkInv, TypeOK
<1>. HIDE DEF h
<1>1. CASE Reply(r)
  BY <1>0, <1>1 DEF Reply, Stays
<1>2. ASSUME h.op \notin Deciding, req'[r].op = h.op, req'[r].status = h.status,
             req'[r].at \notin {"settle", "escalate", "insert", "correct"}
      PROVE  Stays(req'[r], h)
  BY <1>2 DEF Stays
<1>3. ASSUME InsertSession(r) PROVE Stays(req'[r], h)
  <2>1. req'[r].op = h.op /\ req'[r].status = h.status /\ req'[r].at = "today" /\ h.op = "checkIn"
    BY <1>0, <1>3 DEF InsertSession, Await, GoOn, h, Handler, HandlerOK, PlaceOK
  <2>. QED BY <1>2, <2>1 DEF Deciding
<1>4. ASSUME FindToday(r), ~Reply(r) PROVE Stays(req'[r], h)
  <2>1. req'[r].op = h.op /\ req'[r].status = h.status /\ req'[r].at = "flag"
    BY <1>0, <1>4 DEF FindToday, Handler, h
  <2>2. h.op \in {"checkIn", "today"}
    BY <1>0, <1>4 DEF FindToday, h, HandlerOK, PlaceOK
  <2>. QED BY <1>2, <2>1, <2>2 DEF Deciding
<1>5. ASSUME Flag(r), ~Reply(r) PROVE Stays(req'[r], h)
  <2>1. h.at = "flag" /\ h.op \in {"checkIn", "today", "checkOut"}
    BY <1>0, <1>5 DEF Flag, h, HandlerOK, PlaceOK
  <2>2. PICK at \in {"mark", h.next} : req' = [req EXCEPT ![r] = GoOn(h, at)]
    BY <1>5 DEF Flag, Await, h
  <2>3. h.next \in {"done", "find"}
    BY <1>0, <2>1 DEF HandlerOK, SubjectOK, NextOf
  <2>4. req'[r] = Idle \/ (req'[r].op = h.op /\ req'[r].status = h.status /\ req'[r].at \in {"mark", "find"})
    BY <1>0, <2>2, <2>3 DEF GoOn, Handler
  <2>. QED BY <1>2, <2>1, <2>4 DEF Deciding, Stays
<1>6. ASSUME FindOpen(r), ~Reply(r) PROVE Stays(req'[r], h)
  <2>1. /\ req'[r].op = h.op /\ req'[r].status = h.status /\ req'[r].at = "checkOut"
        /\ h.op = "checkOut"
    BY <1>0, <1>6 DEF FindOpen, Handler, h, HandlerOK, PlaceOK
  <2>. QED BY <1>2, <2>1 DEF Deciding
<1>7. ASSUME NextRow(r), ~Reply(r) PROVE Stays(req'[r], h)
  <2>0. PICK at \in {"mark", "rows"} : \E id, u, todo :
          req' = [req EXCEPT ![r].todo = todo, ![r].at = at, ![r].id = id, ![r].staff = u]
    BY <1>7 DEF NextRow
  <2>1. req'[r].op = h.op /\ req'[r].status = h.status /\ req'[r].at \in {"mark", "rows"}
    BY <1>0, <2>0 DEF Handler, h
  <2>2. h.op = "sweep"
    BY <1>0, <1>7 DEF NextRow, h, HandlerOK, PlaceOK
  <2>. QED BY <1>2, <2>1, <2>2 DEF Deciding
<1>8. ASSUME Mark(r), ~Reply(r) PROVE Stays(req'[r], h)
  <2>1. req'[r].op = h.op /\ req'[r].status = h.status /\ req'[r].at = "lwp"
    BY <1>0, <1>8 DEF Mark, Handler, h
  <2>2. h.op \in {"checkIn", "today", "checkOut", "sweep"}
    BY <1>0, <1>8 DEF Mark, h, HandlerOK, PlaceOK
  <2>. QED BY <1>2, <2>1, <2>2 DEF Deciding
<1>9. ASSUME SettleMissed(r), ~Reply(r) PROVE Stays(req'[r], h)
  <2>1. req' = [req EXCEPT ![r] = WithDays(h, "lwp", -1)]
    BY <1>9 DEF SettleMissed, WithDays, h
  <2>. QED BY <1>0, <2>1 DEF WithDays, Stays, Handler
<1>. QED BY <1>1, <1>3, <1>4, <1>5, <1>6, <1>7, <1>8, <1>9
     DEF AttendanceContinue, CheckOutWrite, CorrectWrite, EscalateMissed, h

Open(s) == session[s].status = "CHECKED_IN"

\* What a handler of attendance is about to write leaves a day with one session.
AboutToOpen(h) ==
  /\ h.at = "insert" => \A s \in Session : ~(Open(s) /\ session[s].staff = h.staff
                                                     /\ session[s].day = today)
  /\ h.at = "correct" /\ h.status = "CHECKED_IN" => h.id \in Session /\ Open(h.id)
  /\ h.op = "decideMissed" => h.status # "CHECKED_IN"

Due(h) == AboutToDecide(h, missed, leave) /\ AboutToOpen(h)

\* Who asks for a decision has seen that it is due, and who checks in that no session is open.
LEMMA CallDecides ==
  ASSUME WorkInv, NEW r \in Request, Call(r) \/ (Sweep(r) /\ UNCHANGED leave)
  PROVE  /\ Due(req'[r])
         /\ \A q \in Request : q # r => req'[q] = req[q]
<1>0. /\ req \in [Request -> Handler] /\ TablesOK
      /\ session \in [Session -> SessionRow] /\ missed \in [Session -> MissedRow]
      /\ leave \in [Leave -> LeaveRow]
  BY DEF WorkInv, TypeOK
<1>1. PlaceOK(req'[r]) /\ \A q \in Request : q # r => req'[q] = req[q]
  <2>1. PICK g : Starts(r, g)
    BY StartsJob, StartsAttendance, StartsLeave DEF Call
  <2>. QED BY <1>0, <2>1 DEF Starts, Becomes, HandlerOK
<1>2. ASSUME NEW h, Begin(r, h), Due(h)
      PROVE  Due(req'[r])
  BY <1>0, <1>2 DEF Begin
<1>3. ASSUME NEW h, Begin(r, h), h.op \notin Deciding \union {"checkIn", "correct"}
      PROVE  Due(req'[r])
  <2>1. PlaceOK(h)
    BY <1>0, <1>1, <1>3 DEF Begin
  <2>2. Due(h)
    BY <1>3, <2>1 DEF Due, AboutToDecide, AboutToOpen, Deciding, PlaceOK
  <2>. QED BY <1>2, <1>3, <2>2
<1>4. ASSUME NEW h, h.at \notin {"insert", "correct"}, h.op # "decideMissed" PROVE AboutToOpen(h)
  BY <1>4 DEF AboutToOpen
<1>5. ASSUME NEW w, ViewBalance(r, w)
      PROVE  Due(req'[r])
  <2>. DEFINE h == [Handle("view", "create") EXCEPT !.staff = w]
  <2>1. Begin(r, h)
    BY <1>5 DEF ViewBalance
  <2>2. h.op = "view"
    BY DEF Handle, Idle
  <2>. HIDE DEF h
  <2>. QED BY <2>1, <2>2, <1>3 DEF Deciding
<1>6. ASSUME MonthlyAllocation(r)
      PROVE  Due(req'[r])
  <2>. DEFINE h == [Handle("allocate", "next") EXCEPT !.todo = Staff, !.date = Month]
  <2>1. Begin(r, h)
    BY <1>6 DEF MonthlyAllocation
  <2>2. h.op = "allocate"
    BY DEF Handle, Idle
  <2>. HIDE DEF h
  <2>. QED BY <2>1, <2>2, <1>3 DEF Deciding
<1>7. ASSUME FinancialYearReset(r)
      PROVE  Due(req'[r])
  <2>. DEFINE h == [Handle("reset", "next") EXCEPT !.todo = {w \in Staff : balance[w].row}, !.date = Month]
  <2>1. Begin(r, h)
    BY <1>7 DEF FinancialYearReset
  <2>2. h.op = "reset"
    BY DEF Handle, Idle
  <2>. HIDE DEF h
  <2>. QED BY <2>1, <2>2, <1>3 DEF Deciding
<1>8. ASSUME BackfillSick(r)
      PROVE  Due(req'[r])
  <2>. DEFINE h == [Handle("backfill", "next") EXCEPT !.todo = {w \in Staff : balance[w].row /\ balance[w].alloc["SICK"] = 0}]
  <2>1. Begin(r, h)
    BY <1>8 DEF BackfillSick
  <2>2. h.op = "backfill"
    BY DEF Handle, Idle
  <2>. HIDE DEF h
  <2>. QED BY <2>1, <2>2, <1>3 DEF Deciding
<1>9. ASSUME NEW w, CheckIn(r, w)
      PROVE  Due(req'[r])
  <2>. DEFINE h == [Handle("checkIn", "insert") EXCEPT !.staff = w]
  <2>1. Begin(r, h) /\ OpenOn(w, today) = {}
    BY <1>9 DEF CheckIn
  <2>2. h.op = "checkIn" /\ h.at = "insert" /\ h.staff = w
    BY DEF Handle, Idle
  <2>. HIDE DEF h
  <2>3. Due(h)
    BY <2>1, <2>2 DEF Due, AboutToDecide, AboutToOpen, Deciding, OpenOn, Open
  <2>. QED BY <1>2, <2>1, <2>3
<1>10. ASSUME NEW w, GetTodayAttendance(r, w)
      PROVE  Due(req'[r])
  <2>. DEFINE h == [Handle("today", "today") EXCEPT !.staff = w]
  <2>1. Begin(r, h)
    BY <1>10 DEF GetTodayAttendance
  <2>2. h.op = "today"
    BY DEF Handle, Idle
  <2>. HIDE DEF h
  <2>. QED BY <2>1, <2>2, <1>3 DEF Deciding
<1>11. ASSUME NEW w, NEW s, Begin(r, OfCheckOut(w, s))
      PROVE  Due(req'[r])
  <2>. DEFINE h == OfCheckOut(w, s)
  <2>1. Begin(r, h)
    BY <1>11 DEF OfCheckOut
  <2>2. h.op = "checkOut"
    BY DEF OfCheckOut, Handle, Idle
  <2>. HIDE DEF h
  <2>. QED BY <2>1, <2>2, <1>3 DEF Deciding
<1>12. ASSUME NEW w, CheckOut(r, w) PROVE Due(req'[r])
  BY <1>12, <1>11 DEF CheckOut, OfCheckOut
<1>13. ASSUME NEW s \in Session, NEW out \in BOOLEAN, Correct(r, s, out)
      PROVE  Due(req'[r])
  <2>. DEFINE status == IF out THEN "CHECKED_OUT" ELSE session[s].status
              h == OfCorrect(s, status)
  <2>1. Begin(r, h)
    BY <1>13 DEF Correct, OfCorrect
  <2>2. status = "CHECKED_IN" => Open(s)
    BY DEF Open
  <2>. HIDE DEF status
  <2>3. h.op = "correct" /\ h.at = "correct" /\ h.id = s /\ h.status = status
    BY DEF OfCorrect, Handle, Idle
  <2>. HIDE DEF h
  <2>4. Due(h)
    BY <2>2, <2>3 DEF Due, AboutToDecide, AboutToOpen, Deciding
  <2>. QED BY <1>2, <2>1, <2>4
<1>14. ASSUME Sweep(r)
      PROVE  Due(req'[r])
  <2>. DEFINE h == [Handle("sweep", "rows") EXCEPT !.todo = {s \in Session : session[s].status = "CHECKED_IN"}, !.next = "rows"]
  <2>1. Begin(r, h)
    BY <1>14 DEF Sweep
  <2>2. h.op = "sweep"
    BY DEF Handle, Idle
  <2>. HIDE DEF h
  <2>. QED BY <2>1, <2>2, <1>3 DEF Deciding
<1>15. ASSUME NEW w, NEW d, NEW t, ApplyLeave(r, w, d, t)
      PROVE  Due(req'[r])
  <2>. DEFINE h == [Handle("apply", "apply") EXCEPT !.staff = w, !.date = d, !.type = t]
  <2>1. Begin(r, h)
    BY <1>15 DEF ApplyLeave
  <2>2. h.op = "apply"
    BY DEF Handle, Idle
  <2>. HIDE DEF h
  <2>. QED BY <2>1, <2>2, <1>3 DEF Deciding
<1>16. ASSUME NEW l \in Leave, CancelLeave(r, l) PROVE Due(req'[r])
  <2>. DEFINE h == OfRow("cancel", l)
  <2>1. h.op = "cancel" /\ h.at = "cancel" /\ h.id = l
    BY OfRowType
  <2>2. Begin(r, h) /\ leave[l].approval.status = "PENDING"
    BY <1>16 DEF CancelLeave, OfRow
  <2>. HIDE DEF h
  <2>3. Due(h)
    BY <1>4, <2>1, <2>2 DEF Due, AboutToDecide
  <2>. QED BY <1>2, <2>2, <2>3
<1>17. ASSUME NEW l \in Leave, NEW level \in {"MANAGER", "ADMIN"},
             NEW decision \in {"APPROVED", "REJECTED"}, DecideLeave(r, l, level, decision)
      PROVE  Due(req'[r])
  <2>. DEFINE a == leave[l].approval
              type == leave[l].type
              w == leave[l].staff
              final == IF type \in Type THEN "balance" ELSE "decide"
              at == IF decision = "REJECTED" THEN "decide" ELSE AfterApproval(a, level, final)
              h == OfLeave(at, l, level, decision, w, type)
  <2>0. PendingAt(a, level) /\ w \in Staff /\ type \in Type \union {"EMERGENCY", None}
    BY <1>0, <1>17 DEF DecideLeave, PendingAt, TablesOK, LeaveRow
  <2>1. at \in Place \ {"insert", "correct"} /\ (at = "escalate" => level = "MANAGER" /\ a.required)
    BY DEF AfterApproval, Place
  <2>2. Begin(r, h)
    BY <1>17 DEF DecideLeave, OfLeave
  <2>3. h.op = "decideLeave" /\ h.at = at /\ h.id = l /\ h.level = level
    <3>. HIDE DEF at, w, type
    <3>. QED BY <2>0, <2>1, OfLeaveType
  <2>. HIDE DEF h, at
  <2>4. Due(h)
    BY <1>4, <2>0, <2>1, <2>3 DEF Due, AboutToDecide, WaitsFor
  <2>. QED BY <1>2, <2>2, <2>4
<1>18. ASSUME NEW s \in Session, NEW level \in {"MANAGER", "ADMIN"},
              NEW decision \in {"APPROVED", "REJECTED"}, NEW counts \in BOOLEAN,
              DecideMissed(r, s, level, decision, counts)
       PROVE  Due(req'[r])
  <2>. DEFINE a == missed[s].approval
              f == [Handle("decideMissed", "settle") EXCEPT
                      !.id = s, !.level = level, !.decision = decision, !.staff = session[s].staff,
                      !.status = IF counts THEN "PRESENT" ELSE "ABSENT"]
              h == IF decision = "APPROVED" THEN [f EXCEPT !.at = AfterApproval(a, level, "settle")] ELSE f
  <2>0. PendingAt(a, level) /\ Begin(r, h)
    BY <1>18 DEF DecideMissed
  <2>1. /\ f.op = "decideMissed" /\ f.id = s /\ f.level = level /\ f.at = "settle"
        /\ f.status # "CHECKED_IN"
    BY DEF Handle, Idle
  <2>2. [f EXCEPT !.at = AfterApproval(a, level, "settle")].at = AfterApproval(a, level, "settle")
    BY DEF Handle, Idle
  <2>. HIDE DEF f
  <2>3. h.op = "decideMissed" /\ h.id = s /\ h.level = level
        /\ (h.at = "escalate" => level = "MANAGER" /\ a.required)
        /\ h.at \notin {"insert", "correct"} /\ h.status # "CHECKED_IN"
    BY <2>1, <2>2 DEF AfterApproval
  <2>. HIDE DEF h, a
  <2>4. Due(h)
    BY <2>0, <2>3 DEF Due, AboutToDecide, AboutToOpen, WaitsFor, a
  <2>. QED BY <1>2, <2>0, <2>4
<1>. QED BY <1>1, <1>5, <1>6, <1>7, <1>8, <1>9, <1>10, <1>11, <1>12, <1>13, <1>14, <1>15, <1>16, <1>17, <1>18
     DEF Call, PolicyCall, AttendanceCall, LeaveCall

\* How an approval advances in one query.
Advances(a, b) ==
  \/ a = NoApproval /\ \E w : \E required \in BOOLEAN : b = NewApproval(w, required)
  \/ PendingAt(a, "MANAGER") /\ a.required /\ b = Escalated(a)
  \/ /\ a.status = "PENDING"
     /\ \E level \in {"MANAGER", "ADMIN"}, decision \in {"APPROVED", "REJECTED"} :
          /\ decision = "APPROVED" => (a.required => a.level = "ADMIN")
          /\ b = Decided(a, level, decision)
  \/ a.status = "PENDING" /\ b = [a EXCEPT !.status = "CANCELLED"]

LEMMA AdvanceOK ==
  ASSUME NEW a \in Approval, NEW b, ApprovalOK(a), Advances(a, b)
  PROVE  ApprovalOK(b)
<1>1. CASE a = NoApproval /\ \E w : \E required \in BOOLEAN : b = NewApproval(w, required)
  BY <1>1 DEF NewApproval, NoApproval, ApprovalOK
<1>2. CASE PendingAt(a, "MANAGER") /\ a.required /\ b = Escalated(a)
  BY <1>2 DEF Approval, PendingAt, Escalated, ApprovalOK
<1>3. ASSUME a.status = "PENDING", NEW level \in {"MANAGER", "ADMIN"},
             NEW decision \in {"APPROVED", "REJECTED"}, b = Decided(a, level, decision)
      PROVE  ApprovalOK(b)
  <2>1. b.status = decision /\ b.level = a.level /\ b.required = a.required
    BY <1>3 DEF Decided, Approval
  <2>. QED BY <2>1 DEF ApprovalOK
<1>4. CASE a.status = "PENDING" /\ b = [a EXCEPT !.status = "CANCELLED"]
  BY <1>4 DEF Approval, ApprovalOK
<1>. QED BY <1>1, <1>2, <1>3, <1>4 DEF Advances

\* A step of TwoLevelApproval of one request.
Moves(u, v) ==
  \/ /\ u = [status |-> "NONE", level |-> "MANAGER", required |-> FALSE]
     /\ \E level \in {"MANAGER", "ADMIN"}, required \in BOOLEAN :
          /\ level = "ADMIN" => required
          /\ v = [status |-> "PENDING", level |-> level, required |-> required]
  \/ u.status = "PENDING" /\ u.level = "MANAGER" /\ u.required /\ v = [u EXCEPT !.level = "ADMIN"]
  \/ u.status = "PENDING" /\ (u.required => u.level = "ADMIN") /\ v = [u EXCEPT !.status = "APPROVED"]
  \/ u.status = "PENDING" /\ \E status \in {"REJECTED", "CANCELLED"} : v = [u EXCEPT !.status = status]

LEMMA AdvanceMoves ==
  ASSUME NEW a \in Approval, NEW b, Advances(a, b)
  PROVE  Moves(View(a), View(b))
<1>0. /\ View(a).status = a.status /\ View(a).level = a.level /\ View(a).required = a.required
      /\ \A x : /\ [View(a) EXCEPT !.level = x] = [status |-> a.status, level |-> x, required |-> a.required]
                /\ [View(a) EXCEPT !.status = x] = [status |-> x, level |-> a.level, required |-> a.required]
  BY DEF View
<1>1. ASSUME a = NoApproval, NEW w, NEW required \in BOOLEAN, b = NewApproval(w, required)
      PROVE  Moves(View(a), View(b))
  <2>. DEFINE level == IF w \in Manager THEN "ADMIN" ELSE "MANAGER"
              must == w \in Manager \/ required
  <2>1. b.status = "PENDING" /\ b.level = level /\ b.required = must
    BY <1>1 DEF NewApproval, NoApproval
  <2>2. level \in {"MANAGER", "ADMIN"} /\ must \in BOOLEAN /\ (level = "ADMIN" => must)
    OBVIOUS
  <2>3. View(b) = [status |-> "PENDING", level |-> level, required |-> must]
    BY <2>1 DEF View
  <2>4. View(a) = [status |-> "NONE", level |-> "MANAGER", required |-> FALSE]
    BY <1>1 DEF View, NoApproval
  <2>. HIDE DEF level, must
  <2>. QED BY <2>2, <2>3, <2>4 DEF Moves
<1>2. CASE PendingAt(a, "MANAGER") /\ a.required /\ b = Escalated(a)
  <2>1. View(b) = [View(a) EXCEPT !.level = "ADMIN"]
    <3>1. b.status = a.status /\ b.level = "ADMIN" /\ b.required = a.required
      BY <1>2 DEF Escalated, Approval
    <3>. QED BY <1>0, <3>1 DEF View
  <2>. QED BY <1>0, <1>2, <2>1 DEF Moves, PendingAt
<1>3. ASSUME a.status = "PENDING", NEW level \in {"MANAGER", "ADMIN"},
             NEW decision \in {"APPROVED", "REJECTED"},
             decision = "APPROVED" => (a.required => a.level = "ADMIN"),
             b = Decided(a, level, decision)
      PROVE  Moves(View(a), View(b))
  <2>1. b.status = decision /\ b.level = a.level /\ b.required = a.required
    BY <1>3 DEF Decided, Approval
  <2>2. View(b) = [View(a) EXCEPT !.status = decision]
    BY <1>0, <2>1 DEF View
  <2>. QED BY <1>0, <1>3, <2>2 DEF Moves
<1>4. CASE a.status = "PENDING" /\ b = [a EXCEPT !.status = "CANCELLED"]
  <2>1. b.status = "CANCELLED" /\ b.level = a.level /\ b.required = a.required
    BY <1>4 DEF Approval
  <2>2. View(b) = [View(a) EXCEPT !.status = "CANCELLED"]
    BY <1>0, <2>1 DEF View
  <2>. QED BY <1>0, <1>4, <2>2 DEF Moves
<1>. QED BY <1>1, <1>2, <1>3, <1>4 DEF Advances

\* What a handler writes is a step of the approval it writes to.
LEMMA LeaveDecides ==
  ASSUME WorkInv, StageInv, NEW r \in Request, LeaveContinue(r)
  PROVE  \E l \in Leave : \E b : /\ Advances(leave[l].approval, b) /\ leave'[l].approval = b
                                 /\ \A x \in Leave : x # l => leave'[x] = leave[x]
<1>. DEFINE h == req[r]
            Goal == \E l \in Leave : \E b : /\ Advances(leave[l].approval, b) /\ leave'[l].approval = b
                                            /\ \A x \in Leave : x # l => leave'[x] = leave[x]
<1>0. /\ h \in Handler /\ HandlerOK(h, session, missed, leave) /\ leave \in [Leave -> LeaveRow]
      /\ AboutToDecide(h, missed, leave)
  BY DEF WorkInv, TypeOK, StageInv
<1>. HIDE DEF h
<1>1. ASSUME h.id \in Leave, NEW b, Advances(leave[h.id].approval, b),
             leave' = [leave EXCEPT ![h.id].approval = b]
      PROVE  Goal
  <2>1. leave'[h.id].approval = b /\ \A x \in Leave : x # h.id => leave'[x] = leave[x]
    BY <1>0, <1>1 DEF LeaveRow
  <2>. QED BY <1>1, <2>1
<1>2. CASE InsertLeave(r)
  <2>1. PICK l \in Leave, required \in BOOLEAN :
          /\ leave[l] = NoLeave
          /\ leave' = [leave EXCEPT ![l] = [approval |-> NewApproval(h.staff, required),
                                            staff |-> h.staff, date |-> h.date, type |-> h.type]]
    BY <1>2 DEF InsertLeave, h
  <2>2. /\ leave'[l].approval = NewApproval(h.staff, required)
        /\ \A x \in Leave : x # l => leave'[x] = leave[x]
    BY <1>0, <2>1
  <2>3. Advances(leave[l].approval, NewApproval(h.staff, required))
    BY <2>1 DEF Advances, NoLeave
  <2>. QED BY <2>2, <2>3
<1>3. CASE CancelLeaveWrite(r)
  <2>1. h.op = "cancel" /\ h.id \in Leave /\ leave[h.id].approval.status = "PENDING"
    BY <1>0, <1>3 DEF CancelLeaveWrite, h, HandlerOK, PlaceOK, RowsOK, AboutToDecide
  <2>. DEFINE b == [leave[h.id].approval EXCEPT !.status = "CANCELLED"]
  <2>2. leave' = [leave EXCEPT ![h.id].approval = b]
    BY <1>3 DEF CancelLeaveWrite, h
  <2>3. Advances(leave[h.id].approval, b)
    BY <2>1 DEF Advances
  <2>. HIDE DEF b
  <2>. QED BY <1>1, <2>1, <2>2, <2>3
<1>4. CASE EscalateLeave(r)
  <2>1. h.id \in Leave /\ PendingAt(leave[h.id].approval, "MANAGER") /\ leave[h.id].approval.required
    BY <1>0, <1>4 DEF EscalateLeave, h, HandlerOK, RowsOK, AboutToDecide, WaitsFor
  <2>. DEFINE b == Escalated(leave[h.id].approval)
  <2>2. leave' = [leave EXCEPT ![h.id].approval = b]
    BY <1>4 DEF EscalateLeave, h
  <2>3. Advances(leave[h.id].approval, b)
    BY <2>1 DEF Advances
  <2>. HIDE DEF b
  <2>. QED BY <1>1, <2>1, <2>2, <2>3
<1>5. CASE SettleLeave(r)
  <2>. DEFINE a == leave[h.id].approval
              b == Decided(a, h.level, h.decision)
  <2>1. /\ h.op = "decideLeave" /\ h.at = "decide"
        /\ h.level \in {"MANAGER", "ADMIN"} /\ h.decision \in {"APPROVED", "REJECTED"}
    BY <1>0, <1>5 DEF SettleLeave, h, HandlerOK, PlaceOK, Handler
  <2>2. /\ h.id \in Leave /\ a.status = "PENDING" /\ a.level = h.level
        /\ h.decision = "APPROVED" /\ h.level = "MANAGER" => ~a.required
    BY <1>0, <2>1 DEF HandlerOK, RowsOK, AboutToDecide, WaitsFor, PendingAt
  <2>3. leave' = [leave EXCEPT ![h.id].approval = b]
    BY <1>5 DEF SettleLeave, h
  <2>4. Advances(a, b)
    BY <2>1, <2>2 DEF Advances
  <2>. HIDE DEF b
  <2>. QED BY <1>1, <2>2, <2>3, <2>4
<1>. QED BY <1>2, <1>3, <1>4, <1>5 DEF LeaveContinue

LEMMA AttendanceDecides ==
  ASSUME WorkInv, StageInv, NEW r \in Request, AttendanceContinue(r)
  PROVE  \/ missed' = missed
         \/ \E s \in Session : \E b : /\ Advances(missed[s].approval, b) /\ missed'[s].approval = b
                                      /\ \A x \in Session : x # s => missed'[x] = missed[x]
<1>. DEFINE h == req[r]
            Goal == \E s \in Session : \E b : /\ Advances(missed[s].approval, b) /\ missed'[s].approval = b
                                              /\ \A x \in Session : x # s => missed'[x] = missed[x]
<1>0. /\ h \in Handler /\ HandlerOK(h, session, missed, leave) /\ missed \in [Session -> MissedRow]
      /\ AboutToDecide(h, missed, leave) /\ \A s \in Session : ApprovalOK(missed[s].approval)
  BY DEF WorkInv, TypeOK, StageInv
<1>. HIDE DEF h
<1>1. ASSUME h.id \in Session, NEW b, Advances(missed[h.id].approval, b),
             missed' = [missed EXCEPT ![h.id].approval = b]
      PROVE  Goal
  <2>1. missed'[h.id].approval = b /\ \A x \in Session : x # h.id => missed'[x] = missed[x]
    BY <1>0, <1>1 DEF MissedRow
  <2>. QED BY <1>1, <2>1
<1>2. ASSUME Mark(r), ~(missed' = missed) PROVE Goal
  <2>1. h.id \in Session
    BY <1>0, <1>2 DEF Mark, h, HandlerOK, RowsOK
  <2>2. /\ missed[h.id].approval.status = "NONE"
        /\ \E required \in BOOLEAN :
             missed' = [missed EXCEPT ![h.id].approval = NewApproval(session[h.id].staff, required)]
    BY <1>2 DEF Mark, h, attendanceVars
  <2>3. PICK required \in BOOLEAN :
          missed' = [missed EXCEPT ![h.id].approval = NewApproval(session[h.id].staff, required)]
    BY <2>2
  <2>. DEFINE b == NewApproval(session[h.id].staff, required)
  <2>4. missed[h.id].approval = NoApproval
    BY <1>0, <2>1, <2>2 DEF ApprovalOK
  <2>5. Advances(missed[h.id].approval, b)
    BY <2>4 DEF Advances
  <2>6. missed' = [missed EXCEPT ![h.id].approval = b]
    BY <2>3
  <2>. HIDE DEF b
  <2>. QED BY <1>1, <2>1, <2>5, <2>6
<1>3. CASE EscalateMissed(r)
  <2>1. h.id \in Session /\ PendingAt(missed[h.id].approval, "MANAGER") /\ missed[h.id].approval.required
    BY <1>0, <1>3 DEF EscalateMissed, h, HandlerOK, RowsOK, AboutToDecide, WaitsFor
  <2>. DEFINE b == Escalated(missed[h.id].approval)
  <2>2. missed' = [missed EXCEPT ![h.id].approval = b]
    BY <1>3 DEF EscalateMissed, h
  <2>3. Advances(missed[h.id].approval, b)
    BY <2>1 DEF Advances
  <2>. HIDE DEF b
  <2>. QED BY <1>1, <2>1, <2>2, <2>3
<1>4. CASE SettleMissed(r)
  <2>. DEFINE a == missed[h.id].approval
              b == Decided(a, h.level, h.decision)
  <2>1. /\ h.op = "decideMissed" /\ h.at = "settle"
        /\ h.level \in {"MANAGER", "ADMIN"} /\ h.decision \in {"APPROVED", "REJECTED"}
    BY <1>0, <1>4 DEF SettleMissed, h, HandlerOK, PlaceOK, Handler
  <2>2. /\ h.id \in Session /\ a.status = "PENDING" /\ a.level = h.level
        /\ h.decision = "APPROVED" /\ h.level = "MANAGER" => ~a.required
    BY <1>0, <2>1 DEF HandlerOK, RowsOK, AboutToDecide, WaitsFor, PendingAt
  <2>3. missed' = [missed EXCEPT ![h.id] = [approval |-> b, counts |-> h.status = "PRESENT"]]
    BY <1>4 DEF SettleMissed, h
  <2>4. Advances(a, b)
    BY <2>1, <2>2 DEF Advances
  <2>. HIDE DEF b
  <2>5. missed'[h.id].approval = b /\ \A x \in Session : x # h.id => missed'[x] = missed[x]
    BY <1>0, <2>2, <2>3
  <2>. QED BY <2>2, <2>4, <2>5
<1>. QED BY <1>2, <1>3, <1>4 DEF AttendanceContinue, InsertSession, FindToday, Flag, FindOpen,
           CheckOutWrite, CorrectWrite, NextRow, attendanceVars

LEMMA StageStep ==
  ASSUME WorkInv, StageInv, Serial, [Next]_vars
  PROVE  StageInv'
<1>0. /\ req \in [Request -> Handler] /\ missed \in [Session -> MissedRow]
      /\ leave \in [Leave -> LeaveRow]
  BY DEF WorkInv, TypeOK
<1>1. AboutToDecide(Idle, missed', leave')
  BY DEF Idle, AboutToDecide
<1>2. ASSUME UNCHANGED <<missed, leave>>,
             \A r \in Request : req'[r] = Idle \/ AboutToDecide(req'[r], missed, leave)
      PROVE  StageInv'
  BY <1>1, <1>2 DEF StageInv
<1>3. CASE Environment
  <2>1. UNCHANGED <<missed, leave>>
    BY <1>3 DEF Environment, Deadline, attendanceVars
  <2>2. \A r \in Request : req'[r] \in {req[r], Idle}
    BY <1>0, <1>3 DEF Environment, Midnight, Crash, Throw, Reply, Deadline, policyVars
  <2>. QED BY <1>2, <2>1, <2>2 DEF StageInv
<1>4. ASSUME NEW r \in Request, Call(r) \/ (Sweep(r) /\ UNCHANGED leave) PROVE StageInv'
  <2>1. UNCHANGED <<missed, leave>>
    BY <1>4, CallsChangeNoRow
  <2>. QED BY <1>2, <1>4, <2>1, CallDecides DEF StageInv, Due
<1>5. ASSUME NEW r \in Request, PolicyContinue(r), UNCHANGED <<missed, leave>> PROVE StageInv'
  <2>1. AboutToDecide(req'[r], missed, leave)
    BY <1>5, PolicyStays, StaysDecides DEF StageInv
  <2>. QED BY <1>2, <1>5, <2>1 DEF Serial
<1>6. ASSUME NEW r \in Request, AttendanceContinue(r), UNCHANGED leave PROVE StageInv'
  <2>1. AboutToDecide(req'[r], missed', leave)
    BY <1>6, AttendanceStays, StaysDecides DEF StageInv
  <2>2. \A s \in Session : ApprovalOK(missed'[s].approval)
    <3>1. CASE missed' = missed
      BY <3>1 DEF StageInv
    <3>2. CASE missed' # missed
      <4>1. PICK s, b :
              /\ s \in Session
              /\ Advances(missed[s].approval, b) /\ missed'[s].approval = b
              /\ \A x \in Session : x # s => missed'[x] = missed[x]
        BY <1>6, <3>2, AttendanceDecides
      <4>2. missed[s].approval \in Approval /\ ApprovalOK(missed[s].approval)
        BY <1>0, <4>1 DEF MissedRow, StageInv
      <4>3. ApprovalOK(b)
        BY <4>1, <4>2, AdvanceOK
      <4>. QED BY <4>1, <4>3 DEF StageInv
    <3>. QED BY <3>1, <3>2
  <2>3. \A q \in Request : AboutToDecide(req'[q], missed', leave')
    BY <1>6, <2>1 DEF Serial
  <2>. QED BY <1>6, <2>2, <2>3 DEF StageInv
<1>7. ASSUME NEW r \in Request, LeaveContinue(r) PROVE StageInv'
  <2>1. Reply(r) /\ missed' = missed
    BY <1>7 DEF LeaveContinue, InsertLeave, CancelLeaveWrite, EscalateLeave, SettleLeave, attendanceVars
  <2>2. \A q \in Request : req'[q] = Idle
    BY <1>0, <2>1 DEF Reply, Serial
  <2>3. PICK l, b : /\ l \in Leave /\ Advances(leave[l].approval, b) /\ leave'[l].approval = b
                    /\ \A x \in Leave : x # l => leave'[x] = leave[x]
    BY <1>7, LeaveDecides
  <2>4. leave[l].approval \in Approval /\ ApprovalOK(leave[l].approval)
    BY <1>0, <2>3 DEF LeaveRow, StageInv
  <2>5. ApprovalOK(b)
    BY <2>3, <2>4, AdvanceOK
  <2>. QED BY <1>1, <2>1, <2>2, <2>3, <2>5 DEF StageInv
<1>8. CASE UNCHANGED vars
  BY <1>8, <1>2 DEF vars, StageInv
<1>. QED BY <1>3, <1>4, <1>5, <1>6, <1>7, <1>8 DEF Next, Continue, attendanceVars

LEMMA StageAlways == ASSUME Serial PROVE Spec => []StageInv
<1>1. WorkInv /\ StageInv /\ [Next]_vars => StageInv'
  BY StageStep
<1>. QED BY WorkAlways, StageInit, <1>1, PTL DEF Spec

-----------------------------------------------------------------------------
(* Every step of Workforce is a step of TwoLevelApproval, or none *)

RequestsForLeave == [l \in Leave |-> View(leave[l].approval)]

RequestsAboutMissed == [s \in Session |-> View(missed[s].approval)]

LEMMA FirstViews ==
  ASSUME Init
  PROVE  LeaveApproval!Init /\ MissedApproval!Init
<1>1. View(NoApproval) = [status |-> "NONE", level |-> "MANAGER", required |-> FALSE]
  BY DEF View, NoApproval
<1>2. NoLeave.approval = NoApproval
  BY DEF NoLeave
<1>3. RequestsForLeave = [l \in Leave |-> [status |-> "NONE", level |-> "MANAGER", required |-> FALSE]]
  BY <1>1, <1>2 DEF Init, LeaveInit, RequestsForLeave
<1>4. RequestsAboutMissed = [s \in Session |-> [status |-> "NONE", level |-> "MANAGER", required |-> FALSE]]
  BY <1>1 DEF Init, AttendanceInit, RequestsAboutMissed
<1>. QED BY <1>3, <1>4 DEF RequestsForLeave, RequestsAboutMissed, LeaveApproval!Init, MissedApproval!Init,
         LeaveApproval!NotSubmitted, MissedApproval!NotSubmitted

LEMMA LeaveMoves ==
  ASSUME NEW l \in Leave, Moves(View(leave[l].approval), View(leave'[l].approval)),
         \A x \in Leave : x # l => leave'[x] = leave[x]
  PROVE  LeaveApproval!Next
<1>. DEFINE u == RequestsForLeave
            v == RequestsForLeave'
<1>1. v = [u EXCEPT ![l] = View(leave'[l].approval)] /\ u[l] = View(leave[l].approval)
  BY DEF RequestsForLeave
<1>2. \A f : [u EXCEPT ![l] = f] = [x \in Leave |-> IF x = l THEN f ELSE u[x]]
  BY DEF RequestsForLeave
<1>3. Moves(u[l], v[l])
  BY <1>1, <1>2
<1>4. v = [u EXCEPT ![l] = v[l]]
  BY <1>1, <1>2
<1>. USE DEF Moves
<1>5. CASE u[l] = LeaveApproval!NotSubmitted
           /\ \E level \in {"MANAGER", "ADMIN"}, required \in BOOLEAN :
                /\ level = "ADMIN" => required
                /\ v[l] = [status |-> "PENDING", level |-> level, required |-> required]
  <2>1. LeaveApproval!Submit(l)
    BY <1>4, <1>5 DEF LeaveApproval!Submit, RequestsForLeave
  <2>. QED BY <2>1 DEF LeaveApproval!Next
<1>6. CASE /\ u[l].status = "PENDING" /\ u[l].level = "MANAGER" /\ u[l].required
           /\ v[l] = [u[l] EXCEPT !.level = "ADMIN"]
  <2>1. LeaveApproval!Escalate(l)
    BY <1>4, <1>6 DEF LeaveApproval!Escalate, LeaveApproval!Pending, RequestsForLeave
  <2>. QED BY <2>1 DEF LeaveApproval!Next
<1>7. CASE /\ u[l].status = "PENDING" /\ (u[l].required => u[l].level = "ADMIN")
           /\ v[l] = [u[l] EXCEPT !.status = "APPROVED"]
  <2>1. LeaveApproval!Approve(l)
    BY <1>4, <1>7 DEF LeaveApproval!Approve, LeaveApproval!Pending, RequestsForLeave
  <2>. QED BY <2>1 DEF LeaveApproval!Next
<1>8. CASE /\ u[l].status = "PENDING"
           /\ \E status \in {"REJECTED", "CANCELLED"} : v[l] = [u[l] EXCEPT !.status = status]
  <2>1. LeaveApproval!Dismiss(l)
    BY <1>4, <1>8 DEF LeaveApproval!Dismiss, LeaveApproval!Pending, RequestsForLeave
  <2>. QED BY <2>1 DEF LeaveApproval!Next
<1>9. LeaveApproval!NotSubmitted = [status |-> "NONE", level |-> "MANAGER", required |-> FALSE]
  BY DEF LeaveApproval!NotSubmitted
<1>. QED BY <1>3, <1>5, <1>6, <1>7, <1>8, <1>9

LEMMA MissedMoves ==
  ASSUME NEW s \in Session, Moves(View(missed[s].approval), View(missed'[s].approval)),
         \A x \in Session : x # s => missed'[x] = missed[x]
  PROVE  MissedApproval!Next
<1>. DEFINE u == RequestsAboutMissed
            v == RequestsAboutMissed'
<1>1. v = [u EXCEPT ![s] = View(missed'[s].approval)] /\ u[s] = View(missed[s].approval)
  BY DEF RequestsAboutMissed
<1>2. \A f : [u EXCEPT ![s] = f] = [x \in Session |-> IF x = s THEN f ELSE u[x]]
  BY DEF RequestsAboutMissed
<1>3. Moves(u[s], v[s])
  BY <1>1, <1>2
<1>4. v = [u EXCEPT ![s] = v[s]]
  BY <1>1, <1>2
<1>. USE DEF Moves
<1>5. CASE u[s] = MissedApproval!NotSubmitted
           /\ \E level \in {"MANAGER", "ADMIN"}, required \in BOOLEAN :
                /\ level = "ADMIN" => required
                /\ v[s] = [status |-> "PENDING", level |-> level, required |-> required]
  <2>1. MissedApproval!Submit(s)
    BY <1>4, <1>5 DEF MissedApproval!Submit, RequestsAboutMissed
  <2>. QED BY <2>1 DEF MissedApproval!Next
<1>6. CASE /\ u[s].status = "PENDING" /\ u[s].level = "MANAGER" /\ u[s].required
           /\ v[s] = [u[s] EXCEPT !.level = "ADMIN"]
  <2>1. MissedApproval!Escalate(s)
    BY <1>4, <1>6 DEF MissedApproval!Escalate, MissedApproval!Pending, RequestsAboutMissed
  <2>. QED BY <2>1 DEF MissedApproval!Next
<1>7. CASE /\ u[s].status = "PENDING" /\ (u[s].required => u[s].level = "ADMIN")
           /\ v[s] = [u[s] EXCEPT !.status = "APPROVED"]
  <2>1. MissedApproval!Approve(s)
    BY <1>4, <1>7 DEF MissedApproval!Approve, MissedApproval!Pending, RequestsAboutMissed
  <2>. QED BY <2>1 DEF MissedApproval!Next
<1>8. CASE /\ u[s].status = "PENDING"
           /\ \E status \in {"REJECTED", "CANCELLED"} : v[s] = [u[s] EXCEPT !.status = status]
  <2>1. MissedApproval!Dismiss(s)
    BY <1>4, <1>8 DEF MissedApproval!Dismiss, MissedApproval!Pending, RequestsAboutMissed
  <2>. QED BY <2>1 DEF MissedApproval!Next
<1>9. MissedApproval!NotSubmitted = [status |-> "NONE", level |-> "MANAGER", required |-> FALSE]
  BY DEF MissedApproval!NotSubmitted
<1>. QED BY <1>3, <1>5, <1>6, <1>7, <1>8, <1>9

LEMMA LeaveStep ==
  ASSUME WorkInv, StageInv, [Next]_vars
  PROVE  LeaveApproval!Next \/ leave' = leave
<1>0. leave \in [Leave -> LeaveRow]
  BY DEF WorkInv, TypeOK
<1>1. ASSUME NEW r \in Request, LeaveContinue(r) PROVE LeaveApproval!Next
  <2>1. PICK l, b : /\ l \in Leave /\ Advances(leave[l].approval, b) /\ leave'[l].approval = b
                    /\ \A x \in Leave : x # l => leave'[x] = leave[x]
    BY <1>1, LeaveDecides
  <2>2. Moves(View(leave[l].approval), View(leave'[l].approval))
    BY <1>0, <2>1, AdvanceMoves DEF LeaveRow
  <2>. QED BY <2>1, <2>2, LeaveMoves
<1>2. CASE Environment
  BY <1>2 DEF Environment
<1>3. ASSUME NEW r \in Request, Call(r) \/ (Sweep(r) /\ UNCHANGED leave) PROVE leave' = leave
  BY <1>3, CallsChangeNoRow
<1>. QED BY <1>1, <1>2, <1>3 DEF Next, Continue, vars

LEMMA MissedStep ==
  ASSUME WorkInv, StageInv, [Next]_vars
  PROVE  MissedApproval!Next \/ missed' = missed
<1>0. missed \in [Session -> MissedRow]
  BY DEF WorkInv, TypeOK
<1>1. ASSUME NEW r \in Request, AttendanceContinue(r), missed' # missed PROVE MissedApproval!Next
  <2>1. PICK s, b : /\ s \in Session /\ Advances(missed[s].approval, b) /\ missed'[s].approval = b
                    /\ \A x \in Session : x # s => missed'[x] = missed[x]
    BY <1>1, AttendanceDecides
  <2>2. Moves(View(missed[s].approval), View(missed'[s].approval))
    BY <1>0, <2>1, AdvanceMoves DEF MissedRow
  <2>. QED BY <2>1, <2>2, MissedMoves
<1>2. CASE Environment
  BY <1>2 DEF Environment, Deadline, attendanceVars
<1>3. ASSUME NEW r \in Request, Call(r) \/ (Sweep(r) /\ UNCHANGED leave) PROVE missed' = missed
  BY <1>3, CallsChangeNoRow
<1>4. ASSUME NEW r \in Request, LeaveContinue(r) PROVE missed' = missed
  BY <1>4 DEF LeaveContinue, InsertLeave, CancelLeaveWrite, EscalateLeave, SettleLeave, attendanceVars
<1>. QED BY <1>1, <1>2, <1>3, <1>4 DEF Next, Continue, vars, attendanceVars

\* A leave request is submitted once, passes to the administrator at most once, and is
\* approved at the level that owes it, when requests do not overlap.
THEOREM LeaveIsTwoLevel ==
  ASSUME Serial
  PROVE  Spec => LeaveFollowsApproval
<1>1. Init => LeaveApproval!Init
  BY FirstViews
<1>2. WorkInv /\ StageInv /\ [Next]_vars => [LeaveApproval!Next]_RequestsForLeave
  BY LeaveStep DEF RequestsForLeave
<1>. QED BY <1>1, <1>2, WorkAlways, StageAlways, PTL
         DEF Spec, LeaveFollowsApproval, LeaveApproval!Spec, RequestsForLeave

\* So is the request about a missed check-out.
THEOREM MissedIsTwoLevel ==
  ASSUME Serial
  PROVE  Spec => MissedFollowsApproval
<1>1. Init => MissedApproval!Init
  BY FirstViews
<1>2. WorkInv /\ StageInv /\ [Next]_vars => [MissedApproval!Next]_RequestsAboutMissed
  BY MissedStep DEF RequestsAboutMissed
<1>. QED BY <1>1, <1>2, WorkAlways, StageAlways, PTL
         DEF Spec, MissedFollowsApproval, MissedApproval!Spec, RequestsAboutMissed

-----------------------------------------------------------------------------
(* Open sessions *)

\* Sessions have begun, and no two are open on one day.
OpenInv ==
  /\ \A s, x \in Session : /\ Open(s) /\ Open(x)
                           /\ session[s].staff = session[x].staff /\ session[s].day = session[x].day
                           => s = x
  /\ \A s \in Session : session[s].day <= today
  /\ \A r \in Request : AboutToOpen(req[r])

LEMMA OpenInit == Init => OpenInv
<1>. SUFFICES ASSUME Init PROVE OpenInv
  OBVIOUS
<1>. USE DEF Init, PolicyInit, AttendanceInit
<1>1. \A s \in Session : session[s] = NoSession
  OBVIOUS
<1>2. NoSession.status = "NONE" /\ NoSession.day = 0
  BY DEF NoSession
<1>3. Idle.op = "idle" /\ Idle.at = "done"
  BY DEF Idle
<1>. QED BY <1>1, <1>2, <1>3 DEF OpenInv, Open, AboutToOpen

\* No session is opened.
OpensNone ==
  /\ today' = today
  /\ \A s \in Session : /\ session'[s].staff = session[s].staff /\ session'[s].day = session[s].day
                        /\ Open(s)' => Open(s)

LEMMA OpenKept ==
  ASSUME OpenInv, OpensNone, \A r \in Request : AboutToOpen(req[r])'
  PROVE  OpenInv'
BY DEF OpenInv, OpensNone

LEMMA StaysOpens ==
  ASSUME NEW r \in Request, AboutToOpen(req[r]), Stays(req'[r], req[r])
  PROVE  AboutToOpen(req[r])'
<1>1. Idle.op = "idle" /\ Idle.at = "done"
  BY DEF Idle
<1>. QED BY <1>1 DEF Stays, AboutToOpen

\* The sessions a handler closes, or writes back as it read them.
LEMMA AttendanceOpensNone ==
  ASSUME WorkInv, OpenInv, NEW r \in Request, AttendanceContinue(r), ~InsertSession(r)
  PROVE  OpensNone
<1>. DEFINE h == req[r]
<1>0. /\ h \in Handler /\ HandlerOK(h, session, missed, leave)
      /\ session \in [Session -> SessionRow] /\ AboutToOpen(h)
  BY DEF WorkInv, TypeOK, OpenInv
<1>. HIDE DEF h
<1>1. today' = today
  BY DEF AttendanceContinue, FindToday, Flag, FindOpen, CheckOutWrite, CorrectWrite, NextRow, Mark,
         EscalateMissed, SettleMissed, clockVars
<1>2. CASE session' = session
  BY <1>1, <1>2 DEF OpensNone, Open
<1>3. ASSUME NEW status, session' = [session EXCEPT ![h.id].status = status],
             status = "CHECKED_IN" => Open(h.id)
      PROVE  OpensNone
  <2>1. \A s \in Session : /\ session'[s].staff = session[s].staff /\ session'[s].day = session[s].day
                           /\ session'[s].status = IF s = h.id THEN status ELSE session[s].status
    BY <1>0, <1>3 DEF SessionRow
  <2>. QED BY <1>1, <1>3, <2>1 DEF OpensNone, Open
<1>4. CASE CheckOutWrite(r)
  <2>1. session' = [session EXCEPT ![h.id].status = "CHECKED_OUT"]
    BY <1>4 DEF CheckOutWrite, h
  <2>2. \A s \in Session : /\ session'[s].staff = session[s].staff /\ session'[s].day = session[s].day
                           /\ session'[s].status = IF s = h.id THEN "CHECKED_OUT" ELSE session[s].status
    BY <1>0, <2>1 DEF SessionRow
  <2>. QED BY <1>1, <2>2 DEF OpensNone, Open
<1>5. CASE CorrectWrite(r)
  <2>1. session' = [session EXCEPT ![h.id].status = h.status] /\ h.at = "correct"
    BY <1>5 DEF CorrectWrite, h
  <2>. QED BY <1>0, <1>3, <2>1 DEF AboutToOpen
<1>6. CASE SettleMissed(r)
  BY <1>0, <1>3, <1>6 DEF SettleMissed, h, AboutToOpen
<1>7. ASSUME Mark(r), session' # session PROVE OpensNone
  <2>1. session' = [session EXCEPT ![h.id].status = "ABSENT", ![h.id].missedCheckout = TRUE]
    BY <1>7 DEF Mark, h, attendanceVars
  <2>2. \A s \in Session : /\ session'[s].staff = session[s].staff /\ session'[s].day = session[s].day
                           /\ session'[s].status = IF s = h.id THEN "ABSENT" ELSE session[s].status
    BY <1>0, <2>1 DEF SessionRow
  <2>. QED BY <1>1, <2>2 DEF OpensNone, Open
<1>. QED BY <1>2, <1>4, <1>5, <1>6, <1>7
     DEF AttendanceContinue, FindToday, Flag, FindOpen, NextRow, EscalateMissed, attendanceVars

\* Who opens a session has seen that there is none.
LEMMA InsertOpens ==
  ASSUME WorkInv, OpenInv, NEW r \in Request, InsertSession(r),
         \A q \in Request : AboutToOpen(req[q])'
  PROVE  OpenInv'
<1>. DEFINE w == req[r].staff
<1>1. PICK s \in Session :
        session' = [session EXCEPT ![s] = [NoSession EXCEPT !.status = "CHECKED_IN",
                                             !.staff = w, !.day = today]]
  BY DEF InsertSession
<1>2. session'[s].status = "CHECKED_IN" /\ session'[s].staff = w /\ session'[s].day = today
  BY <1>1 DEF WorkInv, TypeOK, NoSession
<1>3. \A x \in Session : x # s => session'[x] = session[x]
  BY <1>1 DEF WorkInv, TypeOK
<1>4. \A x \in Session : ~(Open(x) /\ session[x].staff = w /\ session[x].day = today)
  BY DEF InsertSession, OpenInv, AboutToOpen
<1>5. today' = today /\ today \in Nat
  BY DEF InsertSession, clockVars, WorkInv, TypeOK
<1>. HIDE DEF w
<1>. QED BY <1>2, <1>3, <1>4, <1>5 DEF OpenInv, Open

LEMMA OpenStep ==
  ASSUME WorkInv, OpenInv, Serial, [Next]_vars
  PROVE  OpenInv'
<1>0. /\ req \in [Request -> Handler] /\ session \in [Session -> SessionRow]
      /\ today \in Nat /\ \A s \in Session : session[s].day \in Nat
  BY DEF WorkInv, TypeOK, SessionRow
<1>1. AboutToOpen(Idle)'
  BY DEF Idle, AboutToOpen
<1>2. ASSUME UNCHANGED <<session, today>>,
             \A r \in Request : req'[r] = Idle \/ AboutToOpen(req'[r])
      PROVE  OpenInv'
  <2>1. OpensNone
    BY <1>2 DEF OpensNone, Open
  <2>2. \A r \in Request : AboutToOpen(req[r])'
    BY <1>1, <1>2 DEF AboutToOpen, Open
  <2>. QED BY <2>1, <2>2, OpenKept
<1>3. CASE Midnight /\ UNCHANGED <<attendanceVars, leave>>
  <2>1. today' = today + 1 /\ UNCHANGED <<session, req>>
    BY <1>3 DEF Midnight, attendanceVars
  <2>2. \A s \in Session : session'[s].day < today'
    BY <1>0, <2>1 DEF OpenInv
  <2>. QED BY <1>0, <2>1, <2>2 DEF OpenInv, AboutToOpen, Open
<1>4. CASE (Crash \/ \E r \in Request : Throw(r)) /\ UNCHANGED <<attendanceVars, leave>>
  <2>1. UNCHANGED <<session, today>> /\ \A r \in Request : req'[r] \in {req[r], Idle}
    BY <1>0, <1>4 DEF Crash, Throw, Reply, attendanceVars
  <2>. QED BY <1>2, <2>1 DEF OpenInv
<1>5. ASSUME NEW s \in Session, Deadline(s) PROVE OpenInv'
  <2>1. today' = today /\ req' = req
    BY <1>5 DEF Deadline, clockVars
  <2>2. \A x \in Session : /\ session'[x].staff = session[x].staff /\ session'[x].day = session[x].day
                           /\ session'[x].status = session[x].status
    BY <1>0, <1>5 DEF Deadline, SessionRow
  <2>3. OpensNone /\ \A r \in Request : AboutToOpen(req[r])'
    BY <2>1, <2>2 DEF OpensNone, OpenInv, AboutToOpen, Open
  <2>. QED BY <2>3, OpenKept
<1>6. ASSUME NEW r \in Request, Call(r) \/ (Sweep(r) /\ UNCHANGED leave) PROVE OpenInv'
  <2>1. UNCHANGED <<session, today>>
    BY <1>6, CallsChangeNoRow
  <2>. QED BY <1>2, <1>6, <2>1, CallDecides DEF OpenInv, Due
<1>7. ASSUME NEW r \in Request, PolicyContinue(r), UNCHANGED session PROVE OpenInv'
  <2>1. today' = today
    BY <1>7 DEF PolicyContinue, CreateBalance, Credit, ResetRead, ResetWrite, DeductRead, Pay,
                LwpRead, LwpWrite, NextEmployee, EnsureEmployee, JobDone, clockVars
  <2>2. AboutToOpen(req[r])'
    BY <1>7, PolicyStays, StaysOpens DEF OpenInv
  <2>3. OpensNone
    BY <1>7, <2>1 DEF OpensNone, Open
  <2>. QED BY <2>2, <2>3, OpenKept DEF Serial
<1>8. ASSUME NEW r \in Request, AttendanceContinue(r) PROVE OpenInv'
  <2>1. AboutToOpen(req[r])'
    BY <1>8, AttendanceStays, StaysOpens DEF OpenInv
  <2>2. \A q \in Request : AboutToOpen(req[q])'
    BY <2>1 DEF Serial
  <2>. QED BY <1>8, <2>2, InsertOpens, AttendanceOpensNone, OpenKept
<1>9. ASSUME NEW r \in Request, LeaveContinue(r) PROVE OpenInv'
  <2>1. UNCHANGED <<session, today>> /\ Reply(r)
    BY <1>9 DEF LeaveContinue, InsertLeave, CancelLeaveWrite, EscalateLeave, SettleLeave,
                attendanceVars, clockVars
  <2>2. \A q \in Request : req'[q] = Idle
    BY <1>0, <2>1 DEF Reply, Serial
  <2>. QED BY <1>2, <2>1, <2>2
<1>10. CASE UNCHANGED vars
  BY <1>2, <1>10 DEF vars, OpenInv
<1>. QED BY <1>3, <1>4, <1>5, <1>6, <1>7, <1>8, <1>9, <1>10 DEF Next, Continue, Environment, attendanceVars

\* Nobody has two open sessions on one day, of which one would be checked out and the other
\* charged, when requests do not overlap.
THEOREM SessionsOpenOnce ==
  ASSUME Serial
  PROVE  Spec => []OneOpenSession
<1>1. OpenInv => OneOpenSession
  <2>. SUFFICES ASSUME OpenInv, NEW w \in Staff, NEW d \in 1..Days
                PROVE  Cardinality(OpenOn(w, d)) <= 1
    BY DEF OneOpenSession
  <2>1. CASE OpenOn(w, d) = {}
    <3>1. Cardinality({}) = 0
      BY FS_EmptySet
    <3>. QED BY <2>1, <3>1
  <2>2. ASSUME NEW s \in OpenOn(w, d) PROVE OpenOn(w, d) = {s}
    BY <2>2 DEF OpenOn, OpenInv, Open
  <2>3. CASE OpenOn(w, d) # {}
    <3>1. PICK s : s \in OpenOn(w, d)
      BY <2>3
    <3>2. OpenOn(w, d) = {s}
      BY <2>2, <3>1
    <3>3. Cardinality({s}) = 1
      BY FS_Singleton
    <3>. QED BY <3>2, <3>3
  <2>. QED BY <2>1, <2>3
<1>2. WorkInv /\ OpenInv /\ [Next]_vars => OpenInv'
  BY OpenStep
<1>. QED BY WorkAlways, OpenInit, <1>1, <1>2, PTL DEF Spec
=============================================================================
