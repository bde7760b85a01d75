--------------------------- MODULE BackofficeSafety ---------------------------
(***************************************************************************)
(* What holds between a job and its invoice, whichever of the two a        *)
(* request writes first, and then the properties of the back office as a   *)
(* whole: each part keeps what it says of its own records, a step of one   *)
(* part leaves the others as they were, and the theorems follow.           *)
(***************************************************************************)
EXTENDS BackofficeRecords

-----------------------------------------------------------------------------
(* Jobs and invoices *)

JobOps ==
  {"createJob", "notify", "removeJob", "assignManager", "sendWorker", "moveJob", "collectPayment"}

\* Those that have an invoice to write to.
OfInvoice ==
  {"placeOrder", "insertOrder", "settleOrder", "settle", "sync", "refund",
   "refunded", "resizeInvoice", "editInvoice", "moveInvoice", "markPaid"}

WorkOps == JobOps \union OfInvoice \union {"issueInvoice", "orderInvoice"}

\* The values a handler of jobs or invoices has been given, or has read.
WorkHandler(h) ==
  /\ h.op = "createJob" => h.customer \in Person /\ h.code \in Code
  /\ h.op \in JobOps \ {"createJob"} => h.job \in 1..Jobs
  /\ h.op \in {"assignManager", "sendWorker", "moveJob"} => h.manager \in Person
  /\ h.op = "sendWorker" => h.worker \in Person
  /\ h.op = "moveJob" => h.status \in {"IN_PROGRESS", "COMPLETED", "CANCELLED"}
  /\ h.op = "issueInvoice" =>
       /\ h.customer \in Person \union {None} /\ h.job \in 0..Jobs
       /\ h.total \in 1..Total /\ h.status = "DRAFT"
  /\ h.op = "orderInvoice" => h.job \in 1..Jobs /\ h.amount \in 1..Total
  /\ h.op \in {"orderInvoice", "resizeInvoice", "placeOrder"} => h.type \in PaymentType
  /\ h.op \in {"insertOrder", "settleOrder"} => h.order \in OpenOrder
  /\ h.op \in OfInvoice => h.invoice \in 1..Invoices /\ invoice[h.invoice].row = "present"
  /\ h.op \in {"settle", "refund"} => h.amount \in 1..Total
  /\ h.op = "sync" => h.online \in BOOLEAN
  /\ h.op = "resizeInvoice" => h.total \in 1..Total /\ h.paid \in BOOLEAN
  /\ h.op = "editInvoice" => h.total \in 0..Total
  /\ h.op = "moveInvoice" => h.status \in {"SENT", "OVERDUE", "CANCELLED", "PAID"}
  /\ h.op = "markPaid" => h.amount \in 0..Total

\* What it has checked of a job, which holds until it writes if it is alone.
WorkChecked(h) ==
  /\ h.op = "notify" => job[h.job].status = "PENDING_PAYMENT"
  /\ h.op \in {"assignManager", "sendWorker", "moveJob"} => Life!NotTerminal(job[h.job].status)
  /\ h.op \in {"sendWorker", "moveJob"} => h.job \in Scope(h.manager)
  /\ h.op = "sendWorker" => InTeam(h.manager, h.worker)

\* What the payments of an invoice amount to.
RowPaid(q) == Advance * q.payments[Advance] + Total * q.payments[Total]

\* Its status is what its payments say, and nothing is paid on one that may be
\* edited; and no more is paid than is owed, but by an order that was paid late.
RowSound(q) ==
  /\ q.status = "PAID" => RowPaid(q) >= q.total
  /\ q.status = "PARTIALLY_PAID" => 0 < RowPaid(q)
  /\ q.status \in {"DRAFT", "SENT", "OVERDUE"} => RowPaid(q) = 0
  /\ ~q.late =>
       /\ RowPaid(q) <= q.total
       /\ q.status = "PARTIALLY_PAID" => RowPaid(q) < q.total
       /\ q.status = "REFUNDED" => RowPaid(q) = 0

\* A handler that has changed the payments of invoice i, and not yet its status.
Loose(h, i) ==
  /\ h.op \in {"sync", "refunded", "moveInvoice"} /\ h.invoice = i
  /\ h.op = "moveInvoice" => h.status = "PAID"

MoneySound ==
  \A i \in 1..Invoices : invoice[i].row = "present" =>
    RowSound(invoice[i]) \/ \E x \in Request : Loose(req[x], i)

\* All invoices of a job are settled: there is one, and none may be edited.
JobSettled(j) ==
  /\ InvoicesOf(j) # {}
  /\ \A i \in InvoicesOf(j) : invoice[i].status \notin {"DRAFT", "SENT"}

CompletedSettled ==
  \A j \in 1..Jobs :
    job[j].row = "present" /\ job[j].status = "COMPLETED" /\ ~job[j].collected => JobSettled(j)

\* Something has just been paid on an invoice, and the status is behind.
Due(q) ==
  /\ 0 < RowPaid(q)
  /\ ~q.late => q.status \notin {"CANCELLED", "REFUNDED"} /\ RowPaid(q) <= q.total

\* A payment has just gone back.
Returned(q) ==
  /\ q.status \notin {"DRAFT", "SENT", "OVERDUE"}
  /\ ~q.late => q.status # "REFUNDED" /\ RowPaid(q) < q.total

\* With so much more all is paid, and no more than all.
Covered(q, more) ==
  /\ RowPaid(q) + more >= q.total
  /\ ~q.late => RowPaid(q) + more = q.total

\* What it knows of the money, alone and if nothing has failed.
Phase(h) ==
  /\ h.op = "settle" =>
       /\ invoice[h.invoice].status \notin {"CANCELLED", "REFUNDED", "DRAFT"}
       /\ RowPaid(invoice[h.invoice]) + h.amount <= invoice[h.invoice].total
  /\ h.op = "settleOrder" => invoice[h.invoice].orders[h.order] # 0
  /\ h.op = "sync" => Due(invoice[h.invoice])
  /\ h.op = "refund" => invoice[h.invoice].payments[h.amount] > 0
  /\ h.op = "refunded" => Returned(invoice[h.invoice])
  /\ h.op = "resizeInvoice" =>
       /\ invoice[h.invoice].job \in 1..Jobs
       /\ Life!NotTerminal(job[invoice[h.invoice].job].status)
       /\ h.paid => 0 < RowPaid(invoice[h.invoice]) /\ invoice[h.invoice].total < h.total
       /\ ~h.paid => RowPaid(invoice[h.invoice]) = 0 /\ invoice[h.invoice].status \in {"DRAFT", "SENT"}
  /\ h.op = "editInvoice" => invoice[h.invoice].status \in {"DRAFT", "SENT"}
  /\ h.op = "moveInvoice" =>
       /\ h.status = "PAID" => Covered(invoice[h.invoice], 0)
       /\ h.status = "SENT" => invoice[h.invoice].status = "DRAFT"
       /\ h.status = "OVERDUE" => invoice[h.invoice].status = "SENT"
  /\ h.op = "markPaid" => Covered(invoice[h.invoice], h.amount)
  /\ h.op = "moveJob" /\ h.status = "COMPLETED" =>
       job[h.job].collected \/ JobSettled(h.job)

\* Rows that are not there yet are blank, and a job has one invoice.
WorkBlank ==
  /\ \A j \in 1..Jobs : job[j].row = "absent" => job[j].status = "PENDING_PAYMENT"
  /\ \A i \in 1..Invoices : invoice[i].row = "absent" =>
       invoice[i].payments[Advance] = 0 /\ invoice[i].payments[Total] = 0

OneInvoice ==
  \A i, k \in 1..Invoices :
    invoice[i].row = "present" /\ invoice[k].row = "present" /\ invoice[i].job # 0
      /\ invoice[k].job = invoice[i].job => i = k

WorkHolds == WorkTypeOK /\ WorkBlank /\ OneInvoice

\* Nothing runs beside a handler, nor fails.
Calm == ~workload.overlap /\ ~workload.failures

WorkInv ==
  /\ WorkHolds
  /\ \A x \in Request : WorkHandler(req[x])
  /\ ~workload.overlap => \A x \in Request : WorkChecked(req[x])
  /\ Calm => MoneySound /\ CompletedSettled /\ \A x \in Request : Phase(req[x])

\* What a handler of work knows holds until something it is about changes.
LEMMA WorkUntouched ==
  ASSUME NEW h, job' = job, invoice' = invoice, area' = area, pincode' = pincode, person' = person,
         WorkHandler(h)
  PROVE  /\ WorkHandler(h)'
         /\ WorkChecked(h) => WorkChecked(h)'
         /\ Phase(h) => Phase(h)'
<1>1. WorkHandler(h)'
  BY DEF WorkHandler
<1>2. WorkChecked(h) => WorkChecked(h)'
  <2>1. \A m : Scope(m)' = Scope(m)
    BY DEF Scope, InScope, InFilter, JobExists, ManagerCodes, AreaExists
  <2>2. \A m, w : InTeam(m, w)' = InTeam(m, w)
    BY DEF InTeam, InFilter, Has, Exists
  <2>. QED BY <2>1, <2>2 DEF WorkChecked
<1>3. Phase(h) => Phase(h)'
  <2>1. \A j : JobSettled(j)' = JobSettled(j)
    BY DEF JobSettled, InvoicesOf
  <2>. QED BY <2>1 DEF Phase, Due, Returned, Covered, RowPaid
<1>. QED BY <1>1, <1>2, <1>3

\* No handler of work is under way when a calm step of another part is taken.
LEMMA WorkFrame ==
  ASSUME WorkInv, RequestsOK, workload' = workload, NEW ops, ops \intersect WorkOps = {},
         "idle" \notin ops, UNCHANGED work,
         \/ \E r : Moves(r, ops)
         \/ req' = req /\ UNCHANGED territory
         \/ \E r \in Request : Fails(r)
  PROVE  WorkInv'
<1>1. WorkHolds' /\ (CompletedSettled => CompletedSettled')
  BY DEF WorkInv, WorkHolds, WorkTypeOK, WorkBlank, OneInvoice, work, CompletedSettled, JobSettled, InvoicesOf
<1>2. CASE req' = req /\ UNCHANGED territory
  <2>1. ASSUME NEW x \in Request
        PROVE  /\ WorkHandler(req[x])'
               /\ WorkChecked(req[x]) => WorkChecked(req[x])'
               /\ Phase(req[x]) => Phase(req[x])'
    <3>1. /\ job' = job /\ invoice' = invoice /\ area' = area /\ pincode' = pincode
          /\ person' = person /\ req' = req /\ WorkHandler(req[x])
      BY <1>2 DEF WorkInv, work, territory
    <3>. QED BY <3>1, WorkUntouched
  <2>2. MoneySound => MoneySound'
    BY <1>2 DEF MoneySound, work
  <2>. QED BY <1>1, <2>1, <2>2 DEF WorkInv, Calm
<1>3. ASSUME Stirs(ops), Clears(ops), Calm => \A x \in Request : req[x].op \notin WorkOps
      PROVE  WorkInv'
  <2>1. ASSUME NEW x \in Request PROVE WorkHandler(req[x])'
    <3>1. CASE req'[x] = req[x]
      BY <3>1 DEF WorkInv, WorkHandler, work
    <3>2. CASE req'[x].op \notin WorkOps
      BY <3>2 DEF WorkHandler, WorkOps, JobOps, OfInvoice
    <3>. QED BY <1>3, <3>1, <3>2 DEF Stirs, Idle, WorkOps, JobOps, OfInvoice
  <2>2. ASSUME ~workload.overlap, NEW x \in Request PROVE WorkChecked(req[x])' /\ Phase(req[x])'
    <3>1. req'[x].op \notin WorkOps
      BY <1>3, <2>2 DEF Clears, Idle, WorkOps, JobOps, OfInvoice
    <3>. QED BY <3>1 DEF WorkChecked, Phase, WorkOps, JobOps, OfInvoice
  <2>3. Calm => MoneySound'
    <3>1. Calm => \A i \in 1..Invoices : invoice[i].row = "present" => RowSound(invoice[i])
      BY <1>3 DEF WorkInv, MoneySound, Loose, WorkOps, OfInvoice
    <3>. QED BY <3>1 DEF MoneySound, work, RowSound, RowPaid
  <2>. QED BY <1>1, <2>1, <2>2, <2>3 DEF WorkInv, Calm
<1>4. CASE \E r : Moves(r, ops)
  <2>1. PICK r : Moves(r, ops)
    BY <1>4
  <2>2. Stirs(ops) /\ Clears(ops)
    BY <2>1, MovesAlone
  <2>3. ASSUME Calm, NEW x \in Request PROVE req[x].op \notin WorkOps
    <3>1. CASE req[x] = Idle
      BY <3>1 DEF Idle, WorkOps, JobOps, OfInvoice
    <3>2. CASE req[x] # Idle
      <4>1. req[r].op \in ops /\ r \in Request
        BY <2>1, <2>3, <3>2 DEF Calm, Moves, MayStart, Quiet
      <4>2. x = r
        BY <2>3, <3>2, <4>1 DEF Calm, RequestsOK, Idle
      <4>. QED BY <4>1, <4>2
    <3>. QED BY <3>1, <3>2
  <2>. QED BY <1>3, <2>2, <2>3
<1>5. CASE \E r \in Request : Fails(r)
  <2>1. PICK r \in Request : Fails(r)
    BY <1>5
  <2>2. Stirs(ops) /\ Clears(ops)
    BY <2>1, FailsAlone
  <2>3. ~Calm
    BY <2>1 DEF Fails, Calm
  <2>. QED BY <1>3, <2>2, <2>3
<1>. QED BY <1>2, <1>4, <1>5

\* A handler of jobs or invoices takes its place.
WorkTakes(h) ==
  /\ h.op \in WorkOps /\ WorkHandler(h)
  /\ ~workload.overlap => WorkChecked(h)
  /\ Calm => Phase(h)

\* When all is quiet, and nothing has failed, every invoice is sound.
LEMMA AllSound ==
  ASSUME WorkInv, Quiet, Calm, NEW i \in 1..Invoices, invoice[i].row = "present"
  PROVE  RowSound(invoice[i])
BY DEF WorkInv, MoneySound, Loose, Quiet, Idle

LEMMA PaidTypes ==
  ASSUME NEW q \in InvoiceRow
  PROVE  RowPaid(q) \in Nat /\ q.total \in 0..Total /\ q.payments[Advance] \in Nat
         /\ q.payments[Total] \in Nat
         /\ RowPaid(q) = q.payments[Advance] + 2 * q.payments[Total]
<1>1. q.payments \in [1..2 -> Nat] /\ q.total \in 0..Total
  BY DEF InvoiceRow, Total
<1>2. q.payments[1] \in Nat /\ q.payments[2] \in Nat
  BY <1>1
<1>. QED BY <1>1, <1>2 DEF RowPaid, Advance, Total

LEMMA PaidRow == \A i : Paid(i) = RowPaid(invoice[i])
BY DEF Paid, RowPaid

LEMMA JobBegins ==
  ASSUME WorkInv, RequestsOK, NEW r \in Request, MayStart(r), JobStarts(r)
  PROVE  \/ \E h : Awaits(r, h) /\ WorkTakes(h) /\ UNCHANGED work
         \/ UNCHANGED <<req, job, invoice>> /\ duty' \in [Person -> DutyRow]
<1>. DEFINE Taken == \E h : Awaits(r, h) /\ WorkTakes(h) /\ UNCHANGED work
            Clocked == UNCHANGED <<req, job, invoice>> /\ duty' \in [Person -> DutyRow]
<1>p. workload.people \subseteq Person
  BY TerritoryAssumption DEF RequestsOK
<1>t. /\ duty \in [Person -> DutyRow] /\ job \in [1..Jobs -> JobRow]
      /\ invoice \in [1..Invoices -> InvoiceRow]
      /\ \A u \in Person : duty[u] \in DutyRow
  BY DEF WorkInv, WorkHolds, WorkTypeOK
<1>s. ASSUME NEW u \in Person, NEW day \in {"none", "today", "earlier"},
             NEW status \in {"CHECKED_IN", "CHECKED_OUT", "ABSENT", "PRESENT", "HALF_DAY"},
             Stamped(u, day, status)
      PROVE  duty' \in [Person -> DutyRow]
  <2>1. [day |-> day, fresh |-> TRUE, status |-> status] \in DutyRow
    BY DEF DutyRow
  <2>. QED BY <1>t, <1>s, <2>1 DEF Stamped
<1>1. ASSUME Midnight(r) PROVE Clocked
  <2>1. \A u \in Person : [duty[u] EXCEPT !.day = IF @ = "today" THEN "earlier" ELSE @] \in DutyRow
    BY <1>t DEF DutyRow
  <2>. QED BY <1>1, <2>1 DEF Midnight, AtOnce
<1>2. ASSUME NEW u \in Person,
             CheckIn(r, u) \/ CheckOut(r, u) \/ FlagMissed(r, u) \/ ApproveMissed(r, u) \/ Ages(r, u)
      PROVE  Clocked
  <2>1. CASE CheckIn(r, u)
    BY <1>s, <2>1 DEF CheckIn, AtOnce
  <2>2. CASE CheckOut(r, u)
    BY <1>s, <2>2 DEF CheckOut, AtOnce
  <2>3. CASE FlagMissed(r, u)
    <3>1. duty[u].day \in {"none", "today", "earlier"}
      BY <1>t DEF DutyRow
    <3>. QED BY <1>s, <2>3, <3>1 DEF FlagMissed, AtOnce
  <2>4. CASE ApproveMissed(r, u)
    <3>1. duty[u].day \in {"none", "today", "earlier"}
      BY <1>t DEF DutyRow
    <3>. QED BY <1>s, <2>4, <3>1 DEF ApproveMissed, AtOnce
  <2>5. CASE Ages(r, u)
    <3>1. [duty[u] EXCEPT !.fresh = FALSE] \in DutyRow
      BY <1>t DEF DutyRow
    <3>. QED BY <1>t, <2>5, <3>1 DEF Ages, AtOnce
  <2>. QED BY <1>2, <2>1, <2>2, <2>3, <2>4, <2>5
<1>. HIDE DEF Clocked
<1>. USE DEF WorkTakes, WorkHandler, WorkChecked, Phase, WorkOps, JobOps, OfInvoice
<1>3. ASSUME NEW u \in Person, NEW code \in Code, CreateJob(r, u, code) PROVE Taken
  BY <1>3 DEF CreateJob
<1>4. ASSUME NEW u \in Person, NEW j \in 1..Jobs, AssignManager(r, j, u) PROVE Taken
  BY <1>4 DEF AssignManager
<1>n. ASSUME NEW from \in {"ASSIGNED", "IN_PROGRESS"} PROVE Life!NotTerminal(from)
  BY <1>n DEF Life!NotTerminal, Life!TERMINAL_STATUSES
<1>m. ASSUME NEW j \in 1..Jobs, NEW to, Life!CanTransition(job[j].status, to)
      PROVE  Life!NotTerminal(job[j].status)
  <2>1. job[j].status \in Life!Status
    BY <1>t DEF JobRow
  <2>. QED BY <1>m, <2>1 DEF Life!CanTransition, Life!ALLOWED_TRANSITIONS, Life!NotTerminal,
         Life!TERMINAL_STATUSES, Life!Status
<1>5. ASSUME NEW u \in Person, NEW j \in 1..Jobs, StartJob(r, u, j) PROVE Taken
  <2>1. Life!NotTerminal(job[j].status) /\ j \in Scope(u)
    BY <1>5, <1>m DEF StartJob, Manages
  <2>. QED BY <1>5, <2>1 DEF StartJob
<1>6. ASSUME NEW u \in Person, NEW j \in 1..Jobs, CancelJob(r, u, j) PROVE Taken
  <2>1. Life!NotTerminal(job[j].status) /\ j \in Scope(u)
    BY <1>6, <1>m DEF CancelJob, Manages
  <2>. QED BY <1>6, <2>1 DEF CancelJob
<1>7. ASSUME NEW u \in Person, NEW j \in 1..Jobs, CompleteJob(r, u, j) PROVE Taken
  <2>1. Life!NotTerminal(job[j].status) /\ j \in Scope(u) /\ Remaining(j) = 0
    BY <1>7, <1>n DEF CompleteJob, Manages
  <2>2. ASSUME Calm, ~job[j].collected PROVE JobSettled(j)
    <3>1. InvoicesOf(j) # {}
      BY <2>1, <2>2 DEF Remaining, Total
    <3>. DEFINE i == CHOOSE k \in InvoicesOf(j) : TRUE
    <3>2. i \in InvoicesOf(j)
      BY <3>1
    <3>3. (IF Paid(i) >= Total THEN 0 ELSE Total - Paid(i)) = 0
      BY <2>1, <2>2, <3>1 DEF Remaining
    <3>. HIDE DEF i
    <3>4. i \in 1..Invoices /\ invoice[i].row = "present" /\ invoice[i].job = j
      BY <3>2 DEF InvoicesOf
    <3>5. RowSound(invoice[i])
      BY <2>2, <3>4, AllSound DEF Calm, MayStart
    <3>6. RowPaid(invoice[i]) > 0
      BY <1>t, <3>3, <3>4, PaidRow, PaidTypes DEF Total
    <3>7. invoice[i].status \notin {"DRAFT", "SENT"}
      BY <3>5, <3>6 DEF RowSound
    <3>8. \A k \in InvoicesOf(j) : k = i
      BY <3>4 DEF InvoicesOf, WorkInv, WorkHolds, OneInvoice
    <3>. QED BY <3>1, <3>7, <3>8 DEF JobSettled
  <2>3. Awaits(r, [op |-> "moveJob", manager |-> u, job |-> j, status |-> "COMPLETED"]) /\ UNCHANGED work
    BY <1>7 DEF CompleteJob
  <2>. QED BY <2>1, <2>2, <2>3
<1>8. ASSUME NEW u \in Person, NEW w \in Person, NEW j \in 1..Jobs,
             AssignJobWorker(r, u, j, w) \/ ReassignJobWorker(r, u, j, w)
      PROVE  Taken
  BY <1>8 DEF AssignJobWorker, ReassignJobWorker, MaySend, Manages
<1>9. ASSUME NEW j \in 1..Jobs, RemoveJob(r, j) \/ CollectPayment(r, j) PROVE Taken
  <2>1. CASE RemoveJob(r, j)
    BY <2>1 DEF RemoveJob
  <2>2. CASE CollectPayment(r, j)
    BY <2>2 DEF CollectPayment
  <2>. QED BY <1>9, <2>1, <2>2
<1>. HIDE DEF Taken
<1>10. Taken \/ Clocked
  BY <1>p, <1>1, <1>2, <1>3, <1>4, <1>5, <1>6, <1>7, <1>8, <1>9 DEF JobStarts
<1>. QED BY <1>10 DEF Taken, Clocked

LEMMA OutstandingType ==
  ASSUME WorkTypeOK, NEW i \in 1..Invoices
  PROVE  /\ Outstanding(i) \in 0..Total
         /\ RowPaid(invoice[i]) <= invoice[i].total => RowPaid(invoice[i]) + Outstanding(i) = invoice[i].total
         /\ Outstanding(i) > 0 => RowPaid(invoice[i]) + Outstanding(i) = invoice[i].total
<1>1. invoice[i] \in InvoiceRow
  BY DEF WorkTypeOK
<1>2. RowPaid(invoice[i]) \in Nat /\ invoice[i].total \in 0..Total /\ Total \in Nat
  BY <1>1, PaidTypes DEF Total
<1>. QED BY <1>2, PaidRow DEF Outstanding

LEMMA InvoicingBegins ==
  ASSUME WorkInv, RequestsOK, NEW r \in Request, MayStart(r), InvoicingStarts(r)
  PROVE  \E h : Awaits(r, h) /\ WorkTakes(h) /\ UNCHANGED work
<1>. DEFINE Taken == \E h : Awaits(r, h) /\ WorkTakes(h) /\ UNCHANGED work
<1>p. workload.people \subseteq Person /\ 1..Total \subseteq 0..Total
  BY TerritoryAssumption DEF RequestsOK, Total
<1>t. /\ WorkTypeOK
      /\ \A i \in 1..Invoices : invoice[i] \in InvoiceRow
      /\ \A i \in 1..Invoices : RowPaid(invoice[i]) \in Nat /\ invoice[i].total \in 0..Total
      /\ \A j \in 1..Jobs : j \in 0..Jobs /\ j # 0
      /\ \A j \in 1..Jobs : job[j].customer \in Person \union {None}
      /\ Advance \in 1..Total /\ Total \in 1..Total
  BY PaidTypes DEF WorkInv, WorkHolds, WorkTypeOK, JobRow, Advance, Total
<1>. USE DEF WorkTakes, WorkHandler, WorkChecked, Phase, WorkOps, JobOps, OfInvoice
<1>1. ASSUME NEW c \in Person, NEW j \in 0..Jobs, NEW total \in 1..Total, IssueInvoice(r, c, j, total)
      PROVE  Taken
  BY <1>1 DEF IssueInvoice
<1>2. ASSUME NEW j \in 1..Jobs, GenerateFromBooking(r, j) PROVE Taken
  BY <1>2, <1>t DEF GenerateFromBooking
<1>3. ASSUME NEW j \in 1..Jobs, NEW type \in PaymentType, OrderPayment(r, j, type) PROVE Taken
  <2>. DEFINE full == type = "FULL"
              amount == IF full THEN Total ELSE Advance
  <2>0. amount \in 1..Total /\ Life!NotTerminal(job[j].status) /\ UNCHANGED work
    BY <1>3, <1>t DEF OrderPayment
  <2>1. CASE Awaits(r, [op |-> "orderInvoice", job |-> j, amount |-> amount, type |-> type])
    BY <2>0, <2>1
  <2>2. CASE \E i \in InvoicesOf(j) :
               IF invoice[i].total = amount
                 THEN Awaits(r, [op |-> "placeOrder", invoice |-> i, type |-> type])
                 ELSE \E row \in Resized(i, amount, full) :
                        Awaits(r, [op |-> "resizeInvoice", invoice |-> i, total |-> amount,
                                   paid |-> row.status = "PARTIALLY_PAID", type |-> type])
    <3>. HIDE DEF amount, full
    <3>1. PICK i \in InvoicesOf(j) :
               IF invoice[i].total = amount
                 THEN Awaits(r, [op |-> "placeOrder", invoice |-> i, type |-> type])
                 ELSE \E row \in Resized(i, amount, full) :
                        Awaits(r, [op |-> "resizeInvoice", invoice |-> i, total |-> amount,
                                   paid |-> row.status = "PARTIALLY_PAID", type |-> type])
      BY <2>2
    <3>2. i \in 1..Invoices /\ invoice[i].row = "present" /\ invoice[i].job = j
      BY <3>1 DEF InvoicesOf
    <3>3. CASE Awaits(r, [op |-> "placeOrder", invoice |-> i, type |-> type])
      BY <2>0, <3>2, <3>3
    <3>4. CASE \E row \in Resized(i, amount, full) :
                 Awaits(r, [op |-> "resizeInvoice", invoice |-> i, total |-> amount,
                            paid |-> row.status = "PARTIALLY_PAID", type |-> type])
      <4>1. PICK row \in Resized(i, amount, full) :
                 Awaits(r, [op |-> "resizeInvoice", invoice |-> i, total |-> amount,
                            paid |-> row.status = "PARTIALLY_PAID", type |-> type])
        BY <3>4
      <4>2. \/ /\ 0 < RowPaid(invoice[i]) /\ invoice[i].total < amount
               /\ row = [invoice[i] EXCEPT !.total = amount, !.status = "PARTIALLY_PAID"]
            \/ /\ RowPaid(invoice[i]) = 0 /\ invoice[i].status \in {"DRAFT", "SENT"}
               /\ row = [invoice[i] EXCEPT !.total = amount]
        <5>1. CASE Paid(i) > 0 /\ full /\ amount > invoice[i].total
          BY <1>t, <2>0, <3>2, <4>1, <5>1, PaidRow DEF Resized
        <5>2. CASE ~(Paid(i) > 0 /\ full /\ amount > invoice[i].total)
          BY <4>1, <5>2, PaidRow DEF Resized, Mutable
        <5>. QED BY <5>1, <5>2
      <4>3. CASE /\ 0 < RowPaid(invoice[i]) /\ invoice[i].total < amount
                 /\ row = [invoice[i] EXCEPT !.total = amount, !.status = "PARTIALLY_PAID"]
        <5>1. (row.status = "PARTIALLY_PAID") = TRUE
          BY <1>t, <3>2, <4>3 DEF InvoiceRow
        <5>2. Awaits(r, [op |-> "resizeInvoice", invoice |-> i, total |-> amount, paid |-> TRUE, type |-> type])
          BY <4>1, <5>1
        <5>. QED BY <2>0, <3>2, <4>3, <5>2
      <4>4. CASE /\ RowPaid(invoice[i]) = 0 /\ invoice[i].status \in {"DRAFT", "SENT"}
                 /\ row = [invoice[i] EXCEPT !.total = amount]
        <5>1. (row.status = "PARTIALLY_PAID") = FALSE
          BY <1>t, <3>2, <4>4 DEF InvoiceRow
        <5>2. Awaits(r, [op |-> "resizeInvoice", invoice |-> i, total |-> amount, paid |-> FALSE, type |-> type])
          BY <4>1, <5>1
        <5>. QED BY <2>0, <3>2, <4>4, <5>2
      <4>. QED BY <4>2, <4>3, <4>4
    <3>. QED BY <3>1, <3>3, <3>4
  <2>. QED BY <1>3, <2>1, <2>2 DEF OrderPayment
<1>4. ASSUME NEW i \in 1..Invoices, NEW amount \in 1..Total, PayInvoice(r, i, amount) PROVE Taken
  <2>1. /\ Outstanding(i) \in 0..Total /\ amount <= Outstanding(i)
        /\ Outstanding(i) > 0 => RowPaid(invoice[i]) + Outstanding(i) = invoice[i].total
    BY <1>t, <1>4, OutstandingType DEF PayInvoice
  <2>2. RowPaid(invoice[i]) + amount <= invoice[i].total
    BY <1>t, <2>1 DEF Total
  <2>. QED BY <1>4, <2>2 DEF PayInvoice, Payable, InvoiceExists
<1>5. ASSUME NEW i \in 1..Invoices, NEW amount \in 1..Total, RefundPayment(r, i, amount) PROVE Taken
  BY <1>5 DEF RefundPayment, InvoiceExists
<1>6. ASSUME NEW i \in 1..Invoices, NEW total \in 0..Total, EditInvoice(r, i, total) PROVE Taken
  BY <1>6 DEF EditInvoice, InvoiceExists, Mutable
<1>7. ASSUME NEW i \in 1..Invoices, SendInvoice(r, i) \/ MarkOverdue(r, i) \/ CancelInvoice(r, i)
      PROVE  Taken
  BY <1>7 DEF SendInvoice, MarkOverdue, CancelInvoice, InvoiceExists
<1>8. ASSUME NEW i \in 1..Invoices, MarkPaid(r, i) PROVE Taken
  <2>1. invoice[i].row = "present"
    BY <1>8 DEF MarkPaid, InvoiceExists
  <2>2. /\ Outstanding(i) \in 0..Total
        /\ Calm => Covered(invoice[i], Outstanding(i))
    <3>1. Calm /\ ~invoice[i].late => RowPaid(invoice[i]) <= invoice[i].total
      BY <2>1, AllSound DEF RowSound, Calm, MayStart
    <3>. QED BY <1>t, <3>1, OutstandingType, PaidRow DEF Covered, Outstanding, Total
  <2>. HIDE DEF Outstanding
  <2>. QED BY <1>8, <2>1, <2>2 DEF MarkPaid
<1>9. ASSUME NEW i \in 1..Invoices, NEW type \in PaymentType, OrderForInvoice(r, i, type) PROVE Taken
  BY <1>9 DEF OrderForInvoice, InvoiceExists
<1>10. ASSUME NEW i \in 1..Invoices, NEW o \in OpenOrder, PayOrder(r, i, o) PROVE Taken
  BY <1>10 DEF PayOrder, InvoiceExists
<1>. HIDE DEF Taken
<1>11. Taken
  BY <1>p, <1>1, <1>2, <1>3, <1>4, <1>5, <1>6, <1>7, <1>8, <1>9, <1>10 DEF InvoicingStarts
<1>. QED BY <1>11 DEF Taken

\* What a step does: who is told sees the job ...
ToldStep ==
  \A j \in 1..Jobs : \A m \in job'[j].told \ job[j].told :
    /\ j \in TodayRequests(m)'
    /\ person[m].pincodes = {} => j \in Scope(m)' \intersect OlderScope(m)'

\* ... who gives it away keeps it ...
PanelStep ==
  ~workload.overlap =>
    \A r \in Request, m \in Person, j \in 1..Jobs :
      /\ req[r].op \in {"sendWorker", "moveJob"} /\ req'[r] = Idle
      /\ req[r].manager = m /\ req[r].job = j
      => j \in Scope(m)'

\* ... who pays finds it ...
PaidStep ==
  ~workload.failures => \A r \in Request :
    req[r].op = "sync" /\ req[r].online /\ req'[r] = Idle =>
      \A j \in {invoice[req[r].invoice].job} : JobExists(j)' =>
        (/\ j \in getMyBookings(job[j].customer, {})
         /\ getSummary(job[j].customer, j) # {})'

\* ... and what is completed is fixed.
FixedStep ==
  Calm =>
    \A j \in 1..Jobs : JobExists(j) /\ job[j].status = "COMPLETED" /\ JobExists(j)' =>
      /\ [job'[j] EXCEPT !.collected = TRUE] = [job[j] EXCEPT !.collected = TRUE]
      /\ ~job[j].collected => Amount(j)' = Amount(j)

LEMMA AmountSame ==
  ASSUME NEW j, InvoicesOf(j)' = InvoicesOf(j),
         \A i \in InvoicesOf(j) : invoice'[i].total = invoice[i].total
  PROVE  Amount(j)' = Amount(j)
<1>1. CASE InvoicesOf(j) = {}
  BY <1>1 DEF Amount
<1>2. CASE InvoicesOf(j) # {}
  <2>. DEFINE c == CHOOSE i \in InvoicesOf(j) : TRUE
  <2>1. c \in InvoicesOf(j)
    BY <1>2
  <2>2. Amount(j) = invoice[c].total
    BY <1>2 DEF Amount
  <2>3. (CHOOSE i \in InvoicesOf(j) : TRUE)' = c
    BY Zenon
  <2>4. Amount(j)' = invoice'[(CHOOSE i \in InvoicesOf(j) : TRUE)'].total
    BY <1>2 DEF Amount
  <2>. QED BY <2>1, <2>2, <2>3, <2>4
<1>. QED BY <1>1, <1>2

LEMMA JobsStand ==
  ASSUME UNCHANGED <<job, invoice>>
  PROVE  ToldStep /\ FixedStep
<1>1. ToldStep
  BY DEF ToldStep
<1>2. \A j \in 1..Jobs : Amount(j)' = Amount(j)
  <2>1. \A j \in 1..Jobs : InvoicesOf(j)' = InvoicesOf(j)
    BY DEF InvoicesOf
  <2>. QED BY <2>1, AmountSame
<1>. QED BY <1>1, <1>2 DEF FixedStep

LEMMA PanelStands ==
  ASSUME \A x \in Request : req[x].op \in {"sendWorker", "moveJob"} => req'[x] # Idle
  PROVE  PanelStep
BY DEF PanelStep

LEMMA PaidStands ==
  ASSUME \A x \in Request : req[x].op = "sync" => req'[x] # Idle
  PROVE  PaidStep
BY DEF PaidStep

\* A step of another part, or a failure, takes nothing off a panel.
LEMMA WorkFollows ==
  ASSUME WorkInv, RequestsOK, workload' = workload, NEW ops, ops \intersect WorkOps = {},
         UNCHANGED work,
         \/ \E r : Moves(r, ops)
         \/ req' = req
         \/ UNCHANGED territory /\ \E r \in Request : Fails(r)
  PROVE  ToldStep /\ PanelStep /\ PaidStep /\ FixedStep
<1>1. ToldStep /\ FixedStep
  BY JobsStand DEF work
<1>2. CASE req' = req \/ \E r : Moves(r, ops)
  <2>1. ASSUME NEW x \in Request, req[x].op \in {"sendWorker", "moveJob", "sync"} PROVE req'[x] # Idle
    <3>1. req[x] # Idle /\ req[x].op \notin ops
      BY <2>1 DEF Idle, WorkOps, JobOps, OfInvoice
    <3>2. CASE \E r : Moves(r, ops)
      BY <3>1, <3>2 DEF Moves, MayStart
    <3>. QED BY <1>2, <3>1, <3>2
  <2>. QED BY <1>1, <2>1, PanelStands, PaidStands
<1>3. CASE UNCHANGED territory /\ \E r \in Request : Fails(r)
  <2>1. PaidStep
    BY <1>3 DEF PaidStep, Fails
  <2>2. ASSUME ~workload.overlap, NEW r \in Request, NEW m \in Person, NEW j \in 1..Jobs,
               req[r].op \in {"sendWorker", "moveJob"}, req[r].manager = m, req[r].job = j
        PROVE  j \in Scope(m)'
    <3>1. j \in Scope(m)
      BY <2>2 DEF WorkInv, WorkChecked
    <3>. QED BY <1>3, <3>1 DEF Scope, InScope, JobExists, InFilter, ManagerCodes, AreaExists, territory, work
  <2>. QED BY <1>1, <2>1, <2>2 DEF PanelStep
<1>. QED BY <1>2, <1>3

LEMMA WorkTaken ==
  ASSUME WorkInv, RequestsOK, workload' = workload, NEW r \in Request, MayStart(r),
         NEW h, Awaits(r, h), WorkTakes(h), UNCHANGED <<work, territory>>
  PROVE  WorkInv' /\ Moves(r, WorkOps) /\ ToldStep /\ PanelStep /\ PaidStep /\ FixedStep
<1>1. /\ req'[r] = h /\ req[r] = Idle
      /\ \A x \in Request : x # r => req'[x] = req[x]
  BY Awaited DEF MayStart
<1>2. ToldStep /\ FixedStep
  BY JobsStand DEF work
<1>3. PanelStep /\ PaidStep
  <2>1. ASSUME NEW x \in Request, req[x].op \in {"sendWorker", "moveJob", "sync"} PROVE req'[x] # Idle
    BY <1>1, <2>1 DEF Idle
  <2>. QED BY <2>1, PanelStands, PaidStands
<1>4. Moves(r, WorkOps)
  BY Started DEF WorkTakes
<1>5. WorkHolds' /\ (CompletedSettled => CompletedSettled')
  BY DEF WorkInv, WorkHolds, WorkTypeOK, WorkBlank, OneInvoice, work, CompletedSettled, JobSettled, InvoicesOf
<1>6. ASSUME NEW x \in Request
      PROVE  /\ WorkHandler(req'[x])
             /\ ~workload.overlap => WorkChecked(req'[x])
             /\ Calm => Phase(req'[x])
  BY <1>1 DEF WorkInv, WorkTakes
<1>7. ASSUME NEW x \in Request
      PROVE  /\ WorkHandler(req[x])'
             /\ WorkChecked(req'[x]) => WorkChecked(req[x])'
             /\ Phase(req'[x]) => Phase(req[x])'
  <2>1. WorkHandler(req[x])'
    BY <1>6 DEF WorkHandler, work
  <2>2. WorkChecked(req'[x]) => WorkChecked(req[x])'
    BY DEF WorkChecked, work, territory, Scope, InScope, InTeam, Has,
         InFilter, Exists, JobExists, ManagerCodes, AreaExists
  <2>3. Phase(req'[x]) => Phase(req[x])'
    <3>1. invoice' = invoice /\ job' = job
      BY DEF work
    <3>2. ASSUME NEW i
          PROVE  /\ Due(invoice[i])' <=> Due(invoice[i])
                 /\ Returned(invoice[i])' <=> Returned(invoice[i])
      BY <3>1 DEF Due, Returned, RowPaid
    <3>3. ASSUME NEW i, NEW a PROVE Covered(invoice[i], a)' <=> Covered(invoice[i], a)
      BY <3>1 DEF Covered, RowPaid
    <3>4. ASSUME NEW i PROVE RowPaid(invoice[i])' = RowPaid(invoice[i])
      BY <3>1 DEF RowPaid
    <3>5. ASSUME NEW j PROVE JobSettled(j)' <=> JobSettled(j)
      BY <3>1 DEF JobSettled, InvoicesOf
    <3>. QED BY <3>1, <3>2, <3>3, <3>4, <3>5 DEF Phase
  <2>. QED BY <2>1, <2>2, <2>3
<1>8. Calm => MoneySound'
  <2>1. Calm => \A i \in 1..Invoices : invoice[i].row = "present" => RowSound(invoice[i])
    BY AllSound DEF Calm, MayStart
  <2>. QED BY <2>1 DEF MoneySound, RowSound, RowPaid, work
<1>9. (Calm <=> Calm') /\ workload'.overlap = workload.overlap
  BY DEF Calm
<1>. QED BY <1>2, <1>3, <1>4, <1>5, <1>6, <1>7, <1>8, <1>9 DEF WorkInv

\* What a write leaves to be done, and what is known of it then.
WorkLeaves(g) ==
  /\ g.op \in {"notify", "placeOrder", "insertOrder", "sync", "refunded", "moveInvoice"}
  /\ g.op = "notify" => g.job \in 1..Jobs /\ job'[g.job].status = "PENDING_PAYMENT"
  /\ g.op # "notify" => g.invoice \in 1..Invoices /\ invoice'[g.invoice].row = "present"
  /\ g.op = "placeOrder" => g.type \in PaymentType
  /\ g.op = "insertOrder" => g.order \in OpenOrder
  /\ g.op = "sync" => g.online \in BOOLEAN
  /\ g.op = "sync" /\ Calm => Due(invoice'[g.invoice])
  /\ g.op = "refunded" /\ Calm => Returned(invoice'[g.invoice])
  /\ g.op = "moveInvoice" => g.status = "PAID" /\ (Calm => Covered(invoice'[g.invoice], 0))

\* After a write, what holds of the handlers, from what holds of the tables.
LEMMA WorkMoved ==
  ASSUME WorkInv, RequestsOK, workload' = workload, NEW r \in Request, req[r].op \in WorkOps,
         NEW g, (Reply(r) /\ g = Idle) \/ (Awaits(r, g) /\ WorkLeaves(g)),
         WorkHolds', Calm => CompletedSettled',
         \A i \in 1..Invoices : invoice[i].row = "present" => invoice'[i].row = "present",
         Calm => \A i \in 1..Invoices : invoice'[i].row = "present" =>
                   RowSound(invoice'[i]) \/ Loose(g, i)
  PROVE  WorkInv' /\ Moves(r, WorkOps)
<1>1. /\ req'[r] = g /\ req[r] # Idle
      /\ \A x \in Request : x # r => req'[x] = req[x]
  BY Awaited, Replied DEF Idle, WorkOps, JobOps, OfInvoice
<1>2. ~workload.overlap => \A x \in Request : x # r => req'[x] = Idle
  BY <1>1 DEF RequestsOK
<1>3. Moves(r, WorkOps)
  BY Continued DEF WorkLeaves, WorkOps, JobOps, OfInvoice
<1>4. ASSUME NEW x \in Request PROVE WorkHandler(req[x])'
  <2>1. CASE x = r
    <3>1. CASE g = Idle
      BY <1>1, <2>1, <3>1 DEF WorkHandler, Idle, JobOps, OfInvoice
    <3>2. CASE WorkLeaves(g)
      BY <1>1, <2>1, <3>2 DEF WorkLeaves, WorkHandler, JobOps, OfInvoice
    <3>. QED BY <3>1, <3>2
  <2>2. CASE x # r
    <3>1. WorkHandler(req[x]) /\ req'[x] = req[x]
      BY <1>1, <2>2 DEF WorkInv
    <3>2. req[x].op \in OfInvoice => invoice'[req[x].invoice].row = "present"
      BY <3>1 DEF WorkHandler
    <3>. QED BY <3>1, <3>2 DEF WorkHandler
  <2>. QED BY <2>1, <2>2
<1>5. ASSUME ~workload.overlap, NEW x \in Request
      PROVE  WorkChecked(req[x])' /\ (Calm => Phase(req[x])')
  <2>1. CASE req'[x] = Idle
    BY <2>1 DEF WorkChecked, Phase, Idle
  <2>2. CASE req'[x] = g /\ WorkLeaves(g)
    <3>1. WorkChecked(req[x])'
      BY <2>2 DEF WorkLeaves, WorkChecked
    <3>2. Calm => Phase(req[x])'
      BY <2>2 DEF WorkLeaves, Phase, Due, Returned, Covered, RowPaid
    <3>. QED BY <3>1, <3>2
  <2>. QED BY <1>1, <1>2, <1>5, <2>1, <2>2
<1>6. Calm => MoneySound'
  <2>1. ASSUME Calm, NEW i \in 1..Invoices, invoice'[i].row = "present"
        PROVE  RowSound(invoice'[i]) \/ \E x \in Request : Loose(req'[x], i)
    BY <1>1, <2>1
  <2>2. ASSUME NEW i \in 1..Invoices PROVE RowSound(invoice[i])' <=> RowSound(invoice'[i])
    BY DEF RowSound, RowPaid
  <2>3. ASSUME NEW i \in 1..Invoices, NEW x \in Request PROVE Loose(req[x], i)' <=> Loose(req'[x], i)
    BY DEF Loose
  <2>. QED BY <2>1, <2>2, <2>3 DEF MoneySound
<1>7. (Calm <=> Calm') /\ workload'.overlap = workload.overlap
  BY DEF Calm
<1>8. Calm => ~workload.overlap
  BY DEF Calm
<1>. QED BY <1>3, <1>4, <1>5, <1>6, <1>7, <1>8 DEF WorkInv

\* One row of the jobs is written.
LEMMA JobSet ==
  ASSUME WorkHolds, workload' = workload, NEW j \in 1..Jobs, NEW q \in JobRow, q.row # "absent",
         job' = [job EXCEPT ![j] = q], UNCHANGED <<invoice, duty>>
  PROVE  /\ WorkHolds'
         /\ \A i \in 1..Invoices : invoice'[i] = invoice[i]
         /\ CompletedSettled
              /\ (q.row = "present" /\ q.status = "COMPLETED" /\ ~q.collected => JobSettled(j))
              => CompletedSettled'
         /\ q.told = job[j].told => ToldStep
         /\ (Calm /\ job[j].row = "present" /\ job[j].status = "COMPLETED" =>
               \/ q.row # "present"
               \/ [q EXCEPT !.collected = TRUE] = [job[j] EXCEPT !.collected = TRUE])
              => FixedStep
<1>t. /\ job \in [1..Jobs -> JobRow] /\ job'[j] = q
      /\ \A k \in 1..Jobs : k # j => job'[k] = job[k]
  BY DEF WorkHolds, WorkTypeOK
<1>0. \A k \in 1..Jobs : k # 0 /\ InvoicesOf(k)' = InvoicesOf(k) /\ (JobSettled(k)' <=> JobSettled(k))
  BY DEF InvoicesOf, JobSettled
<1>1. WorkHolds'
  BY <1>t DEF WorkHolds, WorkTypeOK, WorkBlank, OneInvoice
<1>2. ASSUME CompletedSettled, q.row = "present" /\ q.status = "COMPLETED" /\ ~q.collected => JobSettled(j)
      PROVE  CompletedSettled'
  BY <1>t, <1>0, <1>2 DEF CompletedSettled
<1>3. ASSUME q.told = job[j].told PROVE ToldStep
  <2>1. \A k \in 1..Jobs : job'[k].told = job[k].told
    BY <1>t, <1>3
  <2>. QED BY <2>1 DEF ToldStep
<1>4. ASSUME Calm /\ job[j].row = "present" /\ job[j].status = "COMPLETED" =>
               \/ q.row # "present"
               \/ [q EXCEPT !.collected = TRUE] = [job[j] EXCEPT !.collected = TRUE]
      PROVE  FixedStep
  <2>1. \A k \in 1..Jobs : Amount(k)' = Amount(k)
    BY <1>0, AmountSame
  <2>2. \A k \in 1..Jobs : k # j => job'[k] = job[k]
    BY <1>t
  <2>. QED BY <1>t, <1>4, <2>1, <2>2 DEF FixedStep, JobExists
<1>. QED BY <1>1, <1>2, <1>3, <1>4

\* A booking whose payment was awaited goes on.
GoesOn(p, q) == p.row = "present" /\ p.status = "PENDING_PAYMENT" /\ q = [p EXCEPT !.status = "PENDING"]

JobsGoOn ==
  /\ job' \in [1..Jobs -> JobRow]
  /\ \A j \in 1..Jobs : job'[j] = job[j] \/ GoesOn(job[j], job'[j])

\* A job that has been completed and not collected has invoices nobody edits.
LEMMA InvoiceSet ==
  ASSUME WorkHolds, workload' = workload, NEW i \in 1..Invoices, NEW q \in InvoiceRow,
         invoice[i].row = "present", q.row = "present", q.job = invoice[i].job,
         invoice' = [invoice EXCEPT ![i] = q], duty' = duty, JobsGoOn
  PROVE  /\ WorkHolds'
         /\ \A k \in 1..Invoices : invoice[k].row = "present" => invoice'[k].row = "present"
         /\ invoice'[i] = q /\ \A k \in 1..Invoices : k # i => invoice'[k] = invoice[k]
         /\ CompletedSettled
              /\ (q.status \in {"DRAFT", "SENT"} => invoice[i].status \in {"DRAFT", "SENT"})
              => CompletedSettled'
         /\ ToldStep
         /\ (Calm =>
               /\ CompletedSettled
               /\ \/ q.total = invoice[i].total
                  \/ invoice[i].status \in {"DRAFT", "SENT"}
                  \/ invoice[i].job \in 1..Jobs /\ Life!NotTerminal(job[invoice[i].job].status))
              => FixedStep
<1>t. /\ job \in [1..Jobs -> JobRow] /\ invoice \in [1..Invoices -> InvoiceRow] /\ invoice'[i] = q
      /\ \A k \in 1..Invoices : k # i => invoice'[k] = invoice[k]
  BY DEF WorkHolds, WorkTypeOK
<1>j. ASSUME NEW j \in 1..Jobs
      PROVE  /\ job'[j].row = job[j].row /\ job'[j].told = job[j].told
             /\ job'[j].collected = job[j].collected
             /\ (job[j].row = "present" /\ job[j].status = "COMPLETED" => job'[j] = job[j])
             /\ (job'[j].status = "COMPLETED" => job[j].status = "COMPLETED")
             /\ (job[j].row = "absent" => job'[j] = job[j])
  <2>1. job[j] \in JobRow
    BY <1>t
  <2>. QED BY <2>1 DEF JobsGoOn, GoesOn, JobRow
<1>0. \A k \in 1..Jobs : InvoicesOf(k)' = InvoicesOf(k)
  BY <1>t DEF InvoicesOf
<1>1. WorkHolds'
  <2>1. WorkTypeOK'
    BY <1>t DEF WorkHolds, WorkTypeOK, JobsGoOn
  <2>2. WorkBlank'
    BY <1>t, <1>j DEF WorkHolds, WorkBlank
  <2>3. OneInvoice'
    BY <1>t DEF WorkHolds, OneInvoice
  <2>. QED BY <2>1, <2>2, <2>3 DEF WorkHolds
<1>2. ASSUME CompletedSettled,
             q.status \in {"DRAFT", "SENT"} => invoice[i].status \in {"DRAFT", "SENT"}
      PROVE  CompletedSettled'
  <2>1. ASSUME NEW j \in 1..Jobs, JobSettled(j) PROVE JobSettled(j)'
    <3>1. \A k \in InvoicesOf(j) : k \in 1..Invoices
      BY DEF InvoicesOf
    <3>. QED BY <1>t, <1>0, <1>2, <2>1, <3>1 DEF JobSettled
  <2>. QED BY <1>j, <1>2, <2>1 DEF CompletedSettled
<1>3. ToldStep
  BY <1>j DEF ToldStep
<1>4. ASSUME Calm => /\ CompletedSettled
                     /\ \/ q.total = invoice[i].total
                        \/ invoice[i].status \in {"DRAFT", "SENT"}
                        \/ invoice[i].job \in 1..Jobs /\ Life!NotTerminal(job[invoice[i].job].status)
      PROVE  FixedStep
  <2>1. SUFFICES ASSUME Calm, NEW j \in 1..Jobs, job[j].row = "present", job[j].status = "COMPLETED",
                        ~job[j].collected
                 PROVE  Amount(j)' = Amount(j)
    BY <1>j DEF FixedStep, JobExists
  <2>2. JobSettled(j)
    BY <1>4, <2>1 DEF CompletedSettled
  <2>3. ~Life!NotTerminal(job[j].status)
    BY <2>1 DEF Life!NotTerminal, Life!TERMINAL_STATUSES
  <2>4. ASSUME NEW k \in InvoicesOf(j) PROVE invoice'[k].total = invoice[k].total
    <3>1. k \in 1..Invoices /\ invoice[k].job = j
      BY DEF InvoicesOf
    <3>. QED BY <1>t, <1>4, <2>1, <2>2, <2>3, <3>1 DEF JobSettled
  <2>. QED BY <1>0, <2>4, AmountSame
<1>. QED BY <1>t, <1>1, <1>2, <1>3, <1>4

\* One is issued, of a job that has none or of no job.
LEMMA InvoiceIssued ==
  ASSUME WorkHolds, workload' = workload, NEW i \in 1..Invoices, NEW q \in InvoiceRow,
         invoice[i].row = "absent", q.row = "present", q.job = 0 \/ InvoicesOf(q.job) = {},
         invoice' = [invoice EXCEPT ![i] = q], UNCHANGED <<job, duty>>
  PROVE  /\ WorkHolds'
         /\ invoice'[i] = q /\ \A k \in 1..Invoices : k # i => invoice'[k] = invoice[k]
         /\ CompletedSettled => CompletedSettled'
         /\ ToldStep
         /\ (Calm => CompletedSettled) => FixedStep
<1>t. /\ invoice \in [1..Invoices -> InvoiceRow] /\ invoice'[i] = q
      /\ \A k \in 1..Invoices : k # i => invoice'[k] = invoice[k]
  BY DEF WorkHolds, WorkTypeOK
<1>0. ASSUME NEW j \in 1..Jobs, InvoicesOf(j) # {}
      PROVE  InvoicesOf(j)' = InvoicesOf(j) /\ (\A k \in InvoicesOf(j) : invoice'[k] = invoice[k])
  <2>1. q.job # j
    BY <1>0
  <2>. QED BY <1>t, <2>1 DEF InvoicesOf
<1>1. WorkHolds'
  <2>1. WorkTypeOK' /\ WorkBlank'
    BY <1>t DEF WorkHolds, WorkTypeOK, WorkBlank
  <2>2. OneInvoice'
    BY <1>t DEF WorkHolds, OneInvoice, InvoicesOf
  <2>. QED BY <2>1, <2>2 DEF WorkHolds
<1>2. ASSUME NEW j \in 1..Jobs, JobSettled(j) PROVE JobSettled(j)'
  BY <1>0, <1>2 DEF JobSettled
<1>3. ASSUME CompletedSettled PROVE CompletedSettled'
  BY <1>2, <1>3 DEF CompletedSettled
<1>4. ToldStep
  BY DEF ToldStep
<1>5. ASSUME Calm => CompletedSettled PROVE FixedStep
  <2>1. SUFFICES ASSUME Calm, NEW j \in 1..Jobs, job[j].row = "present", job[j].status = "COMPLETED",
                        ~job[j].collected
                 PROVE  Amount(j)' = Amount(j)
    BY DEF FixedStep, JobExists
  <2>2. InvoicesOf(j) # {}
    BY <1>5, <2>1 DEF CompletedSettled, JobSettled
  <2>. QED BY <1>0, <2>2, AmountSame
<1>. QED BY <1>t, <1>1, <1>3, <1>4, <1>5

\* A handler alone leaves in doubt only the invoice it has been paid for.
LEMMA BusySound ==
  ASSUME WorkInv, RequestsOK, Calm, NEW r \in Request, req[r].op \in WorkOps,
         NEW i \in 1..Invoices, invoice[i].row = "present", ~Loose(req[r], i)
  PROVE  RowSound(invoice[i])
<1>1. req[r] # Idle
  BY DEF Idle, WorkOps, JobOps, OfInvoice
<1>2. ASSUME NEW x \in Request, Loose(req[x], i) PROVE FALSE
  <2>1. req[x] # Idle
    BY <1>2 DEF Loose, Idle
  <2>2. x = r
    BY <1>1, <2>1 DEF RequestsOK, Calm
  <2>. QED BY <1>2, <2>2
<1>. QED BY <1>2 DEF WorkInv, MoneySound

\* A write that is none of a manager's, and no payment's end.
LEMMA NoneEnds ==
  ASSUME RequestsOK, NEW r \in Request, Reply(r) \/ (\E g : Awaits(r, g)),
         req[r].op \notin {"sendWorker", "moveJob", "sync"}
  PROVE  PanelStep /\ PaidStep
<1>1. \A x \in Request : x # r => req'[x] = req[x]
  BY Awaited, Replied
<1>2. ASSUME NEW x \in Request, req[x].op \in {"sendWorker", "moveJob", "sync"} PROVE req'[x] # Idle
  BY <1>1, <1>2 DEF Idle
<1>. QED BY <1>2, PanelStands, PaidStands

LEMMA JobWrite ==
  ASSUME WorkInv, RequestsOK, workload' = workload, UNCHANGED territory,
         NEW r \in Request, JobWrites(r)
  PROVE  WorkInv' /\ Moves(r, WorkOps) /\ ToldStep /\ PanelStep /\ PaidStep /\ FixedStep
<1>. DEFINE h == req[r]
            j == h.job
            Goal == WorkInv' /\ Moves(r, WorkOps) /\ ToldStep /\ PanelStep /\ PaidStep /\ FixedStep
<1>t. /\ WorkHolds /\ WorkHandler(h) /\ (~workload.overlap => WorkChecked(h))
      /\ (Calm => CompletedSettled) /\ (Calm => Phase(h))
      /\ job \in [1..Jobs -> JobRow] /\ (\A k \in 1..Jobs : job[k] \in JobRow)
      /\ (Calm => ~workload.overlap)
  BY DEF WorkInv, WorkHolds, WorkTypeOK, Calm
<1>b. ASSUME h.op \in JobOps, Calm, NEW i \in 1..Invoices, invoice[i].row = "present"
      PROVE  RowSound(invoice[i])
  BY <1>b, BusySound DEF WorkOps, Loose, JobOps
<1>. SUFFICES Goal
  OBVIOUS
\* What one row needs.
<1>s. ASSUME h.op \in JobOps \ {"sendWorker", "moveJob"}, j \in 1..Jobs, NEW q \in JobRow,
             Reply(r), UNCHANGED <<invoice, duty>>, SetJob(j, q),
             q.row # "absent", q.status = job[j].status,
             q.told # job[j].told => ToldStep,
             [q EXCEPT !.collected = TRUE] = [job[j] EXCEPT !.collected = TRUE]
               \/ (Calm => job[j].status # "COMPLETED"),
             job[j].collected => q.collected
      PROVE  Goal
  <2>1. CASE job' = job
    <3>1. WorkHolds' /\ (CompletedSettled => CompletedSettled')
      BY <1>t, <1>s, <2>1 DEF WorkHolds, WorkTypeOK, WorkBlank, OneInvoice, CompletedSettled, JobSettled, InvoicesOf
    <3>2. WorkInv' /\ Moves(r, WorkOps)
      BY <1>b, <1>s, <1>t, <3>1, WorkMoved DEF WorkOps
    <3>3. ToldStep /\ FixedStep
      BY <1>s, <2>1, JobsStand
    <3>. QED BY <1>s, <3>2, <3>3, NoneEnds DEF JobOps
  <2>2. CASE job' = [job EXCEPT ![j] = q] /\ JobExists(j)
    <3>1. /\ WorkHolds' /\ FixedStep /\ (q.told = job[j].told => ToldStep)
          /\ \A i \in 1..Invoices : invoice'[i] = invoice[i]
      BY <1>t, <1>s, <2>2, JobSet
    <3>2. ASSUME Calm PROVE q.row = "present" /\ q.status = "COMPLETED" /\ ~q.collected => JobSettled(j)
      BY <1>s, <1>t, <2>2, <3>2 DEF CompletedSettled, JobExists
    <3>3. Calm => CompletedSettled'
      BY <1>t, <1>s, <2>2, <3>2, JobSet
    <3>4. WorkInv' /\ Moves(r, WorkOps)
      BY <1>b, <1>s, <1>t, <3>1, <3>3, WorkMoved DEF WorkOps
    <3>. QED BY <1>s, <3>1, <3>4, NoneEnds DEF JobOps
  <2>. QED BY <1>s, <2>1, <2>2 DEF SetJob
<1>1. CASE CreateJobWrite(r)
  <2>1. /\ h.op = "createJob" /\ h.customer \in Person /\ h.code \in Code /\ UNCHANGED <<invoice, duty>>
    BY <1>t, <1>1 DEF CreateJobWrite, Resumes, WorkHandler
  <2>2. PICK k \in NextRow(job, Jobs) :
          /\ job' = [job EXCEPT ![k] = [@ EXCEPT !.row = "present", !.code = h.code,
                                                 !.customer = h.customer]]
          /\ Awaits(r, [op |-> "notify", job |-> k])
    BY <1>1 DEF CreateJobWrite
  <2>. DEFINE q == [job[k] EXCEPT !.row = "present", !.code = h.code, !.customer = h.customer]
              g == [op |-> "notify", job |-> k]
  <2>3. k \in 1..Jobs /\ job[k].row = "absent"
    BY DEF NextRow
  <2>4. job[k].status = "PENDING_PAYMENT"
    BY <1>t, <2>3 DEF WorkHolds, WorkBlank
  <2>5. job' = [job EXCEPT ![k] = q]
    BY <1>t, <2>2, <2>3
  <2>6. /\ q \in JobRow /\ q.row = "present" /\ q.status = "PENDING_PAYMENT" /\ q.told = job[k].told
    BY <1>t, <2>1, <2>3, <2>4 DEF JobRow
  <2>. HIDE DEF q
  <2>7. /\ WorkHolds' /\ FixedStep /\ ToldStep /\ (CompletedSettled => CompletedSettled')
        /\ \A i \in 1..Invoices : invoice'[i] = invoice[i]
    BY <1>t, <2>1, <2>3, <2>4, <2>5, <2>6, JobSet
  <2>8. job'[k].status = "PENDING_PAYMENT"
    BY <1>t, <2>3, <2>5, <2>6
  <2>9. WorkLeaves(g) /\ Awaits(r, g) /\ h.op \in WorkOps /\ h.op \in JobOps
    BY <2>1, <2>2, <2>3, <2>8 DEF WorkLeaves, WorkOps, JobOps
  <2>. HIDE DEF g
  <2>10. WorkInv' /\ Moves(r, WorkOps)
    BY <1>b, <1>t, <2>7, <2>9, WorkMoved
  <2>. QED BY <2>1, <2>7, <2>9, <2>10, NoneEnds
<1>2. CASE NotifyAreaManagers(r)
  <2>1. /\ h.op = "notify" /\ j \in 1..Jobs /\ UNCHANGED <<invoice, duty>> /\ Reply(r)
        /\ Calm => job[j].status # "COMPLETED"
    BY <1>t, <1>2 DEF NotifyAreaManagers, Resumes, WorkHandler, WorkChecked, JobOps
  <2>2. CASE job' = job
    <3>1. WorkHolds' /\ (CompletedSettled => CompletedSettled')
      BY <1>t, <2>1, <2>2 DEF WorkHolds, WorkTypeOK, WorkBlank, OneInvoice, CompletedSettled, JobSettled, InvoicesOf
    <3>2. h.op \in JobOps /\ h.op \in WorkOps
      BY <2>1 DEF JobOps, WorkOps
    <3>3. WorkInv' /\ Moves(r, WorkOps)
      BY <1>b, <2>1, <1>t, <3>1, <3>2, WorkMoved
    <3>4. ToldStep /\ FixedStep
      BY <2>1, <2>2, JobsStand
    <3>. QED BY <2>1, <3>3, <3>4, NoneEnds
  <2>3. CASE \E a \in Served(job[j].code) : SetJob(j, [job[j] EXCEPT !.told = ManagersOf(a)])
    <3>1. PICK a \in Served(job[j].code) : SetJob(j, [job[j] EXCEPT !.told = ManagersOf(a)])
      BY <2>3
    <3>. DEFINE told == ManagersOf(a)
                q == [job[j] EXCEPT !.told = told]
    <3>2. told \in SUBSET Person
      BY DEF ManagersOf
    <3>3. a \in 1..Areas /\ AreaExists(a) /\ area[a].active /\ AreaCode[a] = job[j].code
      BY DEF Served
    <3>4. \A m \in told : m \in Person /\ a \in person[m].areas
      BY DEF ManagersOf
    <3>. HIDE DEF told
    <3>5. q \in JobRow /\ q.row = job[j].row /\ q.status = job[j].status /\ q.collected = job[j].collected
          /\ q.told = told /\ q.code = job[j].code
      BY <1>t, <2>1, <3>2 DEF JobRow
    <3>6. SetJob(j, q)
      BY <3>1 DEF told
    <3>. HIDE DEF q
    <3>7. q.row # "absent" \/ job' = job
      BY <3>5, <3>6 DEF SetJob, JobExists
    <3>8. ToldStep
      <4>1. CASE job' = job
        BY <2>1, <4>1, JobsStand
      <4>2. CASE job' = [job EXCEPT ![j] = q] /\ JobExists(j)
        <5>1. /\ job'[j] = q /\ \A k \in 1..Jobs : k # j => job'[k] = job[k]
          BY <1>t, <2>1, <4>2
        <5>2. SUFFICES ASSUME NEW m \in q.told
                       PROVE  /\ j \in TodayRequests(m)'
                              /\ person[m].pincodes = {} => j \in Scope(m)' \intersect OlderScope(m)'
          BY <5>1 DEF ToldStep
        <5>3. /\ job'[j].row = "present" /\ job'[j].code = AreaCode[a] /\ a \in person[m].areas
              /\ UNCHANGED <<person, area, pincode>>
          BY <3>3, <3>4, <3>5, <4>2, <5>1 DEF JobExists, territory
        <5>4. j \in TodayRequests(m)'
          BY <2>1, <5>3 DEF TodayRequests, JobExists
        <5>5. ASSUME person[m].pincodes = {} PROVE AreaCode[a] \in ManagerCodes(m)'
          BY <3>3, <5>3, <5>5 DEF ManagerCodes, AreaExists
        <5>6. ASSUME person[m].pincodes = {} PROVE j \in Scope(m)' \intersect OlderScope(m)'
          BY <2>1, <5>3, <5>5, <5>6 DEF Scope, InScope, OlderScope, JobExists
        <5>. QED BY <5>4, <5>6
      <4>. QED BY <3>6, <4>1, <4>2 DEF SetJob
    <3>9. CASE q.row # "absent"
      BY <1>s, <2>1, <3>5, <3>6, <3>8, <3>9 DEF JobOps
    <3>10. CASE job' = job
      BY <2>2, <3>10
    <3>. QED BY <3>7, <3>9, <3>10
  <2>. QED BY <1>2, <2>2, <2>3 DEF NotifyAreaManagers
<1>3. CASE CollectPaymentWrite(r)
  <2>1. /\ h.op = "collectPayment" /\ j \in 1..Jobs /\ UNCHANGED <<invoice, duty>> /\ Reply(r)
    BY <1>t, <1>3 DEF CollectPaymentWrite, Resumes, WorkHandler, JobOps
  <2>. DEFINE q == [job[j] EXCEPT !.collected = TRUE]
  <2>0. job[j] \in JobRow
    BY <1>t, <2>1
  <2>2. /\ q \in JobRow /\ q.row = job[j].row /\ q.status = job[j].status /\ q.told = job[j].told
        /\ q.collected = TRUE /\ [q EXCEPT !.collected = TRUE] = [job[j] EXCEPT !.collected = TRUE]
    <3>. DEFINE p == job[j]
    <3>. HIDE DEF j
    <3>1. p \in JobRow
      BY <2>0
    <3>. HIDE DEF p
    <3>2. [p EXCEPT !.collected = TRUE] \in JobRow
      BY <3>1 DEF JobRow
    <3>3. [[p EXCEPT !.collected = TRUE] EXCEPT !.collected = TRUE] = [p EXCEPT !.collected = TRUE]
      BY <3>1 DEF JobRow
    <3>4. /\ [p EXCEPT !.collected = TRUE].row = p.row
          /\ [p EXCEPT !.collected = TRUE].status = p.status
          /\ [p EXCEPT !.collected = TRUE].told = p.told
          /\ [p EXCEPT !.collected = TRUE].collected = TRUE
      BY <3>1 DEF JobRow
    <3>. QED BY <3>2, <3>3, <3>4 DEF p
  <2>3. SetJob(j, q)
    BY <1>3 DEF CollectPaymentWrite
  <2>. HIDE DEF q
  <2>4. CASE job[j].row # "absent"
    BY <1>s, <2>1, <2>2, <2>3, <2>4 DEF JobOps
  <2>5. CASE job[j].row = "absent"
    <3>0. job' = job
      BY <2>3, <2>5 DEF SetJob, JobExists
    <3>1. WorkHolds' /\ (CompletedSettled => CompletedSettled')
      BY <1>t, <2>1, <3>0 DEF WorkHolds, WorkTypeOK, WorkBlank, OneInvoice, CompletedSettled, JobSettled, InvoicesOf
    <3>2. h.op \in JobOps /\ h.op \in WorkOps
      BY <2>1 DEF JobOps, WorkOps
    <3>3. WorkInv' /\ Moves(r, WorkOps)
      BY <1>b, <2>1, <1>t, <3>1, <3>2, WorkMoved
    <3>4. ToldStep /\ FixedStep
      BY <2>1, <3>0, JobsStand
    <3>. QED BY <2>1, <3>3, <3>4, NoneEnds
  <2>. QED BY <2>4, <2>5
<1>4. CASE RemoveJobWrite(r)
  <2>1. /\ h.op = "removeJob" /\ h.op \in JobOps /\ h.op \in WorkOps /\ j \in 1..Jobs /\ duty' = duty
        /\ Reply(r)
    BY <1>t, <1>4 DEF RemoveJobWrite, Resumes, WorkHandler, JobOps, WorkOps
  <2>. DEFINE q == [job[j] EXCEPT !.row = "gone"]
              left(i) == IF i \in InvoicesOf(j) THEN [invoice[i] EXCEPT !.job = 0] ELSE invoice[i]
  <2>2. SetJob(j, q) /\ invoice' = [i \in 1..Invoices |-> left(i)]
    BY <1>4 DEF RemoveJobWrite
  <2>3. job[j] \in JobRow
    BY <1>t, <2>1
  <2>4. q \in JobRow /\ q.row = "gone" /\ q.told = job[j].told
    BY <2>3 DEF JobRow
  <2>5. ASSUME NEW i \in 1..Invoices
        PROVE  /\ left(i) \in InvoiceRow /\ left(i).row = invoice[i].row
               /\ left(i).status = invoice[i].status /\ left(i).total = invoice[i].total
               /\ left(i).payments = invoice[i].payments /\ left(i).late = invoice[i].late
               /\ left(i).job # 0 => invoice[i].job = left(i).job
               /\ left(i).row = "present" => left(i).job # j
               /\ invoice[i].job # j => left(i).job = invoice[i].job
    <3>1. invoice[i] \in InvoiceRow /\ 0 \in 0..Jobs /\ j # 0
      BY <1>t, <2>1, JobsAssumption DEF WorkHolds, WorkTypeOK
    <3>. HIDE DEF j
    <3>2. CASE i \in InvoicesOf(j)
      <4>1. [invoice[i] EXCEPT !.job = 0] \in InvoiceRow
        BY <3>1 DEF InvoiceRow
      <4>. QED BY <3>1, <3>2, <4>1 DEF InvoiceRow, InvoicesOf
    <3>3. CASE i \notin InvoicesOf(j)
      BY <3>1, <3>3 DEF InvoiceRow, InvoicesOf
    <3>. QED BY <3>2, <3>3
  <2>6. \A i \in 1..Invoices : invoice'[i] = left(i)
    BY <2>2
  <2>. HIDE DEF left
  <2>7. /\ job' \in [1..Jobs -> JobRow]
        /\ \A k \in 1..Jobs : k # j => job'[k] = job[k]
        /\ job'[j].row # "present" /\ job'[j].told = job[j].told
        /\ job[j].row # "present" => job'[j] = job[j]
        /\ job'[j].row = "absent" => job'[j] = job[j]
    <3>. HIDE DEF q, j
    <3>1. CASE JobExists(j)
      BY <1>t, <2>1, <2>2, <2>4, <3>1 DEF SetJob, JobExists
    <3>2. CASE ~JobExists(j)
      <4>1. job' = job /\ job[j].row # "present"
        BY <2>1, <2>2, <3>2 DEF SetJob, JobExists
      <4>. QED BY <1>t, <4>1
    <3>. QED BY <3>1, <3>2
  <2>. HIDE DEF q
  <2>8. WorkHolds'
    <3>1. WorkTypeOK'
      BY <1>t, <2>1, <2>2, <2>5, <2>7 DEF WorkHolds, WorkTypeOK
    <3>2. WorkBlank'
      BY <1>t, <2>5, <2>6, <2>7 DEF WorkHolds, WorkBlank
    <3>3. OneInvoice'
      BY <1>t, <2>5, <2>6 DEF WorkHolds, OneInvoice
    <3>. QED BY <3>1, <3>2, <3>3 DEF WorkHolds
  <2>9. ASSUME NEW k \in 1..Jobs, k # j
        PROVE  /\ InvoicesOf(k)' = InvoicesOf(k)
               /\ \A i \in InvoicesOf(k) : invoice'[i].total = invoice[i].total
                                           /\ invoice'[i].status = invoice[i].status
    BY <2>5, <2>6, <2>9 DEF InvoicesOf
  <2>10. Calm => CompletedSettled'
    BY <1>t, <2>7, <2>9 DEF CompletedSettled, JobSettled
  <2>11. Calm => \A i \in 1..Invoices : invoice'[i].row = "present" => RowSound(invoice'[i])
    BY <1>b, <2>1, <2>5, <2>6 DEF RowSound, RowPaid
  <2>12. \A i \in 1..Invoices : invoice[i].row = "present" => invoice'[i].row = "present"
    BY <2>5, <2>6
  <2>13. WorkInv' /\ Moves(r, WorkOps)
    BY <1>t, <2>1, <2>8, <2>10, <2>11, <2>12, WorkMoved
  <2>14. ToldStep
    BY <2>7 DEF ToldStep
  <2>15. FixedStep
    <3>1. ASSUME NEW k \in 1..Jobs, k # j PROVE Amount(k)' = Amount(k)
      BY <2>9, <3>1, AmountSame
    <3>. QED BY <2>7, <3>1 DEF FixedStep, JobExists
  <2>. QED BY <2>1, <2>13, <2>14, <2>15, NoneEnds
\* What a manager, or an administrator, does to a job.
<1>u. ASSUME h.op \in {"assignManager", "sendWorker", "moveJob"}, NEW q \in JobRow,
             q.row = job[j].row, q.told = job[j].told,
             UNCHANGED <<invoice, duty>>, Reply(r), SetJob(j, q),
             Calm => (q.status = "COMPLETED" /\ ~q.collected => JobSettled(j))
      PROVE  WorkInv' /\ Moves(r, WorkOps) /\ ToldStep /\ FixedStep
  <2>1. h.op \in JobOps /\ h.op \in WorkOps /\ j \in 1..Jobs /\ j # 0
    BY <1>t, <1>u DEF WorkHandler, JobOps, WorkOps
  <2>2. CASE ~JobExists(j)
    <3>0. job' = job
      BY <1>u, <2>2 DEF SetJob
    <3>1. WorkHolds' /\ (CompletedSettled => CompletedSettled')
      BY <1>t, <1>u, <3>0 DEF WorkHolds, WorkTypeOK, WorkBlank, OneInvoice, CompletedSettled, JobSettled, InvoicesOf
    <3>3. WorkInv' /\ Moves(r, WorkOps)
      BY <1>b, <1>u, <2>1, <1>t, <3>1, WorkMoved
    <3>4. ToldStep /\ FixedStep
      BY <1>u, <3>0, JobsStand
    <3>. QED BY <3>3, <3>4
  <2>3. CASE JobExists(j)
    <3>0. job' = [job EXCEPT ![j] = q] /\ q.row # "absent" /\ job[j].row = "present"
      BY <1>u, <2>3 DEF SetJob, JobExists
    <3>1. Calm => Life!NotTerminal(job[j].status)
      BY <1>t, <1>u DEF WorkChecked
    <3>2. Calm => job[j].status # "COMPLETED"
      BY <3>1 DEF Life!NotTerminal, Life!TERMINAL_STATUSES
    <3>3. /\ WorkHolds' /\ ToldStep /\ FixedStep
          /\ \A i \in 1..Invoices : invoice'[i] = invoice[i]
      BY <1>t, <1>u, <2>1, <3>0, <3>2, JobSet
    <3>4. Calm => CompletedSettled'
      BY <1>t, <1>u, <2>1, <3>0, JobSet
    <3>5. WorkInv' /\ Moves(r, WorkOps)
      BY <1>b, <1>t, <1>u, <2>1, <3>3, <3>4, WorkMoved
    <3>. QED BY <3>3, <3>5
  <2>. QED BY <2>2, <2>3
<1>v. ASSUME h.op \in {"sendWorker", "moveJob"}, h.manager \in Person, j \in 1..Jobs,
             \A m \in Person, k \in 1..Jobs : m = h.manager /\ k = j /\ ~workload.overlap => k \in Scope(m)'
      PROVE  PanelStep
  <2>1. ASSUME ~workload.overlap, NEW x \in Request, req[x].op \in {"sendWorker", "moveJob"} PROVE x = r
    BY <1>v, <2>1 DEF RequestsOK, Idle
  <2>. QED BY <1>v, <2>1 DEF PanelStep
<1>w. ASSUME h.op # "sync", Reply(r) PROVE PaidStep
  <2>1. ASSUME NEW x \in Request, req[x].op = "sync" PROVE req'[x] # Idle
    BY <1>w, <2>1, Replied DEF Idle
  <2>. QED BY <2>1, PaidStands
<1>5. CASE AssignManagerWrite(r)
  <2>1. /\ h.op = "assignManager" /\ h.manager \in Person /\ j \in 1..Jobs
        /\ UNCHANGED <<invoice, duty>> /\ Reply(r)
    BY <1>t, <1>5 DEF AssignManagerWrite, Resumes, WorkHandler, JobOps
  <2>. DEFINE q == [job[j] EXCEPT !.manager = h.manager, !.status = "CONFIRMED"]
  <2>2. SetJob(j, q)
    BY <1>5 DEF AssignManagerWrite
  <2>3. job[j] \in JobRow
    BY <1>t, <2>1
  <2>4. q \in JobRow /\ q.row = job[j].row /\ q.status = "CONFIRMED" /\ q.told = job[j].told
    <3>1. "CONFIRMED" \in Life!Status
      BY DEF Life!Status
    <3>. QED BY <2>1, <2>3, <3>1 DEF JobRow
  <2>. HIDE DEF q
  <2>5. WorkInv' /\ Moves(r, WorkOps) /\ ToldStep /\ FixedStep
    BY <1>u, <2>1, <2>2, <2>4
  <2>. QED BY <2>1, <2>5, NoneEnds
<1>6. CASE SendWorkerWrite(r)
  <2>1. /\ h.op = "sendWorker" /\ h.manager \in Person /\ h.worker \in Person /\ j \in 1..Jobs
        /\ UNCHANGED <<invoice, duty>> /\ Reply(r)
        /\ h.op # "sync" /\ h.op \in {"sendWorker", "moveJob"}
    BY <1>t, <1>6 DEF SendWorkerWrite, Resumes, WorkHandler, JobOps
  <2>. DEFINE q == [job[j] EXCEPT !.worker = h.worker, !.status = "ASSIGNED"]
  <2>2. SetJob(j, q)
    BY <1>6 DEF SendWorkerWrite
  <2>3. job[j] \in JobRow
    BY <1>t, <2>1
  <2>4. /\ q \in JobRow /\ q.row = job[j].row /\ q.status = "ASSIGNED" /\ q.told = job[j].told
        /\ q.worker = h.worker
    <3>1. "ASSIGNED" \in Life!Status
      BY DEF Life!Status
    <3>. QED BY <2>1, <2>3, <3>1 DEF JobRow
  <2>. HIDE DEF q
  <2>5. WorkInv' /\ Moves(r, WorkOps) /\ ToldStep /\ FixedStep
    BY <1>u, <2>1, <2>2, <2>4
  <2>6. ASSUME NEW m \in Person, m = h.manager, NEW k \in 1..Jobs, k = j, ~workload.overlap
        PROVE  k \in Scope(m)'
    <3>1. k \in Scope(m) /\ InTeam(m, h.worker)
      BY <1>t, <2>1, <2>6 DEF WorkChecked
    <3>2. JobExists(k)
      BY <3>1 DEF Scope
    <3>3. job' = [job EXCEPT ![k] = q]
      BY <2>2, <2>6, <3>2 DEF SetJob
    <3>4. job'[k] = q /\ job[k].row = "present"
      BY <1>t, <3>2, <3>3 DEF JobExists
    <3>5. job'[k].row = "present" /\ job'[k].worker = h.worker /\ job'[k].worker # None /\ k # 0
      BY <2>1, <2>4, <2>6, <3>4, TerritoryAssumption
    <3>6. InFilter(m, job'[k].worker)
      BY <3>1, <3>5 DEF InTeam
    <3>7. InFilter(m, job[k].worker)'
      BY <3>6 DEF InFilter, territory
    <3>. QED BY <3>5, <3>7 DEF Scope, InScope, JobExists
  <2>7. PanelStep
    BY <1>v, <2>1, <2>6
  <2>8. PaidStep
    BY <2>1, <1>w
  <2>. QED BY <2>5, <2>7, <2>8
<1>7. CASE MoveJobWrite(r)
  <2>1. /\ h.op = "moveJob" /\ h.manager \in Person /\ j \in 1..Jobs
        /\ h.status \in {"IN_PROGRESS", "COMPLETED", "CANCELLED"}
        /\ UNCHANGED <<invoice, duty>> /\ Reply(r)
        /\ h.op # "sync" /\ h.op \in {"sendWorker", "moveJob"}
    BY <1>t, <1>7 DEF MoveJobWrite, Resumes, WorkHandler, JobOps
  <2>. DEFINE q == [job[j] EXCEPT !.status = h.status]
  <2>2. SetJob(j, q)
    BY <1>7 DEF MoveJobWrite
  <2>3. job[j] \in JobRow
    BY <1>t, <2>1
  <2>4. /\ q \in JobRow /\ q.row = job[j].row /\ q.status = h.status /\ q.told = job[j].told
        /\ q.worker = job[j].worker /\ q.manager = job[j].manager /\ q.code = job[j].code
        /\ q.collected = job[j].collected
    <3>1. h.status \in Life!Status
      BY <2>1 DEF Life!Status
    <3>. QED BY <2>3, <3>1 DEF JobRow
  <2>. HIDE DEF q
  <2>s. Calm => (q.status = "COMPLETED" /\ ~q.collected => JobSettled(j))
    BY <1>t, <2>1, <2>4 DEF Phase
  <2>5. WorkInv' /\ Moves(r, WorkOps) /\ ToldStep /\ FixedStep
    BY <1>u, <2>1, <2>2, <2>4, <2>s
  <2>6. ASSUME NEW m \in Person, m = h.manager, NEW k \in 1..Jobs, k = j, ~workload.overlap
        PROVE  k \in Scope(m)'
    <3>1. k \in Scope(m)
      BY <1>t, <2>1, <2>6 DEF WorkChecked
    <3>2. JobExists(k)
      BY <3>1 DEF Scope
    <3>3. job' = [job EXCEPT ![k] = q]
      BY <2>2, <2>6, <3>2 DEF SetJob
    <3>4. job'[k] = q /\ job[k].row = "present"
      BY <1>t, <3>2, <3>3 DEF JobExists
    <3>5. /\ job'[k].row = "present" /\ k # 0
          /\ job'[k].worker = job[k].worker /\ job'[k].manager = job[k].manager /\ job'[k].code = job[k].code
      BY <2>4, <2>6, <3>4
    <3>6. ManagerCodes(m)' = ManagerCodes(m) /\ \A w : InFilter(m, w)' <=> InFilter(m, w)
      BY DEF ManagerCodes, AreaExists, InFilter, territory
    <3>7. InScope(m, k)
      BY <3>1 DEF Scope
    <3>8. InScope(m, k)'
      <4>1. CASE job[k].manager = m
        BY <3>5, <4>1 DEF InScope
      <4>2. CASE job[k].worker # None /\ InFilter(m, job[k].worker)
        <5>1. InFilter(m, job[k].worker)'
          BY <3>5, <4>2 DEF InFilter, territory
        <5>. QED BY <3>5, <4>2, <5>1 DEF InScope
      <4>3. CASE job[k].code \in ManagerCodes(m)
        BY <3>5, <3>6, <4>3 DEF InScope
      <4>. QED BY <3>7, <4>1, <4>2, <4>3 DEF InScope
    <3>. QED BY <3>5, <3>8 DEF Scope, JobExists
  <2>7. PanelStep
    BY <1>v, <2>1, <2>6
  <2>8. PaidStep
    BY <2>1, <1>w
  <2>. QED BY <2>5, <2>7, <2>8
<1>. QED
  BY <1>1, <1>2, <1>3, <1>4, <1>5, <1>6, <1>7 DEF JobWrites

\* What is paid, with one payment more or less.
LEMMA PaidMore ==
  ASSUME NEW p \in InvoiceRow, NEW a \in 1..Total
  PROVE  /\ AddPayment(p, a) \in InvoiceRow
         /\ RowPaid(AddPayment(p, a)) = RowPaid(p) + a
         /\ AddPayment(p, a).row = p.row /\ AddPayment(p, a).job = p.job
         /\ AddPayment(p, a).total = p.total /\ AddPayment(p, a).status = p.status
         /\ AddPayment(p, a).late = p.late /\ AddPayment(p, a).orders = p.orders
<1>. DEFINE q == AddPayment(p, a)
<1>1. /\ p.payments \in [1..2 -> Nat] /\ a \in 1..2 /\ p.payments[a] \in Nat
      /\ p.payments[1] \in Nat /\ p.payments[2] \in Nat
  BY DEF InvoiceRow, Total
<1>2. q = [p EXCEPT !.payments = [p.payments EXCEPT ![a] = p.payments[a] + 1]]
  BY DEF AddPayment, InvoiceRow
<1>3. [p.payments EXCEPT ![a] = p.payments[a] + 1] \in [1..2 -> Nat]
  BY <1>1
<1>4. /\ q \in InvoiceRow /\ q.payments = [p.payments EXCEPT ![a] = p.payments[a] + 1]
      /\ q.row = p.row /\ q.job = p.job /\ q.total = p.total /\ q.status = p.status
      /\ q.late = p.late /\ q.orders = p.orders
  BY <1>2, <1>3 DEF InvoiceRow, Total
<1>. HIDE DEF q
<1>5. RowPaid(q) = q.payments[1] + 2 * q.payments[2] /\ RowPaid(p) = p.payments[1] + 2 * p.payments[2]
  BY <1>4, PaidTypes DEF Advance, Total
<1>6. CASE a = 1
  <2>1. q.payments[1] = p.payments[1] + 1 /\ q.payments[2] = p.payments[2]
    BY <1>1, <1>4, <1>6
  <2>. QED BY <1>1, <1>4, <1>5, <1>6, <2>1 DEF q
<1>7. CASE a = 2
  <2>1. q.payments[1] = p.payments[1] /\ q.payments[2] = p.payments[2] + 1
    BY <1>1, <1>4, <1>7
  <2>. QED BY <1>1, <1>4, <1>5, <1>7, <2>1 DEF q
<1>. QED BY <1>1, <1>6, <1>7

\* Another number of open orders leaves the rest of an invoice ...
LEMMA Ordered ==
  ASSUME NEW p \in InvoiceRow, NEW o \in OpenOrder, NEW n \in Nat
  PROVE  LET q == [p EXCEPT !.orders[o] = n]
         IN  /\ q \in InvoiceRow /\ RowPaid(q) = RowPaid(p) /\ q.status = p.status
             /\ q.row = p.row /\ q.job = p.job /\ q.total = p.total /\ q.late = p.late
<1>. DEFINE q == [p EXCEPT !.orders[o] = n]
<1>1. p.orders \in [OpenOrder -> Nat]
  BY DEF InvoiceRow
<1>2. [p.orders EXCEPT ![o] = n] \in [OpenOrder -> Nat]
  BY <1>1
<1>3. q = [p EXCEPT !.orders = [p.orders EXCEPT ![o] = n]]
  BY DEF InvoiceRow
<1>. QED BY <1>2, <1>3 DEF InvoiceRow, RowPaid

\* ... and one that is paid becomes a payment.
Honoured(p, o, late) ==
  IF p.orders[o] = 0 THEN p
  ELSE [AddPayment(p, o.amount) EXCEPT !.orders[o] = @ - 1, !.late = late]

LEMMA PaidOff ==
  ASSUME NEW p \in InvoiceRow, NEW o \in OpenOrder, NEW late \in BOOLEAN
  PROVE  LET q == Honoured(p, o, late)
         IN  /\ q \in InvoiceRow /\ q.row = p.row /\ q.job = p.job /\ q.total = p.total
             /\ q.status = p.status
             /\ p.orders[o] # 0 => RowPaid(q) = RowPaid(p) + o.amount /\ q.late = late
<1>. DEFINE q == Honoured(p, o, late)
<1>1. CASE p.orders[o] = 0
  BY <1>1 DEF Honoured
<1>2. CASE p.orders[o] # 0
  <2>. DEFINE u == AddPayment(p, o.amount)
              n == p.orders[o] - 1
  <2>1. o.amount \in 1..Total /\ p.orders[o] \in Nat
    BY DEF OpenOrder, InvoiceRow
  <2>2. /\ u \in InvoiceRow /\ RowPaid(u) = RowPaid(p) + o.amount /\ u.row = p.row
        /\ u.job = p.job /\ u.total = p.total /\ u.status = p.status /\ u.orders = p.orders
    BY <2>1, PaidMore
  <2>. HIDE DEF u
  <2>3. n \in Nat /\ u.orders[o] - 1 = n
    BY <1>2, <2>1, <2>2
  <2>. HIDE DEF n
  <2>4. LET v == [u EXCEPT !.orders[o] = n]
        IN  /\ v \in InvoiceRow /\ RowPaid(v) = RowPaid(u) /\ v.status = u.status
            /\ v.row = u.row /\ v.job = u.job /\ v.total = u.total
    BY <2>2, <2>3, Ordered
  <2>. DEFINE v == [u EXCEPT !.orders[o] = n]
  <2>5. q = [v EXCEPT !.late = late]
    BY <1>2, <2>2, <2>3 DEF u, Honoured, InvoiceRow
  <2>. HIDE DEF v, q
  <2>6. v \in InvoiceRow /\ RowPaid(v) = RowPaid(u) /\ v.status = u.status /\ v.row = u.row
        /\ v.job = u.job /\ v.total = u.total
    BY <2>4 DEF v
  <2>7. /\ q \in InvoiceRow /\ q.row = v.row /\ q.job = v.job /\ q.total = v.total
        /\ q.status = v.status /\ q.late = late /\ RowPaid(q) = RowPaid(v)
    BY <2>5, <2>6 DEF InvoiceRow, RowPaid
  <2>8. RowPaid(q) = RowPaid(p) + o.amount
    BY <2>2, <2>6, <2>7
  <2>. QED BY <2>2, <2>6, <2>7, <2>8 DEF q
<1>. QED BY <1>1, <1>2

LEMMA PaidLess ==
  ASSUME NEW p \in InvoiceRow, NEW a \in 1..Total, NEW q,
         q = [p EXCEPT !.payments[a] = IF @ = 0 THEN 0 ELSE @ - 1]
  PROVE  /\ q \in InvoiceRow
         /\ p.payments[a] > 0 => RowPaid(q) + a = RowPaid(p)
         /\ q.row = p.row /\ q.job = p.job /\ q.total = p.total /\ q.status = p.status /\ q.late = p.late
<1>. DEFINE n == IF p.payments[a] = 0 THEN 0 ELSE p.payments[a] - 1
<1>1. /\ p.payments \in [1..2 -> Nat] /\ a \in 1..2 /\ p.payments[a] \in Nat
      /\ p.payments[1] \in Nat /\ p.payments[2] \in Nat
  BY DEF InvoiceRow, Total
<1>2. q = [p EXCEPT !.payments = [p.payments EXCEPT ![a] = n]]
  BY DEF InvoiceRow
<1>n. n \in Nat /\ (p.payments[a] > 0 => n + 1 = p.payments[a])
  BY <1>1
<1>. HIDE DEF n
<1>3. [p.payments EXCEPT ![a] = n] \in [1..2 -> Nat]
  BY <1>1, <1>n
<1>4. /\ q \in InvoiceRow /\ q.payments = [p.payments EXCEPT ![a] = n]
      /\ q.row = p.row /\ q.job = p.job /\ q.total = p.total /\ q.status = p.status /\ q.late = p.late
  BY <1>2, <1>3 DEF InvoiceRow, Total
<1>5. RowPaid(q) = q.payments[1] + 2 * q.payments[2] /\ RowPaid(p) = p.payments[1] + 2 * p.payments[2]
  BY <1>4, PaidTypes DEF Advance, Total
<1>6. CASE a = 1
  <2>1. q.payments[1] = n /\ q.payments[2] = p.payments[2]
    BY <1>1, <1>4, <1>6
  <2>. QED BY <1>1, <1>n, <1>4, <1>5, <1>6, <2>1
<1>7. CASE a = 2
  <2>1. q.payments[1] = p.payments[1] /\ q.payments[2] = n
    BY <1>1, <1>4, <1>7
  <2>. QED BY <1>1, <1>n, <1>4, <1>5, <1>7, <2>1
<1>. QED BY <1>1, <1>6, <1>7

\* What a status becomes leaves the rest of an invoice.
LEMMA Restated ==
  ASSUME NEW p \in InvoiceRow, NEW s \in InvoiceStatus
  PROVE  LET q == [p EXCEPT !.status = s]
         IN  /\ q \in InvoiceRow /\ q.status = s /\ RowPaid(q) = RowPaid(p)
             /\ q.row = p.row /\ q.job = p.job /\ q.total = p.total /\ q.late = p.late
BY DEF InvoiceRow, RowPaid

\* An invoice brought up to date says what is paid on it.
LEMMA SyncedRow ==
  ASSUME WorkTypeOK, NEW i \in 1..Invoices, NEW q, q = Synced(i)
  PROVE  /\ q \in InvoiceRow /\ RowPaid(q) = RowPaid(invoice[i])
         /\ q.row = invoice[i].row /\ q.job = invoice[i].job /\ q.total = invoice[i].total
         /\ q.late = invoice[i].late
         /\ invoice[i].status \in {"CANCELLED", "REFUNDED"} => q = invoice[i]
         /\ 0 < RowPaid(invoice[i]) /\ invoice[i].status \notin {"CANCELLED", "REFUNDED"} =>
              q.status = IF RowPaid(invoice[i]) >= invoice[i].total THEN "PAID" ELSE "PARTIALLY_PAID"
<1>. DEFINE p == invoice[i]
<1>0. Paid(i) = RowPaid(p)
  BY PaidRow
<1>1. p \in InvoiceRow
  BY DEF WorkTypeOK
<1>2. RowPaid(p) \in Nat /\ p.total \in 0..Total
  BY <1>1, PaidTypes
<1>3. q = IF p.status \in {"CANCELLED", "REFUNDED"} THEN p
          ELSE IF RowPaid(p) >= p.total THEN [p EXCEPT !.status = "PAID"]
          ELSE IF RowPaid(p) > 0 THEN [p EXCEPT !.status = "PARTIALLY_PAID"]
          ELSE p
  BY <1>0 DEF Synced
<1>. HIDE DEF p
<1>4. CASE q = p
  BY <1>1, <1>2, <1>3, <1>4 DEF p
<1>5. CASE p.status \notin {"CANCELLED", "REFUNDED"} /\ RowPaid(p) >= p.total /\ q = [p EXCEPT !.status = "PAID"]
  <2>1. "PAID" \in InvoiceStatus
    BY DEF InvoiceStatus
  <2>2. /\ q \in InvoiceRow /\ q.status = "PAID" /\ RowPaid(q) = RowPaid(p)
        /\ q.row = p.row /\ q.job = p.job /\ q.total = p.total /\ q.late = p.late
    BY <1>1, <1>5, <2>1, Restated
  <2>. QED BY <1>5, <2>2 DEF p
<1>6. CASE p.status \notin {"CANCELLED", "REFUNDED"} /\ ~(RowPaid(p) >= p.total)
           /\ q = [p EXCEPT !.status = "PARTIALLY_PAID"]
  <2>1. "PARTIALLY_PAID" \in InvoiceStatus
    BY DEF InvoiceStatus
  <2>2. /\ q \in InvoiceRow /\ q.status = "PARTIALLY_PAID" /\ RowPaid(q) = RowPaid(p)
        /\ q.row = p.row /\ q.job = p.job /\ q.total = p.total /\ q.late = p.late
    BY <1>1, <1>6, <2>1, Restated
  <2>. QED BY <1>6, <2>2 DEF p
<1>. QED BY <1>3, <1>4, <1>5, <1>6

\* Who pays through the gateway finds the job afterwards.
LEMMA PaidShown ==
  ASSUME RequestsOK, NEW r \in Request, req[r].op = "sync", Reply(r),
         NEW i, i = req[r].invoice, NEW j, j = invoice[i].job,
         req[r].online = TRUE /\ j # 0 /\ job'[j].row = "present" =>
           j \in 1..Jobs /\ job'[j].status \in Life!Status \ {"PENDING_PAYMENT"}
  PROVE  PaidStep
<1>1. ASSUME NEW x \in Request, req[x].op = "sync", req'[x] = Idle PROVE x = r
  BY <1>1, Replied DEF Idle
<1>2. ASSUME j # 0 /\ job'[j].row = "present" => j \in 1..Jobs /\ job'[j].status \in Life!Status \ {"PENDING_PAYMENT"},
             JobExists(j)'
      PROVE  /\ j \in getMyBookings(job[j].customer, {})'
             /\ (getSummary(job[j].customer, j) # {})'
  <2>1. j \in 1..Jobs /\ job'[j].row = "present" /\ job'[j].status \in Life!Status \ {"PENDING_PAYMENT"}
    BY <1>2 DEF JobExists
  <2>2. j \in getMyBookings(job[j].customer, {})'
    BY <2>1 DEF getMyBookings, buildWhere, JobsThat, JobExists
  <2>3. (getSummary(job[j].customer, j) # {})'
    BY DEF getSummary
  <2>. QED BY <2>2, <2>3
<1>. QED BY <1>1, <1>2 DEF PaidStep

LEMMA InvoicingWrite ==
  ASSUME WorkInv, RequestsOK, workload' = workload, UNCHANGED territory,
         NEW r \in Request, InvoicingWrites(r)
  PROVE  WorkInv' /\ Moves(r, WorkOps) /\ ToldStep /\ PanelStep /\ PaidStep /\ FixedStep
<1>. DEFINE h == req[r]
            i == h.invoice
            Most == WorkInv' /\ Moves(r, WorkOps) /\ ToldStep /\ FixedStep
            Goal == Most /\ PanelStep /\ PaidStep
<1>t. /\ WorkHolds /\ WorkHandler(h) /\ (Calm => CompletedSettled) /\ (Calm => Phase(h))
      /\ WorkTypeOK
      /\ invoice \in [1..Invoices -> InvoiceRow] /\ (\A k \in 1..Invoices : invoice[k] \in InvoiceRow)
      /\ (\A k \in 1..Invoices : RowPaid(invoice[k]) \in Nat /\ invoice[k].total \in Nat)
      /\ job \in [1..Jobs -> JobRow]
  BY PaidTypes DEF WorkInv, WorkHolds, WorkTypeOK, Total
<1>b. ASSUME h.op \in WorkOps, Calm, NEW k \in 1..Invoices, invoice[k].row = "present",
             h.op \in {"sync", "refunded", "moveInvoice"} => i # k
      PROVE  RowSound(invoice[k])
  BY <1>b, BusySound DEF Loose
<1>. SUFFICES Goal
  OBVIOUS
\* One invoice is written ...
<1>s. ASSUME h.op \in OfInvoice, NEW q \in InvoiceRow, q.row = "present", q.job = invoice[i].job,
             SetInvoice(i, q), duty' = duty, JobsGoOn,
             NEW g, (Reply(r) /\ g = Idle) \/ (Awaits(r, g) /\ WorkLeaves(g)),
             Calm => RowSound(q) \/ Loose(g, i),
             Calm => (q.status \in {"DRAFT", "SENT"} => invoice[i].status \in {"DRAFT", "SENT"}),
             Calm => \/ q.total = invoice[i].total
                     \/ invoice[i].status \in {"DRAFT", "SENT"}
                     \/ invoice[i].job \in 1..Jobs /\ Life!NotTerminal(job[invoice[i].job].status)
      PROVE  Most
  <2>1. i \in 1..Invoices /\ invoice[i].row = "present" /\ h.op \in WorkOps
    BY <1>t, <1>s DEF WorkHandler, WorkOps
  <2>2. invoice' = [invoice EXCEPT ![i] = q]
    BY <1>s DEF SetInvoice
  <2>. HIDE DEF i, h
  <2>3. /\ WorkHolds' /\ ToldStep /\ FixedStep
        /\ \A k \in 1..Invoices : invoice[k].row = "present" => invoice'[k].row = "present"
        /\ invoice'[i] = q /\ \A k \in 1..Invoices : k # i => invoice'[k] = invoice[k]
    BY <1>t, <1>s, <2>1, <2>2, InvoiceSet
  <2>4. Calm => CompletedSettled'
    BY <1>t, <1>s, <2>1, <2>2, InvoiceSet
  <2>5. ASSUME Calm, NEW k \in 1..Invoices, invoice'[k].row = "present"
        PROVE  RowSound(invoice'[k]) \/ Loose(g, k)
    <3>1. CASE k = i
      BY <1>s, <2>3, <2>5, <3>1
    <3>2. CASE k # i
      BY <1>b, <2>1, <2>3, <2>5, <3>2
    <3>. QED BY <3>1, <3>2
  <2>. QED BY <1>s, <2>1, <2>3, <2>4, <2>5, WorkMoved DEF h
\* ... or none is ...
<1>z. ASSUME h.op \in WorkOps \ {"sync", "refunded", "moveInvoice"}, UNCHANGED work,
             NEW g, (Reply(r) /\ g = Idle) \/ (Awaits(r, g) /\ WorkLeaves(g))
      PROVE  Most
  <2>1. WorkHolds' /\ (CompletedSettled => CompletedSettled')
    BY <1>t, <1>z DEF WorkHolds, WorkTypeOK, WorkBlank, OneInvoice, CompletedSettled, JobSettled, InvoicesOf, work
  <2>2. ToldStep /\ FixedStep
    BY <1>z, JobsStand DEF work
  <2>3. ASSUME Calm, NEW k \in 1..Invoices, invoice'[k].row = "present" PROVE RowSound(invoice'[k])
    BY <1>b, <1>z, <2>3 DEF work
  <2>4. \A k \in 1..Invoices : invoice[k].row = "present" => invoice'[k].row = "present"
    BY <1>z DEF work
  <2>. QED BY <1>t, <1>z, <2>1, <2>2, <2>3, <2>4, WorkMoved
\* ... or one is issued.
<1>n. ASSUME h.op \in {"issueInvoice", "orderInvoice"}, NEW k \in NextRow(invoice, Invoices),
             NEW q \in InvoiceRow, q.row = "present", q.payments = invoice[k].payments,
             q.status \in {"DRAFT", "SENT"}, q.job = 0 \/ InvoicesOf(q.job) = {},
             SetInvoice(k, q), UNCHANGED <<job, duty>>,
             NEW g, (Reply(r) /\ g = Idle) \/ (Awaits(r, g) /\ WorkLeaves(g))
      PROVE  Most
  <2>1. k \in 1..Invoices /\ invoice[k].row = "absent" /\ h.op \in WorkOps
        /\ h.op \notin {"sync", "refunded", "moveInvoice"}
    BY <1>n DEF NextRow, WorkOps
  <2>2. invoice' = [invoice EXCEPT ![k] = q]
    BY <1>n DEF SetInvoice
  <2>3. /\ WorkHolds' /\ ToldStep /\ FixedStep /\ (CompletedSettled => CompletedSettled')
        /\ invoice'[k] = q /\ \A l \in 1..Invoices : l # k => invoice'[l] = invoice[l]
    BY <1>t, <1>n, <2>1, <2>2, InvoiceIssued
  <2>4. RowSound(q)
    <3>1. q.payments[Advance] = 0 /\ q.payments[Total] = 0
      BY <1>t, <1>n, <2>1 DEF WorkHolds, WorkBlank
    <3>2. RowPaid(q) = 0 /\ q.total \in Nat
      BY <3>1, PaidTypes DEF Total
    <3>. QED BY <1>n, <3>2 DEF RowSound
  <2>5. ASSUME Calm, NEW l \in 1..Invoices, invoice'[l].row = "present" PROVE RowSound(invoice'[l])
    BY <1>b, <2>1, <2>3, <2>4, <2>5
  <2>6. \A l \in 1..Invoices : invoice[l].row = "present" => invoice'[l].row = "present"
    BY <2>1, <2>3
  <2>. QED BY <1>t, <1>n, <2>1, <2>3, <2>5, <2>6, WorkMoved
<1>f. ASSUME job' = job PROVE JobsGoOn
  BY <1>t, <1>f DEF JobsGoOn
<1>. HIDE DEF Most
<1>e. ASSUME Most, Reply(r) \/ (\E g : Awaits(r, g)), h.op \notin {"sendWorker", "moveJob", "sync"}
      PROVE  Goal
  BY <1>e, NoneEnds
<1>1. CASE IssueInvoiceWrite(r)
  <2>. DEFINE j == h.job
  <2>1. /\ h.op = "issueInvoice" /\ h.op \in WorkOps /\ UNCHANGED <<job, duty>> /\ Reply(r)
        /\ h.customer \in Person \union {None} /\ h.job \in 0..Jobs
        /\ h.total \in 1..Total /\ h.status = "DRAFT"
    BY <1>t, <1>1 DEF IssueInvoiceWrite, Resumes, WorkHandler, WorkOps
  <2>2. CASE j # 0 /\ (InvoicesOf(j) # {} \/ ~JobExists(j)) /\ invoice' = invoice
    BY <1>e, <1>z, <2>1, <2>2 DEF work
  <2>3. CASE /\ j = 0 \/ InvoicesOf(j) = {}
             /\ \E k \in NextRow(invoice, Invoices) :
                  SetInvoice(k, [invoice[k] EXCEPT !.row = "present", !.job = j, !.customer = h.customer,
                                                   !.status = h.status, !.total = h.total])
    <3>1. PICK k \in NextRow(invoice, Invoices) :
                  SetInvoice(k, [invoice[k] EXCEPT !.row = "present", !.job = j, !.customer = h.customer,
                                                   !.status = h.status, !.total = h.total])
      BY <2>3
    <3>. DEFINE q == [invoice[k] EXCEPT !.row = "present", !.job = j, !.customer = h.customer,
                                        !.status = h.status, !.total = h.total]
    <3>2. invoice[k] \in InvoiceRow /\ h.total \in 0..Total /\ h.status \in InvoiceStatus
      BY <1>t, <2>1 DEF NextRow, InvoiceStatus, Total
    <3>3. q \in InvoiceRow /\ q.row = "present" /\ q.payments = invoice[k].payments
          /\ q.status = h.status /\ q.job = j
      <4>. DEFINE p == invoice[k]
      <4>. HIDE DEF h, j, p
      <4>1. LET u == [p EXCEPT !.row = "present", !.job = j, !.customer = h.customer,
                               !.status = h.status, !.total = h.total]
            IN  u \in InvoiceRow /\ u.row = "present" /\ u.payments = p.payments
                /\ u.status = h.status /\ u.job = j
        <5>1. p \in InvoiceRow
          BY <3>2 DEF p
        <5>2. h.job \in 0..Jobs /\ j = h.job
          BY <2>1 DEF j
        <5>. QED BY <2>1, <3>2, <5>1, <5>2 DEF InvoiceRow
      <4>. QED BY <4>1 DEF p
    <3>4. SetInvoice(k, q)
      BY <3>1
    <3>. HIDE DEF q
    <3>. QED BY <1>e, <1>n, <2>1, <2>3, <3>3, <3>4
  <2>. QED BY <1>1, <2>2, <2>3 DEF IssueInvoiceWrite
<1>2. CASE OrderInvoiceWrite(r)
  <2>. DEFINE j == h.job
  <2>1. /\ h.op = "orderInvoice" /\ h.op \in WorkOps /\ UNCHANGED <<job, duty>>
        /\ h.job \in 1..Jobs /\ h.amount \in 1..Total /\ h.type \in PaymentType
    BY <1>t, <1>2 DEF OrderInvoiceWrite, Resumes, WorkHandler, WorkOps
  <2>2. CASE invoice' = invoice /\ Reply(r)
    BY <1>e, <1>z, <2>1, <2>2 DEF work
  <2>3. CASE /\ InvoicesOf(j) = {}
             /\ \E k \in NextRow(invoice, Invoices) :
                  /\ SetInvoice(k, [invoice[k] EXCEPT !.row = "present", !.job = j,
                                                      !.customer = job[j].customer,
                                                      !.status = "SENT", !.total = h.amount])
                  /\ Awaits(r, [op |-> "placeOrder", invoice |-> k, type |-> h.type])
    <3>1. PICK k \in NextRow(invoice, Invoices) :
                  /\ SetInvoice(k, [invoice[k] EXCEPT !.row = "present", !.job = j,
                                                      !.customer = job[j].customer,
                                                      !.status = "SENT", !.total = h.amount])
                  /\ Awaits(r, [op |-> "placeOrder", invoice |-> k, type |-> h.type])
      BY <2>3
    <3>. DEFINE q == [invoice[k] EXCEPT !.row = "present", !.job = j, !.customer = job[j].customer,
                                        !.status = "SENT", !.total = h.amount]
                g == [op |-> "placeOrder", invoice |-> k, type |-> h.type]
    <3>2. /\ k \in 1..Invoices /\ invoice[k] \in InvoiceRow /\ h.amount \in 0..Total
          /\ "SENT" \in InvoiceStatus /\ job[j].customer \in Person \union {None} /\ j \in 0..Jobs
      BY <1>t, <2>1 DEF NextRow, InvoiceStatus, Total, JobRow
    <3>3. q \in InvoiceRow /\ q.row = "present" /\ q.payments = invoice[k].payments
          /\ q.status = "SENT" /\ q.job = j
      <4>. DEFINE p == invoice[k]
                  c == job[j].customer
      <4>0. p \in InvoiceRow /\ c \in Person \union {None} /\ j \in 0..Jobs
        BY <3>2
      <4>. HIDE DEF h, j, p, c
      <4>1. LET u == [p EXCEPT !.row = "present", !.job = j, !.customer = c, !.status = "SENT", !.total = h.amount]
            IN  u \in InvoiceRow /\ u.row = "present" /\ u.payments = p.payments
                /\ u.status = "SENT" /\ u.job = j
        BY <3>2, <4>0 DEF InvoiceRow
      <4>. QED BY <4>1 DEF p, c
    <3>4. SetInvoice(k, q) /\ Awaits(r, g)
      BY <3>1
    <3>. HIDE DEF q
    <3>5. invoice'[k] = q
      BY <1>t, <3>2, <3>4 DEF SetInvoice
    <3>6. WorkLeaves(g)
      BY <2>1, <3>2, <3>3, <3>5 DEF WorkLeaves
    <3>. HIDE DEF g
    <3>7. Most
      BY <1>n, <2>1, <2>3, <3>3, <3>4, <3>6
    <3>. QED BY <1>e, <2>1, <3>4, <3>7
  <2>. QED BY <1>2, <2>2, <2>3 DEF OrderInvoiceWrite
\* The handlers that have an invoice to write to.
<1>i. ASSUME h.op \in OfInvoice
      PROVE  /\ i \in 1..Invoices /\ invoice[i].row = "present" /\ h.op \in WorkOps
             /\ invoice[i] \in InvoiceRow /\ RowPaid(invoice[i]) \in Nat /\ invoice[i].total \in 0..Total
             /\ h.op \notin {"sendWorker", "moveJob"}
             /\ Calm /\ h.op \notin {"sync", "refunded", "moveInvoice"} => RowSound(invoice[i])
             /\ \A q : SetInvoice(i, q) => invoice'[i] = q
  <2>1. i \in 1..Invoices /\ invoice[i].row = "present" /\ h.op \in WorkOps
    BY <1>t, <1>i DEF WorkHandler, WorkOps
  <2>2. \A q : SetInvoice(i, q) => invoice'[i] = q
    BY <1>t, <2>1 DEF SetInvoice
  <2>. QED BY <1>b, <1>i, <1>t, <2>1, <2>2, PaidTypes DEF OfInvoice
<1>3. CASE ResizeInvoiceWrite(r)
  <2>1. /\ h.op = "resizeInvoice" /\ h.op \in OfInvoice /\ job' = job /\ duty' = duty
        /\ h.total \in 1..Total /\ h.paid \in BOOLEAN /\ h.type \in PaymentType
    BY <1>t, <1>3 DEF ResizeInvoiceWrite, Resumes, WorkHandler, OfInvoice
  <2>. DEFINE p == invoice[i]
              s == IF h.paid THEN "PARTIALLY_PAID" ELSE p.status
              q == [p EXCEPT !.total = h.total, !.status = s]
              g == [op |-> "placeOrder", invoice |-> i, type |-> h.type]
  <2>2. SetInvoice(i, q) /\ Awaits(r, g)
    BY <1>3 DEF ResizeInvoiceWrite
  <2>3. p \in InvoiceRow /\ s \in InvoiceStatus /\ h.total \in 0..Total
    BY <1>i, <2>1 DEF InvoiceRow, InvoiceStatus, Total
  <2>4. /\ q \in InvoiceRow /\ q.row = p.row /\ q.job = p.job /\ q.total = h.total /\ q.status = s
        /\ RowPaid(q) = RowPaid(p) /\ q.late = p.late
    <3>. HIDE DEF h, p, s
    <3>. QED BY <2>3 DEF InvoiceRow, RowPaid
  <2>. HIDE DEF q
  <2>5. WorkLeaves(g)
    BY <1>i, <2>1, <2>2, <2>4 DEF WorkLeaves
  <2>6. Calm => /\ RowSound(q)
                /\ q.status \in {"DRAFT", "SENT"} => p.status \in {"DRAFT", "SENT"}
                /\ p.job \in 1..Jobs /\ Life!NotTerminal(job[p.job].status)
    <3>1. ASSUME Calm
          PROVE  /\ RowSound(p) /\ p.job \in 1..Jobs /\ Life!NotTerminal(job[p.job].status)
                 /\ h.paid => 0 < RowPaid(p) /\ p.total < h.total
                 /\ ~h.paid => RowPaid(p) = 0 /\ p.status \in {"DRAFT", "SENT"}
      BY <1>i, <1>t, <2>1, <3>1 DEF Phase
    <3>. DEFINE a == RowPaid(p)
                b == RowPaid(q)
    <3>0. a \in Nat /\ p.total \in 0..Total /\ b = a /\ h.total \in 1..Total
      BY <1>i, <2>1, <2>4
    <3>a. s = IF h.paid THEN "PARTIALLY_PAID" ELSE p.status
      OBVIOUS
    <3>2. CASE h.paid
      <4>1. Calm => 0 < a /\ p.total < h.total /\ (~p.late => a <= p.total)
        BY <3>1, <3>2 DEF RowSound
      <4>2. q.status = "PARTIALLY_PAID"
        BY <2>4, <3>2, <3>a
      <4>. HIDE DEF a, b, p, s
      <4>. QED BY <2>4, <3>0, <3>1, <4>1, <4>2 DEF RowSound, Total, b
    <3>3. CASE ~h.paid
      <4>1. Calm => a = 0 /\ p.status \in {"DRAFT", "SENT"}
        BY <3>1, <3>3
      <4>2. q.status = p.status
        BY <2>4, <3>3, <3>a
      <4>. HIDE DEF a, b, p, s
      <4>. QED BY <2>4, <3>0, <3>1, <4>1, <4>2 DEF RowSound, Total, b
    <3>. QED BY <3>1, <3>2, <3>3
  <2>. HIDE DEF g
  <2>7. Most
    BY <1>f, <1>i, <1>s, <2>1, <2>2, <2>4, <2>5, <2>6
  <2>. QED BY <1>e, <2>1, <2>2, <2>7
<1>4. CASE PlaceOrder(r)
  <2>1. h.op = "placeOrder" /\ h.op \in OfInvoice /\ UNCHANGED work /\ h.type \in PaymentType
    BY <1>t, <1>4 DEF PlaceOrder, Resumes, WorkHandler, OfInvoice
  <2>2. CASE Reply(r)
    BY <1>e, <1>i, <1>z, <2>1, <2>2
  <2>3. CASE /\ Outstanding(i) > 0
             /\ Awaits(r, [op |-> "insertOrder", invoice |-> i,
                           order |-> [type |-> h.type, amount |-> Outstanding(i)]])
    <3>. DEFINE a == Outstanding(i)
                o == [type |-> h.type, amount |-> a]
                g == [op |-> "insertOrder", invoice |-> i, order |-> o]
    <3>1. a \in 0..Total /\ a > 0
      BY <1>i, <1>t, <2>1, <2>3, OutstandingType
    <3>. HIDE DEF a
    <3>2. invoice' = invoice /\ o \in OpenOrder
      BY <2>1, <3>1 DEF work, Total, OpenOrder
    <3>4. Awaits(r, g)
      BY <2>3 DEF a
    <3>. HIDE DEF o
    <3>3. WorkLeaves(g)
      BY <1>i, <2>1, <3>2 DEF WorkLeaves
    <3>. HIDE DEF g
    <3>5. Most
      BY <1>i, <1>z, <2>1, <3>3, <3>4
    <3>. QED BY <1>e, <2>1, <3>4, <3>5
  <2>. QED BY <1>4, <2>2, <2>3 DEF PlaceOrder
<1>5. CASE InsertOrder(r)
  <2>1. /\ h.op = "insertOrder" /\ h.op \in OfInvoice /\ job' = job /\ duty' = duty /\ Reply(r)
        /\ h.order \in OpenOrder
    BY <1>t, <1>5 DEF InsertOrder, Resumes, WorkHandler, OfInvoice
  <2>. DEFINE p == invoice[i]
              n == p.orders[h.order] + 1
              q == [p EXCEPT !.orders[h.order] = n]
  <2>2. SetInvoice(i, q)
    BY <1>5 DEF InsertOrder
  <2>3. n \in Nat
    BY <1>i, <2>1 DEF InvoiceRow
  <2>. HIDE DEF n
  <2>4. /\ q \in InvoiceRow /\ q.row = p.row /\ q.job = p.job /\ q.total = p.total /\ q.status = p.status
        /\ RowPaid(q) = RowPaid(p) /\ q.late = p.late
    BY <1>i, <2>1, <2>3, Ordered
  <2>. HIDE DEF q
  <2>5. Calm => RowSound(q)
    <3>1. Calm => RowSound(p)
      BY <1>i, <2>1
    <3>. HIDE DEF p
    <3>. QED BY <2>4, <3>1 DEF RowSound
  <2>6. Most
    BY <1>f, <1>i, <1>s, <2>1, <2>2, <2>4, <2>5
  <2>. QED BY <1>e, <2>1, <2>6
<1>6. CASE Settle(r)
  <2>1. /\ h.op = "settle" /\ h.op \in OfInvoice /\ job' = job /\ duty' = duty
        /\ h.amount \in 1..Total
    BY <1>t, <1>6 DEF Settle, Resumes, WorkHandler, OfInvoice
  <2>. DEFINE p == invoice[i]
              q == AddPayment(p, h.amount)
              g == [op |-> "sync", invoice |-> i, online |-> FALSE]
  <2>2. SetInvoice(i, q) /\ Awaits(r, g)
    BY <1>6 DEF Settle
  <2>4. /\ q \in InvoiceRow /\ q.row = p.row /\ q.job = p.job /\ q.total = p.total /\ q.status = p.status
        /\ RowPaid(q) = RowPaid(p) + h.amount /\ q.late = p.late
    BY <1>i, <2>1, PaidMore
  <2>. HIDE DEF q
  <2>5. Calm => /\ p.status \notin {"CANCELLED", "REFUNDED", "DRAFT"}
                /\ RowPaid(p) + h.amount <= p.total
    BY <1>t, <2>1 DEF Phase
  <2>6. Calm => Due(q)
    BY <1>i, <2>1, <2>4, <2>5 DEF Total, Due
  <2>7. WorkLeaves(g)
    BY <1>i, <2>1, <2>2, <2>4, <2>6 DEF WorkLeaves
  <2>8. Loose(g, i)
    BY DEF Loose
  <2>. HIDE DEF g
  <2>9. Most
    BY <1>f, <1>i, <1>s, <2>1, <2>2, <2>4, <2>7, <2>8
  <2>. QED BY <1>e, <2>1, <2>2, <2>9
<1>13. CASE SettleOrder(r)
  <2>1. /\ h.op = "settleOrder" /\ h.op \in OfInvoice /\ job' = job /\ duty' = duty
        /\ h.order \in OpenOrder
    BY <1>t, <1>13 DEF SettleOrder, Resumes, WorkHandler, OfInvoice
  <2>. DEFINE p == invoice[i]
              o == h.order
              late == p.late \/ ~Payable(i) \/ o.amount > Outstanding(i)
              q == Honoured(p, o, late)
              g == [op |-> "sync", invoice |-> i, online |-> TRUE]
  <2>3. p \in InvoiceRow /\ p.orders[o] \in Nat /\ o.amount \in 1..Total /\ late \in BOOLEAN
    BY <1>i, <2>1 DEF InvoiceRow, OpenOrder
  <2>2. SetInvoice(i, q) /\ Awaits(r, g)
    BY <1>13 DEF SettleOrder, Honoured
  <2>4. /\ q \in InvoiceRow /\ q.row = p.row /\ q.job = p.job /\ q.total = p.total /\ q.status = p.status
        /\ p.orders[o] # 0 => RowPaid(q) = RowPaid(p) + o.amount /\ q.late = late
    <3>1. o \in OpenOrder
      BY <2>1 DEF o
    <3>. HIDE DEF p, o, late
    <3>. QED BY <2>3, <3>1, PaidOff
  <2>. HIDE DEF q
  <2>6. Calm => Due(q)
    <3>1. ASSUME Calm PROVE p.orders[o] # 0
      BY <1>t, <2>1, <3>1 DEF Phase
    <3>2. RowPaid(p) \in Nat /\ p.total \in 0..Total
      BY <1>i, <2>1
    <3>3. /\ Outstanding(i) \in 0..Total
          /\ Outstanding(i) > 0 => RowPaid(p) + Outstanding(i) = p.total
      BY <1>i, <1>t, <2>1, OutstandingType
    <3>4. ~late => /\ p.status \notin {"CANCELLED", "REFUNDED"}
                   /\ ~(o.amount > Outstanding(i))
      BY DEF Payable
    <3>. HIDE DEF p, o, late, Outstanding
    <3>5. ~late => RowPaid(p) + o.amount <= p.total
      BY <2>3, <3>2, <3>3, <3>4 DEF Total
    <3>. QED BY <2>3, <2>4, <3>1, <3>2, <3>4, <3>5 DEF Due, Total
  <2>7. WorkLeaves(g)
    BY <1>i, <2>1, <2>2, <2>4, <2>6 DEF WorkLeaves
  <2>8. Loose(g, i)
    BY DEF Loose
  <2>. HIDE DEF g
  <2>9. Most
    BY <1>f, <1>i, <1>s, <2>1, <2>2, <2>4, <2>7, <2>8
  <2>. QED BY <1>e, <2>1, <2>2, <2>9
<1>7. CASE SyncInvoice(r)
  <2>1. h.op = "sync" /\ h.op \in OfInvoice /\ duty' = duty /\ Reply(r) /\ h.online \in BOOLEAN
    BY <1>t, <1>7 DEF SyncInvoice, Resumes, WorkHandler, OfInvoice
  <2>. DEFINE p == invoice[i]
              q == Synced(i)
              j == p.job
  <2>2. /\ SetInvoice(i, q)
        /\ job' = IF h.online /\ JobExists(j) /\ job[j].status = "PENDING_PAYMENT"
                    THEN [job EXCEPT ![j].status = "PENDING"] ELSE job
    BY <1>7 DEF SyncInvoice
  <2>3. /\ q \in InvoiceRow /\ q.row = p.row /\ q.job = p.job /\ q.total = p.total
        /\ RowPaid(q) = RowPaid(p) /\ q.late = p.late
        /\ p.status \in {"CANCELLED", "REFUNDED"} => q = p
        /\ 0 < RowPaid(p) /\ p.status \notin {"CANCELLED", "REFUNDED"} =>
             q.status = IF RowPaid(p) >= p.total THEN "PAID" ELSE "PARTIALLY_PAID"
    BY <1>i, <1>t, <2>1, SyncedRow
  <2>. HIDE DEF q
  <2>4. Calm => Due(p)
    BY <1>t, <2>1 DEF Phase
  <2>5. Calm => RowSound(q) /\ q.status \notin {"DRAFT", "SENT"}
    <3>1. RowPaid(p) \in Nat /\ p.total \in Nat
      BY <1>i, <2>1 DEF Total
    <3>. HIDE DEF p
    <3>. QED BY <2>3, <2>4, <3>1 DEF RowSound, Due
  <2>6. j \in 0..Jobs
    BY <1>i, <2>1 DEF InvoiceRow
  <2>. HIDE DEF p
  <2>. HIDE DEF j
  <2>7. /\ JobsGoOn
        /\ h.online = TRUE /\ j # 0 /\ job'[j].row = "present" =>
             j \in 1..Jobs /\ job'[j].status \in Life!Status \ {"PENDING_PAYMENT"}
    <3>1. CASE /\ h.online /\ JobExists(j) /\ job[j].status = "PENDING_PAYMENT"
               /\ job' = [job EXCEPT ![j].status = "PENDING"]
      <4>. DEFINE u == [job[j] EXCEPT !.status = "PENDING"]
      <4>1. j \in 1..Jobs /\ job[j] \in JobRow /\ job[j].row = "present"
        BY <1>t, <2>6, <3>1, JobsAssumption DEF JobExists
      <4>2. job' = [job EXCEPT ![j] = u]
        BY <3>1
      <4>3. "PENDING" \in Life!Status
        BY DEF Life!Status
      <4>4. u \in JobRow /\ GoesOn(job[j], u) /\ u.status = "PENDING"
        BY <3>1, <4>1, <4>3 DEF JobRow, GoesOn
      <4>. HIDE DEF u
      <4>5. job'[j] = u /\ \A k \in 1..Jobs : k # j => job'[k] = job[k]
        BY <1>t, <4>1, <4>2
      <4>6. job' \in [1..Jobs -> JobRow]
        BY <1>t, <4>1, <4>2, <4>4
      <4>7. "PENDING" # "PENDING_PAYMENT"
        OBVIOUS
      <4>. QED BY <4>1, <4>3, <4>4, <4>5, <4>6, <4>7 DEF JobsGoOn
    <3>2. CASE ~(h.online /\ JobExists(j) /\ job[j].status = "PENDING_PAYMENT")
      <4>1. job' = job
        BY <2>2, <3>2
      <4>2. ASSUME h.online = TRUE, j # 0, job'[j].row = "present"
            PROVE  j \in 1..Jobs /\ job'[j].status \in Life!Status \ {"PENDING_PAYMENT"}
        <5>1. j \in 1..Jobs
          BY <2>6, <4>2, JobsAssumption
        <5>2. job[j].status \in Life!Status
          BY <1>t, <5>1 DEF JobRow
        <5>3. job[j].status # "PENDING_PAYMENT"
          BY <3>2, <4>1, <4>2 DEF JobExists
        <5>. QED BY <4>1, <5>1, <5>2, <5>3
      <4>. QED BY <1>f, <4>1, <4>2
    <3>. QED BY <2>2, <3>1, <3>2
  <2>8. PaidStep
    BY <2>1, <2>7, PaidShown DEF p, j
  <2>9. PanelStep
    <3>1. ASSUME NEW x \in Request, req[x].op \in {"sendWorker", "moveJob"} PROVE req'[x] # Idle
      BY <2>1, <3>1, Replied DEF Idle
    <3>. QED BY <3>1, PanelStands
  <2>10. Most
    BY <1>i, <1>s, <2>1, <2>2, <2>3, <2>5, <2>7 DEF p
  <2>. QED BY <2>8, <2>9, <2>10
<1>8. CASE RefundWrite(r)
  <2>1. /\ h.op = "refund" /\ h.op \in OfInvoice /\ job' = job /\ duty' = duty /\ h.amount \in 1..Total
    BY <1>t, <1>8 DEF RefundWrite, Resumes, WorkHandler, OfInvoice
  <2>. DEFINE p == invoice[i]
              a == h.amount
              q == [p EXCEPT !.payments[a] = IF @ = 0 THEN 0 ELSE @ - 1]
              g == [op |-> "refunded", invoice |-> i]
  <2>2. SetInvoice(i, q) /\ Awaits(r, g)
    BY <1>8 DEF RefundWrite
  <2>4. /\ q \in InvoiceRow /\ q.row = p.row /\ q.job = p.job /\ q.total = p.total /\ q.status = p.status
        /\ q.late = p.late
        /\ p.payments[a] > 0 => RowPaid(q) + a = RowPaid(p)
    BY <1>i, <2>1, PaidLess
  <2>. HIDE DEF q
  <2>5. Calm => p.payments[a] > 0 /\ RowSound(p)
    BY <1>i, <1>t, <2>1 DEF Phase
  <2>6. Calm => Returned(q)
    <3>1. RowPaid(p) \in Nat /\ p.total \in Nat /\ RowPaid(q) \in Nat /\ a \in 1..2
      BY <1>i, <2>1, <2>4, PaidTypes DEF Total
    <3>. HIDE DEF p, a
    <3>. QED BY <2>4, <2>5, <3>1 DEF RowSound, Returned
  <2>7. WorkLeaves(g)
    BY <1>i, <2>1, <2>2, <2>4, <2>6 DEF WorkLeaves
  <2>8. Loose(g, i)
    BY DEF Loose
  <2>. HIDE DEF g
  <2>9. Most
    BY <1>f, <1>i, <1>s, <2>1, <2>2, <2>4, <2>7, <2>8
  <2>. QED BY <1>e, <2>1, <2>2, <2>9
<1>9. CASE AfterRefund(r)
  <2>1. h.op = "refunded" /\ h.op \in OfInvoice /\ job' = job /\ duty' = duty /\ Reply(r)
    BY <1>t, <1>9 DEF AfterRefund, Resumes, OfInvoice
  <2>. DEFINE p == invoice[i]
              s == Synced(i)
              q == IF Paid(i) = 0 THEN [p EXCEPT !.status = "REFUNDED"] ELSE s
  <2>2. SetInvoice(i, q)
    BY <1>9 DEF AfterRefund
  <2>3. /\ s \in InvoiceRow /\ s.row = p.row /\ s.job = p.job /\ s.total = p.total
        /\ RowPaid(s) = RowPaid(p) /\ s.late = p.late
        /\ p.status \in {"CANCELLED", "REFUNDED"} => s = p
        /\ 0 < RowPaid(p) /\ p.status \notin {"CANCELLED", "REFUNDED"} =>
             s.status = IF RowPaid(p) >= p.total THEN "PAID" ELSE "PARTIALLY_PAID"
    BY <1>i, <1>t, <2>1, SyncedRow
  <2>. HIDE DEF s
  <2>4. Calm => Returned(p)
    BY <1>t, <2>1 DEF Phase
  <2>5. p \in InvoiceRow /\ RowPaid(p) \in Nat /\ p.total \in Nat /\ Paid(i) = RowPaid(p)
    BY <1>i, <2>1, PaidRow DEF Total
  <2>6. /\ q \in InvoiceRow /\ q.row = p.row /\ q.job = p.job /\ q.total = p.total
        /\ Calm => RowSound(q) /\ q.status \notin {"DRAFT", "SENT"}
    <3>1. CASE Paid(i) = 0
      <4>1. "REFUNDED" \in InvoiceStatus
        BY DEF InvoiceStatus
      <4>. HIDE DEF p
      <4>2. LET u == [p EXCEPT !.status = "REFUNDED"]
            IN  /\ u \in InvoiceRow /\ u.status = "REFUNDED" /\ RowPaid(u) = RowPaid(p)
                /\ u.row = p.row /\ u.job = p.job /\ u.total = p.total /\ u.late = p.late
        BY <2>5, <4>1, Restated
      <4>. QED BY <2>4, <2>5, <3>1, <4>2 DEF RowSound, Returned
    <3>2. CASE Paid(i) # 0
      <4>1. q = s /\ RowPaid(p) > 0
        BY <2>5, <3>2
      <4>. HIDE DEF p, q
      <4>2. CASE p.status \in {"CANCELLED", "REFUNDED"}
        BY <2>3, <2>4, <2>5, <4>1, <4>2 DEF RowSound, Returned
      <4>3. CASE p.status \notin {"CANCELLED", "REFUNDED"}
        BY <2>3, <2>4, <2>5, <4>1, <4>3 DEF RowSound, Returned
      <4>. QED BY <4>2, <4>3
    <3>. QED BY <3>1, <3>2
  <2>. HIDE DEF q
  <2>7. Most
    BY <1>f, <1>i, <1>s, <2>1, <2>2, <2>6
  <2>. QED BY <1>e, <2>1, <2>7
<1>10. CASE EditInvoiceWrite(r)
  <2>1. /\ h.op = "editInvoice" /\ h.op \in OfInvoice /\ job' = job /\ duty' = duty /\ Reply(r)
        /\ h.total \in 0..Total
    BY <1>t, <1>10 DEF EditInvoiceWrite, Resumes, WorkHandler, OfInvoice
  <2>. DEFINE p == invoice[i]
              q == [p EXCEPT !.total = h.total]
  <2>2. SetInvoice(i, q)
    BY <1>10 DEF EditInvoiceWrite
  <2>3. p \in InvoiceRow
    BY <1>i, <2>1
  <2>4. /\ q \in InvoiceRow /\ q.row = p.row /\ q.job = p.job /\ q.total = h.total /\ q.status = p.status
        /\ RowPaid(q) = RowPaid(p) /\ q.late = p.late
    <3>. HIDE DEF h, p
    <3>. QED BY <2>1, <2>3 DEF InvoiceRow, RowPaid
  <2>. HIDE DEF q
  <2>5. Calm => p.status \in {"DRAFT", "SENT"} /\ RowSound(p)
    BY <1>i, <1>t, <2>1 DEF Phase
  <2>6. Calm => RowSound(q)
    BY <2>1, <2>4, <2>5 DEF RowSound, Total
  <2>7. Most
    BY <1>f, <1>i, <1>s, <2>1, <2>2, <2>4, <2>5, <2>6
  <2>. QED BY <1>e, <2>1, <2>7
<1>11. CASE MarkPaidRecord(r)
  <2>1. /\ h.op = "markPaid" /\ h.op \in OfInvoice /\ job' = job /\ duty' = duty
        /\ h.amount \in 0..Total
    BY <1>t, <1>11 DEF MarkPaidRecord, Resumes, WorkHandler, OfInvoice
  <2>. DEFINE p == invoice[i]
              q == IF h.amount > 0 THEN AddPayment(p, h.amount) ELSE p
              g == [op |-> "moveInvoice", invoice |-> i, status |-> "PAID"]
  <2>2. SetInvoice(i, q) /\ Awaits(r, g)
    BY <1>11 DEF MarkPaidRecord
  <2>3. p \in InvoiceRow /\ RowPaid(p) \in Nat
    BY <1>i, <2>1
  <2>4. /\ q \in InvoiceRow /\ q.row = p.row /\ q.job = p.job /\ q.total = p.total /\ q.status = p.status
        /\ RowPaid(q) = RowPaid(p) + h.amount /\ q.late = p.late
    <3>. HIDE DEF h, p
    <3>1. CASE h.amount > 0
      <4>1. h.amount \in 1..Total
        BY <2>1, <3>1 DEF Total
      <4>. QED BY <2>3, <3>1, <4>1, PaidMore
    <3>2. CASE ~(h.amount > 0)
      <4>1. h.amount = 0
        BY <2>1, <3>2 DEF Total
      <4>. QED BY <2>3, <3>2, <4>1
    <3>. QED BY <3>1, <3>2
  <2>. HIDE DEF q
  <2>5. Calm => Covered(q, 0)
    <3>1. Calm => Covered(p, h.amount)
      BY <1>t, <2>1 DEF Phase
    <3>2. p.total \in Nat /\ h.amount \in Nat
      BY <1>i, <2>1 DEF Total
    <3>. HIDE DEF p
    <3>. QED BY <2>3, <2>4, <3>1, <3>2 DEF Covered
  <2>7. WorkLeaves(g)
    BY <1>i, <2>1, <2>2, <2>4, <2>5 DEF WorkLeaves
  <2>8. Loose(g, i)
    BY DEF Loose
  <2>. HIDE DEF g
  <2>9. Most
    BY <1>f, <1>i, <1>s, <2>1, <2>2, <2>4, <2>7, <2>8
  <2>. QED BY <1>e, <2>1, <2>2, <2>9
<1>12. CASE MoveInvoiceWrite(r)
  <2>1. /\ h.op = "moveInvoice" /\ h.op \in OfInvoice /\ job' = job /\ duty' = duty /\ Reply(r)
        /\ h.status \in {"SENT", "OVERDUE", "CANCELLED", "PAID"}
    BY <1>t, <1>12 DEF MoveInvoiceWrite, Resumes, WorkHandler, OfInvoice
  <2>. DEFINE p == invoice[i]
              q == [p EXCEPT !.status = h.status]
  <2>2. SetInvoice(i, q)
    BY <1>12 DEF MoveInvoiceWrite
  <2>3. p \in InvoiceRow /\ RowPaid(p) \in Nat /\ p.total \in Nat /\ h.status \in InvoiceStatus
    BY <1>i, <2>1 DEF InvoiceStatus, Total
  <2>4. /\ q \in InvoiceRow /\ q.row = p.row /\ q.job = p.job /\ q.total = p.total /\ q.status = h.status
        /\ RowPaid(q) = RowPaid(p) /\ q.late = p.late
    <3>. HIDE DEF h, p
    <3>. QED BY <2>3, Restated
  <2>. HIDE DEF q
  <2>5. ASSUME Calm
        PROVE  /\ h.status = "PAID" => Covered(p, 0)
               /\ h.status = "SENT" => p.status = "DRAFT"
               /\ h.status = "OVERDUE" => p.status = "SENT"
               /\ h.status # "PAID" => RowSound(p)
    <3>1. h.status # "PAID" => ~Loose(h, i)
      BY <2>1 DEF Loose
    <3>2. h.status # "PAID" => RowSound(p)
      BY <1>i, <2>1, <2>5, <3>1, BusySound
    <3>. QED BY <1>t, <2>1, <2>5, <3>2 DEF Phase
  <2>6. Calm => RowSound(q) /\ (q.status \in {"DRAFT", "SENT"} => p.status \in {"DRAFT", "SENT"})
    <3>. HIDE DEF p, h
    <3>. QED BY <2>1, <2>3, <2>4, <2>5 DEF RowSound, Covered
  <2>7. Most
    BY <1>f, <1>i, <1>s, <2>1, <2>2, <2>4, <2>6
  <2>. QED BY <1>e, <2>1, <2>7
<1>. QED
  BY <1>1, <1>2, <1>3, <1>4, <1>5, <1>6, <1>7, <1>8, <1>9, <1>10, <1>11, <1>12, <1>13
  DEF InvoicingWrites

LEMMA WorkKeeps ==
  ASSUME WorkInv, RequestsOK, workload' = workload, JobNext \/ InvoicingNext, UNCHANGED territory
  PROVE  /\ WorkInv' /\ \E r : Moves(r, WorkOps)
         /\ ToldStep /\ PanelStep /\ PaidStep /\ FixedStep
<1>. DEFINE Goal == /\ WorkInv' /\ \E r : Moves(r, WorkOps)
                    /\ ToldStep /\ PanelStep /\ PaidStep /\ FixedStep
<1>1. PICK r \in Request :
        \/ (MayStart(r) /\ JobStarts(r)) \/ JobWrites(r)
        \/ (MayStart(r) /\ InvoicingStarts(r)) \/ InvoicingWrites(r)
  BY DEF JobNext, InvoicingNext
<1>2. ASSUME MayStart(r), \E h : Awaits(r, h) /\ WorkTakes(h) /\ UNCHANGED work PROVE Goal
  BY <1>2, WorkTaken
<1>3. ASSUME MayStart(r), UNCHANGED <<req, job, invoice>>, duty' \in [Person -> DutyRow] PROVE Goal
  <2>1. WorkHolds' /\ (CompletedSettled => CompletedSettled')
    BY <1>3 DEF WorkInv, WorkHolds, WorkTypeOK, WorkBlank, OneInvoice, CompletedSettled, JobSettled, InvoicesOf
  <2>2. ASSUME NEW x \in Request
        PROVE  /\ WorkHandler(req[x])'
               /\ WorkChecked(req[x]) => WorkChecked(req[x])'
               /\ Phase(req[x]) => Phase(req[x])'
    <3>1. /\ job' = job /\ invoice' = invoice /\ area' = area /\ pincode' = pincode
          /\ person' = person /\ req' = req /\ WorkHandler(req[x])
      BY <1>3 DEF WorkInv, territory
    <3>. QED BY <3>1, WorkUntouched
  <2>3. MoneySound => MoneySound'
    BY <1>3 DEF MoneySound
  <2>4. WorkInv'
    BY <2>1, <2>2, <2>3 DEF WorkInv, Calm
  <2>5. Moves(r, WorkOps)
    BY <1>3, Started
  <2>6. ToldStep /\ FixedStep
    BY <1>3, JobsStand
  <2>7. ASSUME NEW x \in Request, req[x].op \in {"sendWorker", "moveJob", "sync"} PROVE req'[x] # Idle
    BY <1>3, <2>7 DEF Idle
  <2>. QED BY <2>4, <2>5, <2>6, <2>7, PanelStands, PaidStands
<1>4. CASE MayStart(r) /\ JobStarts(r)
  BY <1>2, <1>3, <1>4, JobBegins
<1>5. CASE MayStart(r) /\ InvoicingStarts(r)
  BY <1>2, <1>5, InvoicingBegins
<1>6. CASE JobWrites(r)
  BY <1>6, JobWrite
<1>7. CASE InvoicingWrites(r)
  BY <1>7, InvoicingWrite
<1>. QED BY <1>1, <1>4, <1>5, <1>6, <1>7

LEMMA WorkStartsOut ==
  ASSUME RequestInit, WorkInit
  PROVE  WorkInv
<1>1. WorkTypeOK
  <2>1. job \in [1..Jobs -> JobRow]
    BY DEF WorkInit, JobRow, Life!Status
  <2>2. invoice \in [1..Invoices -> InvoiceRow]
    BY JobsAssumption DEF WorkInit, InvoiceRow, InvoiceStatus, Total
  <2>3. duty \in [Person -> DutyRow]
    BY DEF WorkInit, DutyRow
  <2>. QED BY <2>1, <2>2, <2>3 DEF WorkTypeOK
<1>2. WorkBlank /\ OneInvoice /\ MoneySound /\ CompletedSettled
  <2>1. WorkBlank
    BY DEF WorkInit, WorkBlank, Advance, Total
  <2>2. OneInvoice /\ MoneySound /\ CompletedSettled
    BY DEF WorkInit, OneInvoice, MoneySound, CompletedSettled
  <2>. QED BY <2>1, <2>2
<1>3. ASSUME NEW x \in Request PROVE WorkHandler(req[x]) /\ WorkChecked(req[x]) /\ Phase(req[x])
  BY DEF RequestInit, Idle, WorkHandler, WorkChecked, Phase, JobOps, OfInvoice
<1>. QED BY <1>1, <1>2, <1>3 DEF WorkInv, WorkHolds

-----------------------------------------------------------------------------
(* The back office as a whole *)

BackofficeInv ==
  /\ RequestsOK
  /\ TerritoryInv /\ TaskInv /\ TenancyInv /\ SalesInv /\ TicketInv /\ DocumentInv /\ WorkInv

\* What every step does, of whichever part it is.
StepOK ==
  /\ CascadeStep /\ DeletionStep /\ HiredStep /\ SuperStep
  /\ ApprovalStep /\ AssignedStep
  /\ AccessStep /\ ConvertedStep /\ TicketsGo
  /\ ToldStep /\ PanelStep /\ PaidStep /\ FixedStep

LEMMA StartsOut == Init => BackofficeInv
<1>. SUFFICES ASSUME Init PROVE BackofficeInv
  OBVIOUS
<1>1. RequestsOK
  BY DEF Init, RequestInit, RequestsOK, Idle
<1>. QED BY <1>1, TerritoryStartsOut, TaskStartsOut, TenancyStartsOut, SalesStartsOut, TicketStartsOut,
       DocumentStartsOut, WorkStartsOut DEF Init, BackofficeInv

\* The parts have no operation in common.
LEMMA Apart ==
  \A ops \in {TerritoryOps, TaskOps, TenancyOps, SalesOps, TicketOps, DocumentOps, WorkOps} :
    /\ "idle" \notin ops
    /\ \A other \in {TerritoryOps, TaskOps, TenancyOps, SalesOps, TicketOps, DocumentOps, WorkOps} :
         ops # other => ops \intersect other = {}
<1>. USE DEF TerritoryOps, TaskOps, TenancyOps, SalesOps, TicketOps, DocumentOps, WorkOps, JobOps, OfInvoice
<1>1. \A ops \in {TerritoryOps, TaskOps, TenancyOps, SalesOps, TicketOps, DocumentOps, WorkOps} :
        "idle" \notin ops
  OBVIOUS
<1>2. /\ TerritoryOps \intersect TaskOps = {} /\ TerritoryOps \intersect TenancyOps = {}
      /\ TerritoryOps \intersect SalesOps = {} /\ TerritoryOps \intersect TicketOps = {}
      /\ TerritoryOps \intersect DocumentOps = {} /\ TerritoryOps \intersect WorkOps = {}
  OBVIOUS
<1>3. /\ TaskOps \intersect TenancyOps = {}
      /\ TaskOps \intersect SalesOps = {} /\ TaskOps \intersect TicketOps = {}
      /\ TaskOps \intersect DocumentOps = {} /\ TaskOps \intersect WorkOps = {}
  OBVIOUS
<1>4. /\ TenancyOps \intersect SalesOps = {} /\ TenancyOps \intersect TicketOps = {}
      /\ TenancyOps \intersect DocumentOps = {} /\ TenancyOps \intersect WorkOps = {}
  OBVIOUS
<1>5. /\ SalesOps \intersect TicketOps = {} /\ SalesOps \intersect DocumentOps = {}
      /\ SalesOps \intersect WorkOps = {}
  OBVIOUS
<1>6. /\ TicketOps \intersect DocumentOps = {} /\ TicketOps \intersect WorkOps = {}
      /\ DocumentOps \intersect WorkOps = {}
  OBVIOUS
<1>. HIDE DEF TerritoryOps, TaskOps, TenancyOps, SalesOps, TicketOps, DocumentOps, WorkOps
<1>7. \A a, b : a \intersect b = b \intersect a
  OBVIOUS
<1>. QED BY <1>1, <1>2, <1>3, <1>4, <1>5, <1>6, <1>7

LEMMA TerritoryApart ==
  /\ "idle" \notin TerritoryOps
  /\ \A other \in {TaskOps, TenancyOps, SalesOps, TicketOps, DocumentOps, WorkOps} :
       TerritoryOps \intersect other = {} /\ other \intersect TerritoryOps = {}
<1>1. TerritoryOps \notin {TaskOps, TenancyOps, SalesOps, TicketOps, DocumentOps, WorkOps}
  BY DEF TerritoryOps, TaskOps, TenancyOps, SalesOps, TicketOps, DocumentOps, WorkOps, JobOps
<1>. QED BY <1>1, Apart

LEMMA DifferentParts ==
  /\ TaskOps # TenancyOps /\ TaskOps # SalesOps /\ TaskOps # TicketOps /\ TaskOps # DocumentOps
  /\ TaskOps # WorkOps /\ TenancyOps # SalesOps /\ TenancyOps # TicketOps
  /\ TenancyOps # DocumentOps /\ TenancyOps # WorkOps /\ SalesOps # TicketOps
  /\ SalesOps # DocumentOps /\ SalesOps # WorkOps /\ TicketOps # DocumentOps
  /\ TicketOps # WorkOps /\ DocumentOps # WorkOps
<1>1. /\ "createTask" \in TaskOps /\ "createOrg" \in TenancyOps /\ "createLead" \in SalesOps
      /\ "officeTicket" \in TicketOps /\ "fetch" \in DocumentOps
  BY DEF TaskOps, TenancyOps, SalesOps, TicketOps, DocumentOps
<1>2. /\ "createTask" \notin TenancyOps /\ "createTask" \notin SalesOps /\ "createTask" \notin TicketOps
      /\ "createTask" \notin DocumentOps /\ "createTask" \notin WorkOps
      /\ "createOrg" \notin SalesOps /\ "createOrg" \notin TicketOps /\ "createOrg" \notin DocumentOps
      /\ "createOrg" \notin WorkOps
  BY DEF TenancyOps, SalesOps, TicketOps, DocumentOps, WorkOps, JobOps, OfInvoice
<1>3. /\ "createLead" \notin TicketOps /\ "createLead" \notin DocumentOps /\ "createLead" \notin WorkOps
      /\ "officeTicket" \notin DocumentOps /\ "officeTicket" \notin WorkOps /\ "fetch" \notin WorkOps
  BY DEF TicketOps, DocumentOps, WorkOps, JobOps, OfInvoice
<1>. QED BY <1>1, <1>2, <1>3

\* What a part leaves alone follows.
LEMMA PartsStand ==
  ASSUME BackofficeInv
  PROVE  /\ task' = task => ApprovalStep /\ AssignedStep
         /\ UNCHANGED tenancy => AccessStep
         /\ UNCHANGED sales => ConvertedStep
         /\ UNCHANGED support => TicketsGo
<1>1. ASSUME task' = task PROVE ApprovalStep /\ AssignedStep
  BY <1>1 DEF ApprovalStep, AssignedStep
<1>2. ASSUME UNCHANGED tenancy PROVE AccessStep
  BY <1>2 DEF AccessStep, tenancy
<1>3. ASSUME UNCHANGED sales PROVE ConvertedStep
  <2>1. Unborn /\ customer \in [1..Customers -> CustomerRow]
    BY DEF BackofficeInv, SalesInv, SalesTypeOK
  <2>. QED BY <1>3, <2>1 DEF ConvertedStep, Unborn, sales
<1>4. ASSUME UNCHANGED support PROVE TicketsGo
  BY <1>4 DEF TicketsGo, TicketGoes, support
<1>. QED BY <1>1, <1>2, <1>3, <1>4

LEMMA NextKeeps ==
  ASSUME BackofficeInv, Next
  PROVE  BackofficeInv' /\ StepOK
<1>i. /\ RequestsOK /\ TerritoryInv /\ TaskInv /\ TenancyInv /\ SalesInv /\ TicketInv /\ DocumentInv
      /\ WorkInv /\ workload' = workload /\ WorkTypeOK
  BY DEF BackofficeInv, WorkInv, WorkHolds, Next
<1>. DEFINE Goal == BackofficeInv' /\ StepOK
<1>1. CASE TerritoryNext /\ UNCHANGED <<task, work, support, tenancy, sales, document>>
  <2>1. PICK r : Moves(r, TerritoryOps)
    BY <1>i, <1>1, TerritoryKeeps
  <2>2. RequestsOK' /\ Stirs(TerritoryOps) /\ Clears(TerritoryOps)
    BY <1>i, <2>1, Apart, MovesAlone
  <2>3. TerritoryInv' /\ CascadeStep /\ DeletionStep /\ HiredStep /\ SuperStep
    BY <1>i, <1>1, TerritoryKeeps, TerritoryFollows
  <2>4. WorkInv' /\ ToldStep /\ PanelStep /\ PaidStep /\ FixedStep
    BY <1>i, <1>1, <2>1, TerritoryApart, WorkFrame, WorkFollows
  <2>5. TaskInv' /\ TenancyInv' /\ SalesInv' /\ TicketInv' /\ DocumentInv'
    BY <1>i, <1>1, <2>2, TerritoryApart, TaskFrame, TenancyFrame, SalesFrame, TicketFrame, DocumentFrame
  <2>. QED BY <1>1, <2>2, <2>3, <2>4, <2>5, PartsStand DEF BackofficeInv, StepOK
\* The other parts change no territory.
<1>o. ASSUME NEW ops \in {TaskOps, TenancyOps, SalesOps, TicketOps, DocumentOps, WorkOps},
             UNCHANGED territory,
             \/ \E r : Moves(r, ops)
             \/ req' = req
             \/ \E r \in Request : Fails(r)
      PROVE  /\ RequestsOK' /\ Stirs(ops)
             /\ TerritoryInv' /\ CascadeStep /\ DeletionStep /\ HiredStep /\ SuperStep
             /\ task' = task /\ ops # TaskOps => TaskInv'
             /\ UNCHANGED tenancy /\ ops # TenancyOps => TenancyInv'
             /\ UNCHANGED sales /\ ops # SalesOps => SalesInv'
             /\ UNCHANGED support /\ ops # TicketOps => TicketInv'
             /\ UNCHANGED document /\ ops # DocumentOps => DocumentInv'
             /\ UNCHANGED work /\ ops # WorkOps => WorkInv' /\ ToldStep /\ PanelStep /\ PaidStep /\ FixedStep
  <2>1. RequestsOK' /\ Stirs(ops)
    <3>1. CASE \E r : Moves(r, ops)
      BY <1>i, <1>o, <3>1, Apart, MovesAlone
    <3>2. CASE req' = req
      BY <1>i, <3>2 DEF RequestsOK, Stirs
    <3>3. CASE \E r \in Request : Fails(r)
      BY <1>i, <3>3, FailsAlone
    <3>. QED BY <1>o, <3>1, <3>2, <3>3
  <2>2. /\ ops \intersect TerritoryOps = {} /\ "idle" \notin ops
        /\ ops # TaskOps => ops \intersect TaskOps = {}
        /\ ops # TenancyOps => ops \intersect TenancyOps = {}
        /\ ops # SalesOps => ops \intersect SalesOps = {}
        /\ ops # TicketOps => ops \intersect TicketOps = {}
        /\ ops # DocumentOps => ops \intersect DocumentOps = {}
        /\ ops # WorkOps => ops \intersect WorkOps = {}
    BY <1>o, Apart, TerritoryApart
  <2>3. TerritoryInv' /\ CascadeStep /\ DeletionStep /\ HiredStep /\ SuperStep
    BY <1>i, <1>o, <2>1, <2>2, TerritoryFrame, OthersFollow
  <2>4. task' = task /\ ops # TaskOps => TaskInv'
    BY <1>i, <1>o, <2>1, <2>2, TaskFrame
  <2>5. UNCHANGED tenancy /\ ops # TenancyOps => TenancyInv'
    BY <1>i, <2>1, <2>2, TenancyFrame
  <2>6. UNCHANGED sales /\ ops # SalesOps => SalesInv'
    BY <1>i, <2>1, <2>2, SalesFrame
  <2>7. UNCHANGED support /\ ops # TicketOps => TicketInv'
    BY <1>i, <2>1, <2>2, TicketFrame
  <2>8. UNCHANGED document /\ ops # DocumentOps => DocumentInv'
    BY <1>i, <2>1, <2>2, DocumentFrame
  <2>9. UNCHANGED work /\ ops # WorkOps => WorkInv'
    BY <1>i, <1>o, <2>2, WorkFrame
  <2>10. UNCHANGED work /\ ops # WorkOps => ToldStep /\ PanelStep /\ PaidStep /\ FixedStep
    BY <1>i, <1>o, <2>2, WorkFollows
  <2>. QED BY <2>1, <2>3, <2>4, <2>5, <2>6, <2>7, <2>8, <2>9, <2>10
<1>2. CASE TaskNext /\ UNCHANGED <<territory, work, support, tenancy, sales, document>>
  <2>1. TaskInv' /\ (\E r : Moves(r, TaskOps)) /\ ApprovalStep /\ AssignedStep
    BY <1>i, <1>2, TaskKeeps
  <2>. QED BY <1>2, <1>o, <2>1, PartsStand, DifferentParts DEF BackofficeInv, StepOK
<1>3. CASE (JobNext \/ InvoicingNext) /\ UNCHANGED <<territory, task, support, tenancy, sales, document>>
  <2>1. WorkInv' /\ (\E r : Moves(r, WorkOps)) /\ ToldStep /\ PanelStep /\ PaidStep /\ FixedStep
    BY <1>i, <1>3, WorkKeeps
  <2>. QED BY <1>3, <1>o, <2>1, PartsStand, DifferentParts DEF BackofficeInv, StepOK
<1>4. CASE TicketNext /\ UNCHANGED <<territory, task, work, tenancy, sales, document>>
  <2>1. TicketInv' /\ (\E r : Moves(r, TicketOps)) /\ TicketsGo
    BY <1>i, <1>4, TicketKeeps
  <2>. QED BY <1>4, <1>o, <2>1, PartsStand, DifferentParts DEF BackofficeInv, StepOK
<1>5. CASE TenancyNext /\ UNCHANGED <<territory, task, work, support, sales, document>>
  <2>1. TenancyInv' /\ AccessStep /\ ((\E r : Moves(r, TenancyOps)) \/ req' = req)
    BY <1>i, <1>5, TenancyKeeps
  <2>. QED BY <1>5, <1>o, <2>1, PartsStand, DifferentParts DEF BackofficeInv, StepOK
<1>6. CASE SalesNext /\ UNCHANGED <<territory, task, work, support, tenancy, document>>
  <2>1. SalesInv' /\ (\E r : Moves(r, SalesOps)) /\ ConvertedStep
    BY <1>i, <1>6, SalesKeeps
  <2>. QED BY <1>6, <1>o, <2>1, PartsStand, DifferentParts DEF BackofficeInv, StepOK
<1>7. CASE DocumentNext /\ UNCHANGED <<territory, task, work, support, tenancy, sales>>
  <2>1. DocumentInv' /\ (\E r : Moves(r, DocumentOps))
    BY <1>i, <1>7, DocumentKeeps
  <2>. QED BY <1>7, <1>o, <2>1, PartsStand, DifferentParts DEF BackofficeInv, StepOK
<1>8. CASE \E r \in Request : Fails(r) /\ UNCHANGED <<territory, task, work, support, tenancy, sales, document>>
  <2>1. /\ UNCHANGED <<territory, task, work, support, tenancy, sales, document>>
        /\ \E r \in Request : Fails(r)
    BY <1>8
  <2>2. /\ RequestsOK' /\ TerritoryInv' /\ CascadeStep /\ DeletionStep /\ HiredStep /\ SuperStep
        /\ TenancyInv' /\ SalesInv' /\ TicketInv' /\ DocumentInv' /\ WorkInv'
        /\ ToldStep /\ PanelStep /\ PaidStep /\ FixedStep
    BY <1>o, <2>1, DifferentParts
  <2>3. TaskInv'
    BY <1>o, <2>1, DifferentParts
  <2>. QED BY <2>1, <2>2, <2>3, PartsStand DEF BackofficeInv, StepOK
<1>. QED BY <1>1, <1>2, <1>3, <1>4, <1>5, <1>6, <1>7, <1>8 DEF Next

LEMMA StutterKeeps ==
  ASSUME BackofficeInv, UNCHANGED vars
  PROVE  BackofficeInv' /\ StepOK
<1>i. /\ RequestsOK /\ TerritoryInv /\ TaskInv /\ TenancyInv /\ SalesInv /\ TicketInv /\ DocumentInv /\ WorkInv
      /\ workload' = workload /\ req' = req
      /\ UNCHANGED <<territory, task, work, support, tenancy, sales, document>>
  BY DEF BackofficeInv, vars, handling
<1>1. RequestsOK' /\ Stirs({})
  BY <1>i DEF RequestsOK, Stirs
<1>2. TerritoryInv' /\ CascadeStep /\ DeletionStep /\ HiredStep /\ SuperStep
  BY <1>i, <1>1, TerritoryFrame, OthersFollow
<1>3. TaskInv' /\ TenancyInv' /\ SalesInv' /\ TicketInv' /\ DocumentInv'
  BY <1>i, <1>1, TaskFrame, TenancyFrame, SalesFrame, TicketFrame, DocumentFrame
<1>4. WorkInv' /\ ToldStep /\ PanelStep /\ PaidStep /\ FixedStep
  <2>1. {} \intersect WorkOps = {} /\ "idle" \notin {}
    OBVIOUS
  <2>2. WorkInv'
    BY <1>i, <2>1, WorkFrame
  <2>. QED BY <1>i, <2>1, <2>2, WorkFollows
<1>. QED BY <1>i, <1>1, <1>2, <1>3, <1>4, PartsStand DEF BackofficeInv, StepOK

LEMMA Step == BackofficeInv /\ [Next]_vars => BackofficeInv' /\ StepOK
BY NextKeeps, StutterKeeps

LEMMA Always == Spec => []BackofficeInv
BY StartsOut, Step, PTL DEF Spec

-----------------------------------------------------------------------------
(* Theorems *)

\* Every table keeps the shape declared for it, through every handler, failure
\* and overlap.
THEOREM TypeCorrect == Spec => []TypeOK
<1>1. BackofficeInv => TypeOK
  BY DEF BackofficeInv, TypeOK, RequestsOK, TerritoryInv, TaskInv, WorkInv, WorkHolds, TicketInv,
         TicketHolds, TenancyInv, SalesInv, DocumentInv
<1>. QED BY Always, <1>1, PTL

\* No record is ever half written: an approved task has its photos and its date,
\* what has ended or been cancelled is dated, tickets of the app are numbered
\* without a gap, two offices never have one name, and no row refers to one that
\* is gone.
THEOREM NothingHalfWritten == Spec => []RecordsAreWhole
<1>1. BackofficeInv => RecordsAreWhole
  <2>. SUFFICES ASSUME BackofficeInv PROVE RecordsAreWhole
    OBVIOUS
  <2>1. CompletedHasEvidence
    BY DEF BackofficeInv, TaskInv, Evident, CompletedHasEvidence
  <2>2. ClosedLeadIsDated
    BY DEF BackofficeInv, SalesInv, LeadsDated, ClosedLeadIsDated
  <2>3. EndIsDated /\ NumbersConsecutive
    BY DEF BackofficeInv, TicketInv, TicketHolds
  <2>4. CancelledIsDated /\ NoOrphans /\ NothingDangles /\ NotedIsStored /\ OfficeNamesDistinct
    BY DEF BackofficeInv, TenancyInv, SalesInv, DocumentInv, TerritoryInv
  <2>. QED BY <2>1, <2>2, <2>3, <2>4 DEF RecordsAreWhole
<1>. QED BY Always, <1>1, PTL

\* Staff follow their places: the status of an area reaches all who are put
\* there, a deletion takes nobody's place, who is hired is in the team that
\* hired, and no super administrator is made or unmade.
THEOREM PlacesFollow == Spec => StaffFollowPlaces
<1>1. BackofficeInv /\ [Next]_vars => CascadeStep /\ DeletionStep /\ HiredStep /\ SuperStep
  BY Step DEF StepOK
<1>. QED BY Always, <1>1, PTL
     DEF Spec, StaffFollowPlaces, CascadeReachesEveryone, DeletionTakesNoPlace, HiredIsInTeam,
         SuperAdminsStay, CascadeStep, DeletionStep, HiredStep, SuperStep

\* Work reaches those who can do it: who is told of a job sees it, what a manager
\* does to a job never takes it off the manager's panel, who is given a task may do
\* it, and who has paid for a booking finds it.
THEOREM WorkIsFound == Spec => PanelsFollow
<1>1. BackofficeInv /\ [Next]_vars => ToldStep /\ PanelStep /\ AssignedStep /\ PaidStep
  BY Step DEF StepOK
<1>. QED BY Always, <1>1, PTL
     DEF Spec, PanelsFollow, ToldManagersSee, JobStaysOnPanel, AssignedIsEligible, PaidIsShown,
         ToldStep, PanelStep, AssignedStep, PaidStep

\* The bodies of two properties of tickets.
ClosedStep ==
  ~workload.overlap =>
    \A t \in 1..Tickets : TicketExists(t) /\ ticket[t].status = "CLOSED" =>
      \/ ticket'[t] = ticket[t]
      \/ ticket[t].number # 0 /\ ticket'[t].posts = ticket[t].posts
           /\ ticket'[t].log = ticket[t].log

LogStep ==
  \A t \in 1..Tickets : ticket'[t].log # ticket[t].log =>
    LET entry == ticket'[t].log[Len(ticket'[t].log)] IN
      /\ entry.to > entry.from
      /\ ~workload.overlap =>
           ticket[t].priority = entry.from /\ ticket'[t].priority = entry.to

\* And that of one of jobs.
CompletedStep ==
  ~workload.overlap /\ ~workload.failures =>
    \A j \in 1..Jobs : JobExists(j) /\ job[j].status = "COMPLETED" /\ JobExists(j)' =>
      /\ [job'[j] EXCEPT !.collected = TRUE] = [job[j] EXCEPT !.collected = TRUE]
      /\ ~job[j].collected => Amount(j)' = Amount(j)

LEMMA TicketSteps == TicketsGo => ClosedStep /\ LogStep
BY DEF TicketsGo, TicketGoes, ClosedStep, LogStep, TicketExists

\* What was decided stays decided: an approval of a task, the end of a ticket, the
\* conversion of a lead, a completed job and what it counts for, and the access a
\* subscription has paid for.
THEOREM DecidedStays == Spec => FinalIsFinal
<1>1. BackofficeInv /\ [Next]_vars =>
        ApprovalStep /\ ClosedStep /\ ConvertedStep /\ FixedStep /\ AccessStep /\ LogStep
  BY Step, TicketSteps DEF StepOK
<1>2. FixedStep => CompletedStep
  BY DEF FixedStep, CompletedStep, Calm
<1>. QED BY Always, <1>1, <1>2, PTL
     DEF Spec, FinalIsFinal, ApprovalIsFinal, ClosedIsFinal, ConvertedOnce, CompletedIsFixed,
         CancelKeepsAccess, LogTellsTruth, ApprovalStep, ClosedStep, ConvertedStep, AccessStep, LogStep,
         CompletedStep

\* What the customer reads on an invoice is what was paid, through edits, partial
\* payments, orders for another part of the price that stay open, and refunds; and
\* no more is paid than is owed unless an order was paid late; when requests neither
\* overlap nor fail half-way.
THEOREM MoneyIsTold == Spec => []StatusFollowsMoney
<1>1. BackofficeInv => StatusFollowsMoney
  <2>. SUFFICES ASSUME WorkInv, Calm, Quiet, NEW i \in 1..Invoices, InvoiceExists(i)
                PROVE  /\ invoice[i].status = "PAID" => Outstanding(i) = 0
                       /\ invoice[i].status = "PARTIALLY_PAID" => Paid(i) > 0
                       /\ Paid(i) > 0 =>
                            invoice[i].status \in {"PARTIALLY_PAID", "PAID", "CANCELLED", "REFUNDED"}
                       /\ ~invoice[i].late =>
                            /\ Paid(i) <= invoice[i].total
                            /\ invoice[i].status = "PARTIALLY_PAID" => Outstanding(i) > 0
                            /\ invoice[i].status = "REFUNDED" => Paid(i) = 0
    BY DEF BackofficeInv, StatusFollowsMoney, Calm
  <2>1. RowSound(invoice[i])
    BY AllSound DEF InvoiceExists
  <2>2. /\ RowPaid(invoice[i]) \in Nat /\ invoice[i].total \in Nat /\ Paid(i) = RowPaid(invoice[i])
        /\ invoice[i].status \in InvoiceStatus
    BY PaidTypes, PaidRow DEF WorkInv, WorkHolds, WorkTypeOK, InvoiceRow, Total
  <2>. QED BY <2>1, <2>2 DEF RowSound, Outstanding, InvoiceStatus
<1>. QED BY Always, <1>1, PTL

-----------------------------------------------------------------------------
(* The lists of a panel *)

\* What the lists are made of.
LEMMA ListTypes ==
  ASSUME BackofficeInv
  PROVE  /\ \A u \in Person : /\ person[u] \in PersonRow /\ duty[u] \in DutyRow /\ u # None
                              /\ person[u].areas \subseteq 1..Areas /\ 0 \notin person[u].areas
                              /\ person[u].active \in BOOLEAN
         /\ \A j \in 1..Jobs : j # 0 /\ job[j] \in JobRow
         /\ \A t \in 1..Tickets : ticket[t].job \in 0..Jobs
<1>1. \A u \in Person : person[u] \in PersonRow
  BY DEF BackofficeInv, TerritoryInv, TerritoryTypeOK
<1>2. \A u \in Person : person[u].areas \subseteq 1..Areas /\ 0 \notin person[u].areas /\ person[u].active \in BOOLEAN
  BY <1>1 DEF PersonRow
<1>3. \A u \in Person : duty[u] \in DutyRow
  BY DEF BackofficeInv, WorkInv, WorkHolds, WorkTypeOK
<1>4. \A j \in 1..Jobs : j # 0 /\ job[j] \in JobRow
  BY DEF BackofficeInv, WorkInv, WorkHolds, WorkTypeOK
<1>5. \A t \in 1..Tickets : ticket[t].job \in 0..Jobs
  BY DEF BackofficeInv, TicketInv, TicketHolds, TicketTypeOK, TicketRow
<1>. QED BY <1>1, <1>2, <1>3, <1>4, <1>5, TerritoryAssumption

LEMMA LiveOnDuty ==
  ASSUME NEW w, duty[w].status \in {"CHECKED_IN", "CHECKED_OUT"}
  PROVE  /\ Live(w) # "offline" <=> Tracked(w) = "LIVE"
         /\ Live(w) # "offline" => OnDuty(w)
BY DEF Live, Tracked, OnDuty

LEMMA RolesProfiled == BackofficeInv => RoleHasProfile
BY DEF BackofficeInv, TerritoryInv, Profiled, RoleHasProfile, Has

LEMMA ListedOnce == EveryoneListedOnce
<1>. SUFFICES ASSUME NEW m \in Person, Has(m, "MANAGER"), person[m].areas # {}, person[m].pincodes = {}
              PROVE  LET staff == {w \in Person : Has(w, "WORKER")} IN
                       /\ Listed(m) \intersect staff = Counted(m)
                       /\ Counted(m) \union Inactive(m) = {w \in staff : InTeam(m, w)}
                       /\ Counted(m) \intersect Inactive(m) = {}
  BY DEF EveryoneListedOnce
<1>. QED BY DEF Listed, ByArea, Counted, Inactive, Reported, InTeam, InFilter, Has, Exists

LEMMA WorkersListed ==
  ASSUME BackofficeInv
  PROVE  WorkersOpen
<1>t. /\ \A u \in Person : /\ duty[u] \in DutyRow /\ u # None
                           /\ 0 \notin person[u].areas /\ person[u].active \in BOOLEAN
  BY ListTypes
<1>. SUFFICES ASSUME NEW m \in Person, ByAreaOnly(m)
              PROVE  LET all == getWorkerList(m, "all", 0)
                         present == getPresentWorkers(m)
                         absent == getAbsentWorkers(m)
                         listed == Listed(m)
                     IN
                     /\ present \intersect absent = {}
                     /\ present \union absent = all
                     /\ UNION {getWorkerList(m, "all", a) : a \in person[m].areas} = listed
                     /\ UNION {getWorkerList(m, "inactive", a) : a \in person[m].areas} = Inactive(m)
                     /\ listed = fetchWorkerTrackingRecords(m, 0)
                     /\ \A w \in {u \in all \union getWorkerList(m, "inactive", 0) : Has(u, "WORKER")} :
                          \E row \in getWorkerDetails(m, w) :
                            /\ row.completedJobs = WorkerCard(m, w).completedJobs
                            /\ row.isActive => (row.present <=> w \notin absent)
                     /\ {w \in present : Has(w, "WORKER")} \subseteq getReportsAttendance(m)
                     /\ \A w \in listed : Has(w, "WORKER") => getWorkerLiveStatus(m, w) # {}
                     /\ \A row \in getLiveTracking({"WORKER"}, m, 0, {"LIVE"}) :
                          row[1] = "WORKER" => row[2] \in listed /\ Live(row[2]) # "offline"
                     /\ \A w \in listed :
                          duty[w].status \in {"CHECKED_IN", "CHECKED_OUT"} /\ WorkerCard(m, w).status # "offline" =>
                            WorkerCard(m, w).today = "CHECKED_IN"
  BY DEF WorkersOpen
<1>. DEFINE all == getWorkerList(m, "all", 0)
            absent == getAbsentWorkers(m)
            present == getPresentWorkers(m)
            listed == Listed(m)
<1>m. m # None /\ Has(m, "MANAGER") /\ person[m].areas # {} /\ person[m].pincodes = {}
  BY <1>t DEF ByAreaOnly
<1>l. listed = {w \in Person : Exists(w) /\ person[w].worker /\ person[w].active
                               /\ person[w].area \in person[m].areas}
  BY DEF Listed, ByArea
<1>a. all = listed
  BY <1>l, <1>m DEF getWorkerList, getWorkers
<1>b. absent = {w \in listed : duty[w].day # "today"} /\ present = {w \in listed : duty[w].day = "today"}
  BY <1>l, <1>m DEF getAbsentWorkers, getPresentWorkers, getWorkers
<1>i. Inactive(m) = {w \in Person : /\ Has(w, "WORKER") /\ person[w].worker /\ ~person[w].active
                                    /\ person[w].area \in person[m].areas}
  BY <1>m DEF Inactive, Reported
<1>1. present \intersect absent = {} /\ present \union absent = all
  BY <1>a, <1>b
<1>2. UNION {getWorkerList(m, "all", a) : a \in person[m].areas} = listed
  <2>1. ASSUME NEW a \in person[m].areas PROVE getWorkerList(m, "all", a) = {w \in listed : person[w].area = a}
    <3>1. a # 0 /\ a \in getManagerScope(m).areas
      BY <1>t DEF getManagerScope
    <3>2. getWorkerList(m, "all", a) = getWorkers(m, {a}, "all")
      BY <3>1 DEF getWorkerList
    <3>. QED BY <1>l, <1>m, <3>2 DEF getWorkers
  <2>2. \A w \in listed : person[w].area \in person[m].areas
    BY <1>l
  <2>. HIDE DEF listed
  <2>. QED BY <2>1, <2>2
<1>3. UNION {getWorkerList(m, "inactive", a) : a \in person[m].areas} = Inactive(m)
  <2>1. ASSUME NEW a \in person[m].areas
        PROVE  getWorkerList(m, "inactive", a) = {w \in Inactive(m) : person[w].area = a}
    <3>1. a # 0 /\ a \in getManagerScope(m).areas
      BY <1>t DEF getManagerScope
    <3>. QED BY <3>1 DEF getWorkerList
  <2>2. \A w \in Inactive(m) : person[w].area \in person[m].areas
    BY <1>i
  <2>. QED BY <2>1, <2>2
<1>4. listed = fetchWorkerTrackingRecords(m, 0)
  BY <1>l, <1>m DEF fetchWorkerTrackingRecords
<1>5. ASSUME NEW w \in all \union getWorkerList(m, "inactive", 0), Has(w, "WORKER")
      PROVE  \E row \in getWorkerDetails(m, w) :
               /\ row.completedJobs = WorkerCard(m, w).completedJobs
               /\ row.isActive => (row.present <=> w \notin absent)
  <2>1. w \in Person /\ person[w].worker /\ person[w].area \in person[m].areas /\ Exists(w)
    <3>1. CASE w \in all
      BY <1>a, <1>l, <3>1
    <3>2. CASE w \in getWorkerList(m, "inactive", 0)
      BY <1>i, <3>2 DEF getWorkerList, Has
    <3>. QED BY <1>5, <3>1, <3>2
  <2>2. InTeam(m, w) /\ w \in Reported(m)
    BY <1>5, <1>m, <2>1 DEF InTeam, InFilter, Reported
  <2>. DEFINE report == getWorkerReport[w]
              row == [isActive |-> person[w].active,
                      completedJobs |-> report.completedJobs, pendingJobs |-> report.pendingJobs,
                      present |-> duty[w].day = "today",
                      officeLocations |-> IF AreaExists(person[w].area) THEN OfficesOf(person[w].area) ELSE {}]
  <2>. HIDE DEF report
  <2>3. getWorkerDetails(m, w) = {row}
    BY <2>2 DEF getWorkerDetails, report
  <2>4. WorkerCard(m, w).completedJobs = report.completedJobs
    BY <2>2 DEF WorkerCard, report
  <2>5. row.completedJobs = report.completedJobs
    OBVIOUS
  <2>6. row.isActive => (row.present <=> w \notin absent)
    <3>1. row.isActive = person[w].active
      OBVIOUS
    <3>2. row.present = (duty[w].day = "today")
      OBVIOUS
    <3>3. person[w].active => w \in listed
      BY <1>l, <2>1
    <3>. HIDE DEF row, absent, listed
    <3>. QED BY <1>b, <3>1, <3>2, <3>3
  <2>. HIDE DEF row
  <2>. QED BY <2>3, <2>4, <2>5, <2>6
<1>6. {w \in present : Has(w, "WORKER")} \subseteq getReportsAttendance(m)
  BY <1>b, <1>l, <1>m DEF getReportsAttendance, InFilter
<1>7. \A w \in listed : Has(w, "WORKER") => getWorkerLiveStatus(m, w) # {}
  BY <1>l, <1>m DEF getWorkerLiveStatus, InTeam, InFilter
<1>8. ASSUME NEW row \in getLiveTracking({"WORKER"}, m, 0, {"LIVE"}), row[1] = "WORKER"
      PROVE  row[2] \in listed /\ Live(row[2]) # "offline"
  <2>1. row \in {"WORKER"} \X {u \in fetchWorkerTrackingRecords(m, 0) : {"LIVE"} # {} => Tracked(u) \in {"LIVE"}}
    BY DEF getLiveTracking
  <2>2. row[2] \in fetchWorkerTrackingRecords(m, 0) /\ Tracked(row[2]) = "LIVE"
    BY <2>1
  <2>3. Live(row[2]) # "offline"
    BY <2>2 DEF Live, Tracked, OnDuty
  <2>. QED BY <1>4, <2>2, <2>3
<1>9. ASSUME NEW w \in listed, duty[w].status \in {"CHECKED_IN", "CHECKED_OUT"},
             WorkerCard(m, w).status # "offline"
      PROVE  WorkerCard(m, w).today = "CHECKED_IN"
  <2>1. WorkerCard(m, w).status = Live(w) /\ WorkerCard(m, w).today = ShownStatus(w)
    BY DEF WorkerCard
  <2>2. OnDuty(w)
    BY <1>9, <2>1, LiveOnDuty
  <2>. QED BY <2>1, <2>2 DEF OnDuty, ShownStatus
<1>. HIDE DEF all, absent, present, listed
<1>. QED BY <1>1, <1>2, <1>3, <1>4, <1>5, <1>6, <1>7, <1>8, <1>9 DEF all, absent, present, listed

LEMMA JobsListed ==
  ASSUME BackofficeInv
  PROVE  JobsOpen
<1>t. /\ \A u \in Person : u # None /\ 0 \notin person[u].areas
      /\ \A j \in 1..Jobs : j # 0
      /\ \A t \in 1..Tickets : ticket[t].job \in 0..Jobs
  BY ListTypes
<1>. SUFFICES ASSUME NEW m \in Person, Has(m, "MANAGER")
              PROVE  /\ ByAreaOnly(m) =>
                          \A j \in Scope(m) :
                            \/ job[j].manager = m
                            \/ \E a \in person[m].areas : j \in getJobsList(m, None, a, 0)
                     /\ \A w \in Person : InTeam(m, w) => getWorkerBookings(w) = getJobsList(m, w, 0, 0)
                     /\ \A w \in Person : \A j \in getJobsList(m, w, 0, 0) : getWorkerJobById(w, j)
                     /\ \A t \in findTickets(m) : OpensTicket(m, t) /\ getJobDetail(m, ticket[t].job) # {}
  BY DEF JobsOpen
<1>1. ASSUME ByAreaOnly(m), NEW j \in Scope(m), job[j].manager # m
      PROVE  \E a \in person[m].areas : j \in getJobsList(m, None, a, 0)
  <2>1. ASSUME NEW a \in person[m].areas,
               \/ job[j].worker # None /\ person[job[j].worker].worker /\ person[job[j].worker].area = a
               \/ AreaExists(a) /\ job[j].code = AreaCode[a]
        PROVE  j \in getJobsList(m, None, a, 0)
    <3>1. a # 0
      BY <1>t
    <3>2. getJobsList(m, None, a, 0) =
            {k \in Scope(m) :
               \/ /\ job[k].worker # None /\ person[job[k].worker].worker
                  /\ person[job[k].worker].area \in {a}
               \/ job[k].code \in {AreaCode[b] : b \in {c \in {a} : AreaExists(c)}}}
      BY <3>1 DEF getJobsList
    <3>. QED BY <2>1, <3>2
  <2>2. CASE job[j].worker # None /\ InFilter(m, job[j].worker)
    BY <1>1, <2>1, <2>2 DEF InFilter, ByAreaOnly
  <2>3. CASE job[j].code \in ManagerCodes(m)
    <3>1. PICK a \in person[m].areas : AreaExists(a) /\ job[j].code = AreaCode[a]
      BY <1>1, <2>3 DEF ManagerCodes, ByAreaOnly
    <3>. QED BY <2>1, <3>1
  <2>. QED BY <1>1, <2>2, <2>3 DEF Scope, InScope
<1>2. ASSUME NEW w \in Person
      PROVE  /\ getJobsList(m, w, 0, 0) = IF InTeam(m, w) THEN {j \in Scope(m) : job[j].worker = w} ELSE {}
             /\ getWorkerBookings(w) = {j \in 1..Jobs : JobExists(j) /\ job[j].worker = w}
  <2>1. w # None
    BY <1>t
  <2>2. getJobsList(m, w, 0, 0) = IF InTeam(m, w) THEN {j \in Scope(m) : job[j].worker = w} ELSE {}
    BY <2>1 DEF getJobsList
  <2>3. getWorkerBookings(w) = {j \in 1..Jobs : JobExists(j) /\ job[j].worker = w}
    BY <2>1 DEF getWorkerBookings, buildWhere, JobsThat
  <2>. QED BY <2>2, <2>3
<1>3. ASSUME NEW w \in Person, InTeam(m, w) PROVE getWorkerBookings(w) = getJobsList(m, w, 0, 0)
  <2>1. \A j \in 1..Jobs : JobExists(j) /\ job[j].worker = w => j \in Scope(m)
    BY <1>t, <1>3 DEF Scope, InScope, InTeam
  <2>2. \A j \in Scope(m) : j \in 1..Jobs /\ JobExists(j)
    BY DEF Scope
  <2>. QED BY <1>2, <1>3, <2>1, <2>2
<1>4. ASSUME NEW w \in Person, NEW j \in getJobsList(m, w, 0, 0) PROVE getWorkerJobById(w, j)
  BY <1>2 DEF Scope, getWorkerJobById
<1>5. ASSUME NEW t \in findTickets(m) PROVE OpensTicket(m, t) /\ getJobDetail(m, ticket[t].job) # {}
  <2>1. /\ t \in 1..Tickets /\ TicketExists(t) /\ (IsLimitedRole(m) => ticket[t].author = m)
        /\ isTicketInManagerScope(t, m)
    BY DEF findTickets, Has
  <2>2. ticket[t].job \in 1..Jobs /\ JobExists(ticket[t].job)
    BY <1>t, <2>1, JobsAssumption DEF isTicketInManagerScope, JobExists
  <2>3. ticket[t].job \in Scope(m)
    BY <2>1, <2>2 DEF isTicketInManagerScope, resolveManagerBookingWhere, Scope, InScope
  <2>. QED BY <2>1, <2>3 DEF OpensTicket, getJobDetail
<1>. QED BY <1>1, <1>2, <1>3, <1>4, <1>5

\* Everyone has the profile of the role held, and the lists of workers, jobs and
\* tickets agree about them, whatever was written between the rows they are built
\* from.
THEOREM ListsAgree == Spec => []StaffAndLists
<1>1. BackofficeInv => StaffAndLists
  BY RolesProfiled, ListedOnce, LiveOnDuty, WorkersListed, JobsListed
     DEF StaffAndLists, ShownFreeIsOnDuty
<1>. QED BY Always, <1>1, PTL

=============================================================================
