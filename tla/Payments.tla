----------------------------- MODULE Payments -----------------------------
(***************************************************************************)
(* The payments of one invoice: the payments service, the part of the      *)
(* invoices service it drives, and the Razorpay webhook, over one          *)
(* database.  Razorpay itself is the environment: it captures, fails and   *)
(* refunds payments, and announces each by a webhook it repeats until it   *)
(* is answered with success, in any order.                                 *)
(*                                                                         *)
(* As in module Booking, a handler is a sequence of awaited queries and    *)
(* req[r] is what the handler of request r remembers between two of them.  *)
(* Only the two updates of a payment and its transaction are atomic        *)
(* ($transaction).  A query may throw, and the process may die, between    *)
(* any two of them.                                                        *)
(*                                                                         *)
(* `workload' is the mix of requests of a behaviour: the operations that   *)
(* occur, whether their handlers may overlap, how many queries may throw   *)
(* or processes die, how many payments are ever made, and the types that   *)
(* orders are asked for as.                                                *)
(*                                                                         *)
(* Of the booking only one thing matters here: whether it still awaits     *)
(* payment.                                                                *)
(***************************************************************************)
EXTENDS Integers, FiniteSets

\* What an order is asked for as; payments at the desk have no type.
PaymentType == {"ADVANCE", "FULL"}

CONSTANTS
  Payment,   \* ids of Payment rows, each with its Transaction
  Request,   \* the requests and webhook deliveries that may be in flight at once
  Advance,   \* Booking.advanceAmount
  Total,     \* Booking.totalAmount
  Workloads, \* the mixes to consider
  None       \* no payment

ASSUME AmountsAssumption == Advance \in Nat /\ Total \in Nat /\ 0 < Advance /\ Advance <= Total

ASSUME WorkloadsAssumption ==
  \A w \in Workloads : w.overlap \in BOOLEAN /\ w.failures \in Nat /\ w.payments \in Nat
                     /\ w.types \subseteq PaymentType

ASSUME PaymentsAssumption == IsFiniteSet(Payment) /\ None \notin Payment

VARIABLES
  invoice,   \* the Invoice row: status and total
  payment,   \* the Payment rows, each with its Transaction
  gateway,   \* what happened to each order at Razorpay
  event,     \* the WebhookEvent rows
  awaiting,  \* the booking's status is PENDING_PAYMENT
  req,       \* the handlers in flight
  failures,  \* queries that threw, and processes that died, so far
  workload   \* the mix of this behaviour

vars == <<invoice, payment, gateway, event, awaiting, req, failures, workload>>

-----------------------------------------------------------------------------
(* Rows *)

InvoiceStatus ==
  {"DRAFT", "SENT", "PARTIALLY_PAID", "PAID", "OVERDUE", "CANCELLED", "REFUNDED"}

MUTABLE_STATUSES == {"DRAFT", "SENT"}

\* razorpay: which of the gateway's payment ids the transaction names, the
\* one of a failed attempt or the one that captured the money.
Row ==
  [status : {"NONE", "PENDING", "SUCCESS", "FAILED", "REFUNDED"},
   txn : {"NONE", "CREATED", "PAID", "FAILED"},
   razorpay : {"none", "attempt", "capture"},
   type : PaymentType \union {"none"},
   amount : 0..Total]

NoRow ==
  [status |-> "NONE", txn |-> "NONE", razorpay |-> "none", type |-> "none", amount |-> 0]

Event == [kind : {"payment.captured", "order.paid", "payment.failed", "refund.processed"},
          p : Payment]

\* What must have happened at the gateway for an event to be sent.
Announces(e) ==
  CASE e.kind \in {"payment.captured", "order.paid"} -> "captured"
    [] e.kind = "payment.failed" -> "failed"
    [] e.kind = "refund.processed" -> "refunded"

Succeeded == {p \in Payment : payment[p].status = "SUCCESS"}

\* Rows not yet inserted, as many as may be.
Unused ==
  {p \in Payment : payment[p] = NoRow
                   /\ Cardinality({q \in Payment : payment[q] # NoRow}) < workload.payments}

\* What a set of payments amounts to: one pair for each unit.
SumOf(ps) == Cardinality({unit \in ps \X (1..Total) : unit[2] <= payment[unit[1]].amount})

\* The live sum of the invoice's SUCCESS payments.
PaidAmount == SumOf(Succeeded)

Outstanding == invoice.total - PaidAmount

Amounts == {Advance, Total - Advance, Total} \ {0}

-----------------------------------------------------------------------------
(* Handlers in flight *)

ClientOps == {"order", "resize", "verify", "verifyOnly", "refund", "offline",
              "markPaid", "markOverdue", "cancelInvoice"}

\* The queries a handler has still to make once its main one is done.
Task == {"remaining", "sync", "invoice", "booking", "done"}

NoEvent == [kind |-> "none", p |-> None]

Handler ==
  [op : ClientOps \union {"idle", "webhook"},
   at : {"idle", "find", "insert", "sum", "resize", "upsert", "dispatch", "write", "tasks"},
   p : Payment \union {None}, e : Event \union {NoEvent},
   amount : Int,
   type : PaymentType \union {"none"},
   valid : BOOLEAN,     \* the signature the client sent is valid
   known : BOOLEAN,     \* the event had a row already
   advance : BOOLEAN,   \* what was read says the booking, or invoice, must move
   plan : InvoiceStatus, todo : SUBSET Task]

Idle ==
  [op |-> "idle", at |-> "idle", p |-> None, e |-> NoEvent, amount |-> 0,
   type |-> "none", valid |-> FALSE, known |-> FALSE, advance |-> FALSE, plan |-> "DRAFT", todo |-> {}]

Quiet == \A r \in Request : req[r] = Idle

Begin(r, h) ==
  /\ h.op \in workload.ops
  /\ req[r] = Idle
  /\ workload.overlap \/ Quiet
  /\ req' = [req EXCEPT ![r] = h]

Running(r, op, at) == req[r].op = op /\ req[r].at = at

Reply(r) == req' = [req EXCEPT ![r] = Idle]

Await(r, at) == req' = [req EXCEPT ![r].at = at]

\* Go on with the tasks in todo, or stop if there are none.
Then(r, todo) ==
  req' = [req EXCEPT ![r] = IF todo = {} THEN Idle
                            ELSE [req[r] EXCEPT !.at = "tasks", !.todo = todo]]

\* The invoice can be paid.
Payable == invoice.status \notin {"CANCELLED", "REFUNDED", "DRAFT"}

-----------------------------------------------------------------------------
(* Orders *)

\* createRazorpayOrder: the order is for what is outstanding now, whatever type
\* the caller names (FULL, if none).
CreateOrder(r, type) ==
  /\ Begin(r, [Idle EXCEPT !.op = "order", !.at = "find", !.amount = Outstanding,
                           !.type = type])
  /\ Payable
  /\ Outstanding > 0
  /\ UNCHANGED <<invoice, payment, gateway, event, awaiting, failures>>

\* An open order of the same type for the same amount is handed out again.
Reusable(type, amount) ==
  {p \in Payment : payment[p].status = "PENDING" /\ payment[p].txn = "CREATED"
                   /\ payment[p].type = type /\ payment[p].amount = amount}

\* Mutant: every tap opens an order.
FindReusableNever(r) ==
  /\ Running(r, "order", "find")
  /\ Await(r, "insert")
  /\ UNCHANGED <<invoice, payment, gateway, event, awaiting, failures>>

FindReusable(r) ==
  /\ Running(r, "order", "find")
  /\ IF Reusable(req[r].type, req[r].amount) # {} THEN Reply(r) ELSE Await(r, "insert")
  /\ UNCHANGED <<invoice, payment, gateway, event, awaiting, failures>>

\* Mutant: the amount is stored in paise, as it is sent to Razorpay.
InsertOrderInPaise(r) ==
  /\ Running(r, "order", "insert")
  /\ \E p \in Unused :
       payment' = [payment EXCEPT ![p] = [NoRow EXCEPT !.status = "PENDING",
                                                       !.txn = "CREATED",
                                                       !.type = req[r].type,
                                                       !.amount = 100 * req[r].amount]]
  /\ Reply(r)
  /\ UNCHANGED <<invoice, gateway, event, awaiting, failures>>

\* Razorpay created the order; the payment and its transaction are stored.
InsertOrder(r) ==
  /\ Running(r, "order", "insert")
  /\ \E p \in Unused :
       payment' = [payment EXCEPT ![p] = [NoRow EXCEPT !.status = "PENDING",
                                                       !.txn = "CREATED",
                                                       !.type = req[r].type,
                                                       !.amount = req[r].amount]]
  /\ Reply(r)
  /\ UNCHANGED <<invoice, gateway, event, awaiting, failures>>

\* Razorpay's API refuses, or times out: nothing is stored.
OrderRejected(r) ==
  /\ Running(r, "order", "insert")
  /\ Reply(r)
  /\ UNCHANGED <<invoice, payment, gateway, event, awaiting, failures>>

\* ensureAdvanceInvoice for the other payment type: the invoice is rebuilt for
\* total t, or grown to the full amount once an advance has been paid.
Resize(r, t) ==
  LET paid == Succeeded # {}
  IN  /\ Begin(r, [Idle EXCEPT !.op = "resize", !.at = "resize", !.amount = t,
                               !.advance = paid])
      /\ t # invoice.total
      /\ paid => t = Total /\ t > invoice.total
      /\ ~paid => invoice.status \in MUTABLE_STATUSES
      /\ UNCHANGED <<invoice, payment, gateway, event, awaiting, failures>>

ResizeWrite(r) ==
  /\ Running(r, "resize", "resize")
  /\ invoice' = [status |-> IF req[r].advance THEN "PARTIALLY_PAID" ELSE invoice.status,
                 total |-> req[r].amount]
  /\ Reply(r)
  /\ UNCHANGED <<payment, gateway, event, awaiting, failures>>

-----------------------------------------------------------------------------
(* Verification by the client *)

\* verifyRazorpay, called by the booking endpoints ("verify"), which then move
\* the booking, or by the payments endpoint ("verifyOnly").  A valid signature
\* exists only for a captured payment.
Verify(r, op, p, valid) ==
  LET h == [Idle EXCEPT !.op = op, !.at = "write", !.p = p, !.valid = valid,
                        !.advance = op = "verify" /\ awaiting]
      row == payment[p]
  IN  /\ valid => "captured" \in gateway[p]
      /\ \/ row.status = "PENDING" /\ row.txn # "NONE" /\ Begin(r, h)
         \* the same result is served again, and the booking still moved
         \/ /\ row.status = "SUCCESS" /\ valid /\ row.razorpay = "capture"
            /\ h.advance
            /\ Begin(r, [h EXCEPT !.at = "tasks", !.todo = {"booking"}])
      /\ UNCHANGED <<invoice, payment, gateway, event, awaiting, failures>>

\* Mutant: a failed verification is written to the payment alone.
VerifyWritePaymentOnly(r) ==
  LET h == req[r]
  IN  /\ h.op \in {"verify", "verifyOnly"} /\ h.at = "write"
      /\ IF h.valid
           THEN /\ payment' = [payment EXCEPT ![h.p].status = "SUCCESS", ![h.p].txn = "PAID",
                                              ![h.p].razorpay = "capture"]
                /\ Then(r, {"sync"} \union IF h.advance THEN {"booking"} ELSE {})
           ELSE payment' = [payment EXCEPT ![h.p].status = "FAILED"] /\ Reply(r)
      /\ UNCHANGED <<invoice, gateway, event, awaiting, failures>>

\* Mutant: the result of the signature check is not used.
VerifyWriteUnchecked(r) ==
  LET h == req[r]
  IN  /\ h.op \in {"verify", "verifyOnly"} /\ h.at = "write"
      /\ payment' = [payment EXCEPT ![h.p].status = "SUCCESS", ![h.p].txn = "PAID",
                                    ![h.p].razorpay = "capture"]
      /\ Then(r, {"sync"} \union IF h.advance THEN {"booking"} ELSE {})
      /\ UNCHANGED <<invoice, gateway, event, awaiting, failures>>

\* The transaction and the payment are updated together, whatever they are by
\* now.  The invoice is synchronised in the background.
VerifyWrite(r) ==
  LET h == req[r]
  IN  /\ h.op \in {"verify", "verifyOnly"} /\ h.at = "write"
      /\ IF h.valid
           THEN /\ payment' = [payment EXCEPT ![h.p].status = "SUCCESS", ![h.p].txn = "PAID",
                                              ![h.p].razorpay = "capture"]
                /\ Then(r, {"sync"} \union IF h.advance THEN {"booking"} ELSE {})
           ELSE /\ payment' = [payment EXCEPT ![h.p].status = "FAILED", ![h.p].txn = "FAILED",
                                              ![h.p].razorpay = "attempt"]
                /\ Reply(r)
      /\ UNCHANGED <<invoice, gateway, event, awaiting, failures>>

-----------------------------------------------------------------------------
(* Webhooks *)

Processing(r, kinds) == Running(r, "webhook", "dispatch") /\ req[r].e.kind \in kinds

\* handleWebhook; a delivery of an event that is PROCESSED is acknowledged.
Deliver(r, e) ==
  /\ Announces(e) \in gateway[e.p]
  /\ event[e] # "PROCESSED"
  /\ Begin(r, [Idle EXCEPT !.op = "webhook", !.at = "upsert", !.p = e.p, !.e = e,
                     !.known = event[e] # "NONE"])
  /\ UNCHANGED <<invoice, payment, gateway, event, awaiting, failures>>

\* Mutant: an event is marked PROCESSED before it is.
UpsertEventProcessedFirst(r) ==
  LET e == req[r].e
  IN  /\ Running(r, "webhook", "upsert")
      /\ IF req[r].known \/ event[e] = "NONE"
           THEN event' = [event EXCEPT ![e] = "PROCESSED"] /\ Await(r, "dispatch")
           ELSE event' = event /\ Reply(r)
      /\ UNCHANGED <<invoice, payment, gateway, awaiting, failures>>

\* upsertWebhookEvent: of two deliveries that both saw no row, the second
\* breaks the unique key and is answered with an error.
UpsertEvent(r) ==
  LET e == req[r].e
  IN  /\ Running(r, "webhook", "upsert")
      /\ IF req[r].known \/ event[e] = "NONE"
           THEN event' = [event EXCEPT ![e] = "PENDING"] /\ Await(r, "dispatch")
           ELSE event' = event /\ Reply(r)
      /\ UNCHANGED <<invoice, payment, gateway, awaiting, failures>>

\* onPaymentCaptured, also for order.paid: a payment that is SUCCESS is left.
ReadCaptured(r) ==
  /\ Processing(r, {"payment.captured", "order.paid"})
  /\ IF payment[req[r].p].status = "SUCCESS"
       THEN Then(r, {"done"})
       ELSE req' = [req EXCEPT ![r].at = "write", ![r].advance = awaiting]
  /\ UNCHANGED <<invoice, payment, gateway, event, awaiting, failures>>

\* onPaymentFailed: only a payment that is FAILED is left.
ReadFailed(r) ==
  /\ Processing(r, {"payment.failed"})
  /\ IF payment[req[r].p].status = "FAILED" THEN Then(r, {"done"}) ELSE Await(r, "write")
  /\ UNCHANGED <<invoice, payment, gateway, event, awaiting, failures>>

\* onRefundProcessed finds the transaction by the gateway's payment id.
ReadRefunded(r) ==
  /\ Processing(r, {"refund.processed"})
  /\ IF payment[req[r].p].razorpay # "capture" \/ payment[req[r].p].status = "REFUNDED"
       THEN Then(r, {"done"})
       ELSE Await(r, "write")
  /\ UNCHANGED <<invoice, payment, gateway, event, awaiting, failures>>

\* The row as each handler leaves it.
AfterEvent(kind, row) ==
  CASE kind \in {"payment.captured", "order.paid"} ->
         [row EXCEPT !.status = "SUCCESS", !.txn = "PAID", !.razorpay = "capture"]
    [] kind = "payment.failed" ->
         [row EXCEPT !.status = "FAILED", !.txn = "FAILED", !.razorpay = "attempt"]
    [] kind = "refund.processed" -> [row EXCEPT !.status = "REFUNDED"]

TasksAfterEvent(kind) ==
  CASE kind \in {"payment.captured", "order.paid"} -> {"sync", "booking", "done"}
    [] kind = "payment.failed" -> {"done"}
    [] kind = "refund.processed" -> {"remaining", "done"}

WebhookWrite(r) ==
  LET h == req[r]
  IN  /\ Running(r, "webhook", "write")
      /\ payment' = [payment EXCEPT ![h.p] = AfterEvent(h.e.kind, payment[h.p])]
      /\ Then(r, TasksAfterEvent(h.e.kind))
      /\ UNCHANGED <<invoice, gateway, event, awaiting, failures>>

-----------------------------------------------------------------------------
(* Staff *)

\* refund: in the database only, the gateway is not called.
Refund(r, p) ==
  /\ Begin(r, [Idle EXCEPT !.op = "refund", !.at = "write", !.p = p])
  /\ payment[p].status = "SUCCESS"
  /\ UNCHANGED <<invoice, payment, gateway, event, awaiting, failures>>

RefundWrite(r) ==
  /\ Running(r, "refund", "write")
  /\ payment' = [payment EXCEPT ![req[r].p].status = "REFUNDED"]
  /\ Then(r, {"remaining"})
  /\ UNCHANGED <<invoice, gateway, event, awaiting, failures>>

\* createPayment by cash, card, UPI or bank transfer.
CreatePayment(r, amount) ==
  /\ Begin(r, [Idle EXCEPT !.op = "offline", !.at = "insert", !.amount = amount])
  /\ Payable
  /\ amount <= Outstanding
  /\ UNCHANGED <<invoice, payment, gateway, event, awaiting, failures>>

MarkPaid(r) ==
  /\ Begin(r, [Idle EXCEPT !.op = "markPaid", !.at = "sum", !.amount = invoice.total,
                           !.plan = "PAID"])
  /\ invoice.status \notin {"CANCELLED", "REFUNDED", "PAID"}
  /\ UNCHANGED <<invoice, payment, gateway, event, awaiting, failures>>

MarkPaidSum(r) ==
  LET outstanding == req[r].amount - PaidAmount
  IN  /\ Running(r, "markPaid", "sum")
      /\ IF outstanding > 0
           THEN req' = [req EXCEPT ![r].at = "insert", ![r].amount = outstanding]
           ELSE Then(r, {"invoice"})
      /\ UNCHANGED <<invoice, payment, gateway, event, awaiting, failures>>

\* A payment without a transaction, SUCCESS from the start.
InsertOffline(r) ==
  /\ req[r].op \in {"offline", "markPaid"} /\ req[r].at = "insert"
  /\ \E p \in Unused :
       payment' = [payment EXCEPT ![p] = [NoRow EXCEPT !.status = "SUCCESS",
                                                       !.amount = req[r].amount]]
  /\ Then(r, IF req[r].op = "offline" THEN {"sync"} ELSE {"invoice"})
  /\ UNCHANGED <<invoice, gateway, event, awaiting, failures>>

MarkOverdue(r) ==
  /\ Begin(r, [Idle EXCEPT !.op = "markOverdue", !.at = "tasks", !.plan = "OVERDUE",
                           !.todo = {"invoice"}])
  /\ invoice.status = "SENT"
  /\ UNCHANGED <<invoice, payment, gateway, event, awaiting, failures>>

CancelInvoice(r) ==
  /\ Begin(r, [Idle EXCEPT !.op = "cancelInvoice", !.at = "tasks", !.plan = "CANCELLED",
                           !.todo = {"invoice"}])
  /\ invoice.status \notin {"PAID", "CANCELLED"}
  /\ UNCHANGED <<invoice, payment, gateway, event, awaiting, failures>>

-----------------------------------------------------------------------------
(* Tasks *)

At(r, task) == req[r].at = "tasks" /\ task \in req[r].todo

Finish(r, task) == Then(r, req[r].todo \ {task})

\* The invoice will be given status s, as a later query.
Plan(r, task, s) ==
  req' = [req EXCEPT ![r].todo = (@ \ {task}) \union {"invoice"}, ![r].plan = s]

\* Mutant: only more than the total makes an invoice PAID.
SyncStrict(r) ==
  LET new == IF PaidAmount > invoice.total THEN "PAID"
             ELSE IF PaidAmount > 0 THEN "PARTIALLY_PAID"
             ELSE invoice.status
  IN  /\ At(r, "sync")
      /\ IF invoice.status \in {"CANCELLED", "REFUNDED"} \/ new = invoice.status
           THEN Finish(r, "sync")
           ELSE Plan(r, "sync", new)
      /\ UNCHANGED <<invoice, payment, gateway, event, awaiting, failures>>

\* syncPaymentStatus, reading: the status its payments give the invoice.
Sync(r) ==
  LET new == IF PaidAmount >= invoice.total THEN "PAID"
             ELSE IF PaidAmount > 0 THEN "PARTIALLY_PAID"
             ELSE invoice.status
  IN  /\ At(r, "sync")
      /\ IF invoice.status \in {"CANCELLED", "REFUNDED"} \/ new = invoice.status
           THEN Finish(r, "sync")
           ELSE Plan(r, "sync", new)
      /\ UNCHANGED <<invoice, payment, gateway, event, awaiting, failures>>

\* After a refund: nothing left means REFUNDED, else synchronise.
CheckRemaining(r) ==
  /\ At(r, "remaining")
  /\ IF PaidAmount <= 0
       THEN Plan(r, "remaining", "REFUNDED")
       ELSE req' = [req EXCEPT ![r].todo = (@ \ {"remaining"}) \union {"sync"}]
  /\ UNCHANGED <<invoice, payment, gateway, event, awaiting, failures>>

\* The status is written as planned, whatever it is by now.
UpdateInvoice(r) ==
  /\ At(r, "invoice")
  /\ invoice' = [invoice EXCEPT !.status = req[r].plan]
  /\ Finish(r, "invoice")
  /\ UNCHANGED <<payment, gateway, event, awaiting, failures>>

\* The webhook handler waits for the invoice, the verify endpoints do not.
UpdateBooking(r) ==
  /\ At(r, "booking")
  /\ req[r].op = "webhook" => req[r].todo \intersect {"sync", "invoice"} = {}
  /\ awaiting' = (awaiting /\ ~req[r].advance)
  /\ Finish(r, "booking")
  /\ UNCHANGED <<invoice, payment, gateway, event, failures>>

\* markDone(PROCESSED)
MarkProcessed(r) ==
  /\ At(r, "done")
  /\ req[r].todo = {"done"}
  /\ event' = [event EXCEPT ![req[r].e] = "PROCESSED"]
  /\ Reply(r)
  /\ UNCHANGED <<invoice, payment, gateway, awaiting, failures>>

-----------------------------------------------------------------------------
(* Razorpay, and failures *)

Capture(p) ==
  /\ payment[p].txn # "NONE"
  /\ "captured" \notin gateway[p]
  /\ gateway' = [gateway EXCEPT ![p] = @ \union {"captured"}]
  /\ UNCHANGED <<invoice, payment, event, awaiting, req, failures>>

\* The customer may try again on the same order.
FailAttempt(p) ==
  /\ payment[p].txn # "NONE"
  /\ gateway[p] = {}
  /\ gateway' = [gateway EXCEPT ![p] = {"failed"}]
  /\ UNCHANGED <<invoice, payment, event, awaiting, req, failures>>

RefundAtGateway(p) ==
  /\ "captured" \in gateway[p] /\ "refunded" \notin gateway[p]
  /\ gateway' = [gateway EXCEPT ![p] = @ \union {"refunded"}]
  /\ UNCHANGED <<invoice, payment, event, awaiting, req, failures>>

\* What a handler still does after its next query throws.  The verify endpoints
\* synchronise the invoice in the background: each part fails alone.
Survivors(r) ==
  IF req[r].op \in {"verify", "verifyOnly"} /\ req[r].at = "tasks"
    THEN {req[r].todo \ {"booking"}, req[r].todo \ {"sync", "invoice"}} \ {req[r].todo}
    ELSE {{}}

\* The next query throws.  Past the upsert, the event is marked FAILED and
\* Razorpay told to send it again.
Throw(r) ==
  /\ req[r] # Idle
  /\ failures < workload.failures
  /\ failures' = failures + 1
  /\ event' = IF req[r].op = "webhook" /\ req[r].at # "upsert"
                THEN [event EXCEPT ![req[r].e] = "FAILED"] ELSE event
  /\ \E todo \in Survivors(r) : Then(r, todo)
  /\ UNCHANGED <<invoice, payment, gateway, awaiting>>

\* The process dies with everything in flight.
Crash ==
  /\ \E r \in Request : req[r] # Idle
  /\ failures < workload.failures
  /\ failures' = failures + 1
  /\ req' = [r \in Request |-> Idle]
  /\ UNCHANGED <<invoice, payment, gateway, event, awaiting>>

-----------------------------------------------------------------------------

\* createPaymentOrder has just made the invoice, SENT, for either amount.
Init ==
  /\ invoice \in [status : {"SENT"}, total : {Advance, Total}]
  /\ payment = [p \in Payment |-> NoRow]
  /\ gateway = [p \in Payment |-> {}]
  /\ event = [e \in Event |-> "NONE"]
  /\ awaiting = TRUE
  /\ req = [r \in Request |-> Idle]
  /\ failures = 0
  /\ workload \in Workloads

Call(r) ==
  \/ \E type \in workload.types : CreateOrder(r, type)
  \/ \E t \in {Advance, Total} : Resize(r, t)
  \/ \E op \in {"verify", "verifyOnly"}, p \in Payment, valid \in BOOLEAN :
       Verify(r, op, p, valid)
  \/ \E p \in Payment : Refund(r, p)
  \/ \E amount \in Amounts : CreatePayment(r, amount)
  \/ MarkPaid(r)
  \/ MarkOverdue(r)
  \/ CancelInvoice(r)

Continue(r) ==
  \/ FindReusable(r)
  \/ InsertOrder(r)
  \/ OrderRejected(r)
  \/ ResizeWrite(r)
  \/ VerifyWrite(r)
  \/ UpsertEvent(r)
  \/ ReadCaptured(r)
  \/ ReadFailed(r)
  \/ ReadRefunded(r)
  \/ WebhookWrite(r)
  \/ RefundWrite(r)
  \/ MarkPaidSum(r)
  \/ InsertOffline(r)
  \/ Sync(r)
  \/ CheckRemaining(r)
  \/ UpdateInvoice(r)
  \/ UpdateBooking(r)
  \/ MarkProcessed(r)

Environment ==
  \/ \E p \in Payment : Capture(p) \/ FailAttempt(p) \/ RefundAtGateway(p)
  \/ Crash

Next ==
  /\ \/ Environment
     \/ \E r \in Request : Call(r) \/ (\E e \in Event : Deliver(r, e)) \/ Continue(r) \/ Throw(r)
  /\ workload' = workload

Spec == Init /\ [][Next]_vars

\* Handlers keep running, and Razorpay keeps delivering what is not PROCESSED.
FairSpec ==
  /\ Spec
  /\ \A r \in Request : WF_vars(Continue(r) /\ workload' = workload)
  /\ \A e \in Event : SF_vars((\E r \in Request : Deliver(r, e)) /\ workload' = workload)

-----------------------------------------------------------------------------
(* Properties *)

\* The rows and handlers have the shapes declared above.
TypeOK ==
  /\ invoice \in [status : InvoiceStatus, total : {Advance, Total}]
  /\ payment \in [Payment -> Row]
  /\ gateway \in [Payment -> SUBSET {"captured", "failed", "refunded"}]
  /\ event \in [Event -> {"NONE", "PENDING", "PROCESSED", "FAILED"}]
  /\ awaiting \in BOOLEAN
  /\ req \in [Request -> Handler]
  /\ failures \in 0..workload.failures
  /\ workload \in Workloads

\* A payment and its transaction tell the same story, although three handlers
\* and an unbounded number of deliveries write them over each other, and
\* whatever throws or dies between two queries.  (A refund is written to the
\* payment alone.)
LedgerAgrees ==
  \A p \in Payment :
    /\ payment[p].status = "PENDING" => payment[p].txn = "CREATED"
    /\ payment[p].status = "FAILED" => payment[p].txn = "FAILED"
    /\ payment[p].status = "SUCCESS" => payment[p].txn \in {"PAID", "NONE"}

\* No online payment is recorded as successful, and the transaction is not
\* PAID, unless Razorpay captured the money of that very order.
SuccessIsCaptured ==
  \A p \in Payment :
    payment[p].txn = "PAID" => "captured" \in gateway[p]

\* The booking stops awaiting payment only once some order of it was captured.
BookingMovesOnCapture ==
  ~awaiting => \E p \in Payment : "captured" \in gateway[p]

\* Payments whose money the invoice has been shown: those recorded as SUCCESS, and
\* those a late payment.failed has overwritten, which synchronises no invoice.
Shown ==
  {p \in Payment : \/ payment[p].status = "SUCCESS"
                   \/ payment[p].status = "FAILED" /\ "captured" \in gateway[p]}

\* When no handler is running, an invoice still in force shows what its payments
\* amount to, no less and no more: paid in full it is PAID, paid in part
\* PARTIALLY_PAID or PAID; PAID only if the total is covered, and PARTIALLY_PAID only
\* if something is.  What covers it are the SUCCESS payments, and those captured ones
\* that a late payment.failed has written FAILED (onPaymentFailed leaves the invoice
\* as it was: it may stay PAID with nothing paid).  Holds when requests do not
\* overlap, nothing fails and the invoice keeps its total.
InvoiceFollowsPayments ==
  /\ ~workload.overlap /\ failures = 0 /\ "resize" \notin workload.ops
  /\ Quiet
  /\ invoice.status \notin {"CANCELLED", "REFUNDED"}
  => /\ PaidAmount >= invoice.total => invoice.status = "PAID"
     /\ PaidAmount > 0 => invoice.status \in {"PARTIALLY_PAID", "PAID"}
     /\ invoice.status = "PAID" => SumOf(Shown) >= invoice.total
     /\ invoice.status = "PARTIALLY_PAID" => SumOf(Shown) > 0

\* A second tap on "Pay" never opens a second order of the same type for the same
\* amount.  (An order of the other type does: the caller chooses the type, and
\* POST razorpay/order takes FULL when none is named, even for an invoice of the
\* advance.)  Holds when requests do not overlap.
OneOpenOrder ==
  ~workload.overlap =>
    \A p, q \in Payment :
      /\ payment[p].status = "PENDING"
      /\ payment[q].status = "PENDING"
      /\ payment[p].type = payment[q].type
      /\ payment[p].amount = payment[q].amount
      => p = q

\* Money that Razorpay captured for an open order is recorded in the end, even
\* if the customer closed the app, attempts failed before, queries throw,
\* processes die, or a delivery is answered with an error.
CapturedIsRecorded ==
  \A p \in Payment :
    "captured" \in gateway[p] /\ payment[p].status = "PENDING"
      ~> payment[p].status = "SUCCESS"

\* Nothing moves before the money: neither the ledger nor the booking records
\* what Razorpay has not captured, whichever of three handlers writes last.
NothingBeforeCapture == SuccessIsCaptured /\ BookingMovesOnCapture
=============================================================================
