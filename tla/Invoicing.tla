----------------------------- MODULE Invoicing -----------------------------
(***************************************************************************)
(* Invoices: invoices.service.ts, with the payments that settle them and   *)
(* the jobs they are for.  An order that has been placed stays open until  *)
(* it is paid, and the invoice may be edited, resized, sent, cancelled,    *)
(* marked, refunded and paid at the desk meanwhile.  What happens to one   *)
(* order between the gateway, the app and the webhooks is in module        *)
(* Payments; here an order that fails is one that is never paid, and a     *)
(* payment that succeeded stays so until it is refunded.                   *)
(*                                                                         *)
(* Items, taxes and discounts are left out: an edit gives another total.   *)
(***************************************************************************)
EXTENDS Jobs

InvoiceExists(i) == invoice[i].row = "present"

\* MUTABLE_STATUSES.
Mutable(i) == invoice[i].status \in {"DRAFT", "SENT"}

SetInvoice(i, row) == invoice' = [invoice EXCEPT ![i] = row]

Outstanding(i) == IF Paid(i) >= invoice[i].total THEN 0 ELSE invoice[i].total - Paid(i)

\* assertPayableInvoice.
Payable(i) == InvoiceExists(i) /\ invoice[i].status \notin {"CANCELLED", "REFUNDED", "DRAFT"}

AddPayment(row, amount) == [row EXCEPT !.payments[amount] = @ + 1]

\* syncPaymentStatus.
Synced(i) ==
  IF invoice[i].status \in {"CANCELLED", "REFUNDED"} THEN invoice[i]
  ELSE IF Paid(i) >= invoice[i].total THEN [invoice[i] EXCEPT !.status = "PAID"]
  ELSE IF Paid(i) > 0 THEN [invoice[i] EXCEPT !.status = "PARTIALLY_PAID"]
  ELSE invoice[i]

-----------------------------------------------------------------------------
(* Creation *)

\* create: by the office, for a booking without an invoice or for none.
IssueInvoice(r, c, j, total) ==
  /\ Arrives(r, "issueInvoice")
  /\ Exists(c)
  /\ j # 0 => JobExists(j) /\ job[j].customer = c /\ InvoicesOf(j) = {}
  /\ Awaits(r, [op |-> "issueInvoice", customer |-> c, job |-> j, total |-> total,
                status |-> "DRAFT"])
  /\ UNCHANGED work

\* generateFromBooking: only a job settled in person is completed without one.
GenerateFromBooking(r, j) ==
  /\ Arrives(r, "generateInvoice")
  /\ JobExists(j) /\ job[j].status = "COMPLETED" /\ InvoicesOf(j) = {}
  /\ Awaits(r, [op |-> "issueInvoice", customer |-> job[j].customer, job |-> j, total |-> Total,
                status |-> "DRAFT"])
  /\ UNCHANGED work

\* bookingId is unique, and a foreign key: else the insert throws.
IssueInvoiceWrite(r) ==
  /\ Resumes(r, "issueInvoice")
  /\ LET j == req[r].job IN
       IF j # 0 /\ (InvoicesOf(j) # {} \/ ~JobExists(j)) THEN invoice' = invoice
       ELSE \E i \in NextRow(invoice, Invoices) :
              SetInvoice(i, [invoice[i] EXCEPT !.row = "present", !.job = j,
                                               !.customer = req[r].customer,
                                               !.status = req[r].status, !.total = req[r].total])
  /\ Reply(r)
  /\ UNCHANGED <<job, duty>>


\* What ensureAdvanceInvoice makes of an invoice whose total is not the one
\* asked for; {} when it refuses.  Orders that are open stay open.
Resized(i, amount, full) ==
  LET grows == Paid(i) > 0 /\ full /\ amount > invoice[i].total
  IN IF grows THEN {[invoice[i] EXCEPT !.total = amount, !.status = "PARTIALLY_PAID"]}
     ELSE IF Paid(i) = 0 /\ Mutable(i) THEN {[invoice[i] EXCEPT !.total = amount]}
     ELSE {}

\* createPaymentOrder: the invoice is found, resized or created for the part of
\* the price that is asked for.
OrderPayment(r, j, type) ==
  /\ Arrives(r, "orderPayment")
  /\ JobExists(j) /\ Life!NotTerminal(job[j].status)
  /\ LET full == type = "FULL"
         amount == IF full THEN Total ELSE Advance IN
       IF InvoicesOf(j) = {}
         THEN Awaits(r, [op |-> "orderInvoice", job |-> j, amount |-> amount, type |-> type])
         ELSE \E i \in InvoicesOf(j) :
                IF invoice[i].total = amount
                  THEN Awaits(r, [op |-> "placeOrder", invoice |-> i, type |-> type])
                  ELSE \E row \in Resized(i, amount, full) :
                         Awaits(r, [op |-> "resizeInvoice", invoice |-> i, total |-> amount,
                                    paid |-> row.status = "PARTIALLY_PAID", type |-> type])
  /\ UNCHANGED work

OrderInvoiceWrite(r) ==
  /\ Resumes(r, "orderInvoice")
  /\ LET j == req[r].job IN
       IF InvoicesOf(j) # {} \/ ~JobExists(j) THEN invoice' = invoice /\ Reply(r)
       ELSE \E i \in NextRow(invoice, Invoices) :
              /\ SetInvoice(i, [invoice[i] EXCEPT !.row = "present", !.job = j,
                                                  !.customer = job[j].customer,
                                                  !.status = "SENT", !.total = req[r].amount])
              /\ Awaits(r, [op |-> "placeOrder", invoice |-> i, type |-> req[r].type])
  /\ UNCHANGED <<job, duty>>

ResizeInvoiceWrite(r) ==
  /\ Resumes(r, "resizeInvoice")
  /\ LET i == req[r].invoice
     IN /\ SetInvoice(i, [invoice[i] EXCEPT !.total = req[r].total,
                                            !.status = IF req[r].paid THEN "PARTIALLY_PAID" ELSE @])
        /\ Awaits(r, [op |-> "placeOrder", invoice |-> i, type |-> req[r].type])
  /\ UNCHANGED <<job, duty>>

-----------------------------------------------------------------------------
(* Payment *)

\* The same for an invoice that is there, with no booking asked for.
OrderForInvoice(r, i, type) ==
  /\ Arrives(r, "orderForInvoice")
  /\ InvoiceExists(i)
  /\ Awaits(r, [op |-> "placeOrder", invoice |-> i, type |-> type])
  /\ UNCHANGED work

\* createRazorpayOrder: for what is outstanding by now an order of the type is found
\* open, or made at the gateway.
PlaceOrder(r) ==
  /\ Resumes(r, "placeOrder")
  /\ LET i == req[r].invoice
         order == [type |-> req[r].type, amount |-> Outstanding(i)] IN
       IF Payable(i) /\ Outstanding(i) > 0 /\ invoice[i].orders[order] = 0
         THEN Awaits(r, [op |-> "insertOrder", invoice |-> i, order |-> order])
         ELSE Reply(r)
  /\ UNCHANGED work

InsertOrder(r) ==
  /\ Resumes(r, "insertOrder")
  /\ LET i == req[r].invoice
         o == req[r].order
     IN SetInvoice(i, [invoice[i] EXCEPT !.orders[o] = @ + 1])
  /\ Reply(r)
  /\ UNCHANGED <<job, duty>>

\* verifyRazorpay, or the webhook: the order is paid, whatever became of its
\* invoice since it was placed.
PayOrder(r, i, o) ==
  /\ Arrives(r, "payOrder")
  /\ InvoiceExists(i) /\ invoice[i].orders[o] > 0
  /\ Awaits(r, [op |-> "settleOrder", invoice |-> i, order |-> o])
  /\ UNCHANGED work

\* Its payment becomes a SUCCESS.  (Two verifications of one order record one.)
SettleOrder(r) ==
  /\ Resumes(r, "settleOrder")
  /\ LET i == req[r].invoice
         o == req[r].order
     IN /\ SetInvoice(i, IF invoice[i].orders[o] = 0 THEN invoice[i]
                         ELSE [AddPayment(invoice[i], o.amount) EXCEPT
                                 !.orders[o] = @ - 1,
                                 !.late = invoice[i].late \/ ~Payable(i)
                                          \/ o.amount > Outstanding(i)])
        /\ Awaits(r, [op |-> "sync", invoice |-> i, online |-> TRUE])
  /\ UNCHANGED <<job, duty>>

\* createPayment, at the desk.
PayInvoice(r, i, amount) ==
  /\ Arrives(r, "payInvoice")
  /\ Payable(i) /\ amount <= Outstanding(i)
  /\ Awaits(r, [op |-> "settle", invoice |-> i, amount |-> amount])
  /\ UNCHANGED work

Settle(r) ==
  /\ Resumes(r, "settle")
  /\ LET i == req[r].invoice
     IN /\ SetInvoice(i, AddPayment(invoice[i], req[r].amount))
        /\ Awaits(r, [op |-> "sync", invoice |-> i, online |-> FALSE])
  /\ UNCHANGED <<job, duty>>

\* A payment through the gateway also moves the booking on, in the query after.
SyncInvoice(r) ==
  /\ Resumes(r, "sync")
  /\ LET i == req[r].invoice
         j == invoice[i].job
     IN /\ SetInvoice(i, Synced(i))
        /\ job' = IF req[r].online /\ JobExists(j) /\ job[j].status = "PENDING_PAYMENT"
                    THEN [job EXCEPT ![j].status = "PENDING"] ELSE job
  /\ Reply(r)
  /\ UNCHANGED duty

RefundPayment(r, i, amount) ==
  /\ Arrives(r, "refund")
  /\ InvoiceExists(i) /\ invoice[i].payments[amount] > 0
  /\ Awaits(r, [op |-> "refund", invoice |-> i, amount |-> amount])
  /\ UNCHANGED work

\* (Two refunds of one payment at once leave it refunded once.)
RefundWrite(r) ==
  /\ Resumes(r, "refund")
  /\ LET i == req[r].invoice
         a == req[r].amount
     IN /\ SetInvoice(i, [invoice[i] EXCEPT !.payments[a] = IF @ = 0 THEN 0 ELSE @ - 1])
        /\ Awaits(r, [op |-> "refunded", invoice |-> i])
  /\ UNCHANGED <<job, duty>>

AfterRefund(r) ==
  /\ Resumes(r, "refunded")
  /\ LET i == req[r].invoice
     IN SetInvoice(i, IF Paid(i) = 0 THEN [invoice[i] EXCEPT !.status = "REFUNDED"] ELSE Synced(i))
  /\ Reply(r)
  /\ UNCHANGED <<job, duty>>

-----------------------------------------------------------------------------
(* The office *)

\* update, addItem and removeItem: the total is computed anew.
EditInvoice(r, i, total) ==
  /\ Arrives(r, "editInvoice")
  /\ InvoiceExists(i) /\ Mutable(i)
  /\ Awaits(r, [op |-> "editInvoice", invoice |-> i, total |-> total])
  /\ UNCHANGED work

EditInvoiceWrite(r) ==
  /\ Resumes(r, "editInvoice")
  /\ LET i == req[r].invoice IN SetInvoice(i, [invoice[i] EXCEPT !.total = req[r].total])
  /\ Reply(r)
  /\ UNCHANGED <<job, duty>>

SendInvoice(r, i) ==
  /\ Arrives(r, "sendInvoice")
  /\ InvoiceExists(i) /\ invoice[i].status = "DRAFT"
  /\ Awaits(r, [op |-> "moveInvoice", invoice |-> i, status |-> "SENT"])
  /\ UNCHANGED work

MarkOverdue(r, i) ==
  /\ Arrives(r, "markOverdue")
  /\ InvoiceExists(i) /\ invoice[i].status = "SENT"
  /\ Awaits(r, [op |-> "moveInvoice", invoice |-> i, status |-> "OVERDUE"])
  /\ UNCHANGED work

CancelInvoice(r, i) ==
  /\ Arrives(r, "cancelInvoice")
  /\ InvoiceExists(i) /\ invoice[i].status \notin {"PAID", "CANCELLED"}
  /\ Awaits(r, [op |-> "moveInvoice", invoice |-> i, status |-> "CANCELLED"])
  /\ UNCHANGED work

\* The outstanding amount, with the total read first, is recorded as cash; then
\* the invoice is PAID, in a query of its own.
MarkPaid(r, i) ==
  /\ Arrives(r, "markPaid")
  /\ InvoiceExists(i) /\ invoice[i].status \notin {"CANCELLED", "REFUNDED", "PAID"}
  /\ Awaits(r, [op |-> "markPaid", invoice |-> i, amount |-> Outstanding(i)])
  /\ UNCHANGED work

MarkPaidRecord(r) ==
  /\ Resumes(r, "markPaid")
  /\ LET i == req[r].invoice
     IN /\ SetInvoice(i, IF req[r].amount > 0 THEN AddPayment(invoice[i], req[r].amount)
                         ELSE invoice[i])
        /\ Awaits(r, [op |-> "moveInvoice", invoice |-> i, status |-> "PAID"])
  /\ UNCHANGED <<job, duty>>

MoveInvoiceWrite(r) ==
  /\ Resumes(r, "moveInvoice")
  /\ LET i == req[r].invoice IN SetInvoice(i, [invoice[i] EXCEPT !.status = req[r].status])
  /\ Reply(r)
  /\ UNCHANGED <<job, duty>>

-----------------------------------------------------------------------------

InvoicingStarts(r) ==
  \/ \E c \in workload.people, j \in 0..Jobs, total \in 1..Total : IssueInvoice(r, c, j, total)
  \/ \E j \in 1..Jobs : GenerateFromBooking(r, j) \/ \E type \in PaymentType : OrderPayment(r, j, type)
  \/ \E i \in 1..Invoices :
       \/ \E amount \in 1..Total : PayInvoice(r, i, amount) \/ RefundPayment(r, i, amount)
       \/ \E type \in PaymentType : OrderForInvoice(r, i, type)
       \/ \E o \in OpenOrder : PayOrder(r, i, o)
       \/ \E total \in 0..Total : EditInvoice(r, i, total)
       \/ SendInvoice(r, i) \/ MarkOverdue(r, i) \/ CancelInvoice(r, i) \/ MarkPaid(r, i)

InvoicingWrites(r) ==
  \/ IssueInvoiceWrite(r) \/ OrderInvoiceWrite(r) \/ ResizeInvoiceWrite(r)
  \/ PlaceOrder(r) \/ InsertOrder(r) \/ SettleOrder(r) \/ Settle(r)
  \/ SyncInvoice(r) \/ RefundWrite(r) \/ AfterRefund(r)
  \/ EditInvoiceWrite(r) \/ MarkPaidRecord(r) \/ MoveInvoiceWrite(r)

InvoicingNext == \E r \in Request : (MayStart(r) /\ InvoicingStarts(r)) \/ InvoicingWrites(r)

-----------------------------------------------------------------------------
(* Properties *)

\* What the customer reads on an invoice is what was paid, and nothing is paid
\* twice: PAID is covered, PARTIALLY_PAID is not for nothing, an invoice in force
\* on which anything was paid says so; and no more than the total is ever paid,
\* PARTIALLY_PAID leaves something to pay, and REFUNDED has no money left in it;
\* although totals are edited, shrink and grow with the part of the price that is
\* ordered, and payments come in parts and go back in parts.  The second half is
\* not for an invoice of which an order was paid `late': an open order knows
\* nothing of what was paid, edited or cancelled after it was placed, and the code
\* does not ask again.  Holds when requests neither overlap nor fail half-way.
StatusFollowsMoney ==
  ~workload.overlap /\ ~workload.failures /\ Quiet =>
    \A i \in 1..Invoices : InvoiceExists(i) =>
      /\ invoice[i].status = "PAID" => Outstanding(i) = 0
      /\ invoice[i].status = "PARTIALLY_PAID" => Paid(i) > 0
      /\ Paid(i) > 0 =>
           invoice[i].status \in {"PARTIALLY_PAID", "PAID", "CANCELLED", "REFUNDED"}
      /\ ~invoice[i].late =>
           /\ Paid(i) <= invoice[i].total
           /\ invoice[i].status = "PARTIALLY_PAID" => Outstanding(i) > 0
           /\ invoice[i].status = "REFUNDED" => Paid(i) = 0
=============================================================================
