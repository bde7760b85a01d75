--------------------------- MODULE PaymentsProofs ---------------------------
(***************************************************************************)
(* Theorems about Payments for any number of payments, deliveries and      *)
(* overlapping requests, any advance and total, and any mixes of           *)
(* operations and failures.                                                *)
(***************************************************************************)
EXTENDS Payments, FiniteSetTheorems, TLAPS

-----------------------------------------------------------------------------
(* What a handler remembers *)

\* What the memory of a handler implies, whatever has been written since: events
\* are about what did happen at the gateway, a valid signature is of a captured
\* order, and what it will insert is an amount that may be owed.
HandlerOK(h, g) ==
  /\ h.op = "webhook" => h.e \in Event /\ h.p = h.e.p /\ Announces(h.e) \in g[h.p]
  /\ h.op \in {"verify", "verifyOnly"} => h.p \in Payment /\ (h.valid => "captured" \in g[h.p])
  /\ h.op = "refund" => h.p \in Payment
  /\ h.op = "order" \/ h.at = "insert" => h.amount \in 1..Total
  /\ h.op = "order" => h.type \in PaymentType
  /\ h.op = "resize" \/ h.at = "sum" => h.amount \in {Advance, Total}
  /\ "done" \in h.todo => h.op = "webhook"
  /\ "booking" \in h.todo => \E p \in Payment : "captured" \in g[p]
  /\ h.at = "dispatch" => h.op = "webhook"

\* What is true between any two queries.
RecordsInv ==
  /\ TypeOK
  /\ \A r \in Request : HandlerOK(req[r], gateway)
  /\ LedgerAgrees
  /\ NothingBeforeCapture

\* Requests come one at a time.
Alone ==
  ~workload.overlap =>
    \A r, s \in Request : req[r] # Idle /\ req[s] # Idle => r = s

\* An order is about to be inserted only if none is open for its amount.
OrderInv ==
  ~workload.overlap =>
    /\ Alone
    /\ OneOpenOrder
    /\ \A r \in Request : req[r].op = "order" /\ req[r].at = "insert" => Reusable(req[r].type, req[r].amount) = {}

\* An invoice of status s for `total' shows that `paid' has been paid.
Shows(s, paid, total) ==
  s \notin {"CANCELLED", "REFUNDED"} =>
    /\ paid >= total => s = "PAID"
    /\ paid > 0 => s \in {"PARTIALLY_PAID", "PAID"}

InvoiceShows(s) == Shows(s, PaidAmount, invoice.total)

\* What is still to be done by the handler in flight: until it writes a payment the
\* invoice shows them; then it will be synchronised, or given the right status.
Synchronises(h) ==
  /\ h.op # "resize"
  /\ h.op = "markPaid" => h.plan = "PAID" /\ h.todo \subseteq {"invoice"}
  /\ h.op \in {"verify", "verifyOnly"} /\ h.at = "write" => payment[h.p].status = "PENDING"
  /\ h.at # "tasks" => InvoiceShows(invoice.status)
  /\ h.at = "tasks" =>
       /\ {"sync", "remaining"} \intersect h.todo = {} =>
            InvoiceShows(IF "invoice" \in h.todo THEN h.plan ELSE invoice.status)
       /\ ~({"sync", "remaining"} \subseteq h.todo)
       /\ "invoice" \in h.todo => {"sync", "remaining"} \intersect h.todo = {}

FollowsInv ==
  ~workload.overlap /\ failures = 0 /\ "resize" \notin workload.ops =>
    /\ Alone
    /\ Quiet => InvoiceShows(invoice.status)
    /\ \A r \in Request : req[r] # Idle => Synchronises(req[r])

-----------------------------------------------------------------------------
(* Typing *)

Ops == ClientOps \union {"idle", "webhook"}

Stages == {"idle", "find", "insert", "sum", "resize", "upsert", "dispatch", "write", "tasks"}

LEMMA NoRowType == NoRow \in Row
BY AmountsAssumption DEF NoRow, Row

LEMMA IdleType == Idle \in Handler
BY DEF Idle, Handler, NoEvent, ClientOps, InvoiceStatus, Task

LEMMA SetHandlerType ==
  ASSUME TypeOK, NEW r \in Request, NEW h \in Handler, req' = [req EXCEPT ![r] = h]
  PROVE  req' \in [Request -> Handler]
BY DEF TypeOK

\* Columns of a handler, one by one.
LEMMA HandlerFields ==
  ASSUME NEW h \in Handler
  PROVE  /\ \A at \in Stages : [h EXCEPT !.at = at] \in Handler
         /\ \A at \in Stages, x \in BOOLEAN : [h EXCEPT !.at = at, !.advance = x] \in Handler
         /\ \A at \in Stages, n \in Int : [h EXCEPT !.at = at, !.amount = n] \in Handler
         /\ \A todo \in SUBSET Task : [h EXCEPT !.todo = todo] \in Handler
         /\ \A todo \in SUBSET Task : [h EXCEPT !.at = "tasks", !.todo = todo] \in Handler
         /\ \A todo \in SUBSET Task, s \in InvoiceStatus :
              [h EXCEPT !.todo = todo, !.plan = s] \in Handler
<1>1. \A at \in Stages : [h EXCEPT !.at = at] \in Handler
  BY DEF Handler, Stages
<1>2. \A at \in Stages, x \in BOOLEAN : [h EXCEPT !.at = at, !.advance = x] \in Handler
  BY DEF Handler, Stages
<1>3. \A at \in Stages, n \in Int : [h EXCEPT !.at = at, !.amount = n] \in Handler
  BY DEF Handler, Stages
<1>4. \A todo \in SUBSET Task : [h EXCEPT !.todo = todo] \in Handler
  BY DEF Handler
<1>5. \A todo \in SUBSET Task : [h EXCEPT !.at = "tasks", !.todo = todo] \in Handler
  BY DEF Handler
<1>6. \A todo \in SUBSET Task, s \in InvoiceStatus : [h EXCEPT !.todo = todo, !.plan = s] \in Handler
  BY DEF Handler
<1>. QED BY <1>1, <1>2, <1>3, <1>4, <1>5, <1>6

LEMMA NewHandlers ==
  ASSUME NEW h \in Handler
  PROVE  /\ \A op \in ClientOps, s \in InvoiceStatus, todo \in SUBSET Task :
              [h EXCEPT !.op = op, !.at = "tasks", !.plan = s, !.todo = todo] \in Handler
         /\ \A p \in Payment, e \in Event, x \in BOOLEAN :
              [h EXCEPT !.op = "webhook", !.at = "upsert", !.p = p, !.e = e, !.known = x] \in Handler
         /\ \A op \in ClientOps, at \in Stages, n \in Int :
              [h EXCEPT !.op = op, !.at = at, !.amount = n] \in Handler
         /\ \A s \in InvoiceStatus : [h EXCEPT !.plan = s] \in Handler
<1>1. \A op \in ClientOps, s \in InvoiceStatus, todo \in SUBSET Task :
        [h EXCEPT !.op = op, !.at = "tasks", !.plan = s, !.todo = todo] \in Handler
  BY DEF Handler
<1>2. \A p \in Payment, e \in Event, x \in BOOLEAN :
        [h EXCEPT !.op = "webhook", !.at = "upsert", !.p = p, !.e = e, !.known = x] \in Handler
  BY DEF Handler
<1>3. \A op \in ClientOps, at \in Stages, n \in Int :
        [h EXCEPT !.op = op, !.at = at, !.amount = n] \in Handler
  BY DEF Handler, Stages
<1>4. \A s \in InvoiceStatus : [h EXCEPT !.plan = s] \in Handler
  BY DEF Handler
<1>. QED BY <1>1, <1>2, <1>3, <1>4

LEMMA UnitsFinite == IsFiniteSet(Payment \X (1..Total))
<1>1. IsFiniteSet(1..Total)
  BY AmountsAssumption, FS_Interval
<1>2. IsFiniteSet(Payment)
  BY PaymentsAssumption
<1>. QED BY <1>1, <1>2, FS_Product

\* A sum of units is a number, and shrinks with the payments it is of.
LEMMA PaidType ==
  ASSUME TypeOK
  PROVE  PaidAmount \in Nat
<1>2. {unit \in Succeeded \X (1..Total) : unit[2] <= payment[unit[1]].amount}
        \in SUBSET (Payment \X (1..Total))
  BY DEF Succeeded
<1>. QED BY <1>2, UnitsFinite, FS_Subset, FS_CardinalityType DEF PaidAmount, SumOf

LEMMA PaidShrinks ==
  ASSUME TypeOK, TypeOK',
         \A p \in Payment : payment'[p].status = "SUCCESS" =>
           payment[p].status = "SUCCESS" /\ payment'[p].amount = payment[p].amount
  PROVE  PaidAmount' \in Nat /\ PaidAmount \in Nat /\ PaidAmount' <= PaidAmount
<1>. DEFINE U == {unit \in Succeeded \X (1..Total) : unit[2] <= payment[unit[1]].amount}
<1>2. U \in SUBSET (Payment \X (1..Total))
  BY DEF Succeeded
<1>3. U' \in SUBSET U
  BY DEF Succeeded
<1>4. IsFiniteSet(U)
  BY <1>2, UnitsFinite, FS_Subset
<1>5. Cardinality(U) \in Nat /\ Cardinality(U') \in Nat /\ Cardinality(U') <= Cardinality(U)
  BY <1>3, <1>4, FS_Subset, FS_CardinalityType
<1>. QED BY <1>5 DEF PaidAmount, SumOf

LEMMA PaidSame ==
  ASSUME TypeOK, TypeOK',
         \A p \in Payment :
           /\ (payment'[p].status = "SUCCESS") = (payment[p].status = "SUCCESS")
           /\ payment[p].status = "SUCCESS" => payment'[p].amount = payment[p].amount
  PROVE  PaidAmount' = PaidAmount
<1>1. Succeeded' = Succeeded
  BY DEF Succeeded
<1>2. \A unit \in Succeeded \X (1..Total) : payment'[unit[1]].amount = payment[unit[1]].amount
  BY DEF Succeeded
<1>. QED BY <1>1, <1>2 DEF PaidAmount, SumOf

LEMMA OutstandingType ==
  ASSUME TypeOK
  PROVE  Outstanding \in Int /\ Outstanding <= Total
BY PaidType, AmountsAssumption DEF TypeOK, Outstanding

-----------------------------------------------------------------------------
(* Handlers *)

\* Money once captured stays captured, so nothing a handler has learnt is undone.
LEMMA Remembers ==
  ASSUME NEW g, NEW g2, NEW h, HandlerOK(h, g), \A p \in Payment : g[p] \subseteq g2[p]
  PROVE  HandlerOK(h, g2)
BY DEF HandlerOK, Event

LEMMA IdleOK == \A g : HandlerOK(Idle, g)
BY DEF HandlerOK, Idle

LEMMA GatewayGrows ==
  ASSUME TypeOK, [Next]_vars
  PROVE  \A p \in Payment : gateway[p] \subseteq gateway'[p]
<1>1. CASE gateway' = gateway
  BY <1>1
<1>2. ASSUME NEW p \in Payment, Capture(p) \/ FailAttempt(p) \/ RefundAtGateway(p)
      PROVE  \A q \in Payment : gateway[q] \subseteq gateway'[q]
  BY <1>2 DEF Capture, FailAttempt, RefundAtGateway, TypeOK
<1>3. ASSUME NEW r \in Request, Call(r) \/ (\E e \in Event : Deliver(r, e)) \/ Continue(r) \/ Throw(r)
      PROVE  gateway' = gateway
  BY <1>3 DEF Call, CreateOrder, Resize, Verify, Refund, CreatePayment, MarkPaid, MarkOverdue,
     CancelInvoice, Deliver, Continue, FindReusable, InsertOrder, OrderRejected, ResizeWrite,
     VerifyWrite, UpsertEvent, ReadCaptured, ReadFailed, ReadRefunded, WebhookWrite, RefundWrite,
     MarkPaidSum, InsertOffline, Sync, CheckRemaining, UpdateInvoice, UpdateBooking,
     MarkProcessed, Throw
<1>4. CASE UNCHANGED vars \/ Crash
  BY <1>4 DEF vars, Crash
<1>. QED BY <1>1, <1>2, <1>3, <1>4 DEF Next, Environment

\* The next state of the handler of r, if nobody else moves.
Becomes(r, h) == h \in Handler /\ HandlerOK(h, gateway) /\ req' = [req EXCEPT ![r] = h]

LEMMA ReplyBecomes ==
  ASSUME NEW r \in Request, Reply(r)
  PROVE  Becomes(r, Idle)
BY IdleType, IdleOK DEF Becomes, Reply

\* Tasks that are left, or follow from what the handler is.
LEMMA ThenBecomes ==
  ASSUME RecordsInv, NEW r \in Request, NEW todo \in SUBSET Task, Then(r, todo),
         "done" \in todo => req[r].op = "webhook",
         "booking" \in todo => \E p \in Payment : "captured" \in gateway[p]
  PROVE  \E h : Becomes(r, h)
<1>0. req[r] \in Handler /\ HandlerOK(req[r], gateway)
  BY DEF RecordsInv, TypeOK
<1>1. CASE todo = {}
  BY <1>1, IdleType, IdleOK DEF Then, Becomes
<1>2. CASE todo # {}
  <2>. DEFINE h == [req[r] EXCEPT !.at = "tasks", !.todo = todo]
  <2>1. h \in Handler /\ req' = [req EXCEPT ![r] = h]
    BY <1>0, <1>2, HandlerFields DEF Then
  <2>2. /\ h.op = req[r].op /\ h.at = "tasks" /\ h.p = req[r].p /\ h.e = req[r].e
        /\ h.amount = req[r].amount /\ h.type = req[r].type /\ h.valid = req[r].valid /\ h.todo = todo
    BY <1>0 DEF Handler
  <2>3. HandlerOK(h, gateway)
    BY <1>0, <2>2 DEF HandlerOK
  <2>. QED BY <2>1, <2>3 DEF Becomes
<1>. QED BY <1>1, <1>2

LEMMA StartsHandler ==
  ASSUME RecordsInv, NEW r \in Request, Call(r) \/ \E e \in Event : Deliver(r, e)
  PROVE  \E h : Becomes(r, h)
<1>0. TypeOK /\ Outstanding \in Int /\ Outstanding <= Total
  BY OutstandingType DEF RecordsInv
<1>1. ASSUME NEW type \in PaymentType, CreateOrder(r, type)
      PROVE  \E h : Becomes(r, h)
  <2>. DEFINE h == [Idle EXCEPT !.op = "order", !.at = "find", !.amount = Outstanding,
                                !.type = type]
  <2>1. h \in Handler
    BY <1>0, IdleType DEF Handler, ClientOps
  <2>2. HandlerOK(h, gateway)
    BY <1>0, <1>1 DEF HandlerOK, Idle, CreateOrder
  <2>. QED BY <1>1, <2>1, <2>2 DEF CreateOrder, Begin, Becomes
<1>2. ASSUME NEW t \in {Advance, Total}, Resize(r, t)
      PROVE  \E h : Becomes(r, h)
  <2>0. t \in Int
    BY AmountsAssumption
  <2>1. ASSUME NEW paid \in BOOLEAN
        PROVE  [Idle EXCEPT !.op = "resize", !.at = "resize", !.amount = t, !.advance = paid] \in Handler
    BY <2>0, IdleType DEF Handler, ClientOps
  <2>2. ASSUME NEW paid
        PROVE  HandlerOK([Idle EXCEPT !.op = "resize", !.at = "resize", !.amount = t,
                                      !.advance = paid], gateway)
    BY DEF HandlerOK, Idle
  <2>3. (Succeeded # {}) \in BOOLEAN
    OBVIOUS
  <2>. QED BY <1>2, <2>1, <2>2, <2>3 DEF Resize, Begin, Becomes
<1>3. ASSUME NEW op \in {"verify", "verifyOnly"}, NEW p \in Payment, NEW valid \in BOOLEAN,
             Verify(r, op, p, valid)
      PROVE  \E h : Becomes(r, h)
  <2>. DEFINE h(x) == [Idle EXCEPT !.op = op, !.at = "write", !.p = p, !.valid = valid,
                                   !.advance = x]
  <2>1. /\ \A x \in BOOLEAN : h(x) \in Handler
        /\ \A x \in BOOLEAN : [h(x) EXCEPT !.at = "tasks", !.todo = {"booking"}] \in Handler
    <3>1. \A x \in BOOLEAN : h(x) \in Handler
      BY IdleType DEF Handler, ClientOps
    <3>2. {"booking"} \in SUBSET Task
      BY DEF Task
    <3>. QED BY <3>1, <3>2, HandlerFields
  <2>2. valid => "captured" \in gateway[p]
    BY <1>3 DEF Verify
  <2>3. \A x : HandlerOK(h(x), gateway)
    BY <2>2 DEF HandlerOK, Idle
  <2>4. \A x : valid => HandlerOK([h(x) EXCEPT !.at = "tasks", !.todo = {"booking"}], gateway)
    BY <2>2 DEF HandlerOK, Idle
  <2>5. (op = "verify" /\ awaiting) \in BOOLEAN
    OBVIOUS
  <2>. HIDE DEF h
  <2>6. \/ req' = [req EXCEPT ![r] = h(op = "verify" /\ awaiting)]
        \/ valid /\ req' = [req EXCEPT ![r] = [h(op = "verify" /\ awaiting) EXCEPT !.at = "tasks", !.todo = {"booking"}]]
    BY <1>3 DEF Verify, Begin, h
  <2>. QED BY <2>1, <2>3, <2>4, <2>5, <2>6 DEF Becomes
<1>4. ASSUME NEW p \in Payment, Refund(r, p)
      PROVE  \E h : Becomes(r, h)
  <2>. DEFINE h == [Idle EXCEPT !.op = "refund", !.at = "write", !.p = p]
  <2>1. h \in Handler
    BY IdleType DEF Handler, ClientOps
  <2>2. HandlerOK(h, gateway)
    BY DEF HandlerOK, Idle
  <2>. QED BY <1>4, <2>1, <2>2 DEF Refund, Begin, Becomes
<1>5. ASSUME NEW amount \in Amounts, CreatePayment(r, amount)
      PROVE  \E h : Becomes(r, h)
  <2>. DEFINE h == [Idle EXCEPT !.op = "offline", !.at = "insert", !.amount = amount]
  <2>1. amount \in 1..Total /\ amount \in Int
    BY AmountsAssumption DEF Amounts
  <2>2. h \in Handler
    BY <2>1, IdleType, NewHandlers DEF ClientOps, Stages
  <2>3. HandlerOK(h, gateway)
    BY <2>1 DEF HandlerOK, Idle
  <2>. QED BY <1>5, <2>2, <2>3 DEF CreatePayment, Begin, Becomes
<1>6. CASE MarkPaid(r)
  <2>. DEFINE h == [Idle EXCEPT !.op = "markPaid", !.at = "sum", !.amount = invoice.total, !.plan = "PAID"]
  <2>1. invoice.total \in {Advance, Total} /\ invoice.total \in Int
    BY <1>0, AmountsAssumption DEF TypeOK
  <2>2. h \in Handler
    <3>. DEFINE g == [Idle EXCEPT !.op = "markPaid", !.at = "sum", !.amount = invoice.total]
    <3>1. g \in Handler
      BY <2>1, IdleType, NewHandlers DEF ClientOps, Stages
    <3>2. [g EXCEPT !.plan = "PAID"] \in Handler
      <4>. HIDE DEF g
      <4>. QED BY <3>1, NewHandlers DEF InvoiceStatus
    <3>. QED BY <3>2
  <2>3. HandlerOK(h, gateway)
    BY <2>1 DEF HandlerOK, Idle
  <2>. QED BY <1>6, <2>2, <2>3 DEF MarkPaid, Begin, Becomes
<1>7. CASE MarkOverdue(r) \/ CancelInvoice(r)
  <2>. DEFINE h(op, s) == [Idle EXCEPT !.op = op, !.at = "tasks", !.plan = s, !.todo = {"invoice"}]
  <2>0. ASSUME NEW op \in ClientOps, NEW s \in InvoiceStatus
        PROVE  h(op, s) \in Handler
    <3>1. {"invoice"} \in SUBSET Task
      BY DEF Task
    <3>. QED BY <3>1, IdleType, NewHandlers
  <2>1. h("markOverdue", "OVERDUE") \in Handler /\ h("cancelInvoice", "CANCELLED") \in Handler
    <3>. HIDE DEF h
    <3>. QED BY <2>0 DEF ClientOps, InvoiceStatus
  <2>2. HandlerOK(h("markOverdue", "OVERDUE"), gateway) /\ HandlerOK(h("cancelInvoice", "CANCELLED"), gateway)
    BY DEF HandlerOK, Idle
  <2>. QED BY <1>7, <2>1, <2>2 DEF MarkOverdue, CancelInvoice, Begin, Becomes
<1>8. ASSUME NEW e \in Event, Deliver(r, e)
      PROVE  \E h : Becomes(r, h)
  <2>. DEFINE h == [Idle EXCEPT !.op = "webhook", !.at = "upsert", !.p = e.p, !.e = e,
                                !.known = event[e] # "NONE"]
  <2>0. e.p \in Payment /\ Announces(e) \in gateway[e.p]
    BY <1>8 DEF Deliver, Event
  <2>1. h \in Handler
    <3>1. (event[e] # "NONE") \in BOOLEAN
      OBVIOUS
    <3>. QED BY <2>0, <3>1, IdleType, NewHandlers
  <2>2. HandlerOK(h, gateway)
    BY <2>0 DEF HandlerOK, Idle
  <2>. QED BY <1>8, <2>1, <2>2 DEF Deliver, Begin, Becomes
<1>9. ASSUME NEW type \in workload.types, CreateOrder(r, type)
      PROVE  type \in PaymentType
  BY <1>0, WorkloadsAssumption DEF TypeOK
<1>. QED BY <1>1, <1>2, <1>3, <1>4, <1>5, <1>6, <1>7, <1>8, <1>9 DEF Call

LEMMA ContinuesHandler ==
  ASSUME RecordsInv, NEW r \in Request, Continue(r)
  PROVE  \E h : Becomes(r, h)
<1>0. TypeOK /\ req[r] \in Handler /\ HandlerOK(req[r], gateway)
  BY DEF RecordsInv, TypeOK
<1>1. ASSUME NEW at \in Stages \ {"sum"}, Await(r, at),
             at = "insert" => req[r].amount \in 1..Total,
             at = "dispatch" => req[r].op = "webhook"
      PROVE  \E h : Becomes(r, h)
  <2>. DEFINE h == [req[r] EXCEPT !.at = at]
  <2>1. h \in Handler /\ req' = [req EXCEPT ![r] = h]
    BY <1>0, <1>1, HandlerFields DEF Await
  <2>2. /\ h.op = req[r].op /\ h.at = at /\ h.p = req[r].p /\ h.e = req[r].e
        /\ h.amount = req[r].amount /\ h.type = req[r].type /\ h.valid = req[r].valid /\ h.todo = req[r].todo
    BY <1>0 DEF Handler
  <2>3. HandlerOK(h, gateway)
    BY <1>0, <1>1, <2>2 DEF HandlerOK
  <2>. QED BY <2>1, <2>3 DEF Becomes
<1>2. CASE FindReusable(r) \/ InsertOrder(r) \/ OrderRejected(r) \/ ResizeWrite(r)
  BY <1>0, <1>1, <1>2, ReplyBecomes
  DEF FindReusable, InsertOrder, OrderRejected, ResizeWrite, Running, Stages, HandlerOK
<1>3. CASE VerifyWrite(r)
  BY <1>0, <1>3, ReplyBecomes, ThenBecomes DEF VerifyWrite, HandlerOK, Task
<1>4. CASE UpsertEvent(r)
  BY <1>0, <1>1, <1>4, ReplyBecomes DEF UpsertEvent, Running, Stages
<1>5. CASE ReadCaptured(r)
  <2>1. CASE payment[req[r].p].status = "SUCCESS"
    BY <1>5, <2>1, ThenBecomes DEF ReadCaptured, Processing, Running, Task
  <2>2. CASE payment[req[r].p].status # "SUCCESS"
    <3>. DEFINE h == [req[r] EXCEPT !.at = "write", !.advance = awaiting]
    <3>1. h \in Handler
      BY <1>0, HandlerFields DEF TypeOK, Stages
    <3>2. /\ h.op = req[r].op /\ h.at = "write" /\ h.p = req[r].p /\ h.e = req[r].e
          /\ h.amount = req[r].amount /\ h.type = req[r].type /\ h.valid = req[r].valid /\ h.todo = req[r].todo
      BY <1>0 DEF Handler
    <3>3. HandlerOK(h, gateway)
      BY <1>0, <3>2 DEF HandlerOK
    <3>4. req' = [req EXCEPT ![r] = h]
      BY <1>0, <1>5, <2>2 DEF ReadCaptured, TypeOK
    <3>. QED BY <3>1, <3>3, <3>4 DEF Becomes
  <2>. QED BY <2>1, <2>2
<1>6. CASE ReadFailed(r) \/ ReadRefunded(r)
  BY <1>1, <1>6, ThenBecomes DEF ReadFailed, ReadRefunded, Processing, Running, Stages, Task
<1>7. CASE WebhookWrite(r)
  <2>1. req[r].op = "webhook" /\ req[r].e \in Event /\ Announces(req[r].e) \in gateway[req[r].p]
        /\ req[r].p \in Payment
    BY <1>0, <1>7 DEF WebhookWrite, Running, HandlerOK, Event
  <2>2. /\ TasksAfterEvent(req[r].e.kind) \in SUBSET Task
        /\ "booking" \in TasksAfterEvent(req[r].e.kind) => "captured" \in gateway[req[r].p]
    BY <2>1 DEF TasksAfterEvent, Task, Event, Announces
  <2>. QED BY <1>7, <2>1, <2>2, ThenBecomes DEF WebhookWrite
<1>8. CASE RefundWrite(r) \/ InsertOffline(r)
  BY <1>8, ThenBecomes DEF RefundWrite, InsertOffline, Task
<1>9. CASE MarkPaidSum(r)
  <2>. DEFINE outstanding == req[r].amount - PaidAmount
  <2>1. outstanding \in Int /\ outstanding <= Total
    BY <1>0, <1>9, PaidType, AmountsAssumption DEF MarkPaidSum, Running, HandlerOK
  <2>2. CASE outstanding > 0
    <3>. DEFINE h == [req[r] EXCEPT !.at = "insert", !.amount = outstanding]
    <3>1. h \in Handler
      BY <1>0, <2>1, HandlerFields DEF Stages
    <3>2. /\ h.op = req[r].op /\ h.at = "insert" /\ h.p = req[r].p /\ h.e = req[r].e
          /\ h.amount = outstanding /\ h.type = req[r].type /\ h.valid = req[r].valid /\ h.todo = req[r].todo
      BY <1>0 DEF Handler
    <3>3. HandlerOK(h, gateway)
      BY <1>0, <1>9, <2>1, <2>2, <3>2 DEF HandlerOK, MarkPaidSum, Running
    <3>4. req' = [req EXCEPT ![r] = h]
      BY <1>0, <1>9, <2>2 DEF MarkPaidSum, TypeOK
    <3>. QED BY <3>1, <3>3, <3>4 DEF Becomes
  <2>3. CASE ~(outstanding > 0)
    BY <1>9, <2>3, ThenBecomes DEF MarkPaidSum, Task
  <2>. QED BY <2>2, <2>3
<1>10. ASSUME NEW task, Finish(r, task)
       PROVE  \E h : Becomes(r, h)
  <2>1. /\ req[r].todo \ {task} \in SUBSET Task
        /\ "done" \in req[r].todo => req[r].op = "webhook"
        /\ "booking" \in req[r].todo => \E p \in Payment : "captured" \in gateway[p]
    BY <1>0 DEF Handler, HandlerOK
  <2>. QED BY <1>10, <2>1, ThenBecomes DEF Finish
<1>11. ASSUME NEW todo \in SUBSET Task, NEW s \in InvoiceStatus,
              todo \subseteq req[r].todo \union {"invoice", "sync"},
              req' = [req EXCEPT ![r] = [req[r] EXCEPT !.todo = todo, !.plan = s]]
       PROVE  \E h : Becomes(r, h)
  <2>. DEFINE h == [req[r] EXCEPT !.todo = todo, !.plan = s]
  <2>1. h \in Handler
    BY <1>0, HandlerFields
  <2>2. /\ h.op = req[r].op /\ h.at = req[r].at /\ h.p = req[r].p /\ h.e = req[r].e
        /\ h.amount = req[r].amount /\ h.type = req[r].type /\ h.valid = req[r].valid /\ h.todo = todo
    BY <1>0 DEF Handler
  <2>3. HandlerOK(h, gateway)
    BY <1>0, <1>11, <2>2 DEF HandlerOK
  <2>. QED BY <1>11, <2>1, <2>3 DEF Becomes
<1>12. ASSUME NEW task, NEW s \in InvoiceStatus, Plan(r, task, s)
       PROVE  \E h : Becomes(r, h)
  <2>1. (req[r].todo \ {task}) \union {"invoice"} \in SUBSET Task
    BY <1>0 DEF Handler, Task
  <2>2. req' = [req EXCEPT ![r] = [req[r] EXCEPT !.todo = (req[r].todo \ {task}) \union {"invoice"}, !.plan = s]]
    BY <1>0, <1>12 DEF Plan, TypeOK, Handler
  <2>. QED BY <1>11, <2>1, <2>2
<1>13. CASE Sync(r)
  BY <1>0, <1>10, <1>12, <1>13 DEF Sync, InvoiceStatus
<1>14. CASE CheckRemaining(r)
  <2>1. CASE PaidAmount <= 0
    BY <1>12, <1>14, <2>1 DEF CheckRemaining, InvoiceStatus
  <2>2. CASE ~(PaidAmount <= 0)
    <3>. DEFINE todo == (req[r].todo \ {"remaining"}) \union {"sync"}
    <3>1. todo \in SUBSET Task /\ req[r].plan \in InvoiceStatus
      BY <1>0 DEF Handler, Task
    <3>2. [req[r] EXCEPT !.todo = todo, !.plan = req[r].plan] = [req[r] EXCEPT !.todo = todo]
      BY <1>0 DEF Handler
    <3>3. req' = [req EXCEPT ![r] = [req[r] EXCEPT !.todo = todo]]
      BY <1>0, <1>14, <2>2 DEF CheckRemaining, TypeOK
    <3>. QED BY <1>11, <3>1, <3>2, <3>3
  <2>. QED BY <2>1, <2>2
<1>15. CASE UpdateInvoice(r) \/ UpdateBooking(r) \/ MarkProcessed(r)
  BY <1>10, <1>15, ReplyBecomes DEF UpdateInvoice, UpdateBooking, MarkProcessed
<1>. QED BY <1>2, <1>3, <1>4, <1>5, <1>6, <1>7, <1>8, <1>9, <1>13, <1>14, <1>15 DEF Continue

LEMMA ThrowsHandler ==
  ASSUME RecordsInv, NEW r \in Request, Throw(r)
  PROVE  \E h : Becomes(r, h)
<1>0. req[r] \in Handler /\ HandlerOK(req[r], gateway)
  BY DEF RecordsInv, TypeOK
<1>1. PICK todo \in Survivors(r) : Then(r, todo)
  BY DEF Throw
<1>2. todo \subseteq req[r].todo
  BY <1>1 DEF Survivors
<1>. QED BY <1>0, <1>1, <1>2, ThenBecomes DEF Handler, HandlerOK

-----------------------------------------------------------------------------
(* Rows *)

\* What a handler makes of the row of payment p: an order or a payment in person is
\* inserted, money arrives, an attempt fails, or it is refunded.
Ordered(p, row) ==
  payment[p] = NoRow /\ row.status = "PENDING" /\ row.txn = "CREATED" /\ row.razorpay = "none"

PaidInPerson(p, row) ==
  payment[p] = NoRow /\ row.status = "SUCCESS" /\ row.txn = "NONE" /\ row.razorpay = "none"

Arrived(p, row) ==
  /\ "captured" \in gateway[p]
  /\ row.status = "SUCCESS" /\ row.txn = "PAID" /\ row.razorpay = "capture"
  /\ row.amount = payment[p].amount

NotPaid(p, row) ==
  /\ row.status = "FAILED" /\ row.txn = "FAILED" /\ row.razorpay = "attempt"
  /\ row.amount = payment[p].amount

TakenBack(p, row) ==
  /\ row.status = "REFUNDED" /\ row.txn = payment[p].txn /\ row.razorpay = payment[p].razorpay
  /\ row.amount = payment[p].amount

Written(p, row) ==
  /\ row \in Row
  /\ \/ Ordered(p, row)
     \/ PaidInPerson(p, row)
     \/ Arrived(p, row)
     \/ NotPaid(p, row)
     \/ TakenBack(p, row)

\* A row, column by column.
LEMMA Inserted ==
  ASSUME NEW a \in 1..Total, NEW p \in Payment, payment[p] = NoRow
  PROVE  /\ \A t \in PaymentType :
              Written(p, [NoRow EXCEPT !.status = "PENDING", !.txn = "CREATED", !.type = t, !.amount = a])
         /\ Written(p, [NoRow EXCEPT !.status = "SUCCESS", !.amount = a])
<1>0. NoRow \in Row /\ NoRow.status = "NONE" /\ NoRow.txn = "NONE" /\ NoRow.razorpay = "none"
  BY NoRowType DEF NoRow
<1>1. a \in 0..Total
  BY AmountsAssumption
<1>. DEFINE x(t) == [NoRow EXCEPT !.status = "PENDING", !.txn = "CREATED", !.type = t, !.amount = a]
            y == [NoRow EXCEPT !.status = "SUCCESS", !.amount = a]
<1>2. \A t \in PaymentType :
        x(t) \in Row /\ x(t).status = "PENDING" /\ x(t).txn = "CREATED" /\ x(t).razorpay = "none"
  BY <1>0, <1>1 DEF Row
<1>3. y \in Row /\ y.status = "SUCCESS" /\ y.txn = "NONE" /\ y.razorpay = "none"
  BY <1>0, <1>1 DEF Row
<1>. QED BY <1>2, <1>3 DEF Written, Ordered, PaidInPerson

LEMMA Updated ==
  ASSUME TypeOK, NEW p \in Payment
  PROVE  /\ "captured" \in gateway[p] =>
              Written(p, [payment[p] EXCEPT !.status = "SUCCESS", !.txn = "PAID", !.razorpay = "capture"])
         /\ Written(p, [payment[p] EXCEPT !.status = "FAILED", !.txn = "FAILED", !.razorpay = "attempt"])
         /\ Written(p, [payment[p] EXCEPT !.status = "REFUNDED"])
<1>0. payment[p] \in Row
  BY DEF TypeOK
<1>. DEFINE x == [payment[p] EXCEPT !.status = "SUCCESS", !.txn = "PAID", !.razorpay = "capture"]
            y == [payment[p] EXCEPT !.status = "FAILED", !.txn = "FAILED", !.razorpay = "attempt"]
            z == [payment[p] EXCEPT !.status = "REFUNDED"]
<1>1. /\ x \in Row /\ x.status = "SUCCESS" /\ x.txn = "PAID" /\ x.razorpay = "capture"
      /\ x.amount = payment[p].amount
  BY <1>0 DEF Row
<1>2. /\ y \in Row /\ y.status = "FAILED" /\ y.txn = "FAILED" /\ y.razorpay = "attempt"
      /\ y.amount = payment[p].amount
  BY <1>0 DEF Row
<1>3. /\ z \in Row /\ z.status = "REFUNDED" /\ z.txn = payment[p].txn
      /\ z.razorpay = payment[p].razorpay /\ z.amount = payment[p].amount
  BY <1>0 DEF Row
<1>. HIDE DEF x, y, z
<1>4. "captured" \in gateway[p] => Written(p, x)
  BY <1>1 DEF Written, Arrived
<1>5. Written(p, y) /\ Written(p, z)
  BY <1>2, <1>3 DEF Written, NotPaid, TakenBack
<1>. QED BY <1>4, <1>5 DEF x, y, z

\* Some payment is written, as the handler of its writer does.
Writes == \E p \in Payment : \E row : Written(p, row) /\ payment' = [payment EXCEPT ![p] = row]

LEMMA PaymentMoves ==
  ASSUME RecordsInv, [Next]_vars
  PROVE  payment' = payment \/ Writes
<1>0. TypeOK /\ \A r \in Request : HandlerOK(req[r], gateway)
  BY DEF RecordsInv
<1>1. CASE Environment \/ UNCHANGED vars
  BY <1>1 DEF Environment, Capture, FailAttempt, RefundAtGateway, Crash, vars
<1>2. ASSUME NEW r \in Request, Call(r) \/ (\E e \in Event : Deliver(r, e)) \/ Throw(r)
      PROVE  payment' = payment
  BY <1>2 DEF Call, CreateOrder, Resize, Verify, Refund, CreatePayment, MarkPaid, MarkOverdue,
     CancelInvoice, Deliver, Throw
<1>3. ASSUME NEW r \in Request, Continue(r)
      PROVE  payment' = payment \/ Writes
  <2>0. HandlerOK(req[r], gateway)
    BY <1>0
  <2>1. CASE InsertOrder(r)
    <3>1. req[r].amount \in 1..Total /\ req[r].type \in PaymentType
      BY <2>0, <2>1 DEF InsertOrder, Running, HandlerOK
    <3>2. PICK p \in Unused :
            payment' = [payment EXCEPT ![p] = [NoRow EXCEPT !.status = "PENDING", !.txn = "CREATED",
                           !.type = req[r].type, !.amount = req[r].amount]]
      BY <2>1 DEF InsertOrder
    <3>3. p \in Payment /\ payment[p] = NoRow
      BY DEF Unused
    <3>4. Written(p, [NoRow EXCEPT !.status = "PENDING", !.txn = "CREATED",
                           !.type = req[r].type, !.amount = req[r].amount])
      BY <3>1, <3>3, Inserted
    <3>. QED BY <3>2, <3>3, <3>4, Zenon DEF Writes
  <2>2. CASE InsertOffline(r)
    <3>1. req[r].amount \in 1..Total
      BY <2>0, <2>2 DEF InsertOffline, HandlerOK
    <3>2. PICK p \in Unused :
            payment' = [payment EXCEPT ![p] = [NoRow EXCEPT !.status = "SUCCESS", !.amount = req[r].amount]]
      BY <2>2 DEF InsertOffline
    <3>3. p \in Payment /\ payment[p] = NoRow
      BY DEF Unused
    <3>4. Written(p, [NoRow EXCEPT !.status = "SUCCESS", !.amount = req[r].amount])
      BY <3>1, <3>3, Inserted
    <3>. QED BY <3>2, <3>3, <3>4, Zenon DEF Writes
  <2>3. CASE VerifyWrite(r)
    <3>. DEFINE p == req[r].p
    <3>1. p \in Payment /\ (req[r].valid => "captured" \in gateway[p])
      BY <2>0, <2>3 DEF VerifyWrite, HandlerOK
    <3>2. \/ /\ req[r].valid
             /\ payment' = [payment EXCEPT ![p] = [payment[p] EXCEPT !.status = "SUCCESS", !.txn = "PAID",
                                                                     !.razorpay = "capture"]]
          \/ payment' = [payment EXCEPT ![p] = [payment[p] EXCEPT !.status = "FAILED", !.txn = "FAILED",
                                                                  !.razorpay = "attempt"]]
      BY <1>0, <2>3, <3>1 DEF VerifyWrite, TypeOK
    <3>. HIDE DEF p
    <3>. QED BY <1>0, <3>1, <3>2, Updated, Zenon DEF Writes
  <2>4. CASE WebhookWrite(r)
    <3>. DEFINE p == req[r].p
                k == req[r].e.kind
    <3>1. p \in Payment /\ req[r].e \in Event /\ Announces(req[r].e) \in gateway[p]
      BY <2>0, <2>4 DEF WebhookWrite, Running, HandlerOK, Event
    <3>2. k \in {"payment.captured", "order.paid", "payment.failed", "refund.processed"}
      BY <3>1 DEF Event
    <3>3. k \in {"payment.captured", "order.paid"} => "captured" \in gateway[p]
      BY <3>1 DEF Announces
    <3>4. payment' = [payment EXCEPT ![p] = AfterEvent(k, payment[p])]
      BY <2>4 DEF WebhookWrite
    <3>. HIDE DEF p, k
    <3>5. Written(p, AfterEvent(k, payment[p]))
      <4>1. CASE k \in {"payment.captured", "order.paid"}
        BY <1>0, <3>1, <3>3, <4>1, Updated DEF AfterEvent
      <4>2. CASE k = "payment.failed"
        BY <1>0, <3>1, <4>2, Updated DEF AfterEvent
      <4>3. CASE k = "refund.processed"
        BY <1>0, <3>1, <4>3, Updated DEF AfterEvent
      <4>. QED BY <3>2, <4>1, <4>2, <4>3
    <3>. QED BY <3>1, <3>4, <3>5, Zenon DEF Writes
  <2>5. CASE RefundWrite(r)
    <3>. DEFINE p == req[r].p
    <3>1. p \in Payment
      BY <2>0, <2>5 DEF RefundWrite, Running, HandlerOK
    <3>2. payment' = [payment EXCEPT ![p] = [payment[p] EXCEPT !.status = "REFUNDED"]]
      BY <1>0, <2>5, <3>1 DEF RefundWrite, TypeOK
    <3>. HIDE DEF p
    <3>. QED BY <1>0, <3>1, <3>2, Updated, Zenon DEF Writes
  <2>6. CASE ~(InsertOrder(r) \/ InsertOffline(r) \/ VerifyWrite(r) \/ WebhookWrite(r) \/ RefundWrite(r))
    BY <1>3, <2>6 DEF Continue, FindReusable, OrderRejected, ResizeWrite, UpsertEvent, ReadCaptured,
       ReadFailed, ReadRefunded, MarkPaidSum, Sync, CheckRemaining, UpdateInvoice, UpdateBooking,
       MarkProcessed
  <2>. QED BY <2>1, <2>2, <2>3, <2>4, <2>5, <2>6
<1>. QED BY <1>1, <1>2, <1>3 DEF Next

-----------------------------------------------------------------------------
(* The invariant *)

LEMMA RecordsInit == Init => RecordsInv
<1>. SUFFICES ASSUME Init PROVE RecordsInv
  OBVIOUS
<1>1. TypeOK
  <2>1. 0 \in 0..workload.failures
    BY WorkloadsAssumption DEF Init
  <2>2. req \in [Request -> Handler]
    BY IdleType DEF Init
  <2>3. invoice \in [status : InvoiceStatus, total : {Advance, Total}]
    BY DEF Init, InvoiceStatus
  <2>. QED BY <2>1, <2>2, <2>3, NoRowType DEF Init, TypeOK
<1>2. \A r \in Request : HandlerOK(req[r], gateway)
  BY IdleOK DEF Init
<1>3. LedgerAgrees /\ NothingBeforeCapture
  BY DEF Init, LedgerAgrees, NothingBeforeCapture, SuccessIsCaptured, BookingMovesOnCapture, NoRow
<1>. QED BY <1>1, <1>2, <1>3 DEF RecordsInv

LEMMA HandlersStep ==
  ASSUME RecordsInv, [Next]_vars
  PROVE  /\ req' \in [Request -> Handler]
         /\ \A r \in Request : HandlerOK(req'[r], gateway')
<1>0. /\ TypeOK /\ req \in [Request -> Handler]
      /\ \A r \in Request : HandlerOK(req[r], gateway)
  BY DEF RecordsInv, TypeOK
<1>1. \A p \in Payment : gateway[p] \subseteq gateway'[p]
  BY <1>0, GatewayGrows
<1>2. \/ req' = req
      \/ req' = [r \in Request |-> Idle]
      \/ \E r \in Request : \E h : Becomes(r, h)
  BY StartsHandler, ContinuesHandler, ThrowsHandler
  DEF Next, Environment, Capture, FailAttempt, RefundAtGateway, Crash, vars
<1>3. CASE req' = req
  BY <1>0, <1>1, <1>3, Remembers
<1>4. CASE req' = [r \in Request |-> Idle]
  BY <1>4, IdleType, IdleOK
<1>5. ASSUME NEW r \in Request, NEW h, Becomes(r, h)
      PROVE  /\ req' \in [Request -> Handler]
             /\ \A s \in Request : HandlerOK(req'[s], gateway')
  <2>1. req' \in [Request -> Handler]
    BY <1>0, <1>5, SetHandlerType DEF Becomes
  <2>2. \A s \in Request : req'[s] = h \/ req'[s] = req[s]
    BY <1>0, <1>5 DEF Becomes
  <2>3. HandlerOK(h, gateway') /\ \A s \in Request : HandlerOK(req[s], gateway')
    BY <1>0, <1>1, <1>5, Remembers DEF Becomes
  <2>. QED BY <2>1, <2>2, <2>3
<1>. QED BY <1>2, <1>3, <1>4, <1>5
LEMMA PaymentsStep ==
  ASSUME RecordsInv, [Next]_vars
  PROVE  /\ payment' \in [Payment -> Row]
         /\ LedgerAgrees'
         /\ SuccessIsCaptured'
<1>0. TypeOK /\ LedgerAgrees /\ SuccessIsCaptured
  BY DEF RecordsInv, NothingBeforeCapture
<1>1. payment \in [Payment -> Row]
  BY <1>0 DEF TypeOK
<1>2. \A p \in Payment : gateway[p] \subseteq gateway'[p]
  BY <1>0, GatewayGrows
<1>3. CASE payment' = payment
  BY <1>0, <1>1, <1>2, <1>3 DEF LedgerAgrees, SuccessIsCaptured
<1>4. ASSUME NEW p \in Payment, NEW row, Written(p, row), payment' = [payment EXCEPT ![p] = row]
      PROVE  /\ payment' \in [Payment -> Row]
             /\ LedgerAgrees'
             /\ SuccessIsCaptured'
  <2>1. payment' \in [Payment -> Row] /\ payment'[p] = row
        /\ \A q \in Payment : q # p => payment'[q] = payment[q]
    BY <1>1, <1>4 DEF Written
  <2>2. /\ row.status = "PENDING" => row.txn = "CREATED"
        /\ row.status = "FAILED" => row.txn = "FAILED"
        /\ row.status = "SUCCESS" => row.txn \in {"PAID", "NONE"}
        /\ row.txn = "PAID" => "captured" \in gateway[p]
    BY <1>0, <1>4 DEF Written, Ordered, PaidInPerson, Arrived, NotPaid, TakenBack, SuccessIsCaptured
  <2>3. LedgerAgrees'
    BY <1>0, <2>1, <2>2 DEF LedgerAgrees
  <2>4. SuccessIsCaptured'
    BY <1>0, <1>2, <2>1, <2>2 DEF SuccessIsCaptured
  <2>. QED BY <2>1, <2>3, <2>4
<1>. QED BY <1>3, <1>4, PaymentMoves DEF Writes

\* The invoice changes by a resize or by a status that was planned.
LEMMA InvoiceMoves ==
  ASSUME [Next]_vars
  PROVE  \/ invoice' = invoice
         \/ \E r \in Request : ResizeWrite(r) \/ UpdateInvoice(r)
<1>1. CASE Environment \/ UNCHANGED vars
  BY <1>1 DEF Environment, Capture, FailAttempt, RefundAtGateway, Crash, vars
<1>2. ASSUME NEW r \in Request, Call(r) \/ \E e \in Event : Deliver(r, e)
      PROVE  invoice' = invoice
  BY <1>2 DEF Call, CreateOrder, Resize, Verify, Refund, CreatePayment, MarkPaid, MarkOverdue,
     CancelInvoice, Deliver
<1>3. ASSUME NEW r \in Request, Continue(r) \/ Throw(r), ~ResizeWrite(r), ~UpdateInvoice(r)
      PROVE  invoice' = invoice
  BY <1>3 DEF Continue, FindReusable, InsertOrder, OrderRejected, VerifyWrite, UpsertEvent,
     ReadCaptured, ReadFailed, ReadRefunded, WebhookWrite, RefundWrite, MarkPaidSum,
     InsertOffline, Sync, CheckRemaining, UpdateBooking, MarkProcessed, Throw
<1>. QED BY <1>1, <1>2, <1>3 DEF Next

LEMMA InvoiceStep ==
  ASSUME RecordsInv, [Next]_vars
  PROVE  invoice' \in [status : InvoiceStatus, total : {Advance, Total}]
<1>0. TypeOK /\ \A r \in Request : req[r] \in Handler /\ HandlerOK(req[r], gateway)
  BY DEF RecordsInv, TypeOK
<1>1. ASSUME NEW r \in Request, ResizeWrite(r)
      PROVE  invoice' \in [status : InvoiceStatus, total : {Advance, Total}]
  <2>1. req[r].amount \in {Advance, Total}
    BY <1>0, <1>1 DEF ResizeWrite, Running, HandlerOK
  <2>2. (IF req[r].advance THEN "PARTIALLY_PAID" ELSE invoice.status) \in InvoiceStatus
    BY <1>0 DEF TypeOK, InvoiceStatus
  <2>. QED BY <1>1, <2>1, <2>2 DEF ResizeWrite
<1>2. ASSUME NEW r \in Request, UpdateInvoice(r)
      PROVE  invoice' \in [status : InvoiceStatus, total : {Advance, Total}]
  <2>1. req[r].plan \in InvoiceStatus
    BY <1>0 DEF Handler
  <2>. QED BY <1>0, <1>2, <2>1 DEF UpdateInvoice, TypeOK
<1>. QED BY <1>0, <1>1, <1>2, InvoiceMoves DEF TypeOK

LEMMA EventStep ==
  ASSUME RecordsInv, [Next]_vars
  PROVE  event' \in [Event -> {"NONE", "PENDING", "PROCESSED", "FAILED"}]
<1>0. event \in [Event -> {"NONE", "PENDING", "PROCESSED", "FAILED"}]
  BY DEF RecordsInv, TypeOK
<1>1. event' = event \/ \E e, s : s \in {"PENDING", "PROCESSED", "FAILED"} /\ event' = [event EXCEPT ![e] = s]
  <2>1. CASE Environment \/ UNCHANGED vars
    BY <2>1 DEF Environment, Capture, FailAttempt, RefundAtGateway, Crash, vars
  <2>2. ASSUME NEW r \in Request, Call(r) \/ \E e \in Event : Deliver(r, e)
        PROVE  event' = event
    BY <2>2 DEF Call, CreateOrder, Resize, Verify, Refund, CreatePayment, MarkPaid, MarkOverdue,
       CancelInvoice, Deliver
  <2>3. ASSUME NEW r \in Request, UpsertEvent(r) \/ MarkProcessed(r) \/ Throw(r)
        PROVE  event' = event \/ \E e, s : s \in {"PENDING", "PROCESSED", "FAILED"} /\ event' = [event EXCEPT ![e] = s]
    <3>1. \/ event' = event
          \/ event' = [event EXCEPT ![req[r].e] = "PENDING"]
          \/ event' = [event EXCEPT ![req[r].e] = "PROCESSED"]
          \/ event' = [event EXCEPT ![req[r].e] = "FAILED"]
      BY <2>3, Zenon DEF UpsertEvent, MarkProcessed, Throw
    <3>. QED BY <3>1
  <2>4. ASSUME NEW r \in Request, Continue(r), ~(UpsertEvent(r) \/ MarkProcessed(r))
        PROVE  event' = event
    BY <2>4 DEF Continue, FindReusable, InsertOrder, OrderRejected, ResizeWrite, VerifyWrite,
       ReadCaptured, ReadFailed, ReadRefunded, WebhookWrite, RefundWrite, MarkPaidSum, InsertOffline,
       Sync, CheckRemaining, UpdateInvoice, UpdateBooking
  <2>. QED BY <2>1, <2>2, <2>3, <2>4 DEF Next
<1>. QED BY <1>0, <1>1

LEMMA FailuresStep ==
  ASSUME RecordsInv, [Next]_vars
  PROVE  /\ workload' = workload
         /\ \/ failures' = failures
            \/ failures < workload.failures /\ failures' = failures + 1
<1>1. workload' = workload
  BY DEF Next, vars
<1>2. CASE UNCHANGED vars \/ \E p \in Payment : Capture(p) \/ FailAttempt(p) \/ RefundAtGateway(p)
  BY <1>1, <1>2 DEF vars, Capture, FailAttempt, RefundAtGateway
<1>3. CASE Crash \/ \E r \in Request : Throw(r)
  BY <1>1, <1>3 DEF Crash, Throw
<1>4. ASSUME NEW r \in Request, Call(r) \/ (\E e \in Event : Deliver(r, e)) \/ Continue(r)
      PROVE  failures' = failures
  BY <1>4 DEF Call, CreateOrder, Resize, Verify, Refund, CreatePayment, MarkPaid, MarkOverdue,
     CancelInvoice, Deliver, Continue, FindReusable, InsertOrder, OrderRejected, ResizeWrite,
     VerifyWrite, UpsertEvent, ReadCaptured, ReadFailed, ReadRefunded, WebhookWrite, RefundWrite,
     MarkPaidSum, InsertOffline, Sync, CheckRemaining, UpdateInvoice, UpdateBooking, MarkProcessed
<1>5. UNCHANGED vars \/ Environment \/ \E r \in Request : Call(r) \/ (\E e \in Event : Deliver(r, e)) \/ Continue(r) \/ Throw(r)
  BY DEF Next
<1>. QED BY <1>1, <1>2, <1>3, <1>4, <1>5, Zenon DEF Environment

\* The booking moves by UpdateBooking alone, whose task stands for a capture.
LEMMA BookingStep ==
  ASSUME RecordsInv, [Next]_vars
  PROVE  awaiting' \in BOOLEAN /\ BookingMovesOnCapture'
<1>0. /\ TypeOK /\ BookingMovesOnCapture
      /\ \A r \in Request : req[r] \in Handler /\ HandlerOK(req[r], gateway)
  BY DEF RecordsInv, TypeOK, NothingBeforeCapture
<1>1. \A p \in Payment : gateway[p] \subseteq gateway'[p]
  BY <1>0, GatewayGrows
<1>2. awaiting' = awaiting \/ \E r \in Request : UpdateBooking(r)
  <2>1. CASE Environment \/ UNCHANGED vars
    BY <2>1 DEF Environment, Capture, FailAttempt, RefundAtGateway, Crash, vars
  <2>2. ASSUME NEW r \in Request, Call(r) \/ \E e \in Event : Deliver(r, e)
        PROVE  awaiting' = awaiting
    BY <2>2 DEF Call, CreateOrder, Resize, Verify, Refund, CreatePayment, MarkPaid, MarkOverdue,
       CancelInvoice, Deliver
  <2>3. ASSUME NEW r \in Request, Continue(r) \/ Throw(r), ~UpdateBooking(r)
        PROVE  awaiting' = awaiting
    BY <2>3 DEF Continue, FindReusable, InsertOrder, OrderRejected, ResizeWrite, VerifyWrite,
       UpsertEvent, ReadCaptured, ReadFailed, ReadRefunded, WebhookWrite, RefundWrite,
       MarkPaidSum, InsertOffline, Sync, CheckRemaining, UpdateInvoice, MarkProcessed, Throw
  <2>. QED BY <2>1, <2>2, <2>3 DEF Next
<1>3. CASE awaiting' = awaiting
  BY <1>0, <1>1, <1>3 DEF BookingMovesOnCapture, TypeOK
<1>4. ASSUME NEW r \in Request, UpdateBooking(r)
      PROVE  awaiting' \in BOOLEAN /\ BookingMovesOnCapture'
  <2>1. PICK p \in Payment : "captured" \in gateway[p]
    BY <1>0, <1>4 DEF UpdateBooking, At, HandlerOK
  <2>2. "captured" \in gateway'[p]
    BY <1>1, <2>1
  <2>3. awaiting' \in BOOLEAN
    BY <1>4 DEF UpdateBooking
  <2>. QED BY <2>2, <2>3 DEF BookingMovesOnCapture
<1>. QED BY <1>2, <1>3, <1>4

LEMMA GatewayStep ==
  ASSUME RecordsInv, [Next]_vars
  PROVE  gateway' \in [Payment -> SUBSET {"captured", "failed", "refunded"}]
<1>0. TypeOK
  BY DEF RecordsInv
<1>1. gateway' = gateway \/ \E p \in Payment : Capture(p) \/ FailAttempt(p) \/ RefundAtGateway(p)
  <2>1. CASE Environment \/ UNCHANGED vars
    BY <2>1 DEF Environment, Crash, vars
  <2>2. ASSUME NEW r \in Request, Call(r) \/ \E e \in Event : Deliver(r, e)
        PROVE  gateway' = gateway
    BY <2>2 DEF Call, CreateOrder, Resize, Verify, Refund, CreatePayment, MarkPaid, MarkOverdue,
       CancelInvoice, Deliver
  <2>3. ASSUME NEW r \in Request, Continue(r) \/ Throw(r)
        PROVE  gateway' = gateway
    BY <2>3 DEF Continue, FindReusable, InsertOrder, OrderRejected, ResizeWrite, VerifyWrite,
       UpsertEvent, ReadCaptured, ReadFailed, ReadRefunded, WebhookWrite, RefundWrite,
       MarkPaidSum, InsertOffline, Sync, CheckRemaining, UpdateInvoice, UpdateBooking,
       MarkProcessed, Throw
  <2>. QED BY <2>1, <2>2, <2>3 DEF Next
<1>. QED BY <1>0, <1>1 DEF TypeOK, Capture, FailAttempt, RefundAtGateway

LEMMA RecordsStep ==
  ASSUME RecordsInv, [Next]_vars
  PROVE  RecordsInv'
<1>1. failures' \in 0..workload'.failures /\ workload' \in Workloads
  BY FailuresStep, WorkloadsAssumption DEF RecordsInv, TypeOK
<1>2. TypeOK'
  BY <1>1, HandlersStep, PaymentsStep, InvoiceStep, EventStep, BookingStep, GatewayStep DEF TypeOK
<1>3. (\A r \in Request : HandlerOK(req[r], gateway))'
  BY HandlersStep
<1>4. LedgerAgrees' /\ NothingBeforeCapture'
  BY PaymentsStep, BookingStep DEF NothingBeforeCapture
<1>. QED BY <1>2, <1>3, <1>4 DEF RecordsInv

LEMMA RecordsAlways == Spec => []RecordsInv
<1>1. RecordsInv /\ [Next]_vars => RecordsInv'
  BY RecordsStep
<1>. QED BY RecordsInit, <1>1, PTL DEF Spec

\* Rows and handlers keep the shapes declared for them.
THEOREM RowsAndHandlersTyped == Spec => []TypeOK
<1>1. RecordsInv => TypeOK
  BY DEF RecordsInv
<1>. QED BY RecordsAlways, <1>1, PTL

\* A payment and its transaction tell the same story, however many handlers and
\* deliveries write them over each other, and whatever throws or dies in between.
THEOREM PaymentAndTransactionAgree == Spec => []LedgerAgrees
<1>1. RecordsInv => LedgerAgrees
  BY DEF RecordsInv
<1>. QED BY RecordsAlways, <1>1, PTL

\* No online payment is successful, and no booking stops awaiting payment, before
\* Razorpay has captured the money, whichever handler writes last.
THEOREM NothingMovesBeforeTheMoney == Spec => []NothingBeforeCapture
<1>1. RecordsInv => NothingBeforeCapture
  BY DEF RecordsInv
<1>. QED BY RecordsAlways, <1>1, PTL

-----------------------------------------------------------------------------
(* Requests one at a time *)

\* A handler that goes on, or whose query throws, was there.
LEMMA ContinuesOnlyRunning ==
  ASSUME NEW r \in Request, Continue(r) \/ Throw(r)
  PROVE  req[r] # Idle
<1>1. SUFFICES ASSUME Continue(r), req[r] = Idle PROVE FALSE
  BY DEF Throw
<1>2. Idle.op = "idle" /\ Idle.at = "idle"
  BY DEF Idle
<1>. QED BY <1>1, <1>2 DEF Continue, FindReusable, InsertOrder, OrderRejected, ResizeWrite,
  VerifyWrite, UpsertEvent, ReadCaptured, ReadFailed, ReadRefunded, Processing, Running,
  WebhookWrite, RefundWrite, MarkPaidSum, InsertOffline, Sync, CheckRemaining, UpdateInvoice,
  UpdateBooking, MarkProcessed, At

LEMMA StartsOnlyIdle ==
  ASSUME NEW r \in Request, ~workload.overlap, Call(r) \/ \E e \in Event : Deliver(r, e)
  PROVE  Quiet /\ UNCHANGED <<invoice, payment>>
<1>1. CASE \E op \in {"verify", "verifyOnly"}, p \in Payment, valid \in BOOLEAN : Verify(r, op, p, valid)
  BY <1>1 DEF Verify, Begin
<1>2. CASE \E e \in Event : Deliver(r, e)
  BY <1>2 DEF Deliver, Begin
<1>3. CASE (\E type \in workload.types : CreateOrder(r, type)) \/ CancelInvoice(r) \/ MarkPaid(r) \/ MarkOverdue(r)
  BY <1>3 DEF CreateOrder, CancelInvoice, MarkPaid, MarkOverdue, Begin
<1>4. CASE \E t \in {Advance, Total} : Resize(r, t)
  BY <1>4 DEF Resize, Begin
<1>5. CASE (\E p \in Payment : Refund(r, p)) \/ \E amount \in Amounts : CreatePayment(r, amount)
  BY <1>5 DEF Refund, CreatePayment, Begin
<1>. QED BY <1>1, <1>2, <1>3, <1>4, <1>5 DEF Call

\* The steps there are when requests come one at a time: none of a handler, the
\* death of the process, the start of one handler, or a step of the only one.
LEMMA SerialSteps ==
  ASSUME RecordsInv, [Next]_vars, ~workload.overlap, Alone
  PROVE  \/ UNCHANGED <<invoice, payment, req>>
         \/ /\ UNCHANGED <<invoice, payment>> /\ failures' # 0
            /\ req' = [s \in Request |-> Idle]
         \/ \E r \in Request :
              /\ \A s \in Request \ {r} : req[s] = Idle /\ req'[s] = Idle
              /\ \/ Quiet /\ UNCHANGED <<invoice, payment>>
                    /\ (Call(r) \/ \E e \in Event : Deliver(r, e))
                 \/ req[r] # Idle /\ Continue(r)
                 \/ req[r] # Idle /\ Throw(r) /\ failures' # 0
<1>0. TypeOK /\ req \in [Request -> Handler] /\ failures \in Nat
  BY WorkloadsAssumption DEF RecordsInv, TypeOK
<1>1. CASE UNCHANGED vars \/ \E p \in Payment : Capture(p) \/ FailAttempt(p) \/ RefundAtGateway(p)
  BY <1>1 DEF vars, Capture, FailAttempt, RefundAtGateway
<1>2. CASE Crash
  BY <1>0, <1>2 DEF Crash
<1>3. ASSUME NEW r \in Request, Call(r) \/ (\E e \in Event : Deliver(r, e))
      PROVE  /\ \A s \in Request \ {r} : req[s] = Idle /\ req'[s] = Idle
             /\ Quiet /\ UNCHANGED <<invoice, payment>>
  <2>1. Quiet /\ UNCHANGED <<invoice, payment>>
    BY <1>3, StartsOnlyIdle
  <2>2. PICK h : Becomes(r, h)
    BY <1>3, StartsHandler
  <2>. QED BY <1>0, <2>1, <2>2 DEF Quiet, Becomes
<1>4. ASSUME NEW r \in Request, Continue(r) \/ Throw(r)
      PROVE  /\ \A s \in Request \ {r} : req[s] = Idle /\ req'[s] = Idle
             /\ req[r] # Idle
  <2>1. req[r] # Idle
    BY <1>4, ContinuesOnlyRunning
  <2>2. PICK h : Becomes(r, h)
    BY <1>4, ContinuesHandler, ThrowsHandler
  <2>. QED BY <1>0, <2>1, <2>2 DEF Alone, Becomes
<1>5. ASSUME NEW r \in Request, Throw(r)
      PROVE  failures' # 0
  BY <1>0, <1>5 DEF Throw
<1>6. UNCHANGED vars \/ Environment \/ \E r \in Request : Call(r) \/ (\E e \in Event : Deliver(r, e)) \/ Continue(r) \/ Throw(r)
  BY DEF Next
<1>7. CASE \E r \in Request : Call(r) \/ (\E e \in Event : Deliver(r, e)) \/ Continue(r) \/ Throw(r)
  <2>1. PICK r \in Request : Call(r) \/ (\E e \in Event : Deliver(r, e)) \/ Continue(r) \/ Throw(r)
    BY <1>7
  <2>2. CASE Call(r) \/ (\E e \in Event : Deliver(r, e))
    BY <1>3, <2>2, Zenon
  <2>3. CASE Continue(r) \/ Throw(r)
    BY <1>4, <1>5, <2>3, Zenon
  <2>. QED BY <2>1, <2>2, <2>3
<1>. QED BY <1>1, <1>2, <1>6, <1>7 DEF Environment

LEMMA AloneStep ==
  ASSUME RecordsInv, [Next]_vars, Alone
  PROVE  Alone'
<1>1. SUFFICES ASSUME ~workload.overlap
               PROVE  \A r, s \in Request : req'[r] # Idle /\ req'[s] # Idle => r = s
  BY FailuresStep DEF Alone
<1>2. CASE UNCHANGED <<invoice, payment, req>>
  BY <1>1, <1>2 DEF Alone
<1>3. CASE req' = [s \in Request |-> Idle]
  BY <1>3
<1>4. ASSUME NEW r \in Request, \A s \in Request \ {r} : req[s] = Idle /\ req'[s] = Idle
      PROVE  \A q, s \in Request : req'[q] # Idle /\ req'[s] # Idle => q = s
  BY <1>4
<1>. QED BY <1>1, <1>2, <1>3, <1>4, SerialSteps

\* Only an order opens a payment.
LEMMA OpensByOrder ==
  ASSUME RecordsInv, NEW r \in Request, Continue(r), ~InsertOrder(r)
  PROVE  \A p \in Payment : payment'[p].status = "PENDING" => payment'[p] = payment[p]
<1>0. TypeOK /\ payment \in [Payment -> Row] /\ HandlerOK(req[r], gateway)
  BY DEF RecordsInv, TypeOK
<1>1. CASE InsertOffline(r)
  <2>1. PICK p \in Unused :
          payment' = [payment EXCEPT ![p] = [NoRow EXCEPT !.status = "SUCCESS", !.amount = req[r].amount]]
    BY <1>1 DEF InsertOffline
  <2>2. [NoRow EXCEPT !.status = "SUCCESS", !.amount = req[r].amount].status = "SUCCESS"
    BY NoRowType DEF NoRow
  <2>. QED BY <1>0, <2>1, <2>2 DEF Unused
<1>2. CASE VerifyWrite(r)
  <2>. DEFINE p == req[r].p
  <2>1. p \in Payment
    BY <1>0, <1>2 DEF VerifyWrite, HandlerOK
  <2>2. \/ payment' = [payment EXCEPT ![p] = [payment[p] EXCEPT !.status = "SUCCESS", !.txn = "PAID",
                                                                !.razorpay = "capture"]]
        \/ payment' = [payment EXCEPT ![p] = [payment[p] EXCEPT !.status = "FAILED", !.txn = "FAILED",
                                                                !.razorpay = "attempt"]]
    BY <1>0, <1>2, <2>1 DEF VerifyWrite
  <2>. HIDE DEF p
  <2>3. /\ [payment[p] EXCEPT !.status = "SUCCESS", !.txn = "PAID", !.razorpay = "capture"].status = "SUCCESS"
        /\ [payment[p] EXCEPT !.status = "FAILED", !.txn = "FAILED", !.razorpay = "attempt"].status = "FAILED"
    BY <1>0, <2>1 DEF Row
  <2>. QED BY <1>0, <2>1, <2>2, <2>3
<1>3. CASE WebhookWrite(r)
  <2>. DEFINE p == req[r].p
              k == req[r].e.kind
  <2>1. /\ p \in Payment
        /\ k \in {"payment.captured", "order.paid", "payment.failed", "refund.processed"}
    BY <1>0, <1>3 DEF WebhookWrite, Running, HandlerOK, Event
  <2>2. payment' = [payment EXCEPT ![p] = AfterEvent(k, payment[p])]
    BY <1>3 DEF WebhookWrite
  <2>. HIDE DEF p, k
  <2>3. payment[p] \in Row
    BY <1>0, <2>1
  <2>4. AfterEvent(k, payment[p]).status \in {"SUCCESS", "FAILED", "REFUNDED"}
    <3>1. CASE k \in {"payment.captured", "order.paid"}
      BY <2>3, <3>1 DEF AfterEvent, Row
    <3>2. CASE k = "payment.failed"
      BY <2>3, <3>2 DEF AfterEvent, Row
    <3>3. CASE k = "refund.processed"
      BY <2>3, <3>3 DEF AfterEvent, Row
    <3>. QED BY <2>1, <3>1, <3>2, <3>3
  <2>. QED BY <1>0, <2>1, <2>2, <2>4
<1>4. CASE RefundWrite(r)
  <2>. DEFINE p == req[r].p
  <2>1. p \in Payment
    BY <1>0, <1>4 DEF RefundWrite, Running, HandlerOK
  <2>2. payment' = [payment EXCEPT ![p] = [payment[p] EXCEPT !.status = "REFUNDED"]]
    BY <1>0, <1>4, <2>1 DEF RefundWrite
  <2>. HIDE DEF p
  <2>3. [payment[p] EXCEPT !.status = "REFUNDED"].status = "REFUNDED"
    BY <1>0, <2>1 DEF Row
  <2>. QED BY <1>0, <2>1, <2>2, <2>3
<1>5. CASE ~(InsertOffline(r) \/ VerifyWrite(r) \/ WebhookWrite(r) \/ RefundWrite(r))
  BY <1>5 DEF Continue, FindReusable, OrderRejected, ResizeWrite, UpsertEvent, ReadCaptured,
     ReadFailed, ReadRefunded, MarkPaidSum, Sync, CheckRemaining, UpdateInvoice, UpdateBooking,
     MarkProcessed
<1>. QED BY <1>1, <1>2, <1>3, <1>4, <1>5

\* A handler comes to insert an order only from the look for an open one.
LEMMA InsertsAfterLooking ==
  ASSUME RecordsInv, NEW r \in Request, Continue(r) \/ Throw(r),
         req'[r].op = "order", req'[r].at = "insert"
  PROVE  /\ Reusable(req[r].type, req[r].amount) = {} /\ payment' = payment
         /\ req'[r].type = req[r].type /\ req'[r].amount = req[r].amount
<1>0. TypeOK /\ req \in [Request -> Handler]
  BY DEF RecordsInv, TypeOK
<1>1. Idle.at # "insert"
  BY DEF Idle
<1>2. ASSUME NEW todo, Then(r, todo)
      PROVE  FALSE
  BY <1>0, <1>1, <1>2 DEF Then, Handler
<1>3. ~Reply(r)
  BY <1>0, <1>1 DEF Reply
<1>4. ASSUME Continue(r), ~FindReusable(r)
      PROVE  FALSE
  <2>1. ASSUME NEW at, at # "insert", Await(r, at)
        PROVE  FALSE
    BY <1>0, <2>1 DEF Await, Handler
  <2>2. ~UpsertEvent(r)
    BY <1>3, <2>1 DEF UpsertEvent
  <2>3. ~ReadFailed(r) /\ ~ReadRefunded(r)
    BY <1>2, <2>1 DEF ReadFailed, ReadRefunded
  <2>4. ~ReadCaptured(r)
    BY <1>0, <1>2 DEF ReadCaptured, Handler
  <2>5. ~MarkPaidSum(r)
    BY <1>0, <1>2 DEF MarkPaidSum, Running, Handler
  <2>6. ~Sync(r) /\ ~CheckRemaining(r)
    BY <1>0, <1>2 DEF Sync, CheckRemaining, At, Plan, Finish, Handler
  <2>. QED BY <1>2, <1>3, <1>4, <2>2, <2>3, <2>4, <2>5, <2>6 DEF Continue, InsertOrder, OrderRejected,
      ResizeWrite, VerifyWrite, WebhookWrite, RefundWrite, InsertOffline, UpdateInvoice, UpdateBooking,
      MarkProcessed, Finish
<1>5. ~Throw(r)
  BY <1>2 DEF Throw
<1>6. CASE FindReusable(r)
  <2>1. Reusable(req[r].type, req[r].amount) = {} /\ Await(r, "insert") /\ payment' = payment
    BY <1>3, <1>6 DEF FindReusable
  <2>2. req'[r].amount = req[r].amount /\ req'[r].type = req[r].type
    BY <1>0, <2>1 DEF Await, Handler
  <2>. QED BY <2>1, <2>2
<1>. QED BY <1>4, <1>5, <1>6

LEMMA OrderStep ==
  ASSUME RecordsInv, RecordsInv', [Next]_vars, OrderInv
  PROVE  OrderInv'
<1>1. SUFFICES ASSUME ~workload.overlap, ~workload'.overlap PROVE OrderInv'
  BY FailuresStep DEF OrderInv
<1>. DEFINE Distinct == \A p, q \in Payment :
                         /\ payment[p].status = "PENDING"
                         /\ payment[q].status = "PENDING"
                         /\ payment[p].type = payment[q].type
                         /\ payment[p].amount = payment[q].amount
                         => p = q
            Clear == \A r \in Request :
                       req[r].op = "order" /\ req[r].at = "insert" => Reusable(req[r].type, req[r].amount) = {}
<1>2. Alone /\ Alone' /\ Distinct /\ Clear /\ TypeOK /\ LedgerAgrees
  BY <1>1, AloneStep DEF OrderInv, OneOpenOrder, RecordsInv
<1>3. SUFFICES Distinct' /\ Clear'
  BY <1>2 DEF OrderInv, OneOpenOrder
<1>4. CASE UNCHANGED <<invoice, payment, req>>
  BY <1>2, <1>4 DEF Reusable
<1>5. Idle.op # "order"
  BY DEF Idle
<1>6. CASE payment' = payment /\ req' = [s \in Request |-> Idle]
  BY <1>2, <1>5, <1>6
<1>7. ASSUME NEW r \in Request, \A s \in Request \ {r} : req'[s] = Idle,
             Quiet, payment' = payment, Call(r) \/ \E e \in Event : Deliver(r, e)
      PROVE  Distinct' /\ Clear'
  <2>1. req'[r].op = "order" => req'[r].at # "insert"
    <3>0. req \in [Request -> Handler]
      BY <1>2 DEF TypeOK
    <3>1. CASE \E type \in workload.types : CreateOrder(r, type)
      BY <3>0, <3>1 DEF CreateOrder, Begin, Idle
    <3>2. CASE \E t \in {Advance, Total} : Resize(r, t)
      BY <3>0, <3>2 DEF Resize, Begin, Idle
    <3>3. ASSUME NEW op \in {"verify", "verifyOnly"}, NEW p \in Payment, NEW valid \in BOOLEAN,
                 Verify(r, op, p, valid)
          PROVE  req'[r].op # "order"
      <4>. DEFINE h(x) == [Idle EXCEPT !.op = op, !.at = "write", !.p = p, !.valid = valid, !.advance = x]
      <4>1. \A x : h(x).op = op /\ [h(x) EXCEPT !.at = "tasks", !.todo = {"booking"}].op = op
        BY DEF Idle
      <4>. HIDE DEF h
      <4>2. \E x : req' = [req EXCEPT ![r] = h(x)] \/ req' = [req EXCEPT ![r] = [h(x) EXCEPT !.at = "tasks", !.todo = {"booking"}]]
        BY <3>3 DEF Verify, Begin, h
      <4>. QED BY <3>0, <4>1, <4>2
    <3>4. CASE \E p \in Payment : Refund(r, p)
      BY <3>0, <3>4 DEF Refund, Begin, Idle
    <3>5. CASE \E amount \in Amounts : CreatePayment(r, amount)
      BY <3>0, <3>5 DEF CreatePayment, Begin, Idle
    <3>6. CASE MarkPaid(r)
      BY <3>0, <3>6 DEF MarkPaid, Begin, Idle
    <3>7. CASE MarkOverdue(r) \/ CancelInvoice(r)
      BY <3>0, <3>7 DEF MarkOverdue, CancelInvoice, Begin, Idle
    <3>8. CASE \E e \in Event : Deliver(r, e)
      BY <3>0, <3>8 DEF Deliver, Begin, Idle
    <3>. QED BY <1>7, <3>1, <3>2, <3>3, <3>4, <3>5, <3>6, <3>7, <3>8 DEF Call
  <2>. QED BY <1>2, <1>5, <1>7, <2>1
<1>8. ASSUME NEW r \in Request, \A s \in Request \ {r} : req'[s] = Idle, Continue(r) \/ Throw(r)
      PROVE  Distinct' /\ Clear'
  <2>1. Clear'
    <3>1. ASSUME req'[r].op = "order", req'[r].at = "insert"
          PROVE  Reusable(req[r].type, req[r].amount)' = {}
      BY <1>8, <3>1, InsertsAfterLooking DEF Reusable
    <3>2. \A s \in Request \ {r} : req'[s].op # "order"
      BY <1>5, <1>8
    <3>. QED BY <3>1, <3>2
  <2>2. CASE Throw(r)
    BY <1>2, <2>1, <2>2 DEF Throw
  <2>3. CASE Continue(r) /\ ~InsertOrder(r)
    BY <1>2, <2>1, <2>3, OpensByOrder
  <2>4. CASE InsertOrder(r)
    <3>1. /\ req[r].op = "order" /\ req[r].at = "insert"
          /\ \E p \in Unused :
               payment' = [payment EXCEPT ![p] = [NoRow EXCEPT !.status = "PENDING", !.txn = "CREATED",
                           !.type = req[r].type, !.amount = req[r].amount]]
      BY <2>4 DEF InsertOrder, Running
    <3>2. PICK p \in Payment :
               payment' = [payment EXCEPT ![p] = [NoRow EXCEPT !.status = "PENDING", !.txn = "CREATED",
                           !.type = req[r].type, !.amount = req[r].amount]]
      BY <3>1 DEF Unused
    <3>3. \A q \in Payment : payment[q].status = "PENDING" =>
            payment[q].type # req[r].type \/ payment[q].amount # req[r].amount
      BY <1>2, <3>1 DEF LedgerAgrees, Reusable
    <3>4. payment \in [Payment -> Row]
      BY <1>2 DEF TypeOK
    <3>. DEFINE row == [NoRow EXCEPT !.status = "PENDING", !.txn = "CREATED",
                                     !.type = req[r].type, !.amount = req[r].amount]
    <3>5. row.amount = req[r].amount /\ row.type = req[r].type
      BY DEF NoRow
    <3>6. \A q \in Payment : q # p => payment'[q] = payment[q]
      BY <3>2, <3>4
    <3>7. payment'[p].amount = req[r].amount /\ payment'[p].type = req[r].type
      BY <3>2, <3>4, <3>5
    <3>. QED BY <1>2, <2>1, <3>3, <3>6, <3>7
  <2>. QED BY <1>8, <2>2, <2>3, <2>4
<1>. QED BY <1>1, <1>2, <1>4, <1>6, <1>7, <1>8, SerialSteps

-----------------------------------------------------------------------------
(* The invoice follows its payments *)

\* The handler of r, if there is one, is on its way to bring the invoice in line.
Follows(r) == IF req[r] = Idle THEN InvoiceShows(invoice.status) ELSE Synchronises(req[r])

\* Less money may have to be shown, not more.
LEMMA ShowsLess ==
  ASSUME NEW s, NEW paid \in Int, NEW less \in Int, NEW total \in Int, less <= paid,
         Shows(s, paid, total)
  PROVE  Shows(s, less, total)
BY DEF Shows

LEMMA ShowsSame ==
  ASSUME UNCHANGED <<payment, invoice>>
  PROVE  \A s : Shows(s, PaidAmount, invoice.total) = Shows(s, PaidAmount', invoice'.total)
<1>1. PaidAmount' = PaidAmount
  BY DEF PaidAmount, SumOf, Succeeded
<1>. QED BY <1>1

LEMMA FollowsReply ==
  ASSUME TypeOK, NEW r \in Request, Reply(r), Shows(invoice'.status, PaidAmount', invoice'.total)
  PROVE  Follows(r)'
<1>1. req'[r] = Idle
  BY DEF Reply, TypeOK
<1>. QED BY <1>1 DEF Follows, InvoiceShows

LEMMA FollowsAwait ==
  ASSUME TypeOK, NEW r \in Request, Synchronises(req[r]), NEW at \in Stages \ {"tasks"}, Await(r, at),
         req[r].at # "tasks", UNCHANGED <<payment, invoice>>,
         at = "write" => req[r].op \notin {"verify", "verifyOnly"}
  PROVE  Follows(r)'
<1>1. Shows(invoice'.status, PaidAmount', invoice'.total)
  BY ShowsSame DEF Synchronises, InvoiceShows
<1>2. /\ req'[r].at = at /\ req'[r].op = req[r].op /\ req'[r].plan = req[r].plan
      /\ req'[r].todo = req[r].todo
  BY DEF Await, TypeOK, Handler
<1>. QED BY <1>1, <1>2 DEF Follows, InvoiceShows, Synchronises

LEMMA FollowsThen ==
  ASSUME TypeOK, NEW r \in Request, Synchronises(req[r]), NEW todo \in SUBSET Task, Then(r, todo),
         {"sync", "remaining"} \intersect todo = {} =>
           Shows(IF "invoice" \in todo THEN req[r].plan ELSE invoice'.status, PaidAmount', invoice'.total),
         ~({"sync", "remaining"} \subseteq todo),
         "invoice" \in todo => {"sync", "remaining"} \intersect todo = {},
         req[r].op = "markPaid" => todo \subseteq {"invoice"}
  PROVE  Follows(r)'
<1>0. req \in [Request -> Handler]
  BY DEF TypeOK
<1>1. CASE todo = {}
  <2>1. req'[r] = Idle
    BY <1>0, <1>1 DEF Then
  <2>. QED BY <1>1, <2>1 DEF Follows, InvoiceShows
<1>2. CASE todo # {}
  <2>1. /\ req'[r].at = "tasks" /\ req'[r].op = req[r].op /\ req'[r].plan = req[r].plan
        /\ req'[r].todo = todo
    BY <1>0, <1>2 DEF Then, Handler
  <2>2. req'[r] # Idle
    BY <2>1 DEF Idle
  <2>3. (\/ {"sync", "remaining"} \intersect todo # {}
         \/ InvoiceShows(IF "invoice" \in req[r].todo THEN req[r].plan ELSE invoice.status)')
    BY <2>1 DEF InvoiceShows
  <2>4. Synchronises(req[r])'
    BY <2>1, <2>3 DEF Synchronises
  <2>. QED BY <2>2, <2>4 DEF Follows
<1>. QED BY <1>1, <1>2

LEMMA FollowsPlan ==
  ASSUME TypeOK, NEW r \in Request, Synchronises(req[r]), NEW task \in {"sync", "remaining"},
         NEW s \in InvoiceStatus, At(r, task), Plan(r, task, s),
         Shows(s, PaidAmount', invoice'.total)
  PROVE  Follows(r)'
<1>0. req \in [Request -> Handler]
  BY DEF TypeOK
<1>1. /\ req'[r].at = "tasks" /\ req'[r].op = req[r].op /\ req'[r].plan = s
      /\ req'[r].todo = (req[r].todo \ {task}) \union {"invoice"}
  BY <1>0 DEF Plan, At, Handler
<1>2. req'[r].todo \intersect {"sync", "remaining"} = {}
  BY <1>1 DEF Synchronises, At
<1>3. req[r].op # "markPaid" /\ req[r].op # "resize"
  BY DEF Synchronises, At
<1>4. InvoiceShows(IF "invoice" \in req[r].todo THEN req[r].plan ELSE invoice.status)'
  BY <1>1 DEF InvoiceShows
<1>5. Synchronises(req[r])'
  BY <1>1, <1>2, <1>3, <1>4 DEF Synchronises
<1>. QED BY <1>1, <1>5 DEF Follows, Idle

\* Payments become less only by a failed verification, a failed payment or a refund.
LEMMA PaidFalls ==
  ASSUME TypeOK, TypeOK', NEW p \in Payment, NEW row, payment' = [payment EXCEPT ![p] = row],
         row.status # "SUCCESS"
  PROVE  PaidAmount' \in Nat /\ PaidAmount \in Nat /\ PaidAmount' <= PaidAmount
<1>1. \A q \in Payment : payment'[q].status = "SUCCESS" =>
           payment[q].status = "SUCCESS" /\ payment'[q].amount = payment[q].amount
  BY DEF TypeOK
<1>. QED BY <1>1, PaidShrinks

LEMMA FollowsContinue ==
  ASSUME RecordsInv, RecordsInv', NEW r \in Request, Continue(r), Synchronises(req[r])
  PROVE  Follows(r)'
<1>0. /\ TypeOK /\ TypeOK' /\ req[r] \in Handler /\ HandlerOK(req[r], gateway)
      /\ invoice.total \in Int /\ payment \in [Payment -> Row]
  BY AmountsAssumption DEF RecordsInv, TypeOK
<1>1. CASE FindReusable(r)
  <2>1. UNCHANGED <<payment, invoice>> /\ req[r].at = "find"
    BY <1>1 DEF FindReusable, Running
  <2>2. Shows(invoice'.status, PaidAmount', invoice'.total)
    BY <2>1, ShowsSame DEF Synchronises, InvoiceShows
  <2>3. CASE Reply(r)
    BY <1>0, <2>2, <2>3, FollowsReply
  <2>4. CASE Await(r, "insert")
    BY <1>0, <2>1, <2>4, FollowsAwait DEF Stages
  <2>. QED BY <1>1, <2>3, <2>4 DEF FindReusable
<1>2. CASE InsertOrder(r)
  <2>1. PICK p \in Payment :
          /\ payment[p] = NoRow
          /\ payment' = [payment EXCEPT ![p] = [NoRow EXCEPT !.status = "PENDING", !.txn = "CREATED",
                           !.type = req[r].type, !.amount = req[r].amount]]
    BY <1>2 DEF InsertOrder, Unused
  <2>2. [NoRow EXCEPT !.status = "PENDING", !.txn = "CREATED",
                           !.type = req[r].type, !.amount = req[r].amount].status = "PENDING"
    BY DEF NoRow
  <2>3. PaidAmount' \in Nat /\ PaidAmount \in Nat /\ PaidAmount' <= PaidAmount
    BY <1>0, <2>1, <2>2, PaidFalls
  <2>4. invoice' = invoice /\ Reply(r) /\ req[r].at = "insert"
    BY <1>2 DEF InsertOrder, Running
  <2>5. Shows(invoice'.status, PaidAmount', invoice'.total)
    BY <1>0, <2>3, <2>4, ShowsLess DEF Synchronises, InvoiceShows
  <2>. QED BY <1>0, <2>4, <2>5, FollowsReply
<1>3. CASE OrderRejected(r)
  <2>1. UNCHANGED <<payment, invoice>> /\ req[r].at = "insert" /\ Reply(r)
    BY <1>3 DEF OrderRejected, Running
  <2>2. Shows(invoice'.status, PaidAmount', invoice'.total)
    BY <2>1, ShowsSame DEF Synchronises, InvoiceShows
  <2>. QED BY <1>0, <2>1, <2>2, FollowsReply
<1>4. CASE ResizeWrite(r)
  BY <1>4 DEF ResizeWrite, Running, Synchronises
<1>5. CASE VerifyWrite(r)
  <2>1. /\ req[r].op \in {"verify", "verifyOnly"} /\ req[r].at = "write" /\ invoice' = invoice
        /\ payment[req[r].p].status = "PENDING" /\ req[r].p \in Payment
    BY <1>0, <1>5 DEF VerifyWrite, Synchronises, HandlerOK
  <2>2. CASE req[r].valid
    <3>. DEFINE todo == {"sync"} \union IF req[r].advance THEN {"booking"} ELSE {}
    <3>1. Then(r, todo) /\ todo \in SUBSET Task /\ "sync" \in todo /\ "remaining" \notin todo
          /\ "invoice" \notin todo
      BY <1>5, <2>2 DEF VerifyWrite, Task
    <3>. HIDE DEF todo
    <3>. QED BY <1>0, <2>1, <3>1, FollowsThen
  <2>3. CASE ~req[r].valid
    <3>. DEFINE p == req[r].p
    <3>1. payment' = [payment EXCEPT ![p] = [payment[p] EXCEPT !.status = "FAILED", !.txn = "FAILED",
                                                               !.razorpay = "attempt"]]
          /\ Reply(r)
      BY <1>0, <1>5, <2>1, <2>3 DEF VerifyWrite
    <3>2. [payment[p] EXCEPT !.status = "FAILED", !.txn = "FAILED", !.razorpay = "attempt"].status = "FAILED"
      BY <1>0, <2>1 DEF Row
    <3>3. p \in Payment
      BY <2>1
    <3>. HIDE DEF p
    <3>4. PaidAmount' \in Nat /\ PaidAmount \in Nat /\ PaidAmount' <= PaidAmount
      BY <1>0, <3>1, <3>2, <3>3, PaidFalls
    <3>5. Shows(invoice'.status, PaidAmount', invoice'.total)
      BY <1>0, <2>1, <3>4, ShowsLess DEF Synchronises, InvoiceShows
    <3>. QED BY <1>0, <3>1, <3>5, FollowsReply
  <2>. QED BY <2>2, <2>3
<1>6. CASE UpsertEvent(r)
  <2>1. /\ UNCHANGED <<payment, invoice>> /\ req[r].at = "upsert" /\ req[r].op = "webhook"
        /\ Reply(r) \/ Await(r, "dispatch")
    BY <1>6 DEF UpsertEvent, Running
  <2>2. Shows(invoice'.status, PaidAmount', invoice'.total)
    BY <2>1, ShowsSame DEF Synchronises, InvoiceShows
  <2>. QED BY <1>0, <2>1, <2>2, FollowsReply, FollowsAwait DEF Stages
<1>7. ASSUME Then(r, {"done"}), req[r].at = "dispatch", req[r].op = "webhook", UNCHANGED <<payment, invoice>>
      PROVE  Follows(r)'
  <2>1. Shows(invoice'.status, PaidAmount', invoice'.total)
    BY <1>7, ShowsSame DEF Synchronises, InvoiceShows
  <2>. QED BY <1>0, <1>7, <2>1, FollowsThen DEF Task
<1>8. CASE ReadCaptured(r)
  <2>1. /\ UNCHANGED <<payment, invoice>> /\ req[r].at = "dispatch" /\ req[r].op = "webhook"
        /\ \/ Then(r, {"done"})
           \/ req' = [req EXCEPT ![r].at = "write", ![r].advance = awaiting]
    BY <1>8 DEF ReadCaptured, Processing, Running
  <2>2. CASE req' = [req EXCEPT ![r].at = "write", ![r].advance = awaiting]
    <3>1. Shows(invoice'.status, PaidAmount', invoice'.total)
      BY <2>1, ShowsSame DEF Synchronises, InvoiceShows
    <3>2. req'[r] = [req[r] EXCEPT !.at = "write", !.advance = awaiting]
      BY <1>0, <2>2 DEF TypeOK
    <3>3. awaiting \in BOOLEAN
      BY <1>0 DEF TypeOK
    <3>4. req'[r].at = "write" /\ req'[r].op = "webhook"
      BY <1>0, <2>1, <3>2, <3>3 DEF Handler
    <3>. QED BY <3>1, <3>4 DEF Follows, InvoiceShows, Synchronises
  <2>. QED BY <1>7, <2>1, <2>2
<1>9. CASE ReadFailed(r) \/ ReadRefunded(r)
  <2>1. /\ UNCHANGED <<payment, invoice>> /\ req[r].at = "dispatch" /\ req[r].op = "webhook"
        /\ Then(r, {"done"}) \/ Await(r, "write")
    BY <1>9 DEF ReadFailed, ReadRefunded, Processing, Running
  <2>. QED BY <1>0, <1>7, <2>1, FollowsAwait DEF Stages
<1>10. CASE WebhookWrite(r)
  <2>. DEFINE p == req[r].p
              k == req[r].e.kind
  <2>1. /\ p \in Payment /\ req[r].op = "webhook" /\ req[r].at = "write" /\ invoice' = invoice
        /\ k \in {"payment.captured", "order.paid", "payment.failed", "refund.processed"}
        /\ Then(r, TasksAfterEvent(k))
        /\ payment' = [payment EXCEPT ![p] = AfterEvent(k, payment[p])]
    BY <1>0, <1>10 DEF WebhookWrite, Running, HandlerOK, Event
  <2>. HIDE DEF p, k
  <2>2. CASE k \in {"payment.captured", "order.paid"}
    <3>1. TasksAfterEvent(k) = {"sync", "booking", "done"}
      BY <2>2 DEF TasksAfterEvent
    <3>. QED BY <1>0, <2>1, <3>1, FollowsThen DEF Task
  <2>3. CASE k = "payment.failed"
    <3>1. TasksAfterEvent(k) = {"done"}
      BY <2>3 DEF TasksAfterEvent
    <3>2. AfterEvent(k, payment[p]).status = "FAILED"
      <4>1. payment[p] \in Row
        BY <1>0, <2>1
      <4>. QED BY <2>3, <4>1 DEF AfterEvent, Row
    <3>3. PaidAmount' \in Nat /\ PaidAmount \in Nat /\ PaidAmount' <= PaidAmount
      BY <1>0, <2>1, <3>2, PaidFalls
    <3>4. Shows(invoice'.status, PaidAmount', invoice'.total)
      BY <1>0, <2>1, <3>3, ShowsLess DEF Synchronises, InvoiceShows
    <3>. QED BY <1>0, <2>1, <3>1, <3>4, FollowsThen DEF Task
  <2>4. CASE k = "refund.processed"
    <3>1. TasksAfterEvent(k) = {"remaining", "done"}
      BY <2>4 DEF TasksAfterEvent
    <3>. QED BY <1>0, <2>1, <3>1, FollowsThen DEF Task
  <2>. QED BY <2>1, <2>2, <2>3, <2>4
<1>11. CASE RefundWrite(r)
  BY <1>0, <1>11, FollowsThen DEF RefundWrite, Running, Task
<1>12. CASE MarkPaidSum(r)
  <2>1. /\ req[r].op = "markPaid" /\ req[r].at = "sum" /\ UNCHANGED <<payment, invoice>>
        /\ req[r].plan = "PAID"
        /\ \/ req' = [req EXCEPT ![r].at = "insert", ![r].amount = req[r].amount - PaidAmount]
           \/ Then(r, {"invoice"})
    BY <1>12 DEF MarkPaidSum, Running, Synchronises
  <2>2. CASE Then(r, {"invoice"})
    <3>1. Shows("PAID", PaidAmount', invoice'.total)
      BY DEF Shows
    <3>. QED BY <1>0, <2>1, <2>2, <3>1, FollowsThen DEF Task
  <2>3. CASE req' = [req EXCEPT ![r].at = "insert", ![r].amount = req[r].amount - PaidAmount]
    <3>1. Shows(invoice'.status, PaidAmount', invoice'.total)
      BY <2>1, ShowsSame DEF Synchronises, InvoiceShows
    <3>. DEFINE n == req[r].amount - PaidAmount
    <3>2. n \in Int
      BY <1>0, PaidType DEF Handler
    <3>. HIDE DEF n
    <3>3. req'[r] = [req[r] EXCEPT !.at = "insert", !.amount = n]
      BY <1>0, <2>3 DEF TypeOK, n
    <3>4. /\ req'[r].at = "insert" /\ req'[r].op = "markPaid" /\ req'[r].plan = "PAID"
          /\ req'[r].todo = req[r].todo
      BY <1>0, <2>1, <3>2, <3>3 DEF Handler
    <3>. QED BY <2>1, <3>1, <3>4 DEF Follows, InvoiceShows, Synchronises
  <2>. QED BY <2>1, <2>2, <2>3
<1>13. CASE InsertOffline(r)
  <2>1. /\ req[r].op \in {"offline", "markPaid"}
        /\ Then(r, IF req[r].op = "offline" THEN {"sync"} ELSE {"invoice"})
    BY <1>13 DEF InsertOffline
  <2>2. CASE req[r].op = "offline"
    BY <1>0, <2>1, <2>2, FollowsThen DEF Task
  <2>3. CASE req[r].op = "markPaid"
    <3>1. Shows(req[r].plan, PaidAmount', invoice'.total)
      BY <2>3 DEF Shows, Synchronises
    <3>. QED BY <1>0, <2>1, <2>3, <3>1, FollowsThen DEF Task
  <2>. QED BY <2>1, <2>2, <2>3
<1>14. ASSUME NEW task \in Task \ {"invoice"}, At(r, task), Finish(r, task), UNCHANGED <<payment, invoice>>,
              task = "sync" => InvoiceShows(invoice.status), task # "remaining"
       PROVE  Follows(r)'
  <2>. DEFINE todo == req[r].todo \ {task}
  <2>1. todo \in SUBSET Task
    BY <1>0 DEF Handler
  <2>2. {"sync", "remaining"} \intersect todo = {} =>
          InvoiceShows(IF "invoice" \in todo THEN req[r].plan ELSE invoice.status)
    BY <1>14 DEF Synchronises, At
  <2>3. {"sync", "remaining"} \intersect todo = {} =>
          Shows(IF "invoice" \in todo THEN req[r].plan ELSE invoice'.status, PaidAmount', invoice'.total)
    BY <1>14, <2>2, ShowsSame DEF InvoiceShows
  <2>4. /\ ~({"sync", "remaining"} \subseteq todo)
        /\ "invoice" \in todo => {"sync", "remaining"} \intersect todo = {}
        /\ req[r].op = "markPaid" => todo \subseteq {"invoice"}
    BY <1>14 DEF Synchronises, At
  <2>5. Then(r, todo)
    BY <1>14 DEF Finish
  <2>. HIDE DEF todo
  <2>. QED BY <1>0, <2>1, <2>3, <2>4, <2>5, FollowsThen
<1>15. CASE Sync(r)
  <2>. DEFINE new == IF PaidAmount >= invoice.total THEN "PAID"
                     ELSE IF PaidAmount > 0 THEN "PARTIALLY_PAID"
                     ELSE invoice.status
  <2>1. InvoiceShows(new) /\ new \in InvoiceStatus
    BY <1>0, PaidType DEF InvoiceShows, Shows, TypeOK, InvoiceStatus
  <2>2. /\ At(r, "sync") /\ UNCHANGED <<payment, invoice>>
        /\ \/ (invoice.status \in {"CANCELLED", "REFUNDED"} \/ new = invoice.status) /\ Finish(r, "sync")
           \/ Plan(r, "sync", new)
    BY <1>15 DEF Sync
  <2>. HIDE DEF new
  <2>3. CASE (invoice.status \in {"CANCELLED", "REFUNDED"} \/ new = invoice.status) /\ Finish(r, "sync")
    <3>1. InvoiceShows(invoice.status)
      BY <2>1, <2>3 DEF InvoiceShows, Shows
    <3>. QED BY <1>14, <2>2, <2>3, <3>1 DEF Task
  <2>4. CASE Plan(r, "sync", new)
    <3>1. Shows(new, PaidAmount', invoice'.total)
      BY <2>1, <2>2, ShowsSame DEF InvoiceShows
    <3>. QED BY <1>0, <2>1, <2>2, <2>4, <3>1, FollowsPlan
  <2>. QED BY <2>2, <2>3, <2>4
<1>16. CASE CheckRemaining(r)
  <2>1. /\ At(r, "remaining") /\ UNCHANGED <<payment, invoice>>
        /\ \/ Plan(r, "remaining", "REFUNDED")
           \/ req' = [req EXCEPT ![r].todo = (req[r].todo \ {"remaining"}) \union {"sync"}]
    BY <1>0, <1>16 DEF CheckRemaining, TypeOK
  <2>2. CASE Plan(r, "remaining", "REFUNDED")
    <3>1. Shows("REFUNDED", PaidAmount', invoice'.total)
      BY DEF Shows
    <3>. QED BY <1>0, <2>1, <2>2, <3>1, FollowsPlan DEF InvoiceStatus
  <2>3. CASE req' = [req EXCEPT ![r].todo = (req[r].todo \ {"remaining"}) \union {"sync"}]
    <3>1. /\ req'[r].at = "tasks" /\ req'[r].op = req[r].op /\ req'[r].plan = req[r].plan
          /\ req'[r].todo = (req[r].todo \ {"remaining"}) \union {"sync"}
      BY <1>0, <2>1, <2>3 DEF At, Handler, TypeOK
    <3>2. req[r].op # "markPaid" /\ req[r].op # "resize" /\ "invoice" \notin req[r].todo
      BY <2>1 DEF Synchronises, At
    <3>3. Synchronises(req[r])'
      BY <3>1, <3>2 DEF Synchronises
    <3>. QED BY <3>1, <3>3 DEF Follows, Idle
  <2>. QED BY <2>1, <2>2, <2>3
<1>17. CASE UpdateInvoice(r)
  <2>. DEFINE todo == req[r].todo \ {"invoice"}
  <2>1. /\ At(r, "invoice") /\ payment' = payment
        /\ invoice' = [invoice EXCEPT !.status = req[r].plan] /\ Then(r, todo)
    BY <1>17 DEF UpdateInvoice, Finish
  <2>2. req[r].plan \in InvoiceStatus /\ todo \in SUBSET Task
    BY <1>0 DEF Handler
  <2>3. invoice'.status = req[r].plan /\ invoice'.total = invoice.total
    BY <1>0, <2>1, <2>2 DEF TypeOK
  <2>4. PaidAmount' = PaidAmount
    BY <2>1 DEF PaidAmount, SumOf, Succeeded
  <2>5. Shows(req[r].plan, PaidAmount, invoice.total)
    BY <2>1 DEF Synchronises, At, InvoiceShows
  <2>6. /\ ~({"sync", "remaining"} \subseteq todo) /\ "invoice" \notin todo
        /\ req[r].op = "markPaid" => todo \subseteq {"invoice"}
    BY <2>1 DEF Synchronises, At
  <2>. HIDE DEF todo
  <2>. QED BY <1>0, <2>1, <2>2, <2>3, <2>4, <2>5, <2>6, FollowsThen
<1>18. CASE UpdateBooking(r)
  BY <1>14, <1>18 DEF UpdateBooking, Task
<1>19. CASE MarkProcessed(r)
  <2>1. /\ req[r].at = "tasks" /\ req[r].todo = {"done"} /\ UNCHANGED <<payment, invoice>> /\ Reply(r)
    BY <1>19 DEF MarkProcessed, At
  <2>2. Shows(invoice'.status, PaidAmount', invoice'.total)
    BY <2>1, ShowsSame DEF Synchronises, InvoiceShows
  <2>. QED BY <1>0, <2>1, <2>2, FollowsReply
<1>. QED BY <1>1, <1>2, <1>3, <1>4, <1>5, <1>6, <1>8, <1>9, <1>10, <1>11, <1>12, <1>13, <1>15, <1>16,
         <1>17, <1>18, <1>19 DEF Continue

LEMMA FollowsStart ==
  ASSUME RecordsInv, NEW r \in Request, Call(r) \/ \E e \in Event : Deliver(r, e),
         "resize" \notin workload.ops, UNCHANGED <<invoice, payment>>, InvoiceShows(invoice.status)
  PROVE  Follows(r)'
<1>0. TypeOK /\ req \in [Request -> Handler] /\ invoice.total \in Nat /\ invoice.total > 0
  BY AmountsAssumption DEF RecordsInv, TypeOK
<1>1. Shows(invoice'.status, PaidAmount', invoice'.total)
  BY ShowsSame DEF InvoiceShows
<1>2. Idle.todo = {}
  BY DEF Idle
<1>3. ASSUME NEW op, op \notin {"resize", "markPaid"}, req'[r].op = op, req'[r].todo = {}, req'[r].at # "tasks",
             op \in {"verify", "verifyOnly"} /\ req'[r].at = "write" => payment[req'[r].p].status = "PENDING"
      PROVE  Follows(r)'
  BY <1>1, <1>3 DEF Follows, InvoiceShows, Synchronises
<1>4. CASE \E type \in workload.types : CreateOrder(r, type)
  BY <1>0, <1>3, <1>4 DEF CreateOrder, Begin, Idle
<1>5. ASSUME NEW t \in {Advance, Total}, Resize(r, t)
      PROVE  FALSE
  BY <1>5 DEF Resize, Begin, Idle
<1>6. ASSUME NEW op \in {"verify", "verifyOnly"}, NEW p \in Payment, NEW valid \in BOOLEAN,
             Verify(r, op, p, valid)
      PROVE  Follows(r)'
  <2>. DEFINE h(x) == [Idle EXCEPT !.op = op, !.at = "write", !.p = p, !.valid = valid, !.advance = x]
              g(x) == [h(x) EXCEPT !.at = "tasks", !.todo = {"booking"}]
  <2>1. \A x : /\ h(x).op = op /\ h(x).at = "write" /\ h(x).p = p /\ h(x).todo = {}
               /\ g(x).op = op /\ g(x).at = "tasks" /\ g(x).todo = {"booking"}
    BY DEF Idle
  <2>. HIDE DEF h
  <2>2. \/ \E x : payment[p].status = "PENDING" /\ req' = [req EXCEPT ![r] = h(x)]
        \/ \E x : req' = [req EXCEPT ![r] = [h(x) EXCEPT !.at = "tasks", !.todo = {"booking"}]]
    BY <1>6 DEF Verify, Begin, h
  <2>3. ASSUME NEW x, payment[p].status = "PENDING", req' = [req EXCEPT ![r] = h(x)]
        PROVE  Follows(r)'
    <3>1. req'[r] = h(x)
      BY <1>0, <2>3
    <3>. QED BY <1>3, <2>1, <2>3, <3>1
  <2>4. ASSUME NEW x, req' = [req EXCEPT ![r] = g(x)]
        PROVE  Follows(r)'
    <3>1. req'[r] = g(x)
      BY <1>0, <2>4
    <3>2. req'[r].op = op /\ req'[r].at = "tasks" /\ req'[r].todo = {"booking"}
      BY <2>1, <3>1
    <3>. HIDE DEF g
    <3>3. InvoiceShows(IF "invoice" \in req[r].todo THEN req[r].plan ELSE invoice.status)'
      BY <1>1, <3>2 DEF InvoiceShows
    <3>. QED BY <3>2, <3>3 DEF Follows, Idle, Synchronises
  <2>. QED BY <2>2, <2>3, <2>4
<1>7. ASSUME NEW p \in Payment, Refund(r, p)
      PROVE  Follows(r)'
  BY <1>0, <1>3, <1>7 DEF Refund, Begin, Idle
<1>8. ASSUME NEW amount \in Amounts, CreatePayment(r, amount)
      PROVE  Follows(r)'
  BY <1>0, <1>3, <1>8 DEF CreatePayment, Begin, Idle
<1>9. CASE MarkPaid(r)
  <2>1. req'[r].op = "markPaid" /\ req'[r].at = "sum" /\ req'[r].plan = "PAID" /\ req'[r].todo = {}
    BY <1>0, <1>9 DEF MarkPaid, Begin, Idle
  <2>. QED BY <1>1, <2>1 DEF Follows, InvoiceShows, Synchronises
<1>10. CASE MarkOverdue(r) \/ CancelInvoice(r)
  <2>. DEFINE h(op, s) == [Idle EXCEPT !.op = op, !.at = "tasks", !.plan = s, !.todo = {"invoice"}]
  <2>0. \A op, s : h(op, s).op = op /\ h(op, s).at = "tasks" /\ h(op, s).plan = s /\ h(op, s).todo = {"invoice"}
    BY DEF Idle
  <2>. HIDE DEF h
  <2>1. \/ req' = [req EXCEPT ![r] = h("markOverdue", "OVERDUE")] /\ invoice.status = "SENT"
        \/ req' = [req EXCEPT ![r] = h("cancelInvoice", "CANCELLED")]
    BY <1>10 DEF MarkOverdue, CancelInvoice, Begin, h
  <2>3. /\ req'[r].op \in {"markOverdue", "cancelInvoice"} /\ req'[r].at = "tasks"
        /\ req'[r].todo = {"invoice"}
        /\ req'[r].plan = "CANCELLED" \/ (req'[r].plan = "OVERDUE" /\ invoice.status = "SENT")
    BY <1>0, <2>0, <2>1
  <2>2. Shows(req'[r].plan, PaidAmount', invoice'.total)
    BY <1>1, <2>3 DEF Shows
  <2>. QED BY <2>2, <2>3 DEF Follows, InvoiceShows, Synchronises, Idle
<1>11. ASSUME NEW e \in Event, Deliver(r, e)
       PROVE  Follows(r)'
  <2>. DEFINE h(x) == [Idle EXCEPT !.op = "webhook", !.at = "upsert", !.p = e.p, !.e = e, !.known = x]
  <2>1. \A x : h(x).op = "webhook" /\ h(x).at = "upsert" /\ h(x).todo = {}
    BY DEF Idle
  <2>. HIDE DEF h
  <2>2. req' = [req EXCEPT ![r] = h(event[e] # "NONE")]
    BY <1>11 DEF Deliver, Begin, h
  <2>3. req'[r].op = "webhook" /\ req'[r].at = "upsert" /\ req'[r].todo = {}
    BY <1>0, <2>1, <2>2
  <2>. QED BY <1>3, <2>3
<1>. QED BY <1>4, <1>5, <1>6, <1>7, <1>8, <1>9, <1>10, <1>11 DEF Call

LEMMA FollowsInit == Init => FollowsInv
<1>. SUFFICES ASSUME Init PROVE FollowsInv
  OBVIOUS
<1>1. Succeeded = {}
  BY DEF Init, Succeeded, NoRow
<1>2. PaidAmount = 0
  <2>1. {unit \in Succeeded \X (1..Total) : unit[2] <= payment[unit[1]].amount} = {}
    BY <1>1
  <2>. QED BY <2>1, FS_EmptySet DEF PaidAmount, SumOf
<1>3. InvoiceShows(invoice.status)
  BY <1>2, AmountsAssumption DEF Init, InvoiceShows, Shows
<1>. QED BY <1>3 DEF Init, FollowsInv, Alone

LEMMA FollowsStep ==
  ASSUME RecordsInv, RecordsInv', [Next]_vars, FollowsInv
  PROVE  FollowsInv'
<1>0. TypeOK /\ workload' = workload /\ failures \in Nat
      /\ (failures' = failures \/ failures' = failures + 1)
  BY FailuresStep, WorkloadsAssumption DEF RecordsInv, TypeOK
<1>1. SUFFICES ASSUME ~workload.overlap, failures' = 0, "resize" \notin workload.ops
               PROVE  FollowsInv'
  BY <1>0 DEF FollowsInv
<1>2. /\ Alone /\ Alone' /\ failures = 0
      /\ Quiet => InvoiceShows(invoice.status)
      /\ \A r \in Request : req[r] # Idle => Synchronises(req[r])
  BY <1>0, <1>1, AloneStep DEF FollowsInv
<1>3. SUFFICES /\ Quiet' => InvoiceShows(invoice.status)'
               /\ \A r \in Request : req'[r] # Idle => Synchronises(req[r])'
  BY <1>2 DEF FollowsInv
<1>4. CASE UNCHANGED <<invoice, payment, req>>
  BY <1>2, <1>4, ShowsSame DEF Quiet, InvoiceShows, Synchronises
<1>5. ASSUME NEW r \in Request, \A s \in Request \ {r} : req'[s] = Idle, Follows(r)'
      PROVE  /\ Quiet' => InvoiceShows(invoice.status)'
             /\ \A s \in Request : req'[s] # Idle => Synchronises(req[s])'
  BY <1>5 DEF Quiet, Follows
<1>6. ASSUME NEW r \in Request, Quiet, UNCHANGED <<invoice, payment>>,
             Call(r) \/ \E e \in Event : Deliver(r, e)
      PROVE  Follows(r)'
  BY <1>1, <1>2, <1>6, FollowsStart
<1>7. ASSUME NEW r \in Request, req[r] # Idle, Continue(r)
      PROVE  Follows(r)'
  BY <1>2, <1>7, FollowsContinue
<1>8. \/ UNCHANGED <<invoice, payment, req>>
      \/ \E r \in Request :
           /\ \A s \in Request \ {r} : req'[s] = Idle
           /\ \/ Quiet /\ UNCHANGED <<invoice, payment>>
                 /\ (Call(r) \/ \E e \in Event : Deliver(r, e))
              \/ req[r] # Idle /\ Continue(r)
  BY <1>1, <1>2, SerialSteps
<1>. QED BY <1>4, <1>5, <1>6, <1>7, <1>8

-----------------------------------------------------------------------------
(* The payments cover the invoice *)

\* An invoice of status s for `total' is covered by `sum'.
Covered(s, sum, total) ==
  /\ s = "PAID" => sum >= total
  /\ s = "PARTIALLY_PAID" => sum > 0

Covers(s) == Covered(s, SumOf(Shown), invoice.total)

\* What the handler in flight will do about it: only a refund takes cover away, and
\* what remains is then checked; the status that is planned is covered, and so is the
\* invoice's own unless it will be written.
Covering(h) ==
  /\ h.op = "markPaid" /\ h.at = "sum" => h.amount = invoice.total
  /\ h.op = "markPaid" /\ h.at = "insert" => PaidAmount + h.amount >= invoice.total
  /\ h.at # "tasks" => Covers(invoice.status)
  /\ h.at = "tasks" =>
       /\ "invoice" \in h.todo => Covers(h.plan)
       /\ \/ {"remaining", "invoice"} \intersect h.todo # {}
          \/ "sync" \in h.todo /\ PaidAmount > 0
          \/ Covers(invoice.status)

\* Only orders have a history at the gateway.
GatewayOfOrders == \A p \in Payment : gateway[p] # {} => payment[p].txn # "NONE"

CoverInv ==
  ~workload.overlap /\ failures = 0 /\ "resize" \notin workload.ops =>
    /\ Quiet => Covers(invoice.status)
    /\ \A r \in Request : req[r] # Idle => Covering(req[r])

\* What is recorded as paid is shown, before and after a step.
LEMMA SumsInclude ==
  ASSUME NEW rows, NEW S, NEW T, S \subseteq T, T \subseteq Payment
  PROVE  LET U(ps) == {unit \in ps \X (1..Total) : unit[2] <= rows[unit[1]].amount}
         IN  /\ Cardinality(U(S)) \in Nat /\ Cardinality(U(T)) \in Nat
             /\ Cardinality(U(S)) <= Cardinality(U(T))
<1>. DEFINE U(ps) == {unit \in ps \X (1..Total) : unit[2] <= rows[unit[1]].amount}
<1>1. U(S) \in SUBSET U(T) /\ U(T) \in SUBSET (Payment \X (1..Total))
  OBVIOUS
<1>2. IsFiniteSet(U(T))
  BY <1>1, UnitsFinite, FS_Subset
<1>. QED BY <1>1, <1>2, FS_Subset, FS_CardinalityType

LEMMA PaidWithinShown ==
  /\ PaidAmount \in Nat /\ SumOf(Shown) \in Nat /\ PaidAmount <= SumOf(Shown)
  /\ PaidAmount' \in Nat /\ SumOf(Shown)' \in Nat /\ PaidAmount' <= SumOf(Shown)'
<1>1. Succeeded \subseteq Shown /\ Shown \subseteq Payment
  BY DEF Succeeded, Shown
<1>2. Succeeded' \subseteq Shown' /\ Shown' \subseteq Payment
  BY DEF Succeeded, Shown
<1>3. PaidAmount \in Nat /\ SumOf(Shown) \in Nat /\ PaidAmount <= SumOf(Shown)
  BY <1>1, SumsInclude DEF PaidAmount, SumOf
<1>4. PaidAmount' \in Nat /\ SumOf(Shown)' \in Nat /\ PaidAmount' <= SumOf(Shown)'
  BY <1>2, SumsInclude DEF PaidAmount, SumOf
<1>. QED BY <1>3, <1>4

\* What is shown grows with the payments that are.
LEMMA ShownGrows ==
  ASSUME TypeOK, TypeOK', \A p \in Shown : p \in Shown' /\ payment'[p].amount = payment[p].amount
  PROVE  SumOf(Shown) \in Nat /\ SumOf(Shown)' \in Nat /\ SumOf(Shown) <= SumOf(Shown)'
<1>. DEFINE U == {unit \in Shown \X (1..Total) : unit[2] <= payment[unit[1]].amount}
            V == {unit \in Shown' \X (1..Total) : unit[2] <= payment'[unit[1]].amount}
<1>1. U \in SUBSET V /\ V \in SUBSET (Payment \X (1..Total))
  BY DEF Shown
<1>2. IsFiniteSet(V)
  BY <1>1, UnitsFinite, FS_Subset
<1>3. Cardinality(U) \in Nat /\ Cardinality(V) \in Nat /\ Cardinality(U) <= Cardinality(V)
  BY <1>1, <1>2, FS_Subset, FS_CardinalityType
<1>4. SumOf(Shown) = Cardinality(U) /\ SumOf(Shown)' = Cardinality(V)
  BY DEF SumOf
<1>. QED BY <1>3, <1>4

\* The units of one new payment come on top.
LEMMA PaidAdds ==
  ASSUME TypeOK, TypeOK', NEW p \in Payment, NEW a \in 1..Total, payment[p].status # "SUCCESS",
         payment'[p].status = "SUCCESS", payment'[p].amount = a,
         \A q \in Payment : q # p => payment'[q] = payment[q]
  PROVE  PaidAmount \in Nat /\ PaidAmount' \in Nat /\ PaidAmount + a <= PaidAmount'
<1>. DEFINE U == {unit \in Succeeded \X (1..Total) : unit[2] <= payment[unit[1]].amount}
            V == {unit \in Succeeded' \X (1..Total) : unit[2] <= payment'[unit[1]].amount}
            W == {p} \X (1..a)
<1>1. /\ U \in SUBSET V /\ W \in SUBSET V /\ V \in SUBSET (Payment \X (1..Total))
      /\ U \intersect W = {}
  BY AmountsAssumption DEF Succeeded
<1>2. IsFiniteSet(V) /\ IsFiniteSet(U) /\ IsFiniteSet(W)
  BY <1>1, UnitsFinite, FS_Subset
<1>3. Cardinality(W) = a
  <2>1. IsFiniteSet({p}) /\ Cardinality({p}) = 1
    BY FS_Singleton
  <2>2. IsFiniteSet(1..a) /\ Cardinality(1..a) = a
    BY AmountsAssumption, FS_Interval
  <2>3. Cardinality(W) = Cardinality({p}) * Cardinality(1..a)
    BY <2>1, <2>2, FS_Product
  <2>. QED BY <2>1, <2>2, <2>3
<1>4. Cardinality(U \union W) = Cardinality(U) + a
  <2>1. Cardinality(U \intersect W) = 0
    BY <1>1, FS_EmptySet
  <2>2. Cardinality(U) \in Nat
    BY <1>2, FS_CardinalityType
  <2>. HIDE DEF U, W
  <2>3. Cardinality(U \union W) = Cardinality(U) + Cardinality(W) - Cardinality(U \intersect W)
    BY <1>2, FS_Union
  <2>. QED BY <1>3, <2>1, <2>2, <2>3
<1>5. /\ Cardinality(U \union W) <= Cardinality(V)
      /\ Cardinality(U) \in Nat /\ Cardinality(V) \in Nat
  BY <1>1, <1>2, FS_Subset, FS_CardinalityType
<1>6. PaidAmount = Cardinality(U) /\ PaidAmount' = Cardinality(V)
  BY DEF PaidAmount, SumOf
<1>. QED BY <1>4, <1>5, <1>6

\* The handler of r, if there is one, leaves the invoice covered.
KeepsCover(r) == IF req[r] = Idle THEN Covers(invoice.status) ELSE Covering(req[r])

\* A cover that grows still covers.
LEMMA CoverGrows ==
  ASSUME NEW s, NEW sum \in Int, NEW more \in Int, NEW total \in Int, sum <= more,
         Covered(s, sum, total)
  PROVE  Covered(s, more, total)
BY DEF Covered

LEMMA CoverThen ==
  ASSUME TypeOK, NEW r \in Request, NEW todo \in SUBSET Task, Then(r, todo),
         "invoice" \in todo => Covered(req[r].plan, SumOf(Shown)', invoice'.total),
         \/ {"remaining", "invoice"} \intersect todo # {}
         \/ "sync" \in todo /\ PaidAmount' > 0
         \/ Covered(invoice'.status, SumOf(Shown)', invoice'.total)
  PROVE  KeepsCover(r)'
<1>0. req \in [Request -> Handler]
  BY DEF TypeOK
<1>1. CASE todo = {}
  <2>1. req'[r] = Idle
    BY <1>0, <1>1 DEF Then
  <2>2. Covered(invoice'.status, SumOf(Shown)', invoice'.total)
    BY <1>1
  <2>. QED BY <2>1, <2>2 DEF KeepsCover, Covers
<1>2. CASE todo # {}
  <2>1. req'[r].at = "tasks" /\ req'[r].plan = req[r].plan /\ req'[r].todo = todo
    BY <1>0, <1>2 DEF Then, Handler
  <2>2. req'[r] # Idle
    BY <2>1 DEF Idle
  <2>3. Covering(req[r])'
    BY <2>1 DEF Covering, Covers
  <2>. QED BY <2>2, <2>3 DEF KeepsCover
<1>. QED BY <1>1, <1>2

LEMMA CoverReply ==
  ASSUME TypeOK, NEW r \in Request, Reply(r), Covered(invoice'.status, SumOf(Shown)', invoice'.total)
  PROVE  KeepsCover(r)'
<1>1. req'[r] = Idle
  BY DEF Reply, TypeOK
<1>. QED BY <1>1 DEF KeepsCover, Covers

LEMMA CoverAwait ==
  ASSUME TypeOK, NEW r \in Request, NEW at \in Stages \ {"tasks"}, Await(r, at), req[r].op # "markPaid",
         Covered(invoice'.status, SumOf(Shown)', invoice'.total)
  PROVE  KeepsCover(r)'
<1>1. req'[r].at = at /\ req'[r].op = req[r].op
  BY DEF Await, TypeOK, Handler
<1>2. Covering(req[r])'
  BY <1>1 DEF Covering, Covers
<1>3. Covers(invoice.status)'
  BY DEF Covers
<1>. QED BY <1>2, <1>3 DEF KeepsCover

LEMMA CoverPlan ==
  ASSUME TypeOK, NEW r \in Request, NEW task, NEW s \in InvoiceStatus, At(r, task), Plan(r, task, s),
         Covered(s, SumOf(Shown)', invoice'.total)
  PROVE  KeepsCover(r)'
<1>0. req \in [Request -> Handler]
  BY DEF TypeOK
<1>1. /\ req'[r].at = "tasks" /\ req'[r].plan = s
      /\ req'[r].todo = (req[r].todo \ {task}) \union {"invoice"}
  BY <1>0 DEF Plan, At, Handler
<1>2. Covering(req[r])'
  BY <1>1 DEF Covering, Covers
<1>. QED BY <1>1, <1>2 DEF KeepsCover, Idle

\* When the payments stay as they are and no total changes, so does the cover.
LEMMA CoverSame ==
  ASSUME UNCHANGED <<payment, gateway, invoice>>
  PROVE  /\ \A s : Covered(s, SumOf(Shown)', invoice'.total) = Covers(s)
         /\ PaidAmount' = PaidAmount
<1>1. Shown' = Shown
  BY DEF Shown
<1>2. SumOf(Shown)' = SumOf(Shown)
  BY <1>1 DEF SumOf
<1>3. PaidAmount' = PaidAmount
  BY DEF PaidAmount, SumOf, Succeeded
<1>. QED BY <1>2, <1>3 DEF Covers

\* Writing a payment takes nothing away from the cover, but for a refund.
LEMMA WrittenCovers ==
  ASSUME RecordsInv, TypeOK', GatewayOfOrders, NEW p \in Payment, NEW row, Written(p, row),
         row.status # "REFUNDED", payment' = [payment EXCEPT ![p] = row], gateway' = gateway,
         row.status = "FAILED" => payment[p].status = "PENDING" \/ gateway[p] # {}
  PROVE  SumOf(Shown) \in Nat /\ SumOf(Shown)' \in Nat /\ SumOf(Shown) <= SumOf(Shown)'
<1>0. TypeOK /\ LedgerAgrees /\ SuccessIsCaptured /\ payment \in [Payment -> Row]
  BY DEF RecordsInv, NothingBeforeCapture, TypeOK
<1>1. payment'[p] = row /\ \A q \in Payment : q # p => payment'[q] = payment[q]
  BY <1>0
<1>2. p \in Shown => p \in Shown' /\ row.amount = payment[p].amount
  <2>. SUFFICES ASSUME p \in Shown PROVE p \in Shown' /\ row.amount = payment[p].amount
    OBVIOUS
  <2>1. payment[p].status \in {"SUCCESS", "FAILED"}
    BY DEF Shown
  <2>2. payment[p] # NoRow
    BY <2>1 DEF NoRow
  <2>3. CASE Arrived(p, row)
    BY <1>1, <2>3 DEF Arrived, Shown
  <2>4. CASE NotPaid(p, row)
    <3>1. "captured" \in gateway[p]
      BY <1>0, <2>1, <2>4 DEF NotPaid, Shown, LedgerAgrees, SuccessIsCaptured, GatewayOfOrders
    <3>. QED BY <1>1, <2>4, <3>1 DEF NotPaid, Shown
  <2>. QED BY <2>2, <2>3, <2>4 DEF Written, Ordered, PaidInPerson, TakenBack
<1>3. \A q \in Shown : q \in Shown' /\ payment'[q].amount = payment[q].amount
  BY <1>1, <1>2 DEF Shown
<1>. QED BY <1>0, <1>3, ShownGrows

LEMMA CoverContinue ==
  ASSUME RecordsInv, RecordsInv', GatewayOfOrders, NEW r \in Request, Continue(r),
         Synchronises(req[r]), Covering(req[r])
  PROVE  KeepsCover(r)'
<1>0. /\ TypeOK /\ TypeOK' /\ req[r] \in Handler /\ HandlerOK(req[r], gateway)
      /\ invoice.total \in Nat /\ invoice.total > 0 /\ payment \in [Payment -> Row]
      /\ gateway' = gateway
  <2>1. gateway' = gateway
    BY DEF Continue, FindReusable, InsertOrder, OrderRejected, ResizeWrite,
      VerifyWrite, UpsertEvent, ReadCaptured, ReadFailed, ReadRefunded, WebhookWrite, RefundWrite,
      MarkPaidSum, InsertOffline, Sync, CheckRemaining, UpdateInvoice, UpdateBooking, MarkProcessed
  <2>. QED BY <2>1, AmountsAssumption DEF RecordsInv, TypeOK
\* A row is written, and the invoice left alone.
<1>1. ASSUME NEW p \in Payment, NEW row, Written(p, row), row.status # "REFUNDED",
             payment' = [payment EXCEPT ![p] = row], invoice' = invoice, req[r].at # "tasks",
             row.status = "FAILED" => payment[p].status = "PENDING" \/ gateway[p] # {}
      PROVE  Covered(invoice'.status, SumOf(Shown)', invoice'.total)
  <2>1. SumOf(Shown) \in Nat /\ SumOf(Shown)' \in Nat /\ SumOf(Shown) <= SumOf(Shown)'
    BY <1>0, <1>1, WrittenCovers
  <2>2. Covered(invoice.status, SumOf(Shown), invoice.total)
    BY <1>1 DEF Covering, Covers
  <2>. QED BY <1>0, <1>1, <2>1, <2>2, CoverGrows
\* Nothing is written.
<1>2. ASSUME UNCHANGED <<payment, invoice>>, req[r].at # "tasks"
      PROVE  Covered(invoice'.status, SumOf(Shown)', invoice'.total)
  BY <1>0, <1>2, CoverSame DEF Covering
<1>3. CASE FindReusable(r) \/ OrderRejected(r)
  <2>1. /\ UNCHANGED <<payment, invoice>> /\ req[r].at # "tasks" /\ req[r].op = "order"
        /\ Reply(r) \/ Await(r, "insert")
    BY <1>3 DEF FindReusable, OrderRejected, Running
  <2>. QED BY <1>0, <1>2, <2>1, CoverReply, CoverAwait DEF Stages
<1>4. CASE InsertOrder(r)
  <2>1. PICK p \in Payment :
          /\ payment[p] = NoRow
          /\ payment' = [payment EXCEPT ![p] = [NoRow EXCEPT !.status = "PENDING", !.txn = "CREATED",
                           !.type = req[r].type, !.amount = req[r].amount]]
    BY <1>4 DEF InsertOrder, Unused
  <2>2. req[r].amount \in 1..Total /\ req[r].type \in PaymentType
    BY <1>0, <1>4 DEF InsertOrder, Running, HandlerOK
  <2>. DEFINE row == [NoRow EXCEPT !.status = "PENDING", !.txn = "CREATED", !.type = req[r].type,
                                   !.amount = req[r].amount]
  <2>3. Written(p, row) /\ row.status = "PENDING"
    BY <2>1, <2>2, Inserted DEF NoRow
  <2>4. invoice' = invoice /\ req[r].at # "tasks" /\ Reply(r)
    BY <1>4 DEF InsertOrder, Running
  <2>. HIDE DEF row
  <2>5. payment' = [payment EXCEPT ![p] = row]
    BY <2>1 DEF row
  <2>. QED BY <1>0, <1>1, <2>3, <2>4, <2>5, CoverReply
<1>5. CASE ResizeWrite(r)
  BY <1>5 DEF ResizeWrite, Running, Synchronises
<1>6. CASE VerifyWrite(r)
  <2>. DEFINE p == req[r].p
              won == [payment[p] EXCEPT !.status = "SUCCESS", !.txn = "PAID", !.razorpay = "capture"]
              lost == [payment[p] EXCEPT !.status = "FAILED", !.txn = "FAILED", !.razorpay = "attempt"]
  <2>1. /\ req[r].op \in {"verify", "verifyOnly"} /\ req[r].at = "write" /\ invoice' = invoice
        /\ payment[p].status = "PENDING" /\ p \in Payment
        /\ req[r].valid => "captured" \in gateway[p]
    BY <1>0, <1>6 DEF VerifyWrite, Synchronises, HandlerOK
  <2>2. won.status = "SUCCESS" /\ lost.status = "FAILED"
    BY <1>0, <2>1 DEF Row
  <2>3. /\ req[r].valid => Written(p, won)
        /\ Written(p, lost)
    BY <1>0, <2>1, Updated
  <2>4. \/ /\ req[r].valid /\ payment' = [payment EXCEPT ![p] = won]
           /\ Then(r, {"sync"} \union IF req[r].advance THEN {"booking"} ELSE {})
        \/ payment' = [payment EXCEPT ![p] = lost] /\ Reply(r)
    BY <1>0, <1>6, <2>1 DEF VerifyWrite
  <2>. HIDE DEF p, won, lost
  <2>5. Covered(invoice'.status, SumOf(Shown)', invoice'.total)
    BY <1>1, <2>1, <2>2, <2>3, <2>4
  <2>6. CASE Reply(r)
    BY <1>0, <2>5, <2>6, CoverReply
  <2>7. CASE Then(r, {"sync"} \union IF req[r].advance THEN {"booking"} ELSE {})
    BY <1>0, <2>5, <2>7, CoverThen DEF Task
  <2>. QED BY <2>4, <2>6, <2>7
<1>7. CASE UpsertEvent(r) \/ ReadFailed(r) \/ ReadRefunded(r)
  <2>1. /\ UNCHANGED <<payment, invoice>> /\ req[r].at # "tasks" /\ req[r].op = "webhook"
        /\ Reply(r) \/ Await(r, "dispatch") \/ Await(r, "write") \/ Then(r, {"done"})
    BY <1>7 DEF UpsertEvent, ReadFailed, ReadRefunded, Processing, Running
  <2>. QED BY <1>0, <1>2, <2>1, CoverReply, CoverAwait, CoverThen DEF Stages, Task
<1>8. CASE ReadCaptured(r)
  <2>1. /\ UNCHANGED <<payment, invoice>> /\ req[r].at # "tasks" /\ req[r].op = "webhook"
        /\ \/ Then(r, {"done"})
           \/ req' = [req EXCEPT ![r].at = "write", ![r].advance = awaiting]
    BY <1>8 DEF ReadCaptured, Processing, Running
  <2>2. CASE Then(r, {"done"})
    BY <1>0, <1>2, <2>1, <2>2, CoverThen DEF Task
  <2>3. CASE req' = [req EXCEPT ![r].at = "write", ![r].advance = awaiting]
    <3>1. req'[r].at = "write" /\ req'[r].op = "webhook"
      BY <1>0, <2>1, <2>3 DEF TypeOK, Handler
    <3>2. Covers(invoice.status)'
      BY <1>2, <2>1 DEF Covers
    <3>. QED BY <3>1, <3>2 DEF KeepsCover, Covering, Idle
  <2>. QED BY <2>1, <2>2, <2>3
<1>9. CASE WebhookWrite(r)
  <2>. DEFINE p == req[r].p
              k == req[r].e.kind
              row == AfterEvent(k, payment[p])
  <2>1. /\ p \in Payment /\ req[r].e \in Event /\ Announces(req[r].e) \in gateway[p]
        /\ req[r].at = "write" /\ invoice' = invoice
        /\ payment' = [payment EXCEPT ![p] = row] /\ Then(r, TasksAfterEvent(k))
    BY <1>0, <1>9 DEF WebhookWrite, Running, HandlerOK, Event
  <2>2. /\ k \in {"payment.captured", "order.paid", "payment.failed", "refund.processed"}
        /\ k \in {"payment.captured", "order.paid"} => "captured" \in gateway[p]
        /\ gateway[p] # {} /\ payment[p] \in Row
    BY <1>0, <2>1 DEF Event, Announces
  <2>3. /\ TasksAfterEvent(k) \in SUBSET Task /\ "invoice" \notin TasksAfterEvent(k)
        /\ k = "refund.processed" => "remaining" \in TasksAfterEvent(k)
    BY <2>2 DEF TasksAfterEvent, Task
  <2>. HIDE DEF p, k
  <2>4. CASE k = "refund.processed"
    BY <1>0, <2>1, <2>3, <2>4, CoverThen
  <2>5. CASE k # "refund.processed"
    <3>1. Written(p, row) /\ row.status # "REFUNDED"
      <4>1. CASE k \in {"payment.captured", "order.paid"}
        BY <1>0, <2>1, <2>2, <4>1, Updated DEF AfterEvent, Row
      <4>2. CASE k = "payment.failed"
        BY <1>0, <2>1, <2>2, <4>2, Updated DEF AfterEvent, Row
      <4>. QED BY <2>2, <2>5, <4>1, <4>2
    <3>. HIDE DEF row
    <3>2. Covered(invoice'.status, SumOf(Shown)', invoice'.total)
      BY <1>1, <2>1, <2>2, <3>1
    <3>. QED BY <1>0, <2>1, <2>3, <3>2, CoverThen
  <2>. QED BY <2>4, <2>5
<1>10. CASE RefundWrite(r)
  BY <1>0, <1>10, CoverThen DEF RefundWrite, Running, Task
<1>11. CASE MarkPaidSum(r)
  <2>1. /\ req[r].op = "markPaid" /\ req[r].at = "sum" /\ UNCHANGED <<payment, invoice>>
        /\ req[r].plan = "PAID" /\ req[r].amount = invoice.total
    BY <1>11 DEF MarkPaidSum, Running, Synchronises, Covering
  <2>2. /\ PaidAmount \in Nat /\ SumOf(Shown) \in Nat /\ PaidAmount <= SumOf(Shown)
        /\ PaidAmount' = PaidAmount
    BY <1>0, <2>1, PaidWithinShown, CoverSame
  <2>3. CASE invoice.total - PaidAmount > 0
    <3>. DEFINE n == invoice.total - PaidAmount
    <3>1. n \in Int /\ PaidAmount' + n >= invoice.total
      BY <1>0, <2>2
    <3>2. req' = [req EXCEPT ![r] = [req[r] EXCEPT !.at = "insert", !.amount = n]]
      BY <1>0, <1>11, <2>1, <2>3 DEF MarkPaidSum, TypeOK
    <3>. HIDE DEF n
    <3>3. req'[r].at = "insert" /\ req'[r].amount = n
      BY <1>0, <3>1, <3>2 DEF TypeOK, Handler
    <3>4. Covers(invoice.status)'
      BY <1>2, <2>1 DEF Covers
    <3>5. Covering(req[r])'
      BY <2>1, <3>1, <3>3, <3>4 DEF Covering
    <3>. QED BY <3>4, <3>5 DEF KeepsCover
  <2>4. CASE ~(invoice.total - PaidAmount > 0)
    <3>1. Covers("PAID")
      BY <1>0, <2>2, <2>4 DEF Covers, Covered
    <3>2. Covered(req[r].plan, SumOf(Shown)', invoice'.total)
      BY <1>0, <2>1, <3>1, CoverSame
    <3>3. Then(r, {"invoice"})
      BY <1>11, <2>1, <2>4 DEF MarkPaidSum
    <3>. QED BY <1>0, <3>2, <3>3, CoverThen DEF Task
  <2>. QED BY <2>3, <2>4
<1>12. CASE InsertOffline(r)
  <2>1. /\ req[r].op \in {"offline", "markPaid"} /\ req[r].at = "insert" /\ invoice' = invoice
        /\ Then(r, IF req[r].op = "offline" THEN {"sync"} ELSE {"invoice"})
        /\ req[r].amount \in 1..Total
    BY <1>0, <1>12 DEF InsertOffline, HandlerOK
  <2>2. PICK p \in Payment :
          /\ payment[p] = NoRow
          /\ payment' = [payment EXCEPT ![p] = [NoRow EXCEPT !.status = "SUCCESS", !.amount = req[r].amount]]
    BY <1>12 DEF InsertOffline, Unused
  <2>. DEFINE row == [NoRow EXCEPT !.status = "SUCCESS", !.amount = req[r].amount]
  <2>3. Written(p, row) /\ row.status = "SUCCESS" /\ row.amount = req[r].amount
    BY <2>1, <2>2, Inserted DEF NoRow
  <2>. HIDE DEF row
  <2>4. payment' = [payment EXCEPT ![p] = row]
    BY <2>2 DEF row
  <2>5. CASE req[r].op = "offline"
    <3>1. Covered(invoice'.status, SumOf(Shown)', invoice'.total)
      BY <1>1, <2>1, <2>3, <2>4
    <3>. QED BY <1>0, <2>1, <2>5, <3>1, CoverThen DEF Task
  <2>6. CASE req[r].op = "markPaid"
    <3>1. payment[p].status # "SUCCESS"
      BY <2>2 DEF NoRow
    <3>2. /\ payment'[p].status = "SUCCESS" /\ payment'[p].amount = req[r].amount
          /\ \A q \in Payment : q # p => payment'[q] = payment[q]
      BY <1>0, <2>3, <2>4
    <3>3. PaidAmount \in Nat /\ PaidAmount' \in Nat /\ PaidAmount + req[r].amount <= PaidAmount'
      BY <1>0, <2>1, <3>1, <3>2, PaidAdds
    <3>4. PaidAmount' \in Nat /\ SumOf(Shown)' \in Nat /\ PaidAmount' <= SumOf(Shown)'
      BY PaidWithinShown
    <3>5. PaidAmount + req[r].amount >= invoice.total /\ req[r].plan = "PAID"
      BY <2>1, <2>6 DEF Covering, Synchronises
    <3>6. SumOf(Shown)' >= invoice'.total
      BY <1>0, <2>1, <3>3, <3>4, <3>5, AmountsAssumption
    <3>7. Covered(req[r].plan, SumOf(Shown)', invoice'.total)
      BY <3>5, <3>6 DEF Covered
    <3>. QED BY <1>0, <2>1, <2>6, <3>7, CoverThen DEF Task
  <2>. QED BY <2>1, <2>5, <2>6
<1>13. CASE Sync(r)
  <2>. DEFINE new == IF PaidAmount >= invoice.total THEN "PAID"
                     ELSE IF PaidAmount > 0 THEN "PARTIALLY_PAID"
                     ELSE invoice.status
              left == invoice.status \in {"CANCELLED", "REFUNDED"} \/ new = invoice.status
  <2>1. PaidAmount \in Nat /\ SumOf(Shown) \in Nat /\ PaidAmount <= SumOf(Shown)
    BY PaidWithinShown
  <2>2. At(r, "sync") /\ UNCHANGED <<payment, invoice>> /\ new \in InvoiceStatus
    BY <1>0, <1>13 DEF Sync, TypeOK, InvoiceStatus
  <2>3. {"remaining", "invoice"} \intersect req[r].todo = {}
    BY <2>2 DEF Synchronises, At
  <2>4. PaidAmount > 0 \/ Covers(invoice.status)
    BY <2>2, <2>3 DEF Covering, At
  <2>5. Covers(new)
    BY <1>0, <2>1, <2>4 DEF Covers, Covered
  <2>6. left => Covers(invoice.status)
    BY <2>5 DEF Covers, Covered
  <2>7. \/ left /\ Then(r, req[r].todo \ {"sync"})
        \/ Plan(r, "sync", new)
    BY <1>13 DEF Sync, Finish
  <2>. HIDE DEF new, left
  <2>8. CASE left /\ Then(r, req[r].todo \ {"sync"})
    <3>1. Covered(invoice'.status, SumOf(Shown)', invoice'.total)
      BY <1>0, <2>2, <2>6, <2>8, CoverSame
    <3>2. req[r].todo \ {"sync"} \in SUBSET Task
      BY <1>0 DEF Handler
    <3>. QED BY <1>0, <2>3, <2>8, <3>1, <3>2, CoverThen
  <2>9. CASE Plan(r, "sync", new)
    BY <1>0, <2>2, <2>5, <2>9, CoverSame, CoverPlan
  <2>. QED BY <2>7, <2>8, <2>9
<1>14. CASE CheckRemaining(r)
  <2>1. /\ At(r, "remaining") /\ UNCHANGED <<payment, invoice>>
        /\ \/ Plan(r, "remaining", "REFUNDED")
           \/ /\ ~(PaidAmount <= 0)
              /\ req' = [req EXCEPT ![r].todo = (req[r].todo \ {"remaining"}) \union {"sync"}]
    BY <1>0, <1>14 DEF CheckRemaining, TypeOK
  <2>2. CASE Plan(r, "remaining", "REFUNDED")
    <3>1. Covered("REFUNDED", SumOf(Shown)', invoice'.total)
      BY DEF Covered
    <3>. QED BY <1>0, <2>1, <2>2, <3>1, CoverPlan DEF InvoiceStatus
  <2>3. CASE /\ ~(PaidAmount <= 0)
             /\ req' = [req EXCEPT ![r].todo = (req[r].todo \ {"remaining"}) \union {"sync"}]
    <3>1. /\ req'[r].at = "tasks" /\ "sync" \in req'[r].todo /\ "invoice" \notin req'[r].todo
      BY <1>0, <2>1, <2>3 DEF At, Handler, TypeOK, Synchronises
    <3>2. PaidAmount' > 0
      BY <1>0, <2>1, <2>3, PaidWithinShown, CoverSame
    <3>3. Covering(req[r])'
      BY <3>1, <3>2 DEF Covering
    <3>. QED BY <3>1, <3>3 DEF KeepsCover, Idle
  <2>. QED BY <2>1, <2>2, <2>3
<1>15. CASE UpdateInvoice(r)
  <2>. DEFINE todo == req[r].todo \ {"invoice"}
  <2>1. /\ At(r, "invoice") /\ payment' = payment
        /\ invoice' = [invoice EXCEPT !.status = req[r].plan] /\ Then(r, todo)
    BY <1>15 DEF UpdateInvoice, Finish
  <2>2. req[r].plan \in InvoiceStatus /\ todo \in SUBSET Task /\ "invoice" \notin todo
    BY <1>0 DEF Handler
  <2>3. invoice'.status = req[r].plan /\ invoice'.total = invoice.total
    BY <1>0, <2>1, <2>2 DEF TypeOK
  <2>4. SumOf(Shown)' = SumOf(Shown)
    <3>1. Shown' = Shown
      BY <1>0, <2>1 DEF Shown
    <3>. QED BY <2>1, <3>1 DEF SumOf
  <2>5. Covered(invoice'.status, SumOf(Shown)', invoice'.total)
    BY <2>1, <2>3, <2>4 DEF Covering, At, Covers
  <2>. HIDE DEF todo
  <2>. QED BY <1>0, <2>1, <2>2, <2>5, CoverThen
<1>16. CASE UpdateBooking(r) \/ MarkProcessed(r)
  <2>. DEFINE todo == req[r].todo \ {"booking"}
  <2>1. /\ req[r].at = "tasks" /\ UNCHANGED <<payment, invoice>>
        /\ Then(r, todo) \/ (req[r].todo = {"done"} /\ Reply(r))
    BY <1>16 DEF UpdateBooking, MarkProcessed, At, Finish
  <2>2. /\ \A s : Covered(s, SumOf(Shown)', invoice'.total) = Covers(s)
        /\ PaidAmount' = PaidAmount
    BY <1>0, <2>1, CoverSame
  <2>3. CASE Then(r, todo)
    <3>1. todo \in SUBSET Task
      BY <1>0 DEF Handler
    <3>2. /\ "invoice" \in todo => Covers(req[r].plan)
          /\ \/ {"remaining", "invoice"} \intersect todo # {}
             \/ "sync" \in todo /\ PaidAmount > 0
             \/ Covers(invoice.status)
      BY <2>1 DEF Covering
    <3>3. /\ "invoice" \in todo => Covered(req[r].plan, SumOf(Shown)', invoice'.total)
          /\ \/ {"remaining", "invoice"} \intersect todo # {}
             \/ "sync" \in todo /\ PaidAmount' > 0
             \/ Covered(invoice'.status, SumOf(Shown)', invoice'.total)
      BY <2>1, <2>2, <3>2
    <3>. HIDE DEF todo
    <3>. QED BY <1>0, <2>3, <3>1, <3>3, CoverThen
  <2>4. CASE req[r].todo = {"done"} /\ Reply(r)
    <3>1. Covers(invoice.status)
      BY <2>1, <2>4 DEF Covering
    <3>2. Covered(invoice'.status, SumOf(Shown)', invoice'.total)
      BY <2>1, <2>2, <3>1
    <3>. QED BY <1>0, <2>4, <3>2, CoverReply
  <2>. QED BY <2>1, <2>3, <2>4
<1>. QED BY <1>3, <1>4, <1>5, <1>6, <1>7, <1>8, <1>9, <1>10, <1>11, <1>12, <1>13, <1>14, <1>15, <1>16
     DEF Continue

LEMMA GatewayOfOrdersStep ==
  ASSUME RecordsInv, [Next]_vars, GatewayOfOrders
  PROVE  GatewayOfOrders'
<1>0. TypeOK /\ payment \in [Payment -> Row] /\ gateway \in [Payment -> SUBSET {"captured", "failed", "refunded"}]
  BY DEF RecordsInv, TypeOK
<1>1. CASE \E p \in Payment : Capture(p) \/ FailAttempt(p) \/ RefundAtGateway(p)
  BY <1>0, <1>1 DEF Capture, FailAttempt, RefundAtGateway, GatewayOfOrders
<1>2. CASE gateway' = gateway
  <2>1. CASE payment' = payment
    BY <1>2, <2>1 DEF GatewayOfOrders
  <2>2. ASSUME NEW p \in Payment, NEW row, Written(p, row), payment' = [payment EXCEPT ![p] = row]
        PROVE  GatewayOfOrders'
    <3>1. gateway[p] # {} => row.txn # "NONE"
      BY <2>2 DEF GatewayOfOrders, Written, Ordered, PaidInPerson, Arrived, NotPaid, TakenBack, NoRow
    <3>. QED BY <1>0, <1>2, <2>2, <3>1 DEF GatewayOfOrders
  <2>. QED BY <2>1, <2>2, PaymentMoves DEF Writes
<1>3. gateway' = gateway \/ \E p \in Payment : Capture(p) \/ FailAttempt(p) \/ RefundAtGateway(p)
  <2>1. CASE Environment \/ UNCHANGED vars
    BY <2>1 DEF Environment, Crash, vars
  <2>2. ASSUME NEW r \in Request, Call(r) \/ \E e \in Event : Deliver(r, e)
        PROVE  gateway' = gateway
    BY <2>2 DEF Call, CreateOrder, Resize, Verify, Refund, CreatePayment, MarkPaid, MarkOverdue,
       CancelInvoice, Deliver
  <2>3. ASSUME NEW r \in Request, Continue(r) \/ Throw(r)
        PROVE  gateway' = gateway
    BY <2>3 DEF Continue, FindReusable, InsertOrder, OrderRejected, ResizeWrite, VerifyWrite,
       UpsertEvent, ReadCaptured, ReadFailed, ReadRefunded, WebhookWrite, RefundWrite,
       MarkPaidSum, InsertOffline, Sync, CheckRemaining, UpdateInvoice, UpdateBooking,
       MarkProcessed, Throw
  <2>. QED BY <2>1, <2>2, <2>3 DEF Next
<1>. QED BY <1>1, <1>2, <1>3

\* A handler that starts finds the invoice covered.
LEMMA CoverStart ==
  ASSUME RecordsInv, NEW r \in Request, Call(r) \/ \E e \in Event : Deliver(r, e),
         "resize" \notin workload.ops, UNCHANGED <<invoice, payment>>, Covers(invoice.status)
  PROVE  KeepsCover(r)'
<1>0. TypeOK /\ req \in [Request -> Handler] /\ gateway' = gateway
  <2>1. gateway' = gateway
    BY DEF Call, CreateOrder, Resize, Verify, Refund, CreatePayment, MarkPaid, MarkOverdue,
       CancelInvoice, Deliver
  <2>. QED BY <2>1 DEF RecordsInv, TypeOK
<1>1. Covers(invoice.status)'
  BY <1>0, CoverSame DEF Covers
<1>2. ASSUME req'[r].op # "markPaid", req'[r].todo \subseteq {"booking"}
      PROVE  KeepsCover(r)'
  <2>1. Covering(req[r])'
    BY <1>1, <1>2 DEF Covering
  <2>. QED BY <1>1, <2>1 DEF KeepsCover
<1>3. CASE \/ \E type \in workload.types : CreateOrder(r, type)
           \/ \E p \in Payment : Refund(r, p)
           \/ \E amount \in Amounts : CreatePayment(r, amount)
           \/ \E e \in Event : Deliver(r, e)
  <2>1. CASE \E type \in workload.types : CreateOrder(r, type)
    BY <1>0, <1>2, <2>1 DEF CreateOrder, Begin, Idle
  <2>2. CASE \E p \in Payment : Refund(r, p)
    BY <1>0, <1>2, <2>2 DEF Refund, Begin, Idle
  <2>3. CASE \E amount \in Amounts : CreatePayment(r, amount)
    BY <1>0, <1>2, <2>3 DEF CreatePayment, Begin, Idle
  <2>4. ASSUME NEW e \in Event, Deliver(r, e)
        PROVE  KeepsCover(r)'
    <3>. DEFINE h(x) == [Idle EXCEPT !.op = "webhook", !.at = "upsert", !.p = e.p, !.e = e, !.known = x]
    <3>1. \A x : h(x).op = "webhook" /\ h(x).todo = {}
      BY DEF Idle
    <3>. HIDE DEF h
    <3>2. req' = [req EXCEPT ![r] = h(event[e] # "NONE")]
      BY <2>4 DEF Deliver, Begin, h
    <3>3. req'[r].op = "webhook" /\ req'[r].todo = {}
      BY <1>0, <3>1, <3>2
    <3>. QED BY <1>2, <3>3
  <2>. QED BY <1>3, <2>1, <2>2, <2>3, <2>4
<1>4. ASSUME NEW t \in {Advance, Total}, Resize(r, t)
      PROVE  FALSE
  BY <1>4 DEF Resize, Begin, Idle
<1>5. ASSUME NEW op \in {"verify", "verifyOnly"}, NEW p \in Payment, NEW valid \in BOOLEAN,
             Verify(r, op, p, valid)
      PROVE  KeepsCover(r)'
  <2>. DEFINE h(x) == [Idle EXCEPT !.op = op, !.at = "write", !.p = p, !.valid = valid, !.advance = x]
              g(x) == [h(x) EXCEPT !.at = "tasks", !.todo = {"booking"}]
  <2>1. \A x : h(x).op = op /\ h(x).todo = {} /\ g(x).op = op /\ g(x).todo = {"booking"}
    BY DEF Idle
  <2>. HIDE DEF h
  <2>2. \E x : req' = [req EXCEPT ![r] = h(x)] \/ req' = [req EXCEPT ![r] = [h(x) EXCEPT !.at = "tasks", !.todo = {"booking"}]]
    BY <1>5 DEF Verify, Begin, h
  <2>3. req'[r].op = op /\ req'[r].todo \subseteq {"booking"}
    BY <1>0, <2>1, <2>2
  <2>. QED BY <1>2, <2>3
<1>6. CASE MarkPaid(r)
  <2>1. /\ req'[r].op = "markPaid" /\ req'[r].at = "sum" /\ req'[r].amount = invoice.total
        /\ req'[r].todo = {}
    BY <1>0, <1>6 DEF MarkPaid, Begin, Idle
  <2>2. Covering(req[r])'
    BY <1>1, <2>1 DEF Covering
  <2>. QED BY <1>1, <2>2 DEF KeepsCover
<1>7. CASE MarkOverdue(r) \/ CancelInvoice(r)
  <2>. DEFINE h(op, s) == [Idle EXCEPT !.op = op, !.at = "tasks", !.plan = s, !.todo = {"invoice"}]
  <2>0. \A op, s : h(op, s).op = op /\ h(op, s).at = "tasks" /\ h(op, s).plan = s /\ h(op, s).todo = {"invoice"}
    BY DEF Idle
  <2>. HIDE DEF h
  <2>4. \/ req' = [req EXCEPT ![r] = h("markOverdue", "OVERDUE")]
        \/ req' = [req EXCEPT ![r] = h("cancelInvoice", "CANCELLED")]
    BY <1>7 DEF MarkOverdue, CancelInvoice, Begin, h
  <2>1. /\ req'[r].op \in {"markOverdue", "cancelInvoice"} /\ req'[r].at = "tasks"
        /\ req'[r].plan \in {"OVERDUE", "CANCELLED"} /\ req'[r].todo = {"invoice"}
    BY <1>0, <2>0, <2>4
  <2>2. Covers(req[r].plan)'
    BY <2>1 DEF Covers, Covered
  <2>3. Covering(req[r])'
    BY <1>1, <2>1, <2>2 DEF Covering
  <2>. QED BY <1>1, <2>3 DEF KeepsCover
<1>. QED BY <1>3, <1>4, <1>5, <1>6, <1>7 DEF Call

LEMMA CoverStep ==
  ASSUME RecordsInv, RecordsInv', [Next]_vars, GatewayOfOrders, FollowsInv, CoverInv
  PROVE  CoverInv'
<1>0. /\ TypeOK /\ TypeOK' /\ workload' = workload /\ failures \in Nat
      /\ failures' = failures \/ failures' = failures + 1
      /\ invoice.total \in Nat
  BY FailuresStep, WorkloadsAssumption, AmountsAssumption DEF RecordsInv, TypeOK
<1>1. SUFFICES ASSUME ~workload.overlap, failures' = 0, "resize" \notin workload.ops
               PROVE  CoverInv'
  BY <1>0 DEF CoverInv
<1>2. /\ Alone /\ failures = 0
      /\ Quiet => Covers(invoice.status)
      /\ \A r \in Request : req[r] # Idle => Covering(req[r])
      /\ \A r \in Request : req[r] # Idle => Synchronises(req[r])
  BY <1>0, <1>1 DEF FollowsInv, CoverInv
<1>3. SUFFICES /\ Quiet' => Covers(invoice.status)'
               /\ \A r \in Request : req'[r] # Idle => Covering(req[r])'
  BY DEF CoverInv
<1>4. CASE UNCHANGED <<invoice, payment, req>>
  <2>1. \A p \in Payment : gateway[p] \subseteq gateway'[p]
    BY <1>0, GatewayGrows
  <2>2. \A p \in Shown : p \in Shown' /\ payment'[p].amount = payment[p].amount
    BY <1>4, <2>1 DEF Shown
  <2>3. SumOf(Shown) \in Nat /\ SumOf(Shown)' \in Nat /\ SumOf(Shown) <= SumOf(Shown)'
    BY <1>0, <2>2, ShownGrows
  <2>4. PaidAmount' = PaidAmount
    BY <1>4 DEF PaidAmount, SumOf, Succeeded
  <2>5. \A s : Covered(s, SumOf(Shown), invoice.total) => Covered(s, SumOf(Shown)', invoice'.total)
    BY <1>0, <1>4, <2>3, CoverGrows
  <2>6. /\ Covers(invoice.status) => Covers(invoice.status)'
        /\ \A r \in Request : Covers(req[r].plan) => Covers(req[r].plan)'
    BY <1>4, <2>5 DEF Covers
  <2>. QED BY <1>2, <1>4, <2>4, <2>6 DEF Quiet, Covering
<1>5. ASSUME NEW r \in Request, \A s \in Request \ {r} : req'[s] = Idle, KeepsCover(r)'
      PROVE  /\ Quiet' => Covers(invoice.status)'
             /\ \A s \in Request : req'[s] # Idle => Covering(req[s])'
  BY <1>5 DEF Quiet, KeepsCover
<1>6. ASSUME NEW r \in Request, Quiet, UNCHANGED <<invoice, payment>>,
             Call(r) \/ \E e \in Event : Deliver(r, e)
      PROVE  KeepsCover(r)'
  BY <1>1, <1>2, <1>6, CoverStart
<1>7. ASSUME NEW r \in Request, req[r] # Idle, Continue(r)
      PROVE  KeepsCover(r)'
  BY <1>2, <1>7, CoverContinue
<1>8. \/ UNCHANGED <<invoice, payment, req>>
      \/ \E r \in Request :
           /\ \A s \in Request \ {r} : req'[s] = Idle
           /\ \/ Quiet /\ UNCHANGED <<invoice, payment>>
                 /\ (Call(r) \/ \E e \in Event : Deliver(r, e))
              \/ req[r] # Idle /\ Continue(r)
  BY <1>1, <1>2, SerialSteps
<1>. QED BY <1>4, <1>5, <1>6, <1>7, <1>8

-----------------------------------------------------------------------------

\* When requests do not overlap, a second tap on "Pay" never opens a second order
\* of the same type for the same amount, whatever else is paid, refunded, delivered
\* again or fails, and whichever types are asked for.
THEOREM NoSecondOrder == Spec => []OneOpenOrder
<1>1. RecordsInv /\ Init => OrderInv
  BY DEF Init, OrderInv, Alone, OneOpenOrder, NoRow, Idle
<1>2. RecordsInv /\ RecordsInv' /\ [Next]_vars /\ OrderInv => OrderInv'
  BY OrderStep
<1>3. OrderInv => OneOpenOrder
  BY DEF OrderInv, OneOpenOrder
<1>. QED BY RecordsAlways, <1>1, <1>2, <1>3, PTL DEF Spec

\* When no handler is running an invoice in force shows what its payments amount to,
\* no less, and no more than what they and the captured payments overwritten by a
\* late payment.failed amount to: as long as requests do not overlap, nothing fails
\* and the total is kept.
THEOREM InvoiceShowsItsPayments == Spec => []InvoiceFollowsPayments
<1>1. RecordsInv /\ RecordsInv' /\ [Next]_vars /\ FollowsInv => FollowsInv'
  BY FollowsStep
<1>2. Init => GatewayOfOrders /\ CoverInv
  BY DEF Init, GatewayOfOrders, CoverInv, Covers, Covered
<1>3. RecordsInv /\ [Next]_vars /\ GatewayOfOrders => GatewayOfOrders'
  BY GatewayOfOrdersStep
<1>4. RecordsInv /\ RecordsInv' /\ [Next]_vars /\ GatewayOfOrders /\ FollowsInv /\ CoverInv => CoverInv'
  BY CoverStep
<1>5. FollowsInv /\ CoverInv => InvoiceFollowsPayments
  BY DEF FollowsInv, InvoiceFollowsPayments, InvoiceShows, Shows, CoverInv, Covers, Covered
<1>. QED BY RecordsAlways, FollowsInit, <1>1, <1>2, <1>3, <1>4, <1>5, PTL DEF Spec

=============================================================================
