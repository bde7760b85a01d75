------------------------------ MODULE Booking ------------------------------
(***************************************************************************)
(* Bookings and the time slots they occupy: the bookings service and the   *)
(* time-slots service over one database.                                   *)
(*                                                                         *)
(* A request handler is a sequence of awaited queries with no transaction  *)
(* around them.  `req[r]' is the handler that request r is running: which  *)
(* operation, where it stands between two queries, and what it remembers   *)
(* of the rows it has read.  Other requests run in between.                *)
(*                                                                         *)
(* Money enters only as `paid', the sum of a booking's successful online   *)
(* payments (module Payments has the payments themselves).                 *)
(***************************************************************************)
EXTENDS BookingStatus, Naturals, FiniteSets

CONSTANTS
  Booking,   \* ids of bookings (uuids)
  Slot,      \* ids of time slots
  Worker,    \* ids of users with role WORKER
  Request,   \* the requests that may be in flight at once
  Capacity,  \* TimeSlot.capacity of each slot
  Advance,   \* Booking.advanceAmount
  Total,     \* Booking.totalAmount
  Workload,  \* the operations clients call (all of them, or a subset); with
             \* "foreignPayment" a client may verify a payment of one booking
             \* for another
  None       \* SQL NULL

ASSUME AmountsAssumption == Advance \in Nat /\ Total \in Nat /\ 0 < Advance /\ Advance <= Total

ASSUME CapacityAssumption == Capacity \in [Slot -> Nat \ {0}]

\* The ids of a run; generateRef counts rows.
ASSUME FiniteAssumption == IsFiniteSet(Booking)

ASSUME NoneAssumption == None \notin Booking /\ None \notin Slot /\ None \notin Worker

VARIABLES
  booking,   \* the Booking table
  slotState, \* the TimeSlot table: whether the row exists, and isAvailable
  onDuty,    \* workers with an open check-in today and no approved leave
  req        \* the handlers in flight

vars == <<booking, slotState, onDuty, req>>

-----------------------------------------------------------------------------
(* Rows *)

Row ==
  [status : Status \union {"NONE", "DELETED"},
   slot : Slot \union {None}, worker : Worker \union {None},
   acceptedBy : Worker \union {None},   \* who set workerAcceptedAt
   collected : BOOLEAN,                 \* paymentCollectedAt is set
   paid : 0..Total,                     \* sum of its SUCCESS payments
   reversed : BOOLEAN,                  \* a payment was refunded or failed late
   ref : Nat]                           \* the number in bookingRef

NoRow ==
  [status |-> "NONE", slot |-> None, worker |-> None, acceptedBy |-> None,
   collected |-> FALSE, paid |-> 0, reversed |-> FALSE, ref |-> 0]

Exists(b) == booking[b].status \in Status

\* The bookings that count against a slot's capacity.
Holders(s) == {b \in Booking : booking[b].slot = s
                               /\ booking[b].status \in ACTIVE_BOOKING_STATUSES}

IsFull(s) == Cardinality(Holders(s)) >= Capacity[s]

SlotExists(s) == slotState[s] \in {"open", "closed"}

\* getRemainingAmount: nothing is owed once the worker recorded a collection.
Owed(b) == IF booking[b].collected THEN 0 ELSE Total - booking[b].paid

-----------------------------------------------------------------------------
(* Handlers in flight *)

Ops ==
  {"create", "accept", "collectPayment", "remove", "assignManager",
   "assignWorker", "confirm", "start", "complete", "cancel", "noShow",
   "reschedule", "razorpayVerify", "paymentVerify", "webhookCaptured",
   "createSlot", "toggleSlot", "removeSlot", "reverse", "offlinePayment"}

Handler ==
  [op : Ops \union {"idle"},
   at : {"idle", "count", "insert", "duty", "remaining", "release", "claim",
         "gateway", "update", "background"},
   b : Booking \union {None}, slot : Slot \union {None},
   from : Slot \union {None}, worker : Worker \union {None},
   payOf : Booking \union {None}, ref : Nat, flag : BOOLEAN,
   jobs : [Slot -> {"none", "read", "close", "reopen"}]]

NoJobs == [s \in Slot |-> "none"]

Idle ==
  [op |-> "idle", at |-> "idle", b |-> None, slot |-> None, from |-> None,
   worker |-> None, payOf |-> None, ref |-> 0, flag |-> FALSE, jobs |-> NoJobs]

Running(r, op, at) == req[r].op = op /\ req[r].at = at

\* The state of a handler that works on booking b and awaits the query `at'.
Handle(op, at, b) == [Idle EXCEPT !.op = op, !.at = at, !.b = b]

\* Request r starts handler h; the row of booking b has been read.
Begin(r, b, h) ==
  /\ h.op \in Workload
  /\ req[r] = Idle
  /\ Exists(b)
  /\ req' = [req EXCEPT ![r] = h]

Await(r, at) == req' = [req EXCEPT ![r].at = at]

\* The handler returned or threw: nothing of it is left.
Reply(r) == req' = [req EXCEPT ![r] = Idle]

\* Reconciliations left to run after the response was sent.
ReplyAndReconcile(r, slots) ==
  IF slots = {}
    THEN Reply(r)
    ELSE req' = [req EXCEPT ![r] =
                   [Idle EXCEPT !.op = req[r].op, !.at = "background",
                                !.jobs = [s \in Slot |->
                                            IF s \in slots THEN "read" ELSE "none"]]]

\* booking.update by id: P2025 (and an exception) if the row has been deleted.
Written(r, op) == Running(r, op, "update") /\ Exists(req[r].b)

-----------------------------------------------------------------------------
(* Time slots: availability and its reconciliation *)

\* Mutant: the slot's flag is trusted, its bookings are not counted.
SlotAdmitsByFlag(s) == slotState[s] = "open"

\* validateAndClaimSlot: a check only, nothing is reserved.
SlotAdmits(s) == slotState[s] = "open" /\ ~IsFull(s)

\* The handler's reconciliations are over: a cancel goes on to its update, a
\* background handler is finished.
AfterJobs(h, s) ==
  LET jobs == [h.jobs EXCEPT ![s] = "none"]
  IN  IF h.at = "release" THEN [h EXCEPT !.at = "update", !.jobs = jobs]
      ELSE IF jobs = NoJobs THEN Idle
      ELSE [h EXCEPT !.jobs = jobs]

\* Mutant: a closed slot is reopened whether or not it has room.
ReconcileReadReopensAny(r, s) ==
  /\ req[r].jobs[s] = "read"
  /\ req' = [req EXCEPT ![r] =
               IF IsFull(s) /\ slotState[s] = "open"
                 THEN [req[r] EXCEPT !.jobs[s] = "close"]
               ELSE IF slotState[s] = "closed" THEN [req[r] EXCEPT !.jobs[s] = "reopen"]
               ELSE AfterJobs(req[r], s)]
  /\ UNCHANGED <<booking, slotState, onDuty>>

\* reconcileSlotAvailability, first query: the slot and its active bookings.
ReconcileRead(r, s) ==
  /\ req[r].jobs[s] = "read"
  /\ req' = [req EXCEPT ![r] =
               IF IsFull(s) /\ slotState[s] = "open"
                 THEN [req[r] EXCEPT !.jobs[s] = "close"]
               ELSE IF ~IsFull(s) /\ slotState[s] = "closed"
                 THEN [req[r] EXCEPT !.jobs[s] = "reopen"]
               ELSE AfterJobs(req[r], s)]
  /\ UNCHANGED <<booking, slotState, onDuty>>

\* Second query: isAvailable is written as decided, whatever happened since.
\* If the slot was deleted the update throws; a cancel then fails as a whole.
ReconcileWrite(r, s) ==
  /\ req[r].jobs[s] \in {"close", "reopen"}
  /\ IF SlotExists(s)
       THEN /\ slotState' = [slotState EXCEPT ![s] =
                               IF req[r].jobs[s] = "close" THEN "closed" ELSE "open"]
            /\ req' = [req EXCEPT ![r] = AfterJobs(req[r], s)]
       ELSE /\ slotState' = slotState
            /\ req' = [req EXCEPT ![r] = IF req[r].at = "release" THEN Idle
                                         ELSE AfterJobs(req[r], s)]
  /\ UNCHANGED <<booking, onDuty>>

\* The unique key (service, date, start time) makes the second of two equal
\* creations fail, so the check and the insert act as one.
CreateSlot(s) ==
  /\ "createSlot" \in Workload
  /\ slotState[s] = "absent"
  /\ slotState' = [slotState EXCEPT ![s] = "open"]
  /\ UNCHANGED <<booking, onDuty, req>>

\* toggleAvailability remembers the opposite of what it read.
ToggleSlot(r, s) ==
  /\ "toggleSlot" \in Workload
  /\ req[r] = Idle
  /\ SlotExists(s)
  /\ req' = [req EXCEPT ![r] = [Idle EXCEPT !.op = "toggleSlot", !.at = "update",
                                            !.slot = s, !.flag = slotState[s] = "closed"]]
  /\ UNCHANGED <<booking, slotState, onDuty>>

ToggleSlotUpdate(r) ==
  /\ Running(r, "toggleSlot", "update")
  /\ slotState' = IF SlotExists(req[r].slot)
                    THEN [slotState EXCEPT ![req[r].slot] =
                            IF req[r].flag THEN "open" ELSE "closed"]
                    ELSE slotState
  /\ Reply(r)
  /\ UNCHANGED <<booking, onDuty>>

RemoveSlot(r, s) ==
  /\ "removeSlot" \in Workload
  /\ req[r] = Idle
  /\ SlotExists(s)
  /\ \A b \in Booking : Exists(b) => booking[b].slot # s
  /\ req' = [req EXCEPT ![r] = [Idle EXCEPT !.op = "removeSlot", !.at = "update",
                                            !.slot = s]]
  /\ UNCHANGED <<booking, slotState, onDuty>>

\* The foreign key sets timeSlotId of bookings that came since to NULL.
RemoveSlotDelete(r) ==
  /\ Running(r, "removeSlot", "update")
  /\ LET s == req[r].slot IN
       IF SlotExists(s)
         THEN /\ slotState' = [slotState EXCEPT ![s] = "removed"]
              /\ booking' = [b \in Booking |->
                               [booking[b] EXCEPT !.slot = IF @ = s THEN None ELSE @]]
         ELSE UNCHANGED <<slotState, booking>>
  /\ Reply(r)
  /\ UNCHANGED onDuty

-----------------------------------------------------------------------------
(* Creation *)

\* create up to validateAndClaimSlot; b is the id the new row will get.
Create(r, b, s) ==
  /\ "create" \in Workload
  /\ req[r] = Idle
  /\ booking[b] = NoRow
  /\ \A q \in Request : req[q].b # b
  /\ SlotAdmits(s)
  /\ req' = [req EXCEPT ![r] = [Handle("create", "count", b) EXCEPT !.slot = s]]
  /\ UNCHANGED <<booking, slotState, onDuty>>

\* generateRef: one more than the number of rows there are now.
CreateGenerateRef(r) ==
  /\ Running(r, "create", "count")
  /\ req' = [req EXCEPT ![r].at = "insert",
                        ![r].ref = Cardinality({b \in Booking : Exists(b)}) + 1]
  /\ UNCHANGED <<booking, slotState, onDuty>>

\* booking.create: bookingRef is unique and timeSlotId a foreign key, and the
\* insert throws if either is broken.
CreateInsert(r) ==
  /\ Running(r, "create", "insert")
  /\ LET h == req[r]
         inserted == /\ SlotExists(h.slot)
                     /\ \A b \in Booking : Exists(b) => booking[b].ref # h.ref
     IN  booking' = IF inserted
                      THEN [booking EXCEPT ![h.b] =
                              [NoRow EXCEPT !.status = "PENDING_PAYMENT",
                                            !.slot = h.slot, !.ref = h.ref]]
                      ELSE booking
  /\ Reply(r)
  /\ UNCHANGED <<slotState, onDuty>>

-----------------------------------------------------------------------------
(* Assignment and confirmation by staff *)

\* Only the terminal statuses are refused, not the transition.
AssignManager(r, b) ==
  /\ Begin(r, b, Handle("assignManager", "update", b))
  /\ NotTerminal(booking[b].status)
  /\ UNCHANGED <<booking, slotState, onDuty>>

\* Mutant: a new manager takes the worker off the job.
AssignManagerUpdateClearsWorker(r) ==
  /\ Written(r, "assignManager")
  /\ booking' = [booking EXCEPT ![req[r].b].status = "CONFIRMED",
                                ![req[r].b].worker = None]
  /\ Reply(r)
  /\ UNCHANGED <<slotState, onDuty>>

AssignManagerUpdate(r) ==
  /\ Written(r, "assignManager")
  /\ booking' = [booking EXCEPT ![req[r].b].status = "CONFIRMED"]
  /\ Reply(r)
  /\ UNCHANGED <<slotState, onDuty>>

AssignWorker(r, b, w) ==
  /\ Begin(r, b, [Handle("assignWorker", "duty", b) EXCEPT !.worker = w])
  /\ NotTerminal(booking[b].status)
  /\ UNCHANGED <<booking, slotState, onDuty>>

\* assertWorkerOnDuty
AssignWorkerCheckDuty(r) ==
  /\ Running(r, "assignWorker", "duty")
  /\ IF req[r].worker \in onDuty THEN Await(r, "update") ELSE Reply(r)
  /\ UNCHANGED <<booking, slotState, onDuty>>

\* workerAcceptedAt is left as it is, also when the worker changes.
AssignWorkerUpdate(r) ==
  /\ Written(r, "assignWorker")
  /\ booking' = [booking EXCEPT ![req[r].b].status = "ASSIGNED",
                                ![req[r].b].worker = req[r].worker]
  /\ Reply(r)
  /\ UNCHANGED <<slotState, onDuty>>

Confirm(r, b) ==
  /\ Begin(r, b, Handle("confirm", "update", b))
  /\ NotTerminal(booking[b].status)
  /\ CanTransition(booking[b].status, "CONFIRMED")
  /\ UNCHANGED <<booking, slotState, onDuty>>

ConfirmUpdate(r) ==
  /\ Written(r, "confirm")
  /\ booking' = [booking EXCEPT ![req[r].b].status = "CONFIRMED"]
  /\ Reply(r)
  /\ UNCHANGED <<slotState, onDuty>>

-----------------------------------------------------------------------------
(* The worker's job *)

AcceptByWorker(r, b) ==
  /\ Begin(r, b, [Handle("accept", "update", b) EXCEPT !.worker = booking[b].worker])
  /\ booking[b].worker # None
  /\ booking[b].status = "ASSIGNED"
  /\ UNCHANGED <<booking, slotState, onDuty>>

AcceptByWorkerUpdate(r) ==
  /\ Written(r, "accept")
  /\ booking' = [booking EXCEPT ![req[r].b].acceptedBy = req[r].worker]
  /\ Reply(r)
  /\ UNCHANGED <<slotState, onDuty>>

Start(r, b) ==
  /\ Begin(r, b, Handle("start", "update", b))
  /\ booking[b].worker # None
  /\ CanTransition(booking[b].status, "IN_PROGRESS")
  /\ UNCHANGED <<booking, slotState, onDuty>>

StartUpdate(r) ==
  /\ Written(r, "start")
  /\ booking' = [booking EXCEPT ![req[r].b].status = "IN_PROGRESS"]
  /\ Reply(r)
  /\ UNCHANGED <<slotState, onDuty>>

\* In-person cash or QR: no check of the status.
CollectPayment(r, b) ==
  /\ Begin(r, b, Handle("collectPayment", "update", b))
  /\ booking[b].worker # None
  /\ UNCHANGED <<booking, slotState, onDuty>>

CollectPaymentUpdate(r) ==
  /\ Written(r, "collectPayment")
  /\ booking' = [booking EXCEPT ![req[r].b].collected = TRUE]
  /\ Reply(r)
  /\ UNCHANGED <<slotState, onDuty>>

\* By the assigned worker, or by staff.
Complete(r, b) ==
  /\ Begin(r, b, Handle("complete", "remaining", b))
  /\ booking[b].status \in {"ASSIGNED", "IN_PROGRESS"}
  /\ UNCHANGED <<booking, slotState, onDuty>>

\* Mutant: any payment at all is taken for the whole.
CompleteCheckAnyPayment(r) ==
  /\ Running(r, "complete", "remaining")
  /\ Exists(req[r].b)
  /\ IF booking[req[r].b].paid = 0 /\ Owed(req[r].b) > 0
       THEN Reply(r) ELSE Await(r, "update")
  /\ UNCHANGED <<booking, slotState, onDuty>>

CompleteCheckRemaining(r) ==
  /\ Running(r, "complete", "remaining")
  /\ Exists(req[r].b)
  /\ IF Owed(req[r].b) > 0 THEN Reply(r) ELSE Await(r, "update")
  /\ UNCHANGED <<booking, slotState, onDuty>>

CompleteUpdate(r) ==
  /\ Written(r, "complete")
  /\ booking' = [booking EXCEPT ![req[r].b].status = "COMPLETED"]
  /\ Reply(r)
  /\ UNCHANGED <<slotState, onDuty>>

-----------------------------------------------------------------------------
(* Cancellation, no-show, rescheduling, deletion *)

\* The owner and staff always, the assigned worker until the job is accepted.
MayCancel(actor, row) ==
  \/ actor \in {"owner", "staff"}
  \/ /\ actor = "worker"
     /\ row.worker # None
     /\ row.status = "ASSIGNED"
     /\ row.acceptedBy = None

\* The slot is reconciled first (releaseSlot), the booking updated after it.
Cancel(r, b, actor) ==
  LET s == booking[b].slot
      h == Handle("cancel", "update", b)
  IN  /\ Begin(r, b, IF s = None THEN h
                     ELSE [h EXCEPT !.at = "release", !.jobs[s] = "read"])
      /\ MayCancel(actor, booking[b])
      /\ NotTerminal(booking[b].status)
      /\ CanTransition(booking[b].status, "CANCELLED")
      /\ UNCHANGED <<booking, slotState, onDuty>>

CancelUpdate(r) ==
  /\ Written(r, "cancel")
  /\ booking' = [booking EXCEPT ![req[r].b].status = "CANCELLED"]
  /\ Reply(r)
  /\ UNCHANGED <<slotState, onDuty>>

\* Mutant: only the terminal statuses are refused.
MarkNoShowAnyTime(r, b) ==
  /\ Begin(r, b, Handle("noShow", "update", b))
  /\ NotTerminal(booking[b].status)
  /\ UNCHANGED <<booking, slotState, onDuty>>

MarkNoShow(r, b) ==
  /\ Begin(r, b, Handle("noShow", "update", b))
  /\ CanTransition(booking[b].status, "NO_SHOW")
  /\ UNCHANGED <<booking, slotState, onDuty>>

MarkNoShowUpdate(r) ==
  /\ Written(r, "noShow")
  /\ booking' = [booking EXCEPT ![req[r].b].status = "NO_SHOW"]
  /\ Reply(r)
  /\ UNCHANGED <<slotState, onDuty>>

\* s is dto.timeSlotId, or the booking's own slot when only the date moves.
Reschedule(r, b, s) ==
  /\ Begin(r, b, [Handle("reschedule", IF s = booking[b].slot THEN "update" ELSE "claim", b)
                    EXCEPT !.slot = s, !.from = booking[b].slot])
  /\ NotTerminal(booking[b].status)
  /\ CanTransition(booking[b].status, "RESCHEDULED")
  /\ UNCHANGED <<booking, slotState, onDuty>>

RescheduleClaimSlot(r) ==
  /\ Running(r, "reschedule", "claim")
  /\ IF SlotAdmits(req[r].slot) THEN Await(r, "update") ELSE Reply(r)
  /\ UNCHANGED <<booking, slotState, onDuty>>

\* Both slots are reconciled in the background, after the update.
RescheduleUpdate(r) ==
  /\ Written(r, "reschedule")
  /\ LET h == req[r]
         written == h.slot = None \/ SlotExists(h.slot)
     IN  IF written
           THEN /\ booking' = [booking EXCEPT ![h.b].status = "RESCHEDULED",
                                              ![h.b].slot = h.slot]
                /\ ReplyAndReconcile(r, IF h.slot = h.from THEN {}
                                        ELSE {h.slot, h.from} \ {None})
           ELSE booking' = booking /\ Reply(r)
  /\ UNCHANGED <<slotState, onDuty>>

Remove(r, b) ==
  /\ Begin(r, b, Handle("remove", "update", b))
  /\ ~NotTerminal(booking[b].status)
  /\ UNCHANGED <<booking, slotState, onDuty>>

RemoveDelete(r) ==
  /\ Written(r, "remove")
  /\ booking' = [booking EXCEPT ![req[r].b] = [NoRow EXCEPT !.status = "DELETED"]]
  /\ Reply(r)
  /\ UNCHANGED <<slotState, onDuty>>

-----------------------------------------------------------------------------
(* Payment of a booking *)

VerifyOps == {"razorpayVerify", "paymentVerify", "webhookCaptured"}

\* The booking is read before the payment, which is one of c's invoice, is
\* verified; whether it will move on (flag) and which slot is reconciled (from)
\* is decided by what was read.
BeginVerify(r, b, c, op) ==
  /\ Begin(r, b, [Handle(op, "gateway", b)
                    EXCEPT !.flag = booking[b].status = "PENDING_PAYMENT",
                           !.from = booking[b].slot, !.payOf = c])
  /\ UNCHANGED <<booking, slotState, onDuty>>

\* The client names the booking and the payment; nothing compares the two.
VerifyPaymentAndConfirm(r, b, c) ==
  /\ c = b \/ "foreignPayment" \in Workload
  /\ BeginVerify(r, b, c, "razorpayVerify")

\* Here the payment's invoice must be the booking's.
VerifyBookingPayment(r, b) == BeginVerify(r, b, b, "paymentVerify")

\* Here the booking is found from the payment.
OnPaymentCaptured(r, b) == BeginVerify(r, b, b, "webhookCaptured")

Verifying(r) ==
  /\ req[r].op \in VerifyOps
  /\ req[r].at = "gateway"
  /\ Exists(req[r].b)
  /\ Exists(req[r].payOf)

\* Mutant: the webhook handler forgets the booking.
AfterVerificationNotByWebhook(r) ==
  IF req[r].flag /\ req[r].op # "webhookCaptured" THEN Await(r, "update") ELSE Reply(r)

\* Of a booking already past PENDING_PAYMENT only payment fields are written.
AfterVerification(r) == IF req[r].flag THEN Await(r, "update") ELSE Reply(r)

\* The gateway's capture is recorded: the payment becomes SUCCESS.  `paid'
\* stops at Total.
PaymentSucceeds(r) ==
  /\ Verifying(r)
  /\ \E p \in {Advance, Total} :
       /\ p > booking[req[r].payOf].paid
       /\ booking' = [booking EXCEPT ![req[r].payOf].paid = p]
  /\ AfterVerification(r)
  /\ UNCHANGED <<slotState, onDuty>>

\* A retry of a payment that is SUCCESS already is served the same result by
\* both verify endpoints; the webhook handler returns early instead.
PaymentReplayed(r) ==
  /\ Verifying(r)
  /\ booking[req[r].payOf].paid > 0
  /\ IF req[r].op = "webhookCaptured" THEN Reply(r) ELSE AfterVerification(r)
  /\ UNCHANGED <<booking, slotState, onDuty>>

\* Mutant: a rejected payment moves the booking on all the same.
PaymentRejectedIgnored(r) ==
  /\ req[r].op \in VerifyOps
  /\ req[r].at = "gateway"
  /\ AfterVerification(r)
  /\ UNCHANGED <<booking, slotState, onDuty>>

\* Bad signature, unknown order, payment not PENDING.
PaymentRejected(r) ==
  /\ req[r].op \in VerifyOps
  /\ req[r].at = "gateway"
  /\ Reply(r)
  /\ UNCHANGED <<booking, slotState, onDuty>>

VerifyPaymentAndConfirmUpdate(r) ==
  /\ Written(r, "razorpayVerify")
  /\ booking' = [booking EXCEPT ![req[r].b].status = "PENDING"]
  /\ ReplyAndReconcile(r, {req[r].from} \ {None})
  /\ UNCHANGED <<slotState, onDuty>>

\* No reconciliation here, nor in the webhook handler.
VerifyBookingPaymentUpdate(r) ==
  /\ Written(r, "paymentVerify")
  /\ booking' = [booking EXCEPT ![req[r].b].status = "PENDING"]
  /\ Reply(r)
  /\ UNCHANGED <<slotState, onDuty>>

OnPaymentCapturedUpdate(r) ==
  /\ Written(r, "webhookCaptured")
  /\ booking' = [booking EXCEPT ![req[r].b].status = "PENDING"]
  /\ Reply(r)
  /\ UNCHANGED <<slotState, onDuty>>

\* A refund, or a payment.failed or refund.processed event: a SUCCESS payment
\* is no longer SUCCESS, and the booking's status is left alone.
ReversePayment(b) ==
  /\ "reverse" \in Workload
  /\ Exists(b)
  /\ \E p \in {0, Advance} :
       /\ p < booking[b].paid
       /\ booking' = [booking EXCEPT ![b].paid = p, ![b].reversed = TRUE]
  /\ UNCHANGED <<slotState, onDuty, req>>

\* Mutant: an offline payment is not held against the balance.
OfflinePaymentUnchecked(b) ==
  /\ "offlinePayment" \in Workload
  /\ Exists(b)
  /\ booking' = [booking EXCEPT ![b].paid = @ + Advance]
  /\ UNCHANGED <<slotState, onDuty, req>>

\* markPaid, or an offline payment that settles the invoice.
OfflinePayment(b) ==
  /\ "offlinePayment" \in Workload
  /\ Exists(b)
  /\ booking[b].paid < Total
  /\ booking' = [booking EXCEPT ![b].paid = Total]
  /\ UNCHANGED <<slotState, onDuty, req>>

-----------------------------------------------------------------------------

\* The next query fails because the booking was deleted.
RowGone(r) ==
  /\ req[r].at \in {"update", "remaining", "gateway"}
  /\ req[r].b # None
  /\ ~Exists(req[r].b)
  /\ Reply(r)
  /\ UNCHANGED <<booking, slotState, onDuty>>

CheckIn(w) ==
  /\ "assignWorker" \in Workload
  /\ w \notin onDuty
  /\ onDuty' = onDuty \union {w}
  /\ UNCHANGED <<booking, slotState, req>>

CheckOut(w) ==
  /\ w \in onDuty
  /\ onDuty' = onDuty \ {w}
  /\ UNCHANGED <<booking, slotState, req>>

\* Slots may have been created before the run starts.
Init ==
  /\ booking = [b \in Booking |-> NoRow]
  /\ slotState \in [Slot -> {"absent", "open"}]
  /\ onDuty = {}
  /\ req = [r \in Request |-> Idle]

Call(r) ==
  \/ \E b \in Booking :
       \/ \E s \in Slot : Create(r, b, s)
       \/ AssignManager(r, b)
       \/ \E w \in Worker : AssignWorker(r, b, w)
       \/ Confirm(r, b)
       \/ AcceptByWorker(r, b)
       \/ Start(r, b)
       \/ CollectPayment(r, b)
       \/ Complete(r, b)
       \/ \E actor \in {"owner", "staff", "worker"} : Cancel(r, b, actor)
       \/ MarkNoShow(r, b)
       \/ \E s \in Slot \union {booking[b].slot} : Reschedule(r, b, s)
       \/ Remove(r, b)
       \/ \E c \in Booking : VerifyPaymentAndConfirm(r, b, c)
       \/ VerifyBookingPayment(r, b)
       \/ OnPaymentCaptured(r, b)
  \/ \E s \in Slot : ToggleSlot(r, s) \/ RemoveSlot(r, s)

Continue(r) ==
  \/ CreateGenerateRef(r)
  \/ CreateInsert(r)
  \/ AssignManagerUpdate(r)
  \/ AssignWorkerCheckDuty(r)
  \/ AssignWorkerUpdate(r)
  \/ ConfirmUpdate(r)
  \/ AcceptByWorkerUpdate(r)
  \/ StartUpdate(r)
  \/ CollectPaymentUpdate(r)
  \/ CompleteCheckRemaining(r)
  \/ CompleteUpdate(r)
  \/ CancelUpdate(r)
  \/ MarkNoShowUpdate(r)
  \/ RescheduleClaimSlot(r)
  \/ RescheduleUpdate(r)
  \/ RemoveDelete(r)
  \/ PaymentSucceeds(r)
  \/ PaymentReplayed(r)
  \/ PaymentRejected(r)
  \/ VerifyPaymentAndConfirmUpdate(r)
  \/ VerifyBookingPaymentUpdate(r)
  \/ OnPaymentCapturedUpdate(r)
  \/ \E s \in Slot : ReconcileRead(r, s) \/ ReconcileWrite(r, s)
  \/ ToggleSlotUpdate(r)
  \/ RemoveSlotDelete(r)
  \/ RowGone(r)

Environment ==
  \/ \E s \in Slot : CreateSlot(s)
  \/ \E b \in Booking : ReversePayment(b) \/ OfflinePayment(b)
  \/ \E w \in Worker : CheckIn(w) \/ CheckOut(w)

Next == Environment \/ \E r \in Request : Call(r) \/ Continue(r)

Spec == Init /\ [][Next]_vars

\* A handler that started keeps running: the event loop resumes it whenever
\* its query returns.  Clients are under no obligation to call anything.
FairSpec == Spec /\ \A r \in Request : WF_vars(Continue(r))

-----------------------------------------------------------------------------
(* Properties *)

\* The rows and handlers have the shapes declared above (the schema's columns
\* and the locals each handler keeps across its awaits).
TypeOK ==
  /\ booking \in [Booking -> Row]
  /\ slotState \in [Slot -> {"absent", "open", "closed", "removed"}]
  /\ onDuty \in SUBSET Worker
  /\ req \in [Request -> Handler]

\* complete() checks the outstanding balance two queries before it writes
\* COMPLETED.  However payments, collections and other requests interleave, a
\* completed booking owes nothing, unless a payment was reversed: nothing else
\* can make a balance grow again.
CompletedIsSettled ==
  \A b \in Booking :
    booking[b].status = "COMPLETED" => Owed(b) = 0 \/ booking[b].reversed

\* PENDING means "payment already verified as successful, awaiting manager
\* confirmation": whichever of the three verification paths wrote it, and
\* however stale the row it had read, a payment of this booking succeeded.
\* Holds when every client verifies the payment of the booking it names.
PendingIsPaid ==
  \A b \in Booking :
    booking[b].status = "PENDING" => booking[b].paid > 0 \/ booking[b].reversed

\* A booking that is being worked on, or was completed, has a worker, even
\* when requests write statuses over each other.
WorkNeedsWorker ==
  \A b \in Booking :
    booking[b].status \in {"ASSIGNED", "IN_PROGRESS", "COMPLETED"}
      => booking[b].worker # None

\* A customer whose payment was verified is not left waiting: the handler that
\* recorded it moves the booking out of PENDING_PAYMENT, or another did.
\* Holds when processes do not die, and money comes through verification.
VerifiedIsConfirmed ==
  \A b \in Booking :
    booking[b].status = "PENDING_PAYMENT" /\ booking[b].paid > 0
      ~> booking[b].status # "PENDING_PAYMENT"

\* create() and reschedule() never move a booking onto a slot that is full at
\* the moment they write, although they checked it queries earlier.  Holds
\* when requests do not overlap.
JoinOnlyWithRoom ==
  [][\A b \in Booking, s \in Slot :
       booking[b].slot # s /\ booking'[b].slot = s => ~IsFull(s)]_vars

\* The last step of a reconciliation leaves isAvailable telling the truth
\* about the slot.  Holds when requests do not overlap.
ReconciledIsExact ==
  [][\A r \in Request, s \in Slot :
       req[r].jobs[s] # "none" /\ req'[r].jobs[s] = "none" /\ SlotExists(s)
         => (slotState'[s] = "closed" <=> IsFull(s)')]_vars

Lifecycle ==
  INSTANCE BookingLifecycle WITH status <- [b \in Booking |-> booking[b].status]

\* Every change of status is one the status machine allows (module
\* BookingLifecycle): holds when requests do not overlap.
FollowsLifecycle == Lifecycle!Spec

\* Two customers never both hold, and have paid for, the last place of a slot.
NoOverbooking == \A s \in Slot : Cardinality(Holders(s)) <= Capacity[s]
=============================================================================
