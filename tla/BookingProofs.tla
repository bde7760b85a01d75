--------------------------- MODULE BookingProofs ---------------------------
(***************************************************************************)
(* Theorems about Booking for any number of bookings, slots, workers and   *)
(* overlapping requests.                                                   *)
(***************************************************************************)
EXTENDS Booking, FiniteSetTheorems, TLAPS

-----------------------------------------------------------------------------
(* Typing *)

LEMMA IdleType == Idle \in Handler
BY DEF Idle, Handler, NoJobs

LEMMA HandleType ==
  ASSUME NEW op \in Ops, NEW b \in Booking,
         NEW at \in {"idle", "count", "insert", "duty", "remaining", "release",
                     "claim", "gateway", "update", "background"}
  PROVE  Handle(op, at, b) \in Handler
BY DEF Handle, Idle, Handler, NoJobs

\* Replacing the state of one handler keeps the table of handlers well typed.
LEMMA SetHandlerType ==
  ASSUME TypeOK, NEW r \in Request, NEW h \in Handler,
         req' = [req EXCEPT ![r] = h]
  PROVE  req' \in [Request -> Handler]
BY DEF TypeOK

LEMMA ReplyType ==
  ASSUME TypeOK, NEW r \in Request, Reply(r)
  PROVE  req' \in [Request -> Handler]
BY IdleType, SetHandlerType DEF Reply

LEMMA AwaitType ==
  ASSUME TypeOK, NEW r \in Request, Await(r, "update")
  PROVE  req' \in [Request -> Handler]
<1>1. [req[r] EXCEPT !.at = "update"] \in Handler
  BY DEF TypeOK, Handler
<1>. QED BY <1>1, SetHandlerType DEF Await

LEMMA ReplyAndReconcileType ==
  ASSUME TypeOK, NEW r \in Request, NEW S, ReplyAndReconcile(r, S)
  PROVE  req' \in [Request -> Handler]
<1>1. CASE S = {}
  BY <1>1, ReplyType DEF ReplyAndReconcile
<1>2. CASE S # {}
  <2>1. [Idle EXCEPT !.op = req[r].op, !.at = "background",
                     !.jobs = [s \in Slot |-> IF s \in S THEN "read" ELSE "none"]]
          \in Handler
    BY DEF TypeOK, Handler, Idle, NoJobs
  <2>. QED BY <1>2, <2>1, SetHandlerType DEF ReplyAndReconcile
<1>. QED BY <1>1, <1>2

LEMMA AfterJobsType ==
  ASSUME NEW h \in Handler, NEW s \in Slot
  PROVE  AfterJobs(h, s) \in Handler
<1>. DEFINE jobs == [h.jobs EXCEPT ![s] = "none"]
<1>1. jobs \in [Slot -> {"none", "read", "close", "reopen"}]
  BY DEF Handler
<1>. HIDE DEF jobs
<1>2. [h EXCEPT !.at = "update", !.jobs = jobs] \in Handler
  BY <1>1 DEF Handler
<1>3. [h EXCEPT !.jobs = jobs] \in Handler
  BY <1>1 DEF Handler
<1>. QED BY <1>2, <1>3, IdleType DEF AfterJobs, jobs

LEMMA NoRowType == NoRow \in Row
BY AmountsAssumption DEF NoRow, Row

\* Columns are updated with values of their types.
LEMMA RowUpdateType ==
  ASSUME NEW row \in Row
  PROVE  /\ \A s \in Status, w \in Worker \union {None} :
              [row EXCEPT !.status = s, !.worker = w] \in Row
         /\ \A s \in Status, t \in Slot \union {None} :
              [row EXCEPT !.status = s, !.slot = t] \in Row
         /\ \A w \in Worker \union {None} : [row EXCEPT !.acceptedBy = w] \in Row
         /\ \A p \in 0..Total : [row EXCEPT !.paid = p, !.reversed = TRUE] \in Row
         /\ [row EXCEPT !.collected = TRUE] \in Row
<1>1. \A s \in Status, w \in Worker \union {None} :
        [row EXCEPT !.status = s, !.worker = w] \in Row
  BY DEF Row
<1>2. \A s \in Status, t \in Slot \union {None} :
        [row EXCEPT !.status = s, !.slot = t] \in Row
  BY DEF Row
<1>3. \A w \in Worker \union {None} : [row EXCEPT !.acceptedBy = w] \in Row
  BY DEF Row
<1>4. \A p \in 0..Total : [row EXCEPT !.paid = p, !.reversed = TRUE] \in Row
  BY DEF Row
<1>5. [row EXCEPT !.collected = TRUE] \in Row
  BY DEF Row
<1>. QED BY <1>1, <1>2, <1>3, <1>4, <1>5

\* Statuses and the other columns take values of their types only.
LEMMA SetRowType ==
  ASSUME TypeOK, NEW b, NEW row, b \in Booking => row \in Row,
         booking' = [booking EXCEPT ![b] = row]
  PROVE  booking' \in [Booking -> Row]
BY DEF TypeOK
\* Each action that starts a handler, and each that resumes one, keeps every
\* variable in its type.
LEMMA CallType ==
  ASSUME TypeOK, NEW r \in Request, Call(r)
  PROVE  TypeOK'
<1>. USE DEF TypeOK
<1>1. ASSUME NEW b \in Booking, NEW h \in Handler, Begin(r, b, h),
             UNCHANGED <<booking, slotState, onDuty>>
      PROVE  TypeOK'
  BY <1>1, SetHandlerType DEF Begin
<1>2. ASSUME NEW b \in Booking, NEW s \in Slot, Create(r, b, s) PROVE TypeOK'
  <2>1. [Handle("create", "count", b) EXCEPT !.slot = s] \in Handler
    BY DEF Handle, Idle, Handler, NoJobs, Ops
  <2>. QED BY <1>2, <2>1, SetHandlerType DEF Create
<1>3. ASSUME NEW b \in Booking, AssignManager(r, b) PROVE TypeOK'
  BY <1>1, <1>3, HandleType DEF AssignManager, Ops
<1>4. ASSUME NEW b \in Booking, NEW w \in Worker, AssignWorker(r, b, w) PROVE TypeOK'
  <2>1. [Handle("assignWorker", "duty", b) EXCEPT !.worker = w] \in Handler
    BY DEF Handle, Idle, Handler, NoJobs, Ops
  <2>. QED BY <1>1, <1>4, <2>1 DEF AssignWorker
<1>5. ASSUME NEW b \in Booking, Confirm(r, b) PROVE TypeOK'
  BY <1>1, <1>5, HandleType DEF Confirm, Ops
<1>6. ASSUME NEW b \in Booking, AcceptByWorker(r, b) PROVE TypeOK'
  <2>1. [Handle("accept", "update", b) EXCEPT !.worker = booking[b].worker] \in Handler
    BY DEF Handle, Idle, Handler, NoJobs, Ops, Row
  <2>. QED BY <1>1, <1>6, <2>1 DEF AcceptByWorker
<1>7. ASSUME NEW b \in Booking, Start(r, b) PROVE TypeOK'
  BY <1>1, <1>7, HandleType DEF Start, Ops
<1>8. ASSUME NEW b \in Booking, CollectPayment(r, b) PROVE TypeOK'
  BY <1>1, <1>8, HandleType DEF CollectPayment, Ops
<1>9. ASSUME NEW b \in Booking, Complete(r, b) PROVE TypeOK'
  BY <1>1, <1>9, HandleType DEF Complete, Ops
<1>10. ASSUME NEW b \in Booking, NEW actor, Cancel(r, b, actor) PROVE TypeOK'
  <2>. DEFINE s == booking[b].slot
              h == Handle("cancel", "update", b)
              g == [h EXCEPT !.at = "release", !.jobs[s] = "read"]
  <2>1. h \in Handler
    BY HandleType DEF Ops
  <2>2. s # None => g \in Handler
    BY DEF Handle, Idle, Handler, NoJobs, Ops, Row
  <2>3. (IF s = None THEN h ELSE g) \in Handler
    BY <2>1, <2>2
  <2>. QED BY <1>1, <1>10, <2>3 DEF Cancel
<1>11. ASSUME NEW b \in Booking, MarkNoShow(r, b) PROVE TypeOK'
  BY <1>1, <1>11, HandleType DEF MarkNoShow, Ops
<1>12. ASSUME NEW b \in Booking, NEW s \in Slot \union {booking[b].slot},
              Reschedule(r, b, s)
       PROVE  TypeOK'
  <2>. DEFINE at == IF s = booking[b].slot THEN "update" ELSE "claim"
  <2>1. /\ s \in Slot \union {None}
        /\ booking[b].slot \in Slot \union {None}
        /\ at \in {"update", "claim"}
    BY DEF Row
  <2>2. [Handle("reschedule", at, b) EXCEPT !.slot = s, !.from = booking[b].slot]
          \in Handler
    BY <2>1 DEF Handle, Idle, Handler, NoJobs, Ops
  <2>. QED BY <1>1, <1>12, <2>2 DEF Reschedule
<1>13. ASSUME NEW b \in Booking, Remove(r, b) PROVE TypeOK'
  BY <1>1, <1>13, HandleType DEF Remove, Ops
<1>14. ASSUME NEW b \in Booking, NEW c \in Booking, NEW op \in VerifyOps,
              BeginVerify(r, b, c, op)
       PROVE  TypeOK'
  <2>1. [Handle(op, "gateway", b)
           EXCEPT !.flag = booking[b].status = "PENDING_PAYMENT",
                  !.from = booking[b].slot, !.payOf = c] \in Handler
    BY DEF Handle, Idle, Handler, NoJobs, Ops, VerifyOps, Row
  <2>. QED BY <1>1, <1>14, <2>1 DEF BeginVerify
<1>15. ASSUME NEW s \in Slot, ToggleSlot(r, s) PROVE TypeOK'
  <2>1. [Idle EXCEPT !.op = "toggleSlot", !.at = "update", !.slot = s,
                     !.flag = slotState[s] = "closed"] \in Handler
    BY DEF Idle, Handler, NoJobs, Ops
  <2>. QED BY <1>15, <2>1, SetHandlerType DEF ToggleSlot
<1>16. ASSUME NEW s \in Slot, RemoveSlot(r, s) PROVE TypeOK'
  <2>1. [Idle EXCEPT !.op = "removeSlot", !.at = "update", !.slot = s] \in Handler
    BY DEF Idle, Handler, NoJobs, Ops
  <2>. QED BY <1>16, <2>1, SetHandlerType DEF RemoveSlot
<1>. QED
  BY <1>2, <1>3, <1>4, <1>5, <1>6, <1>7, <1>8, <1>9, <1>10, <1>11, <1>12, <1>13,
     <1>14, <1>15, <1>16
  DEF Call, VerifyPaymentAndConfirm, VerifyBookingPayment, OnPaymentCaptured, VerifyOps

\* An update that sets the status of one row.
LEMMA SetStatusType ==
  ASSUME TypeOK, NEW b, NEW s \in Status,
         booking' = [booking EXCEPT ![b].status = s]
  PROVE  booking' \in [Booking -> Row]
<1>1. b \in Booking => [booking[b] EXCEPT !.status = s] \in Row
  BY DEF TypeOK, Row
<1>2. booking' = [booking EXCEPT ![b] = [booking[b] EXCEPT !.status = s]]
  OBVIOUS
<1>. QED BY <1>1, <1>2, SetRowType

LEMMA ContinueType ==
  ASSUME TypeOK, NEW r \in Request, Continue(r)
  PROVE  TypeOK'
<1>. DEFINE c == req[r].b
<1>0. /\ req[r].worker \in Worker \union {None}
      /\ req[r].slot \in Slot \union {None}
      /\ req[r].ref \in Nat
  BY DEF TypeOK, Handler
<1>1. ASSUME NEW s \in Status, booking' = [booking EXCEPT ![c].status = s],
             Reply(r), UNCHANGED <<slotState, onDuty>>
      PROVE  TypeOK'
  BY <1>1, SetStatusType, ReplyType DEF TypeOK
<1>2. ASSUME UNCHANGED <<booking, slotState, onDuty>>,
             Reply(r) \/ Await(r, "update")
      PROVE  TypeOK'
  BY <1>2, ReplyType, AwaitType DEF TypeOK
<1>3. ASSUME NEW row \in Row, booking' = [booking EXCEPT ![c] = row],
             Reply(r) \/ Await(r, "update") \/ (\E S : ReplyAndReconcile(r, S)),
             UNCHANGED <<slotState, onDuty>>
      PROVE  TypeOK'
  BY <1>3, SetRowType, ReplyType, AwaitType, ReplyAndReconcileType DEF TypeOK
<1>4. CASE CreateGenerateRef(r)
  <2>. DEFINE n == Cardinality({b \in Booking : Exists(b)}) + 1
  <2>1. n \in Nat
    <3>1. IsFiniteSet({b \in Booking : Exists(b)})
      BY FiniteAssumption, FS_Subset
    <3>. QED BY <3>1, FS_CardinalityType
  <2>. HIDE DEF n
  <2>2. [req[r] EXCEPT !.at = "insert", !.ref = n] \in Handler
    <3>1. [req[r] EXCEPT !.at = "insert"] \in Handler
      BY DEF TypeOK, Handler
    <3>2. \A h \in Handler : [h EXCEPT !.ref = n] \in Handler
      BY <2>1 DEF Handler
    <3>3. [req[r] EXCEPT !.at = "insert", !.ref = n]
            = [[req[r] EXCEPT !.at = "insert"] EXCEPT !.ref = n]
      OBVIOUS
    <3>. QED BY <3>1, <3>2, <3>3
  <2>3. req' = [req EXCEPT ![r] = [req[r] EXCEPT !.at = "insert", !.ref = n]]
    BY <1>4 DEF CreateGenerateRef, n
  <2>. QED BY <1>4, <2>2, <2>3, SetHandlerType DEF CreateGenerateRef, TypeOK
<1>5. CASE CreateInsert(r)
  <2>. DEFINE row == [NoRow EXCEPT !.status = "PENDING_PAYMENT",
                                   !.slot = req[r].slot, !.ref = req[r].ref]
  <2>1. row \in Row
    BY <1>0, NoRowType DEF NoRow, Row, Status
  <2>2. booking' = booking \/ booking' = [booking EXCEPT ![c] = row]
    BY <1>5 DEF CreateInsert
  <2>. QED BY <1>2, <1>3, <1>5, <2>1, <2>2 DEF CreateInsert
<1>6. CASE AssignManagerUpdate(r)
  BY <1>1, <1>6 DEF AssignManagerUpdate, Status
<1>7. CASE ConfirmUpdate(r)
  BY <1>1, <1>7 DEF ConfirmUpdate, Status
<1>8. CASE StartUpdate(r)
  BY <1>1, <1>8 DEF StartUpdate, Status
<1>9. CASE CompleteUpdate(r)
  BY <1>1, <1>9 DEF CompleteUpdate, Status
<1>10. CASE CancelUpdate(r)
  BY <1>1, <1>10 DEF CancelUpdate, Status
<1>11. CASE MarkNoShowUpdate(r)
  BY <1>1, <1>11 DEF MarkNoShowUpdate, Status
<1>12. CASE AssignWorkerUpdate(r)
  <2>. DEFINE row == [booking[c] EXCEPT !.status = "ASSIGNED", !.worker = req[r].worker]
  <2>0. "ASSIGNED" \in Status
    BY DEF Status
  <2>1. c \in Booking => row \in Row
    BY <1>0, <2>0, RowUpdateType DEF TypeOK
  <2>2. booking' = [booking EXCEPT ![c] = row]
    BY <1>12 DEF AssignWorkerUpdate
  <2>3. booking' \in [Booking -> Row]
    BY <2>1, <2>2, SetRowType
  <2>. QED BY <1>12, <2>3, ReplyType DEF AssignWorkerUpdate, TypeOK
<1>13. CASE AcceptByWorkerUpdate(r)
  <2>. DEFINE row == [booking[c] EXCEPT !.acceptedBy = req[r].worker]
  <2>1. c \in Booking => row \in Row
    BY <1>0, RowUpdateType DEF TypeOK
  <2>2. booking' = [booking EXCEPT ![c] = row]
    BY <1>13 DEF AcceptByWorkerUpdate
  <2>3. booking' \in [Booking -> Row]
    BY <2>1, <2>2, SetRowType
  <2>. QED BY <1>13, <2>3, ReplyType DEF AcceptByWorkerUpdate, TypeOK
<1>14. CASE CollectPaymentUpdate(r)
  <2>. DEFINE row == [booking[c] EXCEPT !.collected = TRUE]
  <2>1. c \in Booking => row \in Row
    BY RowUpdateType DEF TypeOK
  <2>2. booking' = [booking EXCEPT ![c] = row]
    BY <1>14 DEF CollectPaymentUpdate
  <2>3. booking' \in [Booking -> Row]
    BY <2>1, <2>2, SetRowType
  <2>. QED BY <1>14, <2>3, ReplyType DEF CollectPaymentUpdate, TypeOK
<1>15. CASE RemoveDelete(r)
  <2>. DEFINE row == [NoRow EXCEPT !.status = "DELETED"]
  <2>1. row \in Row
    BY NoRowType DEF Row
  <2>2. booking' = [booking EXCEPT ![c] = row]
    BY <1>15 DEF RemoveDelete
  <2>3. booking' \in [Booking -> Row]
    BY <2>1, <2>2, SetRowType
  <2>. QED BY <1>15, <2>3, ReplyType DEF RemoveDelete, TypeOK
<1>16. CASE AssignWorkerCheckDuty(r)
  BY <1>2, <1>16 DEF AssignWorkerCheckDuty, AfterVerification
<1>17. CASE CompleteCheckRemaining(r)
  BY <1>2, <1>17 DEF CompleteCheckRemaining, AfterVerification
<1>18. CASE RescheduleClaimSlot(r)
  BY <1>2, <1>18 DEF RescheduleClaimSlot, AfterVerification
<1>19. CASE PaymentReplayed(r)
  BY <1>2, <1>19 DEF PaymentReplayed, AfterVerification
<1>20. CASE PaymentRejected(r)
  BY <1>2, <1>20 DEF PaymentRejected, AfterVerification
<1>21. CASE RowGone(r)
  BY <1>2, <1>21 DEF RowGone, AfterVerification
<1>22. CASE RescheduleUpdate(r)
  <2>. DEFINE row == [booking[c] EXCEPT !.status = "RESCHEDULED", !.slot = req[r].slot]
  <2>0. "RESCHEDULED" \in Status
    BY DEF Status
  <2>1. c \in Booking => row \in Row
    BY <1>0, <2>0, RowUpdateType DEF TypeOK
  <2>2. \/ booking' = booking
        \/ booking' = [booking EXCEPT ![c] = row]
    BY <1>22 DEF RescheduleUpdate
  <2>3. booking' \in [Booking -> Row]
    BY <2>1, <2>2, SetRowType DEF TypeOK
  <2>4. Reply(r) \/ \E S : ReplyAndReconcile(r, S)
    BY <1>22 DEF RescheduleUpdate
  <2>. QED BY <1>22, <2>3, <2>4, ReplyType, ReplyAndReconcileType DEF RescheduleUpdate, TypeOK
<1>23. CASE PaymentSucceeds(r)
  <2>. DEFINE d == req[r].payOf
  <2>1. PICK p \in {Advance, Total} : booking' = [booking EXCEPT ![d].paid = p]
    BY <1>23 DEF PaymentSucceeds
  <2>. DEFINE row == [booking[d] EXCEPT !.paid = p]
  <2>2. d \in Booking => row \in Row
    BY AmountsAssumption DEF TypeOK, Row
  <2>3. booking' = [booking EXCEPT ![d] = row]
    BY <2>1
  <2>4. booking' \in [Booking -> Row]
    BY <2>2, <2>3, SetRowType
  <2>. QED BY <1>23, <2>4, ReplyType, AwaitType
       DEF PaymentSucceeds, AfterVerification, TypeOK
<1>24. CASE VerifyPaymentAndConfirmUpdate(r)
  <2>1. booking' \in [Booking -> Row]
    BY <1>24, SetStatusType DEF VerifyPaymentAndConfirmUpdate, Status
  <2>. QED BY <1>24, <2>1, ReplyAndReconcileType DEF VerifyPaymentAndConfirmUpdate, TypeOK
<1>25. CASE VerifyBookingPaymentUpdate(r)
  BY <1>1, <1>25 DEF VerifyBookingPaymentUpdate, Status
<1>26. CASE OnPaymentCapturedUpdate(r)
  BY <1>1, <1>26 DEF OnPaymentCapturedUpdate, Status
<1>27. ASSUME NEW s \in Slot, ReconcileRead(r, s) PROVE TypeOK'
  <2>. DEFINE close == [req[r] EXCEPT !.jobs[s] = "close"]
              reopen == [req[r] EXCEPT !.jobs[s] = "reopen"]
  <2>1. close \in Handler /\ reopen \in Handler
    <3>0. \A h \in Handler, j \in [Slot -> {"none", "read", "close", "reopen"}] :
            [h EXCEPT !.jobs = j] \in Handler
      BY DEF Handler
    <3>1. \A j \in [Slot -> {"none", "read", "close", "reopen"}] :
            [req[r] EXCEPT !.jobs = j] \in Handler
      BY <3>0 DEF TypeOK
    <3>2. \A v \in {"close", "reopen"} :
            [req[r].jobs EXCEPT ![s] = v] \in [Slot -> {"none", "read", "close", "reopen"}]
      BY DEF TypeOK, Handler
    <3>. QED BY <3>1, <3>2
  <2>2. AfterJobs(req[r], s) \in Handler
    BY AfterJobsType DEF TypeOK
  <2>3. \E h \in {close, reopen, AfterJobs(req[r], s)} : req' = [req EXCEPT ![r] = h]
    BY <1>27 DEF ReconcileRead
  <2>. QED BY <1>27, <2>1, <2>2, <2>3, SetHandlerType DEF ReconcileRead, TypeOK
<1>28. ASSUME NEW s \in Slot, ReconcileWrite(r, s) PROVE TypeOK'
  <2>1. AfterJobs(req[r], s) \in Handler
    BY AfterJobsType DEF TypeOK
  <2>2. \E h \in {Idle, AfterJobs(req[r], s)} : req' = [req EXCEPT ![r] = h]
    BY <1>28 DEF ReconcileWrite
  <2>3. slotState' \in [Slot -> {"absent", "open", "closed", "removed"}]
    BY <1>28 DEF ReconcileWrite, TypeOK
  <2>. QED BY <1>28, <2>1, <2>2, <2>3, IdleType, SetHandlerType DEF ReconcileWrite, TypeOK
<1>29. CASE ToggleSlotUpdate(r)
  <2>1. slotState' \in [Slot -> {"absent", "open", "closed", "removed"}]
    BY <1>29 DEF ToggleSlotUpdate, TypeOK
  <2>. QED BY <1>29, <2>1, ReplyType DEF ToggleSlotUpdate, TypeOK
<1>30. CASE RemoveSlotDelete(r)
  <2>1. slotState' \in [Slot -> {"absent", "open", "closed", "removed"}]
    BY <1>30 DEF RemoveSlotDelete, TypeOK
  <2>2. \A b \in Booking : [booking[b] EXCEPT !.slot = IF @ = req[r].slot THEN None ELSE @]
                              \in Row
    BY DEF TypeOK, Row
  <2>3. booking' \in [Booking -> Row]
    BY <1>30, <2>2 DEF RemoveSlotDelete, TypeOK
  <2>. QED BY <1>30, <2>1, <2>3, ReplyType DEF RemoveSlotDelete, TypeOK
<1>. QED
  BY <1>4, <1>5, <1>6, <1>7, <1>8, <1>9, <1>10, <1>11, <1>12, <1>13, <1>14, <1>15, <1>16, <1>17, <1>18, <1>19, <1>20, <1>21, <1>22, <1>23, <1>24, <1>25, <1>26, <1>27, <1>28, <1>29, <1>30
  DEF Continue

LEMMA EnvironmentType ==
  ASSUME TypeOK, Environment
  PROVE  TypeOK'
<1>1. ASSUME NEW s \in Slot, CreateSlot(s) PROVE TypeOK'
  BY <1>1 DEF CreateSlot, TypeOK
<1>2. ASSUME NEW b \in Booking, ReversePayment(b) PROVE TypeOK'
  <2>1. PICK p \in {0, Advance} :
          booking' = [booking EXCEPT ![b] =
                        [booking[b] EXCEPT !.paid = p, !.reversed = TRUE]]
    BY <1>2 DEF ReversePayment
  <2>2. [booking[b] EXCEPT !.paid = p, !.reversed = TRUE] \in Row
    <3>1. booking[b] \in Row /\ p \in 0..Total
      BY AmountsAssumption DEF TypeOK
    <3>. QED BY <3>1, RowUpdateType
  <2>. QED BY <1>2, <2>1, <2>2, SetRowType DEF ReversePayment, TypeOK
<1>3. ASSUME NEW b \in Booking, OfflinePayment(b) PROVE TypeOK'
  <2>1. [booking[b] EXCEPT !.paid = Total] \in Row
    BY AmountsAssumption DEF TypeOK, Row
  <2>. QED BY <1>3, <2>1, SetRowType DEF OfflinePayment, TypeOK
<1>4. ASSUME NEW w \in Worker, CheckIn(w) \/ CheckOut(w) PROVE TypeOK'
  BY <1>4 DEF CheckIn, CheckOut, TypeOK
<1>. QED BY <1>1, <1>2, <1>3, <1>4 DEF Environment

LEMMA TypeInit == Init => TypeOK
BY NoRowType, IdleType DEF Init, TypeOK

LEMMA TypeStep == TypeOK /\ [Next]_vars => TypeOK'
<1>1. TypeOK /\ UNCHANGED vars => TypeOK'
  BY DEF TypeOK, vars
<1>. QED BY <1>1, CallType, ContinueType, EnvironmentType DEF Next

\* Type correctness of the rows, the slots and the handlers' locals, however
\* many requests overlap.
THEOREM TypeCorrect == Spec => []TypeOK
BY TypeInit, TypeStep, PTL DEF Spec

-----------------------------------------------------------------------------
(* Safety                                                                  *)
(*                                                                         *)
(* A row may be read, and written queries later over whatever other        *)
(* requests wrote meanwhile; what saves the invariants is that the facts a *)
(* handler has checked (a worker, a payment, no balance) stay true of a    *)
(* row.  That a payment is the booking's own is left to the client on one  *)
(* path: Matched is the assumption that clients get it right.              *)
(*                                                                         *)
(* The last part is about one request at a time: then everything a handler *)
(* has read stays true until it writes, in spite of payments, reversals    *)
(* and staff coming and going.                                             *)

Settled(b) == Owed(b) = 0 \/ booking[b].reversed

PaidFor(b) == booking[b].paid > 0 \/ booking[b].reversed

HasWorker(b) == booking[b].worker # None

Matched == "foreignPayment" \notin Workload

\* What the three invariants say of one row.
RowOK(b) ==
  /\ booking[b].status = "COMPLETED" => Settled(b)
  /\ Matched /\ booking[b].status = "PENDING" => PaidFor(b)
  /\ booking[b].status \in {"ASSIGNED", "IN_PROGRESS", "COMPLETED"} => HasWorker(b)

\* What a handler has checked, and still relies on, of the row it will write.
HandlerOK(h) ==
  /\ h.op = "create" => h.b \in Booking /\ booking[h.b].status = "NONE"
  /\ h.op = "assignWorker" => h.worker \in Worker
  /\ h.at = "release" => h.op = "cancel"
  /\ Matched /\ h.op \in VerifyOps /\ h.at = "gateway" => h.payOf = h.b
  /\ h.b \in Booking /\ Exists(h.b) =>
       /\ h.op \in {"start", "complete"} => HasWorker(h.b)
       /\ h.op = "complete" /\ h.at = "update" => Settled(h.b)
       /\ Matched /\ h.op \in VerifyOps /\ h.at = "update" => PaidFor(h.b)

\* The id of a row being created is known to its handler only.
Fresh ==
  \A q, r \in Request : q # r /\ req[r].op = "create" => req[q].b # req[r].b

SafetyInv ==
  /\ TypeOK
  /\ \A b \in Booking : RowOK(b)
  /\ \A r \in Request : HandlerOK(req[r])
  /\ Fresh

\* How rows change under everybody's feet.
Grows(b) ==
  /\ booking[b].status = "NONE" => booking'[b].status = "NONE"
  /\ Exists(b)' => /\ Exists(b)
                   /\ HasWorker(b) => HasWorker(b)'
                   /\ Settled(b) => Settled(b)'
                   /\ PaidFor(b) => PaidFor(b)'

-----------------------------------------------------------------------------

LEMMA SafetyInvImplies ==
  SafetyInv => /\ CompletedIsSettled
               /\ Matched => PendingIsPaid
               /\ WorkNeedsWorker
BY DEF SafetyInv, RowOK, Settled, PaidFor, HasWorker, CompletedIsSettled,
       PendingIsPaid, WorkNeedsWorker

\* A handler that relied on a row before still can.
LEMMA GrowsKeepsHandler ==
  ASSUME NEW h, HandlerOK(h), \A b \in Booking : Grows(b)
  PROVE  HandlerOK(h)'
BY DEF HandlerOK, Grows

\* The shape of almost every step: one handler changes, rows grow.
LEMMA StepKeeps ==
  ASSUME SafetyInv, TypeOK', NEW r \in Request, NEW h,
         req' = [req EXCEPT ![r] = h],
         \A b \in Booking : Grows(b) /\ RowOK(b)',
         HandlerOK(h)',
         \A q \in Request \ {r} :
            /\ h.op = "create" => req[q].b # h.b
            /\ req[q].op = "create" => req[q].b # h.b
  PROVE  SafetyInv'
<1>1. req'[r] = h /\ \A q \in Request \ {r} : req'[q] = req[q]
  BY DEF SafetyInv, TypeOK
<1>2. \A q \in Request : HandlerOK(req[q])'
  <2>1. ASSUME NEW q \in Request \ {r} PROVE HandlerOK(req[q])'
    <3>1. HandlerOK(req[q])
      BY DEF SafetyInv
    <3>2. req'[q] = req[q]
      BY <1>1
    <3>. QED BY <3>1, <3>2, GrowsKeepsHandler DEF HandlerOK, Grows
  <2>2. HandlerOK(req[r])'
    BY <1>1 DEF HandlerOK
  <2>. QED BY <2>1, <2>2
<1>3. Fresh'
  BY <1>1 DEF SafetyInv, Fresh
<1>. QED BY <1>2, <1>3 DEF SafetyInv

\* Nothing changes in the rows.
LEMMA SameRowsGrow ==
  ASSUME SafetyInv, booking' = booking
  PROVE  \A b \in Booking : Grows(b) /\ RowOK(b)'
BY DEF SafetyInv, Grows, RowOK, Exists, HasWorker, Settled, Owed, PaidFor

\* A request starts to work on row b.
LEMMA BeginKeeps ==
  ASSUME SafetyInv, TypeOK', NEW r \in Request, NEW b \in Booking, NEW h,
         Begin(r, b, h), booking' = booking,
         h.b = b, h.op # "create", HandlerOK(h)
  PROVE  SafetyInv'
<1>1. \A c \in Booking : Grows(c) /\ RowOK(c)'
  BY SameRowsGrow
<1>2. HandlerOK(h)'
  BY <1>1, GrowsKeepsHandler
<1>3. \A q \in Request : req[q].op = "create" => req[q].b # b
  BY DEF SafetyInv, HandlerOK, Begin, Exists, Status
<1>. QED BY <1>1, <1>2, <1>3, StepKeeps DEF Begin

\* A handler that names no booking relies on nothing.
LEMMA LetGoKeeps ==
  ASSUME SafetyInv, TypeOK', NEW r \in Request, NEW h,
         req' = [req EXCEPT ![r] = h],
         h.b = None, h.op \notin {"create", "assignWorker"}, h.at \notin {"release", "gateway"},
         \A b \in Booking : Grows(b) /\ RowOK(b)'
  PROVE  SafetyInv'
<1>1. HandlerOK(h)'
  BY NoneAssumption DEF HandlerOK
<1>2. \A q \in Request : req[q].op = "create" => req[q].b # None
  BY NoneAssumption DEF SafetyInv, HandlerOK
<1>. QED BY <1>1, <1>2, StepKeeps

LEMMA ReplyKeeps ==
  ASSUME SafetyInv, TypeOK', NEW r \in Request, Reply(r),
         \A b \in Booking : Grows(b) /\ RowOK(b)'
  PROVE  SafetyInv'
<1>1. Idle.b = None /\ Idle.op \notin {"create", "assignWorker"} /\ Idle.at = "idle"
  BY DEF Idle
<1>. QED BY <1>1, LetGoKeeps DEF Reply

LEMMA ReconcileKeeps ==
  ASSUME SafetyInv, TypeOK', NEW r \in Request, NEW S, ReplyAndReconcile(r, S),
         req[r].op \notin {"create", "assignWorker"},
         \A b \in Booking : Grows(b) /\ RowOK(b)'
  PROVE  SafetyInv'
<1>1. CASE S = {}
  BY <1>1, ReplyKeeps DEF ReplyAndReconcile
<1>2. CASE S # {}
  <2>. DEFINE h == [Idle EXCEPT !.op = req[r].op, !.at = "background",
                      !.jobs = [s \in Slot |-> IF s \in S THEN "read" ELSE "none"]]
  <2>1. h.b = None /\ h.op = req[r].op /\ h.at = "background"
    BY DEF Idle
  <2>. QED BY <1>2, <2>1, LetGoKeeps DEF ReplyAndReconcile
<1>. QED BY <1>1, <1>2

\* A handler moves on to its next query with the same operation and booking.
LEMMA MoveOnKeeps ==
  ASSUME SafetyInv, TypeOK', NEW r \in Request, NEW h,
         req' = [req EXCEPT ![r] = h],
         h.b = req[r].b, h.op = req[r].op, HandlerOK(h)',
         \A b \in Booking : Grows(b) /\ RowOK(b)'
  PROVE  SafetyInv'
<1>1. \A q \in Request \ {r} : /\ h.op = "create" => req[q].b # h.b
                               /\ req[q].op = "create" => req[q].b # h.b
  BY DEF SafetyInv, Fresh
<1>. QED BY <1>1, StepKeeps

\* No handler moves, rows do.
LEMMA RowsKeep ==
  ASSUME SafetyInv, TypeOK', req' = req,
         \A b \in Booking : Grows(b) /\ RowOK(b)'
  PROVE  SafetyInv'
<1>1. ASSUME NEW r \in Request PROVE HandlerOK(req[r])'
  <2>1. HandlerOK(req[r])
    BY DEF SafetyInv
  <2>. QED BY <2>1, GrowsKeepsHandler DEF HandlerOK
<1>. QED BY <1>1 DEF SafetyInv, Fresh

\* One existing row changes: the others need no argument.
LEMMA OneRowGrows ==
  ASSUME SafetyInv, NEW c, NEW row, booking' = [booking EXCEPT ![c] = row],
         c \in Booking => Grows(c) /\ RowOK(c)'
  PROVE  \A b \in Booking : Grows(b) /\ RowOK(b)'
<1>1. ASSUME NEW b \in Booking, b # c PROVE Grows(b) /\ RowOK(b)'
  <2>1. booking'[b] = booking[b]
    BY <1>1 DEF SafetyInv, TypeOK
  <2>. QED BY <2>1 DEF SafetyInv, Grows, RowOK, Exists, HasWorker, Settled, Owed, PaidFor
<1>. QED BY <1>1

\* The status of a row is written over whatever it was.
LEMMA SetStatusGrows ==
  ASSUME SafetyInv, NEW c, NEW s \in Status, Exists(c),
         booking' = [booking EXCEPT ![c].status = s],
         s = "COMPLETED" => (c \in Booking => Settled(c)),
         Matched /\ s = "PENDING" => (c \in Booking => PaidFor(c)),
         s \in {"ASSIGNED", "IN_PROGRESS", "COMPLETED"} => (c \in Booking => HasWorker(c))
  PROVE  \A b \in Booking : Grows(b) /\ RowOK(b)'
<1>1. booking' = [booking EXCEPT ![c] = [booking[c] EXCEPT !.status = s]]
  OBVIOUS
<1>2. ASSUME c \in Booking PROVE Grows(c) /\ RowOK(c)'
  <2>1. booking'[c] = [booking[c] EXCEPT !.status = s]
    BY <1>1, <1>2 DEF SafetyInv, TypeOK
  <2>2. booking[c] \in Row
    BY <1>2 DEF SafetyInv, TypeOK
  <2>3. /\ booking'[c].status = s
        /\ booking'[c].worker = booking[c].worker
        /\ booking'[c].paid = booking[c].paid
        /\ booking'[c].collected = booking[c].collected
        /\ booking'[c].reversed = booking[c].reversed
    BY <2>1, <2>2 DEF Row
  <2>4. booking[c].status # "NONE"
    BY DEF Exists, Status
  <2>. QED BY <1>2, <2>3, <2>4 DEF Grows, RowOK, Exists, HasWorker, Settled, Owed, PaidFor
<1>. QED BY <1>1, <1>2, OneRowGrows
-----------------------------------------------------------------------------
(* The three groups of steps *)

LEMMA CallKeeps ==
  ASSUME SafetyInv, TypeOK', NEW r \in Request, Call(r)
  PROVE  SafetyInv'
<1>1. ASSUME NEW b \in Booking, NEW s \in Slot, Create(r, b, s) PROVE SafetyInv'
  <2>. DEFINE h == [Handle("create", "count", b) EXCEPT !.slot = s]
  <2>1. h.op = "create" /\ h.at = "count" /\ h.b = b
    BY DEF Handle, Idle
  <2>2. booking' = booking /\ booking[b].status = "NONE" /\ req' = [req EXCEPT ![r] = h]
        /\ \A q \in Request : req[q].b # b
    BY <1>1 DEF Create, NoRow
  <2>3. HandlerOK(h)'
    BY <2>1, <2>2 DEF HandlerOK, Exists, Status
  <2>4. \A c \in Booking : Grows(c) /\ RowOK(c)'
    BY <2>2, SameRowsGrow
  <2>. HIDE DEF h
  <2>. QED BY <2>1, <2>2, <2>3, <2>4, StepKeeps
<1>2. ASSUME NEW b \in Booking, AssignManager(r, b) PROVE SafetyInv'
  <2>. DEFINE h == Handle("assignManager", "update", b)
  <2>1. h.op = "assignManager" /\ h.at = "update" /\ h.b = b
    BY DEF Handle, Idle
  <2>3. HandlerOK(h)
    BY <2>1 DEF HandlerOK, VerifyOps
  <2>4. Begin(r, b, h) /\ booking' = booking
    BY <1>2 DEF AssignManager
  <2>. HIDE DEF h
  <2>. QED BY <2>1, <2>3, <2>4, BeginKeeps
<1>3. ASSUME NEW b \in Booking, Confirm(r, b) PROVE SafetyInv'
  <2>. DEFINE h == Handle("confirm", "update", b)
  <2>1. h.op = "confirm" /\ h.at = "update" /\ h.b = b
    BY DEF Handle, Idle
  <2>3. HandlerOK(h)
    BY <2>1 DEF HandlerOK, VerifyOps
  <2>4. Begin(r, b, h) /\ booking' = booking
    BY <1>3 DEF Confirm
  <2>. HIDE DEF h
  <2>. QED BY <2>1, <2>3, <2>4, BeginKeeps
<1>4. ASSUME NEW b \in Booking, CollectPayment(r, b) PROVE SafetyInv'
  <2>. DEFINE h == Handle("collectPayment", "update", b)
  <2>1. h.op = "collectPayment" /\ h.at = "update" /\ h.b = b
    BY DEF Handle, Idle
  <2>3. HandlerOK(h)
    BY <2>1 DEF HandlerOK, VerifyOps
  <2>4. Begin(r, b, h) /\ booking' = booking
    BY <1>4 DEF CollectPayment
  <2>. HIDE DEF h
  <2>. QED BY <2>1, <2>3, <2>4, BeginKeeps
<1>5. ASSUME NEW b \in Booking, MarkNoShow(r, b) PROVE SafetyInv'
  <2>. DEFINE h == Handle("noShow", "update", b)
  <2>1. h.op = "noShow" /\ h.at = "update" /\ h.b = b
    BY DEF Handle, Idle
  <2>3. HandlerOK(h)
    BY <2>1 DEF HandlerOK, VerifyOps
  <2>4. Begin(r, b, h) /\ booking' = booking
    BY <1>5 DEF MarkNoShow
  <2>. HIDE DEF h
  <2>. QED BY <2>1, <2>3, <2>4, BeginKeeps
<1>6. ASSUME NEW b \in Booking, Remove(r, b) PROVE SafetyInv'
  <2>. DEFINE h == Handle("remove", "update", b)
  <2>1. h.op = "remove" /\ h.at = "update" /\ h.b = b
    BY DEF Handle, Idle
  <2>3. HandlerOK(h)
    BY <2>1 DEF HandlerOK, VerifyOps
  <2>4. Begin(r, b, h) /\ booking' = booking
    BY <1>6 DEF Remove
  <2>. HIDE DEF h
  <2>. QED BY <2>1, <2>3, <2>4, BeginKeeps
<1>7. ASSUME NEW b \in Booking, Start(r, b) PROVE SafetyInv'
  <2>. DEFINE h == Handle("start", "update", b)
  <2>1. h.op = "start" /\ h.at = "update" /\ h.b = b
    BY DEF Handle, Idle
  <2>2. HasWorker(b)
    BY <1>7 DEF Start, HasWorker
  <2>3. HandlerOK(h)
    BY <2>1, <2>2 DEF HandlerOK, VerifyOps
  <2>4. Begin(r, b, h) /\ booking' = booking
    BY <1>7 DEF Start
  <2>. HIDE DEF h
  <2>. QED BY <2>1, <2>3, <2>4, BeginKeeps
<1>8. ASSUME NEW b \in Booking, Complete(r, b) PROVE SafetyInv'
  <2>. DEFINE h == Handle("complete", "remaining", b)
  <2>1. h.op = "complete" /\ h.at = "remaining" /\ h.b = b
    BY DEF Handle, Idle
  <2>2. HasWorker(b)
    BY <1>8 DEF Complete, SafetyInv, RowOK
  <2>3. HandlerOK(h)
    BY <2>1, <2>2 DEF HandlerOK, VerifyOps
  <2>4. Begin(r, b, h) /\ booking' = booking
    BY <1>8 DEF Complete
  <2>. HIDE DEF h
  <2>. QED BY <2>1, <2>3, <2>4, BeginKeeps
<1>9. ASSUME NEW b \in Booking, NEW w \in Worker, AssignWorker(r, b, w) PROVE SafetyInv'
  <2>. DEFINE h == [Handle("assignWorker", "duty", b) EXCEPT !.worker = w]
  <2>1. h.op = "assignWorker" /\ h.at = "duty" /\ h.b = b /\ h.worker = w
    BY DEF Handle, Idle
  <2>2. HandlerOK(h)
    BY <2>1 DEF HandlerOK, VerifyOps
  <2>3. Begin(r, b, h) /\ booking' = booking
    BY <1>9 DEF AssignWorker
  <2>. HIDE DEF h
  <2>. QED BY <2>1, <2>2, <2>3, BeginKeeps
<1>10. ASSUME NEW b \in Booking, AcceptByWorker(r, b) PROVE SafetyInv'
  <2>. DEFINE h == [Handle("accept", "update", b) EXCEPT !.worker = booking[b].worker]
  <2>1. h.op = "accept" /\ h.at = "update" /\ h.b = b
    BY DEF Handle, Idle
  <2>2. HandlerOK(h)
    BY <2>1 DEF HandlerOK, VerifyOps
  <2>3. Begin(r, b, h) /\ booking' = booking
    BY <1>10 DEF AcceptByWorker
  <2>. HIDE DEF h
  <2>. QED BY <2>1, <2>2, <2>3, BeginKeeps
<1>11. ASSUME NEW b \in Booking, NEW actor, Cancel(r, b, actor) PROVE SafetyInv'
  <2>. DEFINE s == booking[b].slot
              g == Handle("cancel", "update", b)
              h == IF s = None THEN g ELSE [g EXCEPT !.at = "release", !.jobs[s] = "read"]
  <2>1. h.op = "cancel" /\ h.b = b
    BY DEF Handle, Idle
  <2>2. HandlerOK(h)
    BY <2>1 DEF HandlerOK, VerifyOps
  <2>3. Begin(r, b, h) /\ booking' = booking
    BY <1>11 DEF Cancel
  <2>. HIDE DEF h
  <2>. QED BY <2>1, <2>2, <2>3, BeginKeeps
<1>12. ASSUME NEW b \in Booking, NEW s, Reschedule(r, b, s) PROVE SafetyInv'
  <2>. DEFINE at == IF s = booking[b].slot THEN "update" ELSE "claim"
              h == [Handle("reschedule", at, b) EXCEPT !.slot = s, !.from = booking[b].slot]
  <2>1. h.op = "reschedule" /\ h.at # "release" /\ h.b = b
    BY DEF Handle, Idle
  <2>2. HandlerOK(h)
    BY <2>1 DEF HandlerOK, VerifyOps
  <2>3. Begin(r, b, h) /\ booking' = booking
    BY <1>12 DEF Reschedule
  <2>. HIDE DEF h
  <2>. QED BY <2>1, <2>2, <2>3, BeginKeeps
<1>13. ASSUME NEW b \in Booking, NEW c \in Booking, NEW op \in VerifyOps,
              c = b \/ ~Matched, BeginVerify(r, b, c, op)
       PROVE  SafetyInv'
  <2>. DEFINE h == [Handle(op, "gateway", b)
                     EXCEPT !.flag = booking[b].status = "PENDING_PAYMENT",
                            !.from = booking[b].slot, !.payOf = c]
  <2>1. h.op = op /\ h.b = b /\ h.at = "gateway" /\ h.payOf = c
    BY DEF Handle, Idle
  <2>2. HandlerOK(h)
    BY <1>13, <2>1 DEF HandlerOK, VerifyOps
  <2>3. Begin(r, b, h) /\ booking' = booking
    BY <1>13 DEF BeginVerify
  <2>. HIDE DEF h
  <2>. QED BY <2>1, <2>2, <2>3, BeginKeeps DEF VerifyOps
<1>14. ASSUME NEW s \in Slot, ToggleSlot(r, s) PROVE SafetyInv'
  <2>. DEFINE h == [Idle EXCEPT !.op = "toggleSlot", !.at = "update", !.slot = s,
                         !.flag = slotState[s] = "closed"]
  <2>1. h.op = "toggleSlot" /\ h.at = "update" /\ h.b = None
    BY DEF Idle
  <2>2. req' = [req EXCEPT ![r] = h] /\ booking' = booking
    BY <1>14 DEF ToggleSlot
  <2>. HIDE DEF h
  <2>. QED BY <2>1, <2>2, SameRowsGrow, LetGoKeeps
<1>15. ASSUME NEW s \in Slot, RemoveSlot(r, s) PROVE SafetyInv'
  <2>. DEFINE h == [Idle EXCEPT !.op = "removeSlot", !.at = "update", !.slot = s]
  <2>1. h.op = "removeSlot" /\ h.at = "update" /\ h.b = None
    BY DEF Idle
  <2>2. req' = [req EXCEPT ![r] = h] /\ booking' = booking
    BY <1>15 DEF RemoveSlot
  <2>. HIDE DEF h
  <2>. QED BY <2>1, <2>2, SameRowsGrow, LetGoKeeps
<1>. QED
  BY <1>1, <1>2, <1>3, <1>4, <1>5, <1>6, <1>7, <1>8, <1>9, <1>10, <1>11, <1>12, <1>13, <1>14, <1>15
  DEF Call, VerifyPaymentAndConfirm, VerifyBookingPayment, OnPaymentCaptured, VerifyOps,
      Matched

LEMMA ContinueKeeps ==
  ASSUME SafetyInv, TypeOK', NEW r \in Request, Continue(r)
  PROVE  SafetyInv'
<1>0. PICK c : c = req[r].b
  OBVIOUS
<1>. USE <1>0
<1>1. /\ HandlerOK(req[r])
      /\ c \in Booking => booking[c] \in Row /\ RowOK(c)
  BY DEF SafetyInv, TypeOK
\* Steps that leave the rows alone.
<1>2. ASSUME Reply(r), booking' = booking PROVE SafetyInv'
  BY <1>2, SameRowsGrow, ReplyKeeps
<1>3. ASSUME Await(r, "update"), booking' = booking,
             req[r].op = "complete" => Settled(c),
             Matched /\ req[r].op \in VerifyOps => (c \in Booking => PaidFor(c))
      PROVE  SafetyInv'
  <2>0. PICK h : h = [req[r] EXCEPT !.at = "update"]
    OBVIOUS
  <2>1. h.b = c /\ h.op = req[r].op /\ h.at = "update" /\ h.worker = req[r].worker
    BY <2>0 DEF SafetyInv, TypeOK, Handler
  <2>2. HandlerOK(h)
    BY <1>1, <1>3, <2>1 DEF HandlerOK
  <2>3. \A b \in Booking : Grows(b) /\ RowOK(b)'
    BY <1>3, SameRowsGrow
  <2>4. req' = [req EXCEPT ![r] = h]
    BY <1>3, <2>0 DEF Await
  <2>5. HandlerOK(h)'
    BY <2>2, <2>3, GrowsKeepsHandler
  <2>. QED BY <2>1, <2>3, <2>4, <2>5, MoveOnKeeps
\* Steps that write one row and are done.
<1>4. ASSUME NEW row, booking' = [booking EXCEPT ![c] = row], Reply(r),
             c \in Booking => Grows(c) /\ RowOK(c)'
      PROVE  SafetyInv'
  BY <1>4, OneRowGrows, ReplyKeeps
<1>5. ASSUME NEW s \in Status \ {"PENDING", "ASSIGNED", "IN_PROGRESS", "COMPLETED"},
             booking' = [booking EXCEPT ![c].status = s], Exists(c), Reply(r)
      PROVE  SafetyInv'
  BY <1>5, SetStatusGrows, ReplyKeeps
<1>6. CASE CreateGenerateRef(r)
  <2>. DEFINE n == Cardinality({b \in Booking : Exists(b)}) + 1
  <2>. HIDE DEF n
  <2>0. PICK h : h = [req[r] EXCEPT !.at = "insert", !.ref = n]
    OBVIOUS
  <2>1. req' = [req EXCEPT ![r] = h] /\ booking' = booking /\ req[r].op = "create"
    BY <1>6, <2>0 DEF CreateGenerateRef, Running, n
  <2>2. h.b = c /\ h.op = req[r].op /\ h.at = "insert"
    BY <2>0 DEF SafetyInv, TypeOK, Handler
  <2>3. HandlerOK(h)'
    BY <1>1, <2>1, <2>2 DEF HandlerOK, Exists, VerifyOps
  <2>. QED BY <2>1, <2>2, <2>3, SameRowsGrow, MoveOnKeeps
<1>7. CASE CreateInsert(r)
  <2>. DEFINE row == [NoRow EXCEPT !.status = "PENDING_PAYMENT",
                                   !.slot = req[r].slot, !.ref = req[r].ref]
  <2>1. booking' = booking \/ booking' = [booking EXCEPT ![c] = row]
    BY <1>7 DEF CreateInsert
  <2>2. CASE booking' = [booking EXCEPT ![c] = row]
    <3>1. c \in Booking /\ req[r].op = "create" /\ Reply(r)
      BY <1>1, <1>7 DEF CreateInsert, Running, HandlerOK
    <3>2. booking'[c].status = "PENDING_PAYMENT"
      BY <2>2, <3>1 DEF SafetyInv, TypeOK, NoRow
    <3>3. \A b \in Booking \ {c} : booking'[b] = booking[b]
      BY <2>2, <3>1 DEF SafetyInv, TypeOK
    <3>4. \A b \in Booking : RowOK(b)'
      BY <3>2, <3>3 DEF SafetyInv, RowOK, HasWorker, Settled, Owed, PaidFor
    <3>5. \A q \in Request \ {r} : req'[q] = req[q] /\ req[q].b # c
      BY <3>1 DEF SafetyInv, Fresh, Reply, TypeOK
    <3>6. req'[r] = Idle /\ Idle.b = None /\ Idle.op = "idle" /\ Idle.at = "idle"
      BY <3>1 DEF SafetyInv, TypeOK, Reply, Idle
    <3>7. ASSUME NEW q \in Request \ {r} PROVE HandlerOK(req[q])'
      <4>1. HandlerOK(req[q])
        BY DEF SafetyInv
      <4>2. req'[q] = req[q] /\ (req[q].b \in Booking => booking'[req[q].b] = booking[req[q].b])
        BY <3>3, <3>5
      <4>. QED BY <4>1, <4>2 DEF HandlerOK, Exists, HasWorker, Settled, Owed, PaidFor
    <3>8. HandlerOK(req[r])'
      BY <3>6, NoneAssumption DEF HandlerOK
    <3>9. Fresh'
      <4>1. \A q \in Request : req[q].op = "create" => req[q].b # None
        BY NoneAssumption DEF SafetyInv, HandlerOK
      <4>. QED BY <3>5, <3>6, <4>1 DEF SafetyInv, Fresh
    <3>. QED BY <3>4, <3>7, <3>8, <3>9 DEF SafetyInv
  <2>. QED BY <1>2, <1>7, <2>1, <2>2 DEF CreateInsert
<1>8. CASE AssignManagerUpdate(r)
  BY <1>5, <1>8 DEF AssignManagerUpdate, Written, Status
<1>9. CASE ConfirmUpdate(r)
  BY <1>5, <1>9 DEF ConfirmUpdate, Written, Status
<1>10. CASE CancelUpdate(r)
  BY <1>5, <1>10 DEF CancelUpdate, Written, Status
<1>11. CASE MarkNoShowUpdate(r)
  BY <1>5, <1>11 DEF MarkNoShowUpdate, Written, Status
<1>12. CASE StartUpdate(r)
  <2>1. req[r].op = "start" /\ req[r].at = "update" /\ Exists(c)
    BY <1>12 DEF StartUpdate, Written, Running
  <2>2. c \in Booking => HasWorker(c)
    BY <1>1, <2>1 DEF HandlerOK, VerifyOps
  <2>3. \A b \in Booking : Grows(b) /\ RowOK(b)'
    BY <1>12, <2>1, <2>2, SetStatusGrows DEF StartUpdate, Status
  <2>. QED BY <1>12, <2>1, <2>2, <2>3, ReplyKeeps DEF StartUpdate
<1>13. CASE CompleteUpdate(r)
  <2>1. req[r].op = "complete" /\ req[r].at = "update" /\ Exists(c)
    BY <1>13 DEF CompleteUpdate, Written, Running
  <2>2. c \in Booking => HasWorker(c) /\ Settled(c)
    BY <1>1, <2>1 DEF HandlerOK, VerifyOps
  <2>3. \A b \in Booking : Grows(b) /\ RowOK(b)'
    BY <1>13, <2>1, <2>2, SetStatusGrows DEF CompleteUpdate, Status
  <2>. QED BY <1>13, <2>1, <2>2, <2>3, ReplyKeeps DEF CompleteUpdate
<1>14. CASE VerifyBookingPaymentUpdate(r)
  <2>1. req[r].op = "paymentVerify" /\ req[r].at = "update" /\ Exists(c)
    BY <1>14 DEF VerifyBookingPaymentUpdate, Written, Running
  <2>2. Matched => (c \in Booking => PaidFor(c))
    BY <1>1, <2>1 DEF HandlerOK, VerifyOps
  <2>3. \A b \in Booking : Grows(b) /\ RowOK(b)'
    BY <1>14, <2>1, <2>2, SetStatusGrows DEF VerifyBookingPaymentUpdate, Status
  <2>. QED BY <1>14, <2>1, <2>2, <2>3, ReplyKeeps DEF VerifyBookingPaymentUpdate
<1>15. CASE OnPaymentCapturedUpdate(r)
  <2>1. req[r].op = "webhookCaptured" /\ req[r].at = "update" /\ Exists(c)
    BY <1>15 DEF OnPaymentCapturedUpdate, Written, Running
  <2>2. Matched => (c \in Booking => PaidFor(c))
    BY <1>1, <2>1 DEF HandlerOK, VerifyOps
  <2>3. \A b \in Booking : Grows(b) /\ RowOK(b)'
    BY <1>15, <2>1, <2>2, SetStatusGrows DEF OnPaymentCapturedUpdate, Status
  <2>. QED BY <1>15, <2>1, <2>2, <2>3, ReplyKeeps DEF OnPaymentCapturedUpdate
<1>16. CASE VerifyPaymentAndConfirmUpdate(r)
  <2>1. req[r].op = "razorpayVerify" /\ req[r].at = "update" /\ Exists(c)
    BY <1>16 DEF VerifyPaymentAndConfirmUpdate, Written, Running
  <2>2. Matched => (c \in Booking => PaidFor(c))
    BY <1>1, <2>1 DEF HandlerOK, VerifyOps
  <2>3. \A b \in Booking : Grows(b) /\ RowOK(b)'
    BY <1>16, <2>1, <2>2, SetStatusGrows DEF VerifyPaymentAndConfirmUpdate, Status
  <2>. QED BY <1>16, <2>1, <2>2, <2>3, ReconcileKeeps DEF VerifyPaymentAndConfirmUpdate
<1>17. CASE AssignWorkerUpdate(r)
  <2>. DEFINE row == [booking[c] EXCEPT !.status = "ASSIGNED", !.worker = req[r].worker]
  <2>1. booking' = [booking EXCEPT ![c] = row] /\ Exists(c) /\ Reply(r)
    BY <1>17 DEF AssignWorkerUpdate, Written
  <2>2. c \in Booking => /\ row.status = "ASSIGNED"
                        /\ row.worker = req[r].worker
                        /\ row.paid = booking[c].paid
                        /\ row.collected = booking[c].collected
                        /\ row.reversed = booking[c].reversed
    BY <1>1 DEF Row, NoRow
  <2>. HIDE DEF row
  <2>3. c \in Booking => booking'[c] = row
    BY <2>1 DEF SafetyInv, TypeOK
  <2>4. req[r].worker # None
    BY <1>1, <1>17, NoneAssumption DEF AssignWorkerUpdate, Written, Running, HandlerOK
  <2>5. c \in Booking => Grows(c) /\ RowOK(c)'
    BY <1>1, <2>1, <2>2, <2>3, <2>4, AmountsAssumption DEF Grows, RowOK, Exists, HasWorker, Settled, Owed, PaidFor, Status
  <2>. QED BY <1>4, <2>1, <2>5
<1>18. CASE AcceptByWorkerUpdate(r)
  <2>. DEFINE row == [booking[c] EXCEPT !.acceptedBy = req[r].worker]
  <2>1. booking' = [booking EXCEPT ![c] = row] /\ Exists(c) /\ Reply(r)
    BY <1>18 DEF AcceptByWorkerUpdate, Written
  <2>2. c \in Booking => /\ row.status = booking[c].status
                        /\ row.worker = booking[c].worker
                        /\ row.paid = booking[c].paid
                        /\ row.collected = booking[c].collected
                        /\ row.reversed = booking[c].reversed
    BY <1>1 DEF Row, NoRow
  <2>. HIDE DEF row
  <2>3. c \in Booking => booking'[c] = row
    BY <2>1 DEF SafetyInv, TypeOK
  <2>5. c \in Booking => Grows(c) /\ RowOK(c)'
    BY <1>1, <2>1, <2>2, <2>3, AmountsAssumption DEF Grows, RowOK, Exists, HasWorker, Settled, Owed, PaidFor, Status
  <2>. QED BY <1>4, <2>1, <2>5
<1>19. CASE CollectPaymentUpdate(r)
  <2>. DEFINE row == [booking[c] EXCEPT !.collected = TRUE]
  <2>1. booking' = [booking EXCEPT ![c] = row] /\ Exists(c) /\ Reply(r)
    BY <1>19 DEF CollectPaymentUpdate, Written
  <2>2. c \in Booking => /\ row.status = booking[c].status
                        /\ row.worker = booking[c].worker
                        /\ row.paid = booking[c].paid
                        /\ row.collected = TRUE
                        /\ row.reversed = booking[c].reversed
    BY <1>1 DEF Row, NoRow
  <2>. HIDE DEF row
  <2>3. c \in Booking => booking'[c] = row
    BY <2>1 DEF SafetyInv, TypeOK
  <2>5. c \in Booking => Grows(c) /\ RowOK(c)'
    BY <1>1, <2>1, <2>2, <2>3, AmountsAssumption DEF Grows, RowOK, Exists, HasWorker, Settled, Owed, PaidFor, Status
  <2>. QED BY <1>4, <2>1, <2>5
<1>20. CASE RemoveDelete(r)
  <2>. DEFINE row == [NoRow EXCEPT !.status = "DELETED"]
  <2>1. booking' = [booking EXCEPT ![c] = row] /\ Exists(c) /\ Reply(r)
    BY <1>20 DEF RemoveDelete, Written
  <2>2. c \in Booking => row.status = "DELETED"
    BY <1>1 DEF Row, NoRow
  <2>. HIDE DEF row
  <2>3. c \in Booking => booking'[c] = row
    BY <2>1 DEF SafetyInv, TypeOK
  <2>5. c \in Booking => Grows(c) /\ RowOK(c)'
    BY <1>1, <2>1, <2>2, <2>3, AmountsAssumption DEF Grows, RowOK, Exists, HasWorker, Settled, Owed, PaidFor, Status
  <2>. QED BY <1>4, <2>1, <2>5
<1>21. CASE AssignWorkerCheckDuty(r)
  BY <1>2, <1>3, <1>21 DEF AssignWorkerCheckDuty, Running, VerifyOps
<1>22. CASE RescheduleClaimSlot(r)
  BY <1>2, <1>3, <1>22 DEF RescheduleClaimSlot, Running, VerifyOps
<1>23. CASE CompleteCheckRemaining(r)
  <2>1. Exists(c) /\ booking' = booking /\ req[r].op = "complete"
    BY <1>23 DEF CompleteCheckRemaining, Running
  <2>2. CASE Owed(c) > 0
    BY <1>2, <1>23, <2>2 DEF CompleteCheckRemaining
  <2>3. CASE ~(Owed(c) > 0) /\ c \in Booking
    <3>1. Owed(c) \in Nat
      BY <1>1, <2>3, AmountsAssumption DEF Owed, Row
    <3>2. Settled(c)
      BY <2>3, <3>1 DEF Settled
    <3>. QED BY <1>3, <1>23, <2>1, <2>3, <3>2 DEF CompleteCheckRemaining, VerifyOps
  <2>4. CASE ~(Owed(c) > 0) /\ c \notin Booking
    <3>0. PICK h : h = [req[r] EXCEPT !.at = "update"]
      OBVIOUS
    <3>1. h.b = c /\ h.op = "complete" /\ h.at = "update"
      BY <2>1, <3>0 DEF SafetyInv, TypeOK, Handler
    <3>2. req' = [req EXCEPT ![r] = h]
      BY <1>23, <2>4, <3>0 DEF CompleteCheckRemaining, Await
    <3>3. HandlerOK(h)'
      BY <2>4, <3>1 DEF HandlerOK
    <3>. QED BY <2>1, <3>1, <3>2, <3>3, SameRowsGrow, MoveOnKeeps
  <2>. QED BY <2>2, <2>3, <2>4
<1>24. CASE RescheduleUpdate(r)
  <2>. DEFINE row == [booking[c] EXCEPT !.status = "RESCHEDULED", !.slot = req[r].slot]
  <2>1. Exists(c) /\ req[r].op = "reschedule"
    BY <1>24 DEF RescheduleUpdate, Written, Running
  <2>2. \/ booking' = booking
        \/ booking' = [booking EXCEPT ![c] = row]
    BY <1>24 DEF RescheduleUpdate
  <2>3. c \in Booking => /\ row.status = "RESCHEDULED"
                        /\ row.worker = booking[c].worker
                        /\ row.paid = booking[c].paid
                        /\ row.collected = booking[c].collected
                        /\ row.reversed = booking[c].reversed
    BY <1>1 DEF Row
  <2>. HIDE DEF row
  <2>4. ASSUME booking' = [booking EXCEPT ![c] = row] 
        PROVE  \A b \in Booking : Grows(b) /\ RowOK(b)'
    <3>1. c \in Booking => booking'[c] = row
      BY <2>4 DEF SafetyInv, TypeOK
    <3>2. c \in Booking => Grows(c) /\ RowOK(c)'
      BY <1>1, <2>1, <2>3, <3>1 DEF Grows, RowOK, Exists, HasWorker, Settled, Owed, PaidFor, Status
    <3>. QED BY <2>4, <3>2, OneRowGrows
  <2>5. \A b \in Booking : Grows(b) /\ RowOK(b)'
    BY <2>2, <2>4, SameRowsGrow
  <2>6. Reply(r) \/ \E S : ReplyAndReconcile(r, S)
    BY <1>24 DEF RescheduleUpdate
  <2>. QED BY <2>1, <2>5, <2>6, ReplyKeeps, ReconcileKeeps
<1>25. CASE PaymentSucceeds(r)
  <2>0. PICK d : d = req[r].payOf
    OBVIOUS
  <2>1. PICK p \in {Advance, Total} :
          p > booking[d].paid /\ booking' = [booking EXCEPT ![d].paid = p]
    BY <1>25, <2>0 DEF PaymentSucceeds
  <2>. DEFINE row == [booking[d] EXCEPT !.paid = p]
  <2>2. /\ req[r].op \in VerifyOps /\ req[r].at = "gateway" /\ Exists(d)
        /\ Await(r, "update") \/ Reply(r)
    BY <1>25, <2>0 DEF PaymentSucceeds, Verifying, AfterVerification
  <2>3. booking' = [booking EXCEPT ![d] = row]
    BY <2>1
  <2>4. d \in Booking => booking[d] \in Row /\ RowOK(d)
    BY DEF SafetyInv, TypeOK
  <2>5. d \in Booking => /\ row.status = booking[d].status
                        /\ row.worker = booking[d].worker
                        /\ row.paid = p
                        /\ row.collected = booking[d].collected
                        /\ row.reversed = booking[d].reversed
    BY <2>4 DEF Row
  <2>. HIDE DEF row
  <2>6. d \in Booking => booking'[d] = row
    BY <2>3 DEF SafetyInv, TypeOK
  <2>7. d \in Booking => /\ booking[d].paid \in 0..Total /\ p \in 1..Total
                        /\ booking[d].paid < p
    BY <2>1, <2>4, AmountsAssumption DEF Row
  <2>8. d \in Booking => Grows(d) /\ RowOK(d)' /\ PaidFor(d)'
    BY <2>2, <2>4, <2>5, <2>6, <2>7, AmountsAssumption DEF Grows, RowOK, Exists, HasWorker, Settled, Owed, PaidFor, Status
  <2>9. \A b \in Booking : Grows(b) /\ RowOK(b)'
    BY <2>3, <2>8, OneRowGrows
  <2>10. CASE Reply(r)
    BY <2>9, <2>10, ReplyKeeps
  <2>11. CASE Await(r, "update")
    <3>0. PICK h : h = [req[r] EXCEPT !.at = "update"]
      OBVIOUS
    <3>1. h.b = c /\ h.op = req[r].op /\ h.at = "update"
      BY <3>0 DEF SafetyInv, TypeOK, Handler
    <3>2. req' = [req EXCEPT ![r] = h]
      BY <2>11, <3>0 DEF Await
    <3>3. Matched => d = c
      BY <1>1, <2>0, <2>2 DEF HandlerOK
    <3>4. HandlerOK(h)'
      BY <2>2, <2>8, <3>1, <3>3 DEF HandlerOK, VerifyOps
    <3>. QED BY <2>9, <3>1, <3>2, <3>4, MoveOnKeeps
  <2>. QED BY <2>2, <2>10, <2>11
<1>26. CASE PaymentReplayed(r)
  <2>1. /\ booking' = booking /\ PaidFor(req[r].payOf)
        /\ req[r].op \in VerifyOps /\ req[r].at = "gateway"
        /\ Await(r, "update") \/ Reply(r)
    BY <1>26 DEF PaymentReplayed, Verifying, AfterVerification, PaidFor
  <2>2. Matched => PaidFor(c)
    BY <1>1, <2>1 DEF HandlerOK
  <2>. QED BY <1>2, <1>3, <2>1, <2>2 DEF VerifyOps
<1>27. CASE PaymentRejected(r)
  BY <1>2, <1>27 DEF PaymentRejected
<1>28. CASE RowGone(r)
  BY <1>2, <1>28 DEF RowGone
<1>29. CASE ToggleSlotUpdate(r)
  BY <1>2, <1>29 DEF ToggleSlotUpdate
<1>30. CASE RemoveSlotDelete(r)
  <2>1. \A b \in Booking : /\ booking'[b].status = booking[b].status
                           /\ booking'[b].worker = booking[b].worker
                           /\ booking'[b].paid = booking[b].paid
                           /\ booking'[b].collected = booking[b].collected
                           /\ booking'[b].reversed = booking[b].reversed
    BY <1>30 DEF RemoveSlotDelete, SafetyInv, TypeOK, Row
  <2>2. \A b \in Booking : Grows(b) /\ RowOK(b)'
    BY <2>1 DEF SafetyInv, Grows, RowOK, Exists, HasWorker, Settled, Owed, PaidFor
  <2>. QED BY <1>30, <2>2, ReplyKeeps DEF RemoveSlotDelete
\* Reconciliations touch slots, and their own handler's list of jobs.
<1>31. ASSUME NEW s \in Slot, NEW h, req' = [req EXCEPT ![r] = h], booking' = booking,
              \/ h.b = c /\ h.op = req[r].op /\ h.worker = req[r].worker
                 /\ h.payOf = req[r].payOf
                 /\ (h.at = req[r].at \/ (req[r].at = "release" /\ h.at = "update"))
              \/ h = Idle
       PROVE  SafetyInv'
  <2>1. CASE h = Idle
    BY <1>2, <1>31, <2>1 DEF Reply
  <2>2. CASE h # Idle
    <3>1. HandlerOK(h)
      BY <1>1, <1>31, <2>2 DEF HandlerOK, VerifyOps
    <3>2. \A b \in Booking : Grows(b) /\ RowOK(b)'
      BY <1>31, SameRowsGrow
    <3>3. HandlerOK(h)'
      BY <3>1, <3>2, GrowsKeepsHandler
    <3>. QED BY <1>31, <2>2, <3>2, <3>3, MoveOnKeeps
  <2>. QED BY <2>1, <2>2
<1>32. ASSUME NEW s \in Slot, NEW h, h = AfterJobs(req[r], s)
       PROVE  \/ h.b = c /\ h.op = req[r].op /\ h.worker = req[r].worker
                 /\ h.payOf = req[r].payOf
                 /\ (h.at = req[r].at \/ (req[r].at = "release" /\ h.at = "update"))
              \/ h = Idle
  <2>. DEFINE jobs == [req[r].jobs EXCEPT ![s] = "none"]
  <2>. HIDE DEF jobs
  <2>1. \/ h = [req[r] EXCEPT !.at = "update", !.jobs = jobs] /\ req[r].at = "release"
        \/ h = [req[r] EXCEPT !.jobs = jobs]
        \/ h = Idle
    BY <1>32 DEF AfterJobs, jobs
  <2>2. req[r] \in Handler
    BY DEF SafetyInv, TypeOK
  <2>3. CASE h = [req[r] EXCEPT !.at = "update", !.jobs = jobs] /\ req[r].at = "release"
    BY <2>2, <2>3 DEF Handler
  <2>4. CASE h = [req[r] EXCEPT !.jobs = jobs]
    BY <2>2, <2>4 DEF Handler
  <2>. QED BY <2>1, <2>3, <2>4
<1>33. ASSUME NEW s \in Slot, ReconcileRead(r, s) PROVE SafetyInv'
  <2>. DEFINE close == [req[r] EXCEPT !.jobs[s] = "close"]
              reopen == [req[r] EXCEPT !.jobs[s] = "reopen"]
  <2>1. PICK h \in {close, reopen, AfterJobs(req[r], s)} : req' = [req EXCEPT ![r] = h]
    BY <1>33 DEF ReconcileRead
  <2>2. h \in {close, reopen}
          => /\ h.b = c /\ h.op = req[r].op /\ h.worker = req[r].worker
             /\ h.payOf = req[r].payOf /\ h.at = req[r].at
    BY DEF SafetyInv, TypeOK, Handler
  <2>. QED BY <1>31, <1>32, <1>33, <2>1, <2>2 DEF ReconcileRead
<1>34. ASSUME NEW s \in Slot, ReconcileWrite(r, s) PROVE SafetyInv'
  <2>1. PICK h \in {Idle, AfterJobs(req[r], s)} : req' = [req EXCEPT ![r] = h]
    BY <1>34 DEF ReconcileWrite
  <2>. QED BY <1>31, <1>32, <1>34, <2>1 DEF ReconcileWrite
<1>. QED
  BY <1>6, <1>7, <1>8, <1>9, <1>10, <1>11, <1>12, <1>13, <1>14, <1>15, <1>16, <1>17, <1>18, <1>19, <1>20, <1>21, <1>22, <1>23, <1>24, <1>25, <1>26, <1>27, <1>28, <1>29, <1>30, <1>33, <1>34
  DEF Continue

LEMMA EnvironmentKeeps ==
  ASSUME SafetyInv, TypeOK', Environment
  PROVE  SafetyInv'
<1>1. ASSUME NEW b \in Booking, ReversePayment(b) PROVE SafetyInv'
  <2>1. PICK p \in {0, Advance} :
          booking' = [booking EXCEPT ![b].paid = p, ![b].reversed = TRUE]
    BY <1>1 DEF ReversePayment
  <2>. DEFINE row == [booking[b] EXCEPT !.paid = p, !.reversed = TRUE]
  <2>2. booking' = [booking EXCEPT ![b] = row]
    BY <2>1
  <2>3. booking[b] \in Row /\ RowOK(b)
    BY DEF SafetyInv, TypeOK
  <2>4. /\ row.status = booking[b].status
        /\ row.worker = booking[b].worker
        /\ row.reversed = TRUE
    BY <2>3 DEF Row
  <2>. HIDE DEF row
  <2>5. booking'[b] = row
    BY <2>2 DEF SafetyInv, TypeOK
  <2>6. Grows(b) /\ RowOK(b)'
    BY <2>3, <2>4, <2>5 DEF Grows, RowOK, Exists, HasWorker, Settled, Owed, PaidFor
  <2>7. \A c \in Booking : Grows(c) /\ RowOK(c)'
    BY <2>2, <2>6, OneRowGrows
  <2>. QED BY <1>1, <2>7, RowsKeep DEF ReversePayment
<1>2. ASSUME NEW b \in Booking, OfflinePayment(b) PROVE SafetyInv'
  <2>. DEFINE row == [booking[b] EXCEPT !.paid = Total]
  <2>1. booking' = [booking EXCEPT ![b] = row]
    BY <1>2 DEF OfflinePayment
  <2>2. booking[b] \in Row /\ RowOK(b)
    BY DEF SafetyInv, TypeOK
  <2>3. /\ row.status = booking[b].status
        /\ row.worker = booking[b].worker
        /\ row.paid = Total
        /\ row.collected = booking[b].collected
        /\ row.reversed = booking[b].reversed
    BY <2>2 DEF Row
  <2>. HIDE DEF row
  <2>4. booking'[b] = row
    BY <2>1 DEF SafetyInv, TypeOK
  <2>5. Grows(b) /\ RowOK(b)'
    BY <2>2, <2>3, <2>4, AmountsAssumption DEF Grows, RowOK, Exists, HasWorker, Settled, Owed, PaidFor
  <2>6. \A c \in Booking : Grows(c) /\ RowOK(c)'
    BY <2>1, <2>5, OneRowGrows
  <2>. QED BY <1>2, <2>6, RowsKeep DEF OfflinePayment
<1>3. ASSUME booking' = booking, req' = req PROVE SafetyInv'
  BY <1>3, SameRowsGrow, RowsKeep
<1>. QED BY <1>1, <1>2, <1>3 DEF Environment, CreateSlot, CheckIn, CheckOut

LEMMA SafetyInit == Init => SafetyInv
<1>. SUFFICES ASSUME Init PROVE SafetyInv
  OBVIOUS
<1>1. \A b \in Booking : RowOK(b)
  BY DEF Init, NoRow, RowOK
<1>2. \A r \in Request : req[r].op = "idle" /\ req[r].at = "idle" /\ req[r].b = None
  BY DEF Init, Idle
<1>3. \A r \in Request : HandlerOK(req[r])
  BY <1>2, NoneAssumption DEF HandlerOK
<1>4. Fresh
  BY <1>2 DEF Fresh
<1>. QED BY <1>1, <1>3, <1>4, TypeInit DEF SafetyInv

LEMMA SafetyStep == SafetyInv /\ [Next]_vars => SafetyInv'
<1>. SUFFICES ASSUME SafetyInv, [Next]_vars PROVE SafetyInv'
  OBVIOUS
<1>1. TypeOK'
  BY TypeStep DEF SafetyInv
<1>2. CASE UNCHANGED vars
  BY <1>1, <1>2, SameRowsGrow, RowsKeep DEF vars
<1>3. CASE Next
  BY <1>1, <1>3, CallKeeps, ContinueKeeps, EnvironmentKeeps DEF Next
<1>. QED BY <1>2, <1>3

\* What each handler remembers still implies what it is about to write, in
\* every reachable state.
THEOREM SafetyInvariant == Spec => []SafetyInv
BY SafetyInit, SafetyStep, PTL DEF Spec

\* complete() never writes COMPLETED over an outstanding balance, although it
\* computed the balance queries earlier: payments only grow, a collection is
\* for ever, and a reversal leaves its mark.
THEOREM CompletedAreSettled == Spec => []CompletedIsSettled
BY SafetyInvariant, SafetyInvImplies, PTL

\* Whichever of the three verification paths writes PENDING, at whatever time
\* after reading the booking, a payment of the booking succeeded before.
THEOREM PendingArePaid == Matched => (Spec => []PendingIsPaid)
<1>. SUFFICES ASSUME Matched PROVE Spec => []PendingIsPaid
  OBVIOUS
<1>1. SafetyInv => PendingIsPaid
  BY SafetyInvImplies
<1>. QED BY <1>1, SafetyInvariant, PTL

\* No interleaving of requests yields a job in progress, or done, that nobody
\* was assigned to: workerId is never cleared.
THEOREM WorkHasWorker == Spec => []WorkNeedsWorker
BY SafetyInvariant, SafetyInvImplies, PTL

-----------------------------------------------------------------------------
(* One request at a time *)

Serial == \A q, r \in Request : q = r

Statuses == [b \in Booking |-> booking[b].status]

\* What the handler checked of its booking's status holds until it writes.
Licensed(h) ==
  h.b \in Booking /\ Exists(h.b) =>
    LET s == booking[h.b].status IN
      /\ h.op \in {"assignManager", "assignWorker"} => NotTerminal(s)
      /\ h.op = "confirm" => CanTransition(s, "CONFIRMED")
      /\ h.op = "start" => CanTransition(s, "IN_PROGRESS")
      /\ h.op = "complete" => CanTransition(s, "COMPLETED")
      /\ h.op = "cancel" => CanTransition(s, "CANCELLED")
      /\ h.op = "noShow" => CanTransition(s, "NO_SHOW")
      /\ h.op = "reschedule" => CanTransition(s, "RESCHEDULED")
      /\ h.op = "remove" => s \in TERMINAL_STATUSES
      /\ h.op \in VerifyOps /\ (h.flag \/ h.at = "update") => s = "PENDING_PAYMENT"

\* So does what it found out about the slots.
Placed(h) ==
  /\ h.op = "create" => ~IsFull(h.slot)
  /\ h.op = "reschedule" /\ h.b \in Booking /\ Exists(h.b) => booking[h.b].slot = h.from
  /\ h.op = "reschedule" /\ h.at = "update" /\ h.slot # h.from => ~IsFull(h.slot)

\* Reconciliations run before a cancel's update or in the background, and
\* write what the count they made still says.
Queued(h) ==
  /\ h.at \notin {"release", "background"} => h.jobs = NoJobs
  /\ h.at = "release" => \A s, t \in Slot : h.jobs[s] # "none" /\ h.jobs[t] # "none" => s = t
  /\ \A s \in Slot : /\ h.jobs[s] = "close" => IsFull(s)
                     /\ h.jobs[s] = "reopen" => ~IsFull(s)

SerialOK(h) == Licensed(h) /\ Placed(h) /\ Queued(h)

SerialInv == \A r \in Request : SerialOK(req[r])

\* What a step does to statuses, slots and reconciliations.
Joins ==
  \A b \in Booking, s \in Slot :
    booking[b].slot # s /\ booking'[b].slot = s => ~IsFull(s)

Reconciles ==
  \A r \in Request, s \in Slot :
    req[r].jobs[s] # "none" /\ req'[r].jobs[s] = "none" /\ SlotExists(s)
      => (slotState'[s] = "closed" <=> IsFull(s)')

SerialStep == SerialInv' /\ [Lifecycle!Next]_Statuses /\ Joins /\ Reconciles

\* The moves of one status that the abstract machine has.
MayMove(s, t) ==
  \/ s = "NONE" /\ t = "PENDING_PAYMENT"
  \/ s \in Status /\ CanTransition(s, t)
  \/ s \in Status /\ NotTerminal(s) /\ t \in {"CONFIRMED", "ASSIGNED"}
  \/ s \in TERMINAL_STATUSES /\ t = "DELETED"

Undisturbed ==
  \A b \in Booking : /\ booking'[b].status = booking[b].status
                     /\ booking'[b].slot = booking[b].slot

-----------------------------------------------------------------------------

LEMMA MayMoveMoves ==
  ASSUME NEW c \in Booking, NEW t, MayMove(Statuses[c], t),
         Statuses' = [Statuses EXCEPT ![c] = t]
  PROVE  Lifecycle!Next
<1>1. CASE Statuses[c] = "NONE" /\ t = "PENDING_PAYMENT"
  <2>1. Lifecycle!Created(c)
    BY <1>1 DEF Lifecycle!Created, Statuses
  <2>. QED BY <2>1 DEF Lifecycle!Next
<1>2. CASE Statuses[c] \in Status /\ CanTransition(Statuses[c], t)
  <2>1. Lifecycle!Moved(c)
    BY <1>2 DEF Lifecycle!Moved, Statuses, CanTransition, Status, Lifecycle!Status,
                ALLOWED_TRANSITIONS, Lifecycle!ALLOWED_TRANSITIONS
  <2>. QED BY <2>1 DEF Lifecycle!Next
<1>3. CASE Statuses[c] \in Status /\ NotTerminal(Statuses[c]) /\ t \in {"CONFIRMED", "ASSIGNED"}
  <2>1. Lifecycle!AssignedByStaff(c)
    BY <1>3 DEF Lifecycle!AssignedByStaff, Statuses, NotTerminal, Status, Lifecycle!Status,
                TERMINAL_STATUSES, Lifecycle!TERMINAL_STATUSES
  <2>. QED BY <2>1 DEF Lifecycle!Next
<1>4. CASE Statuses[c] \in TERMINAL_STATUSES /\ t = "DELETED"
  <2>1. Lifecycle!Deleted(c)
    BY <1>4 DEF Lifecycle!Deleted, Statuses, TERMINAL_STATUSES, Lifecycle!TERMINAL_STATUSES
  <2>. QED BY <2>1 DEF Lifecycle!Next
<1>. QED BY <1>1, <1>2, <1>3, <1>4 DEF MayMove

LEMMA UndisturbedKeeps ==
  ASSUME Undisturbed
  PROVE  /\ Statuses' = Statuses
         /\ Joins
         /\ \A s : IsFull(s)' <=> IsFull(s)
         /\ \A h : SerialOK(h) => SerialOK(h)'
<1>1. Statuses' = Statuses /\ Joins
  BY DEF Undisturbed, Statuses, Joins
<1>2. ASSUME NEW s PROVE IsFull(s)' <=> IsFull(s)
  <2>1. Holders(s)' = Holders(s)
    BY DEF Undisturbed, Holders
  <2>. QED BY <2>1 DEF IsFull
<1>3. ASSUME NEW h, SerialOK(h) PROVE SerialOK(h)'
  <2>1. Licensed(h)'
    BY <1>3 DEF Undisturbed, SerialOK, Licensed, Exists
  <2>2. Placed(h)'
    BY <1>2, <1>3 DEF Undisturbed, SerialOK, Placed, Exists
  <2>3. Queued(h)'
    BY <1>2, <1>3 DEF SerialOK, Queued
  <2>. QED BY <2>1, <2>2, <2>3 DEF SerialOK
<1>. QED BY <1>1, <1>2, <1>3

\* The only handler is in state h now.
LEMMA TheHandler ==
  ASSUME Serial, TypeOK, NEW r \in Request, NEW h, req' = [req EXCEPT ![r] = h]
  PROVE  /\ SerialOK(h)' => SerialInv'
         /\ req[r].jobs = NoJobs => Reconciles
<1>1. req'[r] = h
  BY DEF TypeOK
<1>2. SerialOK(h)' => SerialInv'
  BY <1>1 DEF Serial, SerialInv, SerialOK, Licensed, Placed, Queued
<1>3. req[r].jobs = NoJobs => Reconciles
  BY DEF Serial, NoJobs, Reconciles
<1>. QED BY <1>2, <1>3

\* A handler with no booking has nothing to hold on to.
LEMMA FreeHandler ==
  ASSUME NEW h, h.b = None, h.op # "create", h.at \notin {"release", "update"},
         \A s \in Slot : h.jobs[s] \in {"none", "read"},
         h.at # "background" => h.jobs = NoJobs
  PROVE  SerialOK(h)'
BY NoneAssumption DEF SerialOK, Licensed, Placed, Queued

\* The handler has responded.
Finishes(r) ==
  Reply(r) \/ (req[r].op # "create" /\ \E S : ReplyAndReconcile(r, S))

LEMMA ReplySerial ==
  ASSUME Serial, TypeOK, NEW r \in Request, Reply(r)
  PROVE  SerialInv'
<1>1. /\ Idle.b = None /\ Idle.op = "idle" /\ Idle.at = "idle" /\ Idle.jobs = NoJobs
      /\ \A s \in Slot : Idle.jobs[s] = "none"
  BY DEF Idle, NoJobs
<1>2. SerialOK(Idle)'
  BY <1>1, FreeHandler
<1>. QED BY <1>2, TheHandler DEF Reply

LEMMA ReconcileSerial ==
  ASSUME Serial, TypeOK, NEW r \in Request, NEW S, ReplyAndReconcile(r, S),
         req[r].op # "create"
  PROVE  SerialInv'
<1>1. CASE S = {}
  BY <1>1, ReplySerial DEF ReplyAndReconcile
<1>2. CASE S # {}
  <2>1. PICK h : h = [Idle EXCEPT !.op = req[r].op, !.at = "background",
                       !.jobs = [s \in Slot |-> IF s \in S THEN "read" ELSE "none"]]
    OBVIOUS
  <2>2. /\ h.b = None /\ h.op = req[r].op /\ h.at = "background"
        /\ \A s \in Slot : h.jobs[s] \in {"none", "read"}
    BY <2>1 DEF Idle
  <2>3. req' = [req EXCEPT ![r] = h]
    BY <1>2, <2>1 DEF ReplyAndReconcile
  <2>4. SerialOK(h)'
    BY <2>2, FreeHandler
  <2>. QED BY <2>3, <2>4, TheHandler
<1>. QED BY <1>1, <1>2

\* A step that disturbs no row, of a handler with nothing queued.
LEMMA QuietStep ==
  ASSUME Serial, TypeOK, Undisturbed, NEW r \in Request, NEW h,
         req' = [req EXCEPT ![r] = h], SerialOK(h), req[r].jobs = NoJobs
  PROVE  SerialStep
<1>1. SerialOK(h)' /\ Statuses' = Statuses /\ Joins
  BY UndisturbedKeeps
<1>. QED BY <1>1, TheHandler DEF SerialStep

LEMMA QuietReply ==
  ASSUME Serial, TypeOK, Undisturbed, NEW r \in Request, Reply(r), req[r].jobs = NoJobs
  PROVE  SerialStep
<1>1. Statuses' = Statuses /\ Joins
  BY UndisturbedKeeps
<1>. QED BY <1>1, ReplySerial, TheHandler DEF SerialStep, Reply

\* A row is written, and the handler is done.
LEMMA WritingStep ==
  ASSUME Serial, TypeOK, NEW r \in Request, NEW c, NEW row, req[r].jobs = NoJobs,
         booking' = [booking EXCEPT ![c] = row],
         Finishes(r),
         c \in Booking => /\ row.status = booking[c].status \/ MayMove(booking[c].status, row.status)
                          /\ \A s \in Slot : row.slot = s => booking[c].slot = s \/ ~IsFull(s)
  PROVE  SerialStep
<1>1. SerialInv'
  BY ReplySerial, ReconcileSerial DEF Finishes
<1>2. Reconciles
  <2>1. PICK h : req' = [req EXCEPT ![r] = h]
    BY DEF Finishes, Reply, ReplyAndReconcile
  <2>. QED BY <2>1, TheHandler
<1>3. \A b \in Booking : booking'[b] = IF b = c THEN row ELSE booking[b]
  BY DEF TypeOK
<1>4. Joins
  BY <1>3 DEF Joins
<1>5. CASE c \notin Booking \/ row.status = booking[c].status
  <2>0. \A b \in Booking : booking'[b].status = booking[b].status
    BY <1>3, <1>5
  <2>1. Statuses' = Statuses
    BY <2>0 DEF Statuses
  <2>. QED BY <1>1, <1>2, <1>4, <2>1 DEF SerialStep
<1>6. CASE c \in Booking /\ MayMove(booking[c].status, row.status)
  <2>0. \A b \in Booking : booking'[b].status = IF b = c THEN row.status ELSE booking[b].status
    BY <1>3
  <2>1. Statuses' = [Statuses EXCEPT ![c] = row.status]
    BY <1>6, <2>0 DEF Statuses
  <2>2. MayMove(Statuses[c], row.status)
    BY <1>6 DEF Statuses
  <2>. QED BY <1>1, <1>2, <1>4, <1>6, <2>1, <2>2, MayMoveMoves DEF SerialStep
<1>. QED BY <1>5, <1>6

\* A request starts to work on row b, with nothing queued.
LEMMA BeginSerial ==
  ASSUME Serial, TypeOK, NEW r \in Request, NEW b, NEW h, Begin(r, b, h),
         booking' = booking, SerialOK(h)
  PROVE  SerialStep
<1>1. req[r].jobs = NoJobs
  BY DEF Begin, Idle
<1>2. Undisturbed
  BY DEF Undisturbed
<1>. QED BY <1>1, <1>2, QuietStep DEF Begin

LEMMA PlainSerial ==
  ASSUME Serial, TypeOK, NEW r \in Request, NEW b \in Booking, NEW op, NEW at,
         op \notin {"create", "reschedule"}, at \in {"update", "remaining"},
         Begin(r, b, Handle(op, at, b)), booking' = booking,
         \A h : h.op = op /\ h.at = at /\ h.b = b => Licensed(h)
  PROVE  SerialStep
<1>1. PICK h : h = Handle(op, at, b)
  OBVIOUS
<1>2. h.op = op /\ h.at = at /\ h.b = b /\ h.jobs = NoJobs
  BY <1>1 DEF Handle, Idle
<1>3. \A s \in Slot : NoJobs[s] = "none"
  BY DEF NoJobs
<1>4. SerialOK(h)
  BY <1>2, <1>3 DEF SerialOK, Placed, Queued
<1>. QED BY <1>1, <1>4, BeginSerial

LEMMA SerialCall ==
  ASSUME Serial, SafetyInv, NEW r \in Request, Call(r)
  PROVE  SerialStep
<1>. USE DEF SafetyInv
<1>0. \A s \in Slot : NoJobs[s] = "none"
  BY DEF NoJobs
<1>1. ASSUME NEW b \in Booking, NEW s \in Slot, Create(r, b, s) PROVE SerialStep
  <2>0. PICK h : h = [Handle("create", "count", b) EXCEPT !.slot = s]
    OBVIOUS
  <2>1. h.op = "create" /\ h.at = "count" /\ h.b = b /\ h.slot = s /\ h.jobs = NoJobs
    BY <2>0 DEF Handle, Idle
  <2>2. req' = [req EXCEPT ![r] = h] /\ Undisturbed /\ ~IsFull(s) /\ req[r].jobs = NoJobs
    BY <1>1, <2>0 DEF Create, SlotAdmits, Undisturbed, Idle
  <2>3. SerialOK(h)
    BY <2>1, <2>2, <1>0 DEF SerialOK, Licensed, Placed, Queued, VerifyOps
  <2>. QED BY <2>2, <2>3, QuietStep
<1>3. ASSUME NEW b \in Booking, AssignManager(r, b) PROVE SerialStep
  <2>1. \A h : h.op = "assignManager" /\ h.at = "update" /\ h.b = b => Licensed(h)
    BY <1>3 DEF AssignManager, Licensed, VerifyOps
  <2>. QED BY <1>3, <2>1, PlainSerial DEF AssignManager
<1>4. ASSUME NEW b \in Booking, Confirm(r, b) PROVE SerialStep
  <2>1. \A h : h.op = "confirm" /\ h.at = "update" /\ h.b = b => Licensed(h)
    BY <1>4 DEF Confirm, Licensed, VerifyOps
  <2>. QED BY <1>4, <2>1, PlainSerial DEF Confirm
<1>5. ASSUME NEW b \in Booking, CollectPayment(r, b) PROVE SerialStep
  <2>1. \A h : h.op = "collectPayment" /\ h.at = "update" /\ h.b = b => Licensed(h)
    BY <1>5 DEF CollectPayment, Licensed, VerifyOps
  <2>. QED BY <1>5, <2>1, PlainSerial DEF CollectPayment
<1>6. ASSUME NEW b \in Booking, MarkNoShow(r, b) PROVE SerialStep
  <2>1. \A h : h.op = "noShow" /\ h.at = "update" /\ h.b = b => Licensed(h)
    BY <1>6 DEF MarkNoShow, Licensed, VerifyOps
  <2>. QED BY <1>6, <2>1, PlainSerial DEF MarkNoShow
<1>7. ASSUME NEW b \in Booking, Remove(r, b) PROVE SerialStep
  <2>1. \A h : h.op = "remove" /\ h.at = "update" /\ h.b = b => Licensed(h)
    BY <1>7 DEF Remove, Licensed, VerifyOps, NotTerminal
  <2>. QED BY <1>7, <2>1, PlainSerial DEF Remove
<1>8. ASSUME NEW b \in Booking, Start(r, b) PROVE SerialStep
  <2>1. \A h : h.op = "start" /\ h.at = "update" /\ h.b = b => Licensed(h)
    BY <1>8 DEF Start, Licensed, VerifyOps
  <2>. QED BY <1>8, <2>1, PlainSerial DEF Start
<1>9. ASSUME NEW b \in Booking, Complete(r, b) PROVE SerialStep
  <2>1. CanTransition(booking[b].status, "COMPLETED")
    BY <1>9 DEF Complete, CanTransition, ALLOWED_TRANSITIONS, Status
  <2>2. \A h : h.op = "complete" /\ h.at = "remaining" /\ h.b = b => Licensed(h)
    BY <2>1 DEF Licensed, VerifyOps
  <2>. QED BY <1>9, <2>2, PlainSerial DEF Complete
\* The other handlers remember more than their booking.
<1>10. ASSUME NEW b \in Booking, NEW w \in Worker, AssignWorker(r, b, w) PROVE SerialStep
  <2>0. PICK h : h = [Handle("assignWorker", "duty", b) EXCEPT !.worker = w]
    OBVIOUS
  <2>1. h.op = "assignWorker" /\ h.at = "duty" /\ h.b = b /\ h.jobs = NoJobs
    BY <2>0 DEF Handle, Idle
  <2>2. Begin(r, b, h) /\ booking' = booking /\ NotTerminal(booking[b].status)
    BY <1>10, <2>0 DEF AssignWorker
  <2>3. SerialOK(h)
    BY <2>1, <2>2, <1>0 DEF SerialOK, Licensed, Placed, Queued, VerifyOps
  <2>. QED BY <2>2, <2>3, BeginSerial
<1>11. ASSUME NEW b \in Booking, AcceptByWorker(r, b) PROVE SerialStep
  <2>0. PICK h : h = [Handle("accept", "update", b) EXCEPT !.worker = booking[b].worker]
    OBVIOUS
  <2>1. h.op = "accept" /\ h.at = "update" /\ h.b = b /\ h.jobs = NoJobs
    BY <2>0 DEF Handle, Idle
  <2>2. Begin(r, b, h) /\ booking' = booking
    BY <1>11, <2>0 DEF AcceptByWorker
  <2>3. SerialOK(h)
    BY <2>1, <1>0 DEF SerialOK, Licensed, Placed, Queued, VerifyOps
  <2>. QED BY <2>2, <2>3, BeginSerial
<1>12. ASSUME NEW b \in Booking, NEW actor, Cancel(r, b, actor) PROVE SerialStep
  <2>0. PICK s : s = booking[b].slot
    OBVIOUS
  <2>1. PICK h : h = IF s = None THEN Handle("cancel", "update", b)
                     ELSE [Handle("cancel", "update", b) EXCEPT !.at = "release", !.jobs[s] = "read"]
    OBVIOUS
  <2>2. /\ Begin(r, b, h) /\ booking' = booking
        /\ CanTransition(booking[b].status, "CANCELLED")
    BY <1>12, <2>0, <2>1 DEF Cancel
  <2>3. CASE s = None
    <3>1. h.op = "cancel" /\ h.at = "update" /\ h.b = b /\ h.jobs = NoJobs
      BY <2>1, <2>3 DEF Handle, Idle
    <3>2. SerialOK(h)
      BY <2>2, <3>1, <1>0 DEF SerialOK, Licensed, Placed, Queued, VerifyOps
    <3>. QED BY <2>2, <3>2, BeginSerial
  <2>4. CASE s # None
    <3>1. /\ h.op = "cancel" /\ h.at = "release" /\ h.b = b
          /\ h.jobs = [NoJobs EXCEPT ![s] = "read"]
      BY <2>1, <2>4 DEF Handle, Idle
    <3>2. \A t \in Slot : h.jobs[t] = IF t = s THEN "read" ELSE "none"
      BY <3>1 DEF NoJobs
    <3>3. SerialOK(h)
      BY <2>2, <3>1, <3>2 DEF SerialOK, Licensed, Placed, Queued, VerifyOps
    <3>. QED BY <2>2, <3>3, BeginSerial
  <2>. QED BY <2>3, <2>4
<1>13. ASSUME NEW b \in Booking, NEW s, Reschedule(r, b, s) PROVE SerialStep
  <2>0. PICK h : h = [Handle("reschedule", IF s = booking[b].slot THEN "update" ELSE "claim", b)
                       EXCEPT !.slot = s, !.from = booking[b].slot]
    OBVIOUS
  <2>1. /\ h.op = "reschedule" /\ h.b = b /\ h.jobs = NoJobs /\ h.slot = s
        /\ h.from = booking[b].slot /\ h.at = IF s = booking[b].slot THEN "update" ELSE "claim"
    BY <2>0 DEF Handle, Idle
  <2>2. /\ Begin(r, b, h) /\ booking' = booking
        /\ CanTransition(booking[b].status, "RESCHEDULED")
    BY <1>13, <2>0 DEF Reschedule
  <2>3. SerialOK(h)
    BY <2>1, <2>2, <1>0 DEF SerialOK, Licensed, Placed, Queued, VerifyOps
  <2>. QED BY <2>2, <2>3, BeginSerial
<1>14. ASSUME NEW b \in Booking, NEW c \in Booking, NEW op \in VerifyOps, BeginVerify(r, b, c, op)
       PROVE  SerialStep
  <2>0. PICK h : h = [Handle(op, "gateway", b)
                       EXCEPT !.flag = booking[b].status = "PENDING_PAYMENT",
                              !.from = booking[b].slot, !.payOf = c]
    OBVIOUS
  <2>1. /\ h.op = op /\ h.at = "gateway" /\ h.b = b /\ h.jobs = NoJobs
        /\ h.flag = (booking[b].status = "PENDING_PAYMENT")
    BY <2>0 DEF Handle, Idle
  <2>2. Begin(r, b, h) /\ booking' = booking
    BY <1>14, <2>0 DEF BeginVerify
  <2>3. SerialOK(h)
    BY <2>1, <1>0 DEF SerialOK, Licensed, Placed, Queued, VerifyOps
  <2>. QED BY <2>2, <2>3, BeginSerial
<1>15. ASSUME NEW s \in Slot, ToggleSlot(r, s) \/ RemoveSlot(r, s) PROVE SerialStep
  <2>1. PICK h : /\ h \in {[Idle EXCEPT !.op = "toggleSlot", !.at = "update", !.slot = s,
                                        !.flag = slotState[s] = "closed"],
                           [Idle EXCEPT !.op = "removeSlot", !.at = "update", !.slot = s]}
                 /\ req' = [req EXCEPT ![r] = h]
    BY <1>15 DEF ToggleSlot, RemoveSlot
  <2>2. h.op \in {"toggleSlot", "removeSlot"} /\ h.at = "update" /\ h.b = None /\ h.jobs = NoJobs
    BY <2>1 DEF Idle
  <2>3. SerialOK(h)
    BY <2>2, <1>0, NoneAssumption DEF SerialOK, Licensed, Placed, Queued, VerifyOps
  <2>4. Undisturbed /\ req[r].jobs = NoJobs
    BY <1>15 DEF ToggleSlot, RemoveSlot, Undisturbed, Idle
  <2>. QED BY <2>1, <2>3, <2>4, QuietStep
<1>. QED
  BY <1>1, <1>3, <1>4, <1>5, <1>6, <1>7, <1>8, <1>9, <1>10, <1>11, <1>12, <1>13, <1>14, <1>15
  DEF Call, VerifyPaymentAndConfirm, VerifyBookingPayment, OnPaymentCaptured, VerifyOps

LEMMA SerialEnvironment ==
  ASSUME Serial, SafetyInv, SerialInv, Environment
  PROVE  SerialStep
<1>1. req' = req /\ Undisturbed
  <2>1. ASSUME NEW b \in Booking, ReversePayment(b) \/ OfflinePayment(b)
        PROVE  req' = req /\ Undisturbed
    BY <2>1 DEF ReversePayment, OfflinePayment, Undisturbed, SafetyInv, TypeOK, Row
  <2>. QED BY <2>1 DEF Environment, CreateSlot, CheckIn, CheckOut, Undisturbed
<1>2. Statuses' = Statuses /\ Joins /\ \A h : SerialOK(h) => SerialOK(h)'
  BY <1>1, UndisturbedKeeps
<1>3. SerialInv'
  BY <1>1, <1>2 DEF SerialInv, SerialOK, Licensed, Placed, Queued
<1>4. Reconciles
  BY <1>1 DEF Reconciles
<1>. QED BY <1>2, <1>3, <1>4 DEF SerialStep

\* The step of a handler that reconciles: its jobs stay, or one is done.
LEMMA JobStep ==
  ASSUME Serial, SafetyInv, SerialInv, NEW r \in Request, NEW s \in Slot, NEW h,
         req[r].jobs[s] # "none", req' = [req EXCEPT ![r] = h], booking' = booking,
         \/ /\ h = AfterJobs(req[r], s)
            /\ SlotExists(s) => (slotState'[s] = "closed" <=> IsFull(s))
         \/ h = Idle /\ req[r].at = "release" /\ ~SlotExists(s)
         \/ h = [req[r] EXCEPT !.jobs[s] = "close"] /\ req[r].jobs[s] = "read" /\ IsFull(s)
         \/ h = [req[r] EXCEPT !.jobs[s] = "reopen"] /\ req[r].jobs[s] = "read" /\ ~IsFull(s)
  PROVE  SerialStep
<1>1. Undisturbed /\ SerialOK(req[r]) /\ req[r] \in Handler /\ HandlerOK(req[r])
  BY DEF Undisturbed, SerialInv, SafetyInv, TypeOK
<1>2. Statuses' = Statuses /\ Joins /\ (IsFull(s)' <=> IsFull(s))
  BY <1>1, UndisturbedKeeps
<1>3. req'[r] = h /\ \A t \in Slot : NoJobs[t] = "none"
  BY DEF SafetyInv, TypeOK, NoJobs
<1>4. /\ req[r].at \in {"release", "background"}
      /\ req[r].at = "release"
           => req[r].op = "cancel" /\ \A t \in Slot \ {s} : req[r].jobs[t] = "none"
  BY <1>1, <1>3 DEF SerialOK, Queued, HandlerOK
\* What the handler becomes.
<1>5. ASSUME NEW v \in {"none", "close", "reopen"}, NEW jobs, jobs = [req[r].jobs EXCEPT ![s] = v],
             v = "close" => IsFull(s), v = "reopen" => ~IsFull(s),
             h.b = req[r].b, h.op = req[r].op, h.flag = req[r].flag,
             h.slot = req[r].slot, h.from = req[r].from, h.jobs = jobs,
             h.at = req[r].at \/ (h.at = "update" /\ req[r].op = "cancel" /\ jobs = NoJobs)
      PROVE  SerialOK(h)
  <2>1. Licensed(h)
    BY <1>1, <1>5 DEF SerialOK, Licensed, VerifyOps
  <2>2. Placed(h)
    BY <1>1, <1>5 DEF SerialOK, Placed
  <2>3. \A t \in Slot : jobs[t] = IF t = s THEN v ELSE req[r].jobs[t]
    BY <1>1, <1>5 DEF Handler
  <2>4. Queued(h)
    BY <1>1, <1>3, <1>4, <1>5, <2>3 DEF SerialOK, Queued
  <2>. QED BY <2>1, <2>2, <2>4 DEF SerialOK
<1>6. PICK jobs : jobs = [req[r].jobs EXCEPT ![s] = "none"]
  OBVIOUS
<1>7. \A t \in Slot : jobs[t] = IF t = s THEN "none" ELSE req[r].jobs[t]
  BY <1>1, <1>6 DEF Handler
<1>8. SerialOK(Idle)
  <2>1. Idle.b = None /\ Idle.op = "idle" /\ Idle.at = "idle" /\ Idle.jobs = NoJobs
    BY DEF Idle
  <2>. QED BY <1>3, <2>1, NoneAssumption DEF SerialOK, Licensed, Placed, Queued, VerifyOps
<1>. DEFINE OnlyThis == \A t \in Slot : req[r].jobs[t] # "none" /\ h.jobs[t] = "none" => t = s
\* The job is done, and so may be the handler.
<1>9. ASSUME h = AfterJobs(req[r], s)
       PROVE  SerialOK(h) /\ OnlyThis
  <2>1. CASE req[r].at = "release"
    <3>1. jobs = NoJobs
      <4>1. \A t \in Slot : jobs[t] = NoJobs[t]
        BY <1>3, <1>4, <1>7, <2>1
      <4>. QED BY <1>1, <1>6, <4>1 DEF Handler, NoJobs
    <3>2. h = [req[r] EXCEPT !.at = "update", !.jobs = jobs]
      BY <1>6, <1>9, <2>1 DEF AfterJobs
    <3>3. /\ h.b = req[r].b /\ h.op = req[r].op /\ h.flag = req[r].flag /\ h.slot = req[r].slot
          /\ h.from = req[r].from /\ h.jobs = jobs /\ h.at = "update"
      BY <1>1, <3>2 DEF Handler
    <3>. QED BY <1>4, <1>5, <1>6, <1>7, <2>1, <3>1, <3>3
  <2>2. CASE req[r].at # "release" /\ jobs = NoJobs
    <3>1. h = Idle
      BY <1>6, <1>9, <2>2 DEF AfterJobs
    <3>2. \A t \in Slot \ {s} : req[r].jobs[t] = "none"
      BY <1>3, <1>7, <2>2
    <3>. QED BY <1>8, <3>1, <3>2
  <2>3. CASE req[r].at # "release" /\ jobs # NoJobs
    <3>1. h = [req[r] EXCEPT !.jobs = jobs]
      BY <1>6, <1>9, <2>3 DEF AfterJobs
    <3>2. /\ h.b = req[r].b /\ h.op = req[r].op /\ h.flag = req[r].flag /\ h.slot = req[r].slot
          /\ h.from = req[r].from /\ h.jobs = jobs /\ h.at = req[r].at
      BY <1>1, <3>1 DEF Handler
    <3>. QED BY <1>5, <1>6, <1>7, <3>2
  <2>. QED BY <2>1, <2>2, <2>3
<1>10. ASSUME h = Idle, req[r].at = "release"
       PROVE  SerialOK(h) /\ OnlyThis
  BY <1>4, <1>8, <1>10
\* What is to be written has been decided.
<1>11. ASSUME NEW v \in {"close", "reopen"}, h = [req[r] EXCEPT !.jobs[s] = v],
              v = "close" => IsFull(s), v = "reopen" => ~IsFull(s)
       PROVE  SerialOK(h) /\ OnlyThis
  <2>1. PICK js : js = [req[r].jobs EXCEPT ![s] = v]
    OBVIOUS
  <2>2. /\ h.b = req[r].b /\ h.op = req[r].op /\ h.flag = req[r].flag /\ h.slot = req[r].slot
        /\ h.from = req[r].from /\ h.jobs = js /\ h.at = req[r].at
    BY <1>1, <1>11, <2>1 DEF Handler
  <2>3. \A t \in Slot \ {s} : js[t] = req[r].jobs[t]
    BY <1>1, <2>1 DEF Handler
  <2>4. js[s] # "none"
    BY <1>1, <2>1 DEF Handler
  <2>. QED BY <1>5, <1>11, <2>1, <2>2, <2>3, <2>4
<1>12. SerialOK(h) /\ OnlyThis
  BY <1>9, <1>10, <1>11
<1>13. SerialInv'
  BY <1>1, <1>12, UndisturbedKeeps, TheHandler DEF SafetyInv
<1>14. \/ SlotExists(s) => (slotState'[s] = "closed" <=> IsFull(s)')
       \/ h.jobs[s] # "none"
  <2>1. \A v \in {"close", "reopen"} : h = [req[r] EXCEPT !.jobs[s] = v] => h.jobs[s] # "none"
    BY <1>1 DEF Handler
  <2>. QED BY <1>2, <2>1
<1>15. Reconciles
  BY <1>3, <1>12, <1>14 DEF Serial, Reconciles
<1>. QED BY <1>2, <1>13, <1>15 DEF SerialStep

LEMMA SerialContinue ==
  ASSUME Serial, SafetyInv, SerialInv, NEW r \in Request, Continue(r)
  PROVE  SerialStep
<1>0. PICK c : c = req[r].b
  OBVIOUS
<1>. USE <1>0
<1>1. /\ TypeOK /\ req[r] \in Handler /\ HandlerOK(req[r])
      /\ Licensed(req[r]) /\ Placed(req[r]) /\ Queued(req[r])
      /\ \A b \in Booking : booking[b] \in Row
  BY DEF SafetyInv, TypeOK, SerialInv, SerialOK
<1>2. req[r].at \notin {"release", "background"} => req[r].jobs = NoJobs
  BY <1>1 DEF Queued
<1>3. booking' = booking => Undisturbed
  BY DEF Undisturbed
\* The handler goes on to its update, and nothing else happens.
<1>4. ASSUME Undisturbed, Await(r, "update"), req[r].at \in {"duty", "remaining", "claim", "gateway"},
             req[r].op = "reschedule" => ~IsFull(req[r].slot),
             req[r].op \in VerifyOps => req[r].flag
      PROVE  SerialStep
  <2>1. PICK h : h = [req[r] EXCEPT !.at = "update"]
    OBVIOUS
  <2>2. /\ h.b = c /\ h.op = req[r].op /\ h.at = "update" /\ h.flag = req[r].flag
        /\ h.slot = req[r].slot /\ h.from = req[r].from /\ h.jobs = req[r].jobs
    BY <1>1, <2>1 DEF Handler
  <2>3. Licensed(h)
    BY <1>1, <1>4, <2>2 DEF Licensed
  <2>4. Placed(h)
    BY <1>1, <1>4, <2>2 DEF Placed
  <2>5. Queued(h)
    BY <1>1, <1>4, <2>2 DEF Queued
  <2>6. SerialOK(h)
    BY <2>3, <2>4, <2>5 DEF SerialOK
  <2>. QED BY <1>1, <1>2, <1>4, <2>1, <2>6, QuietStep DEF Await
<1>5. ASSUME Undisturbed, Reply(r), req[r].at \notin {"release", "background"}
      PROVE  SerialStep
  BY <1>1, <1>2, <1>5, QuietReply
\* The handler writes the status of an existing row, and is done.
<1>6. ASSUME NEW t, booking' = [booking EXCEPT ![c].status = t], Exists(c),
             req[r].at = "update", Finishes(r),
             c \in Booking => MayMove(booking[c].status, t)
      PROVE  SerialStep
  <2>1. PICK row : row = [booking[c] EXCEPT !.status = t]
    OBVIOUS
  <2>2. c \in Booking => row.status = t /\ row.slot = booking[c].slot
    BY <1>1, <2>1 DEF Row
  <2>3. booking' = [booking EXCEPT ![c] = row]
    BY <1>6, <2>1
  <2>4. req[r].jobs = NoJobs
    BY <1>2, <1>6
  <2>5. c \in Booking => /\ row.status = booking[c].status \/ MayMove(booking[c].status, row.status)
                         /\ \A s \in Slot : row.slot = s => booking[c].slot = s \/ ~IsFull(s)
    BY <1>6, <2>2
  <2>. QED BY <1>1, <1>6, <2>3, <2>4, <2>5, WritingStep
<1>7. CASE AssignManagerUpdate(r)
  <2>1. req[r].op = "assignManager" /\ req[r].at = "update" /\ Exists(c)
    BY <1>7 DEF AssignManagerUpdate, Written, Running
  <2>2. c \in Booking => MayMove(booking[c].status, "CONFIRMED")
    BY <1>1, <2>1 DEF Licensed, MayMove, Exists
  <2>. QED BY <1>6, <1>7, <2>1, <2>2 DEF AssignManagerUpdate, Finishes
<1>8. CASE ConfirmUpdate(r)
  <2>1. req[r].op = "confirm" /\ req[r].at = "update" /\ Exists(c)
    BY <1>8 DEF ConfirmUpdate, Written, Running
  <2>2. c \in Booking => MayMove(booking[c].status, "CONFIRMED")
    BY <1>1, <2>1 DEF Licensed, MayMove, Exists
  <2>. QED BY <1>6, <1>8, <2>1, <2>2 DEF ConfirmUpdate, Finishes
<1>9. CASE StartUpdate(r)
  <2>1. req[r].op = "start" /\ req[r].at = "update" /\ Exists(c)
    BY <1>9 DEF StartUpdate, Written, Running
  <2>2. c \in Booking => MayMove(booking[c].status, "IN_PROGRESS")
    BY <1>1, <2>1 DEF Licensed, MayMove, Exists
  <2>. QED BY <1>6, <1>9, <2>1, <2>2 DEF StartUpdate, Finishes
<1>10. CASE CompleteUpdate(r)
  <2>1. req[r].op = "complete" /\ req[r].at = "update" /\ Exists(c)
    BY <1>10 DEF CompleteUpdate, Written, Running
  <2>2. c \in Booking => MayMove(booking[c].status, "COMPLETED")
    BY <1>1, <2>1 DEF Licensed, MayMove, Exists
  <2>. QED BY <1>6, <1>10, <2>1, <2>2 DEF CompleteUpdate, Finishes
<1>11. CASE CancelUpdate(r)
  <2>1. req[r].op = "cancel" /\ req[r].at = "update" /\ Exists(c)
    BY <1>11 DEF CancelUpdate, Written, Running
  <2>2. c \in Booking => MayMove(booking[c].status, "CANCELLED")
    BY <1>1, <2>1 DEF Licensed, MayMove, Exists
  <2>. QED BY <1>6, <1>11, <2>1, <2>2 DEF CancelUpdate, Finishes
<1>12. CASE MarkNoShowUpdate(r)
  <2>1. req[r].op = "noShow" /\ req[r].at = "update" /\ Exists(c)
    BY <1>12 DEF MarkNoShowUpdate, Written, Running
  <2>2. c \in Booking => MayMove(booking[c].status, "NO_SHOW")
    BY <1>1, <2>1 DEF Licensed, MayMove, Exists
  <2>. QED BY <1>6, <1>12, <2>1, <2>2 DEF MarkNoShowUpdate, Finishes
<1>13. CASE VerifyPaymentAndConfirmUpdate(r)
  <2>1. req[r].op = "razorpayVerify" /\ req[r].at = "update" /\ Exists(c)
    BY <1>13 DEF VerifyPaymentAndConfirmUpdate, Written, Running
  <2>2. c \in Booking => CanTransition(booking[c].status, "PENDING")
    BY <1>1, <2>1 DEF Licensed, VerifyOps, CanTransition, ALLOWED_TRANSITIONS, Status
  <2>3. c \in Booking => MayMove(booking[c].status, "PENDING")
    BY <2>1, <2>2 DEF MayMove, Exists
  <2>. QED BY <1>6, <1>13, <2>1, <2>3 DEF VerifyPaymentAndConfirmUpdate, Finishes
<1>14. CASE VerifyBookingPaymentUpdate(r)
  <2>1. req[r].op = "paymentVerify" /\ req[r].at = "update" /\ Exists(c)
    BY <1>14 DEF VerifyBookingPaymentUpdate, Written, Running
  <2>2. c \in Booking => CanTransition(booking[c].status, "PENDING")
    BY <1>1, <2>1 DEF Licensed, VerifyOps, CanTransition, ALLOWED_TRANSITIONS, Status
  <2>3. c \in Booking => MayMove(booking[c].status, "PENDING")
    BY <2>1, <2>2 DEF MayMove, Exists
  <2>. QED BY <1>6, <1>14, <2>1, <2>3 DEF VerifyBookingPaymentUpdate, Finishes
<1>15. CASE OnPaymentCapturedUpdate(r)
  <2>1. req[r].op = "webhookCaptured" /\ req[r].at = "update" /\ Exists(c)
    BY <1>15 DEF OnPaymentCapturedUpdate, Written, Running
  <2>2. c \in Booking => CanTransition(booking[c].status, "PENDING")
    BY <1>1, <2>1 DEF Licensed, VerifyOps, CanTransition, ALLOWED_TRANSITIONS, Status
  <2>3. c \in Booking => MayMove(booking[c].status, "PENDING")
    BY <2>1, <2>2 DEF MayMove, Exists
  <2>. QED BY <1>6, <1>15, <2>1, <2>3 DEF OnPaymentCapturedUpdate, Finishes
<1>16. CASE AssignWorkerUpdate(r)
  <2>1. PICK row : row = [booking[c] EXCEPT !.status = "ASSIGNED", !.worker = req[r].worker]
    OBVIOUS
  <2>2. /\ req[r].op = "assignWorker" /\ req[r].at = "update" /\ Exists(c) /\ Finishes(r)
        /\ booking' = [booking EXCEPT ![c] = row]
    BY <1>16, <2>1 DEF AssignWorkerUpdate, Written, Running, Finishes
  <2>3. c \in Booking => row.status = "ASSIGNED" /\ row.slot = booking[c].slot
    BY <1>1, <2>1 DEF Row
  <2>4. c \in Booking => MayMove(booking[c].status, "ASSIGNED")
    BY <1>1, <2>2 DEF Licensed, MayMove, Exists
  <2>. QED BY <1>1, <1>2, <2>2, <2>3, <2>4, WritingStep
<1>17. CASE RemoveDelete(r)
  <2>1. PICK row : row = [NoRow EXCEPT !.status = "DELETED"]
    OBVIOUS
  <2>2. /\ req[r].op = "remove" /\ req[r].at = "update" /\ Exists(c) /\ Finishes(r)
        /\ booking' = [booking EXCEPT ![c] = row]
    BY <1>17, <2>1 DEF RemoveDelete, Written, Running, Finishes
  <2>3. row.status = "DELETED" /\ row.slot = None
    BY <2>1 DEF NoRow
  <2>4. c \in Booking => MayMove(booking[c].status, "DELETED")
    BY <1>1, <2>2 DEF Licensed, MayMove, Exists
  <2>. QED BY <1>1, <1>2, <2>2, <2>3, <2>4, NoneAssumption, WritingStep
<1>18. CASE CreateInsert(r)
  <2>1. PICK row : row = [NoRow EXCEPT !.status = "PENDING_PAYMENT",
                                       !.slot = req[r].slot, !.ref = req[r].ref]
    OBVIOUS
  <2>2. /\ req[r].op = "create" /\ req[r].at = "insert" /\ Reply(r)
        /\ booking' = booking \/ booking' = [booking EXCEPT ![c] = row]
    BY <1>18, <2>1 DEF CreateInsert, Running
  <2>3. row.status = "PENDING_PAYMENT" /\ row.slot = req[r].slot
    BY <2>1 DEF NoRow
  <2>4. booking[c].status = "NONE" /\ ~IsFull(req[r].slot)
    BY <1>1, <2>2 DEF HandlerOK, Placed
  <2>5. MayMove(booking[c].status, row.status)
    BY <2>3, <2>4 DEF MayMove
  <2>6. CASE booking' = booking
    BY <1>3, <1>5, <2>2, <2>6
  <2>7. CASE booking' = [booking EXCEPT ![c] = row]
    BY <1>1, <1>2, <2>2, <2>3, <2>4, <2>5, <2>7, WritingStep DEF Finishes
  <2>. QED BY <2>2, <2>6, <2>7
<1>19. CASE RescheduleUpdate(r)
  <2>1. PICK row : row = [booking[c] EXCEPT !.status = "RESCHEDULED", !.slot = req[r].slot]
    OBVIOUS
  <2>2. /\ req[r].op = "reschedule" /\ req[r].at = "update" /\ Exists(c)
        /\ \/ booking' = booking /\ Reply(r)
           \/ booking' = [booking EXCEPT ![c] = row] /\ Finishes(r)
    BY <1>19, <2>1 DEF RescheduleUpdate, Written, Running, Finishes
  <2>3. c \in Booking => row.status = "RESCHEDULED" /\ row.slot = req[r].slot
    BY <1>1, <2>1 DEF Row
  <2>4. c \in Booking => MayMove(booking[c].status, "RESCHEDULED")
    BY <1>1, <2>2 DEF Licensed, MayMove, Exists
  <2>5. c \in Booking => req[r].slot = booking[c].slot \/ ~IsFull(req[r].slot)
    BY <1>1, <2>2 DEF Placed
  <2>6. CASE booking' = booking /\ Reply(r)
    BY <1>3, <1>5, <2>2, <2>6
  <2>7. CASE booking' = [booking EXCEPT ![c] = row] /\ Finishes(r)
    <3>1. c \in Booking => /\ row.status = booking[c].status \/ MayMove(booking[c].status, row.status)
                           /\ \A s \in Slot : row.slot = s => booking[c].slot = s \/ ~IsFull(s)
      BY <2>3, <2>4, <2>5
    <3>. QED BY <1>1, <1>2, <2>2, <2>7, <3>1, WritingStep
  <2>. QED BY <2>2, <2>6, <2>7
<1>20. CASE AcceptByWorkerUpdate(r)
  <2>1. \A b \in Booking : booking'[b] = IF b = c THEN [booking[b] EXCEPT !.acceptedBy = req[r].worker]
                                           ELSE booking[b]
    BY <1>1, <1>20 DEF AcceptByWorkerUpdate, TypeOK
  <2>2. Undisturbed
    BY <1>1, <2>1 DEF Undisturbed, Row
  <2>. QED BY <1>5, <1>20, <2>2 DEF AcceptByWorkerUpdate, Written, Running
<1>21. CASE CollectPaymentUpdate(r)
  <2>1. \A b \in Booking : booking'[b] = IF b = c THEN [booking[b] EXCEPT !.collected = TRUE]
                                           ELSE booking[b]
    BY <1>1, <1>21 DEF CollectPaymentUpdate, TypeOK
  <2>2. Undisturbed
    BY <1>1, <2>1 DEF Undisturbed, Row
  <2>. QED BY <1>5, <1>21, <2>2 DEF CollectPaymentUpdate, Written, Running
<1>22. CASE CreateGenerateRef(r)
  <2>1. PICK h : h = [req[r] EXCEPT !.at = "insert",
                                    !.ref = Cardinality({b \in Booking : Exists(b)}) + 1]
    OBVIOUS
  <2>2. /\ h.b = c /\ h.op = req[r].op /\ h.at = "insert"
        /\ h.slot = req[r].slot /\ h.from = req[r].from /\ h.jobs = req[r].jobs
    BY <1>1, <2>1 DEF Handler
  <2>3. /\ req[r].op = "create" /\ req[r].at = "count" /\ booking' = booking
        /\ req' = [req EXCEPT ![r] = h]
    BY <1>22, <2>1 DEF CreateGenerateRef, Running
  <2>4. SerialOK(h)
    BY <1>1, <2>2, <2>3 DEF SerialOK, Licensed, Placed, Queued, VerifyOps
  <2>. QED BY <1>1, <1>2, <1>3, <2>3, <2>4, QuietStep
<1>23. CASE AssignWorkerCheckDuty(r)
  BY <1>3, <1>4, <1>5, <1>23 DEF AssignWorkerCheckDuty, Running, VerifyOps
<1>24. CASE CompleteCheckRemaining(r)
  BY <1>3, <1>4, <1>5, <1>24 DEF CompleteCheckRemaining, Running, VerifyOps
<1>25. CASE RescheduleClaimSlot(r)
  BY <1>3, <1>4, <1>5, <1>25 DEF RescheduleClaimSlot, Running, VerifyOps, SlotAdmits
<1>26. CASE PaymentSucceeds(r)
  <2>1. Undisturbed
    BY <1>1, <1>26 DEF PaymentSucceeds, Undisturbed, TypeOK, Row
  <2>2. /\ req[r].op \in VerifyOps /\ req[r].at = "gateway"
        /\ IF req[r].flag THEN Await(r, "update") ELSE Reply(r)
    BY <1>26 DEF PaymentSucceeds, Verifying, AfterVerification
  <2>. QED BY <1>4, <1>5, <2>1, <2>2 DEF VerifyOps
<1>27. CASE PaymentReplayed(r)
  <2>1. /\ req[r].op \in VerifyOps /\ req[r].at = "gateway" /\ booking' = booking
        /\ Reply(r) \/ (req[r].flag /\ Await(r, "update"))
    BY <1>27 DEF PaymentReplayed, Verifying, AfterVerification
  <2>. QED BY <1>3, <1>4, <1>5, <2>1 DEF VerifyOps
<1>28. CASE PaymentRejected(r)
  BY <1>3, <1>5, <1>28 DEF PaymentRejected
<1>29. CASE ToggleSlotUpdate(r)
  BY <1>3, <1>5, <1>29 DEF ToggleSlotUpdate, Running
<1>30. CASE RowGone(r)
  BY <1>3, <1>5, <1>30 DEF RowGone
<1>31. CASE RemoveSlotDelete(r)
  <2>1. Reply(r) /\ req[r].at = "update" /\ req[r].jobs = NoJobs
    BY <1>2, <1>31 DEF RemoveSlotDelete, Running
  <2>2. \A b \in Booking : /\ booking'[b].status = booking[b].status
                           /\ booking'[b].slot \in {booking[b].slot, None}
    BY <1>1, <1>31 DEF RemoveSlotDelete, TypeOK, Row
  <2>3. Statuses' = Statuses /\ Joins
    BY <2>2, NoneAssumption DEF Statuses, Joins
  <2>. QED BY <1>1, <2>1, <2>3, ReplySerial, TheHandler DEF SerialStep, Reply
<1>32. ASSUME NEW s \in Slot, ReconcileRead(r, s) PROVE SerialStep
  <2>1. PICK h : /\ req' = [req EXCEPT ![r] = h]
                 /\ h = IF IsFull(s) /\ slotState[s] = "open"
                          THEN [req[r] EXCEPT !.jobs[s] = "close"]
                        ELSE IF ~IsFull(s) /\ slotState[s] = "closed"
                          THEN [req[r] EXCEPT !.jobs[s] = "reopen"]
                        ELSE AfterJobs(req[r], s)
    BY <1>32 DEF ReconcileRead
  <2>2. req[r].jobs[s] = "read" /\ booking' = booking /\ slotState' = slotState
    BY <1>32 DEF ReconcileRead
  <2>. QED BY <2>1, <2>2, JobStep DEF SlotExists
<1>33. ASSUME NEW s \in Slot, ReconcileWrite(r, s) PROVE SerialStep
  <2>1. req[r].jobs[s] \in {"close", "reopen"} /\ booking' = booking
    BY <1>33 DEF ReconcileWrite
  <2>2. req[r].jobs[s] = "close" <=> IsFull(s)
    BY <1>1, <2>1 DEF Queued
  <2>3. CASE SlotExists(s)
    <3>1. slotState'[s] = IF req[r].jobs[s] = "close" THEN "closed" ELSE "open"
      BY <1>1, <1>33, <2>3 DEF ReconcileWrite, TypeOK
    <3>2. PICK h : h = AfterJobs(req[r], s) /\ req' = [req EXCEPT ![r] = h]
      BY <1>33, <2>3 DEF ReconcileWrite
    <3>. QED BY <2>1, <2>2, <3>1, <3>2, JobStep
  <2>4. CASE ~SlotExists(s)
    <3>1. PICK h : /\ h = IF req[r].at = "release" THEN Idle ELSE AfterJobs(req[r], s)
                   /\ req' = [req EXCEPT ![r] = h]
      BY <1>33, <2>4 DEF ReconcileWrite
    <3>. QED BY <2>1, <2>4, <3>1, JobStep
  <2>. QED BY <2>3, <2>4
<1>. QED
  BY <1>7, <1>8, <1>9, <1>10, <1>11, <1>12, <1>13, <1>14, <1>15, <1>16, <1>17, <1>18, <1>19,
     <1>20, <1>21, <1>22, <1>23, <1>24, <1>25, <1>26, <1>27, <1>28, <1>29, <1>30, <1>31, <1>32, <1>33
  DEF Continue

LEMMA SerialInit == Init => SerialInv
<1>. SUFFICES ASSUME Init, NEW r \in Request PROVE SerialOK(req[r])
  BY DEF SerialInv
<1>1. /\ req[r].op = "idle" /\ req[r].at = "idle" /\ req[r].b = None /\ req[r].jobs = NoJobs
      /\ \A s \in Slot : NoJobs[s] = "none"
  BY DEF Init, Idle, NoJobs
<1>. QED BY <1>1, NoneAssumption DEF SerialOK, Licensed, Placed, Queued, VerifyOps

LEMMA SerialNext ==
  ASSUME Serial, SafetyInv, SerialInv, [Next]_vars
  PROVE  SerialStep
<1>1. CASE UNCHANGED vars
  <2>1. Undisturbed /\ req' = req
    BY <1>1 DEF vars, Undisturbed
  <2>2. Statuses' = Statuses /\ Joins /\ \A h : SerialOK(h) => SerialOK(h)'
    BY <2>1, UndisturbedKeeps
  <2>3. SerialInv'
    BY <2>1, <2>2 DEF SerialInv, SerialOK, Licensed, Placed, Queued
  <2>. QED BY <2>1, <2>2, <2>3 DEF SerialStep, Reconciles
<1>2. CASE Next
  BY <1>2, SerialCall, SerialContinue, SerialEnvironment DEF Next
<1>. QED BY <1>1, <1>2

LEMMA SerialAlways ==
  ASSUME Serial
  PROVE  Spec => [](SafetyInv /\ SerialInv)
<1>1. SafetyInv /\ SerialInv /\ [Next]_vars => SerialInv'
  BY SerialNext DEF SerialStep
<1>. QED BY <1>1, SafetyInvariant, SerialInit, PTL DEF Spec

\* When requests do not overlap every change of a booking's status is one the
\* status machine allows: what assertTransition saw is what the update writes
\* over, whatever payments and reversals come in between.
THEOREM FollowsTheLifecycle ==
  ASSUME Serial
  PROVE  Spec => FollowsLifecycle
<1>1. Init => Lifecycle!Init
  BY DEF Init, Lifecycle!Init, NoRow
<1>2. SafetyInv /\ SerialInv /\ [Next]_vars => [Lifecycle!Next]_Statuses
  BY SerialNext DEF SerialStep
<1>. QED BY <1>1, <1>2, SerialAlways, PTL
         DEF Spec, FollowsLifecycle, Lifecycle!Spec, Statuses

\* When requests do not overlap no booking is moved onto a full slot, although
\* create() and reschedule() count queries before they write.
THEOREM JoinsHaveRoom ==
  ASSUME Serial
  PROVE  Spec => JoinOnlyWithRoom
<1>1. SafetyInv /\ SerialInv /\ [Next]_vars
        => [\A b \in Booking, s \in Slot :
              booking[b].slot # s /\ booking'[b].slot = s => ~IsFull(s)]_vars
  BY SerialNext DEF SerialStep, Joins
<1>. QED BY <1>1, SerialAlways, PTL DEF Spec, JoinOnlyWithRoom

\* When requests do not overlap a finished reconciliation leaves isAvailable
\* telling the truth: what it counted is still so when it writes, also when it
\* ran after the response was sent.
THEOREM ReconciliationIsExact ==
  ASSUME Serial
  PROVE  Spec => ReconciledIsExact
<1>1. SafetyInv /\ SerialInv /\ [Next]_vars
        => [\A r \in Request, s \in Slot :
              req[r].jobs[s] # "none" /\ req'[r].jobs[s] = "none" /\ SlotExists(s)
                => (slotState'[s] = "closed" <=> IsFull(s)')]_vars
  BY SerialNext DEF SerialStep, Reconciles
<1>. QED BY <1>1, SerialAlways, PTL DEF Spec, ReconciledIsExact
=============================================================================
