----------------------------- MODULE MCBooking -----------------------------
(* Small instances of Booking for TLC. *)
EXTENDS Booking, TLC

CONSTANTS b1, b2, b3, s1, s2, w1, w2, r1, r2

OneBooking == {b1}
TwoBookings == {b1, b2}
ThreeBookings == {b1, b2, b3}
OneSlot == {s1}
TwoSlots == {s1, s2}
OneWorker == {w1}
TwoWorkers == {w1, w2}
OneRequest == {r1}
TwoRequests == {r1, r2}

SingleSeats == [s \in Slot |-> 1]

\* Everything the two services do.
AllOps == Ops

\* What changes a status or a slot; the worker's bookkeeping and the later
\* fate of the money change neither.
StatusAndSlotOps == Ops \ {"accept", "collectPayment", "reverse", "offlinePayment",
                           "webhookCaptured"}

\* Paying and moving a booking, with no payment recorded by hand.
PaymentOps == {"create", "razorpayVerify", "paymentVerify", "webhookCaptured",
               "cancel", "confirm", "reschedule", "remove", "reverse"}

\* What customers do on their own, through the app.
CustomerOps == {"create", "razorpayVerify"}

Symmetry ==
  Permutations(Booking) \union Permutations(Worker) \union Permutations(Request)
=============================================================================
