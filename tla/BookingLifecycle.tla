-------------------------- MODULE BookingLifecycle --------------------------
(***************************************************************************)
(* What the bookings service promises of one booking's status, with no     *)
(* handlers, slots or payments: the published transition table, plus the   *)
(* two assignments by staff, which accept every status that is not         *)
(* terminal.  A terminal booking never moves again; it can only be         *)
(* deleted.                                                                *)
(***************************************************************************)
EXTENDS BookingStatus

CONSTANT Booking

VARIABLE status

Init == status = [b \in Booking |-> "NONE"]

Created(b) ==
  /\ status[b] = "NONE"
  /\ status' = [status EXCEPT ![b] = "PENDING_PAYMENT"]

Moved(b) ==
  /\ status[b] \in Status
  /\ \E s \in ALLOWED_TRANSITIONS[status[b]] : status' = [status EXCEPT ![b] = s]

AssignedByStaff(b) ==
  /\ status[b] \in Status \ TERMINAL_STATUSES
  /\ \E s \in {"CONFIRMED", "ASSIGNED"} : status' = [status EXCEPT ![b] = s]

Deleted(b) ==
  /\ status[b] \in TERMINAL_STATUSES
  /\ status' = [status EXCEPT ![b] = "DELETED"]

Next == \E b \in Booking : Created(b) \/ Moved(b) \/ AssignedByStaff(b) \/ Deleted(b)

Spec == Init /\ [][Next]_status
=============================================================================
