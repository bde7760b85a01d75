--------------------------- MODULE BookingStatus ---------------------------
(***************************************************************************)
(* The status machine of a booking, as the bookings service states it in   *)
(* three constants: the transition table, the terminal statuses and the    *)
(* statuses that hold the capacity of a time slot.                         *)
(***************************************************************************)

Status ==
  {"PENDING_PAYMENT", "PENDING", "CONFIRMED", "ASSIGNED", "IN_PROGRESS",
   "COMPLETED", "CANCELLED", "NO_SHOW", "RESCHEDULED"}

ALLOWED_TRANSITIONS ==
  [s \in Status |->
     CASE s = "PENDING_PAYMENT" -> {"PENDING", "CANCELLED"}
       [] s = "PENDING"     -> {"CONFIRMED", "CANCELLED", "RESCHEDULED"}
       [] s = "CONFIRMED"   -> {"ASSIGNED", "IN_PROGRESS", "CANCELLED",
                                "RESCHEDULED", "NO_SHOW"}
       [] s = "ASSIGNED"    -> {"IN_PROGRESS", "COMPLETED", "CANCELLED",
                                "RESCHEDULED"}
       [] s = "IN_PROGRESS" -> {"COMPLETED", "CANCELLED"}
       [] s = "RESCHEDULED" -> {"CONFIRMED", "CANCELLED"}
       [] OTHER -> {}]

TERMINAL_STATUSES == {"COMPLETED", "CANCELLED", "NO_SHOW"}

ACTIVE_BOOKING_STATUSES == {"PENDING", "CONFIRMED", "ASSIGNED", "IN_PROGRESS"}

\* assertTransition and assertNotTerminal: the call goes on only if they hold.
CanTransition(from, to) == to \in ALLOWED_TRANSITIONS[from]

NotTerminal(s) == s \notin TERMINAL_STATUSES
=============================================================================
