----------------------------- MODULE Attendance -----------------------------
(***************************************************************************)
(* Attendance sessions and the requests about missed check-outs: the       *)
(* attendance service with its cron, and the missed-checkout service.      *)
(*                                                                         *)
(* A session is past when two hours have gone since the end of the shift;  *)
(* photos, positions and the exact times are left out.  What matters of a  *)
(* corrected or approved check-out time is whether it makes the day count. *)
(***************************************************************************)
EXTENDS LeavePolicy

CONSTANT
  Manager    \* the staff with role MANAGER

ASSUME ManagerAssumption == Manager \subseteq Staff

VARIABLES
  session,   \* the Attendance table
  missed     \* the MissedCheckoutRequest table, by its unique attendanceId

attendanceVars == <<session, missed>>

-----------------------------------------------------------------------------
(* Rows *)

SessionRow ==
  [status : {"NONE", "CHECKED_IN", "CHECKED_OUT", "PRESENT", "ABSENT"},
   staff : Staff \union {None}, day : 0..Days,
   past : BOOLEAN,             \* the deadline of its check-out is over
   missedCheckout : BOOLEAN]

NoSession ==
  [status |-> "NONE", staff |-> None, day |-> 0, past |-> FALSE, missedCheckout |-> FALSE]

\* A request that a manager decides, and an administrator if required.
Approval ==
  [status : {"NONE", "PENDING", "APPROVED", "REJECTED", "CANCELLED"},
   level : {"MANAGER", "ADMIN"}, required : BOOLEAN,
   managerDecision : {"NONE", "APPROVED", "REJECTED"},
   adminDecision : {"NONE", "APPROVED", "REJECTED"}]

NoApproval ==
  [status |-> "NONE", level |-> "MANAGER", required |-> FALSE,
   managerDecision |-> "NONE", adminDecision |-> "NONE"]

\* counts: the approved check-out time makes it a day, or half a day, of work.
MissedRow == [approval : Approval, counts : BOOLEAN]

\* A request for the manager, or for the administrator if a manager needs it.
\* The setting that requires both levels is read when the request is made.
NewApproval(w, required) ==
  [NoApproval EXCEPT !.status = "PENDING",
                     !.level = IF w \in Manager THEN "ADMIN" ELSE "MANAGER",
                     !.required = w \in Manager \/ required]

\* [mutant] whichever level it is at.
PendingAtAnyLevel(a, level) == a.status = "PENDING"

\* [mutant] whatever has been decided.
PendingOrDecided(a, level) == a.status # "NONE" /\ a.level = level

\* getPendingAtLevel
PendingAt(a, level) == a.status = "PENDING" /\ a.level = level

\* [mutant] the manager's approval is always the last.
AfterApprovalFinal(a, level, final) == final

\* The approver goes on to escalate, or else to `final'.
AfterApproval(a, level, final) == IF level = "MANAGER" /\ a.required THEN "escalate" ELSE final

Escalated(a) == [a EXCEPT !.managerDecision = "APPROVED", !.level = "ADMIN"]

Decided(a, level, decision) ==
  IF level = "MANAGER"
    THEN [a EXCEPT !.status = decision, !.managerDecision = decision]
    ELSE [a EXCEPT !.status = decision, !.adminDecision = decision]

OpenOn(w, d) ==
  {s \in Session : session[s].status = "CHECKED_IN" /\ session[s].staff = w /\ session[s].day = d}

-----------------------------------------------------------------------------
(* Check-in and check-out *)

\* The bound on rows: there is one for every handler about to insert.
RoomFor(place, free) == Cardinality({q \in Request : req[q].at = place}) < Cardinality(free)

\* [mutant] whether a session is open or not.
CheckInAgain(r, w) ==
  /\ RoomFor("insert", {s \in Session : session[s] = NoSession})
  /\ Begin(r, [Handle("checkIn", "insert") EXCEPT !.staff = w])
  /\ UNCHANGED <<policyVars, clockVars, attendanceVars>>

CheckIn(r, w) ==
  /\ RoomFor("insert", {s \in Session : session[s] = NoSession})
  /\ Begin(r, [Handle("checkIn", "insert") EXCEPT !.staff = w])
  /\ OpenOn(w, today) = {}
  /\ UNCHANGED <<policyVars, clockVars, attendanceVars>>

\* The session is created, and then the day is looked up as by getTodayAttendance.
InsertSession(r) ==
  /\ req[r].at = "insert"
  /\ \E s \in Session :
       /\ session[s] = NoSession
       /\ session' = [session EXCEPT ![s] = [NoSession EXCEPT !.status = "CHECKED_IN",
                                               !.staff = req[r].staff, !.day = today]]
  /\ Await(r, "today")
  /\ UNCHANGED <<policyVars, clockVars, missed>>

\* getTodayAttendance is only a query while no session is open.
GetTodayAttendance(r, w) ==
  /\ Begin(r, [Handle("today", "today") EXCEPT !.staff = w])
  /\ OpenOn(w, today) # {}
  /\ UNCHANGED <<policyVars, clockVars, attendanceVars>>

FindToday(r) ==
  LET open == OpenOn(req[r].staff, today)
  IN  /\ req[r].at = "today"
      /\ \/ open = {} /\ Reply(r)
         \/ \E s \in open : req' = [req EXCEPT ![r].at = "flag", ![r].id = s]
      /\ UNCHANGED <<policyVars, clockVars, attendanceVars>>

\* checkOut looks for the session, flags it if it is past, and looks again.
CheckOut(r, w) ==
  /\ \E s \in OpenOn(w, today) :
       Begin(r, [Handle("checkOut", "flag") EXCEPT !.staff = w, !.id = s, !.next = "find"])
  /\ UNCHANGED <<policyVars, clockVars, attendanceVars>>

\* flagIfMissedCheckout
Flag(r) ==
  LET s == session[req[r].id]
  IN  /\ req[r].at = "flag"
      /\ Await(r, IF s.status = "CHECKED_IN" /\ s.past THEN "mark" ELSE req[r].next)
      /\ UNCHANGED <<policyVars, clockVars, attendanceVars>>

FindOpen(r) ==
  LET open == OpenOn(req[r].staff, session[req[r].id].day)
  IN  /\ req[r].at = "find"
      /\ \/ open = {} /\ Reply(r)
         \/ \E s \in open : req' = [req EXCEPT ![r].at = "checkOut", ![r].id = s]
      /\ UNCHANGED <<policyVars, clockVars, attendanceVars>>

CheckOutWrite(r) ==
  /\ req[r].at = "checkOut"
  /\ session' = [session EXCEPT ![req[r].id].status = "CHECKED_OUT"]
  /\ Reply(r)
  /\ UNCHANGED <<policyVars, clockVars, missed>>

\* correct, with a check-out time or without.
Correct(r, s, out) ==
  /\ session[s].status # "NONE"
  /\ Begin(r, [Handle("correct", "correct") EXCEPT
                 !.id = s, !.status = IF out THEN "CHECKED_OUT" ELSE session[s].status])
  /\ UNCHANGED <<policyVars, clockVars, attendanceVars>>

CorrectWrite(r) ==
  /\ req[r].at = "correct"
  /\ session' = [session EXCEPT ![req[r].id].status = req[r].status]
  /\ Reply(r)
  /\ UNCHANGED <<policyVars, clockVars, missed>>

-----------------------------------------------------------------------------
(* Missed check-outs *)

\* [mutant] only the sessions of today, as every other query.
SweepToday(r) ==
  LET open == {s \in Session : session[s].status = "CHECKED_IN" /\ session[s].day = today}
  IN  /\ Begin(r, [Handle("sweep", "rows") EXCEPT !.todo = open, !.next = "rows"])
      /\ open # {}
      /\ UNCHANGED <<policyVars, clockVars, attendanceVars>>

\* runMissedCheckoutDetection, every half hour.
Sweep(r) ==
  LET open == {s \in Session : session[s].status = "CHECKED_IN"}
  IN  /\ Begin(r, [Handle("sweep", "rows") EXCEPT !.todo = open, !.next = "rows"])
      /\ open # {}
      /\ UNCHANGED <<policyVars, clockVars, attendanceVars>>

\* The rows are taken as they were when the sweep began.
NextRow(r) ==
  /\ req[r].at = "rows"
  /\ \/ req[r].todo = {} /\ Reply(r)
     \/ \E s \in req[r].todo :
          req' = [req EXCEPT ![r].todo = @ \ {s},
                             ![r].at = IF session[s].past THEN "mark" ELSE "rows",
                             ![r].id = IF session[s].past THEN s ELSE None,
                             ![r].staff = IF session[s].past THEN session[s].staff ELSE None]
  /\ UNCHANGED <<policyVars, clockVars, attendanceVars>>

\* [mutant] no unique key on the session of a request.
MarkAgain(r) ==
  LET s == req[r].id
  IN  /\ req[r].at = "mark"
      /\ session' = [session EXCEPT ![s].status = "ABSENT", ![s].missedCheckout = TRUE]
      /\ \E required \in BOOLEAN :
           missed' = [missed EXCEPT ![s].approval = NewApproval(session[s].staff, required)]
      /\ req' = [req EXCEPT ![r].at = "lwp", ![r].days = 1]
      /\ UNCHANGED <<policyVars, clockVars>>

\* markMissedCheckout: session and request are written together, and fail
\* together if there is a request already.  The day without pay comes later.
Mark(r) ==
  LET s == req[r].id
  IN  /\ req[r].at = "mark"
      /\ IF missed[s].approval.status # "NONE"
           THEN Reply(r) /\ UNCHANGED attendanceVars
           ELSE /\ session' = [session EXCEPT ![s].status = "ABSENT",
                                              ![s].missedCheckout = TRUE]
                /\ \E required \in BOOLEAN :
                     missed' = [missed EXCEPT ![s].approval =
                                  NewApproval(session[s].staff, required)]
                /\ req' = [req EXCEPT ![r].at = "lwp", ![r].days = 1]
      /\ UNCHANGED <<policyVars, clockVars>>

\* managerApprove, managerReject, adminApprove, adminReject: getPendingAtLevel.
DecideMissed(r, s, level, decision, counts) ==
  LET a == missed[s].approval
      h == [Handle("decideMissed", "settle") EXCEPT
              !.id = s, !.level = level, !.decision = decision, !.staff = session[s].staff,
              !.status = IF counts THEN "PRESENT" ELSE "ABSENT"]
  IN  /\ PendingAt(a, level)
      /\ decision = "REJECTED" => ~counts
      /\ Begin(r, IF decision = "APPROVED" THEN [h EXCEPT !.at = AfterApproval(a, level, "settle")]
                  ELSE h)
      /\ UNCHANGED <<policyVars, clockVars, attendanceVars>>

EscalateMissed(r) ==
  /\ req[r].op = "decideMissed" /\ req[r].at = "escalate"
  /\ missed' = [missed EXCEPT ![req[r].id].approval = Escalated(@)]
  /\ Reply(r)
  /\ UNCHANGED <<policyVars, clockVars, session>>

\* [mutant] an approved day is not given back.
SettleMissedUnforgiven(r) ==
  LET h == req[r]
  IN  /\ h.op = "decideMissed" /\ h.at = "settle"
      /\ session' = [session EXCEPT ![h.id].status = h.status]
      /\ missed' = [missed EXCEPT ![h.id] =
                      [approval |-> Decided(@.approval, h.level, h.decision),
                       counts |-> h.status = "PRESENT"]]
      /\ Reply(r)
      /\ UNCHANGED <<policyVars, clockVars>>

\* finalizeApproval and finalizeRejection: session and request are written
\* together; a day that counts is given back in a query of its own.
SettleMissed(r) ==
  LET h == req[r]
      counts == h.status = "PRESENT"
  IN  /\ h.op = "decideMissed" /\ h.at = "settle"
      /\ session' = [session EXCEPT ![h.id].status = h.status]
      /\ missed' = [missed EXCEPT ![h.id] =
                      [approval |-> Decided(@.approval, h.level, h.decision), counts |-> counts]]
      /\ IF counts THEN req' = [req EXCEPT ![r].at = "lwp", ![r].days = -1] ELSE Reply(r)
      /\ UNCHANGED <<policyVars, clockVars>>

-----------------------------------------------------------------------------

\* Two hours after the end of the shift.
Deadline(s) ==
  /\ session[s].status = "CHECKED_IN" /\ ~session[s].past
  /\ session' = [session EXCEPT ![s].past = TRUE]
  /\ UNCHANGED <<policyVars, clockVars, missed, req>>

AttendanceCall(r) ==
  \/ \E w \in Staff : CheckIn(r, w) \/ GetTodayAttendance(r, w) \/ CheckOut(r, w)
  \/ \E s \in Session, out \in BOOLEAN : Correct(r, s, out)
  \/ \E s \in Session, level \in {"MANAGER", "ADMIN"}, decision \in {"APPROVED", "REJECTED"},
        counts \in BOOLEAN : DecideMissed(r, s, level, decision, counts)

AttendanceContinue(r) ==
  \/ InsertSession(r)
  \/ FindToday(r)
  \/ Flag(r)
  \/ FindOpen(r)
  \/ CheckOutWrite(r)
  \/ CorrectWrite(r)
  \/ NextRow(r)
  \/ Mark(r)
  \/ EscalateMissed(r)
  \/ SettleMissed(r)

AttendanceInit ==
  /\ session = [s \in Session |-> NoSession]
  /\ missed = [s \in Session |-> [approval |-> NoApproval, counts |-> FALSE]]
=============================================================================
