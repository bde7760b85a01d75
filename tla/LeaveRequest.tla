---------------------------- MODULE LeaveRequest ----------------------------
(***************************************************************************)
(* Leave requests: the leave-request service.  A request is for one day    *)
(* and one type; EMERGENCY is the type that the policy does not govern.    *)
(***************************************************************************)
EXTENDS Attendance

VARIABLE
  leave      \* the WorkerLeaveRequest table

\* Dates count from 1; a row that does not exist has date 0.
LeaveRow ==
  [approval : Approval, staff : Staff \union {None}, date : 0..Days,
   type : Type \union {"EMERGENCY", None}]

NoLeave == [approval |-> NoApproval, staff |-> None, date |-> 0, type |-> None]

LeavesFor(w, d) ==
  {l \in Leave : leave[l].staff = w /\ leave[l].date = d
                 /\ leave[l].approval.status \in {"PENDING", "APPROVED"}}

\* A day on which the employee was present.
Present(w, d) ==
  \E s \in Session : session[s].staff = w /\ session[s].day = d /\ session[s].status # "ABSENT"

\* applyLeave, and applyManagerLeave, which does not look at attendance.
ApplyLeave(r, w, d, t) ==
  /\ RoomFor("apply", {l \in Leave : leave[l] = NoLeave})
  /\ Begin(r, [Handle("apply", "apply") EXCEPT !.staff = w, !.date = d, !.type = t])
  /\ d >= today
  /\ LeavesFor(w, d) = {}
  /\ w \in Manager \/ ~Present(w, d)
  /\ UNCHANGED <<policyVars, clockVars, attendanceVars, leave>>

InsertLeave(r) ==
  LET h == req[r]
  IN  /\ h.at = "apply"
      /\ \E l \in Leave, required \in BOOLEAN :
           /\ leave[l] = NoLeave
           /\ leave' = [leave EXCEPT ![l] = [approval |-> NewApproval(h.staff, required),
                                             staff |-> h.staff, date |-> h.date,
                                             type |-> h.type]]
      /\ Reply(r)
      /\ UNCHANGED <<policyVars, clockVars, attendanceVars>>

\* [mutant] an approved request can be withdrawn too.
CancelLeaveApproved(r, l) ==
  /\ Begin(r, [Handle("cancel", "cancel") EXCEPT !.id = l])
  /\ leave[l].approval.status \in {"PENDING", "APPROVED"}
  /\ UNCHANGED <<policyVars, clockVars, attendanceVars, leave>>

CancelLeave(r, l) ==
  /\ Begin(r, [Handle("cancel", "cancel") EXCEPT !.id = l])
  /\ leave[l].approval.status = "PENDING"
  /\ UNCHANGED <<policyVars, clockVars, attendanceVars, leave>>

CancelLeaveWrite(r) ==
  /\ req[r].at = "cancel"
  /\ leave' = [leave EXCEPT ![req[r].id].approval.status = "CANCELLED"]
  /\ Reply(r)
  /\ UNCHANGED <<policyVars, clockVars, attendanceVars>>

\* managerApprove, managerReject, adminApprove, adminReject: getPendingAtLevel.
\* A day the policy governs is deducted before the request is APPROVED.
DecideLeave(r, l, level, decision) ==
  LET row == leave[l]
      final == IF row.type \in Type THEN "balance" ELSE "decide"
  IN  /\ PendingAt(row.approval, level)
      /\ Begin(r, [Handle("decideLeave", IF decision = "REJECTED" THEN "decide"
                                         ELSE AfterApproval(row.approval, level, final)) EXCEPT
                     !.id = l, !.level = level, !.decision = decision, !.staff = row.staff,
                     !.type = row.type, !.next = "decide"])
      /\ UNCHANGED <<policyVars, clockVars, attendanceVars, leave>>

EscalateLeave(r) ==
  /\ req[r].op = "decideLeave" /\ req[r].at = "escalate"
  /\ leave' = [leave EXCEPT ![req[r].id].approval = Escalated(@)]
  /\ Reply(r)
  /\ UNCHANGED <<policyVars, clockVars, attendanceVars>>

\* The last query of finalizeApproval, and the only one of finalizeRejection.
SettleLeave(r) ==
  LET h == req[r]
  IN  /\ h.at = "decide"
      /\ leave' = [leave EXCEPT ![h.id].approval = Decided(@, h.level, h.decision)]
      /\ Reply(r)
      /\ UNCHANGED <<policyVars, clockVars, attendanceVars>>

LeaveCall(r) ==
  \/ \E w \in Staff, d \in 1..Days, t \in Type \union {"EMERGENCY"} : ApplyLeave(r, w, d, t)
  \/ \E l \in Leave : CancelLeave(r, l)
  \/ \E l \in Leave, level \in {"MANAGER", "ADMIN"}, decision \in {"APPROVED", "REJECTED"} :
       DecideLeave(r, l, level, decision)

LeaveContinue(r) ==
  \/ InsertLeave(r)
  \/ CancelLeaveWrite(r)
  \/ EscalateLeave(r)
  \/ SettleLeave(r)

LeaveInit == leave = [l \in Leave |-> NoLeave]
=============================================================================
