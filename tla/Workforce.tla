----------------------------- MODULE Workforce -----------------------------
(***************************************************************************)
(* Balances, attendance and leave together.  They meet in three places:    *)
(* lwpUsed is written for absences and for leave beyond the balance, leave *)
(* is refused on a day of presence, and the jobs credit the balances that  *)
(* approvals deduct from.                                                  *)
(***************************************************************************)
EXTENDS LeaveRequest, FiniteSetsExt

vars == <<balance, ledger, policy, today, failures, req, session, missed, leave>>

Init == PolicyInit /\ AttendanceInit /\ LeaveInit

Call(r) ==
  \/ PolicyCall(r) /\ UNCHANGED <<attendanceVars, leave>>
  \/ AttendanceCall(r) /\ UNCHANGED leave
  \/ LeaveCall(r)

Continue(r) ==
  \/ PolicyContinue(r) /\ UNCHANGED <<attendanceVars, leave>>
  \/ AttendanceContinue(r) /\ UNCHANGED leave
  \/ LeaveContinue(r)

Environment ==
  \/ (Midnight \/ Crash \/ \E r \in Request : Throw(r)) /\ UNCHANGED <<attendanceVars, leave>>
  \/ \E s \in Session : Deadline(s) /\ UNCHANGED leave

Next ==
  \/ Environment
  \/ \E r \in Request : Call(r) \/ Continue(r) \/ (Sweep(r) /\ UNCHANGED leave)

Spec == Init /\ [][Next]_vars

\* Handlers keep running, and the cron keeps sweeping.
FairSpec ==
  /\ Spec
  /\ \A r \in Request : WF_vars(Continue(r))
  /\ SF_vars(\E r \in Request : Sweep(r) /\ UNCHANGED leave)

-----------------------------------------------------------------------------
(* Properties *)

\* The rows and handlers have the shapes declared above.
TypeOK ==
  /\ balance \in [Staff -> Balance]
  /\ ledger \in [Staff -> [Type -> Totals]]
  /\ policy \in [month : Nat, year : Nat]
  /\ today \in 1..Days
  /\ failures \in 0..Failures
  /\ req \in [Request -> Handler]
  /\ session \in [Session -> SessionRow]
  /\ missed \in [Session -> MissedRow]
  /\ leave \in [Leave -> LeaveRow]

\* Every day of a balance has its transaction: what remains of each type is
\* what was allocated, less the deductions, plus what the resets changed.
\* Holds under any overlap, as long as no reset is among what overlaps.
LedgerAgrees ==
  \A w \in Staff, t \in Type :
    balance[w].alloc[t] - balance[w].used[t] =
      ledger[w][t].ALLOCATION - ledger[w][t].DEDUCTION + ledger[w][t].RESET

\* A request that needs an administrator is never APPROVED by the manager
\* alone, however the decisions of both, and a cancellation, overlap.
ApprovedAtRequiredLevel ==
  /\ \A l \in Leave : LET a == leave[l].approval
                      IN  a.status = "APPROVED" /\ a.required => a.adminDecision = "APPROVED"
  /\ \A s \in Session : LET a == missed[s].approval
                        IN  a.status = "APPROVED" /\ a.required => a.adminDecision = "APPROVED"

\* A missed check-out costs at most one day without pay, although the cron,
\* check-outs and queries all flag, may flag the same session at once, and
\* write the counter from what they read; nor do two approvals, or lost
\* updates, ever add a day.  (Without leave, whose approval may run twice.)
ChargedOnce ==
  \A w \in Staff :
    (\A l \in Leave : leave[l].staff # w)
      => balance[w].lwp <= Cardinality({s \in Session : session[s].staff = w
                                                        /\ session[s].missedCheckout})

\* A balance is never overdrawn: leave beyond it is leave without pay.  Holds
\* when requests do not overlap.
NeverOverdrawn ==
  \A w \in Staff, t \in Type : balance[w].used[t] <= balance[w].alloc[t]

Quiet == \A r \in Request : req[r] = Idle

ApprovedDays(w) ==
  {l \in Leave : leave[l].staff = w /\ leave[l].approval.status = "APPROVED"
                 /\ leave[l].type \in Type}

UnpaidDays(w) ==
  {s \in Session : session[s].staff = w /\ session[s].missedCheckout
                   /\ ~(missed[s].approval.status = "APPROVED" /\ missed[s].counts)}

\* Each approved day of leave, and each missed check-out that was not forgiven,
\* is counted exactly once, as a deduction or as a day without pay; cancelled,
\* rejected and forgiven days are not counted.  Holds when requests do not
\* overlap and nothing fails.
EachDayCountedOnce ==
  Quiet /\ failures = 0 => \A w \in Staff :
    MapThenSumSet(LAMBDA t : ledger[w][t].DEDUCTION, Type) + balance[w].lwp =
      Cardinality(ApprovedDays(w)) + Cardinality(UnpaidDays(w))

\* Nobody is credited a month, or a year, twice: besides the first grant there
\* is at most one credit for each month begun.  Holds when jobs do not overlap
\* and nothing fails.
CreditedOncePerPeriod ==
  failures = 0 => \A w \in Staff, t \in Type :
    ledger[w][t].ALLOCATION <=
      Allocation[t] * (1 + IF t = "SICK" THEN Cardinality(ResetMonths \intersect 1..Month)
                           ELSE Month)

\* Nobody has two open sessions on one day, of which one would be checked out and
\* the other flagged and charged, whatever is corrected, swept and decided
\* between two check-ins.  Holds when requests do not overlap: checkIn looks for
\* an open session and creates one in a later query, and no key forbids a second.
OneOpenSession == \A w \in Staff, d \in 1..Days : Cardinality(OpenOn(w, d)) <= 1

View(a) == [status |-> a.status, level |-> a.level, required |-> a.required]

LeaveApproval ==
  INSTANCE TwoLevelApproval WITH Id <- Leave, request <- [l \in Leave |-> View(leave[l].approval)]

MissedApproval ==
  INSTANCE TwoLevelApproval WITH Id <- Session,
                                 request <- [s \in Session |-> View(missed[s].approval)]

\* Leave requests go through a two-level approval.  Holds when requests do not
\* overlap.
LeaveFollowsApproval == LeaveApproval!Spec

\* So do requests about missed check-outs.
MissedFollowsApproval == MissedApproval!Spec

\* A session that nobody checks out is flagged in the end, whoever calls, and
\* whatever crashes.  Holds when requests do not overlap.
MissedIsCaught ==
  \A s \in Session : session[s].status = "CHECKED_IN" /\ session[s].past
                       ~> session[s].status # "CHECKED_IN"

\* A decision counts once, and at the level that owes it: no approval of one
\* level where two are needed, and no day charged twice, under any overlap.
DecidedOnce == ApprovedAtRequiredLevel /\ ChargedOnce

\* The balances hold: they follow from the ledger, are never overdrawn, carry
\* every day exactly once and are credited once a period, whatever sequence of
\* requests, decisions, cancellations and nightly jobs has run.
BalancesHold == LedgerAgrees /\ NeverOverdrawn /\ EachDayCountedOnce /\ CreditedOncePerPeriod

\* A day has one session at a time and costs what became of it, through check-in,
\* correction, sweep and decision.
SessionsHold == OneOpenSession /\ EachDayCountedOnce
=============================================================================
