----------------------------- MODULE Backoffice -----------------------------
(***************************************************************************)
(* The back office as a whole: territory and staff, tasks, jobs, their     *)
(* invoices and documents, support tickets, organizations and sales, each  *)
(* a part of the same server and database, and the screens that show them. *)
(* A request of any part may run beside one of another.                    *)
(***************************************************************************)
EXTENDS Exports, Crm

vars == <<handling, territory, task, work, support, tenancy, sales, document>>

Init ==
  /\ RequestInit
  /\ TerritoryInit /\ TaskInit /\ WorkInit /\ TicketInit /\ TenancyInit /\ SalesInit /\ DocumentInit

Next ==
  /\ \/ TerritoryNext /\ UNCHANGED <<task, work, support, tenancy, sales, document>>
     \/ TaskNext /\ UNCHANGED <<territory, work, support, tenancy, sales, document>>
     \/ JobNext /\ UNCHANGED <<territory, task, support, tenancy, sales, document>>
     \/ InvoicingNext /\ UNCHANGED <<territory, task, support, tenancy, sales, document>>
     \/ TicketNext /\ UNCHANGED <<territory, task, work, tenancy, sales, document>>
     \/ TenancyNext /\ UNCHANGED <<territory, task, work, support, sales, document>>
     \/ SalesNext /\ UNCHANGED <<territory, task, work, support, tenancy, document>>
     \/ DocumentNext /\ UNCHANGED <<territory, task, work, support, tenancy, sales>>
     \/ \E r \in Request : Fails(r) /\ UNCHANGED <<territory, task, work, support, tenancy, sales, document>>
  /\ workload' = workload

Spec == Init /\ [][Next]_vars

-----------------------------------------------------------------------------

\* Every table of the back office has the shape declared for it.
TypeOK ==
  /\ workload \in Workloads
  /\ TerritoryTypeOK /\ TaskTypeOK /\ WorkTypeOK /\ TicketTypeOK /\ TenancyTypeOK /\ SalesTypeOK
  /\ DocumentTypeOK

\* Everyone has the profile of the role held, and the lists agree about them:
\* each is in exactly one of two opposite lists, and nobody is shown free who
\* is not on duty, whatever was written between the rows they are built from; and
\* what a manager's list shows can be opened, and tells the same when it is.
StaffAndLists ==
  RoleHasProfile /\ EveryoneListedOnce /\ ShownFreeIsOnDuty /\ WorkersOpen /\ JobsOpen

\* No record is half written: what is finished, cancelled, ended or closed says
\* when and by which evidence, numbers have no gap, names no double, and no row
\* refers to one that is gone, nor says there is a file when there is none,
\* although most are written by several queries.
RecordsAreWhole ==
  /\ CompletedHasEvidence /\ EndIsDated /\ CancelledIsDated /\ ClosedLeadIsDated
  /\ NumbersConsecutive /\ OfficeNamesDistinct
  /\ NoOrphans /\ NothingDangles /\ NotedIsStored


\* Staff follow their places: the status of an area reaches everyone put there,
\* nobody loses a place by a deletion, who is hired is in the team that hired,
\* and a super administrator is made and unmade by nobody.
StaffFollowPlaces ==
  CascadeReachesEveryone /\ DeletionTakesNoPlace /\ HiredIsInTeam /\ SuperAdminsStay

\* What was decided stays decided: an approved task, a closed ticket, a lead
\* once converted, a completed job, the access a cancelled subscription has
\* paid for; and the log of an escalation says what it replaced.
FinalIsFinal ==
  /\ ApprovalIsFinal /\ ClosedIsFinal /\ ConvertedOnce /\ CompletedIsFixed
  /\ CancelKeepsAccess /\ LogTellsTruth

\* Work reaches those who can do it: who is told of a job sees it, who gives
\* it away keeps it on the panel, who is given a task may do it, and who pays for
\* a booking finds it.
PanelsFollow == ToldManagersSee /\ JobStaysOnPanel /\ AssignedIsEligible /\ PaidIsShown
=============================================================================
