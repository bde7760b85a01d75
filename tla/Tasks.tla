------------------------------- MODULE Tasks -------------------------------
(***************************************************************************)
(* Tasks of workers: tasks.service.ts, and the assignment from the         *)
(* manager's panel.  Every handler reads the task, checks it, and writes   *)
(* by id.  The organisation's filter, due dates and texts are left out; so *)
(* is whether the worker is checked in today, which module Attendance      *)
(* decides: here anyone may be.                                            *)
(***************************************************************************)
EXTENDS Territory

CONSTANT Tasks   \* bound: tasks ever created

VARIABLE task

TaskStatus == {"PENDING", "IN_PROGRESS", "COMPLETED_PENDING_APPROVAL", "COMPLETED"}

\* photos: pictures from before and after are stored; stamped: completedAt.
TaskRow ==
  [row : {"absent", "present", "gone"}, status : TaskStatus, pincode : Pincode \union {None},
   manager : Person \union {None}, worker : Person \union {None},
   photos : BOOLEAN, stamped : BOOLEAN]

TaskInit ==
  task = [t \in 1..Tasks |->
            [row |-> "absent", status |-> "PENDING", pincode |-> None, manager |-> None,
             worker |-> None, photos |-> FALSE, stamped |-> FALSE]]

TaskExists(t) == task[t].row = "present"

\* requireTask, or the update by id, which throws if the row is gone.
SetTask(t, row) == task' = IF TaskExists(t) THEN [task EXCEPT ![t] = row] ELSE task

ALLOWED_TRANSITIONS ==
  [status \in TaskStatus |->
     CASE status = "PENDING" -> {"IN_PROGRESS"}
       [] status = "IN_PROGRESS" -> {"COMPLETED_PENDING_APPROVAL"}
       [] status = "COMPLETED_PENDING_APPROVAL" -> {"COMPLETED", "IN_PROGRESS"}
       [] OTHER -> {}]

assertTransition(from, to) == to \in ALLOWED_TRANSITIONS[from]

validateManagerForPincode(m, p) ==
  Has(m, "MANAGER") /\ person[m].active /\ p \in person[m].pincodes

validateWorkerForPincode(w, p) ==
  Has(w, "WORKER") /\ person[w].active /\ person[w].pincode = p

validateWorkerInManagerPincodes(w, m) == person[w].pincode \in person[m].pincodes

-----------------------------------------------------------------------------
(* Administrators *)

CreateTask(r, p, M, W) ==
  /\ Arrives(r, "createTask")
  /\ pincode[p]
  /\ \A m \in M : validateManagerForPincode(m, p)
  /\ \A w \in W : validateWorkerForPincode(w, p)
  /\ Awaits(r, [op |-> "createTask", pincode |-> p, manager |-> M, worker |-> W])
  /\ UNCHANGED task

CreateTaskWrite(r) ==
  /\ Resumes(r, "createTask")
  /\ \E t \in NextRow(task, Tasks) :
       task' = [task EXCEPT ![t] =
                  [@ EXCEPT !.row = "present", !.pincode = req[r].pincode,
                            !.manager = Given(req[r].manager, None),
                            !.worker = Given(req[r].worker, None)]]
  /\ Reply(r)

\* The people already on the task are not checked against a new pincode.
UpdateTask(r, t, P, M, W) ==
  /\ Arrives(r, "updateTask")
  /\ TaskExists(t)
  /\ \A p \in P : p # task[t].pincode => pincode[p]
  /\ LET target == Given(P, task[t].pincode) IN
       /\ \A m \in M : validateManagerForPincode(m, target)
       /\ \A w \in W : validateWorkerForPincode(w, target)
  /\ Awaits(r, [op |-> "updateTask", task |-> t, pincode |-> P, manager |-> M, worker |-> W])
  /\ UNCHANGED task

UpdateTaskWrite(r) ==
  /\ Resumes(r, "updateTask")
  /\ LET t == req[r].task IN
       SetTask(t, [task[t] EXCEPT !.pincode = Given(req[r].pincode, @),
                                  !.manager = Given(req[r].manager, @),
                                  !.worker = Given(req[r].worker, @)])
  /\ Reply(r)

RemoveTask(r, t) ==
  /\ Arrives(r, "removeTask")
  /\ TaskExists(t)
  /\ Awaits(r, [op |-> "removeTask", task |-> t])
  /\ UNCHANGED task

\* The photos go with the row.
RemoveTaskWrite(r) ==
  /\ Resumes(r, "removeTask")
  /\ LET t == req[r].task IN SetTask(t, [task[t] EXCEPT !.row = "gone"])
  /\ Reply(r)

-----------------------------------------------------------------------------
(* Managers *)

InProgress(w) == {t \in 1..Tasks : TaskExists(t) /\ task[t].worker = w /\ task[t].status = "IN_PROGRESS"}

AssignWorker(r, t, m, w) ==
  /\ Arrives(r, "assignWorker")
  /\ TaskExists(t) /\ task[t].manager = m /\ task[t].status # "COMPLETED"
  /\ validateWorkerForPincode(w, task[t].pincode)
  /\ validateWorkerInManagerPincodes(w, m)
  /\ Awaits(r, [op |-> "assignWorker", task |-> t, worker |-> w])
  /\ UNCHANGED task

\* The panel's own checks come first.
AssignWorkerToTask(r, t, m, w) ==
  /\ InTeam(m, w) /\ person[w].active /\ InProgress(w) = {}
  /\ AssignWorker(r, t, m, w)

AssignWorkerWrite(r) ==
  /\ Resumes(r, "assignWorker")
  /\ LET t == req[r].task IN SetTask(t, [task[t] EXCEPT !.worker = req[r].worker])
  /\ Reply(r)

ApproveTask(r, t, m) ==
  /\ Arrives(r, "approveTask")
  /\ TaskExists(t) /\ task[t].manager = m /\ task[t].status = "COMPLETED_PENDING_APPROVAL"
  /\ Awaits(r, [op |-> "approveTask", task |-> t])
  /\ UNCHANGED task

ApproveTaskWrite(r) ==
  /\ Resumes(r, "approveTask")
  /\ LET t == req[r].task IN SetTask(t, [task[t] EXCEPT !.status = "COMPLETED", !.stamped = TRUE])
  /\ Reply(r)

RejectTask(r, t, m) ==
  /\ Arrives(r, "rejectTask")
  /\ TaskExists(t) /\ task[t].manager = m /\ task[t].status = "COMPLETED_PENDING_APPROVAL"
  /\ Awaits(r, [op |-> "rejectTask", task |-> t])
  /\ UNCHANGED task

RejectTaskWrite(r) ==
  /\ Resumes(r, "rejectTask")
  /\ LET t == req[r].task IN SetTask(t, [task[t] EXCEPT !.status = "IN_PROGRESS"])
  /\ Reply(r)

-----------------------------------------------------------------------------
(* Workers *)

\* The table of transitions lets a worker take back what awaits approval.
StartTask(r, t, w) ==
  /\ Arrives(r, "startTask")
  /\ TaskExists(t) /\ task[t].worker = w
  /\ assertTransition(task[t].status, "IN_PROGRESS")
  /\ Awaits(r, [op |-> "startTask", task |-> t])
  /\ UNCHANGED task

StartTaskWrite(r) ==
  /\ Resumes(r, "startTask")
  /\ LET t == req[r].task IN SetTask(t, [task[t] EXCEPT !.status = "IN_PROGRESS"])
  /\ Reply(r)

CompleteTask(r, t, w) ==
  /\ Arrives(r, "completeTask")
  /\ TaskExists(t) /\ task[t].worker = w
  /\ assertTransition(task[t].status, "COMPLETED_PENDING_APPROVAL")
  /\ Awaits(r, [op |-> "completeTask", task |-> t])
  /\ UNCHANGED task

\* The status and the photos are one nested write.
CompleteTaskWrite(r) ==
  /\ Resumes(r, "completeTask")
  /\ LET t == req[r].task IN
       SetTask(t, [task[t] EXCEPT !.status = "COMPLETED_PENDING_APPROVAL", !.photos = TRUE])
  /\ Reply(r)

-----------------------------------------------------------------------------

TaskStarts(r) ==
  \/ \E p \in Pincode, M, W \in Optional(workload.people) : CreateTask(r, p, M, W)
  \/ \E t \in 1..Tasks :
       \/ \E P \in Optional(Pincode), M, W \in Optional(workload.people) : UpdateTask(r, t, P, M, W)
       \/ RemoveTask(r, t)
       \/ \E u \in workload.people :
            \/ ApproveTask(r, t, u) \/ RejectTask(r, t, u)
            \/ StartTask(r, t, u) \/ CompleteTask(r, t, u)
            \/ \E w \in workload.people : AssignWorker(r, t, u, w) \/ AssignWorkerToTask(r, t, u, w)

TaskWrites(r) ==
  \/ CreateTaskWrite(r) \/ UpdateTaskWrite(r) \/ RemoveTaskWrite(r) \/ AssignWorkerWrite(r)
  \/ ApproveTaskWrite(r) \/ RejectTaskWrite(r) \/ StartTaskWrite(r) \/ CompleteTaskWrite(r)

TaskNext == \E r \in Request : (MayStart(r) /\ TaskStarts(r)) \/ TaskWrites(r)

-----------------------------------------------------------------------------
(* Properties *)

TaskTypeOK == task \in [1..Tasks -> TaskRow]

\* Whatever handlers overlap, the manager who approves while the worker takes
\* the work back included, a completed task has its photos and its date: what
\* the customer and the reports are shown.
CompletedHasEvidence ==
  \A t \in 1..Tasks :
    TaskExists(t) /\ task[t].status = "COMPLETED" => task[t].photos /\ task[t].stamped

\* Work that has been approved is never opened again.  Holds when requests do
\* not overlap: two managers' decisions, or the worker's, may cross.
ApprovalIsFinal ==
  [][~workload.overlap =>
       \A t \in 1..Tasks : TaskExists(t) /\ task[t].status = "COMPLETED"
                             => task'[t].status = "COMPLETED"]_task

\* Whoever is put on a task works where the task is and may sign in, although
\* accounts and pincodes change all the time.  Holds when requests do not
\* overlap.
AssignedIsEligible ==
  [][~workload.overlap =>
       \A t \in 1..Tasks : \A w \in Person :
         TaskExists(t)' /\ task'[t].worker = w /\ task[t].worker # w
           => person[w].active /\ person[w].pincode = task'[t].pincode]_task
=============================================================================
