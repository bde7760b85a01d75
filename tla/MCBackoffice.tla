---------------------------- MODULE MCBackoffice ----------------------------
(* A small instance of Backoffice for TLC. *)
EXTENDS Backoffice, TLC

CONSTANTS m1, w1, w2, c1, u1, a1, p1, r1, r2, trial, pro

People == {m1, w1, w2, c1, u1, a1}
TwoRequests == {r1, r2}
OnePincode == {p1}
OneWord == {"Main"}
TwoPlans == {trial, pro}

OneCode == [a \in 1..2 |-> p1]

\* A manager, a worker, another whose area has been deleted, a customer, a super
\* administrator, and somebody who is not there yet.
Staff ==
  [u \in People |->
     CASE u = m1 -> [Nobody EXCEPT !.row = "present", !.role = "MANAGER", !.manager = TRUE,
                                   !.areas = {1}, !.offices = {1}, !.primary = 1]
       [] u = w1 -> [Nobody EXCEPT !.row = "present", !.role = "WORKER", !.worker = TRUE,
                                   !.area = 1, !.pincode = p1]
       [] u = w2 -> [Nobody EXCEPT !.row = "present", !.role = "WORKER", !.worker = TRUE]
       [] u = c1 -> [Nobody EXCEPT !.row = "present"]
       [] u = a1 -> [Nobody EXCEPT !.row = "present", !.role = "SUPER_ADMIN"]
       [] OTHER -> Nobody]

\* The payments and open orders of an invoice.
Charges(i) ==
  invoice[i].payments[Advance] + invoice[i].payments[Total]
    + Sets!MapThenSumSet(LAMBDA o : invoice[i].orders[o], OpenOrder)

Mix(ops, people, overlap, failures) ==
  [ops |-> ops, people |-> people, overlap |-> overlap, failures |-> failures]

Serial(ops, people) == Mix(ops, people, FALSE, FALSE)
Crossing(ops, people) == Mix(ops, people, TRUE, FALSE)
Overlapping(ops, people) == Mix(ops, people, TRUE, TRUE)

Mixes ==
  {Serial({"createArea", "createOffice", "removeOffice"}, {})
  ,Serial({"createArea", "removeArea", "deleteArea", "createOffice"}, {})
  ,Serial({"createOffice", "updateOffice", "removeOffice"}, {})
  ,Serial({"createManager", "updateManager", "updateManagerStatus", "createWorker",
           "updateWorker"}, People \ {w2})
  ,Serial({"createArea", "updateArea", "deleteArea", "updateManager"}, {m1})
  ,Serial({"updateArea", "deleteArea", "updateManager", "updateManagerStatus"}, {m1})
  ,Overlapping({"createWorker", "updateWorker", "deleteArea"}, People \ {w2})
  ,Crossing({"updateRole"}, {c1, m1})
  ,Crossing({"updateRole"}, {c1, a1})
  ,Crossing({"updateRole"}, {m1, a1})
  ,Serial({"setPincode", "assignToManager", "assignToWorker", "updateUserStatus",
           "createTask", "updateTask", "assignWorker"}, {m1, w1})
  ,Overlapping({"createTask", "startTask", "completeTask", "approveTask", "rejectTask",
                "removeTask", "assignToManager"}, {m1, w1})
  ,Serial({"createTask", "startTask", "completeTask", "approveTask", "rejectTask",
           "assignWorker", "assignToManager"}, {m1, w1})
  ,Overlapping({"openTicket", "resolve", "close"}, {w1})
  ,Overlapping({"openTicket", "resolve", "assignTicket"}, {w1})
  ,Overlapping({"officeTicket"}, {a1, c1})
  ,Crossing({"openTicket", "escalate", "editTicket"}, {c1})
  ,Serial({"openTicket", "escalate", "resolve", "close", "post"}, {c1})
  ,Serial({"officeTicket", "officeUpdate", "close", "post", "escalate"}, {a1, c1})
  ,Overlapping({"createOrg", "deleteOrg", "invite", "start", "removePlan"}, {c1, w1})
  ,Serial({"createOrg", "invite", "updateMember", "removeMember", "toggleOrg"}, {c1, w1})
  ,Serial({"createOrg", "invite", "createPlan", "updatePlan", "removePlan", "start"}, {c1})
  ,Overlapping({"createOrg", "renew", "cancel", "activated", "cancelled"}, {c1})
  ,Overlapping({"createOrg", "createPlan", "removePlan", "changePlan", "cancel"}, {c1})
  ,Overlapping({"createLead", "convert", "createCustomer"}, {})
  ,Overlapping({"createLead", "convert", "leadStatus", "deleteCustomer"}, {})
  ,Overlapping({"createLead", "convert", "deleteLead", "deleteCustomer"}, {})
  ,Crossing({"createCustomer", "createContact", "createDeal", "deleteCustomer",
             "deleteContact"}, {})
  ,Serial({"createCustomer", "createDeal", "logActivity", "deleteCustomer", "deleteDeal"}, {})
  ,Serial({"createLead", "createCustomer", "logActivity", "deleteCustomer", "deleteLead"}, {})
  ,Serial({"createLead", "convert", "leadStatus", "editLead", "deleteCustomer"}, {})
  ,Crossing({"createJob", "updateArea", "assignToManager"}, {m1})
  ,Serial({"createJob", "attend", "assignJobWorker", "reassignJobWorker", "removeArea",
           "updateUserStatus"}, {m1, w1, w2})
  ,Crossing({"attend", "flag", "clock"}, {w1})
  ,Serial({"createJob", "openTicket", "removeJob"}, {c1})
  ,Serial({"createJob", "officeTicket", "updateArea"}, {a1, c1})
  ,Serial({"createJob", "officeTicket", "cancelJob", "removeJob"}, {m1, a1, c1})
  ,Serial({"createJob", "attend", "assignJobWorker", "collectPayment", "completeJob",
           "generateInvoice", "payInvoice", "getPdf"}, {m1, w1})
  ,Overlapping({"issueInvoice", "getPdf", "lose", "noteElsewhere"}, {c1})
  ,Serial({"issueInvoice", "getPdf", "lose", "editInvoice"}, {c1})
  ,Serial({"createJob", "issueInvoice", "getPdf", "lose", "editInvoice", "payInvoice"}, {c1})
  ,Crossing({"createJob", "issueInvoice", "orderPayment"}, {c1})
  ,Crossing({"createJob", "orderPayment", "payOrder"}, {c1})
  ,Crossing({"createJob", "issueInvoice", "markPaid"}, {m1})
  ,Crossing({"createJob", "issueInvoice", "removeJob"}, {m1})
  ,Serial({"createJob", "orderPayment", "payOrder", "payInvoice", "editInvoice",
           "markOverdue", "cancelInvoice", "refund"}, {c1})
  ,Serial({"createJob", "issueInvoice", "orderPayment", "payOrder", "editInvoice",
           "sendInvoice", "markPaid"}, {c1})
  ,Serial({"createJob", "orderPayment", "orderForInvoice", "payOrder", "markPaid"}, {c1})
  ,Overlapping({"createJob", "orderPayment", "payOrder", "cancelJob"}, {m1})
  ,Serial({"createJob", "orderPayment", "payOrder", "attend", "assignJobWorker",
           "completeJob"}, {m1, w1})
  ,Serial({"createJob", "orderPayment", "payOrder", "attend", "assignManager",
           "assignJobWorker", "completeJob"}, {m1, w1})
  ,Serial({"createJob", "orderPayment", "payOrder", "attend", "assignJobWorker", "startJob",
           "completeJob", "refund"}, {m1, w1})
  ,Serial({"createJob", "orderPayment", "payOrder", "attend", "assignJobWorker",
           "reassignJobWorker", "cancelJob", "refund", "removeJob"}, {m1, w1})
  }

\* Bounds of single mixes: one ticket of the office where it is edited or is about a
\* job, no session of the manager where jobs move while an area goes, and one invoice
\* where files are lost or kept elsewhere.
Few ==
  /\ Asked({"officeUpdate", "createJob"}) => counter <= 1
  /\ Asked({"removeArea"}) => duty[m1].day = "none"
  /\ Asked({"lose", "noteElsewhere", "sendInvoice"}) => ~InvoiceExists(2)
  /\ workload.overlap => \A i \in 1..Invoices : Charges(i) <= 2
  /\ Asked({"issueInvoice"}) /\ workload.overlap => \A i \in 1..Invoices : Charges(i) <= 1
  /\ Asked({"assignManager", "startJob", "cancelJob"}) =>
       \A i \in 1..Invoices : Charges(i) <= 1

Symmetry == Permutations(TwoRequests)
=============================================================================
