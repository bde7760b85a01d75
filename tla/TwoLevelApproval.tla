-------------------------- MODULE TwoLevelApproval --------------------------
(***************************************************************************)
(* What an approval with an optional second level promises: a request is   *)
(* submitted once, goes from the manager to the administrator at most      *)
(* once, is approved by the last level it needs, and then never changes.   *)
(***************************************************************************)

CONSTANT Id

VARIABLE request

NotSubmitted == [status |-> "NONE", level |-> "MANAGER", required |-> FALSE]

Init == request = [i \in Id |-> NotSubmitted]

Submit(i) ==
  /\ request[i] = NotSubmitted
  /\ \E level \in {"MANAGER", "ADMIN"}, required \in BOOLEAN :
       /\ level = "ADMIN" => required
       /\ request' = [request EXCEPT ![i] = [status |-> "PENDING", level |-> level,
                                             required |-> required]]

Pending(i) == request[i].status = "PENDING"

Escalate(i) ==
  /\ Pending(i) /\ request[i].level = "MANAGER" /\ request[i].required
  /\ request' = [request EXCEPT ![i].level = "ADMIN"]

Approve(i) ==
  /\ Pending(i) /\ (request[i].required => request[i].level = "ADMIN")
  /\ request' = [request EXCEPT ![i].status = "APPROVED"]

\* Rejected at either level, or withdrawn.
Dismiss(i) ==
  /\ Pending(i)
  /\ \E status \in {"REJECTED", "CANCELLED"} :
       request' = [request EXCEPT ![i].status = status]

Next == \E i \in Id : Submit(i) \/ Escalate(i) \/ Approve(i) \/ Dismiss(i)

Spec == Init /\ [][Next]_request
=============================================================================
