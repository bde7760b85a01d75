------------------------------ MODULE Requests ------------------------------
(***************************************************************************)
(* The form every handler of the back office has: it reads rows, checks    *)
(* them, and writes by id in a later query, and other handlers run in      *)
(* between.  `req[r]' is the handler request r is in, with what it         *)
(* remembers; a refused request changes nothing and is no step.            *)
(*                                                                         *)
(* `workload' is the mix of requests of a behaviour: which operations      *)
(* arrive, which people they come from or are about, whether handlers may  *)
(* overlap, and whether queries may fail.                                  *)
(***************************************************************************)
EXTENDS Naturals, FiniteSets

CONSTANTS
  Request,    \* the requests that may be in flight at once
  Workloads,  \* the mixes to consider
  None        \* NULL

VARIABLES req, workload

handling == <<req, workload>>

Idle == [op |-> "idle"]

Quiet == \A r \in Request : req[r] = Idle

RequestInit ==
  /\ req = [r \in Request |-> Idle]
  /\ workload \in Workloads

\* A handler may start for r: others wait for theirs, unless requests overlap.
MayStart(r) == req[r] = Idle /\ (workload.overlap \/ Quiet)

\* Some of these operations is among those of the workload.
Asked(ops) == workload.ops \intersect ops # {}

\* A request arrives for operation op.
Arrives(r, op) == op \in workload.ops /\ MayStart(r)

\* The handler of r has read what it needs and stands before its write.
Awaits(r, handler) == req' = [req EXCEPT ![r] = handler]

Resumes(r, op) == req[r].op = op

Reply(r) == req' = [req EXCEPT ![r] = Idle]

\* One query does it all.
AtOnce(r, op) == Arrives(r, op) /\ UNCHANGED req

\* A query throws, or the process dies, before the next write.
Fails(r) ==
  /\ workload.failures /\ req[r] # Idle
  /\ Reply(r)

\* An optional field of a request is a set: {} when it is not sent.
Optional(S) == {{}} \union {{v} : v \in S}

\* The value of an optional field, or what is there already.
Given(field, current) == IF field = {} THEN current ELSE CHOOSE v \in field : TRUE

\* The least unused member of 1..n, as rows are inserted.
NextRow(table, n) ==
  {i \in 1..n : table[i].row = "absent" /\ \A j \in 1..(i - 1) : table[j].row # "absent"}
=============================================================================
