---------------------------- MODULE MCWorkforce ----------------------------
(* Small instances of Workforce for TLC. *)
EXTENDS Workforce, TLC

CONSTANTS w1, m1, s1, s2, l1, l2, r1, r2

OneWorker == {w1}
WorkerAndManager == {w1, m1}
TheManager == {m1}
NoStaff == {}
OneSession == {s1}
TwoSessions == {s1, s2}
NoSessions == {}
NoLeaves == {}
OneLeave == {l1}
TwoLeaves == {l1, l2}
OneRequest == {r1}
TwoRequests == {r1, r2}

\* One type that is credited monthly and carried over, one credited yearly.
Casual == {"CASUAL"}
Sick == {"SICK"}
CasualAndSick == {"CASUAL", "SICK"}
OneDayEach == [t \in Type |-> 1]
CarryCasual == [t \in Type |-> IF t = "CASUAL" THEN 1 ELSE 0]

SecondMonth == {2}

\* Balances and leave.
BalanceOps == (JobOps \ {"backfill"}) \union LeaveOps

\* What may overlap: all but the yearly reset, a restart, and the correction
\* of a session.
OverlapOps == Ops \ {"reset", "backfill", "correct"}

\* What flags a session, resolves it, or touches it; and the restart after a
\* crash that left a balance without its yearly grant.
SessionOps == AttendanceOps \union {"backfill"}

Symmetry == Permutations(Session) \union Permutations(Leave) \union Permutations(Request)
=============================================================================
