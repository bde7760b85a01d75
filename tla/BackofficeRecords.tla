-------------------------- MODULE BackofficeRecords --------------------------
(***************************************************************************)
(* What the back office's records say of each other, for any number of     *)
(* them and any mix of requests: organizations and subscriptions, leads    *)
(* and customers, tickets, documents.                                      *)
(***************************************************************************)
EXTENDS BackofficeProofs

-----------------------------------------------------------------------------
(* Organizations *)

TenancyOps ==
  {"createOrg", "deleteOrg", "toggleOrg", "invite", "updateMember", "removeMember", "removePlan",
   "start", "changePlan", "renew", "cancel", "activated"}

\* The values a handler of organizations has been given.
TenancyHandler(h) ==
  /\ h.op \in TenancyOps \ {"createOrg", "removePlan"} => h.org \in 1..Orgs
  /\ h.op \in {"createOrg", "invite", "updateMember", "removeMember"} => h.user \in Person
  /\ h.op \in {"invite", "updateMember"} => h.admin \in BOOLEAN
  /\ h.op = "toggleOrg" => h.active \in BOOLEAN
  /\ h.op \in {"removePlan", "start", "changePlan"} => h.plan \in Plan
  /\ h.op = "renew" => h.periods \in 0..Periods

TenancyInv ==
  /\ TenancyTypeOK /\ NoOrphans /\ CancelledIsDated
  /\ \A x \in Request : TenancyHandler(req[x])

LEMMA TenancyFrame ==
  ASSUME TenancyInv, NEW ops, Stirs(ops), ops \intersect TenancyOps = {}, UNCHANGED tenancy
  PROVE  TenancyInv'
<1>1. TenancyTypeOK' /\ NoOrphans' /\ CancelledIsDated'
  BY DEF TenancyInv, TenancyTypeOK, NoOrphans, CancelledIsDated, tenancy, Subscribed, OrgExists, PlanExists
<1>2. ASSUME NEW x \in Request PROVE TenancyHandler(req'[x])
  <2>1. CASE req'[x] = req[x]
    BY <2>1 DEF TenancyInv
  <2>2. CASE req'[x].op \notin TenancyOps
    BY <2>2 DEF TenancyHandler, TenancyOps
  <2>. QED BY <2>1, <2>2 DEF Stirs, Idle, TenancyOps
<1>. QED BY <1>1, <1>2 DEF TenancyInv, TenancyHandler

LEMMA TenancyBegins ==
  ASSUME TenancyInv, RequestsOK, NEW r \in Request, TenancyStarts(r)
  PROVE  \/ \E h : Awaits(r, h) /\ h.op \in TenancyOps /\ TenancyHandler(h) /\ UNCHANGED tenancy
         \/ /\ UNCHANGED <<req, org, member, subscription>>
            /\ TenancyTypeOK' /\ \A p \in Plan : PlanExists(p) => PlanExists(p)'
<1>. DEFINE Handled == \E h : Awaits(r, h) /\ h.op \in TenancyOps /\ TenancyHandler(h) /\ UNCHANGED tenancy
<1>t. /\ TenancyTypeOK /\ workload.people \subseteq Person
  BY TerritoryAssumption DEF TenancyInv, RequestsOK
<1>1. ASSUME NEW p \in Plan, CreatePlan(r, p) \/ \E active \in BOOLEAN : UpdatePlan(r, p, active)
      PROVE  /\ UNCHANGED <<req, org, member, subscription>>
             /\ TenancyTypeOK' /\ \A q \in Plan : PlanExists(q) => PlanExists(q)'
  <2>1. plan \in [Plan -> PlanRow]
    BY <1>t DEF TenancyTypeOK
  <2>2. PICK row \in PlanRow : plan' = [plan EXCEPT ![p] = row] /\ row.row = "present"
    <3>1. CASE CreatePlan(r, p)
      <4>1. [row |-> "present", active |-> TRUE] \in PlanRow
        BY DEF PlanRow
      <4>. QED BY <3>1, <4>1 DEF CreatePlan
    <3>2. ASSUME NEW active \in BOOLEAN, UpdatePlan(r, p, active)
          PROVE  plan' = [plan EXCEPT ![p] = [plan[p] EXCEPT !.active = active]]
                 /\ [plan[p] EXCEPT !.active = active] \in PlanRow
                 /\ [plan[p] EXCEPT !.active = active].row = "present"
      BY <2>1, <3>2 DEF UpdatePlan, PlanRow, PlanExists
    <3>. QED BY <1>1, <3>1, <3>2
  <2>3. plan' \in [Plan -> PlanRow] /\ \A q \in Plan : PlanExists(q) => PlanExists(q)'
    BY <2>1, <2>2 DEF PlanExists
  <2>. QED BY <1>1, <1>t, <2>3 DEF CreatePlan, UpdatePlan, AtOnce, TenancyTypeOK
<1>. USE DEF TenancyOps, TenancyHandler
<1>2. ASSUME NEW p \in Plan, RemovePlan(r, p) PROVE Handled
  BY <1>2 DEF RemovePlan
<1>3. ASSUME NEW u \in workload.people, CreateOrg(r, u) PROVE Handled
  BY <1>3, <1>t DEF CreateOrg
<1>4. ASSUME NEW o \in 1..Orgs,
             ToggleOrg(r, o) \/ SubscriptionActivated(r, o) \/ SubscriptionCancelled(r, o)
      PROVE  Handled
  <2>1. org[o].active \in BOOLEAN
    BY <1>t DEF TenancyTypeOK, OrgRow
  <2>. QED BY <1>4, <2>1 DEF ToggleOrg, SubscriptionActivated, SubscriptionCancelled
<1>5. ASSUME NEW o \in 1..Orgs, NEW u \in workload.people,
             DeleteOrg(r, o, u) \/ Renew(r, o, u) \/ Cancel(r, o, u)
      PROVE  Handled
  <2>1. subscription[o].periods < Periods => subscription[o].periods + 1 \in 0..Periods
    BY <1>t, OrganizationsAssumption DEF TenancyTypeOK, SubscriptionRow
  <2>. QED BY <1>5, <2>1 DEF DeleteOrg, Renew, Cancel
<1>6. ASSUME NEW o \in 1..Orgs, NEW u \in workload.people, NEW p \in Plan,
             Start(r, o, u, p) \/ ChangePlan(r, o, u, p)
      PROVE  Handled
  BY <1>6 DEF Start, ChangePlan
<1>7. ASSUME NEW o \in 1..Orgs, NEW u \in workload.people, NEW v \in workload.people,
             NEW admin \in BOOLEAN, Invite(r, o, u, v, admin) \/ UpdateMember(r, o, u, v, admin)
      PROVE  Handled
  BY <1>7, <1>t DEF Invite, UpdateMember
<1>8. ASSUME NEW o \in 1..Orgs, NEW u \in workload.people, NEW v \in workload.people,
             RemoveMember(r, o, u, v)
      PROVE  Handled
  BY <1>8, <1>t DEF RemoveMember
<1>. QED BY <1>1, <1>2, <1>3, <1>4, <1>5, <1>6, <1>7, <1>8 DEF TenancyStarts

\* One subscription is written, of an organization and with a plan that are there.
LEMMA SubscriptionSet ==
  ASSUME TenancyInv, NEW o \in 1..Orgs, NEW s \in SubscriptionRow, UNCHANGED <<org, member, plan>>,
         subscription' = subscription \/ subscription' = [subscription EXCEPT ![o] = s],
         subscription' # subscription => (OrgExists(o) /\ PlanExists(s.plan)),
         s.status = "CANCELLED" => s.cancelledAt
  PROVE  /\ TenancyTypeOK' /\ NoOrphans' /\ CancelledIsDated'
         /\ s.periods = subscription[o].periods =>
              \A x \in 1..Orgs : subscription'[x].periods = subscription[x].periods
<1>t. TenancyTypeOK /\ NoOrphans /\ CancelledIsDated
  BY DEF TenancyInv
<1>1. CASE subscription' = subscription
  BY <1>t, <1>1 DEF TenancyTypeOK, NoOrphans, CancelledIsDated, Subscribed, OrgExists, PlanExists
<1>2. CASE subscription' = [subscription EXCEPT ![o] = s] /\ OrgExists(o) /\ PlanExists(s.plan)
  <2>1. /\ subscription' \in [1..Orgs -> SubscriptionRow] /\ subscription'[o] = s
        /\ \A x \in 1..Orgs : x # o => subscription'[x] = subscription[x]
    BY <1>t, <1>2 DEF TenancyTypeOK
  <2>2. TenancyTypeOK'
    BY <1>t, <2>1 DEF TenancyTypeOK
  <2>3. NoOrphans' /\ CancelledIsDated'
    BY <1>t, <1>2, <2>1 DEF NoOrphans, CancelledIsDated, Subscribed, OrgExists, PlanExists
  <2>. QED BY <2>1, <2>2, <2>3
<1>. QED BY <1>1, <1>2

\* What is written of organizations leaves no orphan, and no cancellation undated.
LEMMA TenancyWrite ==
  ASSUME TenancyInv, NEW r \in Request, TenancyWrites(r)
  PROVE  /\ Reply(r) /\ req[r].op \in TenancyOps
         /\ TenancyTypeOK' /\ NoOrphans' /\ CancelledIsDated'
         /\ req[r].op \in {"cancel", "changePlan"} =>
              \A o \in 1..Orgs : subscription'[o].periods = subscription[o].periods
<1>. DEFINE h == req[r]
            Goal == /\ TenancyTypeOK' /\ NoOrphans' /\ CancelledIsDated'
                    /\ h.op \in {"cancel", "changePlan"} =>
                         \A o \in 1..Orgs : subscription'[o].periods = subscription[o].periods
<1>t. /\ org \in [1..Orgs -> OrgRow] /\ member \in [1..Orgs -> [Person -> MemberRow]]
      /\ plan \in [Plan -> PlanRow] /\ subscription \in [1..Orgs -> SubscriptionRow]
      /\ NoOrphans /\ CancelledIsDated /\ TenancyHandler(h)
      /\ Trial \in Plan /\ Periods \in Nat \ {0}
  BY OrganizationsAssumption DEF TenancyInv, TenancyTypeOK
<1>1. Reply(r) /\ h.op \in TenancyOps
  BY DEF TenancyWrites, CreateOrgWrite, DeleteOrgWrite, ToggleOrgWrite, InviteWrite, UpdateMemberWrite,
         RemoveMemberWrite, RemovePlanWrite, StartWrite, ChangePlanWrite, RenewWrite, CancelWrite,
         SubscriptionActivatedWrite, Resumes, TenancyOps
<1>g. SUFFICES Goal
  BY <1>1
<1>p. 1 \in 0..Periods
  BY <1>t
<1>n. NoMember \in MemberRow /\ NoSubscription \in SubscriptionRow /\ NoMember.row = "absent"
      /\ NoSubscription.row = "absent" /\ NoSubscription.status = "TRIALING"
  BY <1>t DEF NoMember, MemberRow, NoSubscription, SubscriptionRow, SubscriptionStatus
<1>. USE DEF Resumes, TenancyTypeOK, NoOrphans, CancelledIsDated, Subscribed, OrgExists, PlanExists
<1>2. CASE CreateOrgWrite(r)
  <2>1. h.op = "createOrg" /\ h.user \in Person
    BY <1>t, <1>2 DEF CreateOrgWrite, TenancyHandler
  <2>2. PICK o \in NextRow(org, Orgs) :
       IF PlanExists(Trial)
         THEN /\ org' = [org EXCEPT ![o] = [row |-> "present", active |-> TRUE]]
              /\ member' = [member EXCEPT ![o][h.user] =
                              [row |-> "present", admin |-> TRUE, active |-> TRUE]]
              /\ subscription' = [subscription EXCEPT ![o] =
                              [NoSubscription EXCEPT !.row = "present", !.periods = 1]]
         ELSE UNCHANGED <<org, member, subscription>>
    BY <1>2 DEF CreateOrgWrite
  <2>3. o \in 1..Orgs /\ plan' = plan
    BY <1>2 DEF NextRow, CreateOrgWrite
  <2>4. CASE UNCHANGED <<org, member, subscription>>
    BY <1>t, <2>1, <2>3, <2>4
  <2>5. CASE PlanExists(Trial)
    <3>. DEFINE s == [NoSubscription EXCEPT !.row = "present", !.periods = 1]
    <3>1. s \in SubscriptionRow /\ s.status = "TRIALING" /\ s.plan = Trial
      BY <1>p, <1>t, Zenon DEF NoSubscription, SubscriptionRow, SubscriptionStatus
    <3>. HIDE DEF s
    <3>2. subscription' = [subscription EXCEPT ![o] = s]
      BY <2>2, <2>5 DEF s
    <3>. DEFINE q == [row |-> "present", active |-> TRUE]
                m == [row |-> "present", admin |-> TRUE, active |-> TRUE]
    <3>3. q \in OrgRow /\ q.row = "present" /\ m \in MemberRow
      BY DEF OrgRow, MemberRow
    <3>4. org' = [org EXCEPT ![o] = q] /\ member' = [member EXCEPT ![o][h.user] = m]
      BY <2>2, <2>5
    <3>. HIDE DEF q, m
    <3>5. TenancyTypeOK'
      BY <1>t, <2>1, <2>3, <3>1, <3>2, <3>3, <3>4
    <3>6. /\ \A x \in 1..Orgs : OrgExists(x) => OrgExists(x)'
          /\ OrgExists(o)'
      BY <1>t, <2>3, <3>3, <3>4
    <3>7. ASSUME NEW x \in 1..Orgs, NEW u \in Person, member'[x][u].row = "present" PROVE OrgExists(x)'
      <4>1. x # o => member'[x] = member[x]
        BY <1>t, <2>1, <2>3, <3>4
      <4>. QED BY <1>t, <3>6, <3>7, <4>1
    <3>8. ASSUME NEW x \in 1..Orgs, Subscribed(x)' PROVE OrgExists(x)' /\ PlanExists(subscription[x].plan)'
      <4>1. CASE x = o
        BY <1>t, <2>3, <2>5, <3>1, <3>2, <3>6, <4>1
      <4>2. CASE x # o
        BY <1>t, <2>3, <3>2, <3>6, <3>8, <4>2
      <4>. QED BY <4>1, <4>2
    <3>9. NoOrphans'
      BY <2>3, <3>7, <3>8
    <3>. QED BY <1>t, <2>1, <2>3, <3>1, <3>2, <3>5, <3>9
  <2>. QED BY <2>2, <2>4, <2>5
<1>3. CASE DeleteOrgWrite(r)
  <2>1. h.op = "deleteOrg" /\ h.org \in 1..Orgs
    BY <1>t, <1>3 DEF DeleteOrgWrite, TenancyHandler, TenancyOps
  <2>. DEFINE row == [org[h.org] EXCEPT !.row = "gone"]
  <2>2. row \in OrgRow
    BY <1>t, <2>1 DEF OrgRow
  <2>3. /\ org' = [org EXCEPT ![h.org] = row] /\ plan' = plan
        /\ member' = [member EXCEPT ![h.org] = [u \in Person |-> NoMember]]
        /\ subscription' = [subscription EXCEPT ![h.org] = NoSubscription]
    BY <1>3, <1>t, <2>1 DEF DeleteOrgWrite
  <2>. HIDE DEF row
  <2>4. TenancyTypeOK'
    BY <1>t, <1>n, <2>1, <2>2, <2>3
  <2>5. NoOrphans' /\ CancelledIsDated'
    BY <1>t, <1>n, <2>1, <2>3
  <2>. QED BY <2>1, <2>4, <2>5
<1>4. CASE ToggleOrgWrite(r)
  <2>1. h.op = "toggleOrg" /\ h.org \in 1..Orgs /\ h.active \in BOOLEAN
    BY <1>t, <1>4 DEF ToggleOrgWrite, TenancyHandler, TenancyOps
  <2>. DEFINE row == [org[h.org] EXCEPT !.active = h.active]
  <2>2. row \in OrgRow /\ row.row = org[h.org].row
    BY <1>t, <2>1 DEF OrgRow
  <2>3. org' = org \/ org' = [org EXCEPT ![h.org] = row]
    BY <1>4 DEF ToggleOrgWrite
  <2>4. UNCHANGED <<member, plan, subscription>>
    BY <1>4 DEF ToggleOrgWrite
  <2>. HIDE DEF row
  <2>5. org' \in [1..Orgs -> OrgRow] /\ \A o \in 1..Orgs : org'[o].row = org[o].row
    <3>1. CASE org' = org
      BY <1>t, <3>1
    <3>2. CASE org' = [org EXCEPT ![h.org] = row]
      BY <1>t, <2>1, <2>2, <3>2
    <3>. QED BY <2>3, <3>1, <3>2
  <2>. QED BY <1>t, <2>1, <2>4, <2>5
<1>5. CASE InviteWrite(r)
  <2>1. h.op = "invite" /\ h.org \in 1..Orgs /\ h.user \in Person /\ h.admin \in BOOLEAN
    BY <1>t, <1>5 DEF InviteWrite, TenancyHandler, TenancyOps
  <2>. QED BY <1>t, <1>5, <2>1 DEF InviteWrite, MemberRow
<1>6. CASE UpdateMemberWrite(r) \/ RemoveMemberWrite(r)
  <2>1. /\ h.op \in {"updateMember", "removeMember"} /\ h.org \in 1..Orgs /\ h.user \in Person
        /\ h.op = "updateMember" => h.admin \in BOOLEAN
    BY <1>t, <1>6 DEF UpdateMemberWrite, RemoveMemberWrite, TenancyHandler, TenancyOps
  <2>2. UNCHANGED <<org, plan, subscription>>
    BY <1>6 DEF UpdateMemberWrite, RemoveMemberWrite
  <2>3. PICK m \in MemberRow : /\ m.row = member[h.org][h.user].row
                              /\ (member' = member \/ member' = [member EXCEPT ![h.org][h.user] = m])
    <3>1. member[h.org][h.user] \in MemberRow
      BY <1>t, <2>1
    <3>2. CASE UpdateMemberWrite(r)
      <4>. DEFINE m == [member[h.org][h.user] EXCEPT !.admin = h.admin]
      <4>1. m \in MemberRow /\ m.row = member[h.org][h.user].row
        BY <2>1, <3>1, <3>2 DEF UpdateMemberWrite, MemberRow
      <4>2. member' = member \/ member' = [member EXCEPT ![h.org][h.user] = m]
        BY <3>2 DEF UpdateMemberWrite
      <4>. HIDE DEF m
      <4>. QED BY <4>1, <4>2
    <3>3. CASE RemoveMemberWrite(r)
      <4>. DEFINE m == [member[h.org][h.user] EXCEPT !.active = FALSE]
      <4>1. m \in MemberRow /\ m.row = member[h.org][h.user].row
        BY <3>1 DEF MemberRow
      <4>2. member' = member \/ member' = [member EXCEPT ![h.org][h.user] = m]
        BY <3>3 DEF RemoveMemberWrite
      <4>. HIDE DEF m
      <4>. QED BY <4>1, <4>2
    <3>. QED BY <1>6, <3>2, <3>3
  <2>4. /\ member' \in [1..Orgs -> [Person -> MemberRow]]
        /\ \A x \in 1..Orgs, u \in Person : member'[x][u].row = member[x][u].row
    <3>1. CASE member' = member
      BY <1>t, <3>1
    <3>2. CASE member' = [member EXCEPT ![h.org][h.user] = m]
      BY <1>t, <2>1, <2>3, <3>2
    <3>. QED BY <2>3, <3>1, <3>2
  <2>. QED BY <1>t, <2>1, <2>2, <2>4
<1>8. CASE RemovePlanWrite(r)
  <2>1. h.op = "removePlan" /\ h.plan \in Plan
    BY <1>t, <1>8 DEF RemovePlanWrite, TenancyHandler, TenancyOps
  <2>. DEFINE row == [plan[h.plan] EXCEPT !.row = "absent"]
  <2>2. row \in PlanRow
    BY <1>t, <2>1 DEF PlanRow
  <2>3. plan' = plan \/ (SubscribersOf(h.plan) = {} /\ plan' = [plan EXCEPT ![h.plan] = row])
    BY <1>8 DEF RemovePlanWrite
  <2>4. UNCHANGED <<org, member, subscription>>
    BY <1>8 DEF RemovePlanWrite
  <2>. HIDE DEF row
  <2>5. TenancyTypeOK' /\ CancelledIsDated'
    BY <1>t, <2>1, <2>2, <2>3, <2>4
  <2>6. ASSUME NEW o \in 1..Orgs, Subscribed(o) PROVE PlanExists(subscription[o].plan)'
    <3>1. subscription[o].plan \in Plan /\ PlanExists(subscription[o].plan)
      BY <1>t, <2>6 DEF SubscriptionRow
    <3>. QED BY <1>t, <2>1, <2>3, <2>4, <2>6, <3>1 DEF SubscribersOf
  <2>7. NoOrphans'
    BY <1>t, <2>4, <2>6
  <2>. QED BY <2>1, <2>5, <2>7
<1>9. CASE StartWrite(r)
  <2>1. h.op = "start" /\ h.org \in 1..Orgs /\ h.plan \in Plan
    BY <1>t, <1>9 DEF StartWrite, TenancyHandler, TenancyOps
  <2>. DEFINE s == [row |-> "present", status |-> "ACTIVE", plan |-> h.plan,
                    periods |-> 1, cancelledAt |-> FALSE]
  <2>2. s \in SubscriptionRow /\ s.status = "ACTIVE" /\ s.plan = h.plan
    BY <1>t, <2>1 DEF SubscriptionRow, SubscriptionStatus
  <2>3. /\ subscription' = subscription \/ subscription' = [subscription EXCEPT ![h.org] = s]
        /\ subscription' # subscription => (OrgExists(h.org) /\ PlanExists(h.plan))
        /\ UNCHANGED <<org, member, plan>>
    BY <1>9 DEF StartWrite
  <2>. HIDE DEF s
  <2>. QED BY <2>1, <2>2, <2>3, SubscriptionSet
<1>10. CASE ChangePlanWrite(r)
  <2>1. h.op = "changePlan" /\ h.org \in 1..Orgs /\ h.plan \in Plan
    BY <1>t, <1>10 DEF ChangePlanWrite, TenancyHandler, TenancyOps
  <2>. DEFINE s == [subscription[h.org] EXCEPT !.plan = h.plan, !.status = "ACTIVE"]
  <2>2. /\ s \in SubscriptionRow /\ s.status = "ACTIVE" /\ s.plan = h.plan
        /\ s.periods = subscription[h.org].periods
    BY <1>t, <2>1 DEF SubscriptionRow, SubscriptionStatus
  <2>3. /\ subscription' = subscription \/ subscription' = [subscription EXCEPT ![h.org] = s]
        /\ subscription' # subscription => (Subscribed(h.org) /\ PlanExists(h.plan))
        /\ UNCHANGED <<org, member, plan>>
    BY <1>10 DEF ChangePlanWrite, SetSubscription
  <2>4. Subscribed(h.org) => OrgExists(h.org)
    BY <1>t, <2>1
  <2>. HIDE DEF s
  <2>. QED BY <2>1, <2>2, <2>3, <2>4, SubscriptionSet
<1>11. CASE RenewWrite(r) \/ SubscriptionActivatedWrite(r)
  <2>1. h.op \in {"renew", "activated"} /\ h.org \in 1..Orgs /\ (h.op = "renew" => h.periods \in 0..Periods)
    BY <1>t, <1>11 DEF RenewWrite, SubscriptionActivatedWrite, TenancyHandler, TenancyOps
  <2>2. PICK s \in SubscriptionRow :
          /\ s.status = "ACTIVE" /\ s.plan = subscription[h.org].plan
          /\ subscription' = subscription \/ subscription' = [subscription EXCEPT ![h.org] = s]
          /\ subscription' # subscription => Subscribed(h.org)
    <3>1. CASE RenewWrite(r)
      <4>. DEFINE s == [subscription[h.org] EXCEPT !.status = "ACTIVE", !.periods = h.periods,
                                                   !.cancelledAt = FALSE]
      <4>1. h.periods \in 0..Periods
        BY <2>1, <3>1 DEF RenewWrite
      <4>2. s \in SubscriptionRow /\ s.status = "ACTIVE" /\ s.plan = subscription[h.org].plan
        <5>1. subscription[h.org] \in SubscriptionRow
          BY <1>t, <2>1
        <5>. QED BY <4>1, <5>1 DEF SubscriptionRow, SubscriptionStatus
      <4>3. /\ subscription' = subscription \/ subscription' = [subscription EXCEPT ![h.org] = s]
            /\ subscription' # subscription => Subscribed(h.org)
        BY <3>1 DEF RenewWrite, SetSubscription
      <4>. HIDE DEF s
      <4>. QED BY <4>2, <4>3
    <3>2. CASE SubscriptionActivatedWrite(r)
      <4>. DEFINE s == [subscription[h.org] EXCEPT !.status = "ACTIVE", !.periods = 1]
      <4>2. s \in SubscriptionRow /\ s.status = "ACTIVE" /\ s.plan = subscription[h.org].plan
        <5>1. subscription[h.org] \in SubscriptionRow
          BY <1>t, <2>1
        <5>. QED BY <1>p, <5>1 DEF SubscriptionRow, SubscriptionStatus
      <4>3. /\ subscription' = subscription \/ subscription' = [subscription EXCEPT ![h.org] = s]
            /\ subscription' # subscription => Subscribed(h.org)
        BY <3>2 DEF SubscriptionActivatedWrite, SetSubscription
      <4>. HIDE DEF s
      <4>. QED BY <4>2, <4>3
    <3>. QED BY <1>11, <3>1, <3>2
  <2>3. UNCHANGED <<org, member, plan>>
    BY <1>11 DEF RenewWrite, SubscriptionActivatedWrite
  <2>4. Subscribed(h.org) => OrgExists(h.org) /\ PlanExists(subscription[h.org].plan)
    BY <1>t, <2>1
  <2>. QED BY <2>1, <2>2, <2>3, <2>4, SubscriptionSet
<1>12. CASE CancelWrite(r)
  <2>1. h.op = "cancel" /\ h.org \in 1..Orgs
    BY <1>t, <1>12 DEF CancelWrite, TenancyHandler, TenancyOps
  <2>. DEFINE s == [subscription[h.org] EXCEPT !.status = "CANCELLED", !.cancelledAt = TRUE]
  <2>2. /\ s \in SubscriptionRow /\ s.cancelledAt /\ s.plan = subscription[h.org].plan
        /\ s.periods = subscription[h.org].periods
    BY <1>t, <2>1 DEF SubscriptionRow, SubscriptionStatus
  <2>3. /\ subscription' = subscription \/ subscription' = [subscription EXCEPT ![h.org] = s]
        /\ subscription' # subscription => Subscribed(h.org)
        /\ UNCHANGED <<org, member, plan>>
    BY <1>12 DEF CancelWrite, SetSubscription
  <2>4. Subscribed(h.org) => OrgExists(h.org) /\ PlanExists(subscription[h.org].plan)
    BY <1>t, <2>1
  <2>. HIDE DEF s
  <2>. QED BY <2>1, <2>2, <2>3, <2>4, SubscriptionSet
<1>. HIDE DEF Goal
<1>. QED BY <1>2, <1>3, <1>4, <1>5, <1>6, <1>8, <1>9, <1>10, <1>11, <1>12 DEF TenancyWrites

\* A period of a subscription ends.
LEMMA TenancyAges ==
  ASSUME TenancyInv, NEW o \in 1..Orgs, PeriodEnds(o)
  PROVE  TenancyTypeOK' /\ NoOrphans' /\ CancelledIsDated'
<1>. DEFINE s == [subscription[o] EXCEPT !.periods = subscription[o].periods - 1]
<1>1. subscription \in [1..Orgs -> SubscriptionRow]
  BY DEF TenancyInv, TenancyTypeOK
<1>2. s \in SubscriptionRow /\ s.status = subscription[o].status /\ s.plan = subscription[o].plan
      /\ s.cancelledAt = subscription[o].cancelledAt
  BY <1>1, OrganizationsAssumption DEF PeriodEnds, SubscriptionRow
<1>3. /\ subscription' = [subscription EXCEPT ![o] = s] /\ UNCHANGED <<org, member, plan>>
      /\ Subscribed(o)
  BY <1>1 DEF PeriodEnds
<1>4. OrgExists(o) /\ PlanExists(subscription[o].plan)
  BY <1>3 DEF TenancyInv, NoOrphans
<1>. HIDE DEF s
<1>. QED BY <1>2, <1>3, <1>4, SubscriptionSet DEF TenancyInv, CancelledIsDated

\* What is paid for stays, whatever ends or changes the subscription.
AccessStep ==
  \A r \in Request, o \in 1..Orgs :
    /\ req[r].op \in {"cancel", "changePlan"} /\ req'[r] = Idle
    => subscription'[o].periods = subscription[o].periods

LEMMA TenancyKeeps ==
  ASSUME TenancyInv, RequestsOK, workload' = workload, TenancyNext
  PROVE  /\ TenancyInv' /\ AccessStep
         /\ (\E r : Moves(r, TenancyOps)) \/ req' = req
<1>1. CASE \E o \in 1..Orgs : PeriodEnds(o)
  <2>1. PICK o \in 1..Orgs : PeriodEnds(o)
    BY <1>1
  <2>2. req' = req
    BY <2>1 DEF PeriodEnds
  <2>3. AccessStep
    BY <2>2 DEF AccessStep, Idle
  <2>. QED BY <2>1, <2>2, <2>3, TenancyAges DEF TenancyInv, TenancyHandler
<1>2. CASE \E r \in Request : MayStart(r) /\ TenancyStarts(r)
  <2>1. PICK r \in Request : MayStart(r) /\ TenancyStarts(r)
    BY <1>2
  <2>2. CASE \E h : Awaits(r, h) /\ h.op \in TenancyOps /\ TenancyHandler(h) /\ UNCHANGED tenancy
    <3>1. PICK h : Awaits(r, h) /\ h.op \in TenancyOps /\ TenancyHandler(h) /\ UNCHANGED tenancy
      BY <2>2
    <3>2. Moves(r, TenancyOps)
      BY <2>1, <3>1, Started
    <3>3. \A x \in Request : TenancyHandler(req'[x])
      BY <3>1, Awaited DEF TenancyInv
    <3>4. TenancyTypeOK' /\ NoOrphans' /\ CancelledIsDated'
      BY <3>1 DEF TenancyInv, TenancyTypeOK, NoOrphans, CancelledIsDated, tenancy, Subscribed,
                  OrgExists, PlanExists
    <3>5. AccessStep
      BY <3>1 DEF AccessStep, tenancy
    <3>. QED BY <3>2, <3>3, <3>4, <3>5 DEF TenancyInv, TenancyHandler
  <2>3. CASE /\ UNCHANGED <<req, org, member, subscription>>
             /\ TenancyTypeOK' /\ \A p \in Plan : PlanExists(p) => PlanExists(p)'
    <3>1. NoOrphans' /\ CancelledIsDated'
      BY <2>3 DEF TenancyInv, TenancyTypeOK, NoOrphans, CancelledIsDated, Subscribed, OrgExists,
                  SubscriptionRow
    <3>. QED BY <2>3, <3>1 DEF TenancyInv, TenancyHandler, AccessStep
  <2>. QED BY <2>1, <2>2, <2>3, TenancyBegins
<1>3. CASE \E r \in Request : TenancyWrites(r)
  <2>1. PICK r \in Request : TenancyWrites(r)
    BY <1>3
  <2>2. Reply(r) /\ req[r].op \in TenancyOps
    BY <2>1, TenancyWrite
  <2>3. Moves(r, TenancyOps)
    BY <2>2, Continued
  <2>4. \A x \in Request : TenancyHandler(req'[x])
    BY <2>2, Replied DEF TenancyInv, TenancyHandler, Idle, TenancyOps
  <2>5. AccessStep
    BY <2>1, <2>2, Replied, TenancyWrite DEF AccessStep, Idle
  <2>. QED BY <2>1, <2>3, <2>4, <2>5, TenancyWrite DEF TenancyInv, TenancyHandler
<1>. QED BY <1>1, <1>2, <1>3 DEF TenancyNext

LEMMA TenancyStartsOut ==
  ASSUME RequestInit, TenancyInit
  PROVE  TenancyInv
BY OrganizationsAssumption
   DEF RequestInit, Idle, TenancyInit, TenancyInv, TenancyTypeOK, NoOrphans, CancelledIsDated,
       TenancyHandler, TenancyOps, OrgRow, MemberRow, PlanRow, SubscriptionRow, SubscriptionStatus,
       NoMember, NoSubscription, Subscribed, OrgExists, PlanExists

-----------------------------------------------------------------------------
(* Leads and customers *)

SalesOps ==
  {"createLead", "editLead", "leadStatus", "convert", "win", "createCustomer", "createContact",
   "createDeal", "logActivity"}

\* The values a handler of the sales staff has been given, or has read.
SalesHandler(h) ==
  /\ h.op \in {"createLead", "editLead", "createDeal", "logActivity"} => h.customer \in 0..Customers
  /\ h.op \in {"win", "createContact", "createDeal"} => h.customer \in 1..Customers
  /\ h.op \in {"editLead", "leadStatus", "convert", "win"} => h.lead \in 1..Leads
  /\ h.op \in {"createDeal", "logActivity"} => h.lead \in 0..Leads
  /\ h.op = "editLead" => h.closed \in BOOLEAN
  /\ h.op = "leadStatus" => h.status \in LeadStatus
  /\ h.op \in {"convert", "createCustomer"} => h.email \in 0..Leads
  /\ h.op = "createDeal" => h.contact \in 0..Links
  /\ h.op = "logActivity" => h.deal \in 0..Links

\* What a conversion has checked, which holds until it writes if it is alone.
SalesChecked(h) == h.op = "convert" => lead[h.lead].customer = 0

\* A customer that is not there yet was made from no lead.
Unborn == \A c \in 1..Customers : customer[c].row = "absent" => customer[c].born = 0

\* Every lead has the date of its end, also one that is not there.
LeadsDated == \A l \in 1..Leads : lead[l].status \in TERMINAL_STATUSES => lead[l].closedAt

SalesInv ==
  /\ SalesTypeOK /\ NothingDangles /\ LeadsDated /\ Unborn
  /\ \A x \in Request : SalesHandler(req[x])
  /\ ~workload.overlap => \A x \in Request : SalesChecked(req[x])

LEMMA SalesFrame ==
  ASSUME SalesInv, workload' = workload, NEW ops, Stirs(ops), ops \intersect SalesOps = {},
         UNCHANGED sales
  PROVE  SalesInv'
<1>1. SalesTypeOK' /\ NothingDangles' /\ LeadsDated' /\ Unborn'
  BY DEF SalesInv, SalesTypeOK, NothingDangles, LeadsDated, Unborn, sales, Present, RefersTo
<1>2. ASSUME NEW x \in Request
      PROVE  SalesHandler(req'[x]) /\ (~workload.overlap => SalesChecked(req[x])')
  <2>1. CASE req'[x] = req[x]
    BY <2>1 DEF SalesInv, SalesChecked, sales
  <2>2. CASE req'[x].op \notin SalesOps
    BY <2>2 DEF SalesHandler, SalesChecked, SalesOps
  <2>. QED BY <2>1, <2>2 DEF Stirs, Idle, SalesOps
<1>. QED BY <1>1, <1>2 DEF SalesInv, SalesHandler

\* A step leaves every reference where it was, or on a row that is there.
SalesHolds == SalesTypeOK /\ NothingDangles /\ LeadsDated /\ Unborn

\* A reference is to a row that was there, and is not among those deleted.
Kept(table, gone, i) == RefersTo(table, i) /\ i \notin gone

\* Rows of L, C, K and D may go; every other stays, and what a row refers to is kept.
Undoes(L, C, K, D) ==
  /\ 0 \notin L \union C \union K \union D
  /\ \A l \in 1..Leads :
        /\ lead[l].row = "present" /\ l \notin L => lead'[l].row = "present"
        /\ lead'[l].row = "present" => Kept(customer, C, lead'[l].customer)
  /\ \A c \in 1..Customers :
        customer[c].row = "present" /\ c \notin C => customer'[c].row = "present"
  /\ \A k \in 1..Links :
        /\ contact[k].row = "present" /\ k \notin K => contact'[k].row = "present"
        /\ deal[k].row = "present" /\ k \notin D => deal'[k].row = "present"
        /\ contact'[k].row = "present" =>
             contact'[k].customer # 0 /\ Kept(customer, C, contact'[k].customer)
        /\ deal'[k].row = "present" =>
             /\ deal'[k].customer # 0 /\ Kept(customer, C, deal'[k].customer)
             /\ Kept(lead, L, deal'[k].lead) /\ Kept(contact, K, deal'[k].contact)
        /\ activity'[k].row = "present" =>
             /\ Kept(customer, C, activity'[k].customer) /\ Kept(lead, L, activity'[k].lead)
             /\ Kept(deal, D, activity'[k].deal) /\ Kept(contact, K, activity'[k].contact)

\* When rows are deleted, those that stay refer to none of them.
LEMMA Undoing ==
  ASSUME SalesTypeOK', NEW L, NEW C, NEW K, NEW D, Undoes(L, C, K, D)
  PROVE  NothingDangles'
<1>t. /\ \A l \in 1..Leads : lead'[l].customer \in 0..Customers
      /\ \A k \in 1..Links : contact'[k].customer \in 0..Customers
      /\ \A k \in 1..Links : /\ deal'[k].customer \in 0..Customers /\ deal'[k].lead \in 0..Leads
                             /\ deal'[k].contact \in 0..Links
      /\ \A k \in 1..Links : /\ activity'[k].customer \in 0..Customers
                             /\ activity'[k].lead \in 0..Leads /\ activity'[k].deal \in 0..Links
                             /\ activity'[k].contact \in 0..Links
  BY DEF SalesTypeOK, LeadRow, ContactRow, DealRow, ActivityRow
<1>c. ASSUME NEW i \in 0..Customers, Kept(customer, C, i) PROVE i # 0 => customer'[i].row = "present"
  BY <1>c, CrmAssumption DEF Kept, RefersTo, Undoes
<1>l. ASSUME NEW i \in 0..Leads, Kept(lead, L, i) PROVE i # 0 => lead'[i].row = "present"
  BY <1>l, CrmAssumption DEF Kept, RefersTo, Undoes
<1>k. ASSUME NEW i \in 0..Links, Kept(contact, K, i) PROVE i # 0 => contact'[i].row = "present"
  BY <1>k, CrmAssumption DEF Kept, RefersTo, Undoes
<1>d. ASSUME NEW i \in 0..Links, Kept(deal, D, i) PROVE i # 0 => deal'[i].row = "present"
  BY <1>d, CrmAssumption DEF Kept, RefersTo, Undoes
<1>1. \A l \in 1..Leads : lead'[l].row = "present" =>
        (lead'[l].customer # 0 => customer'[lead'[l].customer].row = "present")
  BY <1>t, <1>c DEF Undoes
<1>2. ASSUME NEW k \in 1..Links, contact'[k].row = "present"
      PROVE  contact'[k].customer # 0 /\ customer'[contact'[k].customer].row = "present"
  BY <1>t, <1>c, <1>2 DEF Undoes
<1>3. ASSUME NEW k \in 1..Links, deal'[k].row = "present"
      PROVE  /\ deal'[k].customer # 0 /\ customer'[deal'[k].customer].row = "present"
             /\ deal'[k].lead # 0 => lead'[deal'[k].lead].row = "present"
             /\ deal'[k].contact # 0 => contact'[deal'[k].contact].row = "present"
  BY <1>t, <1>c, <1>l, <1>k, <1>3 DEF Undoes
<1>4. ASSUME NEW k \in 1..Links, activity'[k].row = "present"
      PROVE  /\ activity'[k].customer # 0 => customer'[activity'[k].customer].row = "present"
             /\ activity'[k].lead # 0 => lead'[activity'[k].lead].row = "present"
             /\ activity'[k].deal # 0 => deal'[activity'[k].deal].row = "present"
             /\ activity'[k].contact # 0 => contact'[activity'[k].contact].row = "present"
  BY <1>t, <1>c, <1>l, <1>k, <1>d, <1>4 DEF Undoes
<1>. QED BY <1>1, <1>2, <1>3, <1>4 DEF NothingDangles, Present, RefersTo

\* The same, with what Undoes says written out.
LEMMA Undangled ==
  ASSUME SalesTypeOK', NEW L, NEW C, NEW K, NEW D, 0 \notin L \union C \union K \union D,
         \A l \in 1..Leads : lead[l].row = "present" /\ l \notin L => lead'[l].row = "present",
         \A c \in 1..Customers :
            customer[c].row = "present" /\ c \notin C => customer'[c].row = "present",
         \A k \in 1..Links :
            /\ contact[k].row = "present" /\ k \notin K => contact'[k].row = "present"
            /\ deal[k].row = "present" /\ k \notin D => deal'[k].row = "present",
         \A l \in 1..Leads : lead'[l].row = "present" => Kept(customer, C, lead'[l].customer),
         \A k \in 1..Links :
           /\ contact'[k].row = "present" =>
                contact'[k].customer # 0 /\ Kept(customer, C, contact'[k].customer)
           /\ deal'[k].row = "present" =>
                /\ deal'[k].customer # 0 /\ Kept(customer, C, deal'[k].customer)
                /\ Kept(lead, L, deal'[k].lead) /\ Kept(contact, K, deal'[k].contact)
           /\ activity'[k].row = "present" =>
                /\ Kept(customer, C, activity'[k].customer) /\ Kept(lead, L, activity'[k].lead)
                /\ Kept(deal, D, activity'[k].deal) /\ Kept(contact, K, activity'[k].contact)
  PROVE  NothingDangles'
<1>1. Undoes(L, C, K, D)
  BY DEF Undoes
<1>. QED BY <1>1, Undoing

\* The same when no row is deleted.
LEMMA Lasting ==
  ASSUME SalesTypeOK',
         \A l \in 1..Leads : lead[l].row = "present" => lead'[l].row = "present",
         \A c \in 1..Customers : customer[c].row = "present" => customer'[c].row = "present",
         \A k \in 1..Links :
            /\ contact[k].row = "present" => contact'[k].row = "present"
            /\ deal[k].row = "present" => deal'[k].row = "present",
         \A l \in 1..Leads : lead'[l].row = "present" => Kept(customer, {}, lead'[l].customer),
         \A k \in 1..Links :
           contact'[k].row = "present" =>
                contact'[k].customer # 0 /\ Kept(customer, {}, contact'[k].customer),
         \A k \in 1..Links :
           deal'[k].row = "present" =>
                /\ deal'[k].customer # 0 /\ Kept(customer, {}, deal'[k].customer)
                /\ Kept(lead, {}, deal'[k].lead) /\ Kept(contact, {}, deal'[k].contact),
         \A k \in 1..Links :
           activity'[k].row = "present" =>
                /\ Kept(customer, {}, activity'[k].customer) /\ Kept(lead, {}, activity'[k].lead)
                /\ Kept(deal, {}, activity'[k].deal) /\ Kept(contact, {}, activity'[k].contact)
  PROVE  NothingDangles'
<1>1. Undoes({}, {}, {}, {})
  BY DEF Undoes
<1>. QED BY <1>1, Undoing

\* What the rows of a table say, if nothing dangles.
LEMMA Referring ==
  ASSUME SalesHolds
  PROVE  /\ \A l \in 1..Leads : lead[l].row = "present" => Kept(customer, {}, lead[l].customer)
         /\ \A k \in 1..Links :
              /\ contact[k].row = "present" =>
                   contact[k].customer # 0 /\ Kept(customer, {}, contact[k].customer)
              /\ deal[k].row = "present" =>
                   /\ deal[k].customer # 0 /\ Kept(customer, {}, deal[k].customer)
                   /\ Kept(lead, {}, deal[k].lead) /\ Kept(contact, {}, deal[k].contact)
              /\ activity[k].row = "present" =>
                   /\ Kept(customer, {}, activity[k].customer) /\ Kept(lead, {}, activity[k].lead)
                   /\ Kept(deal, {}, activity[k].deal) /\ Kept(contact, {}, activity[k].contact)
<1>1. (\A l \in 1..Leads : l # 0) /\ (\A k \in 1..Links : k # 0)
  OBVIOUS
<1>. QED BY <1>1 DEF SalesHolds, NothingDangles, Present, RefersTo, Kept

\* One row of a table is written, and refers to rows that are there.
LEMMA LeadSet ==
  ASSUME SalesHolds, NEW l \in 1..Leads, NEW q \in LeadRow,
         UNCHANGED <<customer, contact, deal, activity>>,
         lead' = lead \/ lead' = [lead EXCEPT ![l] = q],
         q.row = "present", q.status \in TERMINAL_STATUSES => q.closedAt,
         lead' # lead => RefersTo(customer, q.customer)
  PROVE  SalesHolds'
<1>1. SalesTypeOK'
  BY DEF SalesHolds, SalesTypeOK
<1>2. LeadsDated' /\ Unborn'
  BY DEF SalesHolds, SalesTypeOK, LeadsDated, Unborn
<1>3. /\ \A x \in 1..Leads : lead[x].row = "present" => lead'[x].row = "present"
      /\ \A x \in 1..Leads : lead'[x].row = "present" => Kept(customer, {}, lead'[x].customer)
  BY Referring DEF SalesHolds, SalesTypeOK, Kept
<1>4. NothingDangles'
  BY <1>1, <1>3, Referring, Lasting
<1>. QED BY <1>1, <1>2, <1>4 DEF SalesHolds

LEMMA CustomerSet ==
  ASSUME SalesHolds, NEW c \in 1..Customers, NEW q \in CustomerRow,
         UNCHANGED <<lead, contact, deal, activity>>,
         customer' = customer \/ customer' = [customer EXCEPT ![c] = q],
         q.row = "present"
  PROVE  SalesHolds'
<1>1. SalesTypeOK'
  BY DEF SalesHolds, SalesTypeOK
<1>2. LeadsDated' /\ Unborn'
  BY DEF SalesHolds, SalesTypeOK, LeadsDated, Unborn
<1>3. \A x \in 1..Customers : customer[x].row = "present" => customer'[x].row = "present"
  BY DEF SalesHolds, SalesTypeOK
<1>4. NothingDangles'
  BY <1>1, <1>3, Referring, Lasting
<1>. QED BY <1>1, <1>2, <1>4 DEF SalesHolds

LEMMA ContactSet ==
  ASSUME SalesHolds, NEW k \in 1..Links, NEW q \in ContactRow,
         UNCHANGED <<lead, customer, deal, activity>>,
         contact' = contact \/ contact' = [contact EXCEPT ![k] = q],
         q.row = "present", contact' # contact => Present(customer, q.customer)
  PROVE  SalesHolds'
<1>1. SalesTypeOK'
  BY DEF SalesHolds, SalesTypeOK
<1>2. LeadsDated' /\ Unborn'
  BY DEF SalesHolds, SalesTypeOK, LeadsDated, Unborn
<1>3. ASSUME NEW x \in 1..Links
      PROVE  /\ contact[x].row = "present" => contact'[x].row = "present"
             /\ contact'[x].row = "present" =>
                  contact'[x].customer # 0 /\ Kept(customer, {}, contact'[x].customer)
  BY Referring DEF SalesHolds, SalesTypeOK, Kept, Present
<1>4. NothingDangles'
  BY <1>1, <1>3, Referring, Lasting
<1>. QED BY <1>1, <1>2, <1>4 DEF SalesHolds

LEMMA DealSet ==
  ASSUME SalesHolds, NEW d \in 1..Links, NEW q \in DealRow,
         UNCHANGED <<lead, customer, contact, activity>>,
         deal' = deal \/ deal' = [deal EXCEPT ![d] = q], q.row = "present",
         deal' # deal =>
           (Present(customer, q.customer) /\ RefersTo(lead, q.lead) /\ RefersTo(contact, q.contact))
  PROVE  SalesHolds'
<1>1. SalesTypeOK'
  BY DEF SalesHolds, SalesTypeOK
<1>2. LeadsDated' /\ Unborn'
  BY DEF SalesHolds, SalesTypeOK, LeadsDated, Unborn
<1>3. ASSUME NEW x \in 1..Links
      PROVE  /\ deal[x].row = "present" => deal'[x].row = "present"
             /\ deal'[x].row = "present" =>
                  /\ deal'[x].customer # 0 /\ Kept(customer, {}, deal'[x].customer)
                  /\ Kept(lead, {}, deal'[x].lead) /\ Kept(contact, {}, deal'[x].contact)
  BY Referring DEF SalesHolds, SalesTypeOK, Kept, Present
<1>4. NothingDangles'
  BY <1>1, <1>3, Referring, Lasting
<1>. QED BY <1>1, <1>2, <1>4 DEF SalesHolds

LEMMA ActivitySet ==
  ASSUME SalesHolds, NEW a \in 1..Links, NEW q \in ActivityRow,
         UNCHANGED <<lead, customer, contact, deal>>,
         activity' = activity \/ activity' = [activity EXCEPT ![a] = q],
         activity' # activity =>
           (/\ RefersTo(customer, q.customer) /\ RefersTo(lead, q.lead)
            /\ RefersTo(deal, q.deal) /\ RefersTo(contact, q.contact))
  PROVE  SalesHolds'
<1>1. SalesTypeOK'
  BY DEF SalesHolds, SalesTypeOK
<1>2. LeadsDated' /\ Unborn'
  BY DEF SalesHolds, SalesTypeOK, LeadsDated, Unborn
<1>3. ASSUME NEW x \in 1..Links, activity'[x].row = "present"
      PROVE  /\ Kept(customer, {}, activity'[x].customer) /\ Kept(lead, {}, activity'[x].lead)
             /\ Kept(deal, {}, activity'[x].deal) /\ Kept(contact, {}, activity'[x].contact)
  BY <1>3, Referring DEF SalesHolds, SalesTypeOK, Kept
<1>4. NothingDangles'
  BY <1>1, <1>3, Referring, Lasting
<1>. QED BY <1>1, <1>2, <1>4 DEF SalesHolds

\* onDelete: SetNull, of a column of activities, of deals and of leads.
LEMMA ActivityNulled ==
  ASSUME activity \in [1..Links -> ActivityRow], NEW i, i # 0,
         NEW column \in {"customer", "lead", "deal", "contact"}
  PROVE  /\ SetNull(activity, column, i) \in [1..Links -> ActivityRow]
         /\ \A k \in 1..Links :
              LET old == activity[k]
                  new == SetNull(activity, column, i)[k]
              IN /\ new.row = old.row
                 /\ new.customer \in {old.customer, 0} /\ new.lead \in {old.lead, 0}
                 /\ new.deal \in {old.deal, 0} /\ new.contact \in {old.contact, 0}
                 /\ column = "customer" => new.customer # i
                 /\ column = "lead" => new.lead # i
                 /\ column = "deal" => new.deal # i
                 /\ column = "contact" => new.contact # i
<1>. DEFINE A(k) == [activity[k] EXCEPT ![column] = 0]
<1>1. 0 \in 0..Links /\ 0 \in 0..Leads /\ 0 \in 0..Customers
  BY CrmAssumption
<1>2. ASSUME NEW k \in 1..Links
      PROVE  /\ A(k) \in ActivityRow /\ A(k).row = activity[k].row
             /\ A(k).customer = IF column = "customer" THEN 0 ELSE activity[k].customer
             /\ A(k).lead = IF column = "lead" THEN 0 ELSE activity[k].lead
             /\ A(k).deal = IF column = "deal" THEN 0 ELSE activity[k].deal
             /\ A(k).contact = IF column = "contact" THEN 0 ELSE activity[k].contact
  <2>1. CASE column = "customer"
    BY <1>1, <2>1 DEF ActivityRow
  <2>2. CASE column = "lead"
    BY <1>1, <2>2 DEF ActivityRow
  <2>3. CASE column = "deal"
    BY <1>1, <2>3 DEF ActivityRow
  <2>4. CASE column = "contact"
    BY <1>1, <2>4 DEF ActivityRow
  <2>. QED BY <2>1, <2>2, <2>3, <2>4
<1>3. SetNull(activity, column, i) =
        [k \in 1..Links |-> IF activity[k][column] = i THEN A(k) ELSE activity[k]]
  BY DEF SetNull
<1>4. \A k \in 1..Links : /\ activity[k].customer = activity[k]["customer"]
                          /\ activity[k].lead = activity[k]["lead"]
                          /\ activity[k].deal = activity[k]["deal"]
                          /\ activity[k].contact = activity[k]["contact"]
  OBVIOUS
<1>. HIDE DEF A
<1>. QED BY <1>2, <1>3, <1>4

LEMMA DealNulled ==
  ASSUME deal \in [1..Links -> DealRow], NEW i, i # 0, NEW column \in {"lead", "contact"}
  PROVE  /\ SetNull(deal, column, i) \in [1..Links -> DealRow]
         /\ \A k \in 1..Links :
              LET old == deal[k]
                  new == SetNull(deal, column, i)[k]
              IN /\ new.row = old.row /\ new.customer = old.customer
                 /\ new.lead \in {old.lead, 0} /\ new.contact \in {old.contact, 0}
                 /\ column = "lead" => new.lead # i
                 /\ column = "contact" => new.contact # i
<1>. DEFINE A(k) == [deal[k] EXCEPT ![column] = 0]
<1>1. 0 \in 0..Links /\ 0 \in 0..Leads
  BY CrmAssumption
<1>2. ASSUME NEW k \in 1..Links
      PROVE  /\ A(k) \in DealRow /\ A(k).row = deal[k].row /\ A(k).customer = deal[k].customer
             /\ A(k).lead = IF column = "lead" THEN 0 ELSE deal[k].lead
             /\ A(k).contact = IF column = "contact" THEN 0 ELSE deal[k].contact
  <2>1. CASE column = "lead"
    BY <1>1, <2>1 DEF DealRow
  <2>2. CASE column = "contact"
    BY <1>1, <2>2 DEF DealRow
  <2>. QED BY <2>1, <2>2
<1>3. SetNull(deal, column, i) =
        [k \in 1..Links |-> IF deal[k][column] = i THEN A(k) ELSE deal[k]]
  BY DEF SetNull
<1>4. \A k \in 1..Links : /\ deal[k].lead = deal[k]["lead"]
                          /\ deal[k].contact = deal[k]["contact"]
  OBVIOUS
<1>. HIDE DEF A
<1>. QED BY <1>2, <1>3, <1>4

LEMMA LeadNulled ==
  ASSUME lead \in [1..Leads -> LeadRow], NEW i, i # 0
  PROVE  /\ SetNull(lead, "customer", i) \in [1..Leads -> LeadRow]
         /\ \A k \in 1..Leads :
              LET old == lead[k]
                  new == SetNull(lead, "customer", i)[k]
              IN /\ new.row = old.row /\ new.status = old.status /\ new.closedAt = old.closedAt
                 /\ new.customer \in {old.customer, 0} /\ new.customer # i
<1>. DEFINE A(k) == [lead[k] EXCEPT !.customer = 0]
<1>1. 0 \in 0..Customers
  BY CrmAssumption
<1>2. ASSUME NEW k \in 1..Leads
      PROVE  /\ A(k) \in LeadRow /\ A(k).row = lead[k].row /\ A(k).status = lead[k].status
             /\ A(k).closedAt = lead[k].closedAt /\ A(k).customer = 0
  BY <1>1 DEF LeadRow
<1>3. SetNull(lead, "customer", i) =
        [k \in 1..Leads |-> IF lead[k].customer = i THEN A(k) ELSE lead[k]]
  BY DEF SetNull
<1>. HIDE DEF A
<1>. QED BY <1>2, <1>3

\* A reference that stays, or is unset, and is to no deleted row.
LEMMA Unset ==
  ASSUME NEW table, NEW gone, NEW x, NEW y \in {x, 0}, y \notin gone, Kept(table, {}, x)
  PROVE  Kept(table, gone, y)
BY DEF Kept, RefersTo

\* A row is deleted, and what referred to it refers to nothing.
LEMMA DealDeleted ==
  ASSUME SalesHolds, NEW d \in 1..Links, UNCHANGED <<lead, customer, contact>>,
         deal' = [deal EXCEPT ![d].row = "gone"], activity' = SetNull(activity, "deal", d)
  PROVE  SalesHolds'
<1>t. deal \in [1..Links -> DealRow] /\ activity \in [1..Links -> ActivityRow] /\ d # 0
  BY DEF SalesHolds, SalesTypeOK
<1>. DEFINE q == [deal[d] EXCEPT !.row = "gone"]
            G == {d}
            E == {}
<1>1. q \in DealRow /\ q.row = "gone" /\ deal' = [deal EXCEPT ![d] = q]
  BY <1>t DEF DealRow, Row
<1>. HIDE DEF q
<1>2. /\ activity' \in [1..Links -> ActivityRow]
      /\ \A k \in 1..Links :
           /\ activity'[k].row = activity[k].row
           /\ activity'[k].customer \in {activity[k].customer, 0}
           /\ activity'[k].lead \in {activity[k].lead, 0} /\ activity'[k].deal \in {activity[k].deal, 0}
           /\ activity'[k].contact \in {activity[k].contact, 0} /\ activity'[k].deal # d
  BY <1>t, ActivityNulled
<1>4. SalesTypeOK'
  BY <1>t, <1>1, <1>2 DEF SalesHolds, SalesTypeOK
<1>5. LeadsDated' /\ Unborn'
  BY DEF SalesHolds, LeadsDated, Unborn
<1>6. 0 \notin E \union E \union E \union G /\ \A i : i \notin E
  BY <1>t
<1>7. ASSUME NEW k \in 1..Links
      PROVE  /\ deal[k].row = "present" /\ k \notin G => deal'[k].row = "present"
             /\ deal'[k].row = "present" => deal[k].row = "present" /\ deal'[k] = deal[k]
  BY <1>t, <1>1
<1>8. \A l \in 1..Leads : lead'[l].row = "present" => Kept(customer, E, lead'[l].customer)
  BY Referring
<1>9. ASSUME NEW k \in 1..Links
      PROVE  /\ contact'[k].row = "present" =>
                  contact'[k].customer # 0 /\ Kept(customer, E, contact'[k].customer)
             /\ deal'[k].row = "present" =>
                  /\ deal'[k].customer # 0 /\ Kept(customer, E, deal'[k].customer)
                  /\ Kept(lead, E, deal'[k].lead) /\ Kept(contact, E, deal'[k].contact)
             /\ activity'[k].row = "present" =>
                  /\ Kept(customer, E, activity'[k].customer) /\ Kept(lead, E, activity'[k].lead)
                  /\ Kept(deal, G, activity'[k].deal) /\ Kept(contact, E, activity'[k].contact)
  BY <1>2, <1>7, Referring, Unset
<1>. HIDE DEF E, G
<1>10. NothingDangles'
  BY <1>4, <1>6, <1>7, <1>8, <1>9, Undangled
<1>. QED BY <1>4, <1>5, <1>10 DEF SalesHolds

LEMMA ContactDeleted ==
  ASSUME SalesHolds, NEW c \in 1..Links, UNCHANGED <<lead, customer>>,
         contact' = [contact EXCEPT ![c].row = "gone"],
         deal' = SetNull(deal, "contact", c), activity' = SetNull(activity, "contact", c)
  PROVE  SalesHolds'
<1>t. /\ contact \in [1..Links -> ContactRow] /\ deal \in [1..Links -> DealRow]
      /\ activity \in [1..Links -> ActivityRow] /\ c # 0
  BY DEF SalesHolds, SalesTypeOK
<1>. DEFINE q == [contact[c] EXCEPT !.row = "gone"]
            G == {c}
            E == {}
<1>1. q \in ContactRow /\ q.row = "gone" /\ contact' = [contact EXCEPT ![c] = q]
  BY <1>t DEF ContactRow, Row
<1>. HIDE DEF q
<1>2. /\ activity' \in [1..Links -> ActivityRow]
      /\ \A k \in 1..Links :
           /\ activity'[k].row = activity[k].row
           /\ activity'[k].customer \in {activity[k].customer, 0}
           /\ activity'[k].lead \in {activity[k].lead, 0} /\ activity'[k].deal \in {activity[k].deal, 0}
           /\ activity'[k].contact \in {activity[k].contact, 0} /\ activity'[k].contact # c
  BY <1>t, ActivityNulled
<1>3. /\ deal' \in [1..Links -> DealRow]
      /\ \A k \in 1..Links :
           /\ deal'[k].row = deal[k].row /\ deal'[k].customer = deal[k].customer
           /\ deal'[k].lead \in {deal[k].lead, 0} /\ deal'[k].contact \in {deal[k].contact, 0}
           /\ deal'[k].contact # c
  BY <1>t, DealNulled
<1>4. SalesTypeOK'
  BY <1>t, <1>1, <1>2, <1>3 DEF SalesHolds, SalesTypeOK
<1>5. LeadsDated' /\ Unborn'
  BY DEF SalesHolds, LeadsDated, Unborn
<1>6. 0 \notin E \union E \union G \union E /\ \A i : i \notin E
  BY <1>t
<1>7. ASSUME NEW k \in 1..Links
      PROVE  /\ contact[k].row = "present" /\ k \notin G => contact'[k].row = "present"
             /\ contact'[k].row = "present" => contact[k].row = "present" /\ contact'[k] = contact[k]
             /\ deal[k].row = "present" => deal'[k].row = "present"
  BY <1>t, <1>1, <1>3
<1>8. \A l \in 1..Leads : lead'[l].row = "present" => Kept(customer, E, lead'[l].customer)
  BY Referring
<1>9. ASSUME NEW k \in 1..Links
      PROVE  /\ contact'[k].row = "present" =>
                  contact'[k].customer # 0 /\ Kept(customer, E, contact'[k].customer)
             /\ deal'[k].row = "present" =>
                  /\ deal'[k].customer # 0 /\ Kept(customer, E, deal'[k].customer)
                  /\ Kept(lead, E, deal'[k].lead) /\ Kept(contact, G, deal'[k].contact)
             /\ activity'[k].row = "present" =>
                  /\ Kept(customer, E, activity'[k].customer) /\ Kept(lead, E, activity'[k].lead)
                  /\ Kept(deal, E, activity'[k].deal) /\ Kept(contact, G, activity'[k].contact)
  BY <1>2, <1>3, <1>7, Referring, Unset
<1>. HIDE DEF E, G
<1>10. NothingDangles'
  BY <1>4, <1>6, <1>7, <1>8, <1>9, Undangled
<1>. QED BY <1>4, <1>5, <1>10 DEF SalesHolds

LEMMA LeadDeleted ==
  ASSUME SalesHolds, NEW l \in 1..Leads, UNCHANGED <<customer, contact>>,
         lead' = [lead EXCEPT ![l].row = "gone"],
         deal' = SetNull(deal, "lead", l), activity' = SetNull(activity, "lead", l)
  PROVE  SalesHolds'
<1>t. /\ lead \in [1..Leads -> LeadRow] /\ deal \in [1..Links -> DealRow]
      /\ activity \in [1..Links -> ActivityRow] /\ l # 0
  BY DEF SalesHolds, SalesTypeOK
<1>. DEFINE q == [lead[l] EXCEPT !.row = "gone"]
            G == {l}
            E == {}
<1>1. /\ q \in LeadRow /\ q.row = "gone" /\ lead' = [lead EXCEPT ![l] = q]
      /\ q.status = lead[l].status /\ q.closedAt = lead[l].closedAt
  BY <1>t DEF LeadRow, Row
<1>. HIDE DEF q
<1>2. /\ activity' \in [1..Links -> ActivityRow]
      /\ \A k \in 1..Links :
           /\ activity'[k].row = activity[k].row
           /\ activity'[k].customer \in {activity[k].customer, 0}
           /\ activity'[k].lead \in {activity[k].lead, 0} /\ activity'[k].deal \in {activity[k].deal, 0}
           /\ activity'[k].contact \in {activity[k].contact, 0} /\ activity'[k].lead # l
  BY <1>t, ActivityNulled
<1>3. /\ deal' \in [1..Links -> DealRow]
      /\ \A k \in 1..Links :
           /\ deal'[k].row = deal[k].row /\ deal'[k].customer = deal[k].customer
           /\ deal'[k].lead \in {deal[k].lead, 0} /\ deal'[k].contact \in {deal[k].contact, 0}
           /\ deal'[k].lead # l
  BY <1>t, DealNulled
<1>4. SalesTypeOK'
  BY <1>t, <1>1, <1>2, <1>3 DEF SalesHolds, SalesTypeOK
<1>5. LeadsDated' /\ Unborn'
  BY <1>t, <1>1 DEF SalesHolds, LeadsDated, Unborn
<1>6. 0 \notin G \union E \union E \union E /\ \A i : i \notin E
  BY <1>t
<1>7. ASSUME NEW k \in 1..Leads
      PROVE  /\ lead[k].row = "present" /\ k \notin G => lead'[k].row = "present"
             /\ lead'[k].row = "present" => lead[k].row = "present" /\ lead'[k] = lead[k]
  BY <1>t, <1>1
<1>8. \A k \in 1..Leads : lead'[k].row = "present" => Kept(customer, E, lead'[k].customer)
  BY <1>7, Referring
<1>9. ASSUME NEW k \in 1..Links
      PROVE  /\ deal[k].row = "present" => deal'[k].row = "present"
             /\ contact'[k].row = "present" =>
                  contact'[k].customer # 0 /\ Kept(customer, E, contact'[k].customer)
             /\ deal'[k].row = "present" =>
                  /\ deal'[k].customer # 0 /\ Kept(customer, E, deal'[k].customer)
                  /\ Kept(lead, G, deal'[k].lead) /\ Kept(contact, E, deal'[k].contact)
             /\ activity'[k].row = "present" =>
                  /\ Kept(customer, E, activity'[k].customer) /\ Kept(lead, G, activity'[k].lead)
                  /\ Kept(deal, E, activity'[k].deal) /\ Kept(contact, E, activity'[k].contact)
  BY <1>2, <1>3, Referring, Unset
<1>. HIDE DEF E, G
<1>10. NothingDangles'
  BY <1>4, <1>6, <1>7, <1>8, <1>9, Undangled
<1>. QED BY <1>4, <1>5, <1>10 DEF SalesHolds

\* With a customer go its contacts.
LEMMA CustomerDeleted ==
  ASSUME SalesHolds, NEW r, NEW c \in 1..Customers, DeleteCustomer(r, c)
  PROVE  SalesHolds' /\ \A d \in 1..Customers : d # c => customer'[d] = customer[d]
<1>t. /\ lead \in [1..Leads -> LeadRow] /\ customer \in [1..Customers -> CustomerRow]
      /\ contact \in [1..Links -> ContactRow] /\ deal \in [1..Links -> DealRow]
      /\ activity \in [1..Links -> ActivityRow] /\ c # 0
  BY DEF SalesHolds, SalesTypeOK
<1>. DEFINE K == {k \in 1..Links : Present(contact, k) /\ contact[k].customer = c}
            A == SetNull(activity, "customer", c)
            q == [customer[c] EXCEPT !.row = "gone"]
            G == {c}
            E == {}
            Q(k) == [contact[k] EXCEPT !.row = "gone"]
            D(k) == [deal[k] EXCEPT !.contact = 0]
            V(k) == [A[k] EXCEPT !.contact = 0]
<1>1. /\ Present(customer, c) /\ \A d \in 1..Links : Present(deal, d) => deal[d].customer # c
      /\ contact' = [k \in 1..Links |-> IF k \in K THEN Q(k) ELSE contact[k]]
      /\ deal' = [d \in 1..Links |-> IF deal[d].contact \in K THEN D(d) ELSE deal[d]]
      /\ activity' = [a \in 1..Links |-> IF A[a].contact \in K THEN V(a) ELSE A[a]]
      /\ customer' = [customer EXCEPT ![c] = q] /\ lead' = SetNull(lead, "customer", c)
  BY <1>t DEF DeleteCustomer
<1>2. q \in CustomerRow /\ q.row = "gone"
  BY <1>t DEF CustomerRow, Row
<1>3. /\ A \in [1..Links -> ActivityRow]
      /\ \A k \in 1..Links :
           /\ A[k].row = activity[k].row
           /\ A[k].customer \in {activity[k].customer, 0} /\ A[k].lead \in {activity[k].lead, 0}
           /\ A[k].deal \in {activity[k].deal, 0} /\ A[k].contact \in {activity[k].contact, 0}
           /\ A[k].customer # c
  BY <1>t, ActivityNulled
<1>. HIDE DEF A, q
<1>4. ASSUME NEW k \in 1..Links
      PROVE  /\ Q(k) \in ContactRow /\ Q(k).row = "gone"
             /\ D(k) \in DealRow /\ D(k).row = deal[k].row /\ D(k).customer = deal[k].customer
             /\ D(k).lead = deal[k].lead /\ D(k).contact = 0
             /\ V(k) \in ActivityRow /\ V(k).row = activity[k].row
             /\ V(k).customer = A[k].customer /\ V(k).lead = A[k].lead
             /\ V(k).deal = A[k].deal /\ V(k).contact = 0
  <2>1. contact[k] \in ContactRow /\ deal[k] \in DealRow /\ A[k] \in ActivityRow /\ 0 \in 0..Links
    BY <1>t, <1>3, CrmAssumption
  <2>2. Q(k) \in ContactRow /\ Q(k).row = "gone"
    BY <2>1 DEF ContactRow, Row
  <2>3. /\ D(k) \in DealRow /\ D(k).row = deal[k].row /\ D(k).customer = deal[k].customer
        /\ D(k).lead = deal[k].lead /\ D(k).contact = 0
    BY <2>1 DEF DealRow
  <2>4. /\ V(k) \in ActivityRow /\ V(k).row = activity[k].row
        /\ V(k).customer = A[k].customer /\ V(k).lead = A[k].lead
        /\ V(k).deal = A[k].deal /\ V(k).contact = 0
    BY <1>3, <2>1 DEF ActivityRow
  <2>. QED BY <2>2, <2>3, <2>4
<1>. HIDE DEF Q, D, V
<1>5. /\ lead' \in [1..Leads -> LeadRow]
      /\ \A k \in 1..Leads :
           /\ lead'[k].row = lead[k].row /\ lead'[k].status = lead[k].status
           /\ lead'[k].closedAt = lead[k].closedAt
           /\ lead'[k].customer \in {lead[k].customer, 0} /\ lead'[k].customer # c
  BY <1>t, <1>1, LeadNulled
<1>6. SalesTypeOK'
  <2>1. contact' \in [1..Links -> ContactRow] /\ deal' \in [1..Links -> DealRow]
    BY <1>t, <1>1, <1>4
  <2>2. activity' \in [1..Links -> ActivityRow]
    BY <1>1, <1>3, <1>4
  <2>. QED BY <1>t, <1>1, <1>2, <1>5, <2>1, <2>2 DEF SalesTypeOK
<1>7. LeadsDated' /\ Unborn'
  BY <1>t, <1>1, <1>2, <1>5 DEF SalesHolds, LeadsDated, Unborn
<1>8. 0 \notin E \union G \union K \union E /\ \A i : i \notin E
  BY <1>t
<1>9. ASSUME NEW d \in 1..Customers
      PROVE  customer[d].row = "present" /\ d \notin G => customer'[d].row = "present"
  BY <1>t, <1>1
<1>10. ASSUME NEW k \in 1..Links
       PROVE  /\ contact[k].row = "present" /\ k \notin K => contact'[k].row = "present"
              /\ contact'[k].row = "present" =>
                   contact[k].row = "present" /\ contact'[k] = contact[k] /\ contact[k].customer # c
              /\ deal[k].row = "present" => deal'[k].row = "present"
  BY <1>t, <1>1, <1>4 DEF Present, RefersTo
<1>11. \A l \in 1..Leads : lead'[l].row = "present" => Kept(customer, G, lead'[l].customer)
  BY <1>5, Referring, Unset
<1>12. ASSUME NEW k \in 1..Links, deal'[k].row = "present"
       PROVE  /\ deal'[k].customer # 0 /\ Kept(customer, G, deal'[k].customer)
              /\ Kept(lead, E, deal'[k].lead) /\ Kept(contact, K, deal'[k].contact)
  <2>1. /\ deal[k].row = "present" /\ deal'[k].customer = deal[k].customer
        /\ deal'[k].lead = deal[k].lead /\ deal'[k].contact \in {deal[k].contact, 0}
        /\ deal'[k].contact \notin K
    BY <1>1, <1>4, <1>8, <1>12
  <2>2. deal[k].customer # c /\ k # 0
    BY <1>1, <2>1 DEF Present, RefersTo
  <2>. QED BY <2>1, <2>2, Referring, Unset
<1>13. ASSUME NEW k \in 1..Links, activity'[k].row = "present"
       PROVE  /\ Kept(customer, G, activity'[k].customer) /\ Kept(lead, E, activity'[k].lead)
              /\ Kept(deal, E, activity'[k].deal) /\ Kept(contact, K, activity'[k].contact)
  <2>1. /\ activity[k].row = "present" /\ activity'[k].customer \in {activity[k].customer, 0}
        /\ activity'[k].customer # c
        /\ activity'[k].lead \in {activity[k].lead, 0} /\ activity'[k].deal \in {activity[k].deal, 0}
        /\ activity'[k].contact \in {activity[k].contact, 0} /\ activity'[k].contact \notin K
    BY <1>1, <1>3, <1>4, <1>8, <1>13
  <2>. QED BY <2>1, Referring, Unset
<1>14. \A k \in 1..Links : contact'[k].row = "present" =>
         contact'[k].customer # 0 /\ Kept(customer, G, contact'[k].customer)
  BY <1>10, Referring, Unset
<1>. HIDE DEF E, G, K
<1>15. NothingDangles'
  <2>1. \A l \in 1..Leads : lead[l].row = "present" => lead'[l].row = "present"
    BY <1>5
  <2>2. ASSUME NEW k \in 1..Links
        PROVE  /\ contact'[k].row = "present" =>
                    contact'[k].customer # 0 /\ Kept(customer, G, contact'[k].customer)
               /\ deal'[k].row = "present" =>
                    /\ deal'[k].customer # 0 /\ Kept(customer, G, deal'[k].customer)
                    /\ Kept(lead, E, deal'[k].lead) /\ Kept(contact, K, deal'[k].contact)
               /\ activity'[k].row = "present" =>
                    /\ Kept(customer, G, activity'[k].customer) /\ Kept(lead, E, activity'[k].lead)
                    /\ Kept(deal, E, activity'[k].deal) /\ Kept(contact, K, activity'[k].contact)
    BY <1>12, <1>13, <1>14
  <2>3. ASSUME NEW k \in 1..Links
        PROVE  /\ contact[k].row = "present" /\ k \notin K => contact'[k].row = "present"
               /\ deal[k].row = "present" /\ k \notin E => deal'[k].row = "present"
    BY <1>10
  <2>4. Undoes(E, G, K, E)
    BY <1>8, <1>9, <1>11, <2>1, <2>2, <2>3 DEF Undoes
  <2>. QED BY <1>6, <2>4, Undoing
<1>16. \A d \in 1..Customers : d # c => customer'[d] = customer[d]
  BY <1>t, <1>1
<1>. QED BY <1>6, <1>7, <1>15, <1>16 DEF SalesHolds

LEMMA SalesBegins ==
  ASSUME SalesInv, RequestsOK, NEW r \in Request, MayStart(r), SalesStarts(r)
  PROVE  \/ \E h : Awaits(r, h) /\ h.op \in SalesOps /\ SalesHandler(h) /\ SalesChecked(h)
                    /\ UNCHANGED sales
         \/ /\ UNCHANGED req /\ SalesHolds'
            /\ \A c \in 1..Customers : customer'[c] = customer[c] \/ Present(customer, c)
<1>. DEFINE Handled == \E h : Awaits(r, h) /\ h.op \in SalesOps /\ SalesHandler(h) /\ SalesChecked(h)
                             /\ UNCHANGED sales
            Done == /\ UNCHANGED req /\ SalesHolds'
                    /\ \A c \in 1..Customers : customer'[c] = customer[c] \/ Present(customer, c)
<1>h. SalesHolds
  BY DEF SalesInv, SalesHolds
<1>n. /\ 1..Customers \subseteq 0..Customers /\ 1..Leads \subseteq 0..Leads /\ 0 \in 0..Leads
      /\ \A c \in 0..Customers : c > 0 => c \in 1..Customers
      /\ \A c \in 0..Customers : c # 0 => c \in 1..Customers
      /\ \A c \in 1..Customers : c # 0
  BY CrmAssumption
<1>1. ASSUME NEW c \in 1..Customers, DeleteCustomer(r, c) PROVE Done
  BY <1>h, <1>1, CustomerDeleted DEF DeleteCustomer, AtOnce
<1>2. ASSUME NEW l \in 1..Leads, DeleteLead(r, l) PROVE Done
  BY <1>h, <1>2, LeadDeleted DEF DeleteLead, AtOnce
<1>3. ASSUME NEW k \in 1..Links, DeleteContact(r, k) PROVE Done
  BY <1>h, <1>3, ContactDeleted DEF DeleteContact, AtOnce
<1>4. ASSUME NEW k \in 1..Links, DeleteDeal(r, k) PROVE Done
  BY <1>h, <1>4, DealDeleted DEF DeleteDeal, AtOnce
<1>. HIDE DEF Done
<1>. USE DEF SalesOps, SalesHandler, SalesChecked
<1>5. ASSUME NEW c \in 0..Customers, CreateLead(r, c) PROVE Handled
  BY <1>5 DEF CreateLead
<1>6. ASSUME NEW c \in 0..Customers, c > 0, CreateContact(r, c) PROVE Handled
  BY <1>6, <1>n DEF CreateContact
<1>7. ASSUME NEW e \in 0..Leads, CreateCustomer(r, e) PROVE Handled
  BY <1>7 DEF CreateCustomer
<1>8. ASSUME NEW l \in 1..Leads, NEW e \in {0, l}, Convert(r, l, e) PROVE Handled
  <2>1. lead[l].customer \in 0..Customers
    BY <1>h DEF SalesHolds, SalesTypeOK, LeadRow
  <2>2. e \in 0..Leads
    BY <1>n
  <2>. QED BY <1>8, <1>n, <2>1, <2>2 DEF Convert
<1>9. ASSUME NEW l \in 1..Leads, NEW status \in LeadStatus, SetLeadStatus(r, l, status) PROVE Handled
  BY <1>9 DEF SetLeadStatus
<1>10. ASSUME NEW l \in 1..Leads, NEW c \in 0..Customers, NEW closed \in BOOLEAN,
              EditLead(r, l, c, closed)
       PROVE  Handled
  BY <1>10 DEF EditLead
<1>11. ASSUME NEW c \in 0..Customers, NEW l \in 0..Leads, NEW k \in 0..Links,
              CreateDeal(r, c, l, k) \/ LogActivity(r, c, l, k)
       PROVE  Handled
  <2>1. CASE CreateDeal(r, c, l, k)
    BY <1>n, <2>1 DEF CreateDeal, Present
  <2>2. CASE LogActivity(r, c, l, k)
    BY <2>2 DEF LogActivity
  <2>. QED BY <1>11, <2>1, <2>2
<1>. HIDE DEF Handled
<1>12. Handled \/ Done
  BY <1>n, <1>1, <1>2, <1>3, <1>4, <1>5, <1>6, <1>7, <1>8, <1>9, <1>10, <1>11 DEF SalesStarts
<1>. QED BY <1>12 DEF Handled, Done

\* Nobody is stored twice.
ConvertedStep ==
  ~workload.overlap =>
    \A c \in 1..Customers : customer[c].row = "absent" /\ customer'[c].born # 0
      => lead[customer'[c].born].customer = 0

LEMMA SalesWrite ==
  ASSUME SalesInv, NEW r \in Request, SalesWrites(r)
  PROVE  /\ req[r].op \in SalesOps
         /\ Reply(r) \/ \E h : Awaits(r, h) /\ h.op = "win" /\ SalesHandler(h)
         /\ SalesHolds' /\ ConvertedStep
<1>. DEFINE h == req[r]
            Goes == /\ h.op \in SalesOps
                    /\ Reply(r) \/ \E g : Awaits(r, g) /\ g.op = "win" /\ SalesHandler(g)
<1>h. /\ SalesHolds /\ SalesHandler(h) /\ (~workload.overlap => SalesChecked(h))
      /\ \A c \in 1..Customers : customer[c].row = "absent" => customer[c].born = 0
      /\ \A l \in 1..Leads : lead[l] \in LeadRow
      /\ \A l \in 1..Leads : lead[l].status \in TERMINAL_STATUSES => lead[l].closedAt
      /\ 0 \in 0..Leads /\ 0 \in 0..Links
  BY CrmAssumption DEF SalesInv, SalesHolds, Unborn, SalesTypeOK, LeadsDated
<1>c. ASSUME UNCHANGED customer PROVE ConvertedStep
  BY <1>h, <1>c DEF ConvertedStep
<1>. SUFFICES Goes /\ SalesHolds' /\ ConvertedStep
  OBVIOUS
<1>1. CASE CreateLeadWrite(r)
  <2>1. h.op = "createLead" /\ h.customer \in 0..Customers /\ Reply(r) /\ UNCHANGED <<customer, contact, deal, activity>>
    BY <1>h, <1>1 DEF CreateLeadWrite, Resumes, SalesHandler
  <2>2. PICK l \in NextRow(lead, Leads) :
          lead' = IF RefersTo(customer, h.customer)
                 THEN [lead EXCEPT ![l].row = "present", ![l].customer = h.customer] ELSE lead
    BY <1>1 DEF CreateLeadWrite
  <2>. DEFINE q == [lead[l] EXCEPT !.row = "present", !.customer = h.customer]
  <2>3. l \in 1..Leads
    BY DEF NextRow
  <2>4. /\ q \in LeadRow /\ q.row = "present" /\ q.status = lead[l].status
        /\ q.closedAt = lead[l].closedAt /\ q.customer = h.customer
    BY <1>h, <2>1, <2>3 DEF LeadRow, Row
  <2>5. /\ lead' = lead \/ lead' = [lead EXCEPT ![l] = q]
        /\ lead' # lead => RefersTo(customer, h.customer)
    BY <1>h, <2>2, <2>3 DEF SalesHolds, SalesTypeOK
  <2>. HIDE DEF q
  <2>6. SalesHolds'
    BY <1>h, <2>1, <2>3, <2>4, <2>5, LeadSet
  <2>. QED BY <1>c, <2>1, <2>6 DEF SalesOps
<1>2. CASE EditLeadWrite(r)
  <2>1. /\ h.op = "editLead" /\ h.lead \in 1..Leads /\ h.customer \in 0..Customers
        /\ h.closed \in BOOLEAN /\ Reply(r) /\ UNCHANGED <<customer, contact, deal, activity>>
    BY <1>h, <1>2 DEF EditLeadWrite, Resumes, SalesHandler
  <2>. DEFINE l == h.lead
              q == [lead[l] EXCEPT !.customer = IF h.customer = 0 THEN @ ELSE h.customer,
                                   !.closedAt = @ \/ h.closed]
  <2>2. /\ q \in LeadRow /\ q.row = lead[l].row /\ q.status = lead[l].status
        /\ q.closedAt = (lead[l].closedAt \/ h.closed)
        /\ q.customer = IF h.customer = 0 THEN lead[l].customer ELSE h.customer
    <3>1. lead[l] \in LeadRow
      BY <1>h, <2>1
    <3>2. h.customer \in 0..Customers /\ h.closed \in BOOLEAN
      BY <2>1
    <3>. QED BY <3>1, <3>2 DEF LeadRow
  <2>3. /\ lead' = lead \/ lead' = [lead EXCEPT ![l] = q]
        /\ lead' # lead => RefersTo(customer, h.customer) /\ Present(lead, l)
    BY <1>2 DEF EditLeadWrite, Put
  <2>. HIDE DEF q
  <2>4. CASE lead' = lead
    BY <1>c, <1>h, <2>1, <2>4 DEF SalesOps, SalesHolds, SalesTypeOK, NothingDangles, LeadsDated, Unborn, Present, RefersTo
  <2>5. CASE lead' # lead
    <3>1. lead[l].row = "present" /\ RefersTo(customer, lead[l].customer)
      BY <1>h, <2>1, <2>3, <2>5 DEF Present, RefersTo, SalesHolds, NothingDangles
    <3>2. RefersTo(customer, q.customer) /\ (q.status \in TERMINAL_STATUSES => q.closedAt)
      BY <1>h, <2>1, <2>2, <2>3, <2>5, <3>1
    <3>3. SalesHolds'
      BY <1>h, <2>1, <2>2, <2>3, <3>1, <3>2, LeadSet
    <3>. QED BY <1>c, <2>1, <3>3 DEF SalesOps
  <2>. QED BY <2>4, <2>5
<1>3. CASE SetLeadStatusWrite(r)
  <2>1. /\ h.op = "leadStatus" /\ h.lead \in 1..Leads /\ h.status \in LeadStatus
        /\ Reply(r) /\ UNCHANGED <<customer, contact, deal, activity>>
    BY <1>h, <1>3 DEF SetLeadStatusWrite, Resumes, SalesHandler
  <2>. DEFINE l == h.lead
              closed == h.status \in TERMINAL_STATUSES
              q == [lead[l] EXCEPT !.status = h.status, !.closedAt = closed]
  <2>0. closed \in BOOLEAN /\ (closed <=> h.status \in TERMINAL_STATUSES)
    <3>1. CASE h.status \in TERMINAL_STATUSES
      <4>1. closed = TRUE
        BY <3>1
      <4>. QED BY <3>1, <4>1
    <3>2. CASE h.status \notin TERMINAL_STATUSES
      <4>1. closed = FALSE
        BY <3>2
      <4>. QED BY <3>2, <4>1
    <3>. QED BY <3>1, <3>2
  <2>. HIDE DEF closed
  <2>2. /\ q \in LeadRow /\ q.row = lead[l].row /\ (q.status \in TERMINAL_STATUSES => q.closedAt)
        /\ q.customer = lead[l].customer
    <3>1. lead[l] \in LeadRow /\ h.status \in LeadStatus
      BY <1>h, <2>1
    <3>. HIDE DEF h
    <3>. QED BY <2>0, <3>1 DEF LeadRow
  <2>3. /\ lead' = lead \/ lead' = [lead EXCEPT ![l] = q]
        /\ lead' # lead => Present(lead, l)
    BY <1>3 DEF SetLeadStatusWrite, Put, closed
  <2>. HIDE DEF q
  <2>4. CASE lead' = lead
    BY <1>c, <1>h, <2>1, <2>4 DEF SalesOps, SalesHolds, SalesTypeOK, NothingDangles, LeadsDated, Unborn, Present, RefersTo
  <2>5. CASE lead' # lead
    <3>1. lead[l].row = "present" /\ RefersTo(customer, lead[l].customer)
      BY <1>h, <2>1, <2>3, <2>5 DEF Present, RefersTo, SalesHolds, NothingDangles
    <3>3. SalesHolds'
      BY <1>h, <2>1, <2>2, <2>3, <3>1, LeadSet
    <3>. QED BY <1>c, <2>1, <3>3 DEF SalesOps
  <2>. QED BY <2>4, <2>5
<1>4. CASE ConvertWin(r)
  <2>1. /\ h.op = "win" /\ h.lead \in 1..Leads /\ h.customer \in 1..Customers
        /\ Reply(r) /\ UNCHANGED <<customer, contact, deal, activity>>
    BY <1>h, <1>4 DEF ConvertWin, Resumes, SalesHandler
  <2>. DEFINE l == h.lead
              q == [lead[l] EXCEPT !.status = "WON", !.closedAt = TRUE, !.customer = h.customer]
  <2>2. q \in LeadRow /\ q.row = lead[l].row /\ q.closedAt /\ q.customer = h.customer
    <3>1. h.customer \in 0..Customers
      BY <2>1, CrmAssumption
    <3>2. lead[l] \in LeadRow
      BY <1>h, <2>1
    <3>. QED BY <3>1, <3>2 DEF LeadRow, LeadStatus
  <2>3. /\ lead' = lead \/ lead' = [lead EXCEPT ![l] = q]
        /\ lead' # lead => Present(lead, l) /\ RefersTo(customer, h.customer)
    BY <1>4 DEF ConvertWin, Put
  <2>. HIDE DEF q
  <2>4. CASE lead' = lead
    BY <1>c, <1>h, <2>1, <2>4 DEF SalesOps, SalesHolds, SalesTypeOK, NothingDangles, LeadsDated, Unborn, Present, RefersTo
  <2>5. CASE lead' # lead
    <3>1. lead[l].row = "present"
      BY <2>1, <2>3, <2>5 DEF Present, RefersTo
    <3>3. SalesHolds'
      BY <1>h, <2>1, <2>2, <2>3, <3>1, LeadSet
    <3>. QED BY <1>c, <2>1, <3>3 DEF SalesOps
  <2>. QED BY <2>4, <2>5
<1>5. CASE ConvertInsert(r)
  <2>1. /\ h.op = "convert" /\ h.lead \in 1..Leads /\ h.email \in 0..Leads
        /\ UNCHANGED <<lead, contact, deal, activity>>
    BY <1>h, <1>5 DEF ConvertInsert, Resumes, SalesHandler
  <2>2. CASE Reply(r) /\ UNCHANGED customer
    BY <1>c, <1>h, <2>1, <2>2 DEF SalesOps, SalesHolds, SalesTypeOK, NothingDangles, LeadsDated, Unborn, Present, RefersTo
  <2>3. CASE EmailFree(h.email)
    <3>. DEFINE q == [row |-> "present", email |-> h.email, born |-> h.lead]
    <3>1. PICK c \in NextRow(customer, Customers) :
            /\ customer' = [customer EXCEPT ![c] = q]
            /\ Awaits(r, [op |-> "win", lead |-> h.lead, customer |-> c])
      BY <1>5, <2>3 DEF ConvertInsert
    <3>2. c \in 1..Customers /\ h.lead \in 0..Leads
      BY <2>1, CrmAssumption DEF NextRow
    <3>3. q \in CustomerRow /\ q.row = "present" /\ q.born = h.lead
      BY <2>1, <3>2 DEF CustomerRow, Row
    <3>. HIDE DEF q
    <3>4. SalesHolds'
      BY <1>h, <2>1, <3>1, <3>2, <3>3, CustomerSet
    <3>5. ConvertedStep
      BY <1>h, <2>1, <3>1, <3>2, <3>3 DEF ConvertedStep, SalesChecked, SalesHolds, SalesTypeOK
    <3>6. Goes
      BY <2>1, <3>1, <3>2 DEF SalesOps, SalesHandler
    <3>. QED BY <3>4, <3>5, <3>6
  <2>. QED BY <1>5, <2>2, <2>3 DEF ConvertInsert
<1>6. CASE CreateCustomerWrite(r)
  <2>1. /\ h.op = "createCustomer" /\ h.email \in 0..Leads
        /\ Reply(r) /\ UNCHANGED <<lead, contact, deal, activity>>
    BY <1>h, <1>6 DEF CreateCustomerWrite, Resumes, SalesHandler
  <2>. DEFINE q == [row |-> "present", email |-> h.email, born |-> 0]
  <2>2. PICK c \in NextRow(customer, Customers) :
          customer' = IF EmailFree(h.email) THEN [customer EXCEPT ![c] = q] ELSE customer
    BY <1>6 DEF CreateCustomerWrite
  <2>3. c \in 1..Customers
    BY DEF NextRow
  <2>4. q \in CustomerRow /\ q.row = "present" /\ q.born = 0
    BY <1>h, <2>1 DEF CustomerRow, Row
  <2>. HIDE DEF q
  <2>5. SalesHolds'
    BY <1>h, <2>1, <2>2, <2>3, <2>4, CustomerSet
  <2>6. ConvertedStep
    BY <1>h, <2>2, <2>3, <2>4 DEF ConvertedStep, SalesHolds, SalesTypeOK
  <2>. QED BY <2>1, <2>5, <2>6 DEF SalesOps
<1>7. CASE CreateContactWrite(r)
  <2>1. /\ h.op = "createContact" /\ h.customer \in 1..Customers
        /\ Reply(r) /\ UNCHANGED <<lead, customer, deal, activity>>
    BY <1>h, <1>7 DEF CreateContactWrite, Resumes, SalesHandler
  <2>. DEFINE q == [row |-> "present", customer |-> h.customer]
  <2>2. PICK k \in NextRow(contact, Links) :
          contact' = IF Present(customer, h.customer) THEN [contact EXCEPT ![k] = q] ELSE contact
    BY <1>7 DEF CreateContactWrite
  <2>3. k \in 1..Links /\ h.customer \in 0..Customers
    BY <2>1, CrmAssumption DEF NextRow
  <2>4. q \in ContactRow /\ q.row = "present" /\ q.customer = h.customer
    BY <2>3 DEF ContactRow, Row
  <2>. HIDE DEF q
  <2>5. SalesHolds'
    BY <1>h, <2>1, <2>2, <2>3, <2>4, ContactSet
  <2>. QED BY <1>c, <2>1, <2>5 DEF SalesOps
<1>8. CASE CreateDealWrite(r)
  <2>1. /\ h.op = "createDeal" /\ h.customer \in 0..Customers /\ h.lead \in 0..Leads /\ h.contact \in 0..Links
        /\ Reply(r) /\ UNCHANGED <<lead, customer, contact, activity>>
    BY <1>h, <1>8 DEF CreateDealWrite, Resumes, SalesHandler
  <2>. DEFINE q == [row |-> "present", customer |-> h.customer, lead |-> h.lead, contact |-> h.contact]
  <2>2. PICK d \in NextRow(deal, Links) :
          deal' = IF Present(customer, h.customer) /\ RefersTo(lead, h.lead) /\ RefersTo(contact, h.contact)
                    THEN [deal EXCEPT ![d] = q] ELSE deal
    BY <1>8 DEF CreateDealWrite
  <2>3. d \in 1..Links
    BY DEF NextRow
  <2>4. /\ q \in DealRow /\ q.row = "present" /\ q.customer = h.customer /\ q.lead = h.lead
        /\ q.contact = h.contact
    BY <2>1 DEF DealRow, Row
  <2>. HIDE DEF q
  <2>5. SalesHolds'
    BY <1>h, <2>1, <2>2, <2>3, <2>4, DealSet
  <2>. QED BY <1>c, <2>1, <2>5 DEF SalesOps
<1>9. CASE LogActivityWrite(r)
  <2>1. /\ h.op = "logActivity" /\ h.customer \in 0..Customers /\ h.lead \in 0..Leads /\ h.deal \in 0..Links
        /\ Reply(r) /\ UNCHANGED <<lead, customer, contact, deal>>
    BY <1>h, <1>9 DEF LogActivityWrite, Resumes, SalesHandler
  <2>. DEFINE q == [row |-> "present", customer |-> h.customer, lead |-> h.lead, deal |-> h.deal, contact |-> 0]
  <2>2. PICK a \in NextRow(activity, Links) :
          activity' = IF RefersTo(customer, h.customer) /\ RefersTo(lead, h.lead) /\ RefersTo(deal, h.deal)
                        THEN [activity EXCEPT ![a] = q] ELSE activity
    BY <1>9 DEF LogActivityWrite
  <2>3. a \in 1..Links
    BY DEF NextRow
  <2>4. /\ q \in ActivityRow /\ q.customer = h.customer /\ q.lead = h.lead
        /\ q.deal = h.deal /\ q.contact = 0
    BY <1>h, <2>1 DEF ActivityRow, Row
  <2>. HIDE DEF q
  <2>5. RefersTo(contact, 0)
    BY DEF RefersTo
  <2>6. SalesHolds'
    BY <1>h, <2>1, <2>2, <2>3, <2>4, <2>5, ActivitySet
  <2>. QED BY <1>c, <2>1, <2>6 DEF SalesOps
<1>. HIDE DEF Goes
<1>. QED BY <1>1, <1>2, <1>3, <1>4, <1>5, <1>6, <1>7, <1>8, <1>9 DEF SalesWrites

LEMMA SalesKeeps ==
  ASSUME SalesInv, RequestsOK, workload' = workload, SalesNext
  PROVE  SalesInv' /\ ConvertedStep /\ \E r : Moves(r, SalesOps)
<1>1. CASE \E r \in Request : MayStart(r) /\ SalesStarts(r)
  <2>1. PICK r \in Request : MayStart(r) /\ SalesStarts(r)
    BY <1>1
  <2>2. CASE \E h : Awaits(r, h) /\ h.op \in SalesOps /\ SalesHandler(h) /\ SalesChecked(h)
                    /\ UNCHANGED sales
    <3>1. PICK h : Awaits(r, h) /\ h.op \in SalesOps /\ SalesHandler(h) /\ SalesChecked(h)
                    /\ UNCHANGED sales
      BY <2>2
    <3>2. Moves(r, SalesOps)
      BY <2>1, <3>1, Started
    <3>3. \A x \in Request : SalesHandler(req'[x]) /\ (~workload.overlap => SalesChecked(req'[x]))
      BY <3>1, Awaited DEF SalesInv
    <3>4. SalesTypeOK' /\ NothingDangles' /\ LeadsDated' /\ Unborn'
      BY <3>1 DEF SalesInv, SalesTypeOK, NothingDangles, LeadsDated, Unborn, sales, Present, RefersTo
    <3>5. ConvertedStep
      BY <3>1 DEF ConvertedStep, SalesInv, Unborn, sales
    <3>. QED BY <3>1, <3>2, <3>3, <3>4, <3>5 DEF SalesInv, SalesHandler, SalesChecked, sales
  <2>3. CASE /\ UNCHANGED req /\ SalesHolds'
             /\ \A c \in 1..Customers : customer'[c] = customer[c] \/ Present(customer, c)
    <3>1. Moves(r, SalesOps)
      BY <2>1, <2>3, Started
    <3>2. ~workload.overlap => \A x \in Request : req[x] = Idle
      BY <2>1 DEF MayStart, Quiet
    <3>3. ConvertedStep
      BY <2>3 DEF ConvertedStep, SalesInv, Unborn, Present, RefersTo
    <3>4. \A x \in Request : SalesHandler(req[x])' /\ (~workload.overlap => SalesChecked(req[x])')
      BY <2>3, <3>2 DEF SalesInv, SalesHandler, SalesChecked, Idle
    <3>. QED BY <2>3, <3>1, <3>3, <3>4 DEF SalesInv, SalesHolds
  <2>. QED BY <2>1, <2>2, <2>3, SalesBegins
<1>2. CASE \E r \in Request : SalesWrites(r)
  <2>1. PICK r \in Request : SalesWrites(r)
    BY <1>2
  <2>2. /\ req[r].op \in SalesOps
        /\ Reply(r) \/ \E h : Awaits(r, h) /\ h.op = "win" /\ SalesHandler(h)
        /\ SalesHolds' /\ ConvertedStep
    BY <2>1, SalesWrite
  <2>3. Moves(r, SalesOps)
    BY <2>2, Continued DEF SalesOps
  <2>4. ASSUME NEW x \in Request
        PROVE  SalesHandler(req'[x]) /\ (~workload.overlap => req'[x].op # "convert")
    <3>1. x # r => req'[x] = req[x]
      BY <2>2, Awaited, Replied
    <3>2. /\ SalesHandler(req'[r]) /\ req'[r].op # "convert"
      BY <2>2, Awaited, Replied DEF SalesHandler, Idle, SalesOps
    <3>3. ~workload.overlap /\ x # r => req[x] = Idle
      BY <2>2 DEF RequestsOK, Idle, SalesOps
    <3>. QED BY <3>1, <3>2, <3>3 DEF SalesInv, Idle
  <2>. QED BY <2>2, <2>3, <2>4 DEF SalesInv, SalesHolds, SalesHandler, SalesChecked
<1>. QED BY <1>1, <1>2 DEF SalesNext

LEMMA SalesStartsOut ==
  ASSUME RequestInit, SalesInit
  PROVE  SalesInv
<1>1. 0 \in 0..Customers /\ 0 \in 0..Leads /\ 0 \in 0..Links
  BY CrmAssumption
<1>2. SalesTypeOK
  BY <1>1 DEF SalesInit, SalesTypeOK, LeadRow, CustomerRow, ContactRow, DealRow, ActivityRow, Row, LeadStatus
<1>. QED BY <1>2 DEF RequestInit, Idle, SalesInit, SalesInv, NothingDangles, LeadsDated, Unborn,
       SalesHandler, SalesChecked, Present, RefersTo, TERMINAL_STATUSES

-----------------------------------------------------------------------------
(* Support tickets *)

TicketOps ==
  {"officeTicket", "editTicket", "post", "assignTicket", "escalate", "resolve", "close", "officeUpdate"}

\* The values a handler of tickets has been given, or has read.
TicketHandler(h) ==
  /\ h.op = "officeTicket" =>
       /\ h.author \in Person /\ h.priority \in PRIORITY_RANK /\ h.status \in TicketStatus
       /\ h.job \in 0..Jobs
  /\ h.op \in TicketOps \ {"officeTicket"} => h.ticket \in 1..Tickets /\ TicketExists(h.ticket)
  /\ h.op = "editTicket" => h.priority \in PRIORITY_RANK
  /\ h.op = "assignTicket" => h.user \in Person
  /\ h.op = "escalate" => h.from \in PRIORITY_RANK /\ h.to \in PRIORITY_RANK /\ h.to > h.from
  /\ h.op = "officeUpdate" =>
       /\ h.status \in Optional(TicketStatus) /\ h.priority \in Optional(PRIORITY_RANK)
       /\ h.closing \in BOOLEAN /\ ticket[h.ticket].number # 0

\* What it has checked, which holds until it writes if it is alone.
TicketChecked(h) ==
  /\ h.op \in TicketOps \ {"officeTicket", "officeUpdate"} => ticket[h.ticket].status # "CLOSED"
  /\ h.op = "escalate" => ticket[h.ticket].priority = h.from

\* A ticket that is not there yet is blank.
TicketsBlank ==
  \A t \in 1..Tickets : ticket[t].row = "absent" => ticket[t].number = 0 /\ ticket[t].log = <<>>

TicketHolds ==
  /\ ticket \in [1..Tickets -> TicketRow] /\ TicketTypeOK
  /\ NumbersConsecutive /\ EndIsDated /\ TicketsBlank

TicketInv ==
  /\ TicketHolds
  /\ \A x \in Request : TicketHandler(req[x])
  /\ ~workload.overlap => \A x \in Request : TicketChecked(req[x])

\* What a step does to each ticket: it stays, keeps its number, and its log tells the truth.
TicketGoes(p, q) ==
  /\ p.row = "present" => q.row = "present" /\ q.number = p.number
  /\ q.log # p.log =>
       /\ q.log[Len(q.log)].to > q.log[Len(q.log)].from
       /\ ~workload.overlap => /\ p.priority = q.log[Len(q.log)].from
                               /\ q.priority = q.log[Len(q.log)].to
  /\ ~workload.overlap /\ p.row = "present" /\ p.status = "CLOSED" =>
       q = p \/ (p.number # 0 /\ q.posts = p.posts /\ q.log = p.log)

TicketsGo == \A t \in 1..Tickets : TicketGoes(ticket[t], ticket'[t])

LEMMA TicketFrame ==
  ASSUME TicketInv, workload' = workload, NEW ops, Stirs(ops), ops \intersect TicketOps = {},
         UNCHANGED support
  PROVE  TicketInv'
<1>1. TicketHolds'
  BY DEF TicketInv, TicketHolds, TicketTypeOK, NumbersConsecutive, EndIsDated, TicketsBlank, support,
         TicketExists
<1>2. ASSUME NEW x \in Request
      PROVE  TicketHandler(req[x])' /\ (~workload.overlap => TicketChecked(req[x])')
  <2>1. CASE req'[x] = req[x]
    BY <2>1 DEF TicketInv, TicketHandler, TicketChecked, support, TicketExists
  <2>2. CASE req'[x].op \notin TicketOps
    BY <2>2 DEF TicketHandler, TicketChecked, TicketOps
  <2>. QED BY <2>1, <2>2 DEF Stirs, Idle, TicketOps
<1>. QED BY <1>1, <1>2 DEF TicketInv

\* The tickets with a number.
Numbered == {t \in 1..Tickets : ticket[t].row = "present" /\ ticket[t].number # 0}

LEMMA NumberedFacts ==
  /\ NumbersConsecutive <=> /\ {ticket[t].number : t \in Numbered} = 1..counter
                            /\ Cardinality(Numbered) = counter
  /\ IsFiniteSet(Numbered)
<1>1. Numbered \subseteq 1..Tickets
  BY DEF Numbered
<1>2. IsFiniteSet(1..Tickets)
  BY TicketsAssumption, FS_Interval
<1>3. IsFiniteSet(Numbered)
  BY <1>1, <1>2, FS_Subset
<1>. QED BY <1>3 DEF NumbersConsecutive, Numbered, TicketExists

\* One ticket is edited.
LEMMA TicketSet ==
  ASSUME TicketHolds, NEW t \in 1..Tickets, NEW q \in TicketRow,
         ticket' = [ticket EXCEPT ![t] = q], counter' = counter, UNCHANGED workload,
         TicketExists(t), TicketGoes(ticket[t], q), Len(q.log) <= Posts,
         ticket[t].number = 0 => /\ q.status = "RESOLVED" => q.resolvedAt
                                 /\ q.status = "CLOSED" => q.closedAt
  PROVE  TicketHolds' /\ TicketsGo
<1>t. ticket \in [1..Tickets -> TicketRow] /\ ticket[t].row = "present"
  BY DEF TicketHolds, TicketExists
<1>1. /\ \A x \in 1..Tickets : x # t => ticket'[x] = ticket[x]
      /\ ticket'[t] = q /\ q.row = "present" /\ q.number = ticket[t].number
  BY <1>t DEF TicketGoes
<1>2. ticket' \in [1..Tickets -> TicketRow] /\ TicketTypeOK'
  BY <1>t, <1>1 DEF TicketHolds, TicketTypeOK
<1>3. \A x \in 1..Tickets : ticket'[x].row = ticket[x].row /\ ticket'[x].number = ticket[x].number
  BY <1>t, <1>1
<1>4. Numbered' = Numbered
  BY <1>3 DEF Numbered
<1>5. {ticket'[x].number : x \in Numbered} = {ticket[x].number : x \in Numbered}
  BY <1>3 DEF Numbered
<1>6. NumbersConsecutive'
  <2>1. {ticket[x].number : x \in Numbered} = 1..counter /\ Cardinality(Numbered) = counter
    BY NumberedFacts DEF TicketHolds
  <2>2. {ticket'[x].number : x \in Numbered'} = 1..counter' /\ Cardinality(Numbered') = counter'
    BY <1>4, <1>5, <2>1
  <2>. QED BY <2>2 DEF NumbersConsecutive, Numbered, TicketExists
<1>7. EndIsDated' /\ TicketsBlank'
  BY <1>t, <1>1, <1>3 DEF TicketHolds, EndIsDated, TicketsBlank, TicketExists
<1>8. TicketsGo
  BY <1>1 DEF TicketsGo, TicketGoes
<1>. QED BY <1>2, <1>6, <1>7, <1>8 DEF TicketHolds

\* A ticket with one or two of its columns written is still a ticket's row.
LEMMA TicketColumns ==
  ASSUME NEW row \in TicketRow
  PROVE  /\ \A x \in PRIORITY_RANK : [row EXCEPT !.priority = x] \in TicketRow
         /\ \A x \in 0..Posts : [row EXCEPT !.posts = x] \in TicketRow
         /\ \A x \in Person : [row EXCEPT !.assigned = x, !.status = "IN_PROGRESS"] \in TicketRow
         /\ \A x \in PRIORITY_RANK, l \in Seq([from : PRIORITY_RANK, to : PRIORITY_RANK]) :
               [row EXCEPT !.priority = x, !.log = l] \in TicketRow
         /\ [row EXCEPT !.status = "RESOLVED", !.resolvedAt = TRUE] \in TicketRow
         /\ [row EXCEPT !.status = "CLOSED", !.closedAt = TRUE] \in TicketRow
<1>1. \A x \in PRIORITY_RANK : [row EXCEPT !.priority = x] \in TicketRow
  BY DEF TicketRow
<1>2. \A x \in 0..Posts : [row EXCEPT !.posts = x] \in TicketRow
  BY DEF TicketRow
<1>3. \A x \in Person : [row EXCEPT !.assigned = x, !.status = "IN_PROGRESS"] \in TicketRow
  BY DEF TicketRow, TicketStatus
<1>4. \A x \in PRIORITY_RANK, l \in Seq([from : PRIORITY_RANK, to : PRIORITY_RANK]) :
        [row EXCEPT !.priority = x, !.log = l] \in TicketRow
  BY DEF TicketRow
<1>5. [row EXCEPT !.status = "RESOLVED", !.resolvedAt = TRUE] \in TicketRow
  BY DEF TicketRow, TicketStatus
<1>6. [row EXCEPT !.status = "CLOSED", !.closedAt = TRUE] \in TicketRow
  BY DEF TicketRow, TicketStatus
<1>. QED BY <1>1, <1>2, <1>3, <1>4, <1>5, <1>6

\* One is opened, by its author or, with the next number, by the office.
LEMMA TicketOpened ==
  ASSUME TicketHolds, NEW t \in 1..Tickets, ticket[t].row = "absent", NEW q \in TicketRow,
         q.row = "present", q.log = <<>>, UNCHANGED workload,
         ticket' = [ticket EXCEPT ![t] = q],
         \/ q.number = 0 /\ q.status = "OPEN" /\ counter' = counter
         \/ q.number = counter + 1 /\ counter' = counter + 1
  PROVE  TicketHolds' /\ TicketsGo
<1>t. /\ ticket \in [1..Tickets -> TicketRow] /\ counter \in Nat /\ Tickets \in Nat /\ Posts \in Nat
      /\ {ticket[x].number : x \in Numbered} = 1..counter /\ Cardinality(Numbered) = counter
      /\ IsFiniteSet(Numbered) /\ t \notin Numbered /\ Numbered \subseteq 1..Tickets
  BY TicketsAssumption, NumberedFacts DEF TicketHolds, TicketTypeOK, Numbered
<1>1. /\ \A x \in 1..Tickets : x # t => ticket'[x] = ticket[x]
      /\ ticket'[t] = q /\ ticket[t].number = 0 /\ ticket[t].log = <<>>
  BY <1>t DEF TicketHolds, TicketsBlank
<1>2. TicketsGo
  BY <1>1 DEF TicketsGo, TicketGoes
<1>3. ticket' \in [1..Tickets -> TicketRow] /\ TicketsBlank'
  BY <1>t, <1>1 DEF TicketHolds, TicketsBlank
<1>4. EndIsDated'
  BY <1>t, <1>1 DEF TicketHolds, EndIsDated, TicketExists
<1>5. NumbersConsecutive' /\ counter' \in 0..Tickets
  <2>1. CASE q.number = 0 /\ counter' = counter
    <3>1. Numbered' = Numbered
      BY <1>t, <1>1, <2>1 DEF Numbered
    <3>2. {ticket'[x].number : x \in Numbered} = {ticket[x].number : x \in Numbered}
      BY <1>t, <1>1
    <3>. QED BY <1>t, <2>1, <3>1, <3>2 DEF NumbersConsecutive, Numbered, TicketExists, TicketHolds, TicketTypeOK
  <2>2. CASE q.number = counter + 1 /\ counter' = counter + 1
    <3>1. Numbered' = Numbered \union {t}
      BY <1>t, <1>1, <2>2 DEF Numbered
    <3>2. Cardinality(Numbered') = counter + 1
      BY <1>t, <3>1, FS_AddElement
    <3>3. {ticket'[x].number : x \in Numbered'} = 1..(counter + 1)
      <4>1. {ticket'[x].number : x \in Numbered'} = {ticket[x].number : x \in Numbered} \union {counter + 1}
        BY <1>t, <1>1, <2>2, <3>1
      <4>. QED BY <1>t, <4>1
    <3>4. counter + 1 <= Tickets
      <4>1. Cardinality(1..Tickets) = Tickets /\ IsFiniteSet(1..Tickets)
        BY <1>t, FS_Interval
      <4>2. Numbered \union {t} \subseteq 1..Tickets
        BY <1>t
      <4>. QED BY <3>1, <3>2, <4>1, <4>2, FS_Subset
    <3>. QED BY <1>t, <2>2, <3>2, <3>3, <3>4 DEF NumbersConsecutive, Numbered, TicketExists
  <2>. QED BY <2>1, <2>2
<1>6. TicketTypeOK'
  BY <1>t, <1>1, <1>3, <1>5 DEF TicketHolds, TicketTypeOK
<1>. QED BY <1>2, <1>3, <1>4, <1>5, <1>6 DEF TicketHolds

LEMMA TicketBegins ==
  ASSUME TicketInv, RequestsOK, UNCHANGED workload, NEW r \in Request, MayStart(r), TicketStarts(r)
  PROVE  \/ \E h : Awaits(r, h) /\ h.op \in TicketOps /\ TicketHandler(h) /\ TicketChecked(h)
                    /\ UNCHANGED support
         \/ UNCHANGED req /\ TicketHolds' /\ TicketsGo
<1>. DEFINE Handled == \E h : Awaits(r, h) /\ h.op \in TicketOps /\ TicketHandler(h) /\ TicketChecked(h)
                             /\ UNCHANGED support
            Done == UNCHANGED req /\ TicketHolds' /\ TicketsGo
<1>h. TicketHolds /\ \A t \in 1..Tickets : ticket[t] \in TicketRow
  BY DEF TicketInv, TicketHolds
<1>p. workload.people \subseteq Person
  BY TerritoryAssumption DEF RequestsOK
<1>1. ASSUME NEW u \in workload.people, NEW priority \in PRIORITY_RANK, OpenTicket(r, u, priority)
      PROVE  Done
  <2>1. PICK t \in NextRow(ticket, Tickets) :
          ticket' = [ticket EXCEPT ![t] =
                      [NoTicket EXCEPT !.row = "present", !.author = u, !.priority = priority]]
    BY <1>1 DEF OpenTicket
  <2>. DEFINE q == [NoTicket EXCEPT !.row = "present", !.author = u, !.priority = priority]
  <2>2. t \in 1..Tickets /\ ticket[t].row = "absent"
    BY DEF NextRow
  <2>3. <<>> \in Seq([from : PRIORITY_RANK, to : PRIORITY_RANK])
    OBVIOUS
  <2>4. 0 \in 0..Tickets /\ 0 \in 0..Posts /\ 0 \in 0..Jobs /\ 0 \in 0..Urgent
    BY TicketsAssumption, JobsAssumption
  <2>5. q \in TicketRow /\ q.row = "present" /\ q.log = <<>> /\ q.number = 0 /\ q.status = "OPEN"
    BY <1>p, <2>3, <2>4 DEF NoTicket, TicketRow, TicketStatus
  <2>6. UNCHANGED req /\ counter' = counter
    BY <1>1 DEF OpenTicket, AtOnce
  <2>7. ticket' = [ticket EXCEPT ![t] = q]
    BY <2>1
  <2>. HIDE DEF q
  <2>. QED BY <1>h, <2>2, <2>5, <2>6, <2>7, TicketOpened
<1>. HIDE DEF Done
<1>. USE DEF TicketOps, TicketHandler, TicketChecked
<1>2. ASSUME NEW u \in workload.people, NEW customer_ \in workload.people,
             NEW priority \in PRIORITY_RANK, NEW status \in TicketStatus, NEW j \in 0..Jobs,
             OfficeTicket(r, u, customer_, priority, status, j)
      PROVE  Handled
  BY <1>p, <1>2 DEF OfficeTicket
<1>3. ASSUME NEW t \in 1..Tickets, Resolve(r, t) \/ Close(r, t) PROVE Handled
  <2>1. CASE Resolve(r, t)
    BY <2>1 DEF Resolve, Settled
  <2>2. CASE Close(r, t)
    BY <2>2 DEF Close
  <2>. QED BY <1>3, <2>1, <2>2
<1>4. ASSUME NEW t \in 1..Tickets, NEW u \in workload.people, Post(r, t, u) \/ AssignTicket(r, t, u)
      PROVE  Handled
  <2>1. CASE Post(r, t, u)
    BY <2>1 DEF Post
  <2>2. CASE AssignTicket(r, t, u)
    BY <1>p, <2>2 DEF AssignTicket, Settled
  <2>. QED BY <1>4, <2>1, <2>2
<1>5. ASSUME NEW t \in 1..Tickets, NEW priority \in PRIORITY_RANK,
             EditTicket(r, t, priority) \/ Escalate(r, t, priority)
      PROVE  Handled
  <2>1. CASE EditTicket(r, t, priority)
    BY <2>1 DEF EditTicket
  <2>2. CASE Escalate(r, t, priority)
    <3>1. ticket[t].priority \in PRIORITY_RANK
      BY <1>h DEF TicketRow
    <3>. QED BY <2>2, <3>1 DEF Escalate, Settled
  <2>. QED BY <1>5, <2>1, <2>2
<1>6. ASSUME NEW t \in 1..Tickets, NEW status \in Optional(TicketStatus),
             NEW priority \in Optional(PRIORITY_RANK), OfficeUpdate(r, t, status, priority)
      PROVE  Handled
  BY <1>6 DEF OfficeUpdate
<1>. HIDE DEF Handled
<1>7. Handled \/ Done
  BY <1>1, <1>2, <1>3, <1>4, <1>5, <1>6 DEF TicketStarts
<1>. QED BY <1>7 DEF Handled, Done

LEMMA TicketWrite ==
  ASSUME TicketInv, RequestsOK, UNCHANGED workload, NEW r \in Request, TicketWrites(r)
  PROVE  req[r].op \in TicketOps /\ Reply(r) /\ TicketHolds' /\ TicketsGo
<1>. DEFINE h == req[r]
            t == h.ticket
<1>h. /\ TicketHolds /\ TicketHandler(h) /\ (~workload.overlap => TicketChecked(h))
      /\ \A x \in 1..Tickets : ticket[x] \in TicketRow /\ Len(ticket[x].log) <= Posts
      /\ ticket \in [1..Tickets -> TicketRow]
      /\ \A x \in 1..Tickets : ticket[x].row = "present" /\ ticket[x].number = 0 =>
           /\ ticket[x].status = "RESOLVED" => ticket[x].resolvedAt
           /\ ticket[x].status = "CLOSED" => ticket[x].closedAt
  BY DEF TicketInv, TicketHolds, TicketTypeOK, EndIsDated, TicketExists
<1>1. CASE OfficeTicketWrite(r)
  <2>1. /\ h.op = "officeTicket" /\ Reply(r) /\ h.author \in Person /\ h.priority \in PRIORITY_RANK
        /\ h.status \in TicketStatus /\ h.job \in 0..Jobs
    BY <1>h, <1>1 DEF OfficeTicketWrite, Resumes, TicketHandler
  <2>2. CASE UNCHANGED support
    <3>1. TicketHolds'
      BY <1>h, <2>2 DEF TicketHolds, TicketTypeOK, NumbersConsecutive, EndIsDated, TicketsBlank, support,
         TicketExists
    <3>2. TicketsGo
      BY <2>2 DEF TicketsGo, TicketGoes, support
    <3>. QED BY <2>1, <3>1, <3>2 DEF TicketOps
  <2>3. CASE \E n \in NextRow(ticket, Tickets) :
            /\ ticket' = [ticket EXCEPT ![n] =
                            [NoTicket EXCEPT !.row = "present", !.number = counter + 1,
                                             !.author = h.author, !.priority = h.priority,
                                             !.status = h.status, !.job = h.job]]
            /\ counter' = counter + 1
    <3>1. PICK n \in NextRow(ticket, Tickets) :
            /\ ticket' = [ticket EXCEPT ![n] =
                            [NoTicket EXCEPT !.row = "present", !.number = counter + 1,
                                             !.author = h.author, !.priority = h.priority,
                                             !.status = h.status, !.job = h.job]]
            /\ counter' = counter + 1
      BY <2>3
    <3>. DEFINE q == [NoTicket EXCEPT !.row = "present", !.number = counter + 1,
                                      !.author = h.author, !.priority = h.priority,
                                      !.status = h.status, !.job = h.job]
    <3>2. n \in 1..Tickets /\ ticket[n].row = "absent"
      BY DEF NextRow
    <3>3. <<>> \in Seq([from : PRIORITY_RANK, to : PRIORITY_RANK])
      OBVIOUS
    <3>4. counter + 1 \in 0..Tickets /\ 0 \in 0..Posts
      <4>1. /\ Numbered \subseteq (1..Tickets) \ {n} /\ IsFiniteSet(1..Tickets)
            /\ Cardinality(1..Tickets) = Tickets
        BY <3>2, TicketsAssumption, FS_Interval DEF Numbered
      <4>2. /\ Cardinality((1..Tickets) \ {n}) = Tickets - 1 /\ IsFiniteSet((1..Tickets) \ {n})
        BY <3>2, <4>1, FS_RemoveElement
      <4>3. Cardinality(Numbered) = counter /\ Cardinality(Numbered) <= Tickets - 1
        <5>1. Cardinality(Numbered) = counter
          BY <1>h, NumberedFacts DEF TicketHolds
        <5>2. Cardinality(Numbered) <= Cardinality((1..Tickets) \ {n})
          BY <4>1, <4>2, FS_Subset
        <5>. QED BY <4>2, <5>1, <5>2
      <4>. QED BY <1>h, <4>3, TicketsAssumption DEF TicketHolds, TicketTypeOK
    <3>5. q \in TicketRow /\ q.row = "present" /\ q.log = <<>> /\ q.number = counter + 1
      BY <2>1, <3>3, <3>4 DEF NoTicket, TicketRow
    <3>6. ticket' = [ticket EXCEPT ![n] = q]
      BY <3>1
    <3>. HIDE DEF q
    <3>. QED BY <1>h, <2>1, <3>1, <3>2, <3>5, <3>6, TicketOpened DEF TicketOps
  <2>. QED BY <1>1, <2>2, <2>3 DEF OfficeTicketWrite
<1>e. ASSUME t \in 1..Tickets, TicketExists(t), NEW q \in TicketRow, SetTicket(t, q),
             TicketGoes(ticket[t], q), Len(q.log) <= Posts, h.op \in TicketOps, Reply(r),
             ticket[t].number = 0 => /\ q.status = "RESOLVED" => q.resolvedAt
                                     /\ q.status = "CLOSED" => q.closedAt
      PROVE  req[r].op \in TicketOps /\ Reply(r) /\ TicketHolds' /\ TicketsGo
  BY <1>e, <1>h, TicketSet DEF SetTicket
<1>2. CASE EditTicketWrite(r)
  <2>1. /\ h.op = "editTicket" /\ Reply(r) /\ t \in 1..Tickets /\ TicketExists(t)
        /\ h.priority \in PRIORITY_RANK /\ (~workload.overlap => ticket[t].status # "CLOSED")
    BY <1>h, <1>2 DEF EditTicketWrite, Resumes, TicketHandler, TicketChecked, TicketOps
  <2>. DEFINE q == [ticket[t] EXCEPT !.priority = h.priority]
  <2>0. ticket[t] \in TicketRow
    BY <1>h, <2>1
  <2>2. q \in TicketRow
    BY <2>0, <2>1, TicketColumns
  <2>3. /\ q.row = ticket[t].row /\ q.number = ticket[t].number /\ q.log = ticket[t].log
        /\ q.status = ticket[t].status /\ q.resolvedAt = ticket[t].resolvedAt
        /\ q.closedAt = ticket[t].closedAt
    BY <2>0 DEF TicketRow
  <2>4. SetTicket(t, q)
    BY <1>2 DEF EditTicketWrite
  <2>. HIDE DEF q
  <2>5. TicketGoes(ticket[t], q)
    BY <2>1, <2>3 DEF TicketGoes
  <2>. QED BY <1>h, <1>e, <2>1, <2>2, <2>3, <2>4, <2>5 DEF TicketOps, TicketExists
<1>3. CASE PostWrite(r)
  <2>1. /\ h.op = "post" /\ Reply(r) /\ t \in 1..Tickets /\ TicketExists(t)
        /\ (~workload.overlap => ticket[t].status # "CLOSED") /\ ticket[t].posts < Posts
    BY <1>h, <1>3 DEF PostWrite, Resumes, TicketHandler, TicketChecked, TicketOps
  <2>. DEFINE q == [ticket[t] EXCEPT !.posts = @ + 1]
  <2>2. ticket[t].posts + 1 \in 0..Posts
    <3>1. ticket[t].posts \in 0..Posts
      BY <1>h, <2>1 DEF TicketRow
    <3>. QED BY <2>1, <3>1, TicketsAssumption
  <2>0. ticket[t] \in TicketRow
    BY <1>h, <2>1
  <2>3. q \in TicketRow
    <3>1. q = [ticket[t] EXCEPT !.posts = ticket[t].posts + 1]
      OBVIOUS
    <3>. QED BY <2>0, <2>2, <3>1, TicketColumns
  <2>4. /\ q.row = ticket[t].row /\ q.number = ticket[t].number /\ q.log = ticket[t].log
        /\ q.status = ticket[t].status /\ q.resolvedAt = ticket[t].resolvedAt
        /\ q.closedAt = ticket[t].closedAt
    BY <2>0 DEF TicketRow
  <2>5. SetTicket(t, q)
    BY <1>3 DEF PostWrite
  <2>. HIDE DEF q
  <2>6. TicketGoes(ticket[t], q)
    BY <2>1, <2>4 DEF TicketGoes
  <2>. QED BY <1>h, <1>e, <2>1, <2>3, <2>4, <2>5, <2>6 DEF TicketOps, TicketExists
<1>4. CASE AssignTicketWrite(r)
  <2>1. /\ h.op = "assignTicket" /\ Reply(r) /\ t \in 1..Tickets /\ TicketExists(t)
        /\ (~workload.overlap => ticket[t].status # "CLOSED") /\ h.user \in Person
    BY <1>h, <1>4 DEF AssignTicketWrite, Resumes, TicketHandler, TicketChecked, TicketOps
  <2>. DEFINE q == [ticket[t] EXCEPT !.assigned = h.user, !.status = "IN_PROGRESS"]
  <2>0. ticket[t] \in TicketRow
    BY <1>h, <2>1
  <2>2. q \in TicketRow
    BY <2>0, <2>1, TicketColumns
  <2>3. /\ q.row = ticket[t].row /\ q.number = ticket[t].number /\ q.log = ticket[t].log
        /\ q.status = "IN_PROGRESS"
    BY <2>0 DEF TicketRow
  <2>4. SetTicket(t, q)
    BY <1>4 DEF AssignTicketWrite
  <2>. HIDE DEF q
  <2>5. TicketGoes(ticket[t], q)
    BY <2>1, <2>3 DEF TicketGoes
  <2>. QED BY <1>h, <1>e, <2>1, <2>2, <2>3, <2>4, <2>5 DEF TicketOps, TicketExists
<1>5. CASE EscalateWrite(r)
  <2>1. /\ h.op = "escalate" /\ Reply(r) /\ t \in 1..Tickets /\ TicketExists(t)
        /\ (~workload.overlap => ticket[t].status # "CLOSED" /\ ticket[t].priority = h.from)
        /\ h.from \in PRIORITY_RANK /\ h.to \in PRIORITY_RANK /\ h.to > h.from
        /\ Len(ticket[t].log) < Posts
    BY <1>h, <1>5 DEF EscalateWrite, Resumes, TicketHandler, TicketChecked, TicketOps
  <2>. DEFINE log == ticket[t].log
              Steps == [from : PRIORITY_RANK, to : PRIORITY_RANK]
              entry == [from |-> h.from, to |-> h.to]
              more == Append(log, entry)
              q == [ticket[t] EXCEPT !.priority = h.to, !.log = more]
  <2>0. ticket[t] \in TicketRow
    BY <1>h, <2>1
  <2>2. log \in Seq(Steps) /\ entry \in Steps /\ entry.from = h.from /\ entry.to = h.to
    BY <2>0, <2>1 DEF TicketRow
  <2>. HIDE DEF Steps, entry, log
  <2>3. /\ more \in Seq(Steps) /\ Len(more) = Len(log) + 1 /\ more[Len(more)] = entry
        /\ Len(log) \in Nat
    BY <2>2
  <2>4. SetTicket(t, q)
    BY <1>5 DEF EscalateWrite, log, entry
  <2>. HIDE DEF more
  <2>5. q \in TicketRow
    <3>1. more \in Seq([from : PRIORITY_RANK, to : PRIORITY_RANK])
      BY <2>3 DEF Steps
    <3>2. ticket[t] \in TicketRow /\ h.to \in PRIORITY_RANK
      BY <1>h, <2>1
    <3>. QED BY <3>1, <3>2, TicketColumns
  <2>6. /\ q.row = ticket[t].row /\ q.number = ticket[t].number /\ q.log = more
        /\ q.status = ticket[t].status /\ q.resolvedAt = ticket[t].resolvedAt
        /\ q.closedAt = ticket[t].closedAt /\ q.priority = h.to
    BY <2>0 DEF TicketRow
  <2>. HIDE DEF q
  <2>7. Len(more) <= Posts
    BY <2>1, <2>3, TicketsAssumption DEF log
  <2>8. TicketGoes(ticket[t], q)
    BY <2>1, <2>2, <2>3, <2>6 DEF TicketGoes
  <2>. QED BY <1>h, <1>e, <2>1, <2>4, <2>5, <2>6, <2>7, <2>8 DEF TicketOps, TicketExists
<1>6. CASE ResolveWrite(r)
  <2>1. /\ h.op = "resolve" /\ Reply(r) /\ t \in 1..Tickets /\ TicketExists(t)
        /\ (~workload.overlap => ticket[t].status # "CLOSED")
    BY <1>h, <1>6 DEF ResolveWrite, Resumes, TicketHandler, TicketChecked, TicketOps
  <2>. DEFINE q == [ticket[t] EXCEPT !.status = "RESOLVED", !.resolvedAt = TRUE]
  <2>0. ticket[t] \in TicketRow
    BY <1>h, <2>1
  <2>2. q \in TicketRow
    BY <2>0, <2>1, TicketColumns
  <2>3. /\ q.row = ticket[t].row /\ q.number = ticket[t].number /\ q.log = ticket[t].log
        /\ q.status = "RESOLVED" /\ q.resolvedAt = TRUE
    BY <2>0 DEF TicketRow
  <2>4. SetTicket(t, q)
    BY <1>6 DEF ResolveWrite
  <2>. HIDE DEF q
  <2>5. TicketGoes(ticket[t], q)
    BY <2>1, <2>3 DEF TicketGoes
  <2>. QED BY <1>h, <1>e, <2>1, <2>2, <2>3, <2>4, <2>5 DEF TicketOps, TicketExists
<1>7. CASE CloseWrite(r)
  <2>1. /\ h.op = "close" /\ Reply(r) /\ t \in 1..Tickets /\ TicketExists(t)
        /\ (~workload.overlap => ticket[t].status # "CLOSED")
    BY <1>h, <1>7 DEF CloseWrite, Resumes, TicketHandler, TicketChecked, TicketOps
  <2>. DEFINE q == [ticket[t] EXCEPT !.status = "CLOSED", !.closedAt = TRUE]
  <2>0. ticket[t] \in TicketRow
    BY <1>h, <2>1
  <2>2. q \in TicketRow
    BY <2>0, <2>1, TicketColumns
  <2>3. /\ q.row = ticket[t].row /\ q.number = ticket[t].number /\ q.log = ticket[t].log
        /\ q.status = "CLOSED" /\ q.closedAt = TRUE
    BY <2>0 DEF TicketRow
  <2>4. SetTicket(t, q)
    BY <1>7 DEF CloseWrite
  <2>. HIDE DEF q
  <2>5. TicketGoes(ticket[t], q)
    BY <2>1, <2>3 DEF TicketGoes
  <2>. QED BY <1>h, <1>e, <2>1, <2>2, <2>3, <2>4, <2>5 DEF TicketOps, TicketExists
<1>8. CASE OfficeUpdateWrite(r)
  <2>1. /\ h.op = "officeUpdate" /\ Reply(r) /\ t \in 1..Tickets /\ TicketExists(t)
        /\ h.status \in Optional(TicketStatus) /\ h.priority \in Optional(PRIORITY_RANK)
        /\ h.closing \in BOOLEAN /\ ticket[t].number # 0
    BY <1>h, <1>8 DEF OfficeUpdateWrite, Resumes, TicketHandler, TicketOps
  <2>. DEFINE a == Given(h.status, ticket[t].status)
              b == Given(h.priority, ticket[t].priority)
              c == ticket[t].closedAt \/ h.closing
              q == [ticket[t] EXCEPT !.status = a, !.priority = b, !.closedAt = c]
  <2>0. ticket[t].status \in TicketStatus /\ ticket[t].priority \in PRIORITY_RANK
        /\ ticket[t].closedAt \in BOOLEAN
    BY <1>h, <2>1 DEF TicketRow
  <2>2. a \in TicketStatus /\ b \in PRIORITY_RANK
    <3>1. /\ h.status \in Optional(TicketStatus) /\ h.priority \in Optional(PRIORITY_RANK)
          /\ ticket[t].status \in TicketStatus /\ ticket[t].priority \in PRIORITY_RANK
      BY <2>0, <2>1
    <3>2. Given(h.status, ticket[t].status) \in TicketStatus
      BY <3>1, GivenType
    <3>3. Given(h.priority, ticket[t].priority) \in PRIORITY_RANK
      BY <3>1, GivenType
    <3>. QED BY <3>2, <3>3
  <2>4. SetTicket(t, q)
    BY <1>8 DEF OfficeUpdateWrite
  <2>5. c \in BOOLEAN
    <3>1. c = TRUE \/ c = FALSE
      BY Zenon DEF c
    <3>. QED BY <3>1
  <2>. HIDE DEF a, b, c
  <2>3. q \in TicketRow
    <3>1. ticket[t] \in TicketRow
      BY <1>h, <2>1
    <3>. QED BY <2>2, <2>5, <3>1 DEF TicketRow
  <2>6. /\ q.row = ticket[t].row /\ q.number = ticket[t].number /\ q.log = ticket[t].log
        /\ q.posts = ticket[t].posts
    BY <1>h, <2>1 DEF TicketRow
  <2>. HIDE DEF q
  <2>7. TicketGoes(ticket[t], q)
    BY <2>1, <2>6 DEF TicketGoes
  <2>. QED BY <1>h, <1>e, <2>1, <2>3, <2>4, <2>6, <2>7 DEF TicketOps, TicketExists
<1>. QED BY <1>1, <1>2, <1>3, <1>4, <1>5, <1>6, <1>7, <1>8 DEF TicketWrites

LEMMA TicketKeeps ==
  ASSUME TicketInv, RequestsOK, workload' = workload, TicketNext
  PROVE  TicketInv' /\ TicketsGo /\ \E r : Moves(r, TicketOps)
<1>1. CASE \E r \in Request : MayStart(r) /\ TicketStarts(r)
  <2>1. PICK r \in Request : MayStart(r) /\ TicketStarts(r)
    BY <1>1
  <2>2. CASE \E h : Awaits(r, h) /\ h.op \in TicketOps /\ TicketHandler(h) /\ TicketChecked(h)
                    /\ UNCHANGED support
    <3>1. PICK h : Awaits(r, h) /\ h.op \in TicketOps /\ TicketHandler(h) /\ TicketChecked(h)
                    /\ UNCHANGED support
      BY <2>2
    <3>2. Moves(r, TicketOps)
      BY <2>1, <3>1, Started
    <3>3. \A x \in Request : TicketHandler(req'[x]) /\ (~workload.overlap => TicketChecked(req'[x]))
      BY <3>1, Awaited DEF TicketInv
    <3>4. TicketHolds'
      BY <3>1 DEF TicketInv, TicketHolds, TicketTypeOK, NumbersConsecutive, EndIsDated, TicketsBlank,
         support, TicketExists
    <3>5. TicketsGo
      BY <3>1 DEF TicketsGo, TicketGoes, support
    <3>6. \A x \in Request : TicketHandler(req[x])' /\ (~workload.overlap => TicketChecked(req[x])')
      BY <3>1, <3>3 DEF TicketHandler, TicketChecked, TicketExists, support
    <3>. QED BY <3>2, <3>4, <3>5, <3>6 DEF TicketInv
  <2>3. CASE UNCHANGED req /\ TicketHolds' /\ TicketsGo
    <3>1. Moves(r, TicketOps)
      BY <2>1, <2>3, Started
    <3>2. ~workload.overlap => \A x \in Request : req[x] = Idle
      BY <2>1 DEF MayStart, Quiet
    <3>3. ASSUME NEW x \in Request
          PROVE  TicketHandler(req[x])' /\ (~workload.overlap => TicketChecked(req[x])')
      <4>1. TicketHandler(req[x])'
        BY <2>3 DEF TicketInv, TicketHandler, TicketExists, TicketsGo, TicketGoes, TicketOps
      <4>2. ~workload.overlap => TicketChecked(req[x])'
        BY <2>3, <3>2 DEF TicketChecked, Idle, TicketOps
      <4>. QED BY <4>1, <4>2
    <3>. QED BY <2>3, <3>1, <3>3 DEF TicketInv
  <2>. QED BY <2>1, <2>2, <2>3, TicketBegins
<1>2. CASE \E r \in Request : TicketWrites(r)
  <2>1. PICK r \in Request : TicketWrites(r)
    BY <1>2
  <2>2. req[r].op \in TicketOps /\ Reply(r) /\ TicketHolds' /\ TicketsGo
    BY <2>1, TicketWrite
  <2>3. Moves(r, TicketOps)
    BY <2>2, Continued
  <2>4. ASSUME NEW x \in Request
        PROVE  TicketHandler(req[x])' /\ (~workload.overlap => TicketChecked(req[x])')
    <3>1. CASE x = r
      <4>1. req'[x] = Idle
        BY <2>2, <3>1, Replied
      <4>. QED BY <4>1 DEF TicketHandler, TicketChecked, Idle, TicketOps
    <3>2. CASE x # r
      <4>1. req'[x] = req[x]
        BY <2>2, <3>2, Replied
      <4>2. TicketHandler(req[x])'
        BY <2>2, <4>1 DEF TicketInv, TicketHandler, TicketExists, TicketsGo, TicketGoes, TicketOps
      <4>3. ~workload.overlap => req[x] = Idle
        BY <2>2, <3>2 DEF RequestsOK, Idle, TicketOps
      <4>4. ~workload.overlap => TicketChecked(req[x])'
        BY <4>1, <4>3 DEF TicketChecked, Idle, TicketOps
      <4>. QED BY <4>2, <4>4
    <3>. QED BY <3>1, <3>2
  <2>. QED BY <2>2, <2>3, <2>4 DEF TicketInv
<1>. QED BY <1>1, <1>2 DEF TicketNext

LEMMA TicketStartsOut ==
  ASSUME RequestInit, TicketInit
  PROVE  TicketInv
<1>1. 0 \in 0..Tickets /\ 0 \in 0..Posts /\ 0 \in 0..Jobs /\ 0 \in 0..Urgent
  BY TicketsAssumption, JobsAssumption
<1>2. <<>> \in Seq([from : PRIORITY_RANK, to : PRIORITY_RANK]) /\ Len(<<>>) = 0
  OBVIOUS
<1>3. NoTicket \in TicketRow /\ NoTicket.row = "absent" /\ NoTicket.number = 0 /\ NoTicket.log = <<>>
  BY <1>1, <1>2 DEF NoTicket, TicketRow, TicketStatus, PRIORITY_RANK
<1>4. /\ ticket \in [1..Tickets -> TicketRow] /\ counter = 0
      /\ \A t \in 1..Tickets : ticket[t].row = "absent" /\ ticket[t].number = 0 /\ ticket[t].log = <<>>
  BY <1>3 DEF TicketInit
<1>5. TicketTypeOK
  BY <1>1, <1>2, <1>4, TicketsAssumption DEF TicketTypeOK
<1>6. Numbered = {} /\ NumbersConsecutive
  <2>1. Numbered = {}
    BY <1>4 DEF Numbered
  <2>2. {ticket[t].number : t \in Numbered} = 1..counter /\ Cardinality(Numbered) = counter
    BY <1>4, <2>1, FS_EmptySet
  <2>. QED BY <2>1, <2>2, NumberedFacts
<1>7. EndIsDated /\ TicketsBlank
  BY <1>4 DEF EndIsDated, TicketsBlank, TicketExists
<1>8. \A x \in Request : TicketHandler(req[x]) /\ TicketChecked(req[x])
  BY DEF RequestInit, Idle, TicketHandler, TicketChecked, TicketOps
<1>. QED BY <1>4, <1>5, <1>6, <1>7, <1>8 DEF TicketInv, TicketHolds

-----------------------------------------------------------------------------
(* Documents *)

DocumentOps == {"fetch", "upload", "note", "forget", "again"}

DocumentHandler(h) ==
  /\ h.op \in DocumentOps => h.invoice \in 1..Invoices
  /\ h.op \in {"upload", "note"} => h.stream \in BOOLEAN
  /\ h.op = "upload" =>
       h = [op |-> "upload", invoice |-> h.invoice, stream |-> h.stream, again |-> h.again]
  /\ h.op \in {"upload", "note", "fetch"} => h.again \in BOOLEAN
  /\ h.op = "note" => Stored(h.invoice) \/ document[h.invoice].lost

DocumentInv ==
  /\ DocumentTypeOK /\ NotedIsStored
  /\ \A x \in Request : DocumentHandler(req[x])

LEMMA DocumentFrame ==
  ASSUME DocumentInv, NEW ops, Stirs(ops), ops \intersect DocumentOps = {}, UNCHANGED document
  PROVE  DocumentInv'
<1>1. DocumentTypeOK' /\ NotedIsStored'
  BY DEF DocumentInv, DocumentTypeOK, NotedIsStored, Stored
<1>2. ASSUME NEW x \in Request PROVE DocumentHandler(req[x])'
  <2>1. CASE req'[x] = req[x]
    BY <2>1 DEF DocumentInv, DocumentHandler, Stored
  <2>2. CASE req'[x].op \notin DocumentOps
    BY <2>2 DEF DocumentHandler, DocumentOps
  <2>. QED BY <2>1, <2>2 DEF Stirs, Idle, DocumentOps
<1>. QED BY <1>1, <1>2 DEF DocumentInv

\* What is printed is a total and one of three words.
LEMMA Printed ==
  ASSUME WorkTypeOK, NEW i \in 1..Invoices
  PROVE  /\ generateInvoicePdfBuffer(i).total \in 0..Total
         /\ generateInvoicePdfBuffer(i).summary \in {"PAID", "PARTIALLY_PAID", "UNPAID"}
         /\ generateInvoicePdfBuffer(i) =
              [total |-> generateInvoicePdfBuffer(i).total, summary |-> generateInvoicePdfBuffer(i).summary]
<1>1. invoice[i].total \in 0..Total
  BY DEF WorkTypeOK, InvoiceRow
<1>2. ASSUME NEW j
      PROVE  computeBookingPaymentSummary(j).paymentStatus \in {"PAID", "PARTIALLY_PAID", "UNPAID"}
  BY DEF computeBookingPaymentSummary
<1>. QED BY <1>1, <1>2 DEF generateInvoicePdfBuffer

Files ==
  {<<>>} \union {<<[total |-> total, summary |-> summary]>> :
                   total \in 0..Total, summary \in {"PAID", "PARTIALLY_PAID", "UNPAID"}}

LEMMA DocumentRows == DocumentRow = [noted : BOOLEAN, lost : BOOLEAN, file : Files] /\ <<>> \in Files
BY DEF DocumentRow, Files

\* What a handler that a step leaves behind has been given, and knows then.
DocumentTold(h) ==
  /\ h.op \in DocumentOps /\ h.invoice \in 1..Invoices
  /\ h.op \in {"upload", "note"} => h.stream \in BOOLEAN
  /\ h.op = "upload" =>
       h = [op |-> "upload", invoice |-> h.invoice, stream |-> h.stream, again |-> h.again]
  /\ h.op \in {"upload", "note", "fetch"} => h.again \in BOOLEAN
  /\ h.op = "note" => document'[h.invoice].file # <<>> \/ document'[h.invoice].lost

\* No step takes away both a file and the mark of its loss.
FilesLast ==
  \A i \in 1..Invoices : Stored(i) \/ document[i].lost => Stored(i)' \/ document'[i].lost

\* One row changes, and none is lost unmarked.
LEMMA DocumentSet ==
  ASSUME DocumentTypeOK, NotedIsStored, NEW i \in 1..Invoices, NEW q \in DocumentRow,
         document' = [document EXCEPT ![i] = q],
         (document[i].file # <<>> \/ document[i].lost) => (q.file # <<>> \/ q.lost),
         q.noted => q.file # <<>> \/ q.lost
  PROVE  DocumentTypeOK' /\ NotedIsStored' /\ FilesLast
<1>1. /\ \A x \in 1..Invoices : x # i => document'[x] = document[x]
      /\ document'[i] = q
  BY DEF DocumentTypeOK
<1>. QED BY <1>1 DEF DocumentTypeOK, NotedIsStored, FilesLast, Stored

LEMMA DocumentSame ==
  ASSUME DocumentTypeOK, NotedIsStored, UNCHANGED document
  PROVE  DocumentTypeOK' /\ NotedIsStored' /\ FilesLast
BY DEF DocumentTypeOK, NotedIsStored, FilesLast, Stored

LEMMA DocumentKeeps ==
  ASSUME DocumentInv, WorkTypeOK, RequestsOK, workload' = workload, DocumentNext
  PROVE  DocumentInv' /\ \E r : Moves(r, DocumentOps)
<1>. DEFINE Holds == DocumentTypeOK' /\ NotedIsStored' /\ FilesLast
            Goes(r) == /\ MayStart(r) \/ req[r].op \in DocumentOps
                       /\ (\E h : Awaits(r, h) /\ DocumentTold(h)) \/ Reply(r) \/ UNCHANGED req
                       /\ Reply(r) => req[r].op \in DocumentOps
<1>t. /\ DocumentTypeOK /\ NotedIsStored /\ \A x \in Request : DocumentHandler(req[x])
      /\ \A i \in 1..Invoices : document[i] \in DocumentRow
      /\ \A i \in 1..Invoices : document[i].noted => document[i].file # <<>> \/ document[i].lost
  BY DEF DocumentInv, DocumentTypeOK, NotedIsStored, Stored
<1>p. ASSUME NEW r \in Request, NEW i \in 1..Invoices, NEW stream \in BOOLEAN, NEW again \in BOOLEAN,
             Proceeds(r, i, stream, again)
      PROVE  (\E h : Awaits(r, h) /\ DocumentTold(h)) \/ UNCHANGED req
  BY <1>p DEF Proceeds, DocumentTold, DocumentOps
<1>1. ASSUME NEW r \in Request, MayStart(r), NEW i \in 1..Invoices, NEW u, NEW stream \in BOOLEAN,
             GetPdf(r, u, i, stream)
      PROVE  Holds /\ ((\E h : Awaits(r, h) /\ DocumentTold(h)) \/ UNCHANGED req)
  <2>1. UNCHANGED document /\ Proceeds(r, i, stream, FALSE)
    BY <1>1 DEF GetPdf
  <2>2. Holds
    BY <1>t, <2>1, DocumentSame
  <2>. QED BY <1>p, <2>1, <2>2
<1>2. ASSUME NEW r \in Request, MayStart(r), NEW i \in 1..Invoices, UpdatePdfMetadata(r, i) \/ Loses(r, i)
      PROVE  Holds /\ UNCHANGED req
  <2>1. CASE UpdatePdfMetadata(r, i)
    <3>. DEFINE c == document[i].lost \/ ~Stored(i)
                q == [document[i] EXCEPT !.noted = TRUE, !.lost = c]
    <3>1. UNCHANGED req /\ document' = [document EXCEPT ![i] = q]
      BY <2>1 DEF UpdatePdfMetadata, AtOnce, SetDocument
    <3>2. c = TRUE \/ c = FALSE
      BY Zenon DEF c
    <3>3. c <=> (document[i].lost \/ document[i].file = <<>>)
      BY DEF Stored
    <3>. HIDE DEF c
    <3>4. q \in DocumentRow /\ q.file = document[i].file /\ q.lost = c
      BY <1>t, <3>2, DocumentRows
    <3>. HIDE DEF q
    <3>. QED BY <1>t, <3>1, <3>3, <3>4, DocumentSet
  <2>2. CASE Loses(r, i)
    <3>. DEFINE q == [document[i] EXCEPT !.file = <<>>, !.lost = TRUE]
    <3>1. UNCHANGED req /\ document' = [document EXCEPT ![i] = q]
      BY <2>2 DEF Loses, AtOnce, SetDocument
    <3>2. q \in DocumentRow /\ q.lost = TRUE
      BY <1>t, DocumentRows
    <3>. HIDE DEF q
    <3>. QED BY <1>t, <3>1, <3>2, DocumentSet
  <2>. QED BY <1>2, <2>1, <2>2
<1>3. ASSUME NEW r \in Request, Upload(r) PROVE Holds /\ Goes(r)
  <2>. DEFINE h == req[r]
              i == h.invoice
  <2>1. /\ h.op = "upload" /\ i \in 1..Invoices /\ h.stream \in BOOLEAN /\ h.again \in BOOLEAN
        /\ h = [op |-> "upload", invoice |-> i, stream |-> h.stream, again |-> h.again]
    BY <1>t, <1>3 DEF Upload, Resumes, DocumentHandler, DocumentOps
  <2>2. CASE Reply(r) /\ UNCHANGED document
    BY <1>t, <2>1, <2>2, DocumentSame DEF DocumentOps
  <2>3. CASE /\ SetDocument(i, [document[i] EXCEPT !.file = <<generateInvoicePdfBuffer(i)>>, !.lost = FALSE])
             /\ Awaits(r, [h EXCEPT !.op = "note"])
    <3>. DEFINE buffer == generateInvoicePdfBuffer(i)
                file == <<buffer>>
                q == [document[i] EXCEPT !.file = file, !.lost = FALSE]
    <3>1. document' = [document EXCEPT ![i] = q]
      BY <2>3 DEF SetDocument
    <3>2. file \in Files
      BY <2>1, Printed DEF Files
    <3>3. file # <<>>
      OBVIOUS
    <3>. HIDE DEF file, buffer
    <3>4. q \in DocumentRow /\ q.file = file
      BY <1>t, <2>1, <3>2, DocumentRows
    <3>. HIDE DEF q
    <3>5. Holds /\ document'[i].file # <<>>
      BY <1>t, <2>1, <3>1, <3>3, <3>4, DocumentSet DEF DocumentTypeOK
    <3>6. Awaits(r, [op |-> "note", invoice |-> i, stream |-> h.stream, again |-> h.again])
      <4>1. [h EXCEPT !.op = "note"]
              = [op |-> "note", invoice |-> i, stream |-> h.stream, again |-> h.again]
        BY <2>1
      <4>. QED BY <2>3, <4>1
    <3>7. DocumentTold([op |-> "note", invoice |-> i, stream |-> h.stream, again |-> h.again])
      BY <2>1, <3>5 DEF DocumentTold, DocumentOps
    <3>8. ~Reply(r)
      BY <3>6 DEF Awaits, Reply, RequestsOK, Idle
    <3>. QED BY <2>1, <3>5, <3>6, <3>7, <3>8 DEF DocumentOps
  <2>. QED BY <1>3, <2>2, <2>3 DEF Upload
<1>4. ASSUME NEW r \in Request, NoteFile(r) PROVE Holds /\ Goes(r)
  <2>. DEFINE h == req[r]
              i == h.invoice
              q == [document[i] EXCEPT !.noted = TRUE]
  <2>1. /\ h.op = "note" /\ i \in 1..Invoices /\ h.stream \in BOOLEAN /\ h.again \in BOOLEAN
        /\ document[i].file # <<>> \/ document[i].lost
    BY <1>t, <1>4 DEF NoteFile, Resumes, DocumentHandler, DocumentOps, Stored
  <2>2. document' = [document EXCEPT ![i] = q]
    BY <1>4 DEF NoteFile, SetDocument
  <2>3. q \in DocumentRow /\ q.file = document[i].file /\ q.lost = document[i].lost
    BY <1>t, <2>1, DocumentRows
  <2>. HIDE DEF q
  <2>4. Holds
    BY <1>t, <2>1, <2>2, <2>3, DocumentSet
  <2>5. Awaits(r, [op |-> "fetch", invoice |-> i, again |-> h.again]) \/ Reply(r)
    BY <1>4 DEF NoteFile
  <2>6. DocumentTold([op |-> "fetch", invoice |-> i, again |-> h.again])
    BY <2>1 DEF DocumentTold, DocumentOps
  <2>. QED BY <2>1, <2>4, <2>5, <2>6 DEF DocumentOps
<1>5. ASSUME NEW r \in Request, FetchFile(r) PROVE Holds /\ Goes(r)
  <2>1. /\ req[r].op = "fetch" /\ req[r].invoice \in 1..Invoices /\ UNCHANGED document
        /\ Reply(r) \/ Awaits(r, [op |-> "forget", invoice |-> req[r].invoice])
    BY <1>t, <1>5 DEF FetchFile, Resumes, DocumentHandler, DocumentOps
  <2>2. DocumentTold([op |-> "forget", invoice |-> req[r].invoice])
    BY <2>1 DEF DocumentTold, DocumentOps
  <2>. QED BY <1>t, <2>1, <2>2, DocumentSame DEF DocumentOps
<1>6. ASSUME NEW r \in Request, ForgetFile(r) PROVE Holds /\ Goes(r)
  <2>. DEFINE h == req[r]
              i == h.invoice
              q == [document[i] EXCEPT !.noted = FALSE]
  <2>1. /\ h.op = "forget" /\ i \in 1..Invoices
    BY <1>t, <1>6 DEF ForgetFile, Resumes, DocumentHandler, DocumentOps
  <2>2. document' = [document EXCEPT ![i] = q]
    BY <1>6 DEF ForgetFile, SetDocument
  <2>3. q \in DocumentRow /\ q.file = document[i].file /\ q.lost = document[i].lost /\ q.noted = FALSE
    BY <1>t, <2>1, DocumentRows
  <2>. HIDE DEF q
  <2>4. Holds
    BY <1>t, <2>1, <2>2, <2>3, DocumentSet
  <2>5. Awaits(r, [op |-> "again", invoice |-> i])
    BY <1>6 DEF ForgetFile
  <2>6. DocumentTold([op |-> "again", invoice |-> i])
    BY <2>1 DEF DocumentTold, DocumentOps
  <2>7. ~Reply(r)
    BY <2>5 DEF Awaits, Reply, RequestsOK, Idle
  <2>. QED BY <2>1, <2>4, <2>5, <2>6, <2>7 DEF DocumentOps
<1>7. ASSUME NEW r \in Request, GetPdfAgain(r) PROVE Holds /\ Goes(r)
  <2>1. /\ req[r].op = "again" /\ req[r].invoice \in 1..Invoices /\ UNCHANGED document
        /\ Proceeds(r, req[r].invoice, TRUE, TRUE)
    BY <1>t, <1>7 DEF GetPdfAgain, Resumes, DocumentHandler, DocumentOps
  <2>2. (\E h : Awaits(r, h) /\ DocumentTold(h)) \/ UNCHANGED req
    BY <1>p, <2>1
  <2>3. Holds
    BY <1>t, <2>1, DocumentSame
  <2>. QED BY <2>1, <2>2, <2>3 DEF DocumentOps
<1>. HIDE DEF Holds
<1>8. PICK r \in Request :
        \/ MayStart(r) /\ \E i \in 1..Invoices :
             \/ \E u \in workload.people, stream \in BOOLEAN : GetPdf(r, u, i, stream)
             \/ UpdatePdfMetadata(r, i) \/ Loses(r, i)
        \/ Upload(r) \/ NoteFile(r) \/ FetchFile(r) \/ ForgetFile(r) \/ GetPdfAgain(r)
  BY DEF DocumentNext
<1>9. /\ Holds /\ (MayStart(r) \/ req[r].op \in DocumentOps)
      /\ (\E h : Awaits(r, h) /\ DocumentTold(h)) \/ (Reply(r) /\ req[r].op \in DocumentOps) \/ UNCHANGED req
  BY <1>1, <1>2, <1>3, <1>4, <1>5, <1>6, <1>7, <1>8
<1>10. Moves(r, DocumentOps)
  <2>1. CASE req[r].op \in DocumentOps
    BY <1>9, <2>1, Continued DEF DocumentTold, Moves
  <2>2. CASE MayStart(r)
    BY <1>9, <2>1, <2>2, Started DEF DocumentTold
  <2>. QED BY <1>9, <2>1, <2>2
<1>11. ASSUME NEW x \in Request PROVE DocumentHandler(req[x])'
  <2>1. CASE req'[x] = req[x]
    <3>1. DocumentHandler(req[x])
      BY <1>t
    <3>2. \A i \in 1..Invoices : Stored(i) \/ document[i].lost => document'[i].file # <<>> \/ document'[i].lost
      BY <1>9 DEF Holds, FilesLast, Stored
    <3>3. req[x].op = "note" => document'[req[x].invoice].file # <<>> \/ document'[req[x].invoice].lost
      BY <3>1, <3>2 DEF DocumentHandler, DocumentOps
    <3>4. req'[x].op = "note" => document'[req'[x].invoice].file # <<>> \/ document'[req'[x].invoice].lost
      BY <2>1, <3>3
    <3>. QED BY <2>1, <3>1, <3>4 DEF DocumentHandler, Stored
  <2>2. CASE req'[x] = Idle
    BY <2>2 DEF DocumentHandler, Idle, DocumentOps
  <2>3. CASE \E h : req'[x] = h /\ DocumentTold(h)
    <3>1. DocumentTold(req'[x])
      BY <2>3
    <3>. QED BY <3>1 DEF DocumentTold, DocumentHandler, Stored
  <2>. QED BY <1>9, <2>1, <2>2, <2>3, Awaited, Replied
<1>. QED BY <1>9, <1>10, <1>11 DEF DocumentInv, Holds

LEMMA DocumentStartsOut ==
  ASSUME RequestInit, DocumentInit
  PROVE  DocumentInv
<1>1. /\ DocumentTypeOK /\ NotedIsStored
  BY DEF DocumentInit, DocumentTypeOK, NotedIsStored, DocumentRow
<1>. QED BY <1>1 DEF DocumentInv, RequestInit, Idle, DocumentHandler, DocumentOps

=============================================================================
