---------------------------- MODULE Organizations ----------------------------
(***************************************************************************)
(* Organizations, their members, the plans and the subscriptions:          *)
(* organizations, members, subscriptions, plans and super-admin services,  *)
(* tenant-access, and the two subscription events of the webhook.          *)
(*                                                                         *)
(* `periods' is how many 30-day periods of a subscription have not ended,  *)
(* the running one included: 0 once currentPeriodEnd is past.  The gateway *)
(* delivers its events in any order and more than once.                    *)
(***************************************************************************)
EXTENDS Territory

CONSTANTS
  Plan,     \* the tiers; one row each
  Trial,    \* the tier a new organization starts on
  Orgs,     \* bound: organizations ever created
  Periods   \* bound: periods paid ahead

ASSUME OrganizationsAssumption == Trial \in Plan /\ Orgs \in Nat /\ Periods \in Nat \ {0}

VARIABLES
  org,          \* the Organization table
  member,       \* OrganizationUser, by organization and user
  plan,         \* the Plan table
  subscription  \* by organization: organizationId is unique

tenancy == <<org, member, plan, subscription>>

\* PAST_DUE and EXPIRED are never written.
SubscriptionStatus == {"TRIALING", "ACTIVE", "CANCELLED"}

OrgRow == [row : {"absent", "present", "gone"}, active : BOOLEAN]

MemberRow == [row : {"absent", "present"}, admin : BOOLEAN, active : BOOLEAN]

PlanRow == [row : {"absent", "present"}, active : BOOLEAN]

SubscriptionRow ==
  [row : {"absent", "present"}, status : SubscriptionStatus, plan : Plan,
   periods : 0..Periods, cancelledAt : BOOLEAN]

NoMember == [row |-> "absent", admin |-> FALSE, active |-> FALSE]

NoSubscription ==
  [row |-> "absent", status |-> "TRIALING", plan |-> Trial, periods |-> 0, cancelledAt |-> FALSE]

TenancyInit ==
  /\ org = [o \in 1..Orgs |-> [row |-> "absent", active |-> TRUE]]
  /\ member = [o \in 1..Orgs |-> [u \in Person |-> NoMember]]
  /\ plan = [p \in Plan |-> [row |-> IF p = Trial THEN "present" ELSE "absent", active |-> TRUE]]
  /\ subscription = [o \in 1..Orgs |-> NoSubscription]

OrgExists(o) == org[o].row = "present"
PlanExists(p) == plan[p].row = "present"
Subscribed(o) == subscription[o].row = "present"

\* assertOrgAdmin, requireOrgAdmin.
assertOrgAdmin(o, u) ==
  /\ OrgExists(o) /\ Exists(u)
  /\ \/ person[u].role = "SUPER_ADMIN"
     \/ member[o][u].row = "present" /\ member[o][u].active /\ member[o][u].admin

\* An update by id throws if the row is gone.
SetSubscription(o, row) ==
  subscription' = IF Subscribed(o) THEN [subscription EXCEPT ![o] = row] ELSE subscription

-----------------------------------------------------------------------------
(* Organizations *)

CreateOrg(r, u) ==
  /\ Arrives(r, "createOrg")
  /\ Exists(u) /\ PlanExists(Trial)
  /\ Awaits(r, [op |-> "createOrg", user |-> u])
  /\ UNCHANGED tenancy

\* One transaction: the organization, its founder as admin, and the trial;
\* the plan is a foreign key.
CreateOrgWrite(r) ==
  /\ Resumes(r, "createOrg")
  /\ \E o \in NextRow(org, Orgs) :
       IF PlanExists(Trial)
         THEN /\ org' = [org EXCEPT ![o] = [row |-> "present", active |-> TRUE]]
              /\ member' = [member EXCEPT ![o][req[r].user] =
                              [row |-> "present", admin |-> TRUE, active |-> TRUE]]
              /\ subscription' = [subscription EXCEPT ![o] =
                              [NoSubscription EXCEPT !.row = "present", !.periods = 1]]
         ELSE UNCHANGED <<org, member, subscription>>
  /\ Reply(r)
  /\ UNCHANGED plan

\* remove by an admin, or hardDelete by a super administrator.
DeleteOrg(r, o, u) ==
  /\ Arrives(r, "deleteOrg")
  /\ assertOrgAdmin(o, u)
  /\ Awaits(r, [op |-> "deleteOrg", org |-> o])
  /\ UNCHANGED tenancy

\* Members and subscription go with it.
DeleteOrgWrite(r) ==
  /\ Resumes(r, "deleteOrg")
  /\ LET o == req[r].org IN
       /\ org' = [org EXCEPT ![o].row = "gone"]
       /\ member' = [member EXCEPT ![o] = [u \in Person |-> NoMember]]
       /\ subscription' = [subscription EXCEPT ![o] = NoSubscription]
  /\ Reply(r)
  /\ UNCHANGED plan

\* toggleStatus, in both services: the opposite of what was read.
ToggleOrg(r, o) ==
  /\ Arrives(r, "toggleOrg")
  /\ OrgExists(o)
  /\ Awaits(r, [op |-> "toggleOrg", org |-> o, active |-> ~org[o].active])
  /\ UNCHANGED tenancy

ToggleOrgWrite(r) ==
  /\ Resumes(r, "toggleOrg")
  /\ LET o == req[r].org IN
       org' = IF OrgExists(o) THEN [org EXCEPT ![o].active = req[r].active] ELSE org
  /\ Reply(r)
  /\ UNCHANGED <<member, plan, subscription>>

-----------------------------------------------------------------------------
(* Members *)

Invite(r, o, actor, u, admin) ==
  /\ Arrives(r, "invite")
  /\ assertOrgAdmin(o, actor)
  /\ Exists(u) /\ person[u].active /\ ~member[o][u].active
  /\ Awaits(r, [op |-> "invite", org |-> o, user |-> u, admin |-> admin])
  /\ UNCHANGED tenancy

\* An inactive row is revived, or one is inserted: both throw if the
\* organization has gone.
InviteWrite(r) ==
  /\ Resumes(r, "invite")
  /\ LET o == req[r].org IN
       member' = IF OrgExists(o)
                   THEN [member EXCEPT ![o][req[r].user] =
                           [row |-> "present", admin |-> req[r].admin, active |-> TRUE]]
                   ELSE member
  /\ Reply(r)
  /\ UNCHANGED <<org, plan, subscription>>

UpdateMember(r, o, actor, u, admin) ==
  /\ Arrives(r, "updateMember")
  /\ assertOrgAdmin(o, actor)
  /\ member[o][u].row = "present" /\ member[o][u].active
  /\ Awaits(r, [op |-> "updateMember", org |-> o, user |-> u, admin |-> admin])
  /\ UNCHANGED tenancy

UpdateMemberWrite(r) ==
  /\ Resumes(r, "updateMember")
  /\ LET o == req[r].org
         u == req[r].user
     IN member' = IF member[o][u].row = "present"
                    THEN [member EXCEPT ![o][u].admin = req[r].admin] ELSE member
  /\ Reply(r)
  /\ UNCHANGED <<org, plan, subscription>>

RemoveMember(r, o, actor, u) ==
  /\ Arrives(r, "removeMember")
  /\ assertOrgAdmin(o, actor) /\ u # actor
  /\ member[o][u].row = "present"
  /\ Awaits(r, [op |-> "removeMember", org |-> o, user |-> u])
  /\ UNCHANGED tenancy

RemoveMemberWrite(r) ==
  /\ Resumes(r, "removeMember")
  /\ LET o == req[r].org
         u == req[r].user
     IN member' = IF member[o][u].row = "present"
                    THEN [member EXCEPT ![o][u].active = FALSE] ELSE member
  /\ Reply(r)
  /\ UNCHANGED <<org, plan, subscription>>

-----------------------------------------------------------------------------
(* Plans *)

\* The tier is unique.
CreatePlan(r, p) ==
  /\ AtOnce(r, "createPlan")
  /\ ~PlanExists(p)
  /\ plan' = [plan EXCEPT ![p] = [row |-> "present", active |-> TRUE]]
  /\ UNCHANGED <<org, member, subscription>>

UpdatePlan(r, p, active) ==
  /\ AtOnce(r, "updatePlan")
  /\ PlanExists(p)
  /\ plan' = [plan EXCEPT ![p].active = active]
  /\ UNCHANGED <<org, member, subscription>>

SubscribersOf(p) == {o \in 1..Orgs : Subscribed(o) /\ subscription[o].plan = p}

RemovePlan(r, p) ==
  /\ Arrives(r, "removePlan")
  /\ PlanExists(p) /\ SubscribersOf(p) = {}
  /\ Awaits(r, [op |-> "removePlan", plan |-> p])
  /\ UNCHANGED tenancy

\* The foreign key of a subscription that came since makes it throw.
RemovePlanWrite(r) ==
  /\ Resumes(r, "removePlan")
  /\ plan' = IF SubscribersOf(req[r].plan) = {}
               THEN [plan EXCEPT ![req[r].plan].row = "absent"] ELSE plan
  /\ Reply(r)
  /\ UNCHANGED <<org, member, subscription>>

-----------------------------------------------------------------------------
(* Subscriptions, by the organization *)

\* Also overrideSubscription, by a super administrator.
Start(r, o, u, p) ==
  /\ Arrives(r, "start")
  /\ assertOrgAdmin(o, u)
  /\ ~(Subscribed(o) /\ subscription[o].status = "ACTIVE")
  /\ PlanExists(p) /\ plan[p].active
  /\ Awaits(r, [op |-> "start", org |-> o, plan |-> p, existing |-> Subscribed(o)])
  /\ UNCHANGED tenancy

\* An update, or an insert that throws if there is one by now.
StartWrite(r) ==
  /\ Resumes(r, "start")
  /\ LET o == req[r].org IN
       subscription' =
         IF OrgExists(o) /\ PlanExists(req[r].plan) /\ (req[r].existing <=> Subscribed(o))
           THEN [subscription EXCEPT ![o] =
                   [row |-> "present", status |-> "ACTIVE", plan |-> req[r].plan,
                    periods |-> 1, cancelledAt |-> FALSE]]
           ELSE subscription
  /\ Reply(r)
  /\ UNCHANGED <<org, member, plan>>

ChangePlan(r, o, u, p) ==
  /\ Arrives(r, "changePlan")
  /\ assertOrgAdmin(o, u)
  /\ Subscribed(o) /\ subscription[o].status # "CANCELLED"
  /\ PlanExists(p) /\ plan[p].active /\ subscription[o].plan # p
  /\ Awaits(r, [op |-> "changePlan", org |-> o, plan |-> p])
  /\ UNCHANGED tenancy

\* cancelledAt is left alone.
ChangePlanWrite(r) ==
  /\ Resumes(r, "changePlan")
  /\ LET o == req[r].org IN
       IF PlanExists(req[r].plan)
         THEN SetSubscription(o, [subscription[o] EXCEPT !.plan = req[r].plan, !.status = "ACTIVE"])
         ELSE UNCHANGED subscription
  /\ Reply(r)
  /\ UNCHANGED <<org, member, plan>>

\* The new end is reckoned from the end that was read.
Renew(r, o, u) ==
  /\ Arrives(r, "renew")
  /\ assertOrgAdmin(o, u)
  /\ Subscribed(o) /\ subscription[o].status # "CANCELLED"
  /\ subscription[o].periods < Periods
  /\ Awaits(r, [op |-> "renew", org |-> o, periods |-> subscription[o].periods + 1])
  /\ UNCHANGED tenancy

RenewWrite(r) ==
  /\ Resumes(r, "renew")
  /\ LET o == req[r].org IN
       SetSubscription(o, [subscription[o] EXCEPT !.status = "ACTIVE", !.periods = req[r].periods,
                                                  !.cancelledAt = FALSE])
  /\ Reply(r)
  /\ UNCHANGED <<org, member, plan>>

Cancel(r, o, u) ==
  /\ Arrives(r, "cancel")
  /\ assertOrgAdmin(o, u)
  /\ Subscribed(o) /\ subscription[o].status # "CANCELLED"
  /\ Awaits(r, [op |-> "cancel", org |-> o])
  /\ UNCHANGED tenancy

CancelWrite(r) ==
  /\ Resumes(r, "cancel")
  /\ LET o == req[r].org IN
       SetSubscription(o, [subscription[o] EXCEPT !.status = "CANCELLED", !.cancelledAt = TRUE])
  /\ Reply(r)
  /\ UNCHANGED <<org, member, plan>>

-----------------------------------------------------------------------------
(* Subscriptions, by the gateway *)

\* findSubscription, then an update by id.  The period starts anew.
SubscriptionActivated(r, o) ==
  /\ Arrives(r, "activated")
  /\ Subscribed(o)
  /\ Awaits(r, [op |-> "activated", org |-> o])
  /\ UNCHANGED tenancy

SubscriptionActivatedWrite(r) ==
  /\ Resumes(r, "activated")
  /\ LET o == req[r].org IN
       SetSubscription(o, [subscription[o] EXCEPT !.status = "ACTIVE", !.periods = 1])
  /\ Reply(r)
  /\ UNCHANGED <<org, member, plan>>

\* The event ends as the organization's own cancellation does.
SubscriptionCancelled(r, o) ==
  /\ Arrives(r, "cancelled")
  /\ Subscribed(o) /\ subscription[o].status # "CANCELLED"
  /\ Awaits(r, [op |-> "cancel", org |-> o])
  /\ UNCHANGED tenancy

\* Nothing else ends a subscription: findOne reports isExpired by the dates.
PeriodEnds(o) ==
  /\ Subscribed(o) /\ subscription[o].periods > 0
  /\ subscription' = [subscription EXCEPT ![o].periods = @ - 1]
  /\ UNCHANGED <<org, member, plan, req>>

-----------------------------------------------------------------------------

TenancyStarts(r) ==
  \/ \E p \in Plan : CreatePlan(r, p) \/ RemovePlan(r, p) \/ \E active \in BOOLEAN : UpdatePlan(r, p, active)
  \/ \E u \in workload.people : CreateOrg(r, u)
  \/ \E o \in 1..Orgs :
       \/ ToggleOrg(r, o) \/ SubscriptionActivated(r, o) \/ SubscriptionCancelled(r, o)
       \/ \E u \in workload.people :
            \/ DeleteOrg(r, o, u) \/ Renew(r, o, u) \/ Cancel(r, o, u)
            \/ \E p \in Plan : Start(r, o, u, p) \/ ChangePlan(r, o, u, p)
            \/ \E v \in workload.people, admin \in BOOLEAN :
                 Invite(r, o, u, v, admin) \/ UpdateMember(r, o, u, v, admin)
            \/ \E v \in workload.people : RemoveMember(r, o, u, v)

TenancyWrites(r) ==
  \/ CreateOrgWrite(r) \/ DeleteOrgWrite(r) \/ ToggleOrgWrite(r)
  \/ InviteWrite(r) \/ UpdateMemberWrite(r) \/ RemoveMemberWrite(r) \/ RemovePlanWrite(r)
  \/ StartWrite(r) \/ ChangePlanWrite(r) \/ RenewWrite(r) \/ CancelWrite(r)
  \/ SubscriptionActivatedWrite(r)

TenancyNext ==
  \/ \E r \in Request : (MayStart(r) /\ TenancyStarts(r)) \/ TenancyWrites(r)
  \/ \E o \in 1..Orgs : PeriodEnds(o)

-----------------------------------------------------------------------------
(* Properties *)

TenancyTypeOK ==
  /\ org \in [1..Orgs -> OrgRow]
  /\ member \in [1..Orgs -> [Person -> MemberRow]]
  /\ plan \in [Plan -> PlanRow]
  /\ subscription \in [1..Orgs -> SubscriptionRow]

\* Whatever is deleted while others start, change and invite: a subscription
\* has its organization and its plan, and a membership its organization.
NoOrphans ==
  \A o \in 1..Orgs :
    /\ Subscribed(o) => OrgExists(o) /\ PlanExists(subscription[o].plan)
    /\ \A u \in Person : member[o][u].row = "present" => OrgExists(o)

\* A cancelled subscription has the date of it, in every interleaving of
\* renewals, plan changes and the events of the gateway.
CancelledIsDated ==
  \A o \in 1..Orgs : subscription[o].status = "CANCELLED" => subscription[o].cancelledAt

\* "Access continues until the current period ends": neither a cancellation,
\* by either way, nor a change of plan shortens what is paid, even while other
\* requests renew it.
CancelKeepsAccess ==
  [][\A r \in Request, o \in 1..Orgs :
       /\ req[r].op \in {"cancel", "changePlan"} /\ req'[r] = Idle
       => subscription'[o].periods = subscription[o].periods]_<<subscription, req>>
=============================================================================
