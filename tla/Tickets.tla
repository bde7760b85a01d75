------------------------------ MODULE Tickets ------------------------------
(***************************************************************************)
(* Support tickets: support.service.ts, by which customers and staff work  *)
(* on them, and admin-support.service.ts, by which the office opens        *)
(* numbered tickets and sets any field.  Texts, internal notes and e-mails *)
(* are left out.                                                           *)
(***************************************************************************)
EXTENDS Jobs, Sequences

CONSTANTS
  Tickets,  \* bound: tickets ever created
  Posts,    \* bound: comments and attachments of a ticket, and its escalations
  Urgent    \* rank of the highest priority: 4

ASSUME TicketsAssumption == Tickets \in Nat /\ Posts \in Nat /\ Urgent \in Nat

VARIABLES
  ticket,   \* the SupportTicket table with the rows that belong to a ticket
  counter   \* seq of this year's SupportTicketCounter

support == <<ticket, counter>>

TicketStatus == {"OPEN", "IN_PROGRESS", "RESOLVED", "CLOSED"}

\* LOW, MEDIUM, HIGH, CRITICAL, URGENT.
PRIORITY_RANK == 0..Urgent

\* number is 0 for a ticket opened by its author; posts counts comments and
\* attachments; log holds the escalations; job is the booking it is about: 0 for
\* none, and one that is deleted counts as none, for the foreign key unsets it.
TicketRow ==
  [row : {"absent", "present"}, number : 0..Tickets, status : TicketStatus,
   priority : PRIORITY_RANK, author : Person \union {None}, assigned : Person \union {None},
   resolvedAt : BOOLEAN, closedAt : BOOLEAN, posts : 0..Posts, job : 0..Jobs,
   log : Seq([from : PRIORITY_RANK, to : PRIORITY_RANK])]

NoTicket ==
  [row |-> "absent", number |-> 0, status |-> "OPEN", priority |-> 0, author |-> None,
   assigned |-> None, resolvedAt |-> FALSE, closedAt |-> FALSE, posts |-> 0, job |-> 0,
   log |-> <<>>]

TicketInit == ticket = [t \in 1..Tickets |-> NoTicket] /\ counter = 0

TicketExists(t) == ticket[t].row = "present"

IsLimitedRole(u) == person[u].role \in {"USER", "WORKER"}

-----------------------------------------------------------------------------
(* Opening a ticket *)

OpenTicket(r, u, priority) ==
  /\ AtOnce(r, "openTicket")
  /\ Exists(u)
  /\ \E t \in NextRow(ticket, Tickets) :
       ticket' = [ticket EXCEPT ![t] =
                    [NoTicket EXCEPT !.row = "present", !.author = u, !.priority = priority]]
  /\ UNCHANGED counter

\* For a customer and perhaps a booking of his, with any status.
OfficeTicket(r, u, customer, priority, status, j) ==
  /\ Arrives(r, "officeTicket")
  /\ Exists(u) /\ person[u].role \in {"ADMIN", "SUPER_ADMIN"} /\ Has(customer, "USER")
  /\ j # 0 => JobExists(j) /\ job[j].customer = customer
  /\ Awaits(r, [op |-> "officeTicket", author |-> u, priority |-> priority, status |-> status,
                job |-> j])
  /\ UNCHANGED support

\* Mutant: the number is taken outside the transaction, which may fail.
OfficeTicketWriteApart(r) ==
  /\ Resumes(r, "officeTicket")
  /\ \E t \in NextRow(ticket, Tickets) :
       ticket' \in {ticket, [ticket EXCEPT ![t] =
                    [NoTicket EXCEPT !.row = "present", !.number = counter + 1,
                                     !.author = req[r].author, !.priority = req[r].priority,
                                     !.status = req[r].status, !.job = req[r].job]]}
  /\ counter' = counter + 1
  /\ Reply(r)

\* One transaction numbers and inserts; it is undone if the booking is gone.
OfficeTicketWrite(r) ==
  /\ Resumes(r, "officeTicket")
  /\ IF req[r].job # 0 /\ ~JobExists(req[r].job) THEN UNCHANGED support
     ELSE \E t \in NextRow(ticket, Tickets) :
            /\ ticket' = [ticket EXCEPT ![t] =
                            [NoTicket EXCEPT !.row = "present", !.number = counter + 1,
                                             !.author = req[r].author, !.priority = req[r].priority,
                                             !.status = req[r].status, !.job = req[r].job]]
            /\ counter' = counter + 1
  /\ Reply(r)

-----------------------------------------------------------------------------
(* Working on it: each handler reads the ticket and writes by id *)

SetTicket(t, row) ==
  /\ ticket' = [ticket EXCEPT ![t] = row]
  /\ UNCHANGED counter

Settled(t) == ticket[t].status \in {"RESOLVED", "CLOSED"}

EditTicket(r, t, priority) ==
  /\ Arrives(r, "editTicket")
  /\ TicketExists(t) /\ ticket[t].status # "CLOSED"
  /\ Awaits(r, [op |-> "editTicket", ticket |-> t, priority |-> priority])
  /\ UNCHANGED support

EditTicketWrite(r) ==
  /\ Resumes(r, "editTicket")
  /\ LET t == req[r].ticket IN SetTicket(t, [ticket[t] EXCEPT !.priority = req[r].priority])
  /\ Reply(r)

\* addComment and addAttachment check the same and add one row.
Post(r, t, u) ==
  /\ Arrives(r, "post")
  /\ TicketExists(t) /\ Exists(u)
  /\ IsLimitedRole(u) => ticket[t].author = u
  /\ ticket[t].status # "CLOSED"
  /\ Awaits(r, [op |-> "post", ticket |-> t])
  /\ UNCHANGED support

PostWrite(r) ==
  /\ Resumes(r, "post")
  /\ LET t == req[r].ticket IN
       /\ ticket[t].posts < Posts
       /\ SetTicket(t, [ticket[t] EXCEPT !.posts = @ + 1])
  /\ Reply(r)

AssignTicket(r, t, u) ==
  /\ Arrives(r, "assignTicket")
  /\ TicketExists(t) /\ ~Settled(t)
  /\ Exists(u) /\ person[u].active
  /\ Awaits(r, [op |-> "assignTicket", ticket |-> t, user |-> u])
  /\ UNCHANGED support

AssignTicketWrite(r) ==
  /\ Resumes(r, "assignTicket")
  /\ LET t == req[r].ticket IN
       SetTicket(t, [ticket[t] EXCEPT !.assigned = req[r].user, !.status = "IN_PROGRESS"])
  /\ Reply(r)

Escalate(r, t, priority) ==
  /\ Arrives(r, "escalate")
  /\ TicketExists(t) /\ ~Settled(t)
  /\ priority > ticket[t].priority
  /\ Awaits(r, [op |-> "escalate", ticket |-> t, from |-> ticket[t].priority, to |-> priority])
  /\ UNCHANGED support

\* One transaction: the priority, and a row that says what it was when read.
EscalateWrite(r) ==
  /\ Resumes(r, "escalate")
  /\ LET t == req[r].ticket IN
       /\ Len(ticket[t].log) < Posts
       /\ SetTicket(t, [ticket[t] EXCEPT !.priority = req[r].to,
                                         !.log = Append(@, [from |-> req[r].from, to |-> req[r].to])])
  /\ Reply(r)

Resolve(r, t) ==
  /\ Arrives(r, "resolve")
  /\ TicketExists(t) /\ ~Settled(t)
  /\ Awaits(r, [op |-> "resolve", ticket |-> t])
  /\ UNCHANGED support

ResolveWrite(r) ==
  /\ Resumes(r, "resolve")
  /\ LET t == req[r].ticket IN
       SetTicket(t, [ticket[t] EXCEPT !.status = "RESOLVED", !.resolvedAt = TRUE])
  /\ Reply(r)

Close(r, t) ==
  /\ Arrives(r, "close")
  /\ TicketExists(t) /\ ticket[t].status # "CLOSED"
  /\ Awaits(r, [op |-> "close", ticket |-> t])
  /\ UNCHANGED support

CloseWrite(r) ==
  /\ Resumes(r, "close")
  /\ LET t == req[r].ticket IN
       SetTicket(t, [ticket[t] EXCEPT !.status = "CLOSED", !.closedAt = TRUE])
  /\ Reply(r)

\* updateTicket of the office: any status after any other, and isClosing is
\* decided on the status that was read.  resolvedAt is left alone.
OfficeUpdate(r, t, status, priority) ==
  /\ Arrives(r, "officeUpdate")
  /\ TicketExists(t) /\ ticket[t].number # 0
  /\ Awaits(r, [op |-> "officeUpdate", ticket |-> t, status |-> status, priority |-> priority,
                closing |-> status = {"CLOSED"} /\ ticket[t].status # "CLOSED"])
  /\ UNCHANGED support

OfficeUpdateWrite(r) ==
  /\ Resumes(r, "officeUpdate")
  /\ LET t == req[r].ticket IN
       SetTicket(t, [ticket[t] EXCEPT !.status = Given(req[r].status, @),
                                      !.priority = Given(req[r].priority, @),
                                      !.closedAt = @ \/ req[r].closing])
  /\ Reply(r)

-----------------------------------------------------------------------------

TicketStarts(r) ==
  \/ \E u \in workload.people, priority \in PRIORITY_RANK :
       \/ OpenTicket(r, u, priority)
       \/ Asked({"officeTicket"}) /\ \E customer \in workload.people, status \in TicketStatus, j \in 0..Jobs :
            OfficeTicket(r, u, customer, priority, status, j)
  \/ \E t \in 1..Tickets :
       \/ Resolve(r, t) \/ Close(r, t)
       \/ \E u \in workload.people : Post(r, t, u) \/ AssignTicket(r, t, u)
       \/ \E priority \in PRIORITY_RANK : EditTicket(r, t, priority) \/ Escalate(r, t, priority)
       \/ \E status \in Optional(TicketStatus), priority \in Optional(PRIORITY_RANK) :
            OfficeUpdate(r, t, status, priority)

TicketWrites(r) ==
  \/ OfficeTicketWrite(r) \/ EditTicketWrite(r) \/ PostWrite(r) \/ AssignTicketWrite(r)
  \/ EscalateWrite(r) \/ ResolveWrite(r) \/ CloseWrite(r) \/ OfficeUpdateWrite(r)

TicketNext == \E r \in Request : (MayStart(r) /\ TicketStarts(r)) \/ TicketWrites(r)

-----------------------------------------------------------------------------
(* Properties *)

TicketTypeOK ==
  /\ \A t \in 1..Tickets :
       /\ ticket[t] \in TicketRow
       /\ Len(ticket[t].log) <= Posts
  /\ DOMAIN ticket = 1..Tickets
  /\ counter \in 0..Tickets

\* The office's tickets are numbered 1, 2, 3 ... without a gap or a duplicate,
\* although offices open them at once and queries fail.
NumbersConsecutive ==
  LET numbered == {t \in 1..Tickets : TicketExists(t) /\ ticket[t].number # 0} IN
    /\ {ticket[t].number : t \in numbered} = 1..counter
    /\ Cardinality(numbered) = counter

\* A ticket its author opened has the date of the end it came to, in every
\* interleaving of resolving, closing and assigning.  (One the office opened
\* may be born closed, or resolved by an edit, without a date.)
EndIsDated ==
  \A t \in 1..Tickets : TicketExists(t) /\ ticket[t].number = 0 =>
    /\ ticket[t].status = "RESOLVED" => ticket[t].resolvedAt
    /\ ticket[t].status = "CLOSED" => ticket[t].closedAt

\* Every row of the escalation log raises the priority, whatever was edited
\* in between, and without overlap it tells what the priority was before and
\* is after the step.
LogTellsTruth ==
  [][\A t \in 1..Tickets : ticket'[t].log # ticket[t].log =>
       LET entry == ticket'[t].log[Len(ticket'[t].log)] IN
         /\ entry.to > entry.from
         /\ ~workload.overlap =>
              ticket[t].priority = entry.from /\ ticket'[t].priority = entry.to]_ticket

\* Nothing happens to a closed ticket but an edit by the office.  Holds when
\* requests do not overlap.
ClosedIsFinal ==
  [][~workload.overlap =>
       \A t \in 1..Tickets : TicketExists(t) /\ ticket[t].status = "CLOSED" =>
         \/ ticket'[t] = ticket[t]
         \/ ticket[t].number # 0 /\ ticket'[t].posts = ticket[t].posts
              /\ ticket'[t].log = ticket[t].log]_ticket
=============================================================================
