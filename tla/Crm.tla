-------------------------------- MODULE Crm --------------------------------
(***************************************************************************)
(* Leads, deals, customers, contacts and activities of the sales staff:    *)
(* crm/*.service.ts.  Every handler checks the rows it refers to and then  *)
(* writes by id, and the foreign keys decide what a write may do to rows   *)
(* that others refer to.  The e-mail address of a customer is that of some *)
(* lead, or none; changes of texts, and of activities and contacts, are    *)
(* left out.                                                               *)
(***************************************************************************)
EXTENDS Requests

CONSTANTS
  Leads,      \* bound: leads ever created
  Customers,  \* bound: customers ever created
  Links       \* bound: contacts, deals and activities ever created, each

ASSUME CrmAssumption == Leads \in Nat /\ Customers \in Nat /\ Links \in Nat

VARIABLES lead, customer, contact, deal, activity

sales == <<lead, customer, contact, deal, activity>>

LeadStatus == {"NEW", "WON", "LOST"}  \* NEW stands for every open status

TERMINAL_STATUSES == {"WON", "LOST"}

Row == {"absent", "present", "gone"}

LeadRow == [row : Row, status : LeadStatus, closedAt : BOOLEAN, customer : 0..Customers]

\* email is the lead whose address it is, or 0; born the lead it was made from.
CustomerRow == [row : Row, email : 0..Leads, born : 0..Leads]

ContactRow == [row : Row, customer : 0..Customers]
DealRow == [row : Row, customer : 0..Customers, lead : 0..Leads, contact : 0..Links]
ActivityRow == [row : Row, customer : 0..Customers, lead : 0..Leads, deal : 0..Links,
                contact : 0..Links]

SalesInit ==
  /\ lead = [l \in 1..Leads |->
               [row |-> "absent", status |-> "NEW", closedAt |-> FALSE, customer |-> 0]]
  /\ customer = [c \in 1..Customers |-> [row |-> "absent", email |-> 0, born |-> 0]]
  /\ contact = [k \in 1..Links |-> [row |-> "absent", customer |-> 0]]
  /\ deal = [d \in 1..Links |-> [row |-> "absent", customer |-> 0, lead |-> 0, contact |-> 0]]
  /\ activity = [a \in 1..Links |->
                   [row |-> "absent", customer |-> 0, lead |-> 0, deal |-> 0, contact |-> 0]]

\* A reference to row i of a table: NULL, or to a row that is there.
RefersTo(table, i) == i # 0 => table[i].row = "present"

Present(table, i) == i # 0 /\ RefersTo(table, i)

\* The row is changed, unless it is gone.
Put(table, i, row) == IF Present(table, i) THEN [table EXCEPT ![i] = row] ELSE table

\* onDelete: SetNull of the references to row i in a column.
SetNull(table, column, i) ==
  [j \in DOMAIN table |-> IF table[j][column] = i THEN [table[j] EXCEPT ![column] = 0] ELSE table[j]]

EmailFree(e) == e # 0 => \A c \in 1..Customers : Present(customer, c) => customer[c].email # e

-----------------------------------------------------------------------------
(* Leads *)

CreateLead(r, c) ==
  /\ Arrives(r, "createLead")
  /\ RefersTo(customer, c)
  /\ Awaits(r, [op |-> "createLead", customer |-> c])
  /\ UNCHANGED sales

CreateLeadWrite(r) ==
  /\ Resumes(r, "createLead")
  /\ \E l \in NextRow(lead, Leads) :
       lead' = IF RefersTo(customer, req[r].customer)
                 THEN [lead EXCEPT ![l].row = "present", ![l].customer = req[r].customer]
                 ELSE lead
  /\ Reply(r)
  /\ UNCHANGED <<customer, contact, deal, activity>>

\* update: it may set closedAt, not clear it.
EditLead(r, l, c, closed) ==
  /\ Arrives(r, "editLead")
  /\ Present(lead, l) /\ RefersTo(customer, c)
  /\ Awaits(r, [op |-> "editLead", lead |-> l, customer |-> c, closed |-> closed])
  /\ UNCHANGED sales

EditLeadWrite(r) ==
  /\ Resumes(r, "editLead")
  /\ LET l == req[r].lead
         c == req[r].customer
     IN lead' = IF RefersTo(customer, c)
                  THEN Put(lead, l, [lead[l] EXCEPT !.customer = IF c = 0 THEN @ ELSE c,
                                                    !.closedAt = @ \/ req[r].closed])
                  ELSE lead
  /\ Reply(r)
  /\ UNCHANGED <<customer, contact, deal, activity>>

\* updateStatus: any status after any other.
SetLeadStatus(r, l, status) ==
  /\ Arrives(r, "leadStatus")
  /\ Present(lead, l)
  /\ Awaits(r, [op |-> "leadStatus", lead |-> l, status |-> status])
  /\ UNCHANGED sales

SetLeadStatusWrite(r) ==
  /\ Resumes(r, "leadStatus")
  /\ LET l == req[r].lead IN
       lead' = Put(lead, l, [lead[l] EXCEPT !.status = req[r].status,
                                            !.closedAt = req[r].status \in TERMINAL_STATUSES])
  /\ Reply(r)
  /\ UNCHANGED <<customer, contact, deal, activity>>

\* Mutant: a lead that is already won is converted again.
ConvertAgain(r, l, e) ==
  /\ Arrives(r, "convert")
  /\ Present(lead, l) /\ lead[l].status # "LOST" /\ EmailFree(e)
  /\ Awaits(r, [op |-> "convert", lead |-> l, email |-> e])
  /\ UNCHANGED sales

\* convertToCustomer: a lead with a customer goes straight to the last write.
Convert(r, l, e) ==
  /\ Arrives(r, "convert")
  /\ Present(lead, l) /\ lead[l].status \notin TERMINAL_STATUSES
  /\ IF lead[l].customer = 0
       THEN EmailFree(e) /\ Awaits(r, [op |-> "convert", lead |-> l, email |-> e])
       ELSE Awaits(r, [op |-> "win", lead |-> l, customer |-> lead[l].customer])
  /\ UNCHANGED sales

\* The customer is one insert, which throws if the address was taken since ...
ConvertInsert(r) ==
  /\ Resumes(r, "convert")
  /\ LET l == req[r].lead
         e == req[r].email
     IN IF EmailFree(e)
         THEN \E c \in NextRow(customer, Customers) :
                /\ customer' = [customer EXCEPT ![c] = [row |-> "present", email |-> e, born |-> l]]
                /\ Awaits(r, [op |-> "win", lead |-> l, customer |-> c])
         ELSE Reply(r) /\ UNCHANGED customer
  /\ UNCHANGED <<lead, contact, deal, activity>>

\* ... and the lead another update, of a row that may be gone.
ConvertWin(r) ==
  /\ Resumes(r, "win")
  /\ LET l == req[r].lead
         c == req[r].customer
     IN lead' = IF RefersTo(customer, c)
                  THEN Put(lead, l, [lead[l] EXCEPT !.status = "WON", !.closedAt = TRUE,
                                                    !.customer = c])
                  ELSE lead
  /\ Reply(r)
  /\ UNCHANGED <<customer, contact, deal, activity>>

DeleteLead(r, l) ==
  /\ AtOnce(r, "deleteLead")
  /\ Present(lead, l)
  /\ lead' = [lead EXCEPT ![l].row = "gone"]
  /\ deal' = SetNull(deal, "lead", l)
  /\ activity' = SetNull(activity, "lead", l)
  /\ UNCHANGED <<customer, contact>>

-----------------------------------------------------------------------------
(* Customers *)

\* e: the address of some lead, or none.
CreateCustomer(r, e) ==
  /\ Arrives(r, "createCustomer")
  /\ EmailFree(e)
  /\ Awaits(r, [op |-> "createCustomer", email |-> e])
  /\ UNCHANGED sales

CreateCustomerWrite(r) ==
  /\ Resumes(r, "createCustomer")
  /\ \E c \in NextRow(customer, Customers) :
       customer' = IF EmailFree(req[r].email)
                     THEN [customer EXCEPT ![c] = [row |-> "present", email |-> req[r].email,
                                                   born |-> 0]]
                     ELSE customer
  /\ Reply(r)
  /\ UNCHANGED <<lead, contact, deal, activity>>

\* A deal must have a customer, so the delete throws; a contact goes too.
DeleteCustomer(r, c) ==
  /\ AtOnce(r, "deleteCustomer")
  /\ Present(customer, c)
  /\ \A d \in 1..Links : Present(deal, d) => deal[d].customer # c
  /\ LET K == {k \in 1..Links : Present(contact, k) /\ contact[k].customer = c} IN
       /\ contact' = [k \in 1..Links |-> IF k \in K THEN [contact[k] EXCEPT !.row = "gone"]
                                         ELSE contact[k]]
       /\ deal' = [d \in 1..Links |-> IF deal[d].contact \in K
                                        THEN [deal[d] EXCEPT !.contact = 0] ELSE deal[d]]
       /\ activity' = LET A == SetNull(activity, "customer", c) IN
            [a \in 1..Links |-> IF A[a].contact \in K THEN [A[a] EXCEPT !.contact = 0] ELSE A[a]]
  /\ customer' = [customer EXCEPT ![c].row = "gone"]
  /\ lead' = SetNull(lead, "customer", c)

-----------------------------------------------------------------------------
(* Contacts, deals and activities *)

CreateContact(r, c) ==
  /\ Arrives(r, "createContact")
  /\ Present(customer, c)
  /\ Awaits(r, [op |-> "createContact", customer |-> c])
  /\ UNCHANGED sales

CreateContactWrite(r) ==
  /\ Resumes(r, "createContact")
  /\ \E k \in NextRow(contact, Links) :
       contact' = IF Present(customer, req[r].customer)
                    THEN [contact EXCEPT ![k] = [row |-> "present", customer |-> req[r].customer]]
                    ELSE contact
  /\ Reply(r)
  /\ UNCHANGED <<lead, customer, deal, activity>>

DeleteContact(r, k) ==
  /\ AtOnce(r, "deleteContact")
  /\ Present(contact, k)
  /\ contact' = [contact EXCEPT ![k].row = "gone"]
  /\ deal' = SetNull(deal, "contact", k)
  /\ activity' = SetNull(activity, "contact", k)
  /\ UNCHANGED <<lead, customer>>

\* Neither the lead nor the contact need be the customer's.
CreateDeal(r, c, l, k) ==
  /\ Arrives(r, "createDeal")
  /\ Present(customer, c) /\ RefersTo(lead, l) /\ RefersTo(contact, k)
  /\ Awaits(r, [op |-> "createDeal", customer |-> c, lead |-> l, contact |-> k])
  /\ UNCHANGED sales

CreateDealWrite(r) ==
  /\ Resumes(r, "createDeal")
  /\ LET h == req[r] IN
       \E d \in NextRow(deal, Links) :
         deal' = IF Present(customer, h.customer) /\ RefersTo(lead, h.lead) /\ RefersTo(contact, h.contact)
                   THEN [deal EXCEPT ![d] = [row |-> "present", customer |-> h.customer,
                                             lead |-> h.lead, contact |-> h.contact]]
                   ELSE deal
  /\ Reply(r)
  /\ UNCHANGED <<lead, customer, contact, activity>>

DeleteDeal(r, d) ==
  /\ AtOnce(r, "deleteDeal")
  /\ Present(deal, d)
  /\ deal' = [deal EXCEPT ![d].row = "gone"]
  /\ activity' = SetNull(activity, "deal", d)
  /\ UNCHANGED <<lead, customer, contact>>

LogActivity(r, c, l, d) ==
  /\ Arrives(r, "logActivity")
  /\ RefersTo(customer, c) /\ RefersTo(lead, l) /\ RefersTo(deal, d)
  /\ Awaits(r, [op |-> "logActivity", customer |-> c, lead |-> l, deal |-> d])
  /\ UNCHANGED sales

LogActivityWrite(r) ==
  /\ Resumes(r, "logActivity")
  /\ LET h == req[r] IN
       \E a \in NextRow(activity, Links) :
         activity' = IF RefersTo(customer, h.customer) /\ RefersTo(lead, h.lead) /\ RefersTo(deal, h.deal)
                       THEN [activity EXCEPT ![a] = [row |-> "present", customer |-> h.customer,
                                                     lead |-> h.lead, deal |-> h.deal, contact |-> 0]]
                       ELSE activity
  /\ Reply(r)
  /\ UNCHANGED <<lead, customer, contact, deal>>

-----------------------------------------------------------------------------

SalesStarts(r) ==
  \/ \E c \in 0..Customers : CreateLead(r, c) \/ (c > 0 /\ (CreateContact(r, c) \/ DeleteCustomer(r, c)))
  \/ \E e \in 0..Leads : CreateCustomer(r, e)
  \/ \E l \in 1..Leads :
       \/ DeleteLead(r, l) \/ \E e \in {0, l} : Convert(r, l, e)
       \/ \E status \in LeadStatus : SetLeadStatus(r, l, status)
       \/ \E c \in 0..Customers, closed \in BOOLEAN : EditLead(r, l, c, closed)
  \/ \E k \in 1..Links : DeleteContact(r, k) \/ DeleteDeal(r, k)
  \/ \E c \in 0..Customers, l \in 0..Leads, k \in 0..Links :
       CreateDeal(r, c, l, k) \/ LogActivity(r, c, l, k)

SalesWrites(r) ==
  \/ CreateLeadWrite(r) \/ EditLeadWrite(r) \/ SetLeadStatusWrite(r)
  \/ ConvertInsert(r) \/ ConvertWin(r)
  \/ CreateCustomerWrite(r) \/ CreateContactWrite(r) \/ CreateDealWrite(r) \/ LogActivityWrite(r)

SalesNext == \E r \in Request : (MayStart(r) /\ SalesStarts(r)) \/ SalesWrites(r)

-----------------------------------------------------------------------------
(* Properties *)

SalesTypeOK ==
  /\ lead \in [1..Leads -> LeadRow]
  /\ customer \in [1..Customers -> CustomerRow]
  /\ contact \in [1..Links -> ContactRow]
  /\ deal \in [1..Links -> DealRow]
  /\ activity \in [1..Links -> ActivityRow]

\* However creating and deleting interleave, no row refers to one that is
\* gone, and a deal has its customer.
NothingDangles ==
  /\ \A l \in 1..Leads : Present(lead, l) => RefersTo(customer, lead[l].customer)
  /\ \A k \in 1..Links :
       /\ Present(contact, k) => Present(customer, contact[k].customer)
       /\ Present(deal, k) =>
            /\ Present(customer, deal[k].customer)
            /\ RefersTo(lead, deal[k].lead) /\ RefersTo(contact, deal[k].contact)
       /\ Present(activity, k) =>
            /\ RefersTo(customer, activity[k].customer) /\ RefersTo(lead, activity[k].lead)
            /\ RefersTo(deal, activity[k].deal) /\ RefersTo(contact, activity[k].contact)

\* A lead that is won or lost, by either way and in any interleaving, has the
\* date the pipeline report counts it by.
ClosedLeadIsDated ==
  \A l \in 1..Leads : Present(lead, l) /\ lead[l].status \in TERMINAL_STATUSES => lead[l].closedAt

\* A conversion never makes a second customer for a lead that has one, so
\* nobody is stored twice.  Holds when requests do not overlap: two that
\* convert one lead at once both make a customer, unless it has an address.
ConvertedOnce ==
  [][~workload.overlap =>
       \A c \in 1..Customers : customer[c].row = "absent" /\ customer'[c].born # 0
         => lead[customer'[c].born].customer = 0]_sales
=============================================================================
