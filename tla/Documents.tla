----------------------------- MODULE Documents -----------------------------
(***************************************************************************)
(* The PDF of an invoice: getPdf and streamPdf of invoices.service.ts, and *)
(* the store (Cloudinary) that keeps the file.  The row notes that there   *)
(* is a file, in a query after the upload; the store may refuse an upload, *)
(* fail to deliver, or lose what it has.  An upload takes the place of the *)
(* file of the same invoice, for the name of the file is the invoice's.    *)
(*                                                                         *)
(* The links, which are signed anew for every answer, are left out, and of *)
(* what is printed all but the total and the payment summary.              *)
(***************************************************************************)
EXTENDS Panels

VARIABLE document   \* of each invoice: the note on the row, and the stored file

\* noted: pdfGeneratedAt is set.  lost: the file is missing from the store through
\* no doing of these handlers.
DocumentRow ==
  [noted : BOOLEAN, lost : BOOLEAN,
   file : {<<>>} \union
          {<<[total |-> total, summary |-> summary]>> :
             total \in 0..Total, summary \in {"PAID", "PARTIALLY_PAID", "UNPAID"}}]

DocumentInit == document = [i \in 1..Invoices |-> [noted |-> FALSE, lost |-> FALSE, file |-> <<>>]]

\* generateInvoicePdfBuffer: an invoice for no booking owes nothing.
generateInvoicePdfBuffer(i) ==
  [total |-> invoice[i].total,
   summary |-> IF JobExists(invoice[i].job)
                 THEN computeBookingPaymentSummary(invoice[i].job).paymentStatus ELSE "UNPAID"]

Stored(i) == document[i].file # <<>>

SetDocument(i, row) == document' = [document EXCEPT ![i] = row]

\* getPdf: the link to a file that is noted, or else the file is made.  stream:
\* the bytes are fetched for the caller; again: for the second time.
Proceeds(r, i, stream, again) ==
  IF document[i].noted
    THEN IF stream THEN Awaits(r, [op |-> "fetch", invoice |-> i, again |-> again]) ELSE UNCHANGED req
    ELSE Awaits(r, [op |-> "upload", invoice |-> i, stream |-> stream, again |-> again])

\* A customer gets his own invoices only.
GetPdf(r, u, i, stream) ==
  /\ Arrives(r, "getPdf")
  /\ Exists(u) /\ InvoiceExists(i)
  /\ person[u].role = "USER" => invoice[i].customer = u
  /\ Proceeds(r, i, stream, FALSE)
  /\ UNCHANGED document

\* The invoice is read, printed and uploaded; the store may refuse.
Upload(r) ==
  /\ Resumes(r, "upload")
  /\ LET i == req[r].invoice IN
       \/ /\ SetDocument(i, [document[i] EXCEPT !.file = <<generateInvoicePdfBuffer(i)>>, !.lost = FALSE])
          /\ Awaits(r, [req[r] EXCEPT !.op = "note"])
       \/ Reply(r) /\ UNCHANGED document

NoteFile(r) ==
  /\ Resumes(r, "note")
  /\ LET i == req[r].invoice IN
       /\ SetDocument(i, [document[i] EXCEPT !.noted = TRUE])
       /\ IF req[r].stream THEN Awaits(r, [op |-> "fetch", invoice |-> i, again |-> req[r].again])
          ELSE Reply(r)

\* tryFetchPdfBytes: nothing when there is no file, or the store does not answer.
\* The first time that unsets the note, and the file is made again.
FetchFile(r) ==
  /\ Resumes(r, "fetch")
  /\ \/ Stored(req[r].invoice) /\ Reply(r)
     \/ req[r].again /\ Reply(r)
     \/ ~req[r].again /\ Awaits(r, [op |-> "forget", invoice |-> req[r].invoice])
  /\ UNCHANGED document

ForgetFile(r) ==
  /\ Resumes(r, "forget")
  /\ LET i == req[r].invoice IN
       /\ SetDocument(i, [document[i] EXCEPT !.noted = FALSE])
       /\ Awaits(r, [op |-> "again", invoice |-> i])

GetPdfAgain(r) ==
  /\ Resumes(r, "again")
  /\ Proceeds(r, req[r].invoice, TRUE, TRUE)
  /\ UNCHANGED document

\* updatePdfMetadata: the office notes a file that it keeps elsewhere.
UpdatePdfMetadata(r, i) ==
  /\ AtOnce(r, "noteElsewhere")
  /\ InvoiceExists(i)
  /\ SetDocument(i, [document[i] EXCEPT !.noted = TRUE, !.lost = @ \/ ~Stored(i)])

\* The store loses a file.
Loses(r, i) ==
  /\ AtOnce(r, "lose")
  /\ Stored(i)
  /\ SetDocument(i, [document[i] EXCEPT !.file = <<>>, !.lost = TRUE])

DocumentNext ==
  \E r \in Request :
    \/ MayStart(r) /\ \E i \in 1..Invoices :
         \/ \E u \in workload.people, stream \in BOOLEAN : GetPdf(r, u, i, stream)
         \/ UpdatePdfMetadata(r, i) \/ Loses(r, i)
    \/ Upload(r) \/ NoteFile(r) \/ FetchFile(r) \/ ForgetFile(r) \/ GetPdfAgain(r)

-----------------------------------------------------------------------------
(* Properties *)

DocumentTypeOK == document \in [1..Invoices -> DocumentRow]

\* An invoice whose row says that its PDF was made has one, unless the store lost
\* it or the office keeps it elsewhere: two downloads at once, an upload that is
\* refused, and a crash after the upload or after the note was taken back leave
\* at worst a file that is made once more.
NotedIsStored == \A i \in 1..Invoices : document[i].noted => Stored(i) \/ document[i].lost
=============================================================================
