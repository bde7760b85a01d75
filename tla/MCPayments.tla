---------------------------- MODULE MCPayments ----------------------------
(* Small instances of Payments for TLC. *)
EXTENDS Payments, TLC

CONSTANTS p1, p2, r1, r2

OnePayment == {p1}
TwoPayments == {p1, p2}
OneRequest == {r1}
TwoRequests == {r1, r2}

\* Everything that happens to one order.
OrderOps == {"order", "verify", "refund", "webhook"}

\* The app and the office, with the invoice's total settled.
OfficeOps == (ClientOps \ {"resize"}) \union {"webhook"}

Mix(ops, overlap, faults, payments, types) ==
  [ops |-> ops, overlap |-> overlap, failures |-> faults, payments |-> payments,
   types |-> types]

\* One order under two handlers or deliveries at once; the same with a failure,
\* without deliveries; deliveries with a failure, one at a time; two payments of
\* one invoice, one request at a time; and the same with orders of both types and
\* changes of the total, without deliveries.
Mixes ==
  {Mix(OrderOps, TRUE, 0, 1, {"FULL"}),
   Mix(OrderOps \ {"webhook"}, TRUE, 1, 1, {"FULL"}),
   Mix(OrderOps, FALSE, 1, 1, {"FULL"}),
   Mix(OfficeOps, FALSE, 0, 2, {"FULL"}),
   Mix({"order", "verify", "refund", "offline", "markPaid", "resize"}, FALSE, 0, 2,
       PaymentType)}

\* One order and two failures; and one order, changes of the payment type, and a
\* failure.
OnlineMix == {Mix(OrderOps, FALSE, 2, 1, {"FULL"}), Mix(OrderOps \union {"resize"}, FALSE, 1, 1,
                    PaymentType)}

Symmetry == Permutations(Payment) \union Permutations(Request)
=============================================================================
