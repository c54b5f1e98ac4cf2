----------------------------- MODULE MCOrderToCash -----------------------------
(* SalesEntry on an order of one goods line and one service line.  The      *)
(* rates make a line tax and its unit tax round, and the payment templates   *)
(* pay in advance, above the booked rate, and for two invoices.     *)
EXTENDS SalesEntry

MCLines == {"item", "service"}
MCGoods == {"item"}
MCOrdered == [l \in MCLines |-> IF l = "item" THEN 2 ELSE 1]
MCRate == [l \in MCLines |-> IF l = "item" THEN 4 ELSE 5]
MCTaxPercent == [l \in MCLines |-> IF l = "item" THEN 40 ELSE 0]
MCOwnTaxAccount == {"item"}
MCDeliveryTolerance == [l \in MCLines |-> IF l = "item" THEN 50 ELSE 0]
MCBillingTolerance == [l \in MCLines |-> 0]
MCCharges == {[value |-> 7, left |-> 4], [value |-> 0, left |-> 2]}

Part(pay, inv, base) ==
    [payment_amount |-> pay, invoice_amount |-> inv, base_amount |-> base]

MCPaymentRequests ==
    { [amount |-> 4, exchange |-> 2, allocations |-> <<>>],
      [amount |-> 6, exchange |-> 2, allocations |-> <<Part(5, 6, 5)>>],
      [amount |-> 8, exchange |-> 3, allocations |-> <<Part(4, 4, 5), Part(4, 2, 4)>>] }

\* Payments at another rate than the invoices they settle.
MCImportedPayments ==
    { [amount |-> 9, exchange |-> 2, asked |-> <<9>>],
      [amount |-> 3, exchange |-> 4, asked |-> <<1, 2>>] }
=============================================================================
