----------------------------- MODULE MCProcureToPay -----------------------------
(* PurchaseEntry on an order of one goods line and one service line.  The     *)
(* unit cost of the goods rounds when it is posted, the receipts split into  *)
(* accepted and rejected goods, and the payment templates pay in part, in    *)
(* advance and above the booked rate.                                        *)
EXTENDS PurchaseEntry

MCLines == {"item", "service"}
MCGoods == {"item"}
MCNegativeStock == {"service"}
MCOrdered == [l \in MCLines |-> IF l = "item" THEN 2 ELSE 1]
MCRate == [l \in MCLines |-> IF l = "item" THEN 4 ELSE 6]
MCTaxPercent == [l \in MCLines |-> IF l = "item" THEN 40 ELSE 0]
MCTaxAccount == [l \in MCLines |-> "tax"]
MCReceiptTolerance == [l \in MCLines |-> IF l = "item" THEN 50 ELSE 0]
MCBillingTolerance == [l \in MCLines |-> 0]
MCReceiptParts ==
    {[accepted |-> 1, rejected |-> 0], [accepted |-> 1, rejected |-> 1]}

Part(pay, inv, base) ==
    [payment_amount |-> pay, invoice_amount |-> inv, base_amount |-> base]

MCPaymentRequests ==
    { [amount |-> 4, exchange |-> 2, allocations |-> <<>>],
      [amount |-> 3, exchange |-> 6, allocations |-> <<Part(2, 3, 6)>>],
      [amount |-> 5, exchange |-> 5, allocations |-> <<Part(3, 2, 8), Part(2, 1, 3)>>] }

\* A payment at another rate than the invoice it settles.
MCImportedPayments == { [amount |-> 9, exchange |-> 4, asked |-> <<9>>] }
=============================================================================
