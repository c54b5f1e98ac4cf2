----------------------------- MODULE MCInventory -----------------------------
(* Inventory on one moving-average bin, two FIFO bins (one of which allows   *)
(* negative stock) and one standard-cost bin; up to four events.             *)
EXTENDS Inventory

MCBins == {"avg", "fifo", "fneg", "std"}
MCMethod == [b \in MCBins |-> CASE b = "avg" -> "Moving Average"
                                [] b = "std" -> "Standard Cost"
                                [] OTHER -> "FIFO"]
MCStandardCost == [b \in MCBins |-> 2]
MCAllowNegative == {"fneg"}

In(b, q, c)  == [bin |-> b, qty |-> q, cost |-> c, extra |-> 0, forced |-> None]
Out(b, q)    == [bin |-> b, qty |-> -q, cost |-> None, extra |-> 0, forced |-> None]
Back(b, q, c) == [bin |-> b, qty |-> -q, cost |-> None, extra |-> 0, forced |-> c]

\* Receipts at two costs, issues of part and all, a landed cost, a purchase
\* return at a forced cost, and events of two lines (one bin, two bins).
MCLineLists ==
    { <<In("avg", 2, 3)>>, <<In("avg", 1, 1)>>, <<Out("avg", 1)>>, <<Out("avg", 3)>>,
      <<[In("avg", 1, 1) EXCEPT !.extra = 1]>>,
      <<In("fifo", 1, 1)>>, <<In("fifo", 2, 3)>>, <<Out("fifo", 2)>>, <<Back("fifo", 1, 3)>>,
      <<In("fneg", 2, 1)>>, <<Out("fneg", 1)>>,
      <<In("std", 2, 3)>>, <<Out("std", 1)>>,
      <<Out("avg", 2), In("fifo", 2, 1)>>, <<Out("fifo", 1), Out("fifo", 1)>> }
=============================================================================
