------------------------------ MODULE MCPreorders ------------------------------
(* Preorders with two suppliers and documents of one or two lines, some of   *)
(* them imported with lines that name others by number, in their own order   *)
(* or another one.                                                           *)
EXTENDS Preorders, TLC

CONSTANTS s1, s2

Ask(at, qty) == [at |-> at, qty |-> qty]

MCAsks == {<<Ask(1, 1)>>, <<Ask(1, 2)>>, <<Ask(1, 1), Ask(1, 1)>>, <<Ask(2, 1), Ask(1, 2)>>}
MCForms == {<<2, 1>>}
MCPayloads == {<<[base |-> 0, qty |-> 2]>>,
               <<[base |-> 2, qty |-> 1], [base |-> 1, qty |-> 3]>>}
MCMaxOfKind == [quotes |-> 1, salesOrders |-> 2, requests |-> 1, rfqs |-> 2,
                quotations |-> 2, purchaseOrders |-> 2]
Symmetry == Permutations(Suppliers)
=============================================================================
