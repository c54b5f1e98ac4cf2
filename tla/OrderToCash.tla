------------------------------ MODULE OrderToCash ------------------------------
(***************************************************************************)
(* One sales order from draft to settled invoices: SalesService of         *)
(* src/fasterp/sales.py over sales_orders, sales_deliveries, invoices,     *)
(* payments and the ledgers it posts to.                                   *)
(*                                                                         *)
(* A handler is one database transaction that locks the document it works  *)
(* on, so here it is one atomic step; a handler that raises rolls back and *)
(* is no step.  Quantities are whole units, money is an integer in units   *)
(* of 1/Scale (Decimal quantized to MONEY), and so are exchange rates;     *)
(* costs of stock are in units of 1/(Scale * Fine) (six decimals).         *)
(* The posting and valuation kernels have modules of their own: here a     *)
(* voucher is refused when it does not balance, and an issue takes         *)
(* whatever value off the stock the valuation may come to.                 *)
(***************************************************************************)
EXTENDS Money

CONSTANTS
    Lines,              \* lines of the order
    Goods,              \* lines whose item is an inventory item
    Ordered,            \* Ordered[l]: ordered quantity
    Rate,               \* Rate[l]: unit price
    TaxPercent,         \* TaxPercent[l]: rate of the line's tax code
    OwnTaxAccount,      \* lines whose tax code names a sales account
    DeliveryTolerance,  \* DeliveryTolerance[l], in percent
    BillingTolerance,   \* BillingTolerance[l], in percent
    Exchange,           \* the order's exchange rate
    Quantities,         \* quantities callers ask for
    RequestLines,       \* bound on the lines of a request
    Charges,            \* [value, left]: what an issue takes off the stock, and the average left
    PaymentRequests,    \* payments callers enter, their invoices still to be chosen
    Scale,              \* units of money per whole (10^4 in the code)
    Fine,               \* units of cost per unit of money (10^2 in the code)
    MaxDocuments,       \* bound on goods lines, invoices, credit notes and payments
    None                \* SQL NULL

ASSUME OrderAssumption ==
    /\ IsFiniteSet(Lines) /\ Lines # {} /\ Goods \subseteq Lines /\ OwnTaxAccount \subseteq Lines
    /\ Ordered \in [Lines -> Nat \ {0}]
    /\ {Rate, TaxPercent, DeliveryTolerance, BillingTolerance} \subseteq [Lines -> Nat]
    /\ {Exchange, Scale, Fine, RequestLines} \subseteq Nat \ {0}
    /\ Quantities \subseteq Nat \ {0}
    /\ Charges \subseteq [value : Nat, left : Nat]
    /\ PaymentRequests \subseteq
          [amount : Nat, exchange : Nat,
           allocations : Seq([payment_amount : Int, invoice_amount : Int, base_amount : Int])]
    /\ None \notin Nat \cup [value : Nat, left : Nat]

VARIABLES
    order,     \* the order's document state and status
    line,      \* line[l]: delivered, returned and invoiced quantity
    goods,     \* lines of the posted deliveries and returns, oldest first
    invoices,  \* posted invoices and credit notes, oldest first
    payments,  \* posted customer payments
    gl,        \* balance per account, debit positive, base currency
    party      \* the customer's balance in the party ledger, base currency

vars == <<order, line, goods, invoices, payments, gl, party>>

-----------------------------------------------------------------------------
Base(x) == HalfEven(x * Exchange, Scale)

\* An amount of cost as it is posted: six decimals rounded to four.
Booked(x) == HalfEven(x, Fine)

Maximum(l, tolerance) == HalfEven(Ordered[l] * (100 + tolerance[l]), 100)

\* The order status that the line counters imply.
StatusOf(ls) ==
    LET sum(f) == SumFunction([l \in Lines |-> ls[l][f]])
        net == sum("delivered") - sum("returned")
        ordered == SumFunction(Ordered)
    IN  CASE sum("invoiced") >= ordered                       -> "Invoiced"
          [] sum("invoiced") < ordered /\ sum("invoiced") > 0 -> "Partly Invoiced"
          [] sum("invoiced") <= 0 /\ net >= ordered           -> "Delivered"
          [] sum("invoiced") <= 0 /\ net < ordered /\ net > 0 -> "Partly Delivered"
          [] OTHER                                            -> "Confirmed"

Refreshed == order' = [order EXCEPT !.status = StatusOf(line')]

Documents == Len(goods) + Len(invoices) + Len(payments)
Room == Documents < MaxDocuments

-----------------------------------------------------------------------------
Draft == [state |-> "Draft", status |-> "Draft"]
Confirmed == [state |-> "Posted", status |-> "Confirmed"]

PostOrder ==
    /\ order.state \in {"Draft", "Approved"}
    /\ order' = Confirmed
    /\ UNCHANGED <<line, goods, invoices, payments, gl, party>>

\* Each request line is checked after the lines before it were applied.
\* Mutant: every line is checked against the counters read first.
DeliveryAllowed_StaleRead(request) ==
    \A i \in DOMAIN request :
        line[request[i].at].delivered + request[i].qty - line[request[i].at].returned
            <= Maximum(request[i].at, DeliveryTolerance)
DeliveryAllowed(request) ==
    \A l \in {request[i].at : i \in DOMAIN request} :
        line[l].delivered + Asked(request, l) - line[l].returned
            <= Maximum(l, DeliveryTolerance)

\* What the issue of the goods among the lines is charged, rounded once.
Cost(request, charge) ==
    Booked(SeqSum([i \in DOMAIN request |->
                       IF request[i].at \in Goods THEN charge[i].value ELSE 0]))

HasGoods(request) == \E i \in DOMAIN request : request[i].at \in Goods

DeliverLines(request) ==
    /\ order.state = "Posted"
    /\ order.status \notin {"Closed", "Cancelled", "On Hold"}
    /\ Documents + Len(request) <= MaxDocuments
    /\ DeliveryAllowed(request)
    /\ \E charge \in [DOMAIN request -> Charges] :
          /\ HasGoods(request) => Cost(request, charge) > 0
          /\ goods' = goods \o [i \in DOMAIN request |->
                 [doc |-> Len(goods) + 1, kind |-> "Delivery", line |-> request[i].at,
                  qty |-> request[i].qty, returned |-> 0, billed |-> 0,
                  charge |-> IF request[i].at \in Goods THEN charge[i] ELSE None]]
          /\ gl' = [gl EXCEPT !.cogs = @ + Cost(request, charge),
                              !.inventory = @ - Cost(request, charge)]
    /\ line' = [l \in Lines |-> [line[l] EXCEPT !.delivered = @ + Asked(request, l)]]
    /\ Refreshed
    /\ UNCHANGED <<invoices, payments, party>>

\* A caller delivers lines of the order: an imported delivery names any of them.
Deliver ==
    Room /\ \E request \in Requests([at : Lines, qty : Quantities], RequestLines) :
                DeliverLines(request)

-----------------------------------------------------------------------------
\* `outgoing_rate or valuation_rate`.  Mutant: always the average.
ReturnCost_Average(g) == g.charge.left
ReturnCost(g) ==
    LET outgoing == HalfEven(g.charge.value, g.qty)
    IN  IF outgoing # 0 THEN outgoing ELSE g.charge.left

\* A return line names a line of the delivery that still has the quantity; the
\* ledger of a line that is no inventory item has no cost to receive it at.
ReturnAllowed(request) ==
    \A i \in DOMAIN request :
        LET g == goods[request[i].at]
        IN  /\ g.kind = "Delivery" /\ g.doc = goods[request[1].at].doc
            /\ g.charge # None
            /\ g.returned + Asked(request, request[i].at) <= g.qty

ReturnValue(request) ==
    Booked(SumWhere(request, Always, LAMBDA x : x.qty * ReturnCost(goods[x.at])))

\* The quantity a return brings back to an order line.
Brought(request, l) ==
    SumWhere(request, LAMBDA x : goods[x.at].line = l, LAMBDA x : x.qty)

\* Mutant: the order line is not told.
LineReturned_Forgotten(ls, l, qty) == ls[l]
LineReturned(ls, l, qty) == [ls[l] EXCEPT !.returned = @ + qty]

ReturnLines(request) ==
    /\ Documents + Len(request) <= MaxDocuments
    /\ ReturnAllowed(request)
    /\ ReturnValue(request) > 0
    /\ goods' = [k \in DOMAIN goods |->
                     [goods[k] EXCEPT !.returned = @ + Asked(request, k)]]
                \o [i \in DOMAIN request |->
                      [doc |-> Len(goods) + 1, kind |-> "Return",
                       line |-> goods[request[i].at].line, qty |-> request[i].qty,
                       returned |-> 0, billed |-> 0, charge |-> None]]
    /\ line' = [l \in Lines |-> LineReturned(line, l, Brought(request, l))]
    /\ gl' = [gl EXCEPT !.inventory = @ + ReturnValue(request),
                        !.cogs = @ - ReturnValue(request)]
    /\ Refreshed
    /\ UNCHANGED <<invoices, payments, party>>

\* A caller returns lines of one delivery: so far only the import does.
ReturnDelivery ==
    Room /\ \E request \in Requests([at : DOMAIN goods, qty : Quantities], RequestLines) :
                ReturnLines(request)

-----------------------------------------------------------------------------
\* The voucher of invoice lines: net, tax and total in base currency.
BaseNet(ls) == Base(Total(ls, "net"))
BaseTotal(ls) == Base(Total(ls, "net") + Total(ls, "tax"))
OwnTax(x) == x.tax # 0 /\ x.line \in OwnTaxAccount
BaseTax(ls) ==
    IF Base(Total(ls, "tax")) = 0 \/ ~ \E i \in DOMAIN ls : OwnTax(ls[i])
    THEN Base(Total(ls, "tax"))
    ELSE SumWhere(ls, OwnTax, LAMBDA x : Base(x.tax))

\* post_voucher takes the voucher: each line has an amount, and it balances.
Posts(ls) ==
    /\ BaseNet(ls) > 0
    /\ Base(Total(ls, "tax")) > 0 => BaseTax(ls) > 0
    /\ BaseTotal(ls) = BaseNet(ls) + BaseTax(ls)

NewDocument(type, against, ls, outstanding, paid, status) ==
    [type |-> type, against |-> against, total |-> Total(ls, "net") + Total(ls, "tax"),
     outstanding |-> outstanding, paid |-> paid, status |-> status, lines |-> ls]

\* The checks of all lines are made before any line is applied.
\* Mutant: what was billed of the order line before does not count.
InvoiceAllowed_Alone(request) ==
    \A i \in DOMAIN request :
        /\ request[i].qty <= Maximum(request[i].at, BillingTolerance)
        /\ request[i].from # None =>
               LET g == goods[request[i].from]
               IN  g.line = request[i].at /\ g.billed + request[i].qty <= g.qty
InvoiceAllowed(request) ==
    \A i \in DOMAIN request :
        /\ line[request[i].at].invoiced + request[i].qty
               <= Maximum(request[i].at, BillingTolerance)
        /\ request[i].from # None =>
               LET g == goods[request[i].from]
               IN  g.line = request[i].at /\ g.billed + request[i].qty <= g.qty

InvoiceLine(l, from, qty) ==
    [line |-> l, from |-> from, qty |-> qty, net |-> qty * Rate[l],
     tax |-> HalfEven(qty * Rate[l] * TaxPercent[l], 100), credited |-> 0]

\* The quantity drawn from a delivery line is marked billed.
Billed(g, qty) == [g EXCEPT !.billed = @ + qty]

InvoiceLines(request) ==
    /\ order.state = "Posted"
    /\ InvoiceAllowed(request)
    /\ LET ls == [i \in DOMAIN request |->
                    InvoiceLine(request[i].at, request[i].from, request[i].qty)]
           drawn(k) == SumWhere(request, LAMBDA x : x.from = k, LAMBDA x : x.qty)
           new == NewDocument("Invoice", None, ls,
                              Total(ls, "net") + Total(ls, "tax"), 0, "Unpaid")
       IN  /\ Posts(ls)
           /\ invoices' = Append(invoices, new)
           /\ goods' = [k \in DOMAIN goods |-> Billed(goods[k], drawn(k))]
           /\ gl' = [gl EXCEPT !.ar = @ + BaseTotal(ls), !.sales = @ - BaseNet(ls),
                               !.tax = @ - BaseTax(ls)]
           /\ party' = party + BaseTotal(ls)
    /\ line' = [l \in Lines |-> [line[l] EXCEPT !.invoiced = @ + Asked(request, l)]]
    /\ Refreshed
    /\ UNCHANGED payments

Invoice ==
    Room /\ \E request \in Requests([at : Lines, qty : Quantities,
                                     from : {None} \cup DOMAIN goods], RequestLines) :
                InvoiceLines(request)

-----------------------------------------------------------------------------
\* An invoice after part of it was settled.  Mutant: settled once is Paid.
Settled_AlwaysPaid(doc, x) ==
    [doc EXCEPT !.outstanding = @ - x, !.paid = doc.total - (doc.outstanding - x),
                !.status = "Paid"]
Settled(doc, x) ==
    [doc EXCEPT !.outstanding = @ - x, !.paid = doc.total - (doc.outstanding - x),
                !.status = IF doc.outstanding = x THEN "Paid" ELSE "Partly Paid"]

\* A payment allocates to posted invoices of the customer (a credit note has no
\* 'Sales Invoice' entry in the party ledger), each once, at most what is open.
\* Mutant: the whole of an invoice may be allocated again.
Allocatable_Total(p, target) ==
    /\ IsInjective(target)
    /\ \A i \in DOMAIN target :
          /\ invoices[target[i]].type = "Invoice"
          /\ p.allocations[i].invoice_amount <= invoices[target[i]].total
Allocatable(p, target) ==
    /\ IsInjective(target)
    /\ \A i \in DOMAIN target :
          /\ invoices[target[i]].type = "Invoice"
          /\ p.allocations[i].invoice_amount <= invoices[target[i]].outstanding

PaymentAccepted(p) ==
    /\ p.amount > 0 /\ p.exchange > 0
    /\ Total(p.allocations, "payment_amount") <= p.amount
    /\ \A i \in DOMAIN p.allocations :
          /\ p.allocations[i].payment_amount > 0
          /\ p.allocations[i].invoice_amount > 0
          /\ p.allocations[i].base_amount > 0

PaymentBase(p) == HalfEven(p.amount * p.exchange, Scale)

\* What the allocated parts of the invoices were booked at.
OriginalBase(p) ==
    SumWhere(p.allocations, Always, LAMBDA a : Base(a.invoice_amount))
GainLoss(p) == Total(p.allocations, "base_amount") - OriginalBase(p)

\* Mutant: the receivable is credited at the payment's rate.
ArCredit_PaymentRate(p) == PaymentBase(p)
ArCredit(p) == OriginalBase(p) + (PaymentBase(p) - Total(p.allocations, "base_amount"))

\* Payment p is received, its i-th allocation settling invoice target[i].
Receive(p, target) ==
    /\ PaymentAccepted(p)
    /\ PaymentBase(p) > 0 /\ ArCredit(p) > 0
    /\ Allocatable(p, target)
    /\ invoices' = [k \in DOMAIN invoices |->
           IF \E i \in DOMAIN target : target[i] = k
           THEN Settled(invoices[k], p.allocations[
                    CHOOSE i \in DOMAIN target : target[i] = k].invoice_amount)
           ELSE invoices[k]]
    /\ payments' = Append(payments,
           [base |-> PaymentBase(p),
            allocations |-> [i \in DOMAIN target |->
                [invoice |-> target[i],
                 invoice_amount |-> p.allocations[i].invoice_amount,
                 base_amount |-> p.allocations[i].base_amount]]])
    /\ gl' = [gl EXCEPT !.bank = @ + PaymentBase(p), !.ar = @ - ArCredit(p),
                        !.fx = @ - GainLoss(p)]
    /\ party' = party - PaymentBase(p)
    /\ UNCHANGED <<order, line, goods>>

ReceivePayment ==
    Room /\ \E p \in PaymentRequests :
                \E target \in [DOMAIN p.allocations -> DOMAIN invoices] : Receive(p, target)

-----------------------------------------------------------------------------
\* The lines left to credit: checked by the handler line by line, and by the
\* CHECK on credited_qty for a line named twice.  Mutant: without the CHECK.
CreditAllowed_NoCheck(doc, request) ==
    \A i \in DOMAIN request :
        doc.lines[request[i].at].credited + request[i].qty <= doc.lines[request[i].at].qty
CreditAllowed(doc, request) ==
    \A i \in DOMAIN request :
        doc.lines[request[i].at].credited + Asked(request, request[i].at)
            <= doc.lines[request[i].at].qty

CreditLine(source, qty) ==
    [source EXCEPT !.qty = qty, !.net = HalfEven(source.net, source.qty) * qty,
                   !.tax = HalfEven(source.tax, source.qty) * qty, !.credited = 0]

\* The credit settles what the invoice has open, no more.
Allocation(total, outstanding) == Smaller(total, outstanding)

Credited(doc, request) ==
    [doc EXCEPT !.lines = [j \in DOMAIN doc.lines |->
        [doc.lines[j] EXCEPT !.credited = @ + Asked(request, j)]]]

LineCredited(l, qty) ==
    [line[l] EXCEPT !.invoiced = IF @ > qty THEN @ - qty ELSE 0]

CreditInvoice(k, request) ==
    LET doc == invoices[k]
        ls == [i \in DOMAIN request |-> CreditLine(doc.lines[request[i].at], request[i].qty)]
        total == Total(ls, "net") + Total(ls, "tax")
        settle == Allocation(total, doc.outstanding)
        note == NewDocument("Credit Note", k, ls, total, 0, "Unpaid")
        back(l) == SumWhere(ls, LAMBDA x : x.line = l, LAMBDA x : x.qty)
    IN  /\ doc.type = "Invoice"
        /\ CreditAllowed(doc, request)
        /\ Posts(ls)
        /\ invoices' = IF settle > 0
                       THEN Append([invoices EXCEPT ![k] = Settled(Credited(doc, request), settle)],
                                   Settled(note, settle))
                       ELSE Append([invoices EXCEPT ![k] = Credited(doc, request)], note)
        /\ line' = [l \in Lines |-> LineCredited(l, back(l))]
        /\ gl' = [gl EXCEPT !.ar = @ - BaseTotal(ls), !.sales = @ + BaseNet(ls),
                            !.tax = @ + BaseTax(ls)]
        /\ party' = party - BaseTotal(ls)
        /\ Refreshed
        /\ UNCHANGED <<goods, payments>>

\* A caller credits lines of one invoice: so far only the import does.
IssueCreditNote ==
    Room /\ \E k \in DOMAIN invoices :
                \E request \in Requests([at : DOMAIN invoices[k].lines, qty : Quantities],
                                         RequestLines) :
                    CreditInvoice(k, request)

-----------------------------------------------------------------------------
Accounts == {"ar", "sales", "tax", "bank", "fx", "cogs", "inventory"}

\* create_order: the lines are fixed by the constants, nothing has happened yet.
NothingDone ==
    /\ line = [l \in Lines |-> [delivered |-> 0, returned |-> 0, invoiced |-> 0]]
    /\ goods = <<>> /\ invoices = <<>> /\ payments = <<>>
    /\ gl = [a \in Accounts |-> 0]
    /\ party = 0

Init == order = Draft /\ NothingDone

Next ==
    \/ PostOrder
    \/ Deliver
    \/ ReturnDelivery
    \/ Invoice
    \/ ReceivePayment
    \/ IssueCreditNote

Spec == Init /\ [][Next]_vars

-----------------------------------------------------------------------------
(* Every document the handlers write is one the tables admit: known kinds   *)
(* and states, amounts that are not negative, links to earlier documents,   *)
(* a return or a credit never above the quantity of its line.               *)
TypeOK ==
    /\ order.state \in {"Draft", "Posted"}
    /\ order.status \in {"Draft", "Confirmed", "Partly Delivered", "Delivered",
                         "Partly Invoiced", "Invoiced"}
    /\ line \in [Lines -> [delivered : Nat, returned : Nat, invoiced : Nat]]
    /\ \A k \in DOMAIN goods : LET g == goods[k] IN
          /\ g.doc \in 1..k /\ g.kind \in {"Delivery", "Return"} /\ g.line \in Lines
          /\ g.qty \in Nat \ {0} /\ g.returned \in 0..g.qty /\ g.billed \in Nat
          /\ (g.charge = None) = (g.line \notin Goods \/ g.kind = "Return")
    /\ \A k \in DOMAIN invoices : LET d == invoices[k] IN
          /\ IF d.type = "Invoice" THEN d.against = None
             ELSE d.type = "Credit Note" /\ d.against \in 1..(k - 1)
          /\ {d.total, d.outstanding, d.paid} \subseteq Nat
          /\ \A j \in DOMAIN d.lines :
                /\ d.lines[j].qty \in Nat \ {0} /\ d.lines[j].credited \in 0..d.lines[j].qty
                /\ d.lines[j].from \in {None} \cup DOMAIN goods
    /\ gl \in [Accounts -> Int] /\ party \in Int

\* Sums over the documents: goods lines, invoice lines and allocations.
GoodsSum(P(_), f(_)) == SumWhere(goods, P, f)
DocumentSum(P(_), f(_)) == SumWhere(invoices, P, f)
LineSum(d, P(_), f(_)) == SumWhere(d.lines, P, f)
AllocationSum(p, P(_), f(_)) == SumWhere(p.allocations, P, f)

IsInvoice(d) == d.type = "Invoice"

(* Four counters kept in place agree with the documents they summarise:     *)
(* delivered and returned quantities of an order line with its delivery and *)
(* return lines, invoiced quantity with its invoice lines less what was     *)
(* credited (so the GREATEST(..., 0) of the credit note never bites), and   *)
(* the billed quantity of a goods line with the invoice lines drawn from it.*)
CountersAreDocuments ==
    /\ \A l \in Lines :
          /\ line[l].delivered =
                GoodsSum(LAMBDA g : g.line = l /\ g.kind = "Delivery", LAMBDA g : g.qty)
          /\ line[l].returned =
                GoodsSum(LAMBDA g : g.line = l /\ g.kind = "Return", LAMBDA g : g.qty)
          /\ line[l].returned = GoodsSum(LAMBDA g : g.line = l, LAMBDA g : g.returned)
          /\ line[l].invoiced =
                DocumentSum(IsInvoice, LAMBDA d :
                    LineSum(d, LAMBDA x : x.line = l, LAMBDA x : x.qty - x.credited))
    /\ \A k \in DOMAIN goods :
          goods[k].billed =
              DocumentSum(IsInvoice, LAMBDA d :
                  LineSum(d, LAMBDA x : x.from = k, LAMBDA x : x.qty))

(* What the customer holds of a line, over any sequence of deliveries and   *)
(* returns, is never negative and never above the ordered quantity plus the *)
(* delivery tolerance, also when one request names the line twice.          *)
NetDeliveryWithinOrder ==
    \A l \in Lines : line[l].delivered - line[l].returned
                         \in 0..Maximum(l, DeliveryTolerance)

(* The open amount of an invoice is its total less every payment allocation *)
(* and every credit settled against it, that of a credit note its total     *)
(* less what it settled; paid and status say the same.                      *)
OutstandingIsUnsettled ==
    \A k \in DOMAIN invoices :
        LET d == invoices[k]
            received == SumWhere(payments, Always, LAMBDA p :
                AllocationSum(p, LAMBDA a : a.invoice = k, LAMBDA a : a.invoice_amount))
            settled == DocumentSum(LAMBDA c : c.against = k, LAMBDA c : c.paid)
        IN  /\ IsInvoice(d) => d.outstanding = d.total - received - settled
            /\ d.outstanding >= 0 /\ d.paid = d.total - d.outstanding
            /\ d.status = CASE d.outstanding = d.total -> "Unpaid"
                             [] d.outstanding = 0       -> "Paid"
                             [] OTHER                   -> "Partly Paid"

(* The receivable account is worth the open invoices less the open credit   *)
(* notes and the money received but not allocated, up to the rounding of    *)
(* the documents and allocations booked: half a unit for each.  It differs  *)
(* from the customer's party ledger by exactly the exchange gains and       *)
(* losses realised: the ledger is credited with the payment, the account    *)
(* with what the invoice was booked at.                                     *)
ReceivableIsOutstanding ==
    LET open == DocumentSum(IsInvoice, LAMBDA d : d.outstanding)
                  - DocumentSum(LAMBDA d : ~IsInvoice(d), LAMBDA d : d.outstanding)
        advance == SumWhere(payments, Always, LAMBDA p :
                       p.base - Total(p.allocations, "base_amount"))
        roundings == Len(invoices) + SumWhere(payments, Always, LAMBDA p : Len(p.allocations))
        gap == Scale * (gl.ar + advance) - Exchange * open
    IN  /\ 2 * gap <= Scale * roundings /\ 2 * gap >= -(Scale * roundings)
        /\ party = gl.ar + gl.fx

(* The cost of sales is what the issues took off the stock, less the        *)
(* returned units at the rate of their own issue, or at the average where   *)
(* that rate was zero; up to half a unit for each delivery and return, whose*)
(* cost is rounded as it is posted.  The inventory account mirrors it.      *)
CostFollowsGoods ==
    LET owed == GoodsSum(LAMBDA g : g.charge # None, LAMBDA g : g.charge.value -
                    g.returned * (IF HalfEven(g.charge.value, g.qty) = 0 THEN g.charge.left
                                  ELSE HalfEven(g.charge.value, g.qty)))
        roundings == Cardinality({goods[k].doc : k \in {j \in DOMAIN goods :
                                                           goods[j].line \in Goods}})
        gap == 2 * (Fine * gl.cogs - owed)
    IN  /\ gap <= Fine * roundings /\ gap >= -(Fine * roundings)
        /\ gl.inventory = -gl.cogs

(* The credit notes of an invoice never take back more than it charged, but *)
(* for the rounding of the unit tax: half a unit for each credited unit.    *)
CreditsStayWithinInvoice ==
    \A k \in DOMAIN invoices :
        IsInvoice(invoices[k]) =>
            2 * (DocumentSum(LAMBDA c : c.against = k, LAMBDA c : c.total) - invoices[k].total)
                <= LineSum(invoices[k], Always, LAMBDA x : x.credited)

\* An invoice names lines of which P holds, and all but one of them bill this much.
BilledAtOnce(P(_), excess) ==
    \E k \in DOMAIN invoices :
        /\ IsInvoice(invoices[k])
        /\ \E j \in DOMAIN invoices[k].lines :
              /\ P(invoices[k].lines[j])
              /\ excess <= LineSum(invoices[k], P, LAMBDA x : x.qty) - invoices[k].lines[j].qty

(* Billing above an order line's tolerance, or above a delivery line's      *)
(* quantity, is the doing of one invoice that names the line several times: *)
(* with one of its lines alone the limit is kept.  No sequence of invoices, *)
(* credit notes, deliveries and returns gets there in smaller steps.        *)
OverbillingIsOneInvoice ==
    /\ \A l \in Lines :
          line[l].invoiced > Maximum(l, BillingTolerance) =>
              BilledAtOnce(LAMBDA x : x.line = l,
                           line[l].invoiced - Maximum(l, BillingTolerance))
    /\ \A k \in DOMAIN goods :
          goods[k].billed > goods[k].qty =>
              BilledAtOnce(LAMBDA x : x.from = k, goods[k].billed - goods[k].qty)

(* "Configurable over-delivery, over-receipt, and over-billing tolerances." *)
(* (docs/SAP_BUSINESS_ONE_MIGRATION_PLAN.md): no line is billed above its   *)
(* order's billing tolerance, nor a delivery line above its quantity.       *)
BilledWithinTolerance ==
    /\ \A l \in Lines : line[l].invoiced <= Maximum(l, BillingTolerance)
    /\ \A k \in DOMAIN goods : goods[k].billed <= goods[k].qty

=============================================================================
