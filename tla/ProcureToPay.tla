------------------------------ MODULE ProcureToPay ------------------------------
(***************************************************************************)
(* One purchase order from draft to settled invoices: PurchasingService of *)
(* src/fasterp/purchasing.py over purchase_orders, purchase_receipts,      *)
(* purchase_invoices, payments and the ledgers it posts to.                *)
(*                                                                         *)
(* As in OrderToCash a handler is one transaction and one atomic step.     *)
(* Quantities are whole units, money is an integer in units of 1/Scale     *)
(* (four decimals), rates and unit costs are in units of 1/(Scale * Fine)  *)
(* (six decimals).  The items are valued FIFO or at the moving average, so *)
(* a receipt comes in at its unit cost.                                    *)
(***************************************************************************)
EXTENDS Money

CONSTANTS
    Lines,             \* lines of the order
    Goods,             \* lines whose item is an inventory item
    NegativeStock,     \* lines whose item may be issued below zero
    Ordered,           \* Ordered[l]: ordered quantity
    Rate,              \* Rate[l]: unit price, in 1/(Scale * Fine)
    TaxPercent,        \* TaxPercent[l]: rate of the line's tax code
    TaxAccount,        \* TaxAccount[l]: the purchase tax account it posts to
    ReceiptTolerance,  \* ReceiptTolerance[l], in percent
    BillingTolerance,  \* BillingTolerance[l], in percent
    Exchange,          \* the order's exchange rate, in 1/Scale
    Quantities,        \* quantities callers bill, return and debit
    RequestLines,      \* bound on the lines of a request
    ReceiptParts,      \* [accepted, rejected]: quantities callers receive
    PaymentRequests,   \* payments callers enter, their invoices still to be chosen
    Scale,             \* units of money per whole (10^4 in the code)
    Fine,              \* units of cost per unit of money (10^2 in the code)
    Digits,            \* units of a quotient per unit of money: Decimal keeps 28 digits
    MaxDocuments,      \* bound on receipt lines, invoices, debit notes and payments
    None               \* SQL NULL

ASSUME PurchaseAssumption ==
    /\ IsFiniteSet(Lines) /\ Lines # {} /\ Goods \cup NegativeStock \subseteq Lines
    /\ Ordered \in [Lines -> Nat \ {0}]
    /\ {Rate, TaxPercent, ReceiptTolerance, BillingTolerance} \subseteq [Lines -> Nat]
    /\ {Exchange, Scale, Fine, Digits, RequestLines} \subseteq Nat \ {0}
    /\ Quantities \subseteq Nat \ {0}
    /\ ReceiptParts \subseteq [accepted : Nat, rejected : Nat]
    /\ PaymentRequests \subseteq
          [amount : Nat, exchange : Nat,
           allocations : Seq([payment_amount : Int, invoice_amount : Int, base_amount : Int])]
    /\ None \notin Nat

VARIABLES
    order,     \* the order's document state and status
    line,      \* line[l]: received, returned and invoiced quantity
    receipts,  \* lines of the posted receipts and returns, oldest first
    invoices,  \* posted invoices and debit notes, oldest first
    payments,  \* posted supplier payments
    gl,        \* balance per account, debit positive, base currency
    party      \* the supplier's balance in the party ledger, debit positive

vars == <<order, line, receipts, invoices, payments, gl, party>>

-----------------------------------------------------------------------------
Base(x) == HalfEven(x * Exchange, Scale)

\* An amount of cost as it is posted: six decimals rounded to four.
Booked(x) == HalfEven(x, Fine)

UnitCost(l) == HalfEven(Rate[l] * Exchange, Scale)

Maximum(l, tolerance) == HalfEven(Ordered[l] * (100 + tolerance[l]), 100)

\* The order status that the line counters imply.
StatusOf(ls) ==
    LET sum(f) == SumFunction([l \in Lines |-> ls[l][f]])
        net == sum("received") - sum("returned")
        ordered == SumFunction(Ordered)
    IN  CASE sum("invoiced") >= ordered                       -> "Invoiced"
          [] sum("invoiced") < ordered /\ sum("invoiced") > 0 -> "Partly Invoiced"
          [] sum("invoiced") <= 0 /\ net >= ordered           -> "Received"
          [] sum("invoiced") <= 0 /\ net < ordered /\ net > 0 -> "Partly Received"
          [] OTHER                                            -> "Ordered"

Refreshed == order' = [order EXCEPT !.status = StatusOf(line')]

Documents == Len(receipts) + Len(invoices) + Len(payments)
Room == Documents < MaxDocuments

-----------------------------------------------------------------------------
Draft == [state |-> "Draft", status |-> "Draft"]
Posted == [state |-> "Posted", status |-> "Ordered"]

PostOrder ==
    /\ order.state \in {"Draft", "Approved"}
    /\ order' = Posted
    /\ UNCHANGED <<line, receipts, invoices, payments, gl, party>>

ReceiptLine(doc, kind, l, accepted, rejected) ==
    [doc |-> doc, kind |-> kind, line |-> l, accepted |-> accepted, rejected |-> rejected,
     acceptedReturned |-> 0, rejectedReturned |-> 0, billed |-> 0]

Quantity(r) == r.accepted + r.rejected

\* What a receipt brings of a line, rejected goods included.
Arriving(request, l) == SumWhere(request, LAMBDA x : x.at = l, LAMBDA x : Quantity(x.parts))

\* Each request line is checked after the lines before it were applied.
\* Mutant: only the accepted quantity counts against the order.
ReceiptAllowed_AcceptedOnly(request) ==
    \A i \in DOMAIN request :
        LET l == request[i].at
        IN  /\ Quantity(request[i].parts) > 0
            /\ line[l].received + SumWhere(request, LAMBDA x : x.at = l, LAMBDA x : x.parts.accepted)
                   - line[l].returned <= Maximum(l, ReceiptTolerance)
ReceiptAllowed(request) ==
    \A i \in DOMAIN request :
        LET l == request[i].at
        IN  /\ Quantity(request[i].parts) > 0
            /\ line[l].received + Arriving(request, l) - line[l].returned
                   <= Maximum(l, ReceiptTolerance)

\* The cost of receipt lines at their unit cost, those of goods only.
GoodsCost(ls) ==
    SumWhere(ls, LAMBDA r : r.line \in Goods, LAMBDA r : Quantity(r) * UnitCost(r.line))

ReceiveLines(request) ==
    LET new == [i \in DOMAIN request |->
                   ReceiptLine(Len(receipts) + 1, "Receipt", request[i].at,
                               request[i].parts.accepted, request[i].parts.rejected)]
        value == Booked(GoodsCost(new))
    IN  /\ order.state = "Posted"
        /\ order.status \notin {"Closed", "Cancelled", "On Hold"}
        /\ Documents + Len(request) <= MaxDocuments
        /\ ReceiptAllowed(request)
        /\ (\E i \in DOMAIN request : request[i].at \in Goods) => value > 0
        /\ receipts' = receipts \o new
        /\ line' = [l \in Lines |-> [line[l] EXCEPT !.received = @ + Arriving(request, l)]]
        /\ gl' = [gl EXCEPT !.inventory = @ + value, !.grni = @ - value]
        /\ Refreshed
        /\ UNCHANGED <<invoices, payments, party>>

Receive ==
    Room /\ \E request \in Requests([at : Lines, parts : ReceiptParts], RequestLines) :
                ReceiveLines(request)

-----------------------------------------------------------------------------
\* What a return takes from the accepted or the rejected part of a receipt line.
Taken(request, k, rejected) ==
    SumWhere(request, LAMBDA x : x.at = k /\ x.rejected = rejected, LAMBDA x : x.qty)

\* Each part is checked after the request lines before it were applied.
ReturnAllowed(request) ==
    \A i \in DOMAIN request :
        LET k == request[i].at
            r == receipts[k]
        IN  /\ r.kind = "Receipt" /\ r.doc = receipts[request[1].at].doc
            /\ r.line \in Goods \cup NegativeStock
            /\ r.acceptedReturned + Taken(request, k, FALSE) <= r.accepted
            /\ r.rejectedReturned + Taken(request, k, TRUE) <= r.rejected

\* What is returned leaves at the cost of its receipt.
ReturnValue(ls) == Booked(SumWhere(ls, Always, LAMBDA r : Quantity(r) * UnitCost(r.line)))

\* Mutant: the rejected part of the receipt line is not told.
Returned_AcceptedOnly(r, accepted, rejected) == [r EXCEPT !.acceptedReturned = @ + accepted]
Returned(r, accepted, rejected) ==
    [r EXCEPT !.acceptedReturned = @ + accepted, !.rejectedReturned = @ + rejected]

ReturnLines(request) ==
    LET new == [i \in DOMAIN request |->
                   ReceiptLine(Len(receipts) + 1, "Return", receipts[request[i].at].line,
                               IF request[i].rejected THEN 0 ELSE request[i].qty,
                               IF request[i].rejected THEN request[i].qty ELSE 0)]
        back(l) == SumWhere(new, LAMBDA r : r.line = l, Quantity)
    IN  /\ Documents + Len(request) <= MaxDocuments
        /\ ReturnAllowed(request)
        /\ ReturnValue(new) > 0
        /\ receipts' = [k \in DOMAIN receipts |->
                            Returned(receipts[k], Taken(request, k, FALSE),
                                     Taken(request, k, TRUE))] \o new
        /\ line' = [l \in Lines |-> [line[l] EXCEPT !.returned = @ + back(l)]]
        /\ gl' = [gl EXCEPT !.grni = @ + ReturnValue(new),
                            !.inventory = @ - ReturnValue(new)]
        /\ Refreshed
        /\ UNCHANGED <<invoices, payments, party>>

ReturnReceipt ==
    Room /\ \E request \in Requests([at : DOMAIN receipts, qty : Quantities,
                                     rejected : BOOLEAN], RequestLines) :
                ReturnLines(request)

-----------------------------------------------------------------------------
\* The voucher of invoice lines.  A line of received goods clears its accrual
\* and leaves the rest to the expense account, any other line is an expense.
Accrual(x) ==
    IF x.line \in Goods /\ x.from # None
    THEN Booked(x.qty * UnitCost(receipts[x.from].line)) ELSE 0
\* Mutant: the accrual is cleared with what was billed.
ClearedAccrual_Billed(x) == IF Accrual(x) > 0 THEN Base(x.net) ELSE 0
ClearedAccrual(x) == Accrual(x)

BaseTotal(ls) == Base(Total(ls, "net") + Total(ls, "tax"))
BaseTax(ls) == SumWhere(ls, Always, LAMBDA x : Base(x.tax))
Cleared(ls) == SumWhere(ls, Always, ClearedAccrual)
Expense(ls) == SumWhere(ls, Always, LAMBDA x : Base(x.net) - ClearedAccrual(x))

\* post_voucher takes the voucher: each line has an amount, and it balances.
Posts(ls) ==
    /\ BaseTotal(ls) > 0
    /\ \A i \in DOMAIN ls : ls[i].tax # 0 =>
          SumWhere(ls, LAMBDA x : TaxAccount[x.line] = TaxAccount[ls[i].line],
                   LAMBDA x : Base(x.tax)) > 0
    /\ BaseTotal(ls) = SumWhere(ls, Always, LAMBDA x : Base(x.net)) + BaseTax(ls)

NewDocument(type, against, ls) ==
    LET total == Total(ls, "net") + Total(ls, "tax")
    IN  [type |-> type, against |-> against, total |-> total, outstanding |-> total,
         status |-> "Unpaid", lines |-> ls]

\* The checks of all lines are made before any line is applied.
InvoiceAllowed(request) ==
    \A i \in DOMAIN request :
        /\ line[request[i].at].invoiced + request[i].qty
               <= Maximum(request[i].at, BillingTolerance)
        /\ request[i].from # None =>
               LET r == receipts[request[i].from]
               IN  r.line = request[i].at /\ r.billed + request[i].qty <= Quantity(r)

InvoiceLine(l, from, qty) ==
    LET net == Booked(qty * Rate[l])
    IN  [line |-> l, from |-> from, qty |-> qty, net |-> net,
         tax |-> HalfEven(net * TaxPercent[l], 100), debited |-> 0]

InvoiceLines(request) ==
    /\ order.state = "Posted"
    /\ InvoiceAllowed(request)
    /\ LET ls == [i \in DOMAIN request |->
                    InvoiceLine(request[i].at, request[i].from, request[i].qty)]
           drawn(k) == SumWhere(request, LAMBDA x : x.from = k, LAMBDA x : x.qty)
       IN  /\ Posts(ls)
           /\ invoices' = Append(invoices, NewDocument("Invoice", None, ls))
           /\ receipts' = [k \in DOMAIN receipts |->
                              [receipts[k] EXCEPT !.billed = @ + drawn(k)]]
           /\ gl' = [gl EXCEPT !.grni = @ + Cleared(ls), !.expense = @ + Expense(ls),
                               !.tax = @ + BaseTax(ls), !.ap = @ - BaseTotal(ls)]
           /\ party' = party - BaseTotal(ls)
    /\ line' = [l \in Lines |-> [line[l] EXCEPT !.invoiced = @ + Asked(request, l)]]
    /\ Refreshed
    /\ UNCHANGED payments

Invoice ==
    Room /\ \E request \in Requests([at : Lines, qty : Quantities,
                                     from : {None} \cup DOMAIN receipts], RequestLines) :
                InvoiceLines(request)

-----------------------------------------------------------------------------
\* An invoice after part of it was settled.
Settled(doc, x) ==
    [doc EXCEPT !.outstanding = @ - x,
                !.status = IF doc.outstanding = x THEN "Paid" ELSE "Partly Paid"]

\* A payment allocates to posted invoices of the supplier (a debit note has no
\* 'Purchase Invoice' entry in the party ledger), each once, at most what is open.
\* Mutant: the whole of an invoice may be allocated again.
Allocatable_Total(p, target) ==
    /\ IsInjective(target)
    /\ \A i \in DOMAIN target :
          /\ invoices[target[i]].type = "Invoice"
          /\ p.allocations[i].invoice_amount <= invoices[target[i]].total
Allocatable(p, target) ==
    /\ IsInjective(target)
    /\ \A i \in DOMAIN target :
          /\ invoices[target[i]].type = "Invoice"
          /\ p.allocations[i].invoice_amount <= invoices[target[i]].outstanding

PaymentAccepted(p) ==
    /\ p.amount > 0 /\ p.exchange > 0
    /\ Total(p.allocations, "payment_amount") <= p.amount
    /\ \A i \in DOMAIN p.allocations :
          /\ p.allocations[i].payment_amount > 0
          /\ p.allocations[i].invoice_amount > 0
          /\ p.allocations[i].base_amount > 0

PaymentBase(p) == HalfEven(p.amount * p.exchange, Scale)

\* What the allocated parts of the invoices were booked at.
OriginalBase(p) == SumWhere(p.allocations, Always, LAMBDA a : Base(a.invoice_amount))
GainLoss(p) == Total(p.allocations, "base_amount") - OriginalBase(p)

\* Mutant: the payable is cleared at the payment's rate, not at its own.
ApDebit_PaymentRate(p) == PaymentBase(p)
ApDebit(p) == OriginalBase(p) + (PaymentBase(p) - Total(p.allocations, "base_amount"))

\* Payment p is made, its i-th allocation settling invoice target[i].
Pay(p, target) ==
    /\ PaymentAccepted(p)
    /\ PaymentBase(p) > 0 /\ ApDebit(p) > 0
    /\ Allocatable(p, target)
    /\ invoices' = [k \in DOMAIN invoices |->
           IF \E i \in DOMAIN target : target[i] = k
           THEN Settled(invoices[k], p.allocations[
                    CHOOSE i \in DOMAIN target : target[i] = k].invoice_amount)
           ELSE invoices[k]]
    /\ payments' = Append(payments,
           [base |-> PaymentBase(p),
            allocations |-> [i \in DOMAIN target |->
                [invoice |-> target[i],
                 invoice_amount |-> p.allocations[i].invoice_amount,
                 base_amount |-> p.allocations[i].base_amount]]])
    /\ gl' = [gl EXCEPT !.ap = @ + ApDebit(p), !.bank = @ - PaymentBase(p),
                        !.fx = @ + GainLoss(p)]
    /\ party' = party + PaymentBase(p)
    /\ UNCHANGED <<order, line, receipts>>

PaySupplier ==
    Room /\ \E p \in PaymentRequests :
                \E target \in [DOMAIN p.allocations -> DOMAIN invoices] : Pay(p, target)

-----------------------------------------------------------------------------
\* The lines left to debit: checked by the handler line by line, and by the
\* CHECK on debited_qty for a line named twice.
DebitAllowed(doc, request) ==
    \A i \in DOMAIN request :
        doc.lines[request[i].at].debited + Asked(request, request[i].at)
            <= doc.lines[request[i].at].qty

\* The share of a line's amounts: the quotient has many digits, the product is rounded.
Share(x, qty, of) == HalfEven(HalfEven(x * Digits, of) * qty, Digits)

DebitLine(source, qty) ==
    [source EXCEPT !.qty = qty, !.net = Share(source.net, qty, source.qty),
                   !.tax = Share(source.tax, qty, source.qty), !.debited = 0]

\* The debit settles what the invoice has open, no more.
Allocation(total, outstanding) == Smaller(total, outstanding)

Debited(doc, request) ==
    [doc EXCEPT !.lines = [j \in DOMAIN doc.lines |->
        [doc.lines[j] EXCEPT !.debited = @ + Asked(request, j)]]]

LineDebited(l, qty) == [line[l] EXCEPT !.invoiced = IF @ > qty THEN @ - qty ELSE 0]

DebitInvoice(k, request) ==
    LET doc == invoices[k]
        ls == [i \in DOMAIN request |-> DebitLine(doc.lines[request[i].at], request[i].qty)]
        note == NewDocument("Debit Note", k, ls)
        settle == Allocation(note.total, doc.outstanding)
        back(l) == SumWhere(ls, LAMBDA x : x.line = l, LAMBDA x : x.qty)
    IN  /\ doc.type = "Invoice"
        /\ DebitAllowed(doc, request)
        /\ Posts(ls)
        /\ invoices' = IF settle > 0
                       THEN Append([invoices EXCEPT ![k] = Settled(Debited(doc, request), settle)],
                                   Settled(note, settle))
                       ELSE Append([invoices EXCEPT ![k] = Debited(doc, request)], note)
        /\ line' = [l \in Lines |-> LineDebited(l, back(l))]
        /\ gl' = [gl EXCEPT !.grni = @ - Cleared(ls), !.expense = @ - Expense(ls),
                            !.tax = @ - BaseTax(ls), !.ap = @ + BaseTotal(ls)]
        /\ party' = party + BaseTotal(ls)
        /\ Refreshed
        /\ UNCHANGED <<receipts, payments>>

\* A caller debits lines of one invoice: so far only the import does.
IssueDebitNote ==
    Room /\ \E k \in DOMAIN invoices :
                \E request \in Requests([at : DOMAIN invoices[k].lines, qty : Quantities],
                                         RequestLines) :
                    DebitInvoice(k, request)

-----------------------------------------------------------------------------
Accounts == {"inventory", "grni", "expense", "tax", "ap", "bank", "fx"}

\* create_order: the lines are fixed by the constants, nothing has happened yet.
NothingDone ==
    /\ line = [l \in Lines |-> [received |-> 0, returned |-> 0, invoiced |-> 0]]
    /\ receipts = <<>> /\ invoices = <<>> /\ payments = <<>>
    /\ gl = [a \in Accounts |-> 0]
    /\ party = 0

Init == order = Draft /\ NothingDone

Next ==
    \/ PostOrder
    \/ Receive
    \/ ReturnReceipt
    \/ Invoice
    \/ PaySupplier
    \/ IssueDebitNote

Spec == Init /\ [][Next]_vars

-----------------------------------------------------------------------------
(* Every document the handlers write is one the tables admit: known kinds   *)
(* and states, amounts that are not negative, links to earlier documents, a *)
(* return or a debit never above the part of the line it is against.        *)
TypeOK ==
    /\ order.state \in {"Draft", "Posted"}
    /\ order.status \in {"Draft", "Ordered", "Partly Received", "Received",
                         "Partly Invoiced", "Invoiced"}
    /\ line \in [Lines -> [received : Nat, returned : Nat, invoiced : Nat]]
    /\ \A k \in DOMAIN receipts : LET r == receipts[k] IN
          /\ r.doc \in 1..k /\ r.kind \in {"Receipt", "Return"} /\ r.line \in Lines
          /\ {r.accepted, r.rejected, r.billed} \subseteq Nat /\ Quantity(r) > 0
          /\ r.acceptedReturned \in 0..r.accepted /\ r.rejectedReturned \in 0..r.rejected
    /\ \A k \in DOMAIN invoices : LET d == invoices[k] IN
          /\ IF d.type = "Invoice" THEN d.against = None
             ELSE d.type = "Debit Note" /\ d.against \in 1..(k - 1)
          /\ d.total \in Nat /\ d.outstanding \in 0..d.total
          /\ \A j \in DOMAIN d.lines :
                /\ d.lines[j].qty \in Nat \ {0} /\ d.lines[j].debited \in 0..d.lines[j].qty
                /\ d.lines[j].from \in {None} \cup DOMAIN receipts
    /\ gl \in [Accounts -> Int] /\ party \in Int

\* Sums over the lines of posted invoices and of posted debit notes.
IsInvoice(d) == d.type = "Invoice"
IsNote(d) == ~IsInvoice(d)
DocumentSum(P(_), f(_)) == SumWhere(invoices, P, f)
LineSum(d, P(_), f(_)) == SumWhere(d.lines, P, f)

(* The counters kept in place agree with the documents they summarise: what *)
(* an order line received and returned with its receipt and return lines,   *)
(* accepted or rejected, what it was invoiced with its invoice lines less   *)
(* the debit notes, what a receipt line was billed with the invoice lines   *)
(* drawn from it, and what an invoice line was debited with its notes.      *)
CountersAreDocuments ==
    /\ \A l \in Lines :
          /\ line[l].received =
                SumWhere(receipts, LAMBDA r : r.line = l /\ r.kind = "Receipt", Quantity)
          /\ line[l].returned =
                SumWhere(receipts, LAMBDA r : r.line = l /\ r.kind = "Return", Quantity)
          /\ \A part \in {"accepted", "rejected"} :
                SumWhere(receipts, LAMBDA r : r.line = l /\ r.kind = "Return",
                         LAMBDA r : r[part]) =
                SumWhere(receipts, LAMBDA r : r.line = l /\ r.kind = "Receipt",
                         LAMBDA r : IF part = "accepted" THEN r.acceptedReturned
                                                         ELSE r.rejectedReturned)
          /\ line[l].invoiced =
                DocumentSum(IsInvoice, LAMBDA d :
                    LineSum(d, LAMBDA x : x.line = l, LAMBDA x : x.qty)) -
                DocumentSum(IsNote, LAMBDA d :
                    LineSum(d, LAMBDA x : x.line = l, LAMBDA x : x.qty))
    /\ \A k \in DOMAIN receipts :
          receipts[k].billed =
              DocumentSum(IsInvoice, LAMBDA d :
                  LineSum(d, LAMBDA x : x.from = k, LAMBDA x : x.qty))
    /\ \A k \in DOMAIN invoices : IsInvoice(invoices[k]) =>
          LineSum(invoices[k], Always, LAMBDA x : x.debited) =
              DocumentSum(LAMBDA d : d.against = k, LAMBDA d :
                  LineSum(d, Always, LAMBDA x : x.qty))

\* An invoice names lines of which P holds, and all but one of them bill this much.
BilledAtOnce(P(_), excess) ==
    \E k \in DOMAIN invoices :
        /\ IsInvoice(invoices[k])
        /\ \E j \in DOMAIN invoices[k].lines :
              /\ P(invoices[k].lines[j])
              /\ excess <= LineSum(invoices[k], P, LAMBDA x : x.qty) - invoices[k].lines[j].qty

(* What is kept of a line, accepted or rejected, is never negative and never*)
(* above the ordered quantity plus the receipt tolerance, over any sequence *)
(* of receipts and returns.  Billing can exceed its tolerance, or a receipt *)
(* line its quantity, because invoice() checks its lines against what it    *)
(* read first; but that is the doing of one invoice that names the line     *)
(* several times, and with one of its lines alone the limit is kept.        *)
OrderLimitsHold ==
    /\ \A l \in Lines :
          /\ line[l].received - line[l].returned \in 0..Maximum(l, ReceiptTolerance)
          /\ line[l].invoiced > Maximum(l, BillingTolerance) =>
                BilledAtOnce(LAMBDA x : x.line = l,
                             line[l].invoiced - Maximum(l, BillingTolerance))
    /\ \A k \in DOMAIN receipts :
          receipts[k].billed > Quantity(receipts[k]) =>
              BilledAtOnce(LAMBDA x : x.from = k, receipts[k].billed - Quantity(receipts[k]))

\* Units of a receipt line whose cost the clearing account still owes.  A line
\* that is no goods owes nothing when it arrives, but is taken off when returned.
Uncleared(k) ==
    LET r == receipts[k]
        returned == r.acceptedReturned + r.rejectedReturned
        debited == DocumentSum(IsInvoice, LAMBDA d :
                       LineSum(d, LAMBDA x : x.from = k, LAMBDA x : x.debited))
        arrived == IF r.kind = "Receipt" THEN Quantity(r) ELSE 0
    IN  IF r.line \in Goods THEN arrived - returned - (r.billed - debited) ELSE -returned

(* The goods-received-not-invoiced account is worth the received goods that *)
(* were neither returned nor billed (a debited invoice line counts as not   *)
(* billed), at the cost of their receipt, whatever they were billed at and  *)
(* in whatever order; up to half a unit for each amount rounded.            *)
ClearingIsUnbilled ==
    LET owed == SumFunction([k \in DOMAIN receipts |->
                    Uncleared(k) * UnitCost(receipts[k].line)])
        roundings == Cardinality({receipts[k].doc : k \in DOMAIN receipts})
                       + DocumentSum(Always, LAMBDA d :
                             LineSum(d, LAMBDA x : x.from # None, LAMBDA x : 1))
        gap == 2 * (Fine * gl.grni + owed)
    IN  gap <= Fine * roundings /\ gap >= -(Fine * roundings)

(* The open amount of an invoice is its total less the payments allocated   *)
(* and the debit notes settled against it.  The payable account is worth    *)
(* the open invoices less the open debit notes and the money paid but not   *)
(* allocated, up to half a unit for each document and allocation, and the   *)
(* supplier's party ledger differs from it by the exchange gains and losses *)
(* alone.                                                                   *)
PayableIsOutstanding ==
    LET paid(k) == SumWhere(payments, Always, LAMBDA p :
            SumWhere(p.allocations, LAMBDA a : a.invoice = k, LAMBDA a : a.invoice_amount))
        settled(k) == DocumentSum(LAMBDA d : d.against = k, LAMBDA d : d.total - d.outstanding)
        open == DocumentSum(IsInvoice, LAMBDA d : d.outstanding)
                  - DocumentSum(IsNote, LAMBDA d : d.outstanding)
        advance == SumWhere(payments, Always, LAMBDA p :
                       p.base - Total(p.allocations, "base_amount"))
        roundings == Len(invoices)
                       + SumWhere(payments, Always, LAMBDA p : Len(p.allocations))
        gap == 2 * (Scale * (-gl.ap + advance) - Exchange * open)
    IN  /\ \A k \in DOMAIN invoices : IsInvoice(invoices[k]) =>
              invoices[k].outstanding = invoices[k].total - paid(k) - settled(k)
        /\ gap <= Scale * roundings /\ gap >= -(Scale * roundings)
        /\ party = gl.ap + gl.fx

=============================================================================
