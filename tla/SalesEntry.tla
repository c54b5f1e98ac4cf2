------------------------------ MODULE SalesEntry ------------------------------
(***************************************************************************)
(* The callers of SalesService on one order: the buttons of the order page *)
(* (src/db.py on PostgreSQL) and the import of sales documents of another  *)
(* system (src/migration/transactions.py).  Each computes its request from *)
(* what it reads and hands it to a handler of OrderToCash.                 *)
(*                                                                         *)
(* A button reads the order in statements of their own and then calls the  *)
(* handler in a transaction: what the clerk's page has read so far is kept *)
(* in page, and anything may happen to the order between two of the steps. *)
(* An import reads and acts in one transaction and is one step.  Imported  *)
(* deliveries, returns and credit notes ask for any lines of their base    *)
(* document, so OrderToCash has them already; documents cancelled at the   *)
(* source are archived and touch nothing here.                             *)
(***************************************************************************)
EXTENDS OrderToCash, SequencesExt

CONSTANTS
    Clerks,           \* clerks at the order page
    Amounts,          \* amounts a clerk enters
    ImportedPayments  \* [amount, exchange, asked]: asked[i] is for the i-th invoice

ASSUME EntryAssumption ==
    /\ Amounts \subseteq Nat \ {0}
    /\ ImportedPayments \subseteq [amount : Nat, exchange : Nat, asked : Seq(Int)]

VARIABLE page  \* page[c]: the button clerk c pressed and what it has read

entry == <<vars, page>>

Idle == [at |-> "idle"]
Shown(c, view) == page' = [page EXCEPT ![c] = view] /\ UNCHANGED vars
Done(c) == page' = [page EXCEPT ![c] = Idle]

-----------------------------------------------------------------------------
\* The handler refuses what the button would have refused.
ConfirmOrder == order.status = "Draft" /\ PostOrder /\ UNCHANGED page

\* A request for what is left of every line.
Rest(left) == SetToSeq({[at |-> l, qty |-> left[l]] : l \in {k \in Lines : left[k] > 0}})

Undelivered == [l \in Lines |-> Ordered[l] - line[l].delivered + line[l].returned]

Unbilled ==
    LET rest == Rest([l \in Lines |-> Ordered[l] - line[l].invoiced])
    IN  [i \in DOMAIN rest |-> [at |-> rest[i].at, qty |-> rest[i].qty, from |-> None]]

\* "Deliver" reads the status, then the quantities left.
PressDeliver(c) ==
    page[c] = Idle /\ order.status = "Confirmed" /\ Shown(c, [at |-> "deliver"])

ReadUndelivered(c) ==
    /\ page[c].at = "deliver" /\ Rest(Undelivered) # <<>>
    /\ Shown(c, [at |-> "delivering", request |-> Rest(Undelivered)])

DeliverRest(c) ==
    /\ Room /\ page[c].at = "delivering"
    /\ DeliverLines(page[c].request) /\ Done(c)

\* "Invoice" reads the status, then whether the order has an invoice (the page bills
\* an order once), then the quantities left.  It names no delivery lines.
PressInvoice(c) ==
    page[c] = Idle /\ order.status = "Delivered" /\ Shown(c, [at |-> "invoice"])

ReadInvoices(c) ==
    page[c].at = "invoice" /\ invoices = <<>> /\ Shown(c, [at |-> "unbilled"])

ReadUnbilled(c) ==
    /\ page[c].at = "unbilled" /\ Unbilled # <<>>
    /\ Shown(c, [at |-> "invoicing", request |-> Unbilled])

InvoiceRest(c) ==
    /\ Room /\ page[c].at = "invoicing"
    /\ InvoiceLines(page[c].request) /\ Done(c)

\* What an invoice is paid, valued at the invoice's own exchange rate.
AtInvoiceRate(x) == [payment_amount |-> x, invoice_amount |-> x, base_amount |-> Base(x)]

\* "Record payment" reads what the invoice has open and cuts the amount to it.
PressPay(c) ==
    /\ page[c] = Idle
    /\ \E k \in DOMAIN invoices, x \in Amounts :
          Shown(c, [at |-> "paying", invoice |-> k,
                    pay |-> Smaller(invoices[k].total - invoices[k].paid, x)])

RecordPayment(c) ==
    /\ Room /\ page[c].at = "paying"
    /\ Receive([amount |-> page[c].pay, exchange |-> Exchange,
                allocations |-> <<AtInvoiceRate(page[c].pay)>>], <<page[c].invoice>>)
    /\ Done(c)

\* The read finds nothing to do, the handler raises, or the server stops.
GiveUp(c) == page[c] # Idle /\ Shown(c, Idle)

Button(c) ==
    \/ PressDeliver(c) \/ ReadUndelivered(c) \/ DeliverRest(c)
    \/ PressInvoice(c) \/ ReadInvoices(c) \/ ReadUnbilled(c) \/ InvoiceRest(c)
    \/ PressPay(c) \/ RecordPayment(c)
    \/ GiveUp(c)

-----------------------------------------------------------------------------
\* An order is imported as a draft or, in the same transaction, posted.
ImportOrder == order \in {Draft, Confirmed} /\ NothingDone

\* The goods line an invoice line of order line l draws from: one with something
\* unbilled, in the oldest document that has one, be it a delivery or a return.
DrawnFrom(l) ==
    LET open == {k \in DOMAIN goods : goods[k].line = l /\ goods[k].billed < goods[k].qty}
    IN  IF open = {} THEN {None}
        ELSE {k \in open : \A j \in open : goods[k].doc <= goods[j].doc}

\* An invoice based on the order, or on one delivery whose lines it names.
ImportInvoice ==
    /\ Room
    /\ \/ \E request \in Requests(UNION {[at : {l}, qty : Quantities, from : DrawnFrom(l)] :
                                          l \in Lines}, RequestLines) : InvoiceLines(request)
       \/ \E d \in {goods[k].doc : k \in DOMAIN goods} :
             \E request \in Requests({[at |-> goods[k].line, qty |-> q, from |-> k] :
                    k \in {j \in DOMAIN goods : goods[j].doc = d}, q \in Quantities}, RequestLines) :
                InvoiceLines(request)

\* What is asked of an invoice is cut to what it has open.
ImportPayment ==
    /\ Room
    /\ \E p \in ImportedPayments :
          \E target \in [DOMAIN p.asked -> DOMAIN invoices] :
             Receive([amount |-> p.amount, exchange |-> p.exchange,
                      allocations |-> [i \in DOMAIN p.asked |->
                          AtInvoiceRate(Smaller(p.asked[i], invoices[target[i]].outstanding))]],
                     target)

-----------------------------------------------------------------------------
EntryInit == (Init \/ ImportOrder) /\ page = [c \in Clerks |-> Idle]

EntryNext ==
    \/ Next /\ UNCHANGED page
    \/ ConfirmOrder
    \/ \E c \in Clerks : Button(c)
    \/ ImportInvoice /\ UNCHANGED page
    \/ ImportPayment /\ UNCHANGED page

EntrySpec == EntryInit /\ [][EntryNext]_entry
=============================================================================
