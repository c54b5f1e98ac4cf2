----------------------------- MODULE PurchaseEntry -----------------------------
(***************************************************************************)
(* The callers of PurchasingService on one order: the buttons of the       *)
(* purchase page (src/db.py on PostgreSQL) and the import of purchase      *)
(* documents of another system (src/migration/transactions.py).  As in     *)
(* SalesEntry a button reads first and calls a handler of ProcureToPay     *)
(* later, an import does both in one step.  Imported debit notes ask for   *)
(* any lines of their invoice, so ProcureToPay has them already; documents *)
(* cancelled at the source are archived and touch nothing here.            *)
(***************************************************************************)
EXTENDS ProcureToPay, SequencesExt

CONSTANTS
    Clerks,           \* clerks at the purchase page
    ImportedPayments  \* [amount, exchange, asked]: asked[i] is for the i-th invoice

ASSUME EntryAssumption ==
    ImportedPayments \subseteq [amount : Nat, exchange : Nat, asked : Seq(Int)]

VARIABLE page  \* page[c]: the button clerk c pressed and what it has read

entry == <<vars, page>>

Idle == [at |-> "idle"]
Shown(c, view) == page' = [page EXCEPT ![c] = view] /\ UNCHANGED vars

-----------------------------------------------------------------------------
\* The page creates an order and posts it in a second transaction; an order
\* left a draft in between has no button.
PlaceOrder == order.status = "Draft" /\ PostOrder /\ UNCHANGED page

AllAccepted(qty) == [accepted |-> qty, rejected |-> 0]

\* A request for what is left of every line.
Missing(l) == Ordered[l] - line[l].received + line[l].returned
Rest == SetToSeq({[at |-> l, parts |-> AllAccepted(Missing(l))] :
                      l \in {k \in Lines : Missing(k) > 0}})

\* "Receive" reads the status, then the quantities left.
PressReceive(c) ==
    page[c] = Idle /\ order.status = "Ordered" /\ Shown(c, [at |-> "receive"])

ReadMissing(c) ==
    /\ page[c].at = "receive" /\ Rest # <<>>
    /\ Shown(c, [at |-> "receiving", request |-> Rest])

ReceiveRest(c) ==
    /\ Room /\ page[c].at = "receiving"
    /\ ReceiveLines(page[c].request)
    /\ page' = [page EXCEPT ![c] = Idle]

\* The read finds nothing to do, the handler raises, or the server stops.
GiveUp(c) == page[c] # Idle /\ Shown(c, Idle)

Button(c) == PressReceive(c) \/ ReadMissing(c) \/ ReceiveRest(c) \/ GiveUp(c)

-----------------------------------------------------------------------------
\* An order is imported as a draft or, in the same transaction, posted.
ImportOrder == order \in {Draft, Posted} /\ NothingDone

\* Imported receipts and returns know no rejected goods.
ImportReceipt ==
    Room /\ \E asks \in Requests([at : Lines, qty : Quantities], RequestLines) :
                ReceiveLines([i \in DOMAIN asks |->
                    [at |-> asks[i].at, parts |-> AllAccepted(asks[i].qty)]])

ImportReturn ==
    Room /\ \E request \in Requests([at : DOMAIN receipts, qty : Quantities,
                                     rejected : {FALSE}], RequestLines) : ReturnLines(request)

\* The receipt line an invoice line of order line l draws from: one with something
\* unbilled, in the oldest document that has one, be it a receipt or a return.
DrawnFrom(l) ==
    LET open == {k \in DOMAIN receipts :
                    receipts[k].line = l /\ receipts[k].billed < Quantity(receipts[k])}
    IN  IF open = {} THEN {None}
        ELSE {k \in open : \A j \in open : receipts[k].doc <= receipts[j].doc}

\* An invoice based on the order, or on one receipt whose lines it names.
ImportInvoice ==
    /\ Room
    /\ \/ \E request \in Requests(UNION {[at : {l}, qty : Quantities, from : DrawnFrom(l)] :
                                          l \in Lines}, RequestLines) : InvoiceLines(request)
       \/ \E d \in {receipts[k].doc : k \in DOMAIN receipts} :
             \E request \in Requests({[at |-> receipts[k].line, qty |-> q, from |-> k] :
                    k \in {j \in DOMAIN receipts : receipts[j].doc = d}, q \in Quantities}, RequestLines) :
                InvoiceLines(request)

\* What is asked of an invoice is cut to what it has open, and valued at the
\* invoice's own exchange rate.
AtInvoiceRate(x) == [payment_amount |-> x, invoice_amount |-> x, base_amount |-> Base(x)]

ImportPayment ==
    /\ Room
    /\ \E p \in ImportedPayments :
          \E target \in [DOMAIN p.asked -> DOMAIN invoices] :
             Pay([amount |-> p.amount, exchange |-> p.exchange,
                  allocations |-> [i \in DOMAIN p.asked |->
                      AtInvoiceRate(Smaller(p.asked[i], invoices[target[i]].outstanding))]],
                 target)

-----------------------------------------------------------------------------
EntryInit == (Init \/ ImportOrder) /\ page = [c \in Clerks |-> Idle]

EntryNext ==
    \/ Next /\ UNCHANGED page
    \/ PlaceOrder
    \/ \E c \in Clerks : Button(c)
    \/ (ImportReceipt \/ ImportReturn) /\ UNCHANGED page
    \/ (ImportInvoice \/ ImportPayment) /\ UNCHANGED page

EntrySpec == EntryInit /\ [][EntryNext]_entry
=============================================================================
