--------------------------- MODULE OrderToCashProofs ---------------------------
(***************************************************************************)
(* What holds of every sales order, whatever its lines, rates, tolerances, *)
(* requests and payments: the invariants of OrderToCash, for EntrySpec, so *)
(* for the handlers called directly, by the buttons and by the import.     *)
(***************************************************************************)
EXTENDS SalesEntry, MoneyProofs

-----------------------------------------------------------------------------
(* The handlers, called with any request: what the actions of EntryNext do. *)

Ask(S) == [at : S, qty : Nat \ {0}]
Draw(S) == [at : S, qty : Nat \ {0}, from : {None} \cup DOMAIN goods]
Part == [payment_amount : Int, invoice_amount : Int, base_amount : Int]
Entry == [amount : Int, exchange : Nat, allocations : Seq(Part)]

Handlers ==
    \/ PostOrder
    \/ \E request \in Seq(Ask(Lines)) : DeliverLines(request)
    \/ \E request \in Seq(Ask(DOMAIN goods)) : ReturnLines(request)
    \/ \E request \in Seq(Draw(Lines)) : InvoiceLines(request)
    \/ \E p \in Entry : \E target \in [DOMAIN p.allocations -> DOMAIN invoices] :
          Receive(p, target)
    \/ \E k \in DOMAIN invoices : \E request \in Seq(Ask(DOMAIN invoices[k].lines)) :
          CreditInvoice(k, request)

(* The rows of the tables. *)

Counters == [delivered : Nat, returned : Nat, invoiced : Nat]

Movements == {"Delivery", "Return"}

GoodsLine ==
    [doc : Nat, kind : Movements, line : Lines, qty : Nat \ {0},
     returned : Nat, billed : Nat, charge : {None} \cup [value : Nat, left : Nat]]

DocumentLine ==
    [line : Lines, from : {None} \cup Nat, qty : Nat \ {0}, net : Nat, tax : Nat,
     credited : Nat]

Kinds == {"Invoice", "Credit Note"}
DocumentStatuses == {"Unpaid", "Partly Paid", "Paid"}

Document ==
    [type : Kinds, against : {None} \cup Nat, total : Nat, outstanding : Nat, paid : Nat,
     status : DocumentStatuses, lines : Seq(DocumentLine)]

PaidPart == [invoice : Nat, invoice_amount : Nat, base_amount : Nat]
Payment == [base : Nat, allocations : Seq(PaidPart)]

Statuses ==
    {"Draft", "Confirmed", "Partly Delivered", "Delivered", "Partly Invoiced", "Invoiced"}

Typed ==
    /\ order \in [state : {"Draft", "Posted"}, status : Statuses]
    /\ line \in [Lines -> Counters]
    /\ goods \in Seq(GoodsLine)
    /\ invoices \in Seq(Document)
    /\ payments \in Seq(Payment)
    /\ gl \in [Accounts -> Int]
    /\ party \in Int

(* What a clerk's page may have read. *)

Bill == [at : Lines, qty : Nat \ {0}, from : {None}]

Views ==
    [at : {"idle", "deliver", "invoice", "unbilled"}]
    \cup [at : {"delivering"}, request : Seq(Ask(Lines))]
    \cup [at : {"invoicing"}, request : Seq(Bill)]
    \cup [at : {"paying"}, invoice : Nat, pay : Int]

PagesRead ==
    /\ page \in [Clerks -> Views]
    /\ \A c \in Clerks : page[c].at = "paying" => page[c].invoice \in DOMAIN invoices

-----------------------------------------------------------------------------
(* What is left of an order is a request for lines of it. *)
LEMMA RestIsRequest ==
  ASSUME NEW left, \A l \in Lines : left[l] \in Int
  PROVE  Rest(left) \in Seq(Ask(Lines))
  <1> DEFINE open == {k \in Lines : left[k] > 0}
             rows == {[at |-> l, qty |-> left[l]] : l \in open}
             row == [l \in open |-> [at |-> l, qty |-> left[l]]]
  <1>1. IsFiniteSet(Lines) /\ IsFiniteSet(open)
    BY OrderAssumption, FS_Subset
  <1>2. row \in Surjection(open, rows)
    BY DEF Surjection
  <1>3. IsFiniteSet(rows)
    BY <1>1, <1>2, FS_Surjection
  <1>4. rows \subseteq Ask(Lines)
    BY DEF Ask
  <1>5. \E f : f \in Bijection(1..Cardinality(rows), rows)
    BY <1>3, FS_CardinalityType DEF ExistsBijection
  <1>6. SetToSeq(rows) \in Seq(rows)
    <2>1. \E f : f \in [1..Cardinality(rows) -> rows] /\ IsInjective(f)
      BY <1>5 DEF Bijection, Injection, IsInjective
    <2>2. Cardinality(rows) \in Nat
      BY <1>3, FS_CardinalityType
    <2>3. SetToSeq(rows) \in [1..Cardinality(rows) -> rows]
      BY <2>1 DEF SetToSeq
    <2> QED
      BY <2>2, <2>3, FunctionIsSeq
  <1> QED
    BY <1>4, <1>6, SeqMonotonic DEF Rest

(* Every step of the order page, of the import and of the callers is a handler,  *)
(* or a read that changes nothing but the page.                                  *)
LEMMA EntryIsHandlers ==
  ASSUME Typed, PagesRead, [EntryNext]_entry
  PROVE  [Handlers]_vars
  <1>0. /\ Quantities \subseteq Nat \ {0} /\ Ordered \in [Lines -> Nat \ {0}]
        /\ PaymentRequests \subseteq [amount : Nat, exchange : Nat, allocations : Seq(Part)]
        /\ Exchange \in Nat \ {0} /\ Scale \in Nat \ {0} /\ RequestLines \in Nat
    BY OrderAssumption DEF Part
  <1>1. /\ \A l \in Lines : line[l] \in Counters
        /\ \A k \in DOMAIN invoices : invoices[k] \in Document
        /\ \A k \in DOMAIN goods : goods[k] \in GoodsLine
    BY DEF Typed
  <1>13. \A S : [at : S, qty : Quantities] \subseteq Ask(S)
    BY <1>0 DEF Ask
  <1>14. [at : Lines, qty : Quantities, from : {None} \cup DOMAIN goods] \subseteq Draw(Lines)
    BY <1>0 DEF Draw
  <1>2. ASSUME PostOrder \/ ConfirmOrder PROVE Handlers
    BY <1>2 DEF ConfirmOrder, Handlers
  <1>3. ASSUME Deliver PROVE Handlers
    <2>1. PICK request \in Requests([at : Lines, qty : Quantities], RequestLines) : DeliverLines(request)
      BY <1>3 DEF Deliver
    <2>2. request \in Seq([at : Lines, qty : Quantities])
      BY <1>0, RequestsAreSequences
    <2>3. request \in Seq(Ask(Lines))
      BY <2>2, <1>13, SeqMonotonic
    <2> QED
      BY <2>1, <2>3 DEF Handlers
  <1>4. ASSUME ReturnDelivery PROVE Handlers
    <2>1. PICK request \in Requests([at : DOMAIN goods, qty : Quantities], RequestLines) :
             ReturnLines(request)
      BY <1>4 DEF ReturnDelivery
    <2>2. request \in Seq([at : DOMAIN goods, qty : Quantities])
      BY <1>0, RequestsAreSequences
    <2>3. request \in Seq(Ask(DOMAIN goods))
      BY <2>2, <1>13, SeqMonotonic
    <2> QED
      BY <2>1, <2>3 DEF Handlers
  <1>5. ASSUME Invoice PROVE Handlers
    <2>1. PICK request \in Requests([at : Lines, qty : Quantities,
                                     from : {None} \cup DOMAIN goods], RequestLines) :
             InvoiceLines(request)
      BY <1>5 DEF Invoice
    <2>2. request \in Seq([at : Lines, qty : Quantities, from : {None} \cup DOMAIN goods])
      BY <1>0, RequestsAreSequences
    <2>3. request \in Seq(Draw(Lines))
      BY <2>2, <1>14, SeqMonotonic
    <2> QED
      BY <2>1, <2>3 DEF Handlers
  <1>6. ASSUME ReceivePayment PROVE Handlers
    <2>1. PaymentRequests \subseteq Entry
      BY <1>0 DEF Entry
    <2> QED
      BY <1>6, <2>1 DEF ReceivePayment, Handlers
  <1>7. ASSUME IssueCreditNote PROVE Handlers
    <2>1. PICK k \in DOMAIN invoices :
             \E request \in Requests([at : DOMAIN invoices[k].lines, qty : Quantities],
                                    RequestLines) :
                CreditInvoice(k, request)
      BY <1>7 DEF IssueCreditNote
    <2>2. PICK request \in Requests([at : DOMAIN invoices[k].lines, qty : Quantities],
                                    RequestLines) :
             CreditInvoice(k, request)
      BY <2>1
    <2>3. request \in Seq([at : DOMAIN invoices[k].lines, qty : Quantities])
      BY <1>0, RequestsAreSequences
    <2>4. request \in Seq(Ask(DOMAIN invoices[k].lines))
      <3> DEFINE S == DOMAIN invoices[k].lines
      <3>1. request \in Seq([at : S, qty : Quantities])
        BY <2>3
      <3>2. [at : S, qty : Quantities] \subseteq Ask(S)
        BY <1>13
      <3> HIDE DEF S
      <3>3. request \in Seq(Ask(S))
        BY <3>1, <3>2, SeqMonotonic
      <3> QED
        BY <3>3 DEF S
    <2> QED
      BY <2>2, <2>4 DEF Handlers
  <1>8. ASSUME NEW c \in Clerks, DeliverRest(c) PROVE Handlers
    <2>1. page[c] \in Views /\ page[c].at = "delivering" /\ DeliverLines(page[c].request)
      BY <1>8 DEF DeliverRest, PagesRead
    <2>2. page[c].request \in Seq(Ask(Lines))
      BY <2>1 DEF Views
    <2> QED
      BY <2>1, <2>2 DEF Handlers
  <1>9. ASSUME NEW c \in Clerks, InvoiceRest(c) PROVE Handlers
    <2>1. page[c] \in Views /\ page[c].at = "invoicing" /\ InvoiceLines(page[c].request)
      BY <1>9 DEF InvoiceRest, PagesRead
    <2>2. page[c].request \in Seq(Bill)
      BY <2>1 DEF Views
    <2>3. Bill \subseteq Draw(Lines)
      BY DEF Bill, Draw
    <2>4. page[c].request \in Seq(Draw(Lines))
      BY <2>2, <2>3, SeqMonotonic
    <2> QED
      BY <2>1, <2>4 DEF Handlers
  <1>10. ASSUME NEW c \in Clerks, RecordPayment(c) PROVE Handlers
    <2> DEFINE k == page[c].invoice
               pay == page[c].pay
               p == [amount |-> pay, exchange |-> Exchange,
                     allocations |-> <<AtInvoiceRate(pay)>>]
    <2>1. page[c] \in Views /\ page[c].at = "paying" /\ k \in DOMAIN invoices
      BY <1>10 DEF RecordPayment, PagesRead
    <2>2. Receive(p, <<k>>)
      BY <1>10 DEF RecordPayment
    <2>3. pay \in Int
      BY <2>1 DEF Views
    <2> HIDE DEF pay, k
    <2>4. pay * Exchange \in Int
      BY <2>3, <1>0
    <2>5. AtInvoiceRate(pay) \in Part
      BY <2>3, <2>4, <1>0, HalfEvenBounds DEF AtInvoiceRate, Part, Base
    <2>6. p \in Entry
      BY <2>3, <2>5, <1>0 DEF Entry
    <2>7. <<k>> \in [DOMAIN p.allocations -> DOMAIN invoices]
      <3>1. DOMAIN <<AtInvoiceRate(pay)>> = {1}
        OBVIOUS
      <3>2. <<k>> \in [{1} -> DOMAIN invoices]
        BY <2>1
      <3> QED
        BY <3>1, <3>2
    <2> HIDE DEF p
    <2> QED
      BY <2>2, <2>6, <2>7 DEF Handlers
  <1>11. ASSUME ImportInvoice PROVE Handlers
    <2> DEFINE byLine == UNION {[at : {l}, qty : Quantities, from : DrawnFrom(l)] : l \in Lines}
               byDoc(d) == {[at |-> goods[k].line, qty |-> q, from |-> k] :
                               k \in {j \in DOMAIN goods : goods[j].doc = d}, q \in Quantities}
    <2>1. byLine \subseteq Draw(Lines)
      <3>1. \A l \in Lines : DrawnFrom(l) \subseteq {None} \cup DOMAIN goods
        BY DEF DrawnFrom
      <3>2. ASSUME NEW l \in Lines PROVE [at : {l}, qty : Quantities, from : DrawnFrom(l)]
                                            \subseteq Draw(Lines)
        BY <1>0, <3>1 DEF Draw
      <3> QED
        BY <3>2
    <2>2. \A d : byDoc(d) \subseteq Draw(Lines)
      BY <1>0, <1>1 DEF Draw, GoodsLine
    <2>3. \/ \E request \in Requests(byLine, RequestLines) : InvoiceLines(request)
          \/ \E d \in {goods[k].doc : k \in DOMAIN goods} :
                \E request \in Requests(byDoc(d), RequestLines) : InvoiceLines(request)
      BY <1>11 DEF ImportInvoice
    <2> HIDE DEF byLine, byDoc
    <2>4. \A request \in Requests(byLine, RequestLines) : request \in Seq(Draw(Lines))
      BY <1>0, <2>1, RequestsAreSequences, SeqMonotonic
    <2>5. \A d : \A request \in Requests(byDoc(d), RequestLines) : request \in Seq(Draw(Lines))
      BY <1>0, <2>2, RequestsAreSequences, SeqMonotonic
    <2> QED
      BY <2>3, <2>4, <2>5 DEF Handlers
  <1>12. ASSUME ImportPayment PROVE Handlers
    <2>1. PICK p \in ImportedPayments :
             \E target \in [DOMAIN p.asked -> DOMAIN invoices] :
                Receive([amount |-> p.amount, exchange |-> p.exchange,
                         allocations |-> [i \in DOMAIN p.asked |-> AtInvoiceRate(
                             Smaller(p.asked[i], invoices[target[i]].outstanding))]], target)
      BY <1>12 DEF ImportPayment
    <2>2. PICK target \in [DOMAIN p.asked -> DOMAIN invoices] :
                Receive([amount |-> p.amount, exchange |-> p.exchange,
                         allocations |-> [i \in DOMAIN p.asked |-> AtInvoiceRate(
                             Smaller(p.asked[i], invoices[target[i]].outstanding))]], target)
      BY <2>1
    <2> DEFINE x(i) == Smaller(p.asked[i], invoices[target[i]].outstanding)
               parts == [i \in DOMAIN p.asked |-> AtInvoiceRate(x(i))]
               e == [amount |-> p.amount, exchange |-> p.exchange, allocations |-> parts]
    <2>3. p \in [amount : Nat, exchange : Nat, asked : Seq(Int)]
      BY EntryAssumption
    <2>4. \A i \in DOMAIN p.asked : x(i) \in Int
      <3>1. ASSUME NEW i \in DOMAIN p.asked
            PROVE  p.asked[i] \in Int /\ invoices[target[i]].outstanding \in Int
        <4>1. target[i] \in DOMAIN invoices
          BY <3>1
        <4>2. invoices[target[i]] \in Document
          BY <1>1, <4>1
        <4>3. p.asked \in Seq(Int)
          BY <2>3
        <4>4. p.asked[i] \in Int
          BY <4>3
        <4>5. \A d \in Document : d.outstanding \in Nat
          BY DEF Document
        <4> QED
          BY <4>2, <4>4, <4>5
      <3> QED
        BY <3>1 DEF Smaller
    <2>5. Receive(e, target)
      BY <2>2
    <2> HIDE DEF x
    <2>6. \A y \in Int : AtInvoiceRate(y) \in Part
      <3>1. \A y \in Int : y * Exchange \in Int
        BY <1>0
      <3> QED
        BY <3>1, <1>0, HalfEvenBounds DEF AtInvoiceRate, Part, Base
    <2>7. \A i \in DOMAIN p.asked : parts[i] \in Part
      BY <2>4, <2>6
    <2>8. DOMAIN p.asked = 1..Len(p.asked) /\ Len(p.asked) \in Nat
      BY <2>3
    <2>9. parts \in Seq(Part) /\ DOMAIN parts = DOMAIN p.asked
      BY <2>7, <2>8, FunctionIsSeq
    <2> HIDE DEF parts
    <2>10. e \in Entry /\ e.allocations = parts
      BY <2>3, <2>9 DEF Entry
    <2> HIDE DEF e
    <2> QED
      BY <2>5, <2>9, <2>10 DEF Handlers
  <1>15. ASSUME NEW c \in Clerks, Button(c) PROVE [Handlers]_vars
    <2>1. ASSUME NEW v, Shown(c, v) PROVE UNCHANGED vars
      BY <2>1 DEF Shown
    <2> QED
      BY <1>8, <1>9, <1>10, <1>15, <2>1
         DEF Button, PressDeliver, ReadUndelivered, PressInvoice, ReadInvoices, ReadUnbilled,
             PressPay, GiveUp
  <1> QED
    BY <1>2, <1>3, <1>4, <1>5, <1>6, <1>7, <1>11, <1>12, <1>15 DEF EntryNext, Next, entry

-----------------------------------------------------------------------------
(* The bounds each row keeps, and the links between rows. *)

GoodsSound ==
    \A k \in DOMAIN goods :
        /\ 1 <= goods[k].doc /\ goods[k].doc <= k
        /\ goods[k].returned <= goods[k].qty
        /\ goods[k].kind = "Return" => goods[k].returned = 0
        /\ goods[k].charge = None <=> (goods[k].line \notin Goods \/ goods[k].kind = "Return")

Open(d) ==
    /\ d.total > 0 /\ d.outstanding <= d.total /\ d.paid = d.total - d.outstanding
    /\ d.status = CASE d.outstanding = d.total -> "Unpaid"
                    [] d.outstanding = 0       -> "Paid"
                    [] OTHER                   -> "Partly Paid"
    /\ \A j \in DOMAIN d.lines : d.lines[j].credited <= d.lines[j].qty

DocumentsSound ==
    \A k \in DOMAIN invoices :
        /\ Open(invoices[k])
        /\ IF invoices[k].type = "Invoice" THEN invoices[k].against = None
           ELSE invoices[k].against \in 1..(k - 1)
        /\ \A j \in DOMAIN invoices[k].lines :
              invoices[k].lines[j].from \in {None} \cup DOMAIN goods

Sound == Typed /\ GoodsSound /\ DocumentsSound

-----------------------------------------------------------------------------
(* The values the handlers compute. *)

(* Cost is posted within half a unit of what it is, and nothing as nothing. *)
LEMMA BookedNear ==
  /\ \A x \in Int : Booked(x) \in Int /\ Near(Fine, Booked(x), x, 1)
  /\ Booked(0) = 0 /\ Fine \in Nat \ {0}
  <1>1. Fine \in Nat \ {0}
    BY OrderAssumption
  <1>2. HalfEven(Fine * 0, Fine) = 0 /\ Fine * 0 = 0
    BY <1>1, HalfEvenExact
  <1> QED
    BY <1>1, <1>2, HalfEvenNear DEF Booked

(* Rounding a value to base currency keeps integers and natural numbers. *)
LEMMA BaseValue ==
  /\ \A x \in Int : Base(x) \in Int
  /\ \A x \in Nat : Base(x) \in Nat
  /\ Base(0) = 0
  <1>1. Exchange \in Nat \ {0} /\ Scale \in Nat \ {0}
    BY OrderAssumption
  <1>2. \A x \in Int : Base(x) \in Int
    BY <1>1, Products, HalfEvenBounds DEF Base
  <1>3. \A x \in Nat : Base(x) \in Nat
    BY <1>1, Products, HalfEvenNat DEF Base
  <1>4. HalfEven(Scale * 0, Scale) = 0
    BY <1>1, HalfEvenExact
  <1>5. 0 * Exchange = Scale * 0
    BY <1>1
  <1> QED
    BY <1>2, <1>3, <1>4, <1>5 DEF Base

(* The status of an order is one of those the table admits. *)
LEMMA StatusIsKnown == ASSUME NEW ls PROVE StatusOf(ls) \in Statuses
  <1> DEFINE sum(f) == SumFunction([l \in Lines |-> ls[l][f]])
             invoiced == sum("invoiced")
             net == sum("delivered") - sum("returned")
             ordered == SumFunction(Ordered)
  <1>1. StatusOf(ls) =
          CASE invoiced >= ordered                    -> "Invoiced"
            [] invoiced < ordered /\ invoiced > 0      -> "Partly Invoiced"
            [] invoiced <= 0 /\ net >= ordered         -> "Delivered"
            [] invoiced <= 0 /\ net < ordered /\ net > 0 -> "Partly Delivered"
            [] OTHER                                   -> "Confirmed"
    BY DEF StatusOf
  <1> HIDE DEF invoiced, net, ordered
  <1> QED
    BY <1>1 DEF Statuses

\* The refreshed order has a state and a status.
LEMMA RefreshIsTyped ==
  ASSUME Typed, Refreshed
  PROVE  order' \in [state : {"Draft", "Posted"}, status : Statuses]
  BY StatusIsKnown DEF Typed, Refreshed

(* The totals of document lines. *)
LEMMA LineTotals ==
  ASSUME NEW ls \in Seq(DocumentLine)
  PROVE  /\ Total(ls, "net") \in Nat /\ Total(ls, "tax") \in Nat
         /\ BaseNet(ls) \in Nat /\ BaseTotal(ls) \in Nat /\ BaseTax(ls) \in Int
         /\ BaseNet(ls) > 0 => Total(ls, "net") > 0
  <1>1. DOMAIN ls = 1..Len(ls) /\ Len(ls) \in Nat /\ \A i \in DOMAIN ls : ls[i] \in DocumentLine
    OBVIOUS
  <1>2. \A i \in DOMAIN ls : ls[i].net \in Nat /\ ls[i].tax \in Nat
    BY <1>1 DEF DocumentLine
  <1>3. Total(ls, "net") \in Nat
    <2> DEFINE v == [i \in DOMAIN ls |-> ls[i]["net"]]
    <2>1. v \in [1..Len(ls) -> Nat]
      BY <1>1, <1>2
    <2>2. v \in Seq(Nat)
      BY <1>1, <2>1, FunctionIsSeq
    <2> HIDE DEF v
    <2> QED
      BY <2>2, SeqSumNat DEF Total, v
  <1>4. Total(ls, "tax") \in Nat
    <2> DEFINE v == [i \in DOMAIN ls |-> ls[i]["tax"]]
    <2>1. v \in [1..Len(ls) -> Nat]
      BY <1>1, <1>2
    <2>2. v \in Seq(Nat)
      BY <1>1, <2>1, FunctionIsSeq
    <2> HIDE DEF v
    <2> QED
      BY <2>2, SeqSumNat DEF Total, v
  <1>5. SeqSum([i \in DOMAIN ls |-> IF OwnTax(ls[i]) THEN Base(ls[i].tax) ELSE 0]) \in Int
    <2> DEFINE v == [i \in DOMAIN ls |-> IF OwnTax(ls[i]) THEN Base(ls[i].tax) ELSE 0]
    <2>1. v \in [1..Len(ls) -> Int]
      BY <1>1, <1>2, BaseValue
    <2>2. v \in Seq(Int)
      BY <1>1, <2>1, FunctionIsSeq
    <2> HIDE DEF v
    <2> QED
      BY <2>2, SeqSumInt DEF v
  <1>6. BaseNet(ls) \in Nat /\ BaseTotal(ls) \in Nat
    BY <1>3, <1>4, BaseValue DEF BaseNet, BaseTotal
  <1>7. BaseTax(ls) \in Int
    BY <1>4, <1>5, BaseValue DEF BaseTax, SumWhere
  <1>8. BaseNet(ls) > 0 => Total(ls, "net") > 0
    BY <1>3, BaseValue DEF BaseNet
  <1> QED
    BY <1>3, <1>4, <1>6, <1>7, <1>8

(* Settling part of what a document has open. *)
LEMMA SettledDocument ==
  ASSUME NEW d \in Document, Open(d), NEW x \in Nat \ {0}, x <= d.outstanding
  PROVE  /\ Settled(d, x) \in Document /\ Open(Settled(d, x))
         /\ Settled(d, x).type = d.type /\ Settled(d, x).against = d.against
         /\ Settled(d, x).total = d.total /\ Settled(d, x).lines = d.lines
         /\ Settled(d, x).outstanding = d.outstanding - x
         /\ Settled(d, x).paid = d.paid + x
  <1> DEFINE e == Settled(d, x)
  <1>1. /\ d.total \in Nat /\ d.outstanding \in Nat /\ d.paid \in Nat
        /\ d.lines \in Seq(DocumentLine)
    BY DEF Document
  <1>0. d.total > 0 /\ d.outstanding <= d.total /\ d.paid = d.total - d.outstanding
    BY DEF Open
  <1>2. /\ e.type = d.type /\ e.against = d.against /\ e.total = d.total /\ e.lines = d.lines
        /\ e.outstanding = d.outstanding - x /\ e.paid = d.total - (d.outstanding - x)
    BY DEF Settled, Document
  <1>10. e.status = IF d.outstanding = x THEN "Paid" ELSE "Partly Paid"
    BY DEF Settled, Document
  <1>3. d.outstanding - x \in Nat /\ d.total - (d.outstanding - x) \in Nat
    BY <1>0, <1>1
  <1>4. e \in Document
    BY <1>3 DEF Settled, Document, DocumentStatuses
  <1> HIDE DEF e
  <1>5. e.total > 0 /\ e.outstanding <= e.total /\ e.paid = e.total - e.outstanding
    BY <1>0, <1>1, <1>2
  <1>6. e.outstanding # e.total /\ (e.outstanding = 0 <=> d.outstanding = x)
    BY <1>0, <1>1, <1>2
  <1>7. \A j \in DOMAIN e.lines : e.lines[j].credited <= e.lines[j].qty
    BY <1>2 DEF Open
  <1>8. Open(e)
    BY <1>10, <1>5, <1>6, <1>7 DEF Open
  <1>9. e.paid = d.paid + x
    BY <1>0, <1>1, <1>2
  <1> QED
    BY <1>2, <1>4, <1>8, <1>9 DEF e

(* A new document of lines none of which is credited. *)
Fresh(ls) == \A j \in DOMAIN ls : ls[j].credited = 0

\* A document made from lines that post is an open one.
LEMMA NewIsDocument ==
  ASSUME NEW type \in Kinds, NEW against \in {None} \cup Nat,
         NEW ls \in Seq(DocumentLine), Posts(ls),
         Fresh(ls)
  PROVE  LET total == Total(ls, "net") + Total(ls, "tax")
             d == NewDocument(type, against, ls, total, 0, "Unpaid")
         IN  /\ total \in Nat \ {0}
             /\ d \in Document /\ Open(d) /\ d.type = type /\ d.against = against
             /\ d.total = total /\ d.outstanding = total /\ d.paid = 0 /\ d.lines = ls
  <1> DEFINE total == Total(ls, "net") + Total(ls, "tax")
             d == NewDocument(type, against, ls, total, 0, "Unpaid")
  <1>1. total \in Nat \ {0} /\ 0 \in Nat
    <2>1. Total(ls, "net") \in Nat /\ Total(ls, "tax") \in Nat /\ Total(ls, "net") > 0
      BY LineTotals DEF Posts
    <2> QED
      BY <2>1
  <1>2. /\ d.type = type /\ d.against = against /\ d.total = total /\ d.outstanding = total
        /\ d.paid = 0 /\ d.lines = ls
    BY DEF NewDocument
  <1>7. d.status = "Unpaid"
    BY DEF NewDocument
  <1>3. d \in Document
    <2> HIDE DEF total
    <2> QED
      BY <1>1 DEF NewDocument, Document, DocumentStatuses, total
  <1>4. \A j \in DOMAIN ls : ls[j].credited <= ls[j].qty
    <2>1. \A j \in DOMAIN ls : ls[j] \in DocumentLine
      OBVIOUS
    <2>2. \A x \in DocumentLine : x.qty \in Nat
      BY DEF DocumentLine
    <2> QED
      BY <2>1, <2>2 DEF Fresh
  <1> HIDE DEF total, d
  <1>5. d.total > 0 /\ d.outstanding <= d.total /\ d.paid = d.total - d.outstanding
    BY <1>1, <1>2
  <1>6. Open(d)
    BY <1>2, <1>7, <1>4, <1>5 DEF Open
  <1> QED
    BY <1>1, <1>2, <1>3, <1>6 DEF total, d

-----------------------------------------------------------------------------
(* What each handler does to the rows. *)

(* A row is in the table it is read from. *)
LEMMA Rows ==
  ASSUME Typed
  PROVE  /\ \A k \in DOMAIN goods : goods[k] \in GoodsLine
         /\ \A k \in DOMAIN invoices : invoices[k] \in Document
         /\ \A k \in DOMAIN payments : payments[k] \in Payment
         /\ \A l \in Lines : line[l] \in Counters
         /\ DOMAIN goods = 1..Len(goods) /\ Len(goods) \in Nat
         /\ DOMAIN invoices = 1..Len(invoices) /\ Len(invoices) \in Nat
         /\ \A a \in Accounts : gl[a] \in Int
  BY DEF Typed

(* Every account has a balance. *)
LEMMA AccountBalances ==
  ASSUME Typed
  PROVE  /\ gl \in [Accounts -> Int]
         /\ gl.ar \in Int /\ gl.sales \in Int /\ gl.tax \in Int /\ gl.bank \in Int
         /\ gl.fx \in Int /\ gl.cogs \in Int /\ gl.inventory \in Int
  BY DEF Typed, Accounts

(* A voucher changes the accounts it names and no other. *)
LEMMA Vouchers ==
  ASSUME Typed, NEW x, NEW y, NEW z
  PROVE  /\ gl' = [gl EXCEPT !.cogs = @ + x, !.inventory = @ - x] =>
               /\ gl'.cogs = gl.cogs + x /\ gl'.inventory = gl.inventory - x
               /\ gl'.ar = gl.ar /\ gl'.fx = gl.fx
         /\ gl' = [gl EXCEPT !.inventory = @ + x, !.cogs = @ - x] =>
               /\ gl'.cogs = gl.cogs - x /\ gl'.inventory = gl.inventory + x
               /\ gl'.ar = gl.ar /\ gl'.fx = gl.fx
         /\ gl' = [gl EXCEPT !.ar = @ + x, !.sales = @ - y, !.tax = @ - z] =>
               /\ gl'.cogs = gl.cogs /\ gl'.inventory = gl.inventory
               /\ gl'.ar = gl.ar + x /\ gl'.fx = gl.fx
         /\ gl' = [gl EXCEPT !.ar = @ - x, !.sales = @ + y, !.tax = @ + z] =>
               /\ gl'.cogs = gl.cogs /\ gl'.inventory = gl.inventory
               /\ gl'.ar = gl.ar - x /\ gl'.fx = gl.fx
         /\ gl' = [gl EXCEPT !.bank = @ + x, !.ar = @ - y, !.fx = @ - z] =>
               /\ gl'.cogs = gl.cogs /\ gl'.inventory = gl.inventory
               /\ gl'.ar = gl.ar - y /\ gl'.fx = gl.fx - z
  <1>1. DOMAIN gl = {"ar", "sales", "tax", "bank", "fx", "cogs", "inventory"}
    BY DEF Typed, Accounts
  <1>2. ASSUME gl' = [gl EXCEPT !.cogs = @ + x, !.inventory = @ - x]
        PROVE  /\ gl'.cogs = gl.cogs + x /\ gl'.inventory = gl.inventory - x
               /\ gl'.ar = gl.ar /\ gl'.fx = gl.fx
    BY <1>1, <1>2
  <1>3. ASSUME gl' = [gl EXCEPT !.inventory = @ + x, !.cogs = @ - x]
        PROVE  /\ gl'.cogs = gl.cogs - x /\ gl'.inventory = gl.inventory + x
               /\ gl'.ar = gl.ar /\ gl'.fx = gl.fx
    BY <1>1, <1>3
  <1>4. ASSUME gl' = [gl EXCEPT !.ar = @ + x, !.sales = @ - y, !.tax = @ - z]
        PROVE  /\ gl'.cogs = gl.cogs /\ gl'.inventory = gl.inventory
               /\ gl'.ar = gl.ar + x /\ gl'.fx = gl.fx
    BY <1>1, <1>4
  <1>5. ASSUME gl' = [gl EXCEPT !.ar = @ - x, !.sales = @ + y, !.tax = @ + z]
        PROVE  /\ gl'.cogs = gl.cogs /\ gl'.inventory = gl.inventory
               /\ gl'.ar = gl.ar - x /\ gl'.fx = gl.fx
    BY <1>1, <1>5
  <1>6. ASSUME gl' = [gl EXCEPT !.bank = @ + x, !.ar = @ - y, !.fx = @ - z]
        PROVE  /\ gl'.cogs = gl.cogs /\ gl'.inventory = gl.inventory
               /\ gl'.ar = gl.ar - y /\ gl'.fx = gl.fx - z
    BY <1>1, <1>6
  <1> QED
    BY <1>2, <1>3, <1>4, <1>5, <1>6

(* The lines of a request, as rows. *)
LEMMA Requested ==
  ASSUME NEW S, NEW request \in Seq(Ask(S))
  PROVE  /\ DOMAIN request = 1..Len(request) /\ Len(request) \in Nat
         /\ \A i \in DOMAIN request : request[i].at \in S /\ request[i].qty \in Nat \ {0}
         /\ \A i \in DOMAIN request : request[i].qty \in Nat
         /\ \A l : Asked(request, l) \in Nat
         /\ \A l : (\A i \in DOMAIN request : request[i].at # l) => Asked(request, l) = 0
  <1>1. /\ DOMAIN request = 1..Len(request) /\ Len(request) \in Nat
        /\ \A i \in DOMAIN request : request[i] \in Ask(S)
    OBVIOUS
  <1>2. \A i \in DOMAIN request : request[i].at \in S /\ request[i].qty \in Nat \ {0}
    BY <1>1 DEF Ask
  <1>3. \A i \in DOMAIN request : request[i].qty \in Nat
    BY <1>2
  <1> QED
    BY <1>1, <1>2, <1>3, AskedNat

(* The rows of a delivery. *)
Issued(request, new) ==
    /\ DOMAIN new = DOMAIN request
    /\ \A i \in DOMAIN new :
          /\ new[i].doc = Len(goods) + 1 /\ new[i].kind = "Delivery"
          /\ new[i].line = request[i].at /\ new[i].qty = request[i].qty
          /\ new[i].returned = 0 /\ new[i].billed = 0
          /\ new[i].charge = None <=> request[i].at \notin Goods

\* What the goods among the rows took off the stock.
Value == [g \in GoodsLine |-> IF g.charge # None THEN g.charge.value ELSE 0]

\* What a row took off the stock is an amount of cost.
LEMMA ValueTyped == Value \in [GoodsLine -> Int]
  <1>1. \A g \in GoodsLine : g.charge # None => g.charge \in [value : Nat, left : Nat]
    BY DEF GoodsLine
  <1> QED
    BY <1>1 DEF Value

\* A delivery issues one row a request and posts what they cost.
LEMMA DeliverRows ==
  ASSUME Typed, NEW request \in Seq(Ask(Lines)), DeliverLines(request)
  PROVE  \E new \in Seq(GoodsLine) :
            /\ Issued(request, new) /\ goods' = goods \o new
            /\ gl' = [gl EXCEPT !.cogs = @ + Booked(Over(Value, new)),
                                !.inventory = @ - Booked(Over(Value, new))]
  <1>1. PICK charge \in [DOMAIN request -> Charges] :
          /\ goods' = goods \o [i \in DOMAIN request |->
                 [doc |-> Len(goods) + 1, kind |-> "Delivery", line |-> request[i].at,
                  qty |-> request[i].qty, returned |-> 0, billed |-> 0,
                  charge |-> IF request[i].at \in Goods THEN charge[i] ELSE None]]
          /\ gl' = [gl EXCEPT !.cogs = @ + Cost(request, charge),
                              !.inventory = @ - Cost(request, charge)]
    BY DEF DeliverLines
  <1> DEFINE row(i) == [doc |-> Len(goods) + 1, kind |-> "Delivery", line |-> request[i].at,
                        qty |-> request[i].qty, returned |-> 0, billed |-> 0,
                        charge |-> IF request[i].at \in Goods THEN charge[i] ELSE None]
             new == [i \in DOMAIN request |-> row(i)]
  <1>2. /\ Charges \subseteq [value : Nat, left : Nat]
        /\ None \notin [value : Nat, left : Nat]
    BY OrderAssumption
  <1>3. \A i \in DOMAIN request : charge[i] \in [value : Nat, left : Nat] /\ charge[i] # None
    BY <1>2
  <1>4. \A i \in DOMAIN request : request[i].at \in Lines /\ request[i].qty \in Nat \ {0}
    BY Requested
  <1>5. \A i \in DOMAIN request : row(i) \in GoodsLine
    <2>1. Len(goods) + 1 \in Nat
      BY Rows
    <2>2. "Delivery" \in Movements
      BY DEF Movements
    <2> QED
      BY <1>3, <1>4, <2>1, <2>2 DEF GoodsLine
  <1>6. new \in Seq(GoodsLine) /\ DOMAIN new = DOMAIN request
    <2>1. new \in [1..Len(request) -> GoodsLine]
      BY <1>5, Requested
    <2> QED
      BY <2>1, Requested, FunctionIsSeq
  <1>7. Issued(request, new)
    BY <1>3 DEF Issued
  <1>8. Cost(request, charge) = Booked(Over(Value, new))
    <2>1. \A i \in DOMAIN request :
             /\ new[i] \in GoodsLine
             /\ new[i].charge # None <=> request[i].at \in Goods
             /\ request[i].at \in Goods => new[i].charge = charge[i]
      BY <1>3, <1>5
    <2> HIDE DEF new
    <2>2. [i \in DOMAIN request |-> IF request[i].at \in Goods THEN charge[i].value ELSE 0]
          = [i \in DOMAIN new |-> Value[new[i]]]
      BY <1>6, <2>1 DEF Value
    <2> QED
      BY <2>2 DEF Cost, Over
  <1>9. goods' = goods \o new
    BY <1>1
  <1> HIDE DEF new
  <1> QED
    BY <1>1, <1>6, <1>7, <1>8, <1>9

(* The rows of a return, and the delivery rows they take from. *)
Taken(request, old) ==
    /\ DOMAIN old = DOMAIN goods
    /\ \A k \in DOMAIN goods :
          /\ old[k].doc = goods[k].doc /\ old[k].kind = goods[k].kind
          /\ old[k].line = goods[k].line /\ old[k].qty = goods[k].qty
          /\ old[k].billed = goods[k].billed /\ old[k].charge = goods[k].charge
          /\ old[k].returned = goods[k].returned + Asked(request, k)
          /\ old[k].returned <= goods[k].qty
          /\ Asked(request, k) > 0 => goods[k].kind = "Delivery" /\ goods[k].charge # None

Returned(request, new) ==
    /\ DOMAIN new = DOMAIN request
    /\ \A i \in DOMAIN new :
          /\ new[i].doc = Len(goods) + 1 /\ new[i].kind = "Return"
          /\ new[i].line = goods[request[i].at].line /\ new[i].qty = request[i].qty
          /\ new[i].returned = 0 /\ new[i].billed = 0
          /\ new[i].charge = None /\ new[i].line \in Goods

\* A return is received at the rate of the row it takes from.
LEMMA ReturnCostNat ==
  ASSUME NEW g \in GoodsLine, g.charge # None
  PROVE  ReturnCost(g) \in Nat
  <1>1. g.charge \in [value : Nat, left : Nat] /\ g.qty \in Nat \ {0}
    BY DEF GoodsLine
  <1>2. g.charge.value \in Nat /\ g.charge.left \in Nat
    BY <1>1
  <1>3. HalfEven(g.charge.value, g.qty) \in Nat
    BY <1>1, <1>2, HalfEvenNat
  <1> QED
    BY <1>2, <1>3 DEF ReturnCost

\* A return takes from the rows it names and adds one row a request.
LEMMA ReturnRows ==
  ASSUME Typed, GoodsSound, NEW request \in Seq(Ask(DOMAIN goods)), ReturnLines(request)
  PROVE  \E old \in Seq(GoodsLine), new \in Seq(GoodsLine) :
            Taken(request, old) /\ Returned(request, new) /\ goods' = old \o new
  <1> DEFINE back(k) == [goods[k] EXCEPT !.returned = @ + Asked(request, k)]
             old == [k \in DOMAIN goods |-> back(k)]
             row(i) == LET g == goods[request[i].at]
                       IN  [doc |-> Len(goods) + 1, kind |-> "Return", line |-> g.line,
                            qty |-> request[i].qty, returned |-> 0, billed |-> 0,
                            charge |-> None]
             new == [i \in DOMAIN request |-> row(i)]
  <1>1. goods' = old \o new
    BY DEF ReturnLines
  <1>2. \A i \in DOMAIN request :
           /\ request[i].at \in DOMAIN goods /\ request[i].qty \in Nat \ {0}
           /\ goods[request[i].at] \in GoodsLine
    BY Requested, Rows
  <1>3. \A i \in DOMAIN request :
           /\ goods[request[i].at].kind = "Delivery" /\ goods[request[i].at].charge # None
           /\ goods[request[i].at].returned + Asked(request, request[i].at)
                <= goods[request[i].at].qty
    BY DEF ReturnLines, ReturnAllowed
  <1>4. \A g \in GoodsLine : g.returned \in Nat /\ g.qty \in Nat \ {0} /\ g.line \in Lines
    BY DEF GoodsLine
  <1>5. \A k \in DOMAIN goods :
           /\ goods[k] \in GoodsLine /\ Asked(request, k) \in Nat
           /\ goods[k].returned + Asked(request, k) \in Nat
    BY <1>4, Requested, Rows
  <1>6. ASSUME NEW k \in DOMAIN goods
        PROVE  /\ goods[k].returned + Asked(request, k) <= goods[k].qty
               /\ Asked(request, k) > 0 => goods[k].kind = "Delivery" /\ goods[k].charge # None
    <2>1. CASE \E i \in DOMAIN request : request[i].at = k
      BY <2>1, <1>3
    <2>2. CASE \A i \in DOMAIN request : request[i].at # k
      <3>1. Asked(request, k) = 0
        BY <2>2, Requested
      <3>2. goods[k].returned <= goods[k].qty /\ goods[k].returned \in Nat
        BY <1>4, <1>5 DEF GoodsSound
      <3> QED
        BY <3>1, <3>2
    <2> QED
      BY <2>1, <2>2
  <1>7. ASSUME NEW k \in DOMAIN goods
        PROVE  /\ back(k) \in GoodsLine
               /\ back(k).doc = goods[k].doc /\ back(k).kind = goods[k].kind
               /\ back(k).line = goods[k].line /\ back(k).qty = goods[k].qty
               /\ back(k).billed = goods[k].billed /\ back(k).charge = goods[k].charge
               /\ back(k).returned = goods[k].returned + Asked(request, k)
    BY <1>5 DEF GoodsLine
  <1>8. old \in Seq(GoodsLine) /\ DOMAIN old = DOMAIN goods
    <2>1. old \in [1..Len(goods) -> GoodsLine]
      BY <1>7, Rows
    <2> QED
      BY <2>1, Rows, FunctionIsSeq
  <1>9. Taken(request, old)
    <2> HIDE DEF back
    <2> QED
      BY <1>6, <1>7 DEF Taken
  <1>10. \A i \in DOMAIN request : row(i) \in GoodsLine
    <2>1. Len(goods) + 1 \in Nat
      BY Rows
    <2>2. "Return" \in Movements
      BY DEF Movements
    <2>3. \A i \in DOMAIN request : goods[request[i].at].line \in Lines
      BY <1>2, <1>4
    <2> QED
      BY <1>2, <2>1, <2>2, <2>3 DEF GoodsLine
  <1>11. new \in Seq(GoodsLine) /\ DOMAIN new = DOMAIN request
    <2>1. new \in [1..Len(request) -> GoodsLine]
      BY <1>10, Requested
    <2> QED
      BY <2>1, Requested, FunctionIsSeq
  <1>12. Returned(request, new)
    <2>1. \A i \in DOMAIN request : goods[request[i].at].line \in Goods
      BY <1>2, <1>3 DEF GoodsSound
    <2> QED
      BY <2>1 DEF Returned
  <1> HIDE DEF old, new
  <1> QED
    BY <1>1, <1>8, <1>9, <1>11, <1>12

(* Rows added at the end, and the links of the documents to them. *)
LEMMA GoodsGrow ==
  ASSUME Sound, NEW old \in Seq(GoodsLine), NEW new \in Seq(GoodsLine), goods' = old \o new,
         DOMAIN old = DOMAIN goods, invoices' = invoices,
         \A k \in DOMAIN old :
            /\ 1 <= old[k].doc /\ old[k].doc <= k /\ old[k].returned <= old[k].qty
            /\ old[k].kind = "Return" => old[k].returned = 0
            /\ old[k].charge = None <=> (old[k].line \notin Goods \/ old[k].kind = "Return"),
         \A i \in DOMAIN new :
            /\ new[i].doc = Len(goods) + 1 /\ new[i].returned = 0
            /\ new[i].charge = None <=> (new[i].line \notin Goods \/ new[i].kind = "Return")
  PROVE  goods' \in Seq(GoodsLine) /\ GoodsSound' /\ DocumentsSound'
  <1>1. goods' \in Seq(GoodsLine)
    OBVIOUS
  <1>2. /\ DOMAIN old = 1..Len(old) /\ Len(old) \in Nat /\ Len(old) = Len(goods)
        /\ DOMAIN new = 1..Len(new) /\ Len(new) \in Nat
        /\ DOMAIN goods' = 1..(Len(old) + Len(new)) /\ Len(goods') = Len(old) + Len(new)
        /\ DOMAIN goods = 1..Len(goods) /\ Len(goods) \in Nat
    BY Rows DEF Sound
  <1>3. ASSUME NEW k \in DOMAIN goods'
        PROVE  \/ k \in DOMAIN old /\ goods'[k] = old[k]
               \/ k - Len(old) \in DOMAIN new /\ k >= Len(old) + 1 /\ goods'[k] = new[k - Len(old)]
    <2>1. CASE k <= Len(old)
      BY <1>2, <2>1
    <2>2. CASE k > Len(old)
      BY <1>2, <2>2
    <2> QED
      BY <1>2, <2>1, <2>2
  <1>4. GoodsSound'
    <2>1. ASSUME NEW k \in DOMAIN goods'
          PROVE  /\ 1 <= goods'[k].doc /\ goods'[k].doc <= k
                 /\ goods'[k].returned <= goods'[k].qty
                 /\ goods'[k].kind = "Return" => goods'[k].returned = 0
                 /\ goods'[k].charge = None
                      <=> (goods'[k].line \notin Goods \/ goods'[k].kind = "Return")
      <3>1. CASE k \in DOMAIN old /\ goods'[k] = old[k]
        BY <3>1
      <3>2. CASE k - Len(old) \in DOMAIN new /\ k >= Len(old) + 1 /\ goods'[k] = new[k - Len(old)]
        <4>1. new[k - Len(old)].qty \in Nat
          <5>1. new[k - Len(old)] \in GoodsLine
            BY <3>2
          <5> QED
            BY <5>1 DEF GoodsLine
        <4> QED
          BY <1>2, <3>2, <4>1
      <3> QED
        BY <1>3, <3>1, <3>2
    <2> QED
      BY <2>1 DEF GoodsSound
  <1>5. DOMAIN goods \subseteq DOMAIN goods'
    BY <1>2
  <1>6. DocumentsSound'
    BY <1>5 DEF Sound, DocumentsSound, Open
  <1> QED
    BY <1>1, <1>4, <1>6

\* A delivery keeps the invariant.
LEMMA DeliverSound ==
  ASSUME Sound, NEW request \in Seq(Ask(Lines)), DeliverLines(request)
  PROVE  Sound'
  <1>1. Typed /\ GoodsSound
    BY DEF Sound
  <1>2. PICK new \in Seq(GoodsLine) :
           /\ Issued(request, new) /\ goods' = goods \o new
           /\ gl' = [gl EXCEPT !.cogs = @ + Booked(Over(Value, new)),
                               !.inventory = @ - Booked(Over(Value, new))]
    BY <1>1, DeliverRows
  <1>3. line' \in [Lines -> Counters]
    <2>1. ASSUME NEW l \in Lines
          PROVE  [line[l] EXCEPT !.delivered = @ + Asked(request, l)] \in Counters
      <3>1. line[l] \in Counters /\ Asked(request, l) \in Nat
        BY <1>1, Rows, Requested
      <3> QED
        BY <3>1 DEF Counters
    <2> QED
      BY <2>1 DEF DeliverLines
  <1>4. Booked(Over(Value, new)) \in Int
    BY ValueTyped, OverInt, BookedNear
  <1>5. gl' \in [Accounts -> Int]
    <2>1. gl' = [a \in Accounts |-> 
                    IF a = "cogs" THEN gl[a] + Booked(Over(Value, new))
                    ELSE IF a = "inventory" THEN gl[a] - Booked(Over(Value, new)) ELSE gl[a]]
      BY <1>1, <1>2 DEF Typed, Accounts
    <2> QED
      BY <1>1, <1>4, <2>1, Rows
  <1>6. UNCHANGED <<invoices, payments, party>> /\ Refreshed
    BY DEF DeliverLines
  <1>7. goods' \in Seq(GoodsLine) /\ GoodsSound' /\ DocumentsSound'
    <2>1. \A k \in DOMAIN goods :
            /\ 1 <= goods[k].doc /\ goods[k].doc <= k /\ goods[k].returned <= goods[k].qty
            /\ goods[k].kind = "Return" => goods[k].returned = 0
            /\ goods[k].charge = None <=> (goods[k].line \notin Goods \/ goods[k].kind = "Return")
      BY <1>1 DEF GoodsSound
    <2>2. \A i \in DOMAIN new :
            /\ new[i].doc = Len(goods) + 1 /\ new[i].returned = 0
            /\ new[i].charge = None <=> (new[i].line \notin Goods \/ new[i].kind = "Return")
      BY <1>2 DEF Issued
    <2>3. goods \in Seq(GoodsLine)
      BY <1>1 DEF Typed
    <2> QED
      BY <1>2, <1>6, <2>1, <2>2, <2>3, GoodsGrow
  <1>8. Typed'
    BY <1>1, <1>3, <1>5, <1>6, <1>7, RefreshIsTyped DEF Typed
  <1> QED
    BY <1>7, <1>8 DEF Sound

(* What a return brings back to an order line. *)
LEMMA BroughtNat ==
  ASSUME NEW S, NEW request \in Seq(Ask(S)), NEW l
  PROVE  Brought(request, l) \in Nat
  <1> DEFINE v == [i \in DOMAIN request |->
                     IF goods[request[i].at].line = l THEN request[i].qty ELSE 0]
  <1>1. v \in [1..Len(request) -> Nat]
    BY Requested
  <1>2. v \in Seq(Nat)
    BY <1>1, Requested, FunctionIsSeq
  <1>3. Brought(request, l) = SeqSum(v)
    BY DEF Brought, SumWhere
  <1> HIDE DEF v
  <1> QED
    BY <1>2, <1>3, SeqSumNat

\* What the goods a return takes back are worth, before it is posted.
Worthy(request) == SumWhere(request, Always, LAMBDA x : x.qty * ReturnCost(goods[x.at]))

(* The value a return is received at. *)
LEMMA WorthyInt ==
  ASSUME Typed, NEW request \in Seq(Ask(DOMAIN goods)), ReturnLines(request)
  PROVE  Worthy(request) \in Int
  <1>1. ASSUME NEW i \in DOMAIN request
        PROVE  request[i].qty * ReturnCost(goods[request[i].at]) \in Int
    <2>1. goods[request[i].at] \in GoodsLine /\ request[i].qty \in Int
      BY Requested, Rows
    <2>2. goods[request[i].at].charge # None
      BY DEF ReturnLines, ReturnAllowed
    <2>3. ReturnCost(goods[request[i].at]) \in Int
      BY <2>1, <2>2, ReturnCostNat
    <2> QED
      BY <2>1, <2>3, Products
  <1> DEFINE v == [i \in DOMAIN request |->
                     IF Always(request[i])
                     THEN request[i].qty * ReturnCost(goods[request[i].at]) ELSE 0]
  <1>2. v \in [1..Len(request) -> Int]
    BY <1>1, Requested
  <1>3. v \in Seq(Int)
    BY <1>2, Requested, FunctionIsSeq
  <1>4. Worthy(request) = SeqSum(v)
    BY DEF Worthy, SumWhere
  <1> HIDE DEF v
  <1> QED
    BY <1>3, <1>4, SeqSumInt

\* So is what it posts.
LEMMA ReturnValueInt ==
  ASSUME Typed, NEW request \in Seq(Ask(DOMAIN goods)), ReturnLines(request)
  PROVE  ReturnValue(request) \in Int
  BY WorthyInt, BookedNear DEF ReturnValue, Worthy

\* A return keeps the invariant.
LEMMA ReturnSound ==
  ASSUME Sound, NEW request \in Seq(Ask(DOMAIN goods)), ReturnLines(request)
  PROVE  Sound'
  <1>1. Typed /\ GoodsSound
    BY DEF Sound
  <1>2. PICK old \in Seq(GoodsLine), new \in Seq(GoodsLine) :
           Taken(request, old) /\ Returned(request, new) /\ goods' = old \o new
    BY <1>1, ReturnRows
  <1>3. \A l : Brought(request, l) \in Nat
    BY BroughtNat
  <1>4. line' \in [Lines -> Counters]
    <2>1. ASSUME NEW l \in Lines
          PROVE  LineReturned(line, l, Brought(request, l)) \in Counters
      <3>1. line[l] \in Counters /\ Brought(request, l) \in Nat
        BY <1>1, <1>3, Rows
      <3>2. LineReturned(line, l, Brought(request, l))
              = [line[l] EXCEPT !.returned = line[l].returned + Brought(request, l)]
        BY DEF LineReturned
      <3>3. \A r \in Counters, q \in Nat : [r EXCEPT !.returned = r.returned + q] \in Counters
        BY DEF Counters
      <3> QED
        BY <3>1, <3>2, <3>3
    <2> QED
      BY <2>1 DEF ReturnLines
  <1>5. ReturnValue(request) \in Int
    BY <1>1, ReturnValueInt
  <1>6. gl' \in [Accounts -> Int]
    <2>1. gl' = [a \in Accounts |->
                    IF a = "cogs" THEN gl[a] - ReturnValue(request)
                    ELSE IF a = "inventory" THEN gl[a] + ReturnValue(request) ELSE gl[a]]
      BY <1>1 DEF Typed, Accounts, ReturnLines
    <2> QED
      BY <1>1, <1>5, <2>1, Rows
  <1>7. UNCHANGED <<invoices, payments, party>> /\ Refreshed
    BY DEF ReturnLines
  <1>8. goods' \in Seq(GoodsLine) /\ GoodsSound' /\ DocumentsSound'
    <2>1. ASSUME NEW k \in DOMAIN old
          PROVE  /\ 1 <= old[k].doc /\ old[k].doc <= k /\ old[k].returned <= old[k].qty
                 /\ old[k].kind = "Return" => old[k].returned = 0
                 /\ old[k].charge = None
                      <=> (old[k].line \notin Goods \/ old[k].kind = "Return")
      <3>1. k \in DOMAIN goods
        BY <1>2 DEF Taken
      <3>2. /\ 1 <= old[k].doc /\ old[k].doc <= k /\ old[k].returned <= old[k].qty
            /\ old[k].charge = None <=> (old[k].line \notin Goods \/ old[k].kind = "Return")
        BY <1>1, <1>2, <3>1 DEF Taken, GoodsSound
      <3>3. ASSUME old[k].kind = "Return" PROVE old[k].returned = 0
        <4>1. /\ goods[k].kind = "Return" /\ goods[k].returned = 0
              /\ old[k].returned = 0 + Asked(request, k)
          BY <1>1, <1>2, <3>1, <3>3 DEF Taken, GoodsSound
        <4>2. ~(Asked(request, k) > 0)
          BY <1>2, <3>1, <4>1 DEF Taken
        <4>3. Asked(request, k) \in Nat
          BY Requested
        <4> QED
          BY <4>1, <4>2, <4>3
      <3> QED
        BY <3>2, <3>3
    <2>2. \A i \in DOMAIN new :
            /\ new[i].doc = Len(goods) + 1 /\ new[i].returned = 0
            /\ new[i].charge = None <=> (new[i].line \notin Goods \/ new[i].kind = "Return")
      BY <1>2 DEF Returned
    <2>3. DOMAIN old = DOMAIN goods
      BY <1>2 DEF Taken
    <2> QED
      BY <1>2, <1>7, <2>1, <2>2, <2>3, GoodsGrow
  <1>9. Typed'
    BY <1>1, <1>4, <1>6, <1>7, <1>8, RefreshIsTyped DEF Typed
  <1> QED
    BY <1>8, <1>9 DEF Sound

(* The lines an invoice bills, and the delivery rows it draws from. *)
DrawnBy(request, k) ==
    SeqSum([i \in DOMAIN request |-> IF request[i].from = k THEN request[i].qty ELSE 0])

Billing(request, ls) ==
    /\ DOMAIN ls = DOMAIN request
    /\ \A i \in DOMAIN ls :
          /\ ls[i].line = request[i].at /\ ls[i].qty = request[i].qty
          /\ ls[i].from = request[i].from /\ ls[i].credited = 0
          /\ ls[i].net = request[i].qty * Rate[request[i].at]

Drawn(request, rows) ==
    /\ DOMAIN rows = DOMAIN goods
    /\ \A k \in DOMAIN goods :
          /\ rows[k].doc = goods[k].doc /\ rows[k].kind = goods[k].kind
          /\ rows[k].line = goods[k].line /\ rows[k].qty = goods[k].qty
          /\ rows[k].returned = goods[k].returned /\ rows[k].charge = goods[k].charge
          /\ rows[k].billed = goods[k].billed + DrawnBy(request, k)

\* A document just made of its lines.
Made(d, type, against, ls) ==
    /\ Open(d) /\ d.type = type /\ d.against = against /\ d.lines = ls
    /\ d.total = Total(ls, "net") + Total(ls, "tax")

(* The lines of a request for an invoice, as rows. *)
LEMMA Drawing ==
  ASSUME NEW request \in Seq(Draw(Lines))
  PROVE  /\ DOMAIN request = 1..Len(request) /\ Len(request) \in Nat
         /\ \A i \in DOMAIN request :
               /\ request[i].at \in Lines /\ request[i].qty \in Nat \ {0}
               /\ request[i].from \in {None} \cup DOMAIN goods
         /\ \A l : Asked(request, l) \in Nat
         /\ \A k : DrawnBy(request, k) \in Nat
  <1>1. /\ DOMAIN request = 1..Len(request) /\ Len(request) \in Nat
        /\ \A i \in DOMAIN request : request[i] \in Draw(Lines)
    OBVIOUS
  <1>2. \A i \in DOMAIN request :
               /\ request[i].at \in Lines /\ request[i].qty \in Nat \ {0}
               /\ request[i].from \in {None} \cup DOMAIN goods
    BY <1>1 DEF Draw
  <1>3. \A i \in DOMAIN request : request[i].qty \in Nat
    BY <1>2
  <1>4. ASSUME NEW k PROVE DrawnBy(request, k) \in Nat
    <2> DEFINE v == [i \in DOMAIN request |-> IF request[i].from = k THEN request[i].qty ELSE 0]
    <2>1. v \in [1..Len(request) -> Nat]
      BY <1>1, <1>3
    <2>2. v \in Seq(Nat)
      BY <1>1, <2>1, FunctionIsSeq
    <2> HIDE DEF v
    <2> QED
      BY <2>2, SeqSumNat DEF DrawnBy, v
  <1> QED
    BY <1>1, <1>2, <1>3, <1>4, AskedNat

\* An invoice draws on goods rows, and posts the lines it bills.
LEMMA InvoiceRows ==
  ASSUME Typed, NEW request \in Seq(Draw(Lines)), InvoiceLines(request)
  PROVE  /\ goods' \in Seq(GoodsLine) /\ Drawn(request, goods')
         /\ \E ls \in Seq(DocumentLine), d \in Document :
               /\ Billing(request, ls) /\ Posts(ls) /\ Made(d, "Invoice", None, ls)
               /\ d.outstanding = d.total
               /\ invoices' = Append(invoices, d)
               /\ gl' = [gl EXCEPT !.ar = @ + BaseTotal(ls), !.sales = @ - BaseNet(ls),
                                   !.tax = @ - BaseTax(ls)]
               /\ party' = party + BaseTotal(ls)
  <1> DEFINE billed(k) == Billed(goods[k], DrawnBy(request, k))
             row(i) == InvoiceLine(request[i].at, request[i].from, request[i].qty)
             ls == [i \in DOMAIN request |-> row(i)]
             total == Total(ls, "net") + Total(ls, "tax")
             d == NewDocument("Invoice", None, ls, total, 0, "Unpaid")
  <1>1. /\ goods' = [k \in DOMAIN goods |-> billed(k)]
        /\ Posts(ls) /\ invoices' = Append(invoices, d)
        /\ gl' = [gl EXCEPT !.ar = @ + BaseTotal(ls), !.sales = @ - BaseNet(ls),
                            !.tax = @ - BaseTax(ls)]
        /\ party' = party + BaseTotal(ls)
    BY DEF InvoiceLines, DrawnBy, SumWhere
  <1>2. ASSUME NEW k \in DOMAIN goods
        PROVE  /\ billed(k) \in GoodsLine
               /\ billed(k).doc = goods[k].doc /\ billed(k).kind = goods[k].kind
               /\ billed(k).line = goods[k].line /\ billed(k).qty = goods[k].qty
               /\ billed(k).returned = goods[k].returned /\ billed(k).charge = goods[k].charge
               /\ billed(k).billed = goods[k].billed + DrawnBy(request, k)
    <2>1. goods[k] \in GoodsLine /\ DrawnBy(request, k) \in Nat
      BY Rows, Drawing
    <2>2. goods[k].billed + DrawnBy(request, k) \in Nat
      BY <2>1 DEF GoodsLine
    <2>3. billed(k) = [goods[k] EXCEPT !.billed = goods[k].billed + DrawnBy(request, k)]
      BY DEF Billed
    <2> QED
      BY <2>1, <2>2, <2>3 DEF GoodsLine
  <1>3. goods' \in Seq(GoodsLine) /\ DOMAIN goods' = DOMAIN goods
    <2>1. goods' \in [1..Len(goods) -> GoodsLine]
      BY <1>1, <1>2, Rows
    <2> QED
      BY <2>1, Rows, FunctionIsSeq
  <1>4. Drawn(request, goods')
    <2> HIDE DEF billed
    <2>1. \A k \in DOMAIN goods : goods'[k] = billed(k)
      BY <1>1
    <2> QED
      BY <1>2, <1>3, <2>1 DEF Drawn
  <1>5. \A i \in DOMAIN request :
           /\ request[i].at \in Lines /\ request[i].qty \in Nat \ {0}
           /\ request[i].from \in {None} \cup Nat
    BY Drawing, Rows
  <1>6. \A i \in DOMAIN request :
           /\ request[i].qty * Rate[request[i].at] \in Nat
           /\ HalfEven(request[i].qty * Rate[request[i].at] * TaxPercent[request[i].at], 100) \in Nat
    <2>1. Rate \in [Lines -> Nat] /\ TaxPercent \in [Lines -> Nat]
      BY OrderAssumption
    <2>2. ASSUME NEW i \in DOMAIN request
          PROVE  /\ request[i].qty * Rate[request[i].at] \in Nat
                 /\ request[i].qty * Rate[request[i].at] * TaxPercent[request[i].at] \in Nat
      <3>1. /\ Rate[request[i].at] \in Nat /\ TaxPercent[request[i].at] \in Nat
            /\ request[i].qty \in Nat
        BY <1>5, <2>1
      <3> QED
        BY <3>1, Products
    <2>3. \A n \in Nat : HalfEven(n, 100) \in Nat
      BY HalfEvenNat
    <2> QED
      BY <2>2, <2>3
  <1>7. \A i \in DOMAIN request :
           /\ row(i) \in DocumentLine
           /\ row(i).line = request[i].at /\ row(i).qty = request[i].qty
           /\ row(i).from = request[i].from /\ row(i).credited = 0
           /\ row(i).net = request[i].qty * Rate[request[i].at]
    BY <1>5, <1>6 DEF InvoiceLine, DocumentLine
  <1>8. ls \in Seq(DocumentLine) /\ DOMAIN ls = DOMAIN request
    <2>1. ls \in [1..Len(request) -> DocumentLine]
      BY <1>7, Drawing
    <2> QED
      BY <2>1, Drawing, FunctionIsSeq
  <1>9. Billing(request, ls) /\ Fresh(ls)
    BY <1>7 DEF Billing, Fresh
  <1>10. d \in Document /\ Made(d, "Invoice", None, ls) /\ d.outstanding = d.total
    <2>1. "Invoice" \in Kinds /\ None \in {None} \cup Nat
      BY DEF Kinds
    <2> HIDE DEF ls
    <2> QED
      BY <1>1, <1>8, <1>9, <2>1, NewIsDocument DEF Made
  <1> HIDE DEF ls, d
  <1> QED
    BY <1>1, <1>3, <1>4, <1>8, <1>9, <1>10

(* A document added at the end, others changed in what they have open. *)
SameLinks(rest) ==
    /\ DOMAIN rest = DOMAIN invoices
    /\ \A k \in DOMAIN rest :
          /\ Open(rest[k]) /\ rest[k].type = invoices[k].type
          /\ rest[k].against = invoices[k].against
          /\ DOMAIN rest[k].lines = DOMAIN invoices[k].lines
          /\ \A j \in DOMAIN rest[k].lines :
                rest[k].lines[j].from = invoices[k].lines[j].from

Linked(d) ==
    /\ Open(d)
    /\ IF d.type = "Invoice" THEN d.against = None ELSE d.against \in DOMAIN invoices
    /\ \A j \in DOMAIN d.lines : d.lines[j].from \in {None} \cup DOMAIN goods

\* Documents stay sound when one is appended to rows that kept their links.
LEMMA DocumentsGrow ==
  ASSUME Sound, NEW rest \in Seq(Document), SameLinks(rest), DOMAIN goods' = DOMAIN goods,
         \/ invoices' = rest
         \/ \E d \in Document : Linked(d) /\ invoices' = Append(rest, d)
  PROVE  invoices' \in Seq(Document) /\ DocumentsSound'
  <1>1. /\ DOMAIN rest = 1..Len(rest) /\ Len(rest) \in Nat
        /\ DOMAIN invoices = 1..Len(rest) /\ Len(invoices) = Len(rest)
    BY Rows DEF Sound, SameLinks
  <1>2. ASSUME NEW k \in DOMAIN rest
        PROVE  /\ Open(rest[k])
               /\ IF rest[k].type = "Invoice" THEN rest[k].against = None
                  ELSE rest[k].against \in 1..(k - 1)
               /\ \A j \in DOMAIN rest[k].lines :
                     rest[k].lines[j].from \in {None} \cup DOMAIN goods
    BY DEF Sound, SameLinks, DocumentsSound
  <1>3. CASE invoices' = rest
    <2>1. DocumentsSound'
      BY <1>2, <1>3 DEF DocumentsSound, Open
    <2> QED
      BY <1>3, <2>1
  <1>4. ASSUME NEW d \in Document, Linked(d), invoices' = Append(rest, d)
        PROVE  invoices' \in Seq(Document) /\ DocumentsSound'
    <2>1. /\ invoices' \in Seq(Document) /\ DOMAIN invoices' = 1..(Len(rest) + 1)
          /\ invoices'[Len(rest) + 1] = d
          /\ \A k \in 1..Len(rest) : invoices'[k] = rest[k]
      BY <1>4
    <2>2. ASSUME NEW k \in DOMAIN invoices'
          PROVE  /\ Open(invoices'[k])
                 /\ IF invoices'[k].type = "Invoice" THEN invoices'[k].against = None
                    ELSE invoices'[k].against \in 1..(k - 1)
                 /\ \A j \in DOMAIN invoices'[k].lines :
                       invoices'[k].lines[j].from \in {None} \cup DOMAIN goods
      <3>1. CASE k \in 1..Len(rest)
        <4>1. invoices'[k] = rest[k] /\ k \in DOMAIN rest
          BY <1>1, <2>1, <3>1
        <4> QED
          BY <1>2, <4>1
      <3>2. CASE k = Len(rest) + 1
        <4>1. invoices'[k] = d /\ 1..(k - 1) = DOMAIN invoices
          BY <1>1, <2>1, <3>2
        <4> QED
          BY <1>4, <4>1 DEF Linked
      <3>3. k \in 1..Len(rest) \/ k = Len(rest) + 1
        BY <1>1, <2>1
      <3> QED
        BY <3>1, <3>2, <3>3
    <2>3. DocumentsSound'
      BY <2>2 DEF DocumentsSound, Open
    <2> QED
      BY <2>1, <2>3
  <1> QED
    BY <1>3, <1>4

\* An invoice keeps the invariant.
LEMMA InvoiceSound ==
  ASSUME Sound, NEW request \in Seq(Draw(Lines)), InvoiceLines(request)
  PROVE  Sound'
  <1>1. Typed /\ GoodsSound
    BY DEF Sound
  <1>2. goods' \in Seq(GoodsLine) /\ Drawn(request, goods')
    BY <1>1, InvoiceRows
  <1>3. PICK ls \in Seq(DocumentLine), d \in Document :
               /\ Billing(request, ls) /\ Posts(ls) /\ Made(d, "Invoice", None, ls)
               /\ d.outstanding = d.total
               /\ invoices' = Append(invoices, d)
               /\ gl' = [gl EXCEPT !.ar = @ + BaseTotal(ls), !.sales = @ - BaseNet(ls),
                                   !.tax = @ - BaseTax(ls)]
               /\ party' = party + BaseTotal(ls)
    BY <1>1, InvoiceRows
  <1>4. GoodsSound'
    <2>1. DOMAIN goods' = DOMAIN goods
      BY <1>2 DEF Drawn
    <2>2. ASSUME NEW k \in DOMAIN goods
          PROVE  /\ 1 <= goods'[k].doc /\ goods'[k].doc <= k
                 /\ goods'[k].returned <= goods'[k].qty
                 /\ goods'[k].kind = "Return" => goods'[k].returned = 0
                 /\ goods'[k].charge = None
                      <=> (goods'[k].line \notin Goods \/ goods'[k].kind = "Return")
      BY <1>1, <1>2 DEF Drawn, GoodsSound
    <2> QED
      BY <2>1, <2>2 DEF GoodsSound
  <1>5. invoices' \in Seq(Document) /\ DocumentsSound'
    <2>1. invoices \in Seq(Document) /\ DOMAIN goods' = DOMAIN goods
      BY <1>1, <1>2 DEF Typed, Drawn
    <2>2. SameLinks(invoices)
      BY DEF SameLinks, Sound, DocumentsSound
    <2>3. Linked(d)
      <3>1. \A j \in DOMAIN ls : ls[j].from \in {None} \cup DOMAIN goods
        BY <1>3, Drawing DEF Billing
      <3> QED
        BY <1>3, <3>1 DEF Made, Linked
    <2> QED
      BY <1>3, <2>1, <2>2, <2>3, DocumentsGrow
  <1>6. line' \in [Lines -> Counters]
    <2>1. ASSUME NEW l \in Lines
          PROVE  [line[l] EXCEPT !.invoiced = @ + Asked(request, l)] \in Counters
      <3>1. line[l] \in Counters /\ Asked(request, l) \in Nat
        BY <1>1, Rows, Drawing
      <3> QED
        BY <3>1 DEF Counters
    <2> QED
      BY <2>1 DEF InvoiceLines
  <1>7. BaseTotal(ls) \in Int /\ BaseNet(ls) \in Int /\ BaseTax(ls) \in Int
    BY LineTotals
  <1>8. gl' \in [Accounts -> Int]
    <2>1. gl' = [a \in Accounts |-> IF a = "ar" THEN gl[a] + BaseTotal(ls)
                                    ELSE IF a = "sales" THEN gl[a] - BaseNet(ls)
                                    ELSE IF a = "tax" THEN gl[a] - BaseTax(ls) ELSE gl[a]]
      BY <1>1, <1>3 DEF Typed, Accounts
    <2> QED
      BY <1>1, <1>7, <2>1, Rows
  <1>9. party' \in Int
    BY <1>1, <1>3, <1>7 DEF Typed
  <1>10. payments' = payments /\ Refreshed
    BY DEF InvoiceLines
  <1>11. Typed'
    BY <1>1, <1>2, <1>5, <1>6, <1>8, <1>9, <1>10, RefreshIsTyped DEF Typed
  <1> QED
    BY <1>4, <1>5, <1>11 DEF Sound

(* What a payment settles: target names no invoice twice. *)
Settles(p, target, rest) ==
    /\ DOMAIN rest = DOMAIN invoices
    /\ \A k \in DOMAIN invoices :
          (\A i \in DOMAIN target : target[i] # k) => rest[k] = invoices[k]
    /\ \A i \in DOMAIN target :
          /\ invoices[target[i]].type = "Invoice"
          /\ p.allocations[i].invoice_amount \in Nat \ {0}
          /\ p.allocations[i].invoice_amount <= invoices[target[i]].outstanding
          /\ rest[target[i]] = Settled(invoices[target[i]], p.allocations[i].invoice_amount)

PaidParts(p, target, pay) ==
    /\ pay.base = PaymentBase(p) /\ DOMAIN pay.allocations = DOMAIN target
    /\ \A i \in DOMAIN target :
          /\ pay.allocations[i].invoice = target[i]
          /\ pay.allocations[i].invoice_amount = p.allocations[i].invoice_amount
          /\ pay.allocations[i].base_amount = p.allocations[i].base_amount

\* A payment names every invoice once, each within what it has outstanding.
LEMMA Allocated ==
  ASSUME NEW p \in Entry, NEW target \in [DOMAIN p.allocations -> DOMAIN invoices],
         Receive(p, target)
  PROVE  /\ DOMAIN target = 1..Len(p.allocations) /\ Len(p.allocations) \in Nat
         /\ DOMAIN target = DOMAIN p.allocations /\ IsInjective(target)
         /\ \A i \in DOMAIN target :
               /\ target[i] \in DOMAIN invoices /\ invoices[target[i]].type = "Invoice"
               /\ p.allocations[i].invoice_amount \in Nat \ {0}
               /\ p.allocations[i].base_amount \in Nat \ {0}
               /\ p.allocations[i].invoice_amount <= invoices[target[i]].outstanding
         /\ PaymentBase(p) \in Nat /\ OriginalBase(p) \in Nat
         /\ Total(p.allocations, "base_amount") \in Nat
  <1>1. /\ p.amount \in Int /\ p.exchange \in Nat /\ p.allocations \in Seq(Part)
    BY DEF Entry
  <1>2. /\ DOMAIN p.allocations = 1..Len(p.allocations) /\ Len(p.allocations) \in Nat
        /\ \A i \in DOMAIN p.allocations : p.allocations[i] \in Part
    BY <1>1
  <1>3. /\ PaymentAccepted(p) /\ Allocatable(p, target) /\ PaymentBase(p) > 0
    BY DEF Receive
  <1>4. \A i \in DOMAIN p.allocations :
           /\ p.allocations[i].invoice_amount \in Nat \ {0}
           /\ p.allocations[i].base_amount \in Nat \ {0}
    <2>1. \A a \in Part : a.invoice_amount \in Int /\ a.base_amount \in Int
      BY DEF Part
    <2>2. \A i \in DOMAIN p.allocations :
            p.allocations[i].invoice_amount > 0 /\ p.allocations[i].base_amount > 0
      BY <1>3 DEF PaymentAccepted
    <2> QED
      BY <1>2, <2>1, <2>2
  <1>5. PaymentBase(p) \in Nat
    <2>1. Scale \in Nat \ {0}
      BY OrderAssumption
    <2>2. p.amount * p.exchange \in Int
      BY <1>1, Products
    <2>3. PaymentBase(p) \in Int
      BY <2>1, <2>2, HalfEvenBounds DEF PaymentBase
    <2> QED
      BY <1>3, <2>3
  <1>6. OriginalBase(p) \in Nat
    <2> DEFINE v == [i \in DOMAIN p.allocations |->
                       IF Always(p.allocations[i])
                       THEN Base(p.allocations[i].invoice_amount) ELSE 0]
    <2>1. v \in [1..Len(p.allocations) -> Nat]
      BY <1>2, <1>4, BaseValue
    <2>2. v \in Seq(Nat)
      BY <1>2, <2>1, FunctionIsSeq
    <2>3. OriginalBase(p) = SeqSum(v)
      BY DEF OriginalBase, SumWhere
    <2> HIDE DEF v
    <2> QED
      BY <2>2, <2>3, SeqSumNat
  <1>7. Total(p.allocations, "base_amount") \in Nat
    <2> DEFINE v == [i \in DOMAIN p.allocations |-> p.allocations[i]["base_amount"]]
    <2>1. v \in [1..Len(p.allocations) -> Nat]
      BY <1>2, <1>4
    <2>2. v \in Seq(Nat)
      BY <1>2, <2>1, FunctionIsSeq
    <2> HIDE DEF v
    <2> QED
      BY <2>2, SeqSumNat DEF Total, v
  <1> QED
    BY <1>2, <1>3, <1>4, <1>5, <1>6, <1>7 DEF Allocatable

\* A payment settles its invoices by the parts it says.
LEMMA ReceiveRows ==
  ASSUME Sound, NEW p \in Entry, NEW target \in [DOMAIN p.allocations -> DOMAIN invoices],
         Receive(p, target)
  PROVE  /\ invoices' \in Seq(Document) /\ Settles(p, target, invoices')
         /\ \E pay \in Payment : PaidParts(p, target, pay) /\ payments' = Append(payments, pay)
  <1>1. Typed
    BY DEF Sound
  <1> DEFINE settled(k) ==
               IF \E i \in DOMAIN target : target[i] = k
               THEN Settled(invoices[k], p.allocations[
                      CHOOSE i \in DOMAIN target : target[i] = k].invoice_amount)
               ELSE invoices[k]
             part(i) == [invoice |-> target[i],
                         invoice_amount |-> p.allocations[i].invoice_amount,
                         base_amount |-> p.allocations[i].base_amount]
             pay == [base |-> PaymentBase(p), allocations |-> [i \in DOMAIN target |-> part(i)]]
  <1>2. invoices' = [k \in DOMAIN invoices |-> settled(k)] /\ payments' = Append(payments, pay)
    BY DEF Receive
  <1>3. \A k \in DOMAIN invoices :
          (\A i \in DOMAIN target : target[i] # k) => settled(k) = invoices[k]
    OBVIOUS
  <1>4. ASSUME NEW i \in DOMAIN target
        PROVE  settled(target[i]) = Settled(invoices[target[i]], p.allocations[i].invoice_amount)
    <2>1. (CHOOSE j \in DOMAIN target : target[j] = target[i]) = i
      BY Allocated DEF IsInjective
    <2> QED
      BY <2>1
  <1> HIDE DEF settled
  <1>5. ASSUME NEW k \in DOMAIN invoices PROVE settled(k) \in Document
    <2>1. invoices[k] \in Document /\ Open(invoices[k])
      BY <1>1, Rows DEF Sound, DocumentsSound
    <2>2. CASE \A i \in DOMAIN target : target[i] # k
      BY <1>3, <2>1, <2>2
    <2>3. ASSUME NEW i \in DOMAIN target, target[i] = k PROVE settled(k) \in Document
      <3>1. /\ p.allocations[i].invoice_amount \in Nat \ {0}
            /\ p.allocations[i].invoice_amount <= invoices[k].outstanding
        BY <2>3, Allocated
      <3>2. Settled(invoices[k], p.allocations[i].invoice_amount) \in Document
        BY <2>1, <3>1, SettledDocument
      <3> QED
        BY <1>4, <2>3, <3>2
    <2> QED
      BY <2>2, <2>3
  <1>6. invoices' \in Seq(Document) /\ DOMAIN invoices' = DOMAIN invoices
    <2>1. invoices' \in [1..Len(invoices) -> Document]
      BY <1>1, <1>2, <1>5, Rows
    <2> QED
      BY <1>1, <2>1, Rows, FunctionIsSeq
  <1>7. Settles(p, target, invoices')
    <2>1. \A k \in DOMAIN invoices : invoices'[k] = settled(k)
      BY <1>2
    <2>2. \A i \in DOMAIN target : target[i] \in DOMAIN invoices
      OBVIOUS
    <2> QED
      BY <1>3, <1>4, <1>6, <2>1, <2>2, Allocated DEF Settles
  <1>8. \A i \in DOMAIN target : part(i) \in PaidPart
    <2>1. \A i \in DOMAIN target : target[i] \in Nat
      BY <1>1, Rows
    <2> QED
      BY <2>1, Allocated DEF PaidPart
  <1>9. pay.allocations \in Seq(PaidPart) /\ DOMAIN pay.allocations = DOMAIN target
    <2>1. [i \in DOMAIN target |-> part(i)] \in [1..Len(p.allocations) -> PaidPart]
      BY <1>8, Allocated
    <2>2. [i \in DOMAIN target |-> part(i)] \in Seq(PaidPart)
      BY <2>1, Allocated, FunctionIsSeq
    <2> QED
      BY <2>2
  <1>10. PaidParts(p, target, pay)
    BY <1>9 DEF PaidParts
  <1>11. pay \in Payment
    BY <1>9, Allocated DEF Payment
  <1> HIDE DEF pay
  <1> QED
    BY <1>2, <1>6, <1>7, <1>10, <1>11

\* A payment keeps the invariant.
LEMMA ReceiveSound ==
  ASSUME Sound, NEW p \in Entry, NEW target \in [DOMAIN p.allocations -> DOMAIN invoices],
         Receive(p, target)
  PROVE  Sound'
  <1>1. Typed
    BY DEF Sound
  <1>2. invoices' \in Seq(Document) /\ Settles(p, target, invoices')
    BY ReceiveRows
  <1>3. PICK pay \in Payment : payments' = Append(payments, pay)
    BY ReceiveRows
  <1>4. UNCHANGED <<order, line, goods>>
    BY DEF Receive
  <1>5. DocumentsSound'
    <2>1. ASSUME NEW k \in DOMAIN invoices
          PROVE  /\ Open(invoices'[k]) /\ invoices'[k].type = invoices[k].type
                 /\ invoices'[k].against = invoices[k].against
                 /\ invoices'[k].lines = invoices[k].lines
      <3>1. invoices[k] \in Document /\ Open(invoices[k])
        BY <1>1, Rows DEF Sound, DocumentsSound
      <3>2. CASE \A i \in DOMAIN target : target[i] # k
        BY <1>2, <3>1, <3>2 DEF Settles
      <3>3. ASSUME NEW i \in DOMAIN target, target[i] = k
            PROVE  /\ Open(invoices'[k]) /\ invoices'[k].type = invoices[k].type
                   /\ invoices'[k].against = invoices[k].against
                   /\ invoices'[k].lines = invoices[k].lines
        <4> DEFINE x == p.allocations[i].invoice_amount
        <4>1. /\ x \in Nat \ {0} /\ x <= invoices[k].outstanding
              /\ invoices'[k] = Settled(invoices[k], x)
          BY <1>2, <3>3 DEF Settles
        <4> HIDE DEF x
        <4> QED
          BY <3>1, <4>1, SettledDocument
      <3> QED
        BY <3>2, <3>3
    <2>2. SameLinks(invoices')
      BY <1>2, <2>1 DEF SameLinks, Settles
    <2> QED
      BY <1>2, <1>4, <2>2, DocumentsGrow
  <1>6. GoodsSound'
    BY <1>4 DEF Sound, GoodsSound
  <1>7. PaymentBase(p) \in Int /\ ArCredit(p) \in Int /\ GainLoss(p) \in Int
    BY Allocated DEF ArCredit, GainLoss
  <1>8. gl' \in [Accounts -> Int]
    <2>1. gl' = [a \in Accounts |-> IF a = "bank" THEN gl[a] + PaymentBase(p)
                                    ELSE IF a = "ar" THEN gl[a] - ArCredit(p)
                                    ELSE IF a = "fx" THEN gl[a] - GainLoss(p) ELSE gl[a]]
      BY <1>1 DEF Typed, Accounts, Receive
    <2> QED
      BY <1>1, <1>7, <2>1, Rows
  <1>9. party' \in Int
    BY <1>1, <1>7 DEF Typed, Receive
  <1>10. payments' \in Seq(Payment)
    BY <1>1, <1>3 DEF Typed
  <1>11. Typed'
    BY <1>1, <1>2, <1>4, <1>8, <1>9, <1>10 DEF Typed
  <1> QED
    BY <1>5, <1>6, <1>11 DEF Sound

(* What a credit note takes from the lines of its invoice. *)
Credits(request, old, ls) ==
    /\ DOMAIN ls = DOMAIN request
    /\ \A i \in DOMAIN ls :
          /\ ls[i].line = old.lines[request[i].at].line
          /\ ls[i].from = old.lines[request[i].at].from
          /\ ls[i].qty = request[i].qty /\ ls[i].credited = 0
          /\ ls[i].net = HalfEven(old.lines[request[i].at].net, old.lines[request[i].at].qty)
                           * request[i].qty
          /\ ls[i].tax = HalfEven(old.lines[request[i].at].tax, old.lines[request[i].at].qty)
                           * request[i].qty

SameButCredited(request, old, d) ==
    /\ DOMAIN d.lines = DOMAIN old.lines
    /\ \A j \in DOMAIN d.lines :
          /\ d.lines[j].line = old.lines[j].line /\ d.lines[j].from = old.lines[j].from
          /\ d.lines[j].qty = old.lines[j].qty /\ d.lines[j].net = old.lines[j].net
          /\ d.lines[j].tax = old.lines[j].tax
          /\ d.lines[j].credited = old.lines[j].credited + Asked(request, j)

CreditedBy(request, old, d, x) ==
    /\ Open(d) /\ d.type = old.type /\ d.against = old.against /\ d.total = old.total
    /\ d.outstanding = old.outstanding - x /\ d.paid = old.paid + x
    /\ SameButCredited(request, old, d)

NoteOf(k, ls, n, x) ==
    /\ Made(n, "Credit Note", k, ls)
    /\ n.outstanding = n.total - x /\ n.paid = x

BackOn(ls, l) == SeqSum([i \in DOMAIN ls |-> IF ls[i].line = l THEN ls[i].qty ELSE 0])

\* The lines of a credit note, and what they leave of the invoice.
LEMMA CreditLines ==
  ASSUME NEW old \in Document, NEW request \in Seq(Ask(DOMAIN old.lines)),
         Open(old), CreditAllowed(old, request)
  PROVE  /\ [i \in DOMAIN request |-> CreditLine(old.lines[request[i].at], request[i].qty)]
               \in Seq(DocumentLine)
         /\ Credits(request, old,
              [i \in DOMAIN request |-> CreditLine(old.lines[request[i].at], request[i].qty)])
         /\ Credited(old, request) \in Document /\ Open(Credited(old, request))
         /\ CreditedBy(request, old, Credited(old, request), 0)
  <1> DEFINE row(i) == CreditLine(old.lines[request[i].at], request[i].qty)
             ls == [i \in DOMAIN request |-> row(i)]
             back(j) == [old.lines[j] EXCEPT !.credited = @ + Asked(request, j)]
             lines == [j \in DOMAIN old.lines |-> back(j)]
             d == Credited(old, request)
  <1>1. /\ old.lines \in Seq(DocumentLine) /\ old.total \in Nat /\ old.outstanding \in Nat
        /\ old.paid \in Nat
    BY DEF Document
  <1>2. /\ DOMAIN old.lines = 1..Len(old.lines) /\ Len(old.lines) \in Nat
        /\ \A j \in DOMAIN old.lines : old.lines[j] \in DocumentLine
    BY <1>1
  <1>3. \A x \in DocumentLine :
           /\ x.line \in Lines /\ x.from \in {None} \cup Nat /\ x.qty \in Nat \ {0}
           /\ x.net \in Nat /\ x.tax \in Nat /\ x.credited \in Nat
    BY DEF DocumentLine
  <1>4. /\ DOMAIN request = 1..Len(request) /\ Len(request) \in Nat
        /\ \A i \in DOMAIN request :
              request[i].at \in DOMAIN old.lines /\ request[i].qty \in Nat \ {0}
    BY Requested
  <1>5. ASSUME NEW x \in DocumentLine, NEW q \in Nat \ {0}
        PROVE  /\ CreditLine(x, q) \in DocumentLine
               /\ CreditLine(x, q).line = x.line /\ CreditLine(x, q).from = x.from
               /\ CreditLine(x, q).qty = q /\ CreditLine(x, q).credited = 0
               /\ CreditLine(x, q).net = HalfEven(x.net, x.qty) * q
               /\ CreditLine(x, q).tax = HalfEven(x.tax, x.qty) * q
    <2>1. HalfEven(x.net, x.qty) \in Nat /\ HalfEven(x.tax, x.qty) \in Nat
      BY <1>3, HalfEvenNat
    <2>2. HalfEven(x.net, x.qty) * q \in Nat /\ HalfEven(x.tax, x.qty) * q \in Nat
      BY <2>1, Products
    <2> QED
      BY <2>2, <1>3 DEF CreditLine, DocumentLine
  <1>6. \A i \in DOMAIN request : old.lines[request[i].at] \in DocumentLine
    BY <1>2, <1>4
  <1>7. ls \in Seq(DocumentLine) /\ DOMAIN ls = DOMAIN request
    <2>1. ls \in [1..Len(request) -> DocumentLine]
      BY <1>4, <1>5, <1>6
    <2> QED
      BY <1>4, <2>1, FunctionIsSeq
  <1>8. Credits(request, old, ls)
    <2>1. \A i \in DOMAIN request :
            /\ row(i).line = old.lines[request[i].at].line
            /\ row(i).from = old.lines[request[i].at].from
            /\ row(i).qty = request[i].qty /\ row(i).credited = 0
            /\ row(i).net = HalfEven(old.lines[request[i].at].net, old.lines[request[i].at].qty)
                              * request[i].qty
            /\ row(i).tax = HalfEven(old.lines[request[i].at].tax, old.lines[request[i].at].qty)
                              * request[i].qty
      BY <1>4, <1>5, <1>6
    <2> HIDE DEF row
    <2>2. \A i \in DOMAIN request : ls[i] = row(i)
      OBVIOUS
    <2> HIDE DEF ls
    <2> QED
      BY <1>7, <2>1, <2>2 DEF Credits
  <1>9. ASSUME NEW j \in DOMAIN old.lines
        PROVE  /\ Asked(request, j) \in Nat
               /\ old.lines[j].credited + Asked(request, j) <= old.lines[j].qty
    <2>1. Asked(request, j) \in Nat
      BY Requested
    <2>2. CASE \E i \in DOMAIN request : request[i].at = j
      BY <2>1, <2>2 DEF CreditAllowed
    <2>3. CASE \A i \in DOMAIN request : request[i].at # j
      <3>1. Asked(request, j) = 0
        BY <2>3, Requested
      <3>2. old.lines[j].credited <= old.lines[j].qty /\ old.lines[j].credited \in Nat
        BY <1>2, <1>3 DEF Open
      <3> QED
        BY <3>1, <3>2
    <2> QED
      BY <2>1, <2>2, <2>3
  <1>10. ASSUME NEW j \in DOMAIN old.lines
         PROVE  /\ back(j) \in DocumentLine
                /\ back(j).line = old.lines[j].line /\ back(j).from = old.lines[j].from
                /\ back(j).qty = old.lines[j].qty /\ back(j).net = old.lines[j].net
                /\ back(j).tax = old.lines[j].tax
                /\ back(j).credited = old.lines[j].credited + Asked(request, j)
    <2>1. \A x \in DocumentLine, q \in Nat :
             LET y == [x EXCEPT !.credited = x.credited + q]
             IN  /\ y \in DocumentLine
                 /\ y.line = x.line /\ y.from = x.from /\ y.qty = x.qty /\ y.net = x.net
                 /\ y.tax = x.tax /\ y.credited = x.credited + q
      BY DEF DocumentLine
    <2> QED
      BY <1>2, <1>9, <2>1
  <1>11. lines \in Seq(DocumentLine) /\ DOMAIN lines = DOMAIN old.lines
    <2>1. lines \in [1..Len(old.lines) -> DocumentLine]
      BY <1>2, <1>10
    <2> QED
      BY <1>2, <2>1, FunctionIsSeq
  <1>12. \A j \in DOMAIN old.lines : lines[j] = back(j)
    OBVIOUS
  <1>13. d = [old EXCEPT !.lines = lines]
    BY DEF Credited
  <1> HIDE DEF lines, back
  <1>14. /\ d \in Document /\ d.lines = lines /\ d.type = old.type /\ d.against = old.against
         /\ d.total = old.total /\ d.outstanding = old.outstanding /\ d.paid = old.paid
         /\ d.status = old.status
    BY <1>11, <1>13 DEF Document
  <1> HIDE DEF d, ls
  <1>15. Open(d)
    <2>1. \A j \in DOMAIN d.lines : d.lines[j].credited <= d.lines[j].qty
      BY <1>9, <1>10, <1>11, <1>12, <1>14
    <2> QED
      BY <1>14, <2>1 DEF Open
  <1>16. SameButCredited(request, old, d)
    BY <1>10, <1>11, <1>12, <1>14 DEF SameButCredited
  <1>17. d.outstanding = old.outstanding - 0 /\ d.paid = old.paid + 0
    BY <1>1, <1>14
  <1>18. CreditedBy(request, old, d, 0)
    BY <1>14, <1>15, <1>16, <1>17 DEF CreditedBy
  <1> QED
    BY <1>7, <1>8, <1>14, <1>15, <1>18 DEF d, ls

\* A credit note credits one invoice and is appended as its note.
LEMMA CreditRows ==
  ASSUME Sound, NEW k \in DOMAIN invoices, NEW request \in Seq(Ask(DOMAIN invoices[k].lines)),
         CreditInvoice(k, request)
  PROVE  \E ls \in Seq(DocumentLine), d \in Document, n \in Document, x \in Nat :
            /\ Credits(request, invoices[k], ls) /\ Posts(ls)
            /\ CreditedBy(request, invoices[k], d, x) /\ NoteOf(k, ls, n, x)
            /\ x = Allocation(n.total, invoices[k].outstanding)
            /\ invoices' = Append([invoices EXCEPT ![k] = d], n)
            /\ line' = [l \in Lines |-> LineCredited(l, BackOn(ls, l))]
            /\ gl' = [gl EXCEPT !.ar = @ - BaseTotal(ls), !.sales = @ + BaseNet(ls),
                                !.tax = @ + BaseTax(ls)]
            /\ party' = party - BaseTotal(ls)
  <1> DEFINE old == invoices[k]
             ls == [i \in DOMAIN request |-> CreditLine(old.lines[request[i].at], request[i].qty)]
             total == Total(ls, "net") + Total(ls, "tax")
             settle == Allocation(total, old.outstanding)
             note == NewDocument("Credit Note", k, ls, total, 0, "Unpaid")
             cred == Credited(old, request)
  <1>1. /\ CreditAllowed(old, request) /\ Posts(ls)
        /\ invoices' = IF settle > 0
                       THEN Append([invoices EXCEPT ![k] = Settled(cred, settle)],
                                   Settled(note, settle))
                       ELSE Append([invoices EXCEPT ![k] = cred], note)
        /\ line' = [l \in Lines |-> LineCredited(l, BackOn(ls, l))]
        /\ gl' = [gl EXCEPT !.ar = @ - BaseTotal(ls), !.sales = @ + BaseNet(ls),
                            !.tax = @ + BaseTax(ls)]
        /\ party' = party - BaseTotal(ls)
    BY DEF CreditInvoice, SumWhere, BackOn
  <1>2. old \in Document /\ Open(old) /\ k \in Nat
    BY Rows DEF Sound, DocumentsSound
  <1>3. request \in Seq(Ask(DOMAIN old.lines))
    OBVIOUS
  <1> HIDE DEF old
  <1>4. /\ ls \in Seq(DocumentLine) /\ Credits(request, old, ls)
        /\ cred \in Document /\ Open(cred) /\ CreditedBy(request, old, cred, 0)
    BY <1>1, <1>2, <1>3, CreditLines
  <1> HIDE DEF ls, cred
  <1>5. Fresh(ls)
    BY <1>4 DEF Fresh, Credits
  <1>6. /\ total \in Nat \ {0} /\ note \in Document
        /\ note.total = total /\ note.outstanding = total /\ note.paid = 0
        /\ Open(note) /\ note.against = k /\ note.lines = ls
    <2>1. k \in {None} \cup Nat
      BY <1>2
    <2>4. "Credit Note" \in Kinds
      BY DEF Kinds
    <2>2. ls \in Seq(DocumentLine) /\ Posts(ls)
      BY <1>1, <1>4
    <2>3. ASSUME NEW type \in Kinds
          PROVE  LET d == NewDocument(type, k, ls, total, 0, "Unpaid")
                 IN  /\ total \in Nat \ {0} /\ d \in Document
                     /\ d.total = total /\ d.outstanding = total /\ d.paid = 0
                     /\ Open(d) /\ d.against = k /\ d.lines = ls
      <3>1. total = Total(ls, "net") + Total(ls, "tax")
        OBVIOUS
      <3> HIDE DEF total
      <3> QED
        BY <1>5, <2>1, <2>2, <3>1, NewIsDocument
    <2> QED
      BY <2>4, <2>3
  <1>11. note.type = "Credit Note" /\ total = Total(ls, "net") + Total(ls, "tax")
    BY DEF NewDocument
  <1> HIDE DEF total, note
  <1>7. old.outstanding \in Nat /\ old.paid \in Nat
    BY <1>2 DEF Document
  <1>8. settle \in Nat /\ settle <= total /\ settle <= old.outstanding
    BY <1>6, <1>7 DEF Allocation, Smaller
  <1>9. CASE settle > 0
    <2> HIDE DEF settle
    <2> DEFINE d == Settled(cred, settle)
               n == Settled(note, settle)
    <2>1. /\ cred.outstanding = old.outstanding - 0 /\ cred.paid = old.paid + 0
          /\ cred.type = old.type /\ cred.against = old.against /\ cred.total = old.total
          /\ SameButCredited(request, old, cred)
      BY <1>4 DEF CreditedBy
    <2>2. /\ settle \in Nat \ {0} /\ settle <= cred.outstanding /\ settle <= note.outstanding
      BY <1>6, <1>7, <1>8, <1>9, <2>1
    <2>3. /\ d \in Document /\ Open(d) /\ d.type = cred.type /\ d.against = cred.against
          /\ d.total = cred.total /\ d.lines = cred.lines
          /\ d.outstanding = cred.outstanding - settle /\ d.paid = cred.paid + settle
      BY <1>4, <2>2, SettledDocument
    <2>4. Open(note)
      BY <1>6
    <2>5. /\ n \in Document /\ Open(n) /\ n.type = note.type /\ n.against = note.against
          /\ n.total = note.total /\ n.lines = note.lines
          /\ n.outstanding = note.outstanding - settle /\ n.paid = note.paid + settle
      BY <1>6, <2>2, <2>4, SettledDocument
    <2> HIDE DEF d, n
    <2>6. CreditedBy(request, old, d, settle)
      <3>1. d.outstanding = old.outstanding - settle /\ d.paid = old.paid + settle
        BY <1>7, <1>8, <2>1, <2>3
      <3>2. SameButCredited(request, old, d)
        BY <2>1, <2>3 DEF SameButCredited
      <3> QED
        BY <2>1, <2>3, <3>1, <3>2 DEF CreditedBy
    <2>7. NoteOf(k, ls, n, settle)
      <3>1. n.outstanding = n.total - settle /\ n.paid = settle
        BY <1>6, <1>8, <2>5
      <3> QED
        BY <1>6, <1>11, <2>5, <3>1 DEF Made, NoteOf
    <2>8. invoices' = Append([invoices EXCEPT ![k] = d], n)
      BY <1>1, <1>9 DEF d, n, settle
    <2>9. settle = Allocation(n.total, old.outstanding)
      BY <1>6, <2>5 DEF settle
    <2> QED
      BY <1>1, <1>4, <1>8, <2>3, <2>5, <2>6, <2>7, <2>8, <2>9 DEF old
  <1>10. CASE ~(settle > 0)
    <2>1. settle = 0
      BY <1>8, <1>10
    <2>2. NoteOf(k, ls, note, 0)
      <3>1. note.outstanding = note.total - 0 /\ note.paid = 0
        BY <1>6
      <3> QED
        BY <1>6, <1>11, <3>1 DEF NoteOf, Made
    <2>3. invoices' = Append([invoices EXCEPT ![k] = cred], note)
      BY <1>1, <1>10
    <2>4. 0 = Allocation(note.total, old.outstanding) /\ 0 \in Nat
      BY <1>6, <2>1
    <2> QED
      BY <1>1, <1>4, <1>6, <2>2, <2>3, <2>4 DEF old
  <1> QED
    BY <1>8, <1>9, <1>10

\* A credit note keeps the invariant.
LEMMA CreditSound ==
  ASSUME Sound, NEW k \in DOMAIN invoices, NEW request \in Seq(Ask(DOMAIN invoices[k].lines)),
         CreditInvoice(k, request)
  PROVE  Sound'
  <1>1. Typed
    BY DEF Sound
  <1>2. PICK ls \in Seq(DocumentLine), d \in Document, n \in Document, x \in Nat :
            /\ Credits(request, invoices[k], ls) /\ Posts(ls)
            /\ CreditedBy(request, invoices[k], d, x) /\ NoteOf(k, ls, n, x)
            /\ x = Allocation(n.total, invoices[k].outstanding)
            /\ invoices' = Append([invoices EXCEPT ![k] = d], n)
            /\ line' = [l \in Lines |-> LineCredited(l, BackOn(ls, l))]
            /\ gl' = [gl EXCEPT !.ar = @ - BaseTotal(ls), !.sales = @ + BaseNet(ls),
                                !.tax = @ + BaseTax(ls)]
            /\ party' = party - BaseTotal(ls)
    BY CreditRows
  <1>3. goods' = goods /\ payments' = payments /\ Refreshed
    BY DEF CreditInvoice
  <1> DEFINE old == invoices[k]
             rest == [invoices EXCEPT ![k] = d]
  <1>4. rest \in Seq(Document) /\ DOMAIN rest = DOMAIN invoices /\ rest[k] = d
        /\ \A j \in DOMAIN invoices \ {k} : rest[j] = invoices[j]
    BY <1>1 DEF Typed
  <1>5. SameLinks(rest)
    <2>1. ASSUME NEW j \in DOMAIN rest
          PROVE  /\ Open(rest[j]) /\ rest[j].type = invoices[j].type
                 /\ rest[j].against = invoices[j].against
                 /\ DOMAIN rest[j].lines = DOMAIN invoices[j].lines
                 /\ \A i \in DOMAIN rest[j].lines :
                       rest[j].lines[i].from = invoices[j].lines[i].from
      <3>1. CASE j = k
        BY <1>2, <1>4, <3>1 DEF CreditedBy, SameButCredited
      <3>2. CASE j # k
        BY <1>4, <3>2 DEF Sound, DocumentsSound
      <3> QED
        BY <3>1, <3>2
    <2> QED
      BY <1>4, <2>1 DEF SameLinks
  <1>6. Linked(n)
    <2>1. \A i \in DOMAIN old.lines : old.lines[i].from \in {None} \cup DOMAIN goods
      BY DEF Sound, DocumentsSound
    <2>2. \A i \in DOMAIN request : request[i].at \in DOMAIN old.lines
      BY Requested
    <2> HIDE DEF old
    <2>3. \A i \in DOMAIN ls : ls[i].from \in {None} \cup DOMAIN goods
      BY <1>2, <2>1, <2>2 DEF Credits, old
    <2> QED
      BY <1>2, <2>3 DEF NoteOf, Made, Linked
  <1>7. invoices' \in Seq(Document) /\ DocumentsSound'
    <2> HIDE DEF rest
    <2>1. invoices' = Append(rest, n)
      BY <1>2 DEF rest
    <2> QED
      BY <1>3, <1>4, <1>5, <1>6, <2>1, DocumentsGrow
  <1>8. GoodsSound'
    BY <1>3 DEF Sound, GoodsSound
  <1>9. line' \in [Lines -> Counters]
    <2>1. ASSUME NEW l \in Lines PROVE LineCredited(l, BackOn(ls, l)) \in Counters
      <3> DEFINE v == [i \in DOMAIN ls |-> IF ls[i].line = l THEN ls[i].qty ELSE 0]
      <3>1. DOMAIN ls = 1..Len(ls) /\ Len(ls) \in Nat /\ \A i \in DOMAIN ls : ls[i].qty \in Nat
        <4>1. \A q \in DocumentLine : q.qty \in Nat
          BY DEF DocumentLine
        <4> QED
          BY <4>1
      <3>2. v \in [1..Len(ls) -> Nat]
        BY <3>1
      <3>3. v \in Seq(Nat)
        BY <3>1, <3>2, FunctionIsSeq
      <3> HIDE DEF v
      <3>4. BackOn(ls, l) \in Nat
        BY <3>3, SeqSumNat DEF BackOn, v
      <3>5. line[l] \in Counters
        BY <1>1, Rows
      <3>6. \A r \in Counters, q \in Nat :
               [r EXCEPT !.invoiced = IF r.invoiced > q THEN r.invoiced - q ELSE 0] \in Counters
        BY DEF Counters
      <3> QED
        BY <3>4, <3>5, <3>6 DEF LineCredited
    <2> QED
      BY <1>2, <2>1
  <1>10. BaseTotal(ls) \in Int /\ BaseNet(ls) \in Int /\ BaseTax(ls) \in Int
    BY LineTotals
  <1>11. gl' \in [Accounts -> Int]
    <2>1. gl' = [a \in Accounts |-> IF a = "ar" THEN gl[a] - BaseTotal(ls)
                                    ELSE IF a = "sales" THEN gl[a] + BaseNet(ls)
                                    ELSE IF a = "tax" THEN gl[a] + BaseTax(ls) ELSE gl[a]]
      BY <1>1, <1>2 DEF Typed, Accounts
    <2> QED
      BY <1>1, <1>10, <2>1, Rows
  <1>12. party' \in Int
    BY <1>1, <1>2, <1>10 DEF Typed
  <1>13. Typed'
    BY <1>1, <1>3, <1>7, <1>9, <1>11, <1>12, RefreshIsTyped DEF Typed
  <1> QED
    BY <1>7, <1>8, <1>13 DEF Sound

-----------------------------------------------------------------------------
(* The rows stay typed, within their bounds and linked.                      *)

\* The invariant holds when the order is entered.
LEMMA InitSound == EntryInit => Sound
  <1> SUFFICES ASSUME EntryInit PROVE Sound
    OBVIOUS
  <1>1. order \in {Draft, Confirmed} /\ NothingDone
    BY DEF EntryInit, Init, ImportOrder
  <1>2. order \in [state : {"Draft", "Posted"}, status : Statuses]
    <2>1. Draft \in [state : {"Draft", "Posted"}, status : Statuses]
      BY DEF Draft, Statuses
    <2>2. Confirmed \in [state : {"Draft", "Posted"}, status : Statuses]
      BY DEF Confirmed, Statuses
    <2> QED
      BY <1>1, <2>1, <2>2
  <1>3. Typed
    BY <1>1, <1>2 DEF NothingDone, Typed, Counters
  <1>4. GoodsSound /\ DocumentsSound
    BY <1>1 DEF NothingDone, GoodsSound, DocumentsSound
  <1> QED
    BY <1>3, <1>4 DEF Sound

\* Every operation keeps the invariant.
LEMMA StepSound == Sound /\ [Handlers]_vars => Sound'
  <1> SUFFICES ASSUME Sound, [Handlers]_vars PROVE Sound'
    OBVIOUS
  <1>1. CASE PostOrder
    <2>1. order' \in [state : {"Draft", "Posted"}, status : Statuses]
      BY <1>1 DEF PostOrder, Confirmed, Statuses
    <2>2. UNCHANGED <<line, goods, invoices, payments, gl, party>>
      BY <1>1 DEF PostOrder
    <2> QED
      BY <2>1, <2>2 DEF Sound, Typed, GoodsSound, DocumentsSound, Open
  <1>2. CASE UNCHANGED vars
    BY <1>2 DEF vars, Sound, Typed, GoodsSound, DocumentsSound, Open
  <1> QED
    BY <1>1, <1>2, DeliverSound, ReturnSound, InvoiceSound, ReceiveSound, CreditSound
       DEF Handlers

\* No handler takes an invoice away.
LEMMA InvoicesStay ==
  ASSUME Typed, [Handlers]_vars
  PROVE  DOMAIN invoices \subseteq DOMAIN invoices'
  <1>1. \A s \in Seq(Document) : \A d : DOMAIN s \subseteq DOMAIN Append(s, d)
    OBVIOUS
  <1>2. invoices \in Seq(Document)
    BY DEF Typed
  <1>3. ASSUME NEW request \in Seq(Draw(Lines)), InvoiceLines(request)
        PROVE  DOMAIN invoices \subseteq DOMAIN invoices'
    <2>1. \E d : invoices' = Append(invoices, d)
      BY <1>3 DEF InvoiceLines
    <2> QED
      BY <2>1, <1>2
  <1>4. ASSUME NEW k \in DOMAIN invoices, NEW request, CreditInvoice(k, request)
        PROVE  DOMAIN invoices \subseteq DOMAIN invoices'
    <2>1. \E d, e : invoices' = Append([invoices EXCEPT ![k] = d], e)
      BY <1>4 DEF CreditInvoice
    <2>2. PICK d, e : invoices' = Append([invoices EXCEPT ![k] = d], e)
      BY <2>1
    <2>3. [invoices EXCEPT ![k] = d] \in Seq(Document \cup {d})
      BY <1>2
    <2>4. \A s \in Seq(Document \cup {d}) : DOMAIN s \subseteq DOMAIN Append(s, e)
      OBVIOUS
    <2>5. DOMAIN [invoices EXCEPT ![k] = d] = DOMAIN invoices
      OBVIOUS
    <2> QED
      BY <2>2, <2>3, <2>4, <2>5
  <1>5. ASSUME NEW p, NEW target, Receive(p, target)
        PROVE  DOMAIN invoices \subseteq DOMAIN invoices'
    BY <1>5 DEF Receive
  <1> QED
    BY <1>3, <1>4, <1>5 DEF Handlers, PostOrder, DeliverLines, ReturnLines, vars

\* A clerk's page holds what one of its reads can have shown.
LEMMA PagesStayRead ==
  ASSUME Sound, PagesRead, [EntryNext]_entry
  PROVE  PagesRead'
  <1>1. Typed /\ Sound'
    BY EntryIsHandlers, StepSound DEF Sound
  <1>2. DOMAIN invoices \subseteq DOMAIN invoices'
    BY <1>1, EntryIsHandlers, InvoicesStay
  <1>3. ASSUME UNCHANGED page PROVE PagesRead'
    BY <1>2, <1>3 DEF PagesRead
  <1>4. ASSUME NEW c \in Clerks, NEW v \in Views, page' = [page EXCEPT ![c] = v],
               v.at = "paying" => v.invoice \in DOMAIN invoices'
        PROVE  PagesRead'
    BY <1>2, <1>4 DEF PagesRead
  <1>5. Idle \in Views /\ Idle.at # "paying"
    BY DEF Idle, Views
  <1>6. ASSUME NEW c \in Clerks, Done(c) \/ GiveUp(c) PROVE PagesRead'
    BY <1>4, <1>5, <1>6 DEF Done, GiveUp, Shown
  <1>7. ASSUME NEW c \in Clerks, NEW x \in {"deliver", "invoice", "unbilled"},
               Shown(c, [at |-> x])
        PROVE  PagesRead'
    <2>1. [at |-> x] \in Views /\ [at |-> x].at # "paying"
      BY DEF Views
    <2> QED
      BY <1>4, <1>7, <2>1 DEF Shown
  <1>8. ASSUME NEW c \in Clerks, ReadUndelivered(c) PROVE PagesRead'
    <2>1. \A l \in Lines : Undelivered[l] \in Int
      <3>1. \A l \in Lines : line[l] \in Counters /\ Ordered[l] \in Nat
        BY <1>1, OrderAssumption DEF Typed
      <3> QED
        BY <3>1 DEF Undelivered, Counters
    <2> DEFINE view == [at |-> "delivering", request |-> Rest(Undelivered)]
    <2>2. Rest(Undelivered) \in Seq(Ask(Lines))
      BY <2>1, RestIsRequest
    <2>3. view \in Views /\ view.at # "paying"
      BY <2>2 DEF Views
    <2> QED
      BY <1>4, <1>8, <2>3 DEF ReadUndelivered, Shown
  <1>9. ASSUME NEW c \in Clerks, ReadUnbilled(c) PROVE PagesRead'
    <2> DEFINE left == [l \in Lines |-> Ordered[l] - line[l].invoiced]
               rest == Rest(left)
               view == [at |-> "invoicing", request |-> Unbilled]
    <2>1. \A l \in Lines : left[l] \in Int
      <3>1. \A l \in Lines : line[l] \in Counters /\ Ordered[l] \in Nat
        BY <1>1, OrderAssumption DEF Typed
      <3> QED
        BY <3>1 DEF Counters
    <2> HIDE DEF left
    <2>2. rest \in Seq(Ask(Lines))
      BY <2>1, RestIsRequest
    <2>3. Unbilled = [i \in DOMAIN rest |->
                        [at |-> rest[i].at, qty |-> rest[i].qty, from |-> None]]
      BY DEF Unbilled, left
    <2> HIDE DEF rest
    <2>4. DOMAIN rest = 1..Len(rest) /\ Len(rest) \in Nat
          /\ \A i \in DOMAIN rest : rest[i] \in Ask(Lines)
      BY <2>2
    <2>5. \A i \in DOMAIN rest : [at |-> rest[i].at, qty |-> rest[i].qty, from |-> None] \in Bill
      BY <2>4 DEF Ask, Bill
    <2>6. Unbilled \in [1..Len(rest) -> Bill]
      BY <2>3, <2>4, <2>5
    <2>7. Unbilled \in Seq(Bill)
      BY <2>4, <2>6, FunctionIsSeq
    <2>8. view \in Views /\ view.at # "paying"
      BY <2>7 DEF Views
    <2> QED
      BY <1>4, <1>9, <2>8 DEF ReadUnbilled, Shown
  <1>10. ASSUME NEW c \in Clerks, PressPay(c) PROVE PagesRead'
    <2>1. PICK k \in DOMAIN invoices, x \in Amounts :
             Shown(c, [at |-> "paying", invoice |-> k,
                       pay |-> Smaller(invoices[k].total - invoices[k].paid, x)])
      BY <1>10 DEF PressPay
    <2> DEFINE pay == Smaller(invoices[k].total - invoices[k].paid, x)
               view == [at |-> "paying", invoice |-> k, pay |-> pay]
    <2>2. k \in Nat /\ k \in DOMAIN invoices'
      BY <1>1, <1>2 DEF Typed
    <2>3. pay \in Int
      <3>1. invoices[k] \in Document
        BY <1>1 DEF Typed
      <3>2. invoices[k].total \in Nat /\ invoices[k].paid \in Nat
        BY <3>1 DEF Document
      <3>3. x \in Nat
        BY EntryAssumption
      <3>4. \A t, q, z \in Nat : Smaller(t - q, z) \in Int
        BY DEF Smaller
      <3> QED
        BY <3>2, <3>3, <3>4
    <2>4. Shown(c, view)
      BY <2>1
    <2> HIDE DEF pay
    <2>5. view \in Views /\ view.invoice = k
      BY <2>2, <2>3 DEF Views
    <2> HIDE DEF view
    <2> QED
      BY <1>4, <2>2, <2>4, <2>5 DEF Shown
  <1>11. ASSUME NEW c \in Clerks, Button(c) PROVE PagesRead'
    BY <1>6, <1>7, <1>8, <1>9, <1>10, <1>11
       DEF Button, PressDeliver, DeliverRest, PressInvoice, ReadInvoices, InvoiceRest,
           RecordPayment
  <1> QED
    BY <1>3, <1>11 DEF EntryNext, ConfirmOrder, entry

(* Whatever the callers do, the rows stay sound, and what they do are handlers. *)
THEOREM SoundAlways == EntrySpec => []Sound /\ [][Handlers]_vars
  <1>1. EntryInit => Sound /\ PagesRead
    <2>1. EntryInit => PagesRead
      BY DEF EntryInit, PagesRead, Idle, Views
    <2> QED
      BY <2>1, InitSound
  <1>2. Sound /\ PagesRead /\ [EntryNext]_entry => (Sound /\ PagesRead)' /\ [Handlers]_vars
    BY EntryIsHandlers, StepSound, PagesStayRead DEF Sound
  <1> QED
    BY <1>1, <1>2, PTL DEF EntrySpec

(* Every document the handlers write is one the tables admit. *)
THEOREM TypeCorrect == EntrySpec => []TypeOK
  <1>1. Sound => TypeOK
    <2> SUFFICES ASSUME Sound PROVE TypeOK
      OBVIOUS
    <2>1. Typed /\ GoodsSound /\ DocumentsSound
      BY DEF Sound
    <2>2. /\ order.state \in {"Draft", "Posted"} /\ order.status \in Statuses
          /\ line \in [Lines -> Counters] /\ gl \in [Accounts -> Int] /\ party \in Int
      BY <2>1 DEF Typed
    <2>3. ASSUME NEW k \in DOMAIN goods
          PROVE  LET g == goods[k] IN
                 /\ g.doc \in 1..k /\ g.kind \in {"Delivery", "Return"} /\ g.line \in Lines
                 /\ g.qty \in Nat \ {0} /\ g.returned \in 0..g.qty /\ g.billed \in Nat
                 /\ (g.charge = None) = (g.line \notin Goods \/ g.kind = "Return")
      <3>1. goods[k] \in GoodsLine /\ k \in Nat
        BY <2>1, Rows
      <3>2. /\ goods[k].doc \in Nat /\ goods[k].kind \in Movements /\ goods[k].line \in Lines
            /\ goods[k].qty \in Nat \ {0} /\ goods[k].returned \in Nat /\ goods[k].billed \in Nat
        BY <3>1 DEF GoodsLine
      <3>3. /\ 1 <= goods[k].doc /\ goods[k].doc <= k /\ goods[k].returned <= goods[k].qty
            /\ goods[k].charge = None <=> (goods[k].line \notin Goods \/ goods[k].kind = "Return")
        BY <2>1 DEF GoodsSound
      <3>4. goods[k].kind \in {"Delivery", "Return"}
        BY <3>2 DEF Movements
      <3>5. goods[k].doc \in 1..k /\ goods[k].returned \in 0..goods[k].qty
        BY <3>1, <3>2, <3>3
      <3>6. (goods[k].charge = None) = (goods[k].line \notin Goods \/ goods[k].kind = "Return")
        BY <3>3
      <3> QED
        BY <3>2, <3>4, <3>5, <3>6
    <2>4. ASSUME NEW k \in DOMAIN invoices
          PROVE  LET d == invoices[k] IN
                 /\ IF d.type = "Invoice" THEN d.against = None
                    ELSE d.type = "Credit Note" /\ d.against \in 1..(k - 1)
                 /\ {d.total, d.outstanding, d.paid} \subseteq Nat
                 /\ \A j \in DOMAIN d.lines :
                       /\ d.lines[j].qty \in Nat \ {0}
                       /\ d.lines[j].credited \in 0..d.lines[j].qty
                       /\ d.lines[j].from \in {None} \cup DOMAIN goods
      <3>1. invoices[k] \in Document
        BY <2>1, Rows
      <3>2. /\ invoices[k].type \in Kinds /\ invoices[k].total \in Nat
            /\ invoices[k].outstanding \in Nat /\ invoices[k].paid \in Nat
            /\ invoices[k].lines \in Seq(DocumentLine)
        BY <3>1 DEF Document
      <3>3. /\ IF invoices[k].type = "Invoice" THEN invoices[k].against = None
               ELSE invoices[k].against \in 1..(k - 1)
            /\ \A j \in DOMAIN invoices[k].lines :
                  /\ invoices[k].lines[j].from \in {None} \cup DOMAIN goods
                  /\ invoices[k].lines[j].credited <= invoices[k].lines[j].qty
        BY <2>1 DEF DocumentsSound, Open
      <3>4. IF invoices[k].type = "Invoice" THEN invoices[k].against = None
            ELSE invoices[k].type = "Credit Note" /\ invoices[k].against \in 1..(k - 1)
        BY <3>2, <3>3 DEF Kinds
      <3>5. \A j \in DOMAIN invoices[k].lines :
               invoices[k].lines[j].qty \in Nat \ {0} /\ invoices[k].lines[j].credited \in Nat
        <4>1. \A q \in DocumentLine : q.qty \in Nat \ {0} /\ q.credited \in Nat
          BY DEF DocumentLine
        <4> QED
          BY <3>2, <4>1
      <3>6. \A j \in DOMAIN invoices[k].lines :
               invoices[k].lines[j].credited \in 0..invoices[k].lines[j].qty
        BY <3>3, <3>5
      <3> QED
        BY <3>2, <3>3, <3>4, <3>5, <3>6
    <2> QED
      BY <2>2, <2>3, <2>4 DEF TypeOK, Statuses, Counters
  <1> QED
    BY <1>1, SoundAlways, PTL

-----------------------------------------------------------------------------
(* The counters are sums over the rows of the documents. *)

DeliveredOn(l) == [g \in GoodsLine |-> IF g.line = l /\ g.kind = "Delivery" THEN g.qty ELSE 0]
ReceivedOn(l) == [g \in GoodsLine |-> IF g.line = l /\ g.kind = "Return" THEN g.qty ELSE 0]
ReturnedOn(l) == [g \in GoodsLine |-> IF g.line = l THEN g.returned ELSE 0]
LeftOn(l) == [x \in DocumentLine |-> IF x.line = l THEN x.qty - x.credited ELSE 0]
InvoicedOn(l) == [d \in Document |-> IF d.type = "Invoice" THEN Over(LeftOn(l), d.lines) ELSE 0]
FromRow(k) == [x \in DocumentLine |-> IF x.from = k THEN x.qty ELSE 0]
BilledFrom(k) == [d \in Document |-> IF d.type = "Invoice" THEN Over(FromRow(k), d.lines) ELSE 0]

GoodsCounted ==
    \A l \in Lines :
        /\ line[l].delivered = Over(DeliveredOn(l), goods)
        /\ line[l].returned = Over(ReceivedOn(l), goods)
        /\ line[l].returned = Over(ReturnedOn(l), goods)

InvoicesCounted == \A l \in Lines : line[l].invoiced = Over(InvoicedOn(l), invoices)

DrawingCounted == \A k \in DOMAIN goods : goods[k].billed = Over(BilledFrom(k), invoices)

\* What is counted of a row is an integer.
LEMMA CountingFunctions ==
  /\ \A l : /\ DeliveredOn(l) \in [GoodsLine -> Int] /\ ReceivedOn(l) \in [GoodsLine -> Int]
            /\ ReturnedOn(l) \in [GoodsLine -> Int] /\ LeftOn(l) \in [DocumentLine -> Int]
            /\ FromRow(l) \in [DocumentLine -> Int] /\ InvoicedOn(l) \in [Document -> Int]
            /\ BilledFrom(l) \in [Document -> Int]
  <1>1. \A g \in GoodsLine : g.qty \in Int /\ g.returned \in Int
    BY DEF GoodsLine
  <1>2. \A x \in DocumentLine : x.qty \in Int /\ x.qty - x.credited \in Int
    BY DEF DocumentLine
  <1>3. \A d \in Document : d.lines \in Seq(DocumentLine)
    BY DEF Document
  <1>4. ASSUME NEW l
        PROVE  /\ DeliveredOn(l) \in [GoodsLine -> Int] /\ ReceivedOn(l) \in [GoodsLine -> Int]
               /\ ReturnedOn(l) \in [GoodsLine -> Int]
    BY <1>1 DEF DeliveredOn, ReceivedOn, ReturnedOn
  <1>5. ASSUME NEW l
        PROVE  LeftOn(l) \in [DocumentLine -> Int] /\ FromRow(l) \in [DocumentLine -> Int]
    BY <1>2 DEF LeftOn, FromRow
  <1>6. ASSUME NEW l
        PROVE  InvoicedOn(l) \in [Document -> Int] /\ BilledFrom(l) \in [Document -> Int]
    <2>1. \A d \in Document : Over(LeftOn(l), d.lines) \in Int /\ Over(FromRow(l), d.lines) \in Int
      BY <1>3, <1>5, OverInt
    <2> QED
      BY <2>1 DEF InvoicedOn, BilledFrom
  <1> QED
    BY <1>4, <1>5, <1>6

(* The rows a delivery adds count what it asks. *)
LEMMA IssuedCounts ==
  ASSUME NEW request \in Seq(Ask(Lines)), NEW new \in Seq(GoodsLine), Issued(request, new), NEW l
  PROVE  /\ Over(DeliveredOn(l), new) = Asked(request, l)
         /\ Over(ReceivedOn(l), new) = 0 /\ Over(ReturnedOn(l), new) = 0
  <1>1. \A i \in DOMAIN new : new[i] \in GoodsLine
    OBVIOUS
  <1>2. \A i \in DOMAIN new :
           /\ DeliveredOn(l)[new[i]] = IF request[i].at = l THEN request[i].qty ELSE 0
           /\ ReceivedOn(l)[new[i]] = 0 /\ ReturnedOn(l)[new[i]] = 0
    BY <1>1 DEF Issued, DeliveredOn, ReceivedOn, ReturnedOn
  <1>3. [i \in DOMAIN new |-> DeliveredOn(l)[new[i]]]
          = [i \in DOMAIN request |-> IF request[i].at = l THEN request[i].qty ELSE 0]
    BY <1>2 DEF Issued
  <1>4. Over(DeliveredOn(l), new) = Asked(request, l)
    BY <1>3 DEF Over, Asked, SumWhere
  <1> QED
    BY <1>2, <1>4, CountingFunctions, OverZero

(* The rows a return adds, and what it takes from the rows before. *)
LEMMA TakenCounts ==
  ASSUME Typed, NEW request \in Seq(Ask(DOMAIN goods)),
         NEW old \in Seq(GoodsLine), NEW new \in Seq(GoodsLine),
         Taken(request, old), Returned(request, new), NEW l
  PROVE  /\ Over(DeliveredOn(l), old) = Over(DeliveredOn(l), goods)
         /\ Over(ReceivedOn(l), old) = Over(ReceivedOn(l), goods)
         /\ Over(ReturnedOn(l), old) = Over(ReturnedOn(l), goods) + Brought(request, l)
         /\ Over(DeliveredOn(l), new) = 0 /\ Over(ReturnedOn(l), new) = 0
         /\ Over(ReceivedOn(l), new) = Brought(request, l)
  <1>1. /\ \A i \in DOMAIN new : new[i] \in GoodsLine
        /\ \A k \in DOMAIN goods : old[k] \in GoodsLine /\ goods[k] \in GoodsLine
        /\ goods \in Seq(GoodsLine) /\ DOMAIN old = DOMAIN goods
        /\ DOMAIN goods = 1..Len(goods) /\ Len(goods) \in Nat
    BY Rows DEF Taken, Typed
  <1>2. \A k \in DOMAIN goods : /\ DeliveredOn(l)[old[k]] = DeliveredOn(l)[goods[k]]
                                /\ ReceivedOn(l)[old[k]] = ReceivedOn(l)[goods[k]]
    BY <1>1 DEF Taken, DeliveredOn, ReceivedOn
  <1>3. /\ Over(DeliveredOn(l), old) = Over(DeliveredOn(l), goods)
        /\ Over(ReceivedOn(l), old) = Over(ReceivedOn(l), goods)
    <2>2. /\ Alike(DeliveredOn(l), old, DeliveredOn(l), goods)
          /\ Alike(ReceivedOn(l), old, ReceivedOn(l), goods)
      BY <1>1, <1>2 DEF Alike
    <2>3. Over(DeliveredOn(l), old) = Over(DeliveredOn(l), goods)
      BY <2>2, OverEqual
    <2>4. Over(ReceivedOn(l), old) = Over(ReceivedOn(l), goods)
      BY <2>2, OverEqual
    <2> QED
      BY <2>3, <2>4
  <1> DEFINE c == [k \in 1..Len(goods) |-> IF goods[k].line = l THEN 1 ELSE 0]
             d == [k \in DOMAIN goods |-> c[k] * Asked(request, k)]
  <1>4. \A k \in DOMAIN goods :
           d[k] \in Int /\ ReturnedOn(l)[old[k]] = ReturnedOn(l)[goods[k]] + d[k]
    <2>1. ASSUME NEW k \in DOMAIN goods
          PROVE  d[k] \in Int /\ ReturnedOn(l)[old[k]] = ReturnedOn(l)[goods[k]] + d[k]
      <3>1. Asked(request, k) \in Nat
        BY Requested
      <3>2. old[k].line = goods[k].line /\ old[k].returned = goods[k].returned + Asked(request, k)
        BY DEF Taken
      <3>3. goods[k].returned \in Nat
        BY <1>1 DEF GoodsLine
      <3>4. /\ ReturnedOn(l)[old[k]] = IF old[k].line = l THEN old[k].returned ELSE 0
            /\ ReturnedOn(l)[goods[k]] = IF goods[k].line = l THEN goods[k].returned ELSE 0
        BY <1>1 DEF ReturnedOn
      <3>5. d[k] = IF goods[k].line = l THEN Asked(request, k) ELSE 0
        BY <1>1, <3>1
      <3> HIDE DEF d
      <3> QED
        BY <3>1, <3>2, <3>3, <3>4, <3>5
    <2> QED
      BY <2>1
  <1>5. Over(ReturnedOn(l), old) = Over(ReturnedOn(l), goods) + SeqSum([k \in DOMAIN goods |-> d[k]])
    <2> HIDE DEF d
    <2>1. ReturnedOn(l) \in [GoodsLine -> Int]
      BY CountingFunctions
    <2>2. Shifted(GoodsLine, ReturnedOn(l), goods, old, d)
      BY <1>1, <1>4, <2>1 DEF Shifted
    <2> QED
      BY <2>2, OverAdd
  <1>6. SeqSum([k \in DOMAIN goods |-> d[k]]) = Brought(request, l)
    <2>1. c \in [1..Len(goods) -> Int]
      OBVIOUS
    <2>2. \A i \in DOMAIN request : request[i].qty \in Nat /\ request[i].at \in 1..Len(goods)
      BY <1>1, Requested
    <2>3. [k \in DOMAIN goods |-> d[k]] = [k \in 1..Len(goods) |-> c[k] * Asked(request, k)]
      BY <1>1
    <2>4. [i \in DOMAIN request |-> c[request[i].at] * request[i].qty]
            = [i \in DOMAIN request |->
                 IF goods[request[i].at].line = l THEN request[i].qty ELSE 0]
      BY <2>2
    <2> HIDE DEF c
    <2>5. SeqSum([k \in 1..Len(goods) |-> c[k] * Asked(request, k)])
            = SeqSum([i \in DOMAIN request |-> c[request[i].at] * request[i].qty])
      BY <1>1, <2>1, <2>2, AskedGroup
    <2>6. Brought(request, l) = SeqSum([i \in DOMAIN request |->
                 IF goods[request[i].at].line = l THEN request[i].qty ELSE 0])
      BY DEF Brought, SumWhere
    <2> QED
      BY <2>3, <2>4, <2>5, <2>6
  <1>7. \A i \in DOMAIN new :
           /\ DeliveredOn(l)[new[i]] = 0 /\ ReturnedOn(l)[new[i]] = 0
           /\ ReceivedOn(l)[new[i]] =
                 IF goods[request[i].at].line = l THEN request[i].qty ELSE 0
    BY <1>1 DEF Returned, DeliveredOn, ReturnedOn, ReceivedOn
  <1>8. Over(DeliveredOn(l), new) = 0 /\ Over(ReturnedOn(l), new) = 0
    BY <1>7, CountingFunctions, OverZero
  <1>9. Over(ReceivedOn(l), new) = Brought(request, l)
    <2>1. [i \in DOMAIN new |-> ReceivedOn(l)[new[i]]]
            = [i \in DOMAIN request |->
                 IF goods[request[i].at].line = l THEN request[i].qty ELSE 0]
      BY <1>7 DEF Returned
    <2> QED
      BY <2>1 DEF Over, Brought, SumWhere
  <1> QED
    BY <1>3, <1>5, <1>6, <1>8, <1>9

(* A delivery and a return keep the counters of what was delivered and returned. *)
LEMMA DeliverCounted ==
  ASSUME Sound, GoodsCounted, NEW request \in Seq(Ask(Lines)), DeliverLines(request)
  PROVE  GoodsCounted'
  <1>1. Typed /\ goods \in Seq(GoodsLine)
    BY DEF Sound, Typed
  <1>2. PICK new \in Seq(GoodsLine) : Issued(request, new) /\ goods' = goods \o new
    BY <1>1, DeliverRows
  <1>3. ASSUME NEW l \in Lines
        PROVE  /\ line'[l].delivered = Over(DeliveredOn(l), goods')
               /\ line'[l].returned = Over(ReceivedOn(l), goods')
               /\ line'[l].returned = Over(ReturnedOn(l), goods')
    <2>1. /\ line'[l].delivered = line[l].delivered + Asked(request, l)
          /\ line'[l].returned = line[l].returned
      <3>1. line[l] \in Counters
        BY <1>1, Rows
      <3> QED
        BY <3>1 DEF DeliverLines, Counters
    <2>2. /\ DeliveredOn(l) \in [GoodsLine -> Int] /\ ReceivedOn(l) \in [GoodsLine -> Int]
          /\ ReturnedOn(l) \in [GoodsLine -> Int]
      BY CountingFunctions
    <2>3. /\ Over(DeliveredOn(l), goods') = Over(DeliveredOn(l), goods) + Over(DeliveredOn(l), new)
          /\ Over(ReceivedOn(l), goods') = Over(ReceivedOn(l), goods) + Over(ReceivedOn(l), new)
          /\ Over(ReturnedOn(l), goods') = Over(ReturnedOn(l), goods) + Over(ReturnedOn(l), new)
      <3>1. ASSUME NEW f \in [GoodsLine -> Int]
            PROVE  Over(f, goods \o new) = Over(f, goods) + Over(f, new)
        BY <1>1, OverConcat
      <3>2. goods' = goods \o new
        BY <1>2
      <3> QED
        BY <2>2, <3>1, <3>2
    <2>4. /\ Over(DeliveredOn(l), new) = Asked(request, l)
          /\ Over(ReceivedOn(l), new) = 0 /\ Over(ReturnedOn(l), new) = 0
      BY <1>2, IssuedCounts
    <2>5. Over(ReceivedOn(l), goods) \in Int /\ Over(ReturnedOn(l), goods) \in Int
      BY <1>1, <2>2, OverInt
    <2>6. /\ line[l].delivered = Over(DeliveredOn(l), goods)
          /\ line[l].returned = Over(ReceivedOn(l), goods)
          /\ line[l].returned = Over(ReturnedOn(l), goods)
      BY DEF GoodsCounted
    <2> QED
      BY <2>1, <2>3, <2>4, <2>5, <2>6
  <1> QED
    BY <1>3 DEF GoodsCounted

\* A return takes from its delivery what it adds as returned.
LEMMA ReturnCounted ==
  ASSUME Sound, GoodsCounted, NEW request \in Seq(Ask(DOMAIN goods)), ReturnLines(request)
  PROVE  GoodsCounted'
  <1>1. Typed /\ GoodsSound /\ goods \in Seq(GoodsLine)
    BY DEF Sound, Typed
  <1>2. PICK old \in Seq(GoodsLine), new \in Seq(GoodsLine) :
           Taken(request, old) /\ Returned(request, new) /\ goods' = old \o new
    BY <1>1, ReturnRows
  <1>3. ASSUME NEW l \in Lines
        PROVE  /\ line'[l].delivered = Over(DeliveredOn(l), goods')
               /\ line'[l].returned = Over(ReceivedOn(l), goods')
               /\ line'[l].returned = Over(ReturnedOn(l), goods')
    <2>1. /\ line'[l].delivered = line[l].delivered
          /\ line'[l].returned = line[l].returned + Brought(request, l)
      <3>1. line[l] \in Counters
        BY <1>1, Rows
      <3>2. line'[l] = [line[l] EXCEPT !.returned = line[l].returned + Brought(request, l)]
        BY DEF ReturnLines, LineReturned
      <3> QED
        BY <3>1, <3>2 DEF Counters
    <2>2. /\ DeliveredOn(l) \in [GoodsLine -> Int] /\ ReceivedOn(l) \in [GoodsLine -> Int]
          /\ ReturnedOn(l) \in [GoodsLine -> Int]
      BY CountingFunctions
    <2>3. /\ Over(DeliveredOn(l), goods') = Over(DeliveredOn(l), old) + Over(DeliveredOn(l), new)
          /\ Over(ReceivedOn(l), goods') = Over(ReceivedOn(l), old) + Over(ReceivedOn(l), new)
          /\ Over(ReturnedOn(l), goods') = Over(ReturnedOn(l), old) + Over(ReturnedOn(l), new)
      <3>1. ASSUME NEW f \in [GoodsLine -> Int]
            PROVE  Over(f, old \o new) = Over(f, old) + Over(f, new)
        BY OverConcat
      <3>2. goods' = old \o new
        BY <1>2
      <3> QED
        BY <2>2, <3>1, <3>2
    <2>4. /\ Over(DeliveredOn(l), old) = Over(DeliveredOn(l), goods)
          /\ Over(ReceivedOn(l), old) = Over(ReceivedOn(l), goods)
          /\ Over(ReturnedOn(l), old) = Over(ReturnedOn(l), goods) + Brought(request, l)
          /\ Over(DeliveredOn(l), new) = 0 /\ Over(ReturnedOn(l), new) = 0
          /\ Over(ReceivedOn(l), new) = Brought(request, l)
      BY <1>1, <1>2, TakenCounts
    <2>5. /\ Over(DeliveredOn(l), goods) \in Int
          /\ Over(ReturnedOn(l), old) \in Int
      BY <1>1, <1>2, <2>2, OverInt
    <2>6. /\ line[l].delivered = Over(DeliveredOn(l), goods)
          /\ line[l].returned = Over(ReceivedOn(l), goods)
          /\ line[l].returned = Over(ReturnedOn(l), goods)
      BY DEF GoodsCounted
    <2> QED
      BY <2>1, <2>3, <2>4, <2>5, <2>6
  <1> QED
    BY <1>3 DEF GoodsCounted

(* Rows that differ in what was billed from them count the same. *)
LEMMA DrawnCounts ==
  ASSUME Typed, NEW request, NEW rows \in Seq(GoodsLine), Drawn(request, rows), NEW l
  PROVE  /\ Over(DeliveredOn(l), rows) = Over(DeliveredOn(l), goods)
         /\ Over(ReceivedOn(l), rows) = Over(ReceivedOn(l), goods)
         /\ Over(ReturnedOn(l), rows) = Over(ReturnedOn(l), goods)
  <1>1. /\ \A k \in DOMAIN goods : rows[k] \in GoodsLine /\ goods[k] \in GoodsLine
        /\ DOMAIN rows = DOMAIN goods
    BY Rows DEF Drawn
  <1>2. \A k \in DOMAIN goods : /\ DeliveredOn(l)[rows[k]] = DeliveredOn(l)[goods[k]]
                                /\ ReceivedOn(l)[rows[k]] = ReceivedOn(l)[goods[k]]
                                /\ ReturnedOn(l)[rows[k]] = ReturnedOn(l)[goods[k]]
    BY <1>1 DEF Drawn, DeliveredOn, ReceivedOn, ReturnedOn
  <1>3. Alike(DeliveredOn(l), rows, DeliveredOn(l), goods)
    BY <1>1, <1>2 DEF Alike
  <1>4. Alike(ReceivedOn(l), rows, ReceivedOn(l), goods)
    BY <1>1, <1>2 DEF Alike
  <1>5. Alike(ReturnedOn(l), rows, ReturnedOn(l), goods)
    BY <1>1, <1>2 DEF Alike
  <1>6. Over(DeliveredOn(l), rows) = Over(DeliveredOn(l), goods)
    BY <1>3, OverEqual
  <1>7. Over(ReceivedOn(l), rows) = Over(ReceivedOn(l), goods)
    BY <1>4, OverEqual
  <1>8. Over(ReturnedOn(l), rows) = Over(ReturnedOn(l), goods)
    BY <1>5, OverEqual
  <1> QED
    BY <1>6, <1>7, <1>8

(* Every handler keeps the counters of what was delivered and returned. *)
LEMMA GoodsStayCounted ==
  ASSUME Sound, GoodsCounted, [Handlers]_vars
  PROVE  GoodsCounted'
  <1>1. Typed /\ \A l \in Lines : line[l] \in Counters
    BY Rows DEF Sound
  <1>2. ASSUME NEW request \in Seq(Draw(Lines)), InvoiceLines(request)
        PROVE  GoodsCounted'
    <2>1. goods' \in Seq(GoodsLine) /\ Drawn(request, goods')
      BY <1>1, <1>2, InvoiceRows
    <2>2. \A l \in Lines : /\ line'[l].delivered = line[l].delivered
                           /\ line'[l].returned = line[l].returned
      BY <1>1, <1>2 DEF InvoiceLines, Counters
    <2> QED
      BY <1>1, <2>1, <2>2, DrawnCounts DEF GoodsCounted
  <1>3. ASSUME NEW k \in DOMAIN invoices, NEW request \in Seq(Ask(DOMAIN invoices[k].lines)),
               CreditInvoice(k, request)
        PROVE  GoodsCounted'
    <2>1. PICK ls \in Seq(DocumentLine) : line' = [l \in Lines |-> LineCredited(l, BackOn(ls, l))]
      BY <1>3, CreditRows
    <2>2. \A l \in Lines : /\ line'[l].delivered = line[l].delivered
                           /\ line'[l].returned = line[l].returned
      BY <1>1, <2>1 DEF LineCredited, Counters
    <2>3. goods' = goods
      BY <1>3 DEF CreditInvoice
    <2> QED
      BY <2>2, <2>3 DEF GoodsCounted
  <1>4. ASSUME UNCHANGED <<line, goods>> PROVE GoodsCounted'
    BY <1>4 DEF GoodsCounted
  <1>5. CASE PostOrder \/ UNCHANGED vars
    BY <1>4, <1>5 DEF PostOrder, vars
  <1>6. ASSUME NEW p, NEW target, Receive(p, target) PROVE GoodsCounted'
    BY <1>4, <1>6 DEF Receive
  <1> QED
    BY <1>2, <1>3, <1>5, <1>6, DeliverCounted, ReturnCounted DEF Handlers

(* The lines of an invoice count what was asked. *)
LEMMA BillingCounts ==
  ASSUME NEW request \in Seq(Draw(Lines)), NEW ls \in Seq(DocumentLine), Billing(request, ls), NEW l
  PROVE  /\ Over(LeftOn(l), ls) = Asked(request, l)
         /\ Over(FromRow(l), ls) = DrawnBy(request, l)
  <1>1. \A i \in DOMAIN ls : ls[i] \in DocumentLine
    OBVIOUS
  <1>2. \A i \in DOMAIN request : request[i].qty \in Nat
    <2>1. \A i \in DOMAIN request : request[i].qty \in Nat \ {0}
      BY Drawing
    <2> QED
      BY <2>1
  <1>3. \A i \in DOMAIN ls :
           /\ LeftOn(l)[ls[i]] = IF request[i].at = l THEN request[i].qty ELSE 0
           /\ FromRow(l)[ls[i]] = IF request[i].from = l THEN request[i].qty ELSE 0
    <2>1. \A i \in DOMAIN ls : /\ ls[i].line = request[i].at /\ ls[i].qty = request[i].qty
                               /\ ls[i].from = request[i].from /\ ls[i].credited = 0
                               /\ request[i].qty - 0 = request[i].qty
      BY <1>2 DEF Billing
    <2> QED
      BY <1>1, <2>1 DEF LeftOn, FromRow
  <1>4. /\ [i \in DOMAIN ls |-> LeftOn(l)[ls[i]]]
             = [i \in DOMAIN request |-> IF request[i].at = l THEN request[i].qty ELSE 0]
        /\ [i \in DOMAIN ls |-> FromRow(l)[ls[i]]]
             = [i \in DOMAIN request |-> IF request[i].from = l THEN request[i].qty ELSE 0]
    BY <1>3 DEF Billing
  <1>5. Over(LeftOn(l), ls) = Asked(request, l)
    BY <1>4 DEF Over, Asked, SumWhere
  <1>6. Over(FromRow(l), ls) = DrawnBy(request, l)
    BY <1>4 DEF Over, DrawnBy
  <1> QED
    BY <1>5, <1>6

(* What a credit note takes back is taken from the lines of its invoice. *)
LEMMA CreditCounts ==
  ASSUME NEW old \in Document, NEW d \in Document, NEW request \in Seq(Ask(DOMAIN old.lines)),
         NEW ls \in Seq(DocumentLine), Credits(request, old, ls),
         SameButCredited(request, old, d), NEW l
  PROVE  /\ Over(LeftOn(l), old.lines) = Over(LeftOn(l), d.lines) + BackOn(ls, l)
         /\ Over(FromRow(l), d.lines) = Over(FromRow(l), old.lines)
  <1>1. old.lines \in Seq(DocumentLine) /\ d.lines \in Seq(DocumentLine)
    BY DEF Document
  <1>2. /\ DOMAIN d.lines = DOMAIN old.lines
        /\ DOMAIN old.lines = 1..Len(old.lines) /\ Len(old.lines) \in Nat
        /\ \A j \in DOMAIN old.lines : old.lines[j] \in DocumentLine /\ d.lines[j] \in DocumentLine
    BY <1>1 DEF SameButCredited
  <1>3. /\ \A i \in DOMAIN request : request[i].qty \in Nat /\ request[i].at \in DOMAIN old.lines
        /\ \A j : Asked(request, j) \in Nat
    BY Requested
  <1> DEFINE n == Len(old.lines)
             c == [j \in 1..n |-> IF old.lines[j].line = l THEN 1 ELSE 0]
             b == [j \in DOMAIN d.lines |-> c[j] * Asked(request, j)]
  <1>4. ASSUME NEW j \in DOMAIN old.lines
        PROVE  b[j] \in Int /\ LeftOn(l)[old.lines[j]] = LeftOn(l)[d.lines[j]] + b[j]
    <2>1. /\ d.lines[j].line = old.lines[j].line /\ d.lines[j].qty = old.lines[j].qty
          /\ d.lines[j].credited = old.lines[j].credited + Asked(request, j)
      BY <1>2 DEF SameButCredited
    <2>2. \A x \in DocumentLine : x.qty \in Nat /\ x.credited \in Nat
      BY DEF DocumentLine
    <2>3. /\ LeftOn(l)[old.lines[j]]
               = IF old.lines[j].line = l THEN old.lines[j].qty - old.lines[j].credited ELSE 0
          /\ LeftOn(l)[d.lines[j]]
               = IF d.lines[j].line = l THEN d.lines[j].qty - d.lines[j].credited ELSE 0
      BY <1>2 DEF LeftOn
    <2>4. b[j] = IF old.lines[j].line = l THEN Asked(request, j) ELSE 0
      BY <1>2, <1>3
    <2>5. /\ old.lines[j].qty \in Nat /\ old.lines[j].credited \in Nat
          /\ Asked(request, j) \in Nat
      BY <1>2, <1>3, <2>2
    <2> HIDE DEF b
    <2> QED
      BY <2>1, <2>3, <2>4, <2>5
  <1>5. Over(LeftOn(l), old.lines)
          = Over(LeftOn(l), d.lines) + SeqSum([j \in DOMAIN d.lines |-> b[j]])
    <2> HIDE DEF b
    <2>1. LeftOn(l) \in [DocumentLine -> Int]
      BY CountingFunctions
    <2>2. Shifted(DocumentLine, LeftOn(l), d.lines, old.lines, b)
      BY <1>1, <1>2, <1>4, <2>1 DEF Shifted
    <2> QED
      BY <2>2, OverAdd
  <1>6. SeqSum([j \in DOMAIN d.lines |-> b[j]]) = BackOn(ls, l)
    <2>1. c \in [1..n -> Int] /\ n \in Nat
      BY <1>2
    <2>2. \A i \in DOMAIN request : request[i].qty \in Nat /\ request[i].at \in 1..n
      BY <1>2, <1>3
    <2>3. [j \in DOMAIN d.lines |-> b[j]] = [j \in 1..n |-> c[j] * Asked(request, j)]
      BY <1>2
    <2>4. [i \in DOMAIN request |-> c[request[i].at] * request[i].qty]
            = [i \in DOMAIN ls |-> IF ls[i].line = l THEN ls[i].qty ELSE 0]
      BY <2>2 DEF Credits
    <2> HIDE DEF c, n
    <2>5. SeqSum([j \in 1..n |-> c[j] * Asked(request, j)])
            = SeqSum([i \in DOMAIN request |-> c[request[i].at] * request[i].qty])
      BY <2>1, <2>2, AskedGroup
    <2> QED
      BY <2>3, <2>4, <2>5 DEF BackOn
  <1>7. Over(FromRow(l), d.lines) = Over(FromRow(l), old.lines)
    <2>1. \A j \in DOMAIN old.lines : FromRow(l)[d.lines[j]] = FromRow(l)[old.lines[j]]
      BY <1>2 DEF SameButCredited, FromRow
    <2>2. Alike(FromRow(l), d.lines, FromRow(l), old.lines)
      BY <1>2, <2>1 DEF Alike
    <2> QED
      BY <2>2, OverEqual
  <1> QED
    BY <1>5, <1>6, <1>7

(* A payment changes neither the kind nor the lines of a document. *)
LEMMA SettlesLines ==
  ASSUME Sound, NEW p, NEW target, NEW rest, Settles(p, target, rest), NEW k \in DOMAIN invoices
  PROVE  rest[k].type = invoices[k].type /\ rest[k].lines = invoices[k].lines
  <1>1. invoices[k] \in Document /\ Open(invoices[k])
    BY Rows DEF Sound, DocumentsSound
  <1>2. CASE \A i \in DOMAIN target : target[i] # k
    BY <1>2 DEF Settles
  <1>3. ASSUME NEW i \in DOMAIN target, target[i] = k
        PROVE  rest[k].type = invoices[k].type /\ rest[k].lines = invoices[k].lines
    <2> DEFINE x == p.allocations[i].invoice_amount
    <2>1. /\ x \in Nat \ {0} /\ x <= invoices[k].outstanding
          /\ rest[k] = Settled(invoices[k], x)
      BY <1>3 DEF Settles
    <2> HIDE DEF x
    <2> QED
      BY <1>1, <2>1, SettledDocument
  <1> QED
    BY <1>2, <1>3

(* An invoice adds what it bills, a payment nothing, and a credit note takes back. *)
LEMMA DocumentsCount ==
  ASSUME Sound, NEW l
  PROVE  /\ \A request \in Seq(Draw(Lines)) : InvoiceLines(request) =>
               /\ Over(InvoicedOn(l), invoices') = Over(InvoicedOn(l), invoices) + Asked(request, l)
               /\ Over(BilledFrom(l), invoices') = Over(BilledFrom(l), invoices) + DrawnBy(request, l)
         /\ \A p \in Entry : \A target \in [DOMAIN p.allocations -> DOMAIN invoices] :
               Receive(p, target) =>
                  /\ Over(InvoicedOn(l), invoices') = Over(InvoicedOn(l), invoices)
                  /\ Over(BilledFrom(l), invoices') = Over(BilledFrom(l), invoices)
  <1>1. /\ Typed /\ invoices \in Seq(Document)
        /\ \A k \in DOMAIN invoices : invoices[k] \in Document
    BY Rows DEF Sound, Typed
  <1>2. InvoicedOn(l) \in [Document -> Int] /\ BilledFrom(l) \in [Document -> Int]
    BY CountingFunctions
  <1>3. ASSUME NEW request \in Seq(Draw(Lines)), InvoiceLines(request)
        PROVE  /\ Over(InvoicedOn(l), invoices') = Over(InvoicedOn(l), invoices) + Asked(request, l)
               /\ Over(BilledFrom(l), invoices') = Over(BilledFrom(l), invoices) + DrawnBy(request, l)
    <2>1. PICK ls \in Seq(DocumentLine), d \in Document :
             /\ Billing(request, ls) /\ Made(d, "Invoice", None, ls)
             /\ invoices' = Append(invoices, d)
      BY <1>1, <1>3, InvoiceRows
    <2>2. d.type = "Invoice" /\ d.lines = ls
      BY <2>1 DEF Made
    <2>3. InvoicedOn(l)[d] = Asked(request, l) /\ BilledFrom(l)[d] = DrawnBy(request, l)
      BY <2>1, <2>2, BillingCounts DEF InvoicedOn, BilledFrom
    <2> QED
      BY <1>1, <1>2, <2>1, <2>3, OverAppend
  <1>4. ASSUME NEW p \in Entry, NEW target \in [DOMAIN p.allocations -> DOMAIN invoices],
               Receive(p, target)
        PROVE  /\ Over(InvoicedOn(l), invoices') = Over(InvoicedOn(l), invoices)
               /\ Over(BilledFrom(l), invoices') = Over(BilledFrom(l), invoices)
    <2>1. /\ Settles(p, target, invoices') /\ invoices' \in Seq(Document)
          /\ DOMAIN invoices' = DOMAIN invoices
      BY <1>4, ReceiveRows DEF Settles
    <2>2. \A k \in DOMAIN invoices :
            /\ invoices'[k] \in Document
            /\ invoices'[k].type = invoices[k].type /\ invoices'[k].lines = invoices[k].lines
      BY <2>1, SettlesLines
    <2>3. \A k \in DOMAIN invoices : /\ InvoicedOn(l)[invoices'[k]] = InvoicedOn(l)[invoices[k]]
                                     /\ BilledFrom(l)[invoices'[k]] = BilledFrom(l)[invoices[k]]
      BY <1>1, <2>2 DEF InvoicedOn, BilledFrom
    <2>4. Alike(InvoicedOn(l), invoices', InvoicedOn(l), invoices)
      BY <2>1, <2>3 DEF Alike
    <2>5. Alike(BilledFrom(l), invoices', BilledFrom(l), invoices)
      BY <2>1, <2>3 DEF Alike
    <2>6. Over(InvoicedOn(l), invoices') = Over(InvoicedOn(l), invoices)
      BY <2>4, OverEqual
    <2>7. Over(BilledFrom(l), invoices') = Over(BilledFrom(l), invoices)
      BY <2>5, OverEqual
    <2> QED
      BY <2>6, <2>7
  <1> QED
    BY <1>3, <1>4

(* What is left of the invoices is never negative. *)
LEMMA LeftIsPositive ==
  ASSUME NEW d \in Document, Open(d), NEW l
  PROVE  InvoicedOn(l)[d] >= 0
  <1>1. d.lines \in Seq(DocumentLine) /\ \A j \in DOMAIN d.lines : d.lines[j] \in DocumentLine
    BY DEF Document
  <1>2. \A x \in DocumentLine : x.qty \in Nat /\ x.credited \in Nat
    BY DEF DocumentLine
  <1>3. \A j \in DOMAIN d.lines : LeftOn(l)[d.lines[j]] >= 0
    <2>1. \A j \in DOMAIN d.lines : /\ d.lines[j].credited <= d.lines[j].qty
                                    /\ d.lines[j].qty \in Nat /\ d.lines[j].credited \in Nat
      BY <1>1, <1>2 DEF Open
    <2>2. \A j \in DOMAIN d.lines : d.lines[j].qty - d.lines[j].credited >= 0
      BY <2>1
    <2> QED
      BY <1>1, <2>2 DEF LeftOn
  <1>4. Over(LeftOn(l), d.lines) >= 0
    BY <1>1, <1>3, CountingFunctions, OverPositive
  <1> QED
    BY <1>4 DEF InvoicedOn

Noted(k, d, n) == invoices' = Append([invoices EXCEPT ![k] = d], n)

(* One document replaced and one added at the end. *)
LEMMA NoteAppended ==
  ASSUME Typed, NEW k \in DOMAIN invoices, NEW d \in Document, NEW n \in Document,
         Noted(k, d, n), NEW f \in [Document -> Int]
  PROVE  /\ Over(f, invoices') = Over(f, invoices) + f[d] - f[invoices[k]] + f[n]
         /\ Over(f, invoices) \in Int /\ f[d] \in Int /\ f[n] \in Int /\ f[invoices[k]] \in Int
         /\ DOMAIN invoices' = 1..(Len(invoices) + 1)
         /\ invoices'[k] = d /\ invoices'[Len(invoices) + 1] = n
         /\ \A j \in DOMAIN invoices \ {k} : invoices'[j] = invoices[j]
  <1>1. /\ invoices \in Seq(Document) /\ invoices[k] \in Document
        /\ DOMAIN invoices = 1..Len(invoices) /\ Len(invoices) \in Nat
    BY Rows DEF Typed
  <1> DEFINE rest == [invoices EXCEPT ![k] = d]
  <1>2. /\ rest \in Seq(Document) /\ DOMAIN rest = DOMAIN invoices /\ rest[k] = d
        /\ \A j \in DOMAIN invoices \ {k} : rest[j] = invoices[j]
    BY <1>1
  <1>8. invoices' = Append(rest, n) /\ Len(rest) = Len(invoices)
    BY <1>1 DEF Noted
  <1> HIDE DEF rest
  <1>3. Over(f, rest) = Over(f, invoices) + f[rest[k]] - f[invoices[k]]
    <2>1. f \in [Document -> Int] /\ invoices \in Seq(Document)
      BY <1>1
    <2> QED
      <3>1. Replaced(invoices, rest, k)
        BY <1>2 DEF Replaced
      <3> QED
        BY <1>2, <2>1, <3>1, OverChange
  <1>4. Over(f, Append(rest, n)) = Over(f, rest) + f[n]
    BY <1>2, OverAppend
  <1>5. /\ Over(f, invoices) \in Int /\ f[d] \in Int /\ f[n] \in Int /\ f[invoices[k]] \in Int
    BY <1>1, OverInt
  <1>6. /\ DOMAIN invoices' = 1..(Len(invoices) + 1) /\ invoices'[Len(invoices) + 1] = n
        /\ \A j \in DOMAIN invoices : invoices'[j] = rest[j]
    BY <1>1, <1>2, <1>8
  <1>7. Over(f, invoices') = Over(f, invoices) + f[d] - f[invoices[k]] + f[n]
    BY <1>2, <1>3, <1>4, <1>8
  <1> QED
    BY <1>2, <1>5, <1>6, <1>7

(* A credit note takes from the invoiced quantity what it takes from the invoice. *)
LEMMA CreditCounted ==
  ASSUME Sound, NEW k \in DOMAIN invoices, NEW request \in Seq(Ask(DOMAIN invoices[k].lines)),
         CreditInvoice(k, request)
  PROVE  \A l : /\ Over(BilledFrom(l), invoices') = Over(BilledFrom(l), invoices)
                /\ l \in Lines /\ line[l].invoiced = Over(InvoicedOn(l), invoices) =>
                      line'[l].invoiced = Over(InvoicedOn(l), invoices')
  <1>1. Typed /\ invoices \in Seq(Document) /\ invoices[k] \in Document
    BY Rows DEF Sound, Typed
  <1>2. PICK ls \in Seq(DocumentLine), d \in Document, n \in Document, x \in Nat :
            /\ Credits(request, invoices[k], ls)
            /\ CreditedBy(request, invoices[k], d, x) /\ NoteOf(k, ls, n, x)
            /\ invoices' = Append([invoices EXCEPT ![k] = d], n)
            /\ line' = [l \in Lines |-> LineCredited(l, BackOn(ls, l))]
    BY CreditRows
  <1> DEFINE rest == [invoices EXCEPT ![k] = d]
  <1>3. /\ rest \in Seq(Document) /\ DOMAIN rest = DOMAIN invoices /\ rest[k] = d
        /\ \A j \in DOMAIN invoices \ {k} : rest[j] = invoices[j]
        /\ invoices' = Append(rest, n)
    BY <1>1, <1>2
  <1> HIDE DEF rest
  <1>4. invoices[k].type = "Invoice" /\ d.type = "Invoice" /\ n.type # "Invoice"
    BY <1>2 DEF CreditInvoice, CreditedBy, NoteOf, Made
  <1>5. SameButCredited(request, invoices[k], d)
    BY <1>2 DEF CreditedBy
  <1>6. ASSUME NEW l
        PROVE  /\ Over(BilledFrom(l), invoices') = Over(BilledFrom(l), invoices)
               /\ Over(InvoicedOn(l), invoices)
                    = Over(InvoicedOn(l), invoices') + BackOn(ls, l)
               /\ Over(InvoicedOn(l), invoices') >= 0
               /\ Over(InvoicedOn(l), invoices') \in Int /\ BackOn(ls, l) \in Int
    <2>1. InvoicedOn(l) \in [Document -> Int] /\ BilledFrom(l) \in [Document -> Int]
      BY CountingFunctions
    <2>2. InvoicedOn(l)[n] = 0 /\ BilledFrom(l)[n] = 0
      BY <1>4 DEF InvoicedOn, BilledFrom
    <2>3. /\ Over(LeftOn(l), invoices[k].lines) = Over(LeftOn(l), d.lines) + BackOn(ls, l)
          /\ Over(FromRow(l), d.lines) = Over(FromRow(l), invoices[k].lines)
      BY <1>1, <1>2, <1>5, CreditCounts
    <2>4. /\ InvoicedOn(l)[invoices[k]] = InvoicedOn(l)[d] + BackOn(ls, l)
          /\ BilledFrom(l)[d] = BilledFrom(l)[invoices[k]]
      BY <1>1, <1>4, <2>3 DEF InvoicedOn, BilledFrom
    <2>5. \A f \in [Document -> Int] :
             /\ Over(f, rest) = Over(f, invoices) + f[d] - f[invoices[k]]
             /\ Over(f, invoices') = Over(f, rest) + f[n]
      <3>1. ASSUME NEW f \in [Document -> Int]
            PROVE  Over(f, rest) = Over(f, invoices) + f[rest[k]] - f[invoices[k]]
        <4>1. Replaced(invoices, rest, k)
          BY <1>3 DEF Replaced
        <4>2. invoices \in Seq(Document) /\ rest \in Seq(Document)
          BY <1>1, <1>3
        <4> QED
          BY <4>1, <4>2, OverChange
      <3>2. ASSUME NEW f \in [Document -> Int]
            PROVE  Over(f, Append(rest, n)) = Over(f, rest) + f[n]
        BY <1>3, OverAppend
      <3> QED
        BY <1>3, <3>1, <3>2
    <2>6. /\ Over(InvoicedOn(l), rest)
               = Over(InvoicedOn(l), invoices) + InvoicedOn(l)[d] - InvoicedOn(l)[invoices[k]]
          /\ Over(BilledFrom(l), rest)
               = Over(BilledFrom(l), invoices) + BilledFrom(l)[d] - BilledFrom(l)[invoices[k]]
          /\ Over(InvoicedOn(l), invoices') = Over(InvoicedOn(l), rest) + 0
          /\ Over(BilledFrom(l), invoices') = Over(BilledFrom(l), rest) + 0
      BY <2>1, <2>2, <2>5
    <2>7. /\ Over(InvoicedOn(l), rest) \in Int /\ Over(BilledFrom(l), rest) \in Int
          /\ Over(InvoicedOn(l), invoices) \in Int /\ Over(BilledFrom(l), invoices) \in Int
          /\ InvoicedOn(l)[d] \in Int /\ InvoicedOn(l)[invoices[k]] \in Int
          /\ BilledFrom(l)[d] \in Int
      BY <1>1, <1>3, <2>1, OverInt
    <2>8. BackOn(ls, l) \in Int
      <3> DEFINE v == [i \in DOMAIN ls |-> IF ls[i].line = l THEN ls[i].qty ELSE 0]
      <3>1. \A q \in DocumentLine : q.qty \in Int
        BY DEF DocumentLine
      <3>2. DOMAIN ls = 1..Len(ls) /\ Len(ls) \in Nat /\ \A i \in DOMAIN ls : ls[i].qty \in Int
        BY <3>1
      <3>3. v \in [1..Len(ls) -> Int]
        BY <3>2
      <3>4. v \in Seq(Int)
        BY <3>2, <3>3, FunctionIsSeq
      <3> HIDE DEF v
      <3> QED
        BY <3>4, SeqSumInt DEF BackOn, v
    <2>9. Over(InvoicedOn(l), rest) >= 0
      <3>1. \A j \in DOMAIN rest : InvoicedOn(l)[rest[j]] >= 0
        <4>1. Open(d)
          BY <1>2 DEF CreditedBy
        <4>2. \A j \in DOMAIN invoices : Open(invoices[j]) /\ invoices[j] \in Document
          BY <1>1, Rows DEF Sound, DocumentsSound
        <4> QED
          BY <1>3, <4>1, <4>2, LeftIsPositive
      <3> QED
        BY <1>3, <2>1, <3>1, OverPositive
    <2>10. Over(BilledFrom(l), invoices') = Over(BilledFrom(l), invoices)
      BY <2>4, <2>6, <2>7
    <2>11. Over(InvoicedOn(l), invoices) = Over(InvoicedOn(l), invoices') + BackOn(ls, l)
      BY <2>4, <2>6, <2>7, <2>8
    <2> QED
      BY <2>6, <2>7, <2>8, <2>9, <2>10, <2>11
  <1>7. ASSUME NEW l \in Lines, line[l].invoiced = Over(InvoicedOn(l), invoices)
        PROVE  line'[l].invoiced = Over(InvoicedOn(l), invoices')
    <2>1. line[l] \in Counters /\ line[l].invoiced \in Nat
      BY <1>1, Rows DEF Counters
    <2>2. line'[l].invoiced = IF line[l].invoiced > BackOn(ls, l)
                              THEN line[l].invoiced - BackOn(ls, l) ELSE 0
      BY <1>2, <2>1 DEF LineCredited, Counters
    <2> QED
      BY <1>6, <1>7, <2>1, <2>2
  <1> QED
    BY <1>6, <1>7

(* Every handler keeps the invoiced quantity of the lines. *)
LEMMA InvoicesStayCounted ==
  ASSUME Sound, InvoicesCounted, [Handlers]_vars
  PROVE  InvoicesCounted'
  <1>1. Typed /\ \A l \in Lines : line[l] \in Counters
    BY Rows DEF Sound
  <1>2. ASSUME invoices' = invoices, \A l \in Lines : line'[l].invoiced = line[l].invoiced
        PROVE  InvoicesCounted'
    BY <1>2 DEF InvoicesCounted
  <1>3. CASE PostOrder \/ UNCHANGED vars
    BY <1>2, <1>3 DEF PostOrder, vars
  <1>4. ASSUME NEW request \in Seq(Ask(Lines)), DeliverLines(request) PROVE InvoicesCounted'
    BY <1>1, <1>2, <1>4 DEF DeliverLines, Counters
  <1>5. ASSUME NEW request \in Seq(Ask(DOMAIN goods)), ReturnLines(request)
        PROVE  InvoicesCounted'
    <2>1. \A l \in Lines :
             line'[l] = [line[l] EXCEPT !.returned = line[l].returned + Brought(request, l)]
      BY <1>5 DEF ReturnLines, LineReturned
    <2>2. \A l \in Lines : line'[l].invoiced = line[l].invoiced
      BY <1>1, <2>1 DEF Counters
    <2> QED
      BY <1>2, <1>5, <2>2 DEF ReturnLines
  <1>6. ASSUME NEW request \in Seq(Draw(Lines)), InvoiceLines(request) PROVE InvoicesCounted'
    <2>1. \A l \in Lines : line'[l].invoiced = line[l].invoiced + Asked(request, l)
      BY <1>1, <1>6 DEF InvoiceLines, Counters
    <2> QED
      BY <1>6, <2>1, DocumentsCount DEF InvoicesCounted
  <1>7. ASSUME NEW p \in Entry, NEW target \in [DOMAIN p.allocations -> DOMAIN invoices],
               Receive(p, target)
        PROVE  InvoicesCounted'
    <2>1. line' = line
      BY <1>7 DEF Receive
    <2> QED
      BY <1>7, <2>1, DocumentsCount DEF InvoicesCounted
  <1>8. ASSUME NEW k \in DOMAIN invoices, NEW request \in Seq(Ask(DOMAIN invoices[k].lines)),
               CreditInvoice(k, request)
        PROVE  InvoicesCounted'
    BY <1>8, CreditCounted DEF InvoicesCounted
  <1> QED
    BY <1>3, <1>4, <1>5, <1>6, <1>7, <1>8 DEF Handlers

(* No invoice line draws from a goods line that is still to come. *)
LEMMA NothingDrawnAhead ==
  ASSUME Sound, NEW k \in Nat, k \notin DOMAIN goods
  PROVE  Over(BilledFrom(k), invoices) = 0
  <1>1. /\ Typed /\ invoices \in Seq(Document)
        /\ \A m \in DOMAIN invoices : invoices[m] \in Document
    BY Rows DEF Sound, Typed
  <1>2. None # k
    BY OrderAssumption
  <1>3. ASSUME NEW m \in DOMAIN invoices PROVE BilledFrom(k)[invoices[m]] = 0
    <2>1. /\ invoices[m].lines \in Seq(DocumentLine)
          /\ \A j \in DOMAIN invoices[m].lines : invoices[m].lines[j] \in DocumentLine
      BY <1>1 DEF Document
    <2>2. \A j \in DOMAIN invoices[m].lines : invoices[m].lines[j].from # k
      BY <1>2 DEF Sound, DocumentsSound
    <2>3. \A j \in DOMAIN invoices[m].lines : FromRow(k)[invoices[m].lines[j]] = 0
      BY <2>1, <2>2 DEF FromRow
    <2>4. Over(FromRow(k), invoices[m].lines) = 0
      BY <2>1, <2>3, CountingFunctions, OverZero
    <2> QED
      BY <1>1, <2>4 DEF BilledFrom
  <1> QED
    BY <1>1, <1>3, CountingFunctions, OverZero

(* Rows added at the end keep what is billed from the rows, when none was billed yet. *)
LEMMA RowsStayDrawn ==
  ASSUME Sound, DrawingCounted, invoices' = invoices,
         NEW old \in Seq(GoodsLine), NEW new \in Seq(GoodsLine), goods' = old \o new,
         DOMAIN old = DOMAIN goods, \A k \in DOMAIN goods : old[k].billed = goods[k].billed,
         \A i \in DOMAIN new : new[i].billed = 0
  PROVE  DrawingCounted'
  <1>1. /\ DOMAIN old = 1..Len(old) /\ Len(old) \in Nat /\ DOMAIN new = 1..Len(new)
        /\ Len(new) \in Nat /\ DOMAIN goods' = 1..(Len(old) + Len(new))
    OBVIOUS
  <1>2. ASSUME NEW k \in DOMAIN goods' PROVE goods'[k].billed = Over(BilledFrom(k), invoices)
    <2>1. CASE k \in DOMAIN goods
      <3>1. goods'[k] = old[k]
        BY <1>1, <2>1
      <3> QED
        BY <2>1, <3>1 DEF DrawingCounted
    <2>2. CASE k \notin DOMAIN goods
      <3>1. k \in Nat /\ k - Len(old) \in DOMAIN new /\ goods'[k] = new[k - Len(old)]
        BY <1>1, <2>2
      <3> QED
        BY <2>2, <3>1, NothingDrawnAhead
    <2> QED
      BY <2>1, <2>2
  <1> QED
    BY <1>2 DEF DrawingCounted

(* Every handler keeps the billed quantity of the goods lines. *)
LEMMA DrawingStaysCounted ==
  ASSUME Sound, DrawingCounted, [Handlers]_vars
  PROVE  DrawingCounted'
  <1>1. Typed /\ GoodsSound /\ goods \in Seq(GoodsLine)
    BY DEF Sound, Typed
  <1>2. CASE PostOrder \/ UNCHANGED vars
    BY <1>2 DEF PostOrder, vars, DrawingCounted
  <1>3. ASSUME NEW request \in Seq(Ask(Lines)), DeliverLines(request) PROVE DrawingCounted'
    <2>1. PICK new \in Seq(GoodsLine) : Issued(request, new) /\ goods' = goods \o new
      BY <1>1, <1>3, DeliverRows
    <2>2. \A i \in DOMAIN new : new[i].billed = 0
      BY <2>1 DEF Issued
    <2>3. invoices' = invoices
      BY <1>3 DEF DeliverLines
    <2> QED
      BY <1>1, <2>1, <2>2, <2>3, RowsStayDrawn
  <1>4. ASSUME NEW request \in Seq(Ask(DOMAIN goods)), ReturnLines(request)
        PROVE  DrawingCounted'
    <2>1. PICK old \in Seq(GoodsLine), new \in Seq(GoodsLine) :
             Taken(request, old) /\ Returned(request, new) /\ goods' = old \o new
      BY <1>1, <1>4, ReturnRows
    <2>2. /\ DOMAIN old = DOMAIN goods /\ \A k \in DOMAIN goods : old[k].billed = goods[k].billed
          /\ \A i \in DOMAIN new : new[i].billed = 0
      BY <2>1 DEF Taken, Returned
    <2>3. invoices' = invoices
      BY <1>4 DEF ReturnLines
    <2> QED
      BY <2>1, <2>2, <2>3, RowsStayDrawn
  <1>5. ASSUME NEW request \in Seq(Draw(Lines)), InvoiceLines(request) PROVE DrawingCounted'
    <2>1. Drawn(request, goods')
      BY <1>1, <1>5, InvoiceRows
    <2> QED
      BY <1>5, <2>1, DocumentsCount DEF DrawingCounted, Drawn
  <1>6. ASSUME NEW p \in Entry, NEW target \in [DOMAIN p.allocations -> DOMAIN invoices],
               Receive(p, target)
        PROVE  DrawingCounted'
    <2>1. goods' = goods
      BY <1>6 DEF Receive
    <2> QED
      BY <1>6, <2>1, DocumentsCount DEF DrawingCounted
  <1>7. ASSUME NEW k \in DOMAIN invoices, NEW request \in Seq(Ask(DOMAIN invoices[k].lines)),
               CreditInvoice(k, request)
        PROVE  DrawingCounted'
    <2>1. goods' = goods
      BY <1>7 DEF CreditInvoice
    <2> QED
      BY <1>7, <2>1, CreditCounted DEF DrawingCounted
  <1> QED
    BY <1>2, <1>3, <1>4, <1>5, <1>6, <1>7 DEF Handlers

Counted == GoodsCounted /\ InvoicesCounted /\ DrawingCounted

(* Nothing is delivered or billed before the first document. *)
LEMMA InitCounted == EntryInit => Counted
  <1> SUFFICES ASSUME EntryInit PROVE Counted
    OBVIOUS
  <1>1. NothingDone
    BY DEF EntryInit, Init, ImportOrder
  <1>2. goods = <<>> /\ invoices = <<>>
    BY <1>1 DEF NothingDone
  <1>3. \A l \in Lines : line[l].delivered = 0 /\ line[l].returned = 0 /\ line[l].invoiced = 0
    BY <1>1 DEF NothingDone
  <1> QED
    BY <1>2, <1>3, OverEmpty DEF Counted, GoodsCounted, InvoicesCounted, DrawingCounted

(* The rows stay sound and the counters stay the sums of the rows. *)
THEOREM CountedAlways == EntrySpec => [](Sound /\ Counted)
  <1>1. EntryInit => Sound /\ Counted
    BY InitSound, InitCounted
  <1>2. Sound /\ Counted /\ [Handlers]_vars => (Sound /\ Counted)'
    <2> SUFFICES ASSUME Sound, Counted, [Handlers]_vars PROVE Sound' /\ Counted'
      OBVIOUS
    <2> QED
      BY StepSound, GoodsStayCounted, InvoicesStayCounted, DrawingStaysCounted
         DEF Counted
  <1> QED
    BY <1>1, <1>2, SoundAlways, PTL DEF EntrySpec

(* The counters kept in place agree with the documents they summarise. *)
THEOREM CountersCorrect == EntrySpec => []CountersAreDocuments
  <1>1. Sound /\ Counted => CountersAreDocuments
    <2> SUFFICES ASSUME Sound, Counted PROVE CountersAreDocuments
      OBVIOUS
    <2>1. /\ Typed /\ \A k \in DOMAIN goods : goods[k] \in GoodsLine
          /\ \A k \in DOMAIN invoices : invoices[k] \in Document
      BY Rows DEF Sound
    <2>2. ASSUME NEW l \in Lines
          PROVE  /\ line[l].delivered =
                      GoodsSum(LAMBDA g : g.line = l /\ g.kind = "Delivery", LAMBDA g : g.qty)
                 /\ line[l].returned =
                      GoodsSum(LAMBDA g : g.line = l /\ g.kind = "Return", LAMBDA g : g.qty)
                 /\ line[l].returned = GoodsSum(LAMBDA g : g.line = l, LAMBDA g : g.returned)
      <3>1. /\ [k \in DOMAIN goods |-> DeliveredOn(l)[goods[k]]] = [k \in DOMAIN goods |->
                   IF goods[k].line = l /\ goods[k].kind = "Delivery" THEN goods[k].qty ELSE 0]
            /\ [k \in DOMAIN goods |-> ReceivedOn(l)[goods[k]]] = [k \in DOMAIN goods |->
                   IF goods[k].line = l /\ goods[k].kind = "Return" THEN goods[k].qty ELSE 0]
            /\ [k \in DOMAIN goods |-> ReturnedOn(l)[goods[k]]] = [k \in DOMAIN goods |->
                   IF goods[k].line = l THEN goods[k].returned ELSE 0]
        BY <2>1 DEF DeliveredOn, ReceivedOn, ReturnedOn
      <3>2. /\ line[l].delivered = Over(DeliveredOn(l), goods)
            /\ line[l].returned = Over(ReceivedOn(l), goods)
            /\ line[l].returned = Over(ReturnedOn(l), goods)
        BY DEF Counted, GoodsCounted
      <3> QED
        BY <3>1, <3>2 DEF Over, GoodsSum, SumWhere
    <2>3. ASSUME NEW l \in Lines
          PROVE  line[l].invoiced = DocumentSum(IsInvoice, LAMBDA d :
                    LineSum(d, LAMBDA x : x.line = l, LAMBDA x : x.qty - x.credited))
      <3>1. ASSUME NEW k \in DOMAIN invoices
            PROVE  InvoicedOn(l)[invoices[k]]
                     = IF IsInvoice(invoices[k])
                       THEN LineSum(invoices[k], LAMBDA x : x.line = l,
                                    LAMBDA x : x.qty - x.credited) ELSE 0
        <4>1. \A j \in DOMAIN invoices[k].lines : invoices[k].lines[j] \in DocumentLine
          BY <2>1 DEF Document
        <4>2. [j \in DOMAIN invoices[k].lines |-> LeftOn(l)[invoices[k].lines[j]]]
                = [j \in DOMAIN invoices[k].lines |->
                      IF invoices[k].lines[j].line = l
                      THEN invoices[k].lines[j].qty - invoices[k].lines[j].credited ELSE 0]
          BY <4>1 DEF LeftOn
        <4>3. Over(LeftOn(l), invoices[k].lines)
                = LineSum(invoices[k], LAMBDA x : x.line = l, LAMBDA x : x.qty - x.credited)
          BY <4>2 DEF Over, LineSum, SumWhere
        <4> QED
          BY <2>1, <4>3 DEF InvoicedOn, IsInvoice
      <3> DEFINE f(d) == LineSum(d, LAMBDA x : x.line = l, LAMBDA x : x.qty - x.credited)
      <3>2. [k \in DOMAIN invoices |-> InvoicedOn(l)[invoices[k]]]
              = [k \in DOMAIN invoices |->
                    IF IsInvoice(invoices[k]) THEN f(invoices[k]) ELSE 0]
        BY <3>1
      <3>3. line[l].invoiced = Over(InvoicedOn(l), invoices)
        BY DEF Counted, InvoicesCounted
      <3> HIDE DEF f
      <3>4. line[l].invoiced = DocumentSum(IsInvoice, f)
        BY <3>2, <3>3 DEF Over, DocumentSum, SumWhere
      <3> QED
        BY <3>4 DEF f
    <2>4. ASSUME NEW k \in DOMAIN goods
          PROVE  goods[k].billed = DocumentSum(IsInvoice, LAMBDA d :
                    LineSum(d, LAMBDA x : x.from = k, LAMBDA x : x.qty))
      <3>1. ASSUME NEW m \in DOMAIN invoices
            PROVE  BilledFrom(k)[invoices[m]]
                     = IF IsInvoice(invoices[m])
                       THEN LineSum(invoices[m], LAMBDA x : x.from = k, LAMBDA x : x.qty) ELSE 0
        <4>1. \A j \in DOMAIN invoices[m].lines : invoices[m].lines[j] \in DocumentLine
          BY <2>1 DEF Document
        <4>2. [j \in DOMAIN invoices[m].lines |-> FromRow(k)[invoices[m].lines[j]]]
                = [j \in DOMAIN invoices[m].lines |->
                      IF invoices[m].lines[j].from = k THEN invoices[m].lines[j].qty ELSE 0]
          BY <4>1 DEF FromRow
        <4>3. Over(FromRow(k), invoices[m].lines)
                = LineSum(invoices[m], LAMBDA x : x.from = k, LAMBDA x : x.qty)
          BY <4>2 DEF Over, LineSum, SumWhere
        <4> QED
          BY <2>1, <4>3 DEF BilledFrom, IsInvoice
      <3> DEFINE f(d) == LineSum(d, LAMBDA x : x.from = k, LAMBDA x : x.qty)
      <3>2. [m \in DOMAIN invoices |-> BilledFrom(k)[invoices[m]]]
              = [m \in DOMAIN invoices |->
                    IF IsInvoice(invoices[m]) THEN f(invoices[m]) ELSE 0]
        BY <3>1
      <3>3. goods[k].billed = Over(BilledFrom(k), invoices)
        BY DEF Counted, DrawingCounted
      <3> HIDE DEF f
      <3>4. goods[k].billed = DocumentSum(IsInvoice, f)
        BY <3>2, <3>3 DEF Over, DocumentSum, SumWhere
      <3> QED
        BY <3>4 DEF f
    <2> QED
      BY <2>2, <2>3, <2>4 DEF CountersAreDocuments
  <1> QED
    BY <1>1, CountedAlways, PTL

-----------------------------------------------------------------------------
(* No line is delivered above its order and its tolerance. *)

WithinOrder ==
    \A l \in Lines : line[l].delivered - line[l].returned <= Maximum(l, DeliveryTolerance)

\* The most that may be delivered or billed of a line is a quantity.
LEMMA MaximumNat ==
  ASSUME NEW l \in Lines, NEW tolerance \in [Lines -> Nat]
  PROVE  Maximum(l, tolerance) \in Nat
  <1>0. Ordered \in [Lines -> Nat \ {0}]
    BY OrderAssumption
  <1>1. Ordered[l] \in Nat /\ 100 + tolerance[l] \in Nat
    BY <1>0
  <1>2. Ordered[l] * (100 + tolerance[l]) \in Nat
    BY <1>1, Products
  <1> QED
    BY <1>2, HalfEvenNat DEF Maximum

\* The tolerances are quantities.
LEMMA ToleranceTyped ==
  DeliveryTolerance \in [Lines -> Nat] /\ BillingTolerance \in [Lines -> Nat]
  BY OrderAssumption

(* What comes back was delivered: a return row takes from a delivery row. *)
LEMMA ReturnedWasDelivered ==
  ASSUME Sound, Counted, NEW l \in Lines
  PROVE  line[l].returned <= line[l].delivered
  <1>1. /\ Typed /\ goods \in Seq(GoodsLine) /\ \A k \in DOMAIN goods : goods[k] \in GoodsLine
    BY Rows DEF Sound, Typed
  <1>2. \A k \in DOMAIN goods : ReturnedOn(l)[goods[k]] <= DeliveredOn(l)[goods[k]]
    <2>1. ASSUME NEW k \in DOMAIN goods
          PROVE  ReturnedOn(l)[goods[k]] <= DeliveredOn(l)[goods[k]]
      <3>1. /\ goods[k].returned \in Nat /\ goods[k].qty \in Nat
            /\ goods[k].kind = "Delivery" \/ goods[k].kind = "Return"
        BY <1>1 DEF GoodsLine, Movements
      <3>2. /\ goods[k].returned <= goods[k].qty
            /\ goods[k].kind = "Return" => goods[k].returned = 0
        BY DEF Sound, GoodsSound
      <3>3. /\ ReturnedOn(l)[goods[k]] = IF goods[k].line = l THEN goods[k].returned ELSE 0
            /\ DeliveredOn(l)[goods[k]]
                 = IF goods[k].line = l /\ goods[k].kind = "Delivery" THEN goods[k].qty ELSE 0
        BY <1>1 DEF ReturnedOn, DeliveredOn
      <3> QED
        BY <3>1, <3>2, <3>3
    <2> QED
      BY <2>1
  <1>3. Over(ReturnedOn(l), goods) <= Over(DeliveredOn(l), goods)
    BY <1>1, <1>2, CountingFunctions, OverMonotone
  <1> QED
    BY <1>3 DEF Counted, GoodsCounted

\* Every operation keeps the net delivery within the order.
LEMMA StepWithinOrder ==
  ASSUME Sound, WithinOrder, [Handlers]_vars
  PROVE  WithinOrder'
  <1>1. Typed /\ \A l \in Lines : line[l] \in Counters
    BY Rows DEF Sound
  <1>2. \A l \in Lines : /\ line[l].delivered \in Nat /\ line[l].returned \in Nat
                         /\ Maximum(l, DeliveryTolerance) \in Nat
                         /\ line[l].delivered - line[l].returned
                              <= Maximum(l, DeliveryTolerance)
    BY <1>1, MaximumNat, ToleranceTyped DEF Counters, WithinOrder
  <1>3. ASSUME \A l \in Lines : /\ line'[l].delivered = line[l].delivered
                                /\ line'[l].returned = line[l].returned
        PROVE  WithinOrder'
    BY <1>2, <1>3 DEF WithinOrder, Maximum
  <1>4. ASSUME UNCHANGED line PROVE WithinOrder'
    BY <1>3, <1>4
  <1>5. CASE PostOrder \/ UNCHANGED vars
    BY <1>4, <1>5 DEF PostOrder, vars
  <1>6. ASSUME NEW request \in Seq(Ask(Lines)), DeliverLines(request) PROVE WithinOrder'
    <2>1. ASSUME NEW l \in Lines
          PROVE  line'[l].delivered - line'[l].returned <= Maximum(l, DeliveryTolerance)
      <3>1. /\ line'[l].delivered = line[l].delivered + Asked(request, l)
            /\ line'[l].returned = line[l].returned
        BY <1>1, <1>6 DEF DeliverLines, Counters
      <3>2. CASE \E i \in DOMAIN request : request[i].at = l
        <4>1. line[l].delivered + Asked(request, l) - line[l].returned
                <= Maximum(l, DeliveryTolerance)
          BY <1>6, <3>2 DEF DeliverLines, DeliveryAllowed
        <4>2. Asked(request, l) \in Nat
          BY Requested
        <4> QED
          BY <1>2, <3>1, <4>1, <4>2
      <3>3. CASE \A i \in DOMAIN request : request[i].at # l
        <4>1. Asked(request, l) = 0
          BY <3>3, Requested
        <4> QED
          BY <1>2, <3>1, <4>1
      <3> QED
        BY <3>2, <3>3
    <2> QED
      BY <2>1 DEF WithinOrder, Maximum
  <1>7. ASSUME NEW request \in Seq(Ask(DOMAIN goods)), ReturnLines(request)
        PROVE  WithinOrder'
    <2>1. ASSUME NEW l \in Lines
          PROVE  line'[l].delivered - line'[l].returned <= Maximum(l, DeliveryTolerance)
      <3>1. line'[l] = [line[l] EXCEPT !.returned = line[l].returned + Brought(request, l)]
        BY <1>7 DEF ReturnLines, LineReturned
      <3>2. /\ line'[l].delivered = line[l].delivered
            /\ line'[l].returned = line[l].returned + Brought(request, l)
        BY <1>1, <3>1 DEF Counters
      <3>3. Brought(request, l) \in Nat
        BY <1>1, BroughtNat
      <3> QED
        BY <1>2, <3>2, <3>3
    <2> QED
      BY <2>1 DEF WithinOrder, Maximum
  <1>8. ASSUME NEW request \in Seq(Draw(Lines)), InvoiceLines(request) PROVE WithinOrder'
    <2>1. \A l \in Lines : /\ line'[l].delivered = line[l].delivered
                           /\ line'[l].returned = line[l].returned
      BY <1>1, <1>8 DEF InvoiceLines, Counters
    <2> QED
      BY <1>3, <2>1
  <1>9. ASSUME NEW p, NEW target, Receive(p, target) PROVE WithinOrder'
    BY <1>4, <1>9 DEF Receive
  <1>10. ASSUME NEW k \in DOMAIN invoices, NEW request \in Seq(Ask(DOMAIN invoices[k].lines)),
               CreditInvoice(k, request)
         PROVE  WithinOrder'
    <2>1. PICK ls \in Seq(DocumentLine) : line' = [l \in Lines |-> LineCredited(l, BackOn(ls, l))]
      BY <1>10, CreditRows
    <2>2. \A l \in Lines : /\ line'[l].delivered = line[l].delivered
                           /\ line'[l].returned = line[l].returned
      BY <1>1, <2>1 DEF LineCredited, Counters
    <2> QED
      BY <1>3, <2>2
  <1> QED
    BY <1>5, <1>6, <1>7, <1>8, <1>9, <1>10 DEF Handlers

(* What the customer holds of a line is never negative and never above the  *)
(* ordered quantity plus the delivery tolerance.                            *)
THEOREM NetDeliveryCorrect == EntrySpec => []NetDeliveryWithinOrder
  <1>1. EntryInit => WithinOrder
    <2> SUFFICES ASSUME EntryInit PROVE WithinOrder
      OBVIOUS
    <2>1. \A l \in Lines : line[l].delivered = 0 /\ line[l].returned = 0
      BY DEF EntryInit, Init, ImportOrder, NothingDone
    <2>2. \A l \in Lines : Maximum(l, DeliveryTolerance) \in Nat
      BY MaximumNat, ToleranceTyped
    <2> QED
      BY <2>1, <2>2 DEF WithinOrder
  <1>2. Sound /\ WithinOrder /\ [Handlers]_vars => WithinOrder'
    BY StepWithinOrder
  <1>3. Sound /\ Counted /\ WithinOrder => NetDeliveryWithinOrder
    <2> SUFFICES ASSUME Sound, Counted, WithinOrder PROVE NetDeliveryWithinOrder
      OBVIOUS
    <2>1. \A l \in Lines : line[l].delivered \in Nat /\ line[l].returned \in Nat
      BY Rows DEF Sound, Counters
    <2>2. \A l \in Lines : Maximum(l, DeliveryTolerance) \in Nat
      BY MaximumNat, ToleranceTyped
    <2>3. \A l \in Lines : line[l].returned <= line[l].delivered
      BY ReturnedWasDelivered
    <2>4. \A l \in Lines : line[l].delivered - line[l].returned <= Maximum(l, DeliveryTolerance)
      BY DEF WithinOrder
    <2>5. \A l \in Lines : line[l].delivered - line[l].returned
                              \in 0..Maximum(l, DeliveryTolerance)
      BY <2>1, <2>2, <2>3, <2>4
    <2> QED
      BY <2>5 DEF NetDeliveryWithinOrder
  <1> QED
    BY <1>1, <1>2, <1>3, SoundAlways, CountedAlways, PTL DEF EntrySpec

-----------------------------------------------------------------------------
(* The cost of sales follows the goods. *)

CostOf ==
    [g \in GoodsLine |->
        IF g.charge # None THEN g.charge.value - g.returned * ReturnCost(g) ELSE 0]

\* The deliveries and returns that posted a cost.
GoodsDocs == {goods[k].doc : k \in {j \in DOMAIN goods : goods[j].line \in Goods}}

CostCounted ==
    /\ Near(Fine, gl.cogs, Over(CostOf, goods), Cardinality(GoodsDocs))
    /\ gl.inventory = -gl.cogs

\* The rates of a row that was charged.
LEMMA Charged ==
  ASSUME NEW g \in GoodsLine, g.charge # None
  PROVE  /\ g.charge.value \in Nat /\ ReturnCost(g) \in Nat /\ g.returned \in Nat
         /\ g.returned * ReturnCost(g) \in Int
  <1>1. g.charge \in [value : Nat, left : Nat] /\ g.returned \in Nat
    BY DEF GoodsLine
  <1>2. g.charge.value \in Nat /\ ReturnCost(g) \in Nat
    BY <1>1, ReturnCostNat
  <1> QED
    BY <1>1, <1>2, Products

\* What a goods row costs is an amount.
LEMMA CostTyped == CostOf \in [GoodsLine -> Int]
  <1>1. ASSUME NEW g \in GoodsLine, g.charge # None
        PROVE  g.charge.value - g.returned * ReturnCost(g) \in Int
    <2> DEFINE a == g.charge.value
               b == g.returned * ReturnCost(g)
    <2>1. a \in Int /\ b \in Int
      BY <1>1, Charged
    <2> HIDE DEF a, b
    <2>2. a - b \in Int
      BY <2>1
    <2> QED
      BY <2>2 DEF a, b
  <1> QED
    BY <1>1 DEF CostOf

(* The documents are numbered by the row they start at. *)
LEMMA DocsCount ==
  ASSUME Sound
  PROVE  /\ IsFiniteSet(GoodsDocs) /\ Cardinality(GoodsDocs) \in Nat
         /\ Len(goods) + 1 \notin GoodsDocs
  <1>1. /\ DOMAIN goods = 1..Len(goods) /\ Len(goods) \in Nat
        /\ \A k \in DOMAIN goods :
              goods[k].doc \in Nat /\ 1 <= goods[k].doc /\ goods[k].doc <= k
    <2>1. DOMAIN goods = 1..Len(goods) /\ Len(goods) \in Nat
          /\ \A k \in DOMAIN goods : goods[k] \in GoodsLine
      BY Rows DEF Sound
    <2>2. \A g \in GoodsLine : g.doc \in Nat
      BY DEF GoodsLine
    <2> QED
      BY <2>1, <2>2 DEF Sound, GoodsSound
  <1>2. GoodsDocs \in SUBSET (1..Len(goods))
    BY <1>1 DEF GoodsDocs
  <1>3. IsFiniteSet(1..Len(goods))
    BY <1>1, FS_Interval
  <1>4. IsFiniteSet(GoodsDocs)
    BY <1>2, <1>3, FS_Subset
  <1>5. Cardinality(GoodsDocs) \in Nat
    BY <1>4, FS_CardinalityType
  <1>6. Len(goods) + 1 \notin 1..Len(goods)
    BY <1>1
  <1> QED
    BY <1>2, <1>4, <1>5, <1>6

\* A delivery or return with goods among its rows is one such document more.
LEMMA DocsGrow ==
  ASSUME Sound, NEW old \in Seq(GoodsLine), NEW new \in Seq(GoodsLine), goods' = old \o new,
         DOMAIN old = DOMAIN goods,
         \A k \in DOMAIN goods : old[k].doc = goods[k].doc /\ old[k].line = goods[k].line,
         \A i \in DOMAIN new : new[i].doc = Len(goods) + 1
  PROVE  Cardinality(GoodsDocs')
           = Cardinality(GoodsDocs) + (IF \E i \in DOMAIN new : new[i].line \in Goods THEN 1 ELSE 0)
  <1>1. /\ DOMAIN old = 1..Len(old) /\ Len(old) \in Nat /\ Len(old) = Len(goods)
        /\ DOMAIN new = 1..Len(new) /\ Len(new) \in Nat
        /\ DOMAIN goods' = 1..(Len(old) + Len(new))
        /\ DOMAIN goods = 1..Len(goods) /\ Len(goods) \in Nat
    BY Rows DEF Sound
  <1>2. ASSUME NEW k \in DOMAIN goods'
        PROVE  \/ k \in DOMAIN goods /\ goods'[k] = old[k]
               \/ k - Len(goods) \in DOMAIN new /\ goods'[k] = new[k - Len(goods)]
    <2>1. CASE k <= Len(old)
      BY <1>1, <2>1
    <2>2. CASE k > Len(old)
      BY <1>1, <2>2
    <2> QED
      BY <1>1, <2>1, <2>2
  <1>3. \A k \in DOMAIN goods : k \in DOMAIN goods' /\ goods'[k] = old[k]
    BY <1>1
  <1>4. \A i \in DOMAIN new : Len(goods) + i \in DOMAIN goods' /\ goods'[Len(goods) + i] = new[i]
    BY <1>1
  <1> DEFINE n == Len(goods) + 1
  <1>5. IsFiniteSet(GoodsDocs) /\ n \notin GoodsDocs /\ Cardinality(GoodsDocs) \in Nat
    BY DocsCount
  <1>6. GoodsDocs' = {goods'[k].doc : k \in {j \in DOMAIN goods' : goods'[j].line \in Goods}}
    BY DEF GoodsDocs
  <1>7. GoodsDocs \subseteq GoodsDocs'
    BY <1>3, <1>6 DEF GoodsDocs
  <1>8. CASE \E i \in DOMAIN new : new[i].line \in Goods
    <2>1. GoodsDocs' \subseteq GoodsDocs \cup {n}
      BY <1>2, <1>6 DEF GoodsDocs
    <2>2. n \in GoodsDocs'
      BY <1>4, <1>6, <1>8
    <2>3. GoodsDocs' = GoodsDocs \cup {n}
      BY <1>7, <2>1, <2>2
    <2> HIDE DEF n
    <2> QED
      BY <1>5, <1>8, <2>3, FS_AddElement
  <1>9. CASE ~ \E i \in DOMAIN new : new[i].line \in Goods
    <2>1. ASSUME NEW k \in DOMAIN goods', goods'[k].line \in Goods
          PROVE  k \in DOMAIN goods /\ goods'[k].doc = goods[k].doc /\ goods[k].line \in Goods
      <3>1. k \in DOMAIN goods /\ goods'[k] = old[k]
        BY <1>2, <1>9, <2>1
      <3> QED
        BY <2>1, <3>1
    <2>3. GoodsDocs' \subseteq GoodsDocs
      BY <1>6, <2>1 DEF GoodsDocs
    <2>2. GoodsDocs' = GoodsDocs
      BY <1>7, <2>3
    <2> QED
      BY <1>5, <1>9, <2>2
  <1> QED
    BY <1>8, <1>9

(* An issue is charged for the goods it adds. *)
LEMMA IssuedCost ==
  ASSUME NEW request, NEW new \in Seq(GoodsLine), Issued(request, new)
  PROVE  Over(CostOf, new) = Over(Value, new)
  <1>1. ASSUME NEW i \in DOMAIN new
        PROVE  CostOf[new[i]] = Value[new[i]]
    <2>1. new[i] \in GoodsLine /\ new[i].returned = 0
      BY <1>1 DEF Issued
    <2>2. ASSUME new[i].charge # None
          PROVE  new[i].charge.value - new[i].returned * ReturnCost(new[i])
                   = new[i].charge.value
      <3> DEFINE a == new[i].charge.value
                 r == ReturnCost(new[i])
      <3>1. a \in Nat /\ r \in Nat
        BY <2>1, <2>2, Charged
      <3> HIDE DEF a, r
      <3>2. a - 0 * r = a
        BY <3>1
      <3> QED
        BY <2>1, <3>2 DEF a, r
    <2> QED
      BY <2>1, <2>2 DEF CostOf, Value
  <1> QED
    BY <1>1, OverEqual DEF Alike

(* A return is worth what the rows it takes from are charged less. *)
LEMMA ReturnedCost ==
  ASSUME Sound, NEW request \in Seq(Ask(DOMAIN goods)), ReturnLines(request),
         NEW old \in Seq(GoodsLine), NEW new \in Seq(GoodsLine),
         Taken(request, old), Returned(request, new)
  PROVE  /\ Over(CostOf, goods) = Over(CostOf, old) + Worthy(request)
         /\ Over(CostOf, new) = 0
  <1>1. /\ Typed /\ goods \in Seq(GoodsLine) /\ \A k \in DOMAIN goods : goods[k] \in GoodsLine
        /\ DOMAIN goods = 1..Len(goods) /\ Len(goods) \in Nat
    BY Rows DEF Sound, Typed
  <1>2. DOMAIN old = DOMAIN goods /\ \A k \in DOMAIN goods : old[k] \in GoodsLine
    BY DEF Taken
  <1>3. /\ \A i \in DOMAIN request : request[i].qty \in Nat /\ request[i].at \in DOMAIN goods
        /\ \A k : Asked(request, k) \in Nat
    BY Requested
  <1> DEFINE n == Len(goods)
             c == [k \in 1..n |-> IF goods[k].charge # None THEN ReturnCost(goods[k]) ELSE 0]
             b == [k \in DOMAIN old |-> c[k] * Asked(request, k)]
  <1>4. \A k \in DOMAIN goods : c[k] \in Nat
    BY <1>1, Charged
  <1>5. ASSUME NEW k \in DOMAIN goods
        PROVE  b[k] \in Int /\ CostOf[goods[k]] = CostOf[old[k]] + b[k]
    <2>1. b[k] = c[k] * Asked(request, k) /\ c[k] \in Nat /\ Asked(request, k) \in Nat
      BY <1>2, <1>3, <1>4
    <2>2. b[k] \in Int
      BY <2>1, Products
    <2>3. /\ old[k].kind = goods[k].kind /\ old[k].qty = goods[k].qty
          /\ old[k].charge = goods[k].charge
          /\ old[k].returned = goods[k].returned + Asked(request, k)
          /\ Asked(request, k) > 0 => goods[k].kind = "Delivery" /\ goods[k].charge # None
      BY DEF Taken
    <2>4. ReturnCost(old[k]) = ReturnCost(goods[k])
      BY <2>3 DEF ReturnCost
    <2>5. CASE goods[k].charge # None
      <3> DEFINE q == goods[k].charge.value
                 r == ReturnCost(goods[k])
                 u == goods[k].returned
                 a == Asked(request, k)
      <3>1. q \in Int /\ r \in Nat /\ u \in Nat /\ a \in Nat
        BY <1>1, <2>1, <2>5, Charged
      <3>2. b[k] = r * a
        BY <1>1, <2>1, <2>5
      <3>3. CostOf[goods[k]] = q - u * r
        BY <1>1, <2>5 DEF CostOf
      <3>4. CostOf[old[k]] = q - (u + a) * r
        BY <1>2, <2>3, <2>4, <2>5 DEF CostOf
      <3> HIDE DEF q, r, u, a
      <3>5. q - u * r = (q - (u + a) * r) + r * a
        BY <3>1
      <3> HIDE DEF b
      <3> QED
        BY <2>2, <3>2, <3>3, <3>4, <3>5
    <2>6. CASE goods[k].charge = None
      <3>1. Asked(request, k) = 0
        BY <2>1, <2>3, <2>6
      <3>2. b[k] = 0
        BY <2>1, <3>1
      <3>3. CostOf[goods[k]] = 0 /\ CostOf[old[k]] = 0
        BY <1>1, <1>2, <2>3, <2>6 DEF CostOf
      <3> HIDE DEF b
      <3> QED
        BY <3>2, <3>3
    <2> QED
      BY <2>5, <2>6
  <1>6. Over(CostOf, goods) = Over(CostOf, old) + SeqSum([k \in DOMAIN old |-> b[k]])
    <2> HIDE DEF b
    <2>1. Shifted(GoodsLine, CostOf, old, goods, b)
      BY <1>1, <1>2, <1>5, CostTyped DEF Shifted
    <2> QED
      BY <2>1, OverAdd
  <1>7. SeqSum([k \in DOMAIN old |-> b[k]]) = Worthy(request)
    <2>1. c \in [1..n -> Int] /\ n \in Nat
      BY <1>1, <1>4
    <2>2. \A i \in DOMAIN request : request[i].qty \in Nat /\ request[i].at \in 1..n
      BY <1>1, <1>3
    <2>3. [k \in DOMAIN old |-> b[k]] = [k \in 1..n |-> c[k] * Asked(request, k)]
      BY <1>1, <1>2
    <2>4. ASSUME NEW i \in DOMAIN request
          PROVE  c[request[i].at] * request[i].qty
                   = request[i].qty * ReturnCost(goods[request[i].at])
      <3>1. goods[request[i].at].charge # None
        BY DEF ReturnLines, ReturnAllowed
      <3>2. c[request[i].at] = ReturnCost(goods[request[i].at])
        BY <2>2, <3>1
      <3>3. c[request[i].at] \in Nat /\ request[i].qty \in Nat
        BY <1>3, <1>4
      <3> QED
        BY <3>2, <3>3
    <2>5. [i \in DOMAIN request |-> c[request[i].at] * request[i].qty]
            = [i \in DOMAIN request |-> IF Always(request[i])
                  THEN request[i].qty * ReturnCost(goods[request[i].at]) ELSE 0]
      BY <2>4 DEF Always
    <2> HIDE DEF c, n
    <2>6. SeqSum([k \in 1..n |-> c[k] * Asked(request, k)])
            = SeqSum([i \in DOMAIN request |-> c[request[i].at] * request[i].qty])
      BY <2>1, <2>2, AskedGroup
    <2> QED
      BY <2>3, <2>5, <2>6 DEF Worthy, SumWhere
  <1>8. Over(CostOf, new) = 0
    <2>1. \A i \in DOMAIN new : CostOf[new[i]] = 0
      BY DEF Returned, CostOf
    <2> QED
      BY <2>1, CostTyped, OverZero
  <1> QED
    BY <1>6, <1>7, <1>8

(* Every handler keeps the cost of sales at what the goods were charged. *)
LEMMA CostStaysCounted ==
  ASSUME Sound, CostCounted, [Handlers]_vars
  PROVE  CostCounted'
  <1>1. /\ Typed /\ GoodsSound /\ goods \in Seq(GoodsLine)
        /\ \A k \in DOMAIN goods : goods[k] \in GoodsLine
        /\ Over(CostOf, goods) \in Int /\ gl.cogs \in Int /\ gl.inventory = -gl.cogs
        /\ Near(Fine, gl.cogs, Over(CostOf, goods), Cardinality(GoodsDocs))
        /\ Cardinality(GoodsDocs) \in Int /\ Fine \in Int
    <2>1. Typed /\ GoodsSound /\ goods \in Seq(GoodsLine)
      BY DEF Sound, Typed
    <2>2. Over(CostOf, goods) \in Int
      BY <2>1, CostTyped, OverInt
    <2>3. (\A k \in DOMAIN goods : goods[k] \in GoodsLine) /\ gl.cogs \in Int
      BY <2>1, Rows DEF Accounts
    <2>4. Cardinality(GoodsDocs) \in Int /\ Fine \in Int
      BY DocsCount, BookedNear
    <2> QED
      BY <2>1, <2>2, <2>3, <2>4 DEF CostCounted
  <1>2. ASSUME gl'.cogs = gl.cogs, gl'.inventory = gl.inventory, goods' = goods
        PROVE  CostCounted'
    BY <1>1, <1>2 DEF CostCounted, GoodsDocs
  <1>3. CASE PostOrder \/ UNCHANGED vars
    BY <1>2, <1>3 DEF PostOrder, vars
  <1>4. ASSUME NEW request \in Seq(Ask(Lines)), DeliverLines(request) PROVE CostCounted'
    <2>1. PICK new \in Seq(GoodsLine) :
             /\ Issued(request, new) /\ goods' = goods \o new
             /\ gl' = [gl EXCEPT !.cogs = @ + Booked(Over(Value, new)),
                                 !.inventory = @ - Booked(Over(Value, new))]
      BY <1>1, <1>4, DeliverRows
    <2> DEFINE x == Booked(Over(Value, new))
               e == IF \E i \in DOMAIN new : new[i].line \in Goods THEN 1 ELSE 0
    <2>2. Over(CostOf, goods') = Over(CostOf, goods) + Over(Value, new)
      <3>1. Over(CostOf, new) = Over(Value, new)
        BY <2>1, IssuedCost
      <3>2. goods \in Seq(GoodsLine) /\ goods' = goods \o new
        BY <1>1, <2>1
      <3>3. Over(CostOf, goods \o new) = Over(CostOf, goods) + Over(CostOf, new)
        BY <3>2, CostTyped, OverConcat
      <3> QED
        BY <3>1, <3>2, <3>3
    <2>3. Over(Value, new) \in Int /\ x \in Int
      BY ValueTyped, OverInt, BookedNear
    <2>4. gl'.cogs = gl.cogs + x /\ gl'.inventory = gl.inventory - x
      BY <1>1, <2>1, <2>3, Vouchers
    <2>5. Cardinality(GoodsDocs') = Cardinality(GoodsDocs) + e
      BY <1>1, <2>1, DocsGrow DEF Issued
    <2>6. Near(Fine, x, Over(Value, new), e)
      <3>1. CASE \E i \in DOMAIN new : new[i].line \in Goods
        BY <2>3, <3>1, BookedNear
      <3>2. CASE ~ \E i \in DOMAIN new : new[i].line \in Goods
        <4>1. \A i \in DOMAIN new : Value[new[i]] = 0
          <5>1. \A i \in DOMAIN new : new[i] \in GoodsLine /\ new[i].charge = None
            BY <2>1, <3>2 DEF Issued
          <5> QED
            BY <5>1 DEF Value
        <4>2. Over(Value, new) = 0
          BY <4>1, ValueTyped, OverZero
        <4>3. x = 0 /\ e = 0
          BY <3>2, <4>2, BookedNear
        <4> HIDE DEF x, e
        <4>4. Fine * 0 = 0
          BY <1>1
        <4> QED
          BY <1>1, <4>2, <4>3, <4>4 DEF Near
      <3> QED
        BY <3>1, <3>2
    <2>7. e \in Int
      OBVIOUS
    <2> HIDE DEF x, e
    <2>8. Near(Fine, gl.cogs + x, Over(CostOf, goods) + Over(Value, new),
               Cardinality(GoodsDocs) + e)
      BY <1>1, <2>3, <2>6, <2>7, NearAdds
    <2> QED
      BY <1>1, <2>2, <2>3, <2>4, <2>5, <2>8 DEF CostCounted
  <1>5. ASSUME NEW request \in Seq(Ask(DOMAIN goods)), ReturnLines(request)
        PROVE  CostCounted'
    <2>1. PICK old \in Seq(GoodsLine), new \in Seq(GoodsLine) :
             Taken(request, old) /\ Returned(request, new) /\ goods' = old \o new
      BY <1>1, <1>5, ReturnRows
    <2> DEFINE x == ReturnValue(request)
               w == Worthy(request)
               e == IF \E i \in DOMAIN new : new[i].line \in Goods THEN 1 ELSE 0
    <2>2. Over(CostOf, goods) = Over(CostOf, old) + w /\ Over(CostOf, new) = 0
      BY <1>5, <2>1, ReturnedCost
    <2>3. Over(CostOf, goods') = Over(CostOf, old) + 0 /\ Over(CostOf, old) \in Int
      <3>1. Over(CostOf, old \o new) = Over(CostOf, old) + Over(CostOf, new)
        BY CostTyped, OverConcat
      <3>2. Over(CostOf, old) \in Int
        BY CostTyped, OverInt
      <3> QED
        BY <2>1, <2>2, <3>1, <3>2
    <2>4. w \in Int /\ x \in Int /\ x = Booked(w)
      BY <1>1, <1>5, ReturnValueInt, WorthyInt DEF ReturnValue, Worthy
    <2>5. gl'.inventory = gl.inventory + x /\ gl'.cogs = gl.cogs - x
      BY <1>1, <1>5, <2>4, Vouchers DEF ReturnLines
    <2>6. Cardinality(GoodsDocs') = Cardinality(GoodsDocs) + e
      <3>1. DOMAIN old = DOMAIN goods
            /\ \A k \in DOMAIN goods : old[k].doc = goods[k].doc /\ old[k].line = goods[k].line
        BY <2>1 DEF Taken
      <3>2. \A i \in DOMAIN new : new[i].doc = Len(goods) + 1
        BY <2>1 DEF Returned
      <3> QED
        BY <2>1, <3>1, <3>2, DocsGrow
    <2>7. Near(Fine, x, w, e)
      <3>1. CASE \E i \in DOMAIN new : new[i].line \in Goods
        BY <2>4, <3>1, BookedNear
      <3>2. CASE ~ \E i \in DOMAIN new : new[i].line \in Goods
        <4>1. DOMAIN request = {}
          BY <2>1, <3>2 DEF Returned
        <4>2. w = 0
          <5>1. request = <<>>
            BY <4>1, Requested
          <5> QED
            BY <4>1, <5>1, SeqSumEmpty DEF Worthy, SumWhere
        <4>3. x = 0 /\ e = 0
          BY <2>4, <3>2, <4>2, BookedNear
        <4> HIDE DEF x, w, e
        <4>4. Fine * 0 = 0
          BY <1>1
        <4> QED
          BY <1>1, <4>2, <4>3, <4>4 DEF Near
      <3> QED
        BY <3>1, <3>2
    <2>8. e \in Int
      OBVIOUS
    <2> HIDE DEF x, w, e
    <2>9. Near(Fine, gl.cogs - x, Over(CostOf, goods) - w, Cardinality(GoodsDocs) + e)
      BY <1>1, <2>4, <2>7, <2>8, NearAdds
    <2>10. Over(CostOf, goods') = Over(CostOf, goods) - w
      BY <2>2, <2>3, <2>4
    <2> QED
      BY <1>1, <2>4, <2>5, <2>6, <2>9, <2>10 DEF CostCounted
  <1>6. ASSUME NEW request \in Seq(Draw(Lines)), InvoiceLines(request) PROVE CostCounted'
    <2>1. goods' \in Seq(GoodsLine) /\ Drawn(request, goods')
      BY <1>1, <1>6, InvoiceRows
    <2>2. PICK ls \in Seq(DocumentLine) :
             gl' = [gl EXCEPT !.ar = @ + BaseTotal(ls), !.sales = @ - BaseNet(ls),
                              !.tax = @ - BaseTax(ls)]
      BY <1>1, <1>6, InvoiceRows
    <2>3. gl'.cogs = gl.cogs /\ gl'.inventory = gl.inventory
      BY <1>1, <2>2, Vouchers
    <2>4. \A k \in DOMAIN goods : CostOf[goods'[k]] = CostOf[goods[k]]
      <3>1. ASSUME NEW k \in DOMAIN goods PROVE CostOf[goods'[k]] = CostOf[goods[k]]
        <4>1. /\ goods'[k] \in GoodsLine /\ goods'[k].kind = goods[k].kind
              /\ goods'[k].qty = goods[k].qty /\ goods'[k].returned = goods[k].returned
              /\ goods'[k].charge = goods[k].charge
          BY <2>1 DEF Drawn
        <4>2. ReturnCost(goods'[k]) = ReturnCost(goods[k])
          BY <4>1 DEF ReturnCost
        <4> QED
          BY <1>1, <4>1, <4>2 DEF CostOf
      <3> QED
        BY <3>1
    <2>5. Alike(CostOf, goods', CostOf, goods)
      BY <2>1, <2>4 DEF Alike, Drawn
    <2>6. Over(CostOf, goods') = Over(CostOf, goods)
      BY <2>5, OverEqual
    <2>7. GoodsDocs' = GoodsDocs
      <3>1. DOMAIN goods' = DOMAIN goods
        BY <2>1 DEF Drawn
      <3>2. \A k \in DOMAIN goods : goods'[k].doc = goods[k].doc /\ goods'[k].line = goods[k].line
        BY <2>1 DEF Drawn
      <3>3. GoodsDocs' = {goods'[k].doc : k \in {j \in DOMAIN goods' : goods'[j].line \in Goods}}
        BY DEF GoodsDocs
      <3> QED
        BY <3>1, <3>2, <3>3 DEF GoodsDocs
    <2> QED
      BY <1>1, <2>3, <2>6, <2>7 DEF CostCounted
  <1>7. ASSUME NEW p, NEW target, Receive(p, target) PROVE CostCounted'
    <2>1. gl' = [gl EXCEPT !.bank = @ + PaymentBase(p), !.ar = @ - ArCredit(p),
                           !.fx = @ - GainLoss(p)]
      BY <1>7 DEF Receive
    <2>2. gl'.cogs = gl.cogs /\ gl'.inventory = gl.inventory
      BY <1>1, <2>1, Vouchers
    <2> QED
      BY <1>2, <1>7, <2>2 DEF Receive
  <1>8. ASSUME NEW k \in DOMAIN invoices, NEW request \in Seq(Ask(DOMAIN invoices[k].lines)),
               CreditInvoice(k, request)
        PROVE  CostCounted'
    <2>1. PICK ls \in Seq(DocumentLine) :
             gl' = [gl EXCEPT !.ar = @ - BaseTotal(ls), !.sales = @ + BaseNet(ls),
                              !.tax = @ + BaseTax(ls)]
      BY <1>8, CreditRows
    <2>2. gl'.cogs = gl.cogs /\ gl'.inventory = gl.inventory
      BY <1>1, <2>1, Vouchers
    <2> QED
      BY <1>2, <1>8, <2>2 DEF CreditInvoice
  <1> QED
    BY <1>3, <1>4, <1>5, <1>6, <1>7, <1>8 DEF Handlers

(* The cost of sales is what the issues took off the stock, less the returned *)
(* units at the rate of their own issue, up to half a unit for each delivery  *)
(* and return that moved goods, and the inventory account mirrors it.         *)
THEOREM CostCorrect == EntrySpec => []CostFollowsGoods
  <1>1. EntryInit => CostCounted
    <2> SUFFICES ASSUME EntryInit PROVE CostCounted
      OBVIOUS
    <2>1. goods = <<>> /\ gl.cogs = 0 /\ gl.inventory = 0
      BY DEF EntryInit, Init, ImportOrder, NothingDone, Accounts
    <2>2. Over(CostOf, goods) = 0
      BY <2>1, OverEmpty
    <2>3. gl.inventory = -gl.cogs
      <3>1. gl.cogs \in Int /\ gl.inventory \in Int /\ gl.cogs + gl.inventory = 0
        BY <2>1
      <3>2. \A x, y \in Int : x + y = 0 => y = -x
        OBVIOUS
      <3> QED
        BY <3>1, <3>2
    <2>4. Cardinality(GoodsDocs) = 0
      BY <2>1, FS_EmptySet DEF GoodsDocs
    <2>5. Near(Fine, 0, 0, 0)
      <3>1. Fine * 0 = 0
        BY BookedNear
      <3> QED
        BY <3>1 DEF Near
    <2> QED
      BY <2>1, <2>2, <2>3, <2>4, <2>5 DEF CostCounted
  <1>2. Sound /\ CostCounted /\ [Handlers]_vars => CostCounted'
    BY CostStaysCounted
  <1>3. Sound /\ CostCounted => CostFollowsGoods
    <2> SUFFICES ASSUME Sound, CostCounted PROVE CostFollowsGoods
      OBVIOUS
    <2> DEFINE rate(g) == HalfEven(g.charge.value, g.qty)
               cost(g) == g.charge.value
                            - g.returned * (IF rate(g) = 0 THEN g.charge.left ELSE rate(g))
    <2>1. \A k \in DOMAIN goods : goods[k] \in GoodsLine
      BY Rows DEF Sound
    <2>2. \A g : ReturnCost(g) = IF rate(g) = 0 THEN g.charge.left ELSE rate(g)
      BY DEF ReturnCost
    <2>3. \A k \in DOMAIN goods : CostOf[goods[k]] =
             IF goods[k].charge # None THEN cost(goods[k]) ELSE 0
      <3> HIDE DEF rate
      <3> QED
        BY <2>1, <2>2 DEF CostOf
    <2> DEFINE owed == GoodsSum(LAMBDA g : g.charge # None, LAMBDA g : cost(g))
               docs == Cardinality(GoodsDocs)
    <2>4. owed = Over(CostOf, goods)
      BY <2>3 DEF Over, GoodsSum, SumWhere
    <2>5. owed \in Int /\ docs \in Int /\ gl.cogs \in Int /\ Fine \in Int
      <3>1. Over(CostOf, goods) \in Int
        BY CostTyped, OverInt DEF Sound, Typed
      <3>2. Typed
        BY DEF Sound
      <3>3. gl.cogs \in Int
        BY <3>2, Rows DEF Accounts
      <3>4. docs \in Int /\ Fine \in Int
        BY DocsCount, BookedNear
      <3> HIDE DEF owed, docs
      <3> QED
        BY <2>4, <3>1, <3>3, <3>4
    <2>6. 2 * (Fine * gl.cogs - owed) <= Fine * docs
          /\ 2 * (Fine * gl.cogs - owed) >= -(Fine * docs)
      <3> DEFINE fc == Fine * gl.cogs
                 fd == Fine * docs
      <3>1. fc \in Int /\ fd \in Int
        BY <2>5, Products
      <3>2. 2 * (fc - owed) <= fd /\ -fd <= 2 * (fc - owed)
        BY <2>4 DEF CostCounted, Near
      <3> HIDE DEF fc, fd, owed
      <3>3. 2 * (fc - owed) >= -fd
        BY <2>5, <3>1, <3>2
      <3> QED
        BY <3>2, <3>3 DEF fc, fd
    <2> QED
      BY <2>6 DEF CostFollowsGoods, CostCounted, GoodsDocs
  <1> QED
    BY <1>1, <1>2, <1>3, SoundAlways, PTL DEF EntrySpec

-----------------------------------------------------------------------------
(* What a payment allocates to the invoices, as a request. *)

Parts(p, target) ==
    [i \in DOMAIN target |-> [at |-> target[i], qty |-> p.allocations[i].invoice_amount]]

\* A payment asks of every invoice the part it allocates to it.
LEMMA PartsAsked ==
  ASSUME Sound, NEW p \in Entry, NEW target \in [DOMAIN p.allocations -> DOMAIN invoices],
         Receive(p, target)
  PROVE  /\ Parts(p, target) \in Seq(Ask(DOMAIN invoices))
         /\ \A i \in DOMAIN target :
               Asked(Parts(p, target), target[i]) = p.allocations[i].invoice_amount
         /\ \A k : (\A i \in DOMAIN target : target[i] # k) => Asked(Parts(p, target), k) = 0
         /\ \A k : Asked(Parts(p, target), k) \in Nat
  <1> DEFINE parts == Parts(p, target)
  <1>1. /\ DOMAIN target = 1..Len(p.allocations) /\ Len(p.allocations) \in Nat
        /\ IsInjective(target)
        /\ \A i \in DOMAIN target : /\ target[i] \in DOMAIN invoices
                                    /\ p.allocations[i].invoice_amount \in Nat \ {0}
    BY Allocated
  <1>2. /\ DOMAIN parts = DOMAIN target
        /\ \A i \in DOMAIN target : /\ parts[i].at = target[i]
                                    /\ parts[i].qty = p.allocations[i].invoice_amount
                                    /\ parts[i] \in Ask(DOMAIN invoices)
    BY <1>1 DEF Parts, Ask
  <1>3. parts \in Seq(Ask(DOMAIN invoices))
    <2>1. parts \in [1..Len(p.allocations) -> Ask(DOMAIN invoices)]
      BY <1>1, <1>2 DEF Parts
    <2> QED
      BY <1>1, <2>1, FunctionIsSeq
  <1> HIDE DEF parts
  <1>4. \A i \in DOMAIN parts : parts[i].qty \in Nat
    BY <1>1, <1>2
  <1>5. ASSUME NEW i \in DOMAIN target
        PROVE  Asked(parts, target[i]) = p.allocations[i].invoice_amount
    <2>1. \A j \in DOMAIN parts : parts[j].at = parts[i].at => j = i
      BY <1>1, <1>2 DEF IsInjective
    <2>2. Asked(parts, parts[i].at) = parts[i].qty
      BY <1>2, <1>3, <1>4, <2>1, AskedOnce
    <2> QED
      BY <1>2, <2>2
  <1>6. \A k : (\A i \in DOMAIN target : target[i] # k) => Asked(parts, k) = 0
    BY <1>2, <1>3, Requested
  <1>7. \A k : Asked(parts, k) \in Nat
    BY <1>3, Requested
  <1> QED
    BY <1>3, <1>5, <1>6, <1>7 DEF parts

(* What a payment leaves of each invoice. *)
LEMMA SettlesAmounts ==
  ASSUME Sound, NEW p \in Entry, NEW target \in [DOMAIN p.allocations -> DOMAIN invoices],
         Receive(p, target), NEW k \in DOMAIN invoices
  PROVE  /\ invoices'[k] \in Document
         /\ invoices'[k].type = invoices[k].type /\ invoices'[k].against = invoices[k].against
         /\ invoices'[k].total = invoices[k].total /\ invoices'[k].lines = invoices[k].lines
         /\ invoices'[k].outstanding = invoices[k].outstanding - Asked(Parts(p, target), k)
         /\ invoices'[k].paid = invoices[k].paid + Asked(Parts(p, target), k)
         /\ Asked(Parts(p, target), k) > 0 => invoices[k].type = "Invoice"
  <1>1. /\ invoices[k] \in Document /\ Open(invoices[k]) /\ invoices[k].outstanding \in Nat
        /\ invoices[k].paid \in Nat
    BY Rows DEF Sound, DocumentsSound, Document
  <1>2. invoices' \in Seq(Document) /\ Settles(p, target, invoices')
    BY ReceiveRows
  <1>3. invoices'[k] \in Document
    BY <1>2 DEF Settles
  <1>4. CASE \A i \in DOMAIN target : target[i] # k
    <2>1. invoices'[k] = invoices[k] /\ Asked(Parts(p, target), k) = 0
      BY <1>2, <1>4, PartsAsked DEF Settles
    <2>2. \A x \in Nat : x = x - 0 /\ x = x + 0
      OBVIOUS
    <2> QED
      BY <1>1, <2>1, <2>2
  <1>5. ASSUME NEW i \in DOMAIN target, target[i] = k
        PROVE  /\ invoices'[k].type = invoices[k].type
               /\ invoices'[k].against = invoices[k].against
               /\ invoices'[k].total = invoices[k].total
               /\ invoices'[k].lines = invoices[k].lines
               /\ invoices'[k].outstanding
                    = invoices[k].outstanding - Asked(Parts(p, target), k)
               /\ invoices'[k].paid = invoices[k].paid + Asked(Parts(p, target), k)
               /\ invoices[k].type = "Invoice"
    <2> DEFINE x == p.allocations[i].invoice_amount
    <2>1. /\ x \in Nat \ {0} /\ x <= invoices[k].outstanding
          /\ invoices'[k] = Settled(invoices[k], x)
          /\ invoices[k].type = "Invoice"
      BY <1>2, <1>5 DEF Settles
    <2>2. Asked(Parts(p, target), k) = x
      BY <1>5, PartsAsked
    <2> HIDE DEF x
    <2> QED
      BY <1>1, <2>1, <2>2, SettledDocument
  <1> QED
    BY <1>3, <1>4, <1>5

(* What was paid of an invoice is what payments allocate to it and credits settle. *)

PartFor(k) == [a \in PaidPart |-> IF a.invoice = k THEN a.invoice_amount ELSE 0]
ReceivedFor(k) == [p \in Payment |-> Over(PartFor(k), p.allocations)]
SettledFor(k) == [d \in Document |-> IF d.against = k THEN d.paid ELSE 0]

PaymentsLinked ==
    \A m \in DOMAIN payments : \A i \in DOMAIN payments[m].allocations :
        payments[m].allocations[i].invoice \in DOMAIN invoices

PaidCounted ==
    \A k \in DOMAIN invoices : invoices[k].type = "Invoice" =>
        invoices[k].paid = Over(ReceivedFor(k), payments) + Over(SettledFor(k), invoices)

\* What is counted of payments and notes is an integer.
LEMMA PayingFunctions ==
  ASSUME NEW k
  PROVE  /\ PartFor(k) \in [PaidPart -> Int] /\ ReceivedFor(k) \in [Payment -> Int]
         /\ SettledFor(k) \in [Document -> Int]
  <1>1. \A a \in PaidPart : a.invoice_amount \in Int
    BY DEF PaidPart
  <1>2. PartFor(k) \in [PaidPart -> Int]
    BY <1>1 DEF PartFor
  <1>3. \A p \in Payment : p.allocations \in Seq(PaidPart)
    BY DEF Payment
  <1>4. ReceivedFor(k) \in [Payment -> Int]
    BY <1>2, <1>3, OverInt DEF ReceivedFor
  <1>5. \A d \in Document : d.paid \in Int
    BY DEF Document
  <1>6. SettledFor(k) \in [Document -> Int]
    BY <1>5 DEF SettledFor
  <1> QED
    BY <1>2, <1>4, <1>6

(* A payment counts for an invoice what it allocates to it. *)
LEMMA PaidCounts ==
  ASSUME NEW p, NEW target, NEW pay \in Payment, PaidParts(p, target, pay), NEW k
  PROVE  ReceivedFor(k)[pay] = Asked(Parts(p, target), k)
  <1>1. /\ pay.allocations \in Seq(PaidPart) /\ DOMAIN pay.allocations = DOMAIN target
        /\ \A i \in DOMAIN target : pay.allocations[i] \in PaidPart
    BY DEF Payment, PaidParts
  <1>2. \A i \in DOMAIN target :
           PartFor(k)[pay.allocations[i]]
             = IF target[i] = k THEN p.allocations[i].invoice_amount ELSE 0
    BY <1>1 DEF PaidParts, PartFor
  <1>3. /\ DOMAIN Parts(p, target) = DOMAIN target
        /\ \A i \in DOMAIN target :
              /\ Parts(p, target)[i].at = target[i]
              /\ Parts(p, target)[i].qty = p.allocations[i].invoice_amount
    BY DEF Parts
  <1>4. [i \in DOMAIN pay.allocations |-> PartFor(k)[pay.allocations[i]]]
          = [i \in DOMAIN Parts(p, target) |->
                IF Parts(p, target)[i].at = k THEN Parts(p, target)[i].qty ELSE 0]
    BY <1>1, <1>2, <1>3
  <1>5. Over(PartFor(k), pay.allocations) = Asked(Parts(p, target), k)
    BY <1>4 DEF Over, Asked, SumWhere
  <1> QED
    BY <1>5 DEF ReceivedFor

(* Nothing is paid of a document that is still to come. *)
LEMMA NothingPaidAhead ==
  ASSUME Sound, PaymentsLinked, NEW k \in Nat, k \notin DOMAIN invoices
  PROVE  Over(ReceivedFor(k), payments) = 0 /\ Over(SettledFor(k), invoices) = 0
  <1>1. /\ Typed /\ payments \in Seq(Payment) /\ invoices \in Seq(Document)
        /\ \A m \in DOMAIN payments : payments[m] \in Payment
        /\ \A m \in DOMAIN invoices : invoices[m] \in Document
        /\ DOMAIN invoices = 1..Len(invoices) /\ Len(invoices) \in Nat
    BY Rows DEF Sound, Typed
  <1>2. ASSUME NEW m \in DOMAIN payments PROVE ReceivedFor(k)[payments[m]] = 0
    <2>1. /\ payments[m].allocations \in Seq(PaidPart)
          /\ \A i \in DOMAIN payments[m].allocations : payments[m].allocations[i] \in PaidPart
      BY <1>1 DEF Payment
    <2>2. \A i \in DOMAIN payments[m].allocations :
             PartFor(k)[payments[m].allocations[i]] = 0
      BY <2>1 DEF PaymentsLinked, PartFor
    <2>3. Over(PartFor(k), payments[m].allocations) = 0
      BY <2>1, <2>2, PayingFunctions, OverZero
    <2> QED
      BY <1>1, <2>3 DEF ReceivedFor
  <1>3. None # k
    BY OrderAssumption
  <1>4. ASSUME NEW m \in DOMAIN invoices PROVE SettledFor(k)[invoices[m]] = 0
    <2>1. invoices[m].against # k
      <3>1. invoices[m].against = None \/ invoices[m].against \in 1..(m - 1)
        BY DEF Sound, DocumentsSound
      <3> QED
        BY <1>1, <1>3, <3>1
    <2> QED
      BY <1>1, <2>1 DEF SettledFor
  <1> QED
    BY <1>1, <1>2, <1>4, PayingFunctions, OverZero

(* Every payment names invoices that are there. *)
LEMMA PaymentsStayLinked ==
  ASSUME Sound, PaymentsLinked, [Handlers]_vars
  PROVE  PaymentsLinked'
  <1>1. /\ Typed /\ invoices \in Seq(Document) /\ payments \in Seq(Payment)
        /\ DOMAIN invoices = 1..Len(invoices) /\ Len(invoices) \in Nat
    BY Rows DEF Sound, Typed
  <1>2. ASSUME payments' = payments, DOMAIN invoices \subseteq DOMAIN invoices'
        PROVE  PaymentsLinked'
    BY <1>2 DEF PaymentsLinked
  <1>3. CASE PostOrder \/ UNCHANGED vars
    BY <1>2, <1>3 DEF PostOrder, vars
  <1>4. ASSUME NEW request, DeliverLines(request) \/ ReturnLines(request) PROVE PaymentsLinked'
    BY <1>2, <1>4 DEF DeliverLines, ReturnLines
  <1>5. ASSUME NEW request \in Seq(Draw(Lines)), InvoiceLines(request) PROVE PaymentsLinked'
    <2>1. PICK d \in Document : invoices' = Append(invoices, d)
      BY <1>1, <1>5, InvoiceRows
    <2>2. DOMAIN invoices \subseteq DOMAIN invoices'
      BY <1>1, <2>1
    <2> QED
      BY <1>2, <1>5, <2>2 DEF InvoiceLines
  <1>6. ASSUME NEW p \in Entry, NEW target \in [DOMAIN p.allocations -> DOMAIN invoices],
               Receive(p, target)
        PROVE  PaymentsLinked'
    <2>1. PICK pay \in Payment : PaidParts(p, target, pay) /\ payments' = Append(payments, pay)
      BY <1>6, ReceiveRows
    <2>2. DOMAIN invoices' = DOMAIN invoices
      BY <1>6, ReceiveRows DEF Settles
    <2>3. \A i \in DOMAIN pay.allocations : pay.allocations[i].invoice \in DOMAIN invoices
      BY <2>1 DEF PaidParts
    <2>4. ASSUME NEW m \in DOMAIN payments'
          PROVE  \A i \in DOMAIN payments'[m].allocations :
                    payments'[m].allocations[i].invoice \in DOMAIN invoices
      <3>1. (m \in DOMAIN payments /\ payments'[m] = payments[m]) \/ payments'[m] = pay
        BY <1>1, <2>1
      <3> QED
        BY <2>3, <3>1 DEF PaymentsLinked
    <2> QED
      BY <2>2, <2>4 DEF PaymentsLinked
  <1>7. ASSUME NEW k \in DOMAIN invoices, NEW request \in Seq(Ask(DOMAIN invoices[k].lines)),
               CreditInvoice(k, request)
        PROVE  PaymentsLinked'
    <2>1. PICK d \in Document, n \in Document :
             invoices' = Append([invoices EXCEPT ![k] = d], n)
      BY <1>7, CreditRows
    <2>2. DOMAIN invoices \subseteq DOMAIN invoices'
      BY <1>1, <2>1
    <2> QED
      BY <1>2, <1>7, <2>2 DEF CreditInvoice
  <1> QED
    BY <1>3, <1>4, <1>5, <1>6, <1>7 DEF Handlers

(* Every handler keeps what was paid at what was allocated and settled. *)
LEMMA InvoicePaid ==
  ASSUME Sound, PaymentsLinked, PaidCounted, NEW request \in Seq(Draw(Lines)),
         InvoiceLines(request)
  PROVE  PaidCounted'
  <1>1. /\ Typed /\ invoices \in Seq(Document)
        /\ DOMAIN invoices = 1..Len(invoices) /\ Len(invoices) \in Nat
    BY Rows DEF Sound, Typed
  <1>2. PICK ls \in Seq(DocumentLine), d \in Document :
           /\ Made(d, "Invoice", None, ls) /\ d.outstanding = d.total
           /\ invoices' = Append(invoices, d)
    BY <1>1, InvoiceRows
  <1>3. d.against = None /\ d.paid = d.total - d.outstanding /\ d.total \in Nat
    BY <1>2 DEF Made, Open, Document
  <1>4. d.paid = 0
    BY <1>2, <1>3
  <1>5. payments' = payments
    BY DEF InvoiceLines
  <1>6. ASSUME NEW k \in Nat PROVE Over(SettledFor(k), invoices') = Over(SettledFor(k), invoices)
    <2>1. None # k
      BY OrderAssumption
    <2>2. SettledFor(k)[d] = 0
      BY <1>3, <2>1 DEF SettledFor
    <2>3. Over(SettledFor(k), invoices') = Over(SettledFor(k), invoices) + 0
      BY <1>1, <1>2, <2>2, PayingFunctions, OverAppend
    <2>4. Over(SettledFor(k), invoices) \in Int
      BY <1>1, PayingFunctions, OverInt
    <2> QED
      BY <2>3, <2>4
  <1>7. ASSUME NEW k \in DOMAIN invoices', invoices'[k].type = "Invoice"
        PROVE  invoices'[k].paid = Over(ReceivedFor(k), payments') + Over(SettledFor(k), invoices')
    <2>1. k \in Nat /\ (k \in DOMAIN invoices \/ k \notin DOMAIN invoices)
      BY <1>1, <1>2
    <2>2. CASE k \in DOMAIN invoices
      <3>1. invoices'[k] = invoices[k]
        BY <1>1, <1>2, <2>2
      <3>2. invoices[k].paid = Over(ReceivedFor(k), payments) + Over(SettledFor(k), invoices)
        BY <1>7, <2>2, <3>1 DEF PaidCounted
      <3> QED
        BY <1>5, <1>6, <2>1, <3>1, <3>2
    <2>3. CASE k \notin DOMAIN invoices
      <3>1. invoices'[k] = d
        BY <1>1, <1>2, <2>3
      <3>2. Over(ReceivedFor(k), payments) = 0 /\ Over(SettledFor(k), invoices) = 0
        BY <2>1, <2>3, NothingPaidAhead
      <3> QED
        BY <1>4, <1>5, <1>6, <2>1, <3>1, <3>2
    <2> QED
      BY <2>2, <2>3
  <1> QED
    BY <1>7 DEF PaidCounted

\* A payment lowers the outstanding amounts by its parts.
LEMMA ReceivePaid ==
  ASSUME Sound, PaymentsLinked, PaidCounted, NEW p \in Entry,
         NEW target \in [DOMAIN p.allocations -> DOMAIN invoices], Receive(p, target)
  PROVE  PaidCounted'
  <1>1. /\ Typed /\ payments \in Seq(Payment) /\ invoices \in Seq(Document)
        /\ \A k \in DOMAIN invoices : invoices[k] \in Document /\ k \in Nat
    BY Rows DEF Sound, Typed
  <1>2. PICK pay \in Payment : PaidParts(p, target, pay) /\ payments' = Append(payments, pay)
    BY ReceiveRows
  <1>3. DOMAIN invoices' = DOMAIN invoices
    BY ReceiveRows DEF Settles
  <1>4. ASSUME NEW k \in DOMAIN invoices', invoices'[k].type = "Invoice"
        PROVE  invoices'[k].paid = Over(ReceivedFor(k), payments') + Over(SettledFor(k), invoices')
    <2> DEFINE a == Asked(Parts(p, target), k)
    <2>1. /\ invoices[k].type = "Invoice" /\ invoices'[k].paid = invoices[k].paid + a
          /\ a \in Nat /\ k \in Nat
      BY <1>1, <1>3, <1>4, SettlesAmounts, PartsAsked
    <2>2. invoices[k].paid = Over(ReceivedFor(k), payments) + Over(SettledFor(k), invoices)
      BY <1>3, <2>1 DEF PaidCounted
    <2>3. ReceivedFor(k)[pay] = a
      BY <1>2, PaidCounts
    <2>4. Over(ReceivedFor(k), payments') = Over(ReceivedFor(k), payments) + a
      <3>1. ReceivedFor(k) \in [Payment -> Int]
        BY PayingFunctions
      <3>2. Over(ReceivedFor(k), payments')
              = Over(ReceivedFor(k), payments) + ReceivedFor(k)[pay]
        BY <1>1, <1>2, <3>1, OverAppend
      <3> HIDE DEF a
      <3> QED
        BY <2>3, <3>2
    <2>5. Over(SettledFor(k), invoices') = Over(SettledFor(k), invoices)
      <3>1. None # k
        BY <2>1, OrderAssumption
      <3>2. ASSUME NEW m \in DOMAIN invoices
            PROVE  SettledFor(k)[invoices'[m]] = SettledFor(k)[invoices[m]]
        <4> DEFINE b == Asked(Parts(p, target), m)
        <4>1. /\ invoices'[m] \in Document /\ invoices'[m].against = invoices[m].against
              /\ invoices'[m].paid = invoices[m].paid + b /\ b \in Nat
              /\ b > 0 => invoices[m].type = "Invoice"
          BY SettlesAmounts, PartsAsked
        <4> HIDE DEF b
        <4>2. invoices[m] \in Document /\ invoices[m].paid \in Nat
          BY <1>1 DEF Document
        <4>3. CASE invoices[m].type = "Invoice"
          <5>1. invoices[m].against = None
            BY <4>3 DEF Sound, DocumentsSound
          <5> QED
            BY <3>1, <4>1, <4>2, <5>1 DEF SettledFor
        <4>4. CASE invoices[m].type # "Invoice"
          <5>1. invoices'[m].paid = invoices[m].paid
            BY <4>1, <4>2, <4>4
          <5> QED
            BY <4>1, <4>2, <5>1 DEF SettledFor
        <4> QED
          BY <4>3, <4>4
      <3>3. Alike(SettledFor(k), invoices', SettledFor(k), invoices)
        BY <1>3, <3>2 DEF Alike
      <3> QED
        BY <3>3, OverEqual
    <2>6. Over(ReceivedFor(k), payments) \in Int /\ Over(SettledFor(k), invoices) \in Int
      BY <1>1, PayingFunctions, OverInt
    <2> HIDE DEF a
    <2> QED
      BY <2>1, <2>2, <2>4, <2>5, <2>6
  <1> QED
    BY <1>4 DEF PaidCounted

\* A credit note lowers the outstanding amount by its allocation.
LEMMA CreditPaid ==
  ASSUME Sound, PaymentsLinked, PaidCounted, NEW k \in DOMAIN invoices,
         NEW request \in Seq(Ask(DOMAIN invoices[k].lines)), CreditInvoice(k, request)
  PROVE  PaidCounted'
  <1>1. /\ Typed /\ DOMAIN invoices = 1..Len(invoices) /\ Len(invoices) \in Nat
        /\ invoices[k] \in Document
        /\ \A j \in DOMAIN invoices : invoices[j].paid \in Nat
    BY Rows DEF Sound, Document
  <1>2. PICK ls \in Seq(DocumentLine), d \in Document, n \in Document, x \in Nat :
            /\ Credits(request, invoices[k], ls)
            /\ CreditedBy(request, invoices[k], d, x) /\ NoteOf(k, ls, n, x)
            /\ invoices' = Append([invoices EXCEPT ![k] = d], n)
            /\ line' = [l \in Lines |-> LineCredited(l, BackOn(ls, l))]
    BY CreditRows
  <1>3. invoices[k].type = "Invoice" /\ payments' = payments
    BY DEF CreditInvoice
  <1>4. /\ d.against = None /\ d.paid = invoices[k].paid + x /\ invoices[k].against = None
        /\ n.against = k /\ n.paid = x /\ n.type = "Credit Note"
    BY <1>2, <1>3 DEF CreditedBy, NoteOf, Made, Sound, DocumentsSound
  <1>5. ASSUME NEW j \in DOMAIN invoices', invoices'[j].type = "Invoice"
        PROVE  invoices'[j].paid = Over(ReceivedFor(j), payments') + Over(SettledFor(j), invoices')
    <2>1. /\ DOMAIN invoices' = 1..(Len(invoices) + 1)
          /\ invoices'[k] = d /\ invoices'[Len(invoices) + 1] = n
          /\ \A m \in DOMAIN invoices \ {k} : invoices'[m] = invoices[m]
          /\ Over(SettledFor(j), invoices') = Over(SettledFor(j), invoices) + SettledFor(j)[d]
                                                - SettledFor(j)[invoices[k]] + SettledFor(j)[n]
          /\ Over(SettledFor(j), invoices) \in Int
      <3>1. SettledFor(j) \in [Document -> Int]
        BY PayingFunctions
      <3>2. Noted(k, d, n)
        BY <1>2 DEF Noted
      <3> QED
        BY <1>1, <3>1, <3>2, NoteAppended
    <2>2. j \in DOMAIN invoices /\ None # j
      <3>1. invoices'[j] # n
        BY <1>4, <1>5
      <3>2. j \in Nat
        BY <1>1, <2>1
      <3> QED
        BY <1>1, <2>1, <3>1, <3>2, OrderAssumption
    <2>3. SettledFor(j)[d] = 0 /\ SettledFor(j)[invoices[k]] = 0
      BY <1>1, <1>4, <2>2 DEF SettledFor
    <2>4. SettledFor(j)[n] = IF j = k THEN x ELSE 0
      BY <1>4 DEF SettledFor
    <2>5. Over(ReceivedFor(j), payments) \in Int
      BY <1>1, PayingFunctions, OverInt DEF Typed
    <2>6. CASE j = k
      <3>1. /\ invoices[k].paid = Over(ReceivedFor(k), payments) + Over(SettledFor(k), invoices)
            /\ invoices'[j].paid = invoices[k].paid + x
        BY <1>3, <1>4, <2>1, <2>6 DEF PaidCounted
      <3>2. Over(SettledFor(j), invoices') = Over(SettledFor(j), invoices) + x
        BY <2>1, <2>3, <2>4, <2>6
      <3> QED
        BY <1>3, <2>1, <2>5, <2>6, <3>1, <3>2
    <2>7. CASE j # k
      <3>1. invoices'[j] = invoices[j]
        BY <2>1, <2>2, <2>7
      <3>2. invoices[j].paid = Over(ReceivedFor(j), payments) + Over(SettledFor(j), invoices)
        BY <1>5, <2>2, <3>1 DEF PaidCounted
      <3>3. Over(SettledFor(j), invoices') = Over(SettledFor(j), invoices)
        BY <2>1, <2>3, <2>4, <2>7
      <3> QED
        BY <1>3, <3>1, <3>2, <3>3
    <2> QED
      BY <2>6, <2>7
  <1> QED
    BY <1>5 DEF PaidCounted

(* The open amount of an invoice is its total less every allocation and credit, *)
(* that of a credit note its total less what it settled; the status says so.    *)
THEOREM OutstandingCorrect == EntrySpec => []OutstandingIsUnsettled
  <1>1. EntryInit => PaymentsLinked /\ PaidCounted
    <2> SUFFICES ASSUME EntryInit PROVE PaymentsLinked /\ PaidCounted
      OBVIOUS
    <2>1. payments = <<>> /\ invoices = <<>>
      BY DEF EntryInit, Init, ImportOrder, NothingDone
    <2> QED
      BY <2>1 DEF PaymentsLinked, PaidCounted
  <1>2. Sound /\ PaymentsLinked /\ PaidCounted /\ [Handlers]_vars
          => (PaymentsLinked /\ PaidCounted)'
    <2> SUFFICES ASSUME Sound, PaymentsLinked, PaidCounted, [Handlers]_vars
                 PROVE  PaymentsLinked' /\ PaidCounted'
      OBVIOUS
    <2>2. ASSUME invoices' = invoices, payments' = payments PROVE PaidCounted'
      BY <2>2 DEF PaidCounted
    <2>3. ASSUME PostOrder \/ UNCHANGED vars PROVE PaidCounted'
      <3>1. invoices' = invoices /\ payments' = payments
        BY <2>3 DEF PostOrder, vars
      <3> QED
        BY <2>2, <3>1
    <2>4. ASSUME NEW request, DeliverLines(request) \/ ReturnLines(request) PROVE PaidCounted'
      BY <2>2, <2>4 DEF DeliverLines, ReturnLines
    <2>5. PaidCounted'
      BY <2>3, <2>4, InvoicePaid, ReceivePaid, CreditPaid DEF Handlers
    <2> QED
      BY <2>5, PaymentsStayLinked
  <1>3. Sound /\ PaidCounted => OutstandingIsUnsettled
    <2> SUFFICES ASSUME Sound, PaidCounted PROVE OutstandingIsUnsettled
      OBVIOUS
    <2>1. /\ Typed /\ payments \in Seq(Payment) /\ invoices \in Seq(Document)
          /\ \A k \in DOMAIN invoices : invoices[k] \in Document
          /\ \A m \in DOMAIN payments : payments[m] \in Payment
      BY Rows DEF Sound, Typed
    <2>2. ASSUME NEW k \in DOMAIN invoices
          PROVE  LET d == invoices[k]
                     received == SumWhere(payments, Always, LAMBDA p :
                         AllocationSum(p, LAMBDA a : a.invoice = k, LAMBDA a : a.invoice_amount))
                     settled == DocumentSum(LAMBDA c : c.against = k, LAMBDA c : c.paid)
                 IN  /\ IsInvoice(d) => d.outstanding = d.total - received - settled
                     /\ d.outstanding >= 0 /\ d.paid = d.total - d.outstanding
                     /\ d.status = CASE d.outstanding = d.total -> "Unpaid"
                                      [] d.outstanding = 0       -> "Paid"
                                      [] OTHER                   -> "Partly Paid"
      <3> DEFINE f(p) == AllocationSum(p, LAMBDA a : a.invoice = k, LAMBDA a : a.invoice_amount)
                 received == SumWhere(payments, Always, f)
                 settled == DocumentSum(LAMBDA c : c.against = k, LAMBDA c : c.paid)
      <3>1. ASSUME NEW m \in DOMAIN payments PROVE ReceivedFor(k)[payments[m]] = f(payments[m])
        <4>1. \A i \in DOMAIN payments[m].allocations : payments[m].allocations[i] \in PaidPart
          BY <2>1 DEF Payment
        <4>2. [i \in DOMAIN payments[m].allocations |-> PartFor(k)[payments[m].allocations[i]]]
                = [i \in DOMAIN payments[m].allocations |->
                      IF payments[m].allocations[i].invoice = k
                      THEN payments[m].allocations[i].invoice_amount ELSE 0]
          BY <4>1 DEF PartFor
        <4>3. Over(PartFor(k), payments[m].allocations) = f(payments[m])
          BY <4>2 DEF Over, AllocationSum, SumWhere
        <4> QED
          BY <2>1, <4>3 DEF ReceivedFor
      <3>2. received = Over(ReceivedFor(k), payments)
        <4>1. [m \in DOMAIN payments |-> ReceivedFor(k)[payments[m]]]
                = [m \in DOMAIN payments |-> IF Always(payments[m]) THEN f(payments[m]) ELSE 0]
          BY <3>1 DEF Always
        <4> HIDE DEF f
        <4> QED
          BY <4>1 DEF Over, SumWhere
      <3>3. settled = Over(SettledFor(k), invoices)
        <4>1. [m \in DOMAIN invoices |-> SettledFor(k)[invoices[m]]]
                = [m \in DOMAIN invoices |->
                     IF invoices[m].against = k THEN invoices[m].paid ELSE 0]
          BY <2>1 DEF SettledFor
        <4> QED
          BY <4>1 DEF Over, DocumentSum, SumWhere
      <3>4. received \in Int /\ settled \in Int
        <4>1. ReceivedFor(k) \in [Payment -> Int] /\ SettledFor(k) \in [Document -> Int]
          BY PayingFunctions
        <4>2. Over(ReceivedFor(k), payments) \in Int
          BY <2>1, <4>1, OverInt
        <4>3. Over(SettledFor(k), invoices) \in Int
          BY <2>1, <4>1, OverInt
        <4> HIDE DEF received, settled
        <4> QED
          BY <3>2, <3>3, <4>2, <4>3
      <3>5. /\ invoices[k].outstanding \in Nat /\ invoices[k].total \in Nat
            /\ invoices[k].paid = invoices[k].total - invoices[k].outstanding
        BY <2>1 DEF Sound, DocumentsSound, Open, Document
      <3>8. invoices[k].status =
                  CASE invoices[k].outstanding = invoices[k].total -> "Unpaid"
                    [] invoices[k].outstanding = 0                 -> "Paid"
                    [] OTHER                                       -> "Partly Paid"
        BY DEF Sound, DocumentsSound, Open
      <3> HIDE DEF received, settled, f
      <3>6. ASSUME IsInvoice(invoices[k])
            PROVE  invoices[k].outstanding = invoices[k].total - received - settled
        <4>1. invoices[k].paid = received + settled
          BY <3>2, <3>3, <3>6 DEF PaidCounted, IsInvoice
        <4> QED
          BY <3>4, <3>5, <4>1
      <3>7. invoices[k].outstanding >= 0
        BY <3>5
      <3> QED
        BY <3>5, <3>6, <3>7, <3>8 DEF received, settled, f
    <2> QED
      BY <2>2 DEF OutstandingIsUnsettled
  <1> QED
    BY <1>1, <1>2, <1>3, SoundAlways, PTL DEF EntrySpec

-----------------------------------------------------------------------------
(* The receivable account against the open documents.                        *)

OpenOf == [d \in Document |-> IF d.type = "Invoice" THEN d.outstanding ELSE 0]
OpenNote == [d \in Document |-> IF d.type = "Invoice" THEN 0 ELSE d.outstanding]
BaseAmount == [a \in PaidPart |-> a.base_amount]
Advance == [p \in Payment |-> p.base - Over(BaseAmount, p.allocations)]
PartCount == [p \in Payment |-> Len(p.allocations)]

Owed == Over(OpenOf, invoices) - Over(OpenNote, invoices)
Receivable == gl.ar + Over(Advance, payments)
Roundings == Len(invoices) + Over(PartCount, payments)

\* The base amount b is worth the amount o but for r roundings.
Worth(b, o, r) ==
    /\ 2 * (Scale * b - Exchange * o) <= Scale * r
    /\ -(Scale * r) <= 2 * (Scale * b - Exchange * o)

ReceivableCounted == Worth(Receivable, Owed, Roundings) /\ party = gl.ar + gl.fx

(* What is worth its amount but for some roundings, added up or taken back. *)
LEMMA WorthAdds ==
  ASSUME NEW b \in Int, NEW o \in Int, NEW r \in Int,
         NEW x \in Int, NEW y \in Int, NEW z \in Int, Worth(b, o, r), Worth(x, y, z)
  PROVE  Worth(b + x, o + y, r + z) /\ Worth(b - x, o - y, r + z)
  <1>1. Scale \in Int /\ Exchange \in Int
    BY OrderAssumption
  <1>2. /\ Scale * (b + x) = Scale * b + Scale * x /\ Scale * (b - x) = Scale * b - Scale * x
        /\ Exchange * (o + y) = Exchange * o + Exchange * y
        /\ Exchange * (o - y) = Exchange * o - Exchange * y
        /\ Scale * (r + z) = Scale * r + Scale * z
    BY <1>1
  <1>3. /\ Scale * b \in Int /\ Scale * x \in Int /\ Exchange * o \in Int /\ Exchange * y \in Int
        /\ Scale * r \in Int /\ Scale * z \in Int
    BY <1>1, Products
  <1>4. \A sb, sx, eo, ey, sr, sz \in Int :
           /\ 2 * (sb - eo) <= sr /\ -sr <= 2 * (sb - eo)
           /\ 2 * (sx - ey) <= sz /\ -sz <= 2 * (sx - ey)
           => /\ 2 * ((sb + sx) - (eo + ey)) <= sr + sz
              /\ -(sr + sz) <= 2 * ((sb + sx) - (eo + ey))
              /\ 2 * ((sb - sx) - (eo - ey)) <= sr + sz
              /\ -(sr + sz) <= 2 * ((sb - sx) - (eo - ey))
    OBVIOUS
  <1> QED
    BY <1>2, <1>3, <1>4 DEF Worth

(* An amount converted to base currency is worth itself but for one rounding. *)
LEMMA BaseWorth == ASSUME NEW x \in Int PROVE Worth(Base(x), x, 1)
  <1>1. Scale \in Nat \ {0} /\ Exchange \in Int
    BY OrderAssumption
  <1>2. x * Exchange \in Int /\ x * Exchange = Exchange * x
    BY <1>1
  <1> DEFINE h == HalfEven(x * Exchange, Scale)
             n == x * Exchange
  <1>3. h \in Int /\ 2 * (n - Scale * h) <= Scale /\ -Scale <= 2 * (n - Scale * h)
    BY <1>1, <1>2, HalfEvenBounds
  <1>4. Scale * h \in Int /\ Scale * 1 = Scale /\ n \in Int /\ n = Exchange * x
    BY <1>1, <1>2, <1>3, Products
  <1>5. Base(x) = h
    BY DEF Base
  <1> HIDE DEF h, n
  <1>6. \A sh, m, s \in Int : 2 * (m - sh) <= s /\ -s <= 2 * (m - sh)
                               => 2 * (sh - m) <= s /\ -s <= 2 * (sh - m)
    OBVIOUS
  <1> QED
    BY <1>1, <1>3, <1>4, <1>5, <1>6 DEF Worth

(* The counting functions are defined on the rows. *)
LEMMA OpenFunctions ==
  /\ OpenOf \in [Document -> Int] /\ OpenNote \in [Document -> Int]
  /\ BaseAmount \in [PaidPart -> Int] /\ Advance \in [Payment -> Int]
  /\ PartCount \in [Payment -> Int]
  <1>1. OpenOf \in [Document -> Int] /\ OpenNote \in [Document -> Int]
    BY DEF OpenOf, OpenNote, Document
  <1>2. BaseAmount \in [PaidPart -> Int]
    BY DEF BaseAmount, PaidPart
  <1>3. ASSUME NEW p \in Payment
        PROVE  p.base - Over(BaseAmount, p.allocations) \in Int /\ Len(p.allocations) \in Int
    <2>1. p.base \in Nat /\ p.allocations \in Seq(PaidPart)
      BY DEF Payment
    <2>2. Over(BaseAmount, p.allocations) \in Int
      BY <1>2, <2>1, OverInt
    <2> QED
      BY <2>1, <2>2
  <1> QED
    BY <1>1, <1>2, <1>3 DEF Advance, PartCount

(* What is summed up is a number. *)
LEMMA ReceivableInt ==
  ASSUME Typed
  PROVE  /\ Owed \in Int /\ Receivable \in Int /\ Roundings \in Int /\ gl.ar \in Int /\ gl.fx \in Int
         /\ Over(OpenOf, invoices) \in Int /\ Over(OpenNote, invoices) \in Int
         /\ Over(Advance, payments) \in Int /\ Over(PartCount, payments) \in Int
         /\ Len(invoices) \in Int /\ party \in Int
  <1>1. /\ invoices \in Seq(Document) /\ payments \in Seq(Payment) /\ party \in Int
        /\ Len(invoices) \in Int
    BY DEF Typed
  <1>2. Over(OpenOf, invoices) \in Int /\ Over(OpenNote, invoices) \in Int
    BY <1>1, OpenFunctions, OverInt
  <1>3. Over(Advance, payments) \in Int /\ Over(PartCount, payments) \in Int
    BY <1>1, OpenFunctions, OverInt
  <1> QED
    BY <1>1, <1>2, <1>3, AccountBalances DEF Owed, Receivable, Roundings

(* An invoice books what it opens. *)
LEMMA InvoiceReceivable ==
  ASSUME Sound, ReceivableCounted, NEW request \in Seq(Draw(Lines)), InvoiceLines(request)
  PROVE  ReceivableCounted'
  <1>1. Typed /\ invoices \in Seq(Document)
    BY DEF Sound, Typed
  <1>2. PICK ls \in Seq(DocumentLine), d \in Document :
           /\ Made(d, "Invoice", None, ls) /\ d.outstanding = d.total
           /\ invoices' = Append(invoices, d)
           /\ gl' = [gl EXCEPT !.ar = @ + BaseTotal(ls), !.sales = @ - BaseNet(ls),
                               !.tax = @ - BaseTax(ls)]
           /\ party' = party + BaseTotal(ls)
    BY <1>1, InvoiceRows
  <1>3. payments' = payments
    BY DEF InvoiceLines
  <1>4. d.type = "Invoice" /\ d.total \in Int /\ BaseTotal(ls) = Base(d.total)
    BY <1>2 DEF Made, Document, BaseTotal
  <1>5. OpenOf[d] = d.total /\ OpenNote[d] = 0
    BY <1>2, <1>4 DEF OpenOf, OpenNote
  <1>6. /\ Over(OpenOf, invoices') = Over(OpenOf, invoices) + d.total
        /\ Over(OpenNote, invoices') = Over(OpenNote, invoices) + 0
    <2>1. ASSUME NEW f \in [Document -> Int] PROVE Over(f, invoices') = Over(f, invoices) + f[d]
      BY <1>1, <1>2, OverAppend
    <2> QED
      BY <1>5, <2>1, OpenFunctions
  <1>7. gl'.ar = gl.ar + Base(d.total) /\ gl'.fx = gl.fx
    BY <1>1, <1>2, <1>4, Vouchers
  <1>8. Len(invoices') = Len(invoices) + 1
    BY <1>1, <1>2
  <1>9. Base(d.total) \in Int
    BY <1>4, BaseValue
  <1>13. /\ Owed \in Int /\ Receivable \in Int /\ Roundings \in Int /\ gl.ar \in Int /\ gl.fx \in Int
         /\ Over(OpenOf, invoices) \in Int /\ Over(OpenNote, invoices) \in Int
         /\ Over(Advance, payments) \in Int /\ Over(PartCount, payments) \in Int
         /\ Len(invoices) \in Int /\ party \in Int
    BY <1>1, ReceivableInt
  <1>10. /\ Receivable' = Receivable + Base(d.total) /\ Owed' = Owed + d.total
         /\ Roundings' = Roundings + 1
    <2>1. Receivable' = gl'.ar + Over(Advance, payments)
      BY <1>3 DEF Receivable
    <2>2. Receivable' = Receivable + Base(d.total)
      BY <1>7, <1>9, <1>13, <2>1 DEF Receivable
    <2>3. Owed' = Owed + d.total
      BY <1>4, <1>6, <1>13 DEF Owed
    <2>4. Roundings' = Roundings + 1
      BY <1>3, <1>8, <1>13 DEF Roundings
    <2> QED
      BY <2>2, <2>3, <2>4
  <1>11. Worth(Receivable + Base(d.total), Owed + d.total, Roundings + 1)
    <2>1. Worth(Receivable, Owed, Roundings) /\ Worth(Base(d.total), d.total, 1) /\ 1 \in Int
      BY <1>4, BaseWorth DEF ReceivableCounted
    <2> QED
      BY <1>4, <1>9, <1>13, <2>1, WorthAdds
  <1>12. party' = gl'.ar + gl'.fx
    <2>1. party = gl.ar + gl.fx
      BY DEF ReceivableCounted
    <2> QED
      BY <1>2, <1>4, <1>7, <1>9, <1>13, <2>1
  <1> QED
    BY <1>10, <1>11, <1>12 DEF ReceivableCounted

(* A credit note takes back what it closes of its invoice or opens itself. *)
LEMMA CreditReceivable ==
  ASSUME Sound, ReceivableCounted, NEW k \in DOMAIN invoices,
         NEW request \in Seq(Ask(DOMAIN invoices[k].lines)), CreditInvoice(k, request)
  PROVE  ReceivableCounted'
  <1>1. Typed /\ invoices \in Seq(Document) /\ invoices[k] \in Document
    BY Rows DEF Sound, Typed
  <1>2. PICK ls \in Seq(DocumentLine), d \in Document, n \in Document, x \in Nat :
            /\ CreditedBy(request, invoices[k], d, x) /\ NoteOf(k, ls, n, x)
            /\ invoices' = Append([invoices EXCEPT ![k] = d], n)
            /\ gl' = [gl EXCEPT !.ar = @ - BaseTotal(ls), !.sales = @ + BaseNet(ls),
                                !.tax = @ + BaseTax(ls)]
            /\ party' = party - BaseTotal(ls)
    BY CreditRows
  <1>3. payments' = payments /\ invoices[k].type = "Invoice"
    BY DEF CreditInvoice
  <1>4. n.type # "Invoice" /\ n.total \in Int /\ BaseTotal(ls) = Base(n.total)
    <2>1. n.type = "Credit Note" /\ n.total = Total(ls, "net") + Total(ls, "tax")
      BY <1>2 DEF NoteOf, Made
    <2>2. n.type # "Invoice"
      BY <2>1
    <2>3. n.total \in Int
      BY DEF Document
    <2> QED
      BY <2>1, <2>2, <2>3 DEF BaseTotal
  <1>5. /\ d.type = "Invoice" /\ d.outstanding = invoices[k].outstanding - x
        /\ n.outstanding = n.total - x
    BY <1>2, <1>3 DEF CreditedBy, NoteOf
  <1>13. invoices[k].outstanding \in Int
    BY <1>1 DEF Document
  <1>6. /\ OpenOf[d] = d.outstanding /\ OpenNote[d] = 0
        /\ OpenOf[n] = 0 /\ OpenNote[n] = n.outstanding
        /\ OpenOf[invoices[k]] = invoices[k].outstanding /\ OpenNote[invoices[k]] = 0
    BY <1>1, <1>3, <1>4, <1>5 DEF OpenOf, OpenNote
  <1>7. /\ Over(OpenOf, invoices')
             = Over(OpenOf, invoices) + OpenOf[d] - OpenOf[invoices[k]] + OpenOf[n]
        /\ Over(OpenNote, invoices')
             = Over(OpenNote, invoices) + OpenNote[d] - OpenNote[invoices[k]] + OpenNote[n]
    <2>1. Noted(k, d, n)
      BY <1>2 DEF Noted
    <2>2. ASSUME NEW f \in [Document -> Int]
          PROVE  Over(f, invoices') = Over(f, invoices) + f[d] - f[invoices[k]] + f[n]
      BY <1>1, <2>1, NoteAppended
    <2> QED
      BY <2>2, OpenFunctions
  <1>8. Len(invoices') = Len(invoices) + 1
    BY <1>1, <1>2
  <1>9. gl'.ar = gl.ar - Base(n.total) /\ gl'.fx = gl.fx /\ Base(n.total) \in Int
    BY <1>1, <1>2, <1>4, Vouchers, BaseValue
  <1>15. /\ Owed \in Int /\ Receivable \in Int /\ Roundings \in Int /\ gl.ar \in Int /\ gl.fx \in Int
         /\ Over(OpenOf, invoices) \in Int /\ Over(OpenNote, invoices) \in Int
         /\ Over(Advance, payments) \in Int /\ Over(PartCount, payments) \in Int
         /\ Len(invoices) \in Int /\ party \in Int
    BY <1>1, ReceivableInt
  <1>10. Owed' = Owed - n.total
    <2>1. /\ Over(OpenOf, invoices')
                = Over(OpenOf, invoices) + (invoices[k].outstanding - x)
                    - invoices[k].outstanding + 0
          /\ Over(OpenNote, invoices') = Over(OpenNote, invoices) + 0 - 0 + (n.total - x)
      BY <1>5, <1>6, <1>7
    <2>2. /\ Owed' = Over(OpenOf, invoices') - Over(OpenNote, invoices')
          /\ Owed = Over(OpenOf, invoices) - Over(OpenNote, invoices)
      BY DEF Owed
    <2>3. \A a, b, o, t, y \in Int :
             (a + (o - y) - o + 0) - (b + 0 - 0 + (t - y)) = (a - b) - t
      OBVIOUS
    <2>4. n.total \in Int /\ x \in Int
      BY <1>4
    <2>5. Owed' = (Over(OpenOf, invoices) + (invoices[k].outstanding - x)
                     - invoices[k].outstanding + 0)
                    - (Over(OpenNote, invoices) + 0 - 0 + (n.total - x))
      BY <2>1, <2>2
    <2>6. /\ Over(OpenOf, invoices) \in Int /\ Over(OpenNote, invoices) \in Int
          /\ invoices[k].outstanding \in Int
      BY <1>13, <1>15
    <2>7. Owed' = (Over(OpenOf, invoices) - Over(OpenNote, invoices)) - n.total
      BY <2>3, <2>4, <2>5, <2>6
    <2> QED
      BY <2>2, <2>7
  <1>14. Receivable' = Receivable - Base(n.total) /\ Roundings' = Roundings + 1
    <2>1. Receivable' = gl'.ar + Over(Advance, payments)
      BY <1>3 DEF Receivable
    <2>2. Receivable' = Receivable - Base(n.total)
      BY <1>9, <1>15, <2>1 DEF Receivable
    <2>3. Roundings' = Roundings + 1
      BY <1>3, <1>8, <1>15 DEF Roundings
    <2> QED
      BY <2>2, <2>3
  <1>11. Worth(Receivable - Base(n.total), Owed - n.total, Roundings + 1)
    <2>1. Worth(Receivable, Owed, Roundings) /\ Worth(Base(n.total), n.total, 1) /\ 1 \in Int
      BY <1>4, BaseWorth DEF ReceivableCounted
    <2> QED
      BY <1>4, <1>9, <1>15, <2>1, WorthAdds
  <1>12. party' = gl'.ar + gl'.fx
    <2>1. party = gl.ar + gl.fx
      BY DEF ReceivableCounted
    <2>2. party' = party - Base(n.total)
      BY <1>2, <1>4
    <2> QED
      BY <1>9, <1>15, <2>1, <2>2
  <1> QED
    BY <1>10, <1>11, <1>12, <1>14 DEF ReceivableCounted
(* The parts of a payment are worth what the invoices' parts were booked at. *)
LEMMA PartsWorth ==
  ASSUME NEW p \in Entry, NEW target \in [DOMAIN p.allocations -> DOMAIN invoices],
         Receive(p, target)
  PROVE  /\ Total(p.allocations, "invoice_amount") \in Int
         /\ Worth(OriginalBase(p), Total(p.allocations, "invoice_amount"), Len(p.allocations))
  <1> DEFINE u == [i \in DOMAIN p.allocations |-> Base(p.allocations[i].invoice_amount)]
             v == [i \in DOMAIN p.allocations |-> p.allocations[i].invoice_amount]
             a == 2 * Scale
             b == 2 * Exchange
  <1>1. /\ DOMAIN p.allocations = 1..Len(p.allocations) /\ Len(p.allocations) \in Nat
        /\ \A i \in DOMAIN p.allocations : p.allocations[i].invoice_amount \in Int
    BY Allocated
  <1>2. u \in Seq(Int) /\ DOMAIN u = DOMAIN p.allocations
    <2>1. u \in [1..Len(p.allocations) -> Int]
      BY <1>1, BaseValue
    <2> QED
      BY <1>1, <2>1, FunctionIsSeq
  <1>3. v \in Seq(Int) /\ DOMAIN v = DOMAIN p.allocations
    <2>1. v \in [1..Len(p.allocations) -> Int]
      BY <1>1
    <2> QED
      BY <1>1, <2>1, FunctionIsSeq
  <1>4. SeqSum(u) = OriginalBase(p)
    BY DEF OriginalBase, SumWhere, Always
  <1>5. SeqSum(v) = Total(p.allocations, "invoice_amount")
    BY DEF Total
  <1>6. \A i \in DOMAIN u : v[i] \in Int /\ u[i] = Base(v[i])
    BY <1>1
  <1>7. Len(u) = Len(p.allocations) /\ Len(v) = Len(p.allocations)
    BY <1>1, <1>2, <1>3
  <1>8. SeqSum(u) \in Int /\ SeqSum(v) \in Int
    BY <1>2, <1>3, SeqSumInt
  <1> HIDE DEF u, v
  <1>9. Scale \in Int /\ Exchange \in Int
    BY OrderAssumption
  <1>10. ASSUME NEW i \in DOMAIN u
         PROVE  a * u[i] <= b * v[i] + Scale /\ b * v[i] <= a * u[i] + Scale
    <2>1. Worth(u[i], v[i], 1) /\ u[i] \in Int /\ v[i] \in Int
      BY <1>6, BaseWorth, BaseValue
    <2>2. /\ 2 * (Scale * u[i] - Exchange * v[i]) <= Scale * 1
          /\ -(Scale * 1) <= 2 * (Scale * u[i] - Exchange * v[i])
      BY <2>1 DEF Worth
    <2>3. /\ a * u[i] = 2 * (Scale * u[i]) /\ b * v[i] = 2 * (Exchange * v[i])
          /\ Scale * 1 = Scale /\ Scale * u[i] \in Int /\ Exchange * v[i] \in Int
      BY <1>9, <2>1
    <2>4. \A su, ev, s \in Int : 2 * (su - ev) <= s /\ -s <= 2 * (su - ev)
             => 2 * su <= 2 * ev + s /\ 2 * ev <= 2 * su + s
      OBVIOUS
    <2> QED
      BY <1>9, <2>2, <2>3, <2>4
  <1>11. a \in Int /\ b \in Int
    BY <1>9
  <1> HIDE DEF a, b
  <1>12. a * SeqSum(u) <= b * SeqSum(v) + Scale * Len(u)
    BY <1>2, <1>3, <1>9, <1>10, <1>11, SeqSumWithin
  <1>13. b * SeqSum(v) <= a * SeqSum(u) + Scale * Len(v)
    BY <1>2, <1>3, <1>9, <1>10, <1>11, SeqSumWithin
  <1>14. Worth(SeqSum(u), SeqSum(v), Len(p.allocations))
    <2> DEFINE n == Len(p.allocations)
               x == SeqSum(u)
               y == SeqSum(v)
    <2>1. a * x <= b * y + Scale * n /\ b * y <= a * x + Scale * n
      BY <1>7, <1>12, <1>13
    <2>2. x \in Int /\ y \in Int /\ n \in Int
      BY <1>1, <1>8
    <2> HIDE DEF n, x, y
    <2>3. a * x = 2 * (Scale * x) /\ b * y = 2 * (Exchange * y)
      BY <1>9, <2>2 DEF a, b
    <2>4. Scale * x \in Int /\ Exchange * y \in Int /\ Scale * n \in Int
      BY <1>9, <2>2
    <2>5. \A sx, ey, sn \in Int : 2 * sx <= 2 * ey + sn /\ 2 * ey <= 2 * sx + sn
             => 2 * (sx - ey) <= sn /\ -sn <= 2 * (sx - ey)
      OBVIOUS
    <2>6. Worth(x, y, n)
      BY <2>1, <2>3, <2>4, <2>5 DEF Worth
    <2> QED
      BY <2>6 DEF n, x, y
  <1> QED
    BY <1>4, <1>5, <1>8, <1>14

(* A payment closes the invoices by what it allocates to them. *)
LEMMA ReceiveOpens ==
  ASSUME Sound, NEW p \in Entry, NEW target \in [DOMAIN p.allocations -> DOMAIN invoices],
         Receive(p, target)
  PROVE  /\ Over(OpenOf, invoices)
              = Over(OpenOf, invoices') + Total(p.allocations, "invoice_amount")
         /\ Over(OpenNote, invoices') = Over(OpenNote, invoices)
         /\ Over(OpenOf, invoices') \in Int
         /\ Len(invoices') = Len(invoices)
  <1> DEFINE parts == Parts(p, target)
             asked == [k \in DOMAIN invoices |-> Asked(parts, k)]
             one == [k \in 1..Len(invoices) |-> 1]
  <1>1. /\ Typed /\ invoices \in Seq(Document)
        /\ DOMAIN invoices = 1..Len(invoices) /\ Len(invoices) \in Nat
        /\ \A k \in DOMAIN invoices : invoices[k] \in Document
    BY Rows DEF Sound, Typed
  <1>2. invoices' \in Seq(Document) /\ DOMAIN invoices' = DOMAIN invoices
    BY ReceiveRows DEF Settles
  <1>3. /\ parts \in Seq(Ask(DOMAIN invoices)) /\ \A k : Asked(parts, k) \in Nat
        /\ \A i \in DOMAIN parts : parts[i].qty \in Nat /\ parts[i].at \in 1..Len(invoices)
    <2>1. parts \in Seq(Ask(DOMAIN invoices)) /\ \A k : Asked(parts, k) \in Nat
      BY PartsAsked
    <2> HIDE DEF parts
    <2> QED
      BY <1>1, <2>1, Requested
  <1>4. ASSUME NEW k \in DOMAIN invoices
        PROVE  /\ OpenOf[invoices[k]] = OpenOf[invoices'[k]] + asked[k]
               /\ OpenNote[invoices'[k]] = OpenNote[invoices[k]]
    <2>1. /\ invoices'[k] \in Document /\ invoices'[k].type = invoices[k].type
          /\ invoices'[k].outstanding = invoices[k].outstanding - asked[k]
          /\ asked[k] > 0 => invoices[k].type = "Invoice"
      BY SettlesAmounts
    <2>2. invoices[k] \in Document /\ asked[k] \in Nat
      BY <1>1, <1>3
    <2> HIDE DEF asked
    <2>3. invoices[k].outstanding \in Int
      BY <2>2 DEF Document
    <2>4. CASE invoices[k].type = "Invoice"
      BY <2>1, <2>2, <2>3, <2>4 DEF OpenOf, OpenNote
    <2>5. CASE invoices[k].type # "Invoice"
      <3>1. asked[k] = 0
        BY <2>1, <2>2, <2>5
      <3> QED
        BY <2>1, <2>2, <2>3, <2>5, <3>1 DEF OpenOf, OpenNote
    <2> QED
      BY <2>4, <2>5
  <1>5. \A k \in DOMAIN invoices' : asked[k] \in Int
    BY <1>2, <1>3
  <1>6. SeqSum([k \in DOMAIN invoices' |-> asked[k]]) = Total(p.allocations, "invoice_amount")
    <2>1. one \in [1..Len(invoices) -> Int]
      OBVIOUS
    <2>2. SeqSum([k \in 1..Len(invoices) |-> one[k] * Asked(parts, k)])
            = SeqSum([i \in DOMAIN parts |-> one[parts[i].at] * parts[i].qty])
      <3> HIDE DEF parts, one
      <3> QED
        BY <1>1, <1>3, <2>1, AskedGroup
    <2>3. [k \in 1..Len(invoices) |-> one[k] * Asked(parts, k)]
            = [k \in DOMAIN invoices' |-> asked[k]]
      <3> HIDE DEF parts
      <3>1. \A k \in DOMAIN invoices : one[k] * Asked(parts, k) = Asked(parts, k)
        BY <1>1, <1>3
      <3> QED
        BY <1>1, <1>2, <3>1
    <2>4. [i \in DOMAIN parts |-> one[parts[i].at] * parts[i].qty]
            = [i \in DOMAIN p.allocations |-> p.allocations[i].invoice_amount]
      <3>1. \A i \in DOMAIN parts : one[parts[i].at] * parts[i].qty = parts[i].qty
        BY <1>3
      <3>2. DOMAIN parts = DOMAIN p.allocations
        BY DEF Parts
      <3>3. \A i \in DOMAIN parts : parts[i].qty = p.allocations[i].invoice_amount
        BY DEF Parts
      <3> HIDE DEF parts, one
      <3> QED
        BY <3>1, <3>2, <3>3
    <2> QED
      BY <2>2, <2>3, <2>4 DEF Total
  <1> HIDE DEF asked
  <1>7. Shifted(Document, OpenOf, invoices', invoices, asked)
    BY <1>1, <1>2, <1>4, <1>5, OpenFunctions DEF Shifted
  <1>8. Over(OpenOf, invoices)
          = Over(OpenOf, invoices') + SeqSum([k \in DOMAIN invoices' |-> asked[k]])
    BY <1>7, OverAdd
  <1>9. Alike(OpenNote, invoices', OpenNote, invoices)
    BY <1>2, <1>4 DEF Alike
  <1>10. Over(OpenNote, invoices') = Over(OpenNote, invoices)
    BY <1>9, OverEqual
  <1>11. Over(OpenOf, invoices') \in Int
    BY <1>2, OpenFunctions, OverInt
  <1>12. Len(invoices') = Len(invoices)
    BY <1>1, <1>2
  <1> QED
    BY <1>6, <1>8, <1>10, <1>11, <1>12

(* A payment is credited with what its parts were booked at and its advance. *)
LEMMA ReceiveReceivable ==
  ASSUME Sound, ReceivableCounted, NEW p \in Entry,
         NEW target \in [DOMAIN p.allocations -> DOMAIN invoices], Receive(p, target)
  PROVE  ReceivableCounted'
  <1> DEFINE ob == OriginalBase(p)
             pb == PaymentBase(p)
             t == Total(p.allocations, "base_amount")
             am == Total(p.allocations, "invoice_amount")
             n == Len(p.allocations)
  <1>1. Typed /\ payments \in Seq(Payment)
    BY DEF Sound, Typed
  <1>2. PICK pay \in Payment : PaidParts(p, target, pay) /\ payments' = Append(payments, pay)
    BY ReceiveRows
  <1>3. ob \in Int /\ pb \in Int /\ t \in Int /\ n \in Int
    BY Allocated
  <1>4. am \in Int /\ Worth(ob, am, n)
    BY PartsWorth
  <1>5. /\ DOMAIN pay.allocations = DOMAIN p.allocations
        /\ pay.allocations \in Seq(PaidPart) /\ pay.base = pb
        /\ \A i \in DOMAIN p.allocations :
              pay.allocations[i].base_amount = p.allocations[i].base_amount
    BY <1>2, Allocated DEF PaidParts, Payment
  <1>6. Len(pay.allocations) = n
    <2>1. n \in Nat /\ DOMAIN pay.allocations = 1..n
      BY <1>5, Allocated
    <2> QED
      BY <1>5, <2>1
  <1>7. Over(BaseAmount, pay.allocations) = t
    <2>1. \A i \in DOMAIN pay.allocations : pay.allocations[i] \in PaidPart
      BY <1>5
    <2>2. [i \in DOMAIN pay.allocations |-> BaseAmount[pay.allocations[i]]]
            = [i \in DOMAIN p.allocations |-> p.allocations[i]["base_amount"]]
      BY <1>5, <2>1 DEF BaseAmount
    <2> QED
      BY <2>2 DEF Over, Total
  <1>8. Advance[pay] = pb - t /\ PartCount[pay] = n
    BY <1>5, <1>6, <1>7 DEF Advance, PartCount
  <1>9. ASSUME NEW f \in [Payment -> Int] PROVE Over(f, payments') = Over(f, payments) + f[pay]
    BY <1>1, <1>2, OverAppend
  <1>10. /\ Over(Advance, payments') = Over(Advance, payments) + (pb - t)
         /\ Over(PartCount, payments') = Over(PartCount, payments) + n
    BY <1>8, <1>9, OpenFunctions
  <1>11. gl'.ar = gl.ar - (ob + (pb - t)) /\ gl'.fx = gl.fx - (t - ob)
    <2>1. gl' = [gl EXCEPT !.bank = @ + PaymentBase(p), !.ar = @ - ArCredit(p),
                           !.fx = @ - GainLoss(p)]
      BY DEF Receive
    <2>2. gl'.ar = gl.ar - ArCredit(p) /\ gl'.fx = gl.fx - GainLoss(p)
      BY <1>1, <2>1, Vouchers
    <2> QED
      BY <2>2 DEF ArCredit, GainLoss
  <1>12. party' = party - pb
    BY DEF Receive
  <1>13. /\ Over(OpenOf, invoices) = Over(OpenOf, invoices') + am
         /\ Over(OpenNote, invoices') = Over(OpenNote, invoices)
         /\ Over(OpenOf, invoices') \in Int
         /\ Len(invoices') = Len(invoices)
    BY ReceiveOpens
  <1> HIDE DEF ob, pb, t, am, n
  <1>14. /\ Owed \in Int /\ Receivable \in Int /\ Roundings \in Int /\ gl.ar \in Int /\ gl.fx \in Int
         /\ Over(OpenOf, invoices) \in Int /\ Over(OpenNote, invoices) \in Int
         /\ Over(Advance, payments) \in Int /\ Over(PartCount, payments) \in Int
         /\ Len(invoices) \in Int /\ party \in Int
    BY <1>1, ReceivableInt
  <1>15. Receivable' = Receivable - ob
    <2>1. Receivable' = gl'.ar + Over(Advance, payments')
      BY DEF Receivable
    <2>2. Receivable' = (gl.ar - (ob + (pb - t))) + (Over(Advance, payments) + (pb - t))
      BY <1>10, <1>11, <2>1
    <2>3. \A x, y, o, q, r \in Int : (x - (o + (q - r))) + (y + (q - r)) = (x + y) - o
      OBVIOUS
    <2> QED
      BY <1>3, <1>14, <2>2, <2>3 DEF Receivable
  <1>16. Owed' = Owed - am
    <2>1. Owed' = Over(OpenOf, invoices') - Over(OpenNote, invoices')
      BY DEF Owed
    <2>2. Owed' = Over(OpenOf, invoices') - Over(OpenNote, invoices)
      BY <1>13, <2>1
    <2>3. Owed = (Over(OpenOf, invoices') + am) - Over(OpenNote, invoices)
      BY <1>13 DEF Owed
    <2>4. \A x, y, z \in Int : x - z = ((x + y) - z) - y
      OBVIOUS
    <2> QED
      BY <1>4, <1>13, <1>14, <2>2, <2>3, <2>4
  <1>17. Roundings' = Roundings + n
    BY <1>3, <1>10, <1>13, <1>14 DEF Roundings
  <1>18. Worth(Receivable - ob, Owed - am, Roundings + n)
    <2>1. Worth(Receivable, Owed, Roundings)
      BY DEF ReceivableCounted
    <2> QED
      BY <1>3, <1>4, <1>14, <2>1, WorthAdds
  <1>19. party' = gl'.ar + gl'.fx
    <2>1. party = gl.ar + gl.fx
      BY DEF ReceivableCounted
    <2>2. \A x, y, o, q, r \in Int :
             (x + y) - q = (x - (o + (q - r))) + (y - (r - o))
      OBVIOUS
    <2> QED
      BY <1>3, <1>11, <1>12, <1>14, <2>1, <2>2
  <1> QED
    BY <1>15, <1>16, <1>17, <1>18, <1>19 DEF ReceivableCounted

(* The receivable account is worth the open documents and the advances but for *)
(* the roundings; the party ledger adds the exchange gains and losses.         *)
THEOREM ReceivableCorrect == EntrySpec => []ReceivableIsOutstanding
  <1>1. EntryInit => ReceivableCounted
    <2> SUFFICES ASSUME EntryInit PROVE ReceivableCounted
      OBVIOUS
    <2>1. NothingDone
      BY DEF EntryInit, Init, ImportOrder
    <2>2. gl.ar = 0 /\ gl.fx = 0 /\ party = 0 /\ invoices = <<>> /\ payments = <<>>
      BY <2>1 DEF NothingDone, Accounts
    <2>3. Receivable = 0 /\ Owed = 0 /\ Roundings = 0
      BY <2>2, OverEmpty DEF Receivable, Owed, Roundings
    <2>4. Scale \in Int /\ Exchange \in Int
      BY OrderAssumption
    <2>5. Scale * 0 = 0 /\ Exchange * 0 = 0
      BY <2>4
    <2>6. Worth(0, 0, 0)
      BY <2>5 DEF Worth
    <2> QED
      BY <2>2, <2>3, <2>6 DEF ReceivableCounted
  <1>2. Sound /\ ReceivableCounted /\ [Handlers]_vars => ReceivableCounted'
    <2> SUFFICES ASSUME Sound, ReceivableCounted, [Handlers]_vars PROVE ReceivableCounted'
      OBVIOUS
    <2>2. ASSUME invoices' = invoices, payments' = payments, gl'.ar = gl.ar, gl'.fx = gl.fx,
                 party' = party
          PROVE  ReceivableCounted'
      BY <2>2 DEF ReceivableCounted, Worth, Receivable, Owed, Roundings
    <2>3. ASSUME PostOrder \/ UNCHANGED vars PROVE ReceivableCounted'
      BY <2>2, <2>3 DEF PostOrder, vars
    <2>4. ASSUME NEW request, DeliverLines(request) PROVE ReceivableCounted'
      <3>1. PICK x : gl' = [gl EXCEPT !.cogs = @ + x, !.inventory = @ - x]
        BY <2>4 DEF DeliverLines
      <3>2. gl'.ar = gl.ar /\ gl'.fx = gl.fx
        BY <3>1, Vouchers DEF Sound
      <3> QED
        BY <2>2, <2>4, <3>2 DEF DeliverLines
    <2>5. ASSUME NEW request, ReturnLines(request) PROVE ReceivableCounted'
      <3>1. gl' = [gl EXCEPT !.inventory = @ + ReturnValue(request),
                             !.cogs = @ - ReturnValue(request)]
        BY <2>5 DEF ReturnLines
      <3>2. gl'.ar = gl.ar /\ gl'.fx = gl.fx
        BY <3>1, Vouchers DEF Sound
      <3> QED
        BY <2>2, <2>5, <3>2 DEF ReturnLines
    <2> QED
      BY <2>3, <2>4, <2>5, InvoiceReceivable, ReceiveReceivable, CreditReceivable
         DEF Handlers
  <1>3. Sound /\ ReceivableCounted => ReceivableIsOutstanding
    <2> SUFFICES ASSUME Sound, ReceivableCounted PROVE ReceivableIsOutstanding
      OBVIOUS
    <2>1. /\ \A k \in DOMAIN invoices : invoices[k] \in Document
          /\ \A m \in DOMAIN payments : payments[m] \in Payment
      BY Rows DEF Sound
    <2> DEFINE f(p) == p.base - Total(p.allocations, "base_amount")
               g(p) == Len(p.allocations)
               advance == SumWhere(payments, Always, f)
               counts == SumWhere(payments, Always, g)
    <2>2. ASSUME NEW m \in DOMAIN payments PROVE Advance[payments[m]] = f(payments[m])
      <3>1. \A i \in DOMAIN payments[m].allocations : payments[m].allocations[i] \in PaidPart
        BY <2>1 DEF Payment
      <3>2. [i \in DOMAIN payments[m].allocations |-> BaseAmount[payments[m].allocations[i]]]
              = [i \in DOMAIN payments[m].allocations |->
                    payments[m].allocations[i]["base_amount"]]
        BY <3>1 DEF BaseAmount
      <3>3. Over(BaseAmount, payments[m].allocations)
              = Total(payments[m].allocations, "base_amount")
        BY <3>2 DEF Over, Total
      <3> QED
        BY <2>1, <3>3 DEF Advance
    <2>3. advance = Over(Advance, payments)
      <3>1. [m \in DOMAIN payments |-> Advance[payments[m]]]
              = [m \in DOMAIN payments |-> IF Always(payments[m]) THEN f(payments[m]) ELSE 0]
        BY <2>2 DEF Always
      <3> HIDE DEF f
      <3> QED
        BY <3>1 DEF Over, SumWhere
    <2>4. counts = Over(PartCount, payments)
      <3>1. [m \in DOMAIN payments |-> PartCount[payments[m]]]
              = [m \in DOMAIN payments |-> IF Always(payments[m]) THEN g(payments[m]) ELSE 0]
        BY <2>1 DEF Always, PartCount
      <3> HIDE DEF g
      <3> QED
        BY <3>1 DEF Over, SumWhere
    <2>5. DocumentSum(IsInvoice, LAMBDA d : d.outstanding) = Over(OpenOf, invoices)
      <3>1. [k \in DOMAIN invoices |-> OpenOf[invoices[k]]]
              = [k \in DOMAIN invoices |->
                   IF IsInvoice(invoices[k]) THEN invoices[k].outstanding ELSE 0]
        BY <2>1 DEF OpenOf, IsInvoice
      <3> QED
        BY <3>1 DEF Over, DocumentSum, SumWhere
    <2>6. DocumentSum(LAMBDA d : ~IsInvoice(d), LAMBDA d : d.outstanding)
            = Over(OpenNote, invoices)
      <3>1. [k \in DOMAIN invoices |-> OpenNote[invoices[k]]]
              = [k \in DOMAIN invoices |->
                   IF ~IsInvoice(invoices[k]) THEN invoices[k].outstanding ELSE 0]
        BY <2>1 DEF OpenNote, IsInvoice
      <3> QED
        BY <3>1 DEF Over, DocumentSum, SumWhere
    <2>7. /\ 2 * (Scale * (gl.ar + advance) - Exchange * Owed) <= Scale * (Len(invoices) + counts)
          /\ -(Scale * (Len(invoices) + counts))
                <= 2 * (Scale * (gl.ar + advance) - Exchange * Owed)
          /\ party = gl.ar + gl.fx
      BY <2>3, <2>4 DEF ReceivableCounted, Worth, Receivable, Roundings
    <2> HIDE DEF f, g
    <2> QED
      BY <2>5, <2>6, <2>7 DEF ReceivableIsOutstanding, Owed, f, g
  <1> QED
    BY <1>1, <1>2, <1>3, SoundAlways, PTL DEF EntrySpec
-----------------------------------------------------------------------------
(* What the credit notes of an invoice take back.                            *)

ValueOf == [x \in DocumentLine |-> x.net + x.tax]
UnitOf(x) == HalfEven(x.net, x.qty) + HalfEven(x.tax, x.qty)
UnitValue == [x \in DocumentLine |-> UnitOf(x) * x.credited]
CreditedUnits == [x \in DocumentLine |-> x.credited]
CreditedTo(k) == [d \in Document |-> IF d.against = k THEN d.total ELSE 0]

\* A document charges its lines at their rate.
Charging(d) ==
    /\ d.total = Over(ValueOf, d.lines)
    /\ \A j \in DOMAIN d.lines : d.lines[j].net = d.lines[j].qty * Rate[d.lines[j].line]

CreditsCounted ==
    \A k \in DOMAIN invoices :
        invoices[k].type = "Invoice" =>
            /\ Charging(invoices[k])
            /\ Over(CreditedTo(k), invoices) = Over(UnitValue, invoices[k].lines)

(* The amounts of a document line. *)
LEMMA LineAmounts ==
  \A x \in DocumentLine : /\ x.net \in Nat /\ x.tax \in Nat /\ x.qty \in Nat \ {0}
                          /\ x.net \in Int /\ x.tax \in Int /\ x.credited \in Int
                          /\ x.credited \in Nat
  BY DEF DocumentLine

(* The counting functions are defined on the rows. *)
LEMMA CreditFunctions ==
  /\ ValueOf \in [DocumentLine -> Int] /\ UnitValue \in [DocumentLine -> Int]
  /\ CreditedUnits \in [DocumentLine -> Int]
  /\ \A x \in DocumentLine : UnitOf(x) \in Int
  /\ \A k : CreditedTo(k) \in [Document -> Int]
  <1>1. \A x \in DocumentLine : /\ x.net \in Int /\ x.tax \in Int /\ x.qty \in Nat \ {0}
                                /\ x.credited \in Int
    BY LineAmounts
  <1>2. \A x \in DocumentLine : UnitOf(x) \in Int
    <2>1. \A n \in Int : \A d \in Nat \ {0} : HalfEven(n, d) \in Int
      BY HalfEvenBounds
    <2> QED
      BY <1>1, <2>1 DEF UnitOf
  <1>3. \A d \in Document : d.total \in Int
    BY DEF Document
  <1>4. UnitValue \in [DocumentLine -> Int]
    BY <1>1, <1>2, Products DEF UnitValue
  <1> QED
    BY <1>1, <1>2, <1>3, <1>4 DEF ValueOf, CreditedUnits, CreditedTo

(* The totals of document lines are the sum of their values. *)
LEMMA TotalIsValue ==
  ASSUME NEW ls \in Seq(DocumentLine)
  PROVE  Total(ls, "net") + Total(ls, "tax") = Over(ValueOf, ls)
  <1> DEFINE u == [i \in DOMAIN ls |-> ls[i]["net"]]
             v == [i \in DOMAIN ls |-> ls[i]["tax"]]
             w == [i \in DOMAIN ls |-> ValueOf[ls[i]]]
  <1>1. /\ DOMAIN ls = 1..Len(ls) /\ Len(ls) \in Nat
        /\ \A i \in DOMAIN ls : ls[i] \in DocumentLine
    OBVIOUS
  <1>2. \A i \in DOMAIN ls : ls[i].net \in Int /\ ls[i].tax \in Int
    BY <1>1 DEF DocumentLine
  <1>3. u \in Seq(Int) /\ DOMAIN u = DOMAIN ls
    <2>1. u \in [1..Len(ls) -> Int]
      BY <1>1, <1>2
    <2> QED
      BY <1>1, <2>1, FunctionIsSeq
  <1>4. v \in Seq(Int) /\ DOMAIN v = DOMAIN ls
    <2>1. v \in [1..Len(ls) -> Int]
      BY <1>1, <1>2
    <2> QED
      BY <1>1, <2>1, FunctionIsSeq
  <1>5. w \in Seq(Int) /\ DOMAIN w = DOMAIN ls
    BY CreditFunctions, OverValues
  <1>6. \A i \in DOMAIN w : w[i] = u[i] + v[i]
    BY <1>1 DEF ValueOf
  <1> HIDE DEF u, v, w
  <1>7. SeqSum(w) = SeqSum(u) + SeqSum(v)
    BY <1>3, <1>4, <1>5, <1>6, SeqSumPlus
  <1> QED
    BY <1>7 DEF Total, Over, u, v, w

(* A credit note takes back the unit values of what it credits. *)
LEMMA NoteValue ==
  ASSUME NEW old \in Document, NEW request \in Seq(Ask(DOMAIN old.lines)),
         NEW d \in Document, SameButCredited(request, old, d),
         NEW ls \in Seq(DocumentLine), Credits(request, old, ls)
  PROVE  /\ Over(UnitValue, d.lines) = Over(UnitValue, old.lines) + Over(ValueOf, ls)
         /\ Over(ValueOf, d.lines) = Over(ValueOf, old.lines)
  <1> DEFINE n == Len(old.lines)
             c == [j \in 1..n |-> UnitOf(old.lines[j])]
             delta == [j \in 1..n |-> c[j] * Asked(request, j)]
  <1>1. /\ old.lines \in Seq(DocumentLine) /\ d.lines \in Seq(DocumentLine)
        /\ DOMAIN old.lines = 1..n /\ n \in Nat /\ DOMAIN d.lines = DOMAIN old.lines
        /\ \A j \in DOMAIN old.lines : /\ old.lines[j] \in DocumentLine
                                       /\ d.lines[j] \in DocumentLine
    BY DEF Document, SameButCredited
  <1>2. c \in [1..n -> Int]
    BY <1>1, CreditFunctions
  <1>3. /\ \A j : Asked(request, j) \in Nat
        /\ \A i \in DOMAIN request : request[i].qty \in Nat /\ request[i].at \in 1..n
    BY <1>1, Requested
  <1>4. \A j \in 1..n : delta[j] \in Int
    <2> HIDE DEF c, n
    <2>1. \A j \in 1..n : c[j] \in Int /\ Asked(request, j) \in Int
      BY <1>2, <1>3
    <2> QED
      BY <2>1, Products
  <1>5. \A j \in DOMAIN old.lines : UnitValue[d.lines[j]] = UnitValue[old.lines[j]] + delta[j]
    <2> SUFFICES ASSUME NEW j \in DOMAIN old.lines
                 PROVE  UnitValue[d.lines[j]] = UnitValue[old.lines[j]] + delta[j]
      OBVIOUS
    <2> DEFINE a == Asked(request, j)
               u == UnitOf(old.lines[j])
    <2>1. /\ d.lines[j].qty = old.lines[j].qty /\ d.lines[j].net = old.lines[j].net
          /\ d.lines[j].tax = old.lines[j].tax
          /\ d.lines[j].credited = old.lines[j].credited + a
      BY <1>1 DEF SameButCredited
    <2>2. UnitOf(d.lines[j]) = u
      BY <2>1 DEF UnitOf
    <2>3. /\ UnitValue[d.lines[j]] = u * (old.lines[j].credited + a)
          /\ UnitValue[old.lines[j]] = u * old.lines[j].credited
      BY <1>1, <2>1, <2>2 DEF UnitValue
    <2>4. u \in Int /\ a \in Int /\ old.lines[j].credited \in Int
      <3>1. old.lines[j] \in DocumentLine
        BY <1>1
      <3>2. u \in Int /\ old.lines[j].credited \in Int
        BY <3>1, CreditFunctions, LineAmounts
      <3> QED
        BY <1>3, <3>2
    <2>5. delta[j] = u * a
      BY <1>1
    <2> HIDE DEF u, a, delta
    <2>6. \A x, y, z \in Int : x * (y + z) = x * y + x * z
      OBVIOUS
    <2> QED
      BY <2>3, <2>4, <2>5, <2>6
  <1>6. SeqSum([j \in DOMAIN old.lines |-> delta[j]]) = Over(ValueOf, ls)
    <2>1. SeqSum([j \in 1..n |-> c[j] * Asked(request, j)])
            = SeqSum([i \in DOMAIN request |-> c[request[i].at] * request[i].qty])
      <3> HIDE DEF c, n
      <3> QED
        BY <1>1, <1>2, <1>3, AskedGroup
    <2>2. [j \in DOMAIN old.lines |-> delta[j]] = [j \in 1..n |-> c[j] * Asked(request, j)]
      BY <1>1
    <2>3. ASSUME NEW i \in DOMAIN request
          PROVE  c[request[i].at] * request[i].qty = ValueOf[ls[i]]
      <3> DEFINE x == old.lines[request[i].at]
                 hn == HalfEven(x.net, x.qty)
                 ht == HalfEven(x.tax, x.qty)
                 q == request[i].qty
      <3>1. i \in DOMAIN ls /\ ls[i].net = hn * q /\ ls[i].tax = ht * q
        BY DEF Credits
      <3>2. ValueOf[ls[i]] = hn * q + ht * q
        BY <3>1 DEF ValueOf
      <3>3. c[request[i].at] = hn + ht
        BY <1>3 DEF UnitOf
      <3>4. x \in DocumentLine /\ q \in Int
        BY <1>1, <1>3
      <3>5. hn \in Int /\ ht \in Int
        <4>1. x.net \in Int /\ x.tax \in Int /\ x.qty \in Nat \ {0}
          BY <3>4, LineAmounts
        <4> HIDE DEF x
        <4> QED
          BY <4>1, HalfEvenBounds
      <3> HIDE DEF x, hn, ht, q, c
      <3>6. (hn + ht) * q = hn * q + ht * q
        BY <3>4, <3>5
      <3>7. c[request[i].at] * q = ValueOf[ls[i]]
        BY <3>2, <3>3, <3>6
      <3> QED
        BY <3>7 DEF q
    <2>4. [i \in DOMAIN request |-> c[request[i].at] * request[i].qty]
            = [i \in DOMAIN ls |-> ValueOf[ls[i]]]
      <3>1. DOMAIN ls = DOMAIN request
        BY DEF Credits
      <3> HIDE DEF c
      <3> QED
        BY <2>3, <3>1
    <2> QED
      BY <2>1, <2>2, <2>4 DEF Over
  <1> HIDE DEF delta
  <1>7. Shifted(DocumentLine, UnitValue, old.lines, d.lines, delta)
    BY <1>1, <1>4, <1>5, CreditFunctions DEF Shifted
  <1>8. Over(UnitValue, d.lines) = Over(UnitValue, old.lines) + Over(ValueOf, ls)
    BY <1>6, <1>7, OverAdd
  <1>9. \A j \in DOMAIN d.lines : ValueOf[d.lines[j]] = ValueOf[old.lines[j]]
    BY <1>1 DEF ValueOf, SameButCredited
  <1>10. Alike(ValueOf, d.lines, ValueOf, old.lines)
    BY <1>1, <1>9 DEF Alike
  <1>11. Over(ValueOf, d.lines) = Over(ValueOf, old.lines)
    BY <1>10, OverEqual
  <1> QED
    BY <1>8, <1>11

(* Nothing was credited to a document that is not there yet. *)
LEMMA NothingCreditedAhead ==
  ASSUME Sound, NEW k \in Nat, k \notin DOMAIN invoices
  PROVE  Over(CreditedTo(k), invoices) = 0
  <1>1. /\ invoices \in Seq(Document) /\ DOMAIN invoices = 1..Len(invoices) /\ Len(invoices) \in Nat
        /\ \A m \in DOMAIN invoices : invoices[m] \in Document
    BY Rows DEF Sound, Typed
  <1>2. ASSUME NEW m \in DOMAIN invoices PROVE CreditedTo(k)[invoices[m]] = 0
    <2>1. invoices[m].against = None \/ invoices[m].against \in 1..(m - 1)
      BY DEF Sound, DocumentsSound
    <2>2. None # k
      BY OrderAssumption
    <2>3. 1..(m - 1) \subseteq DOMAIN invoices
      BY <1>1
    <2>4. invoices[m].against # k
      BY <2>1, <2>2, <2>3
    <2> QED
      BY <1>1, <2>4 DEF CreditedTo
  <1> QED
    BY <1>1, <1>2, CreditFunctions, OverZero

(* An invoice charges its lines and has nothing credited. *)
LEMMA InvoiceCharges ==
  ASSUME Sound, CreditsCounted, NEW request \in Seq(Draw(Lines)), InvoiceLines(request)
  PROVE  CreditsCounted'
  <1>1. /\ Typed /\ invoices \in Seq(Document)
        /\ DOMAIN invoices = 1..Len(invoices) /\ Len(invoices) \in Nat
    BY Rows DEF Sound, Typed
  <1>2. PICK ls \in Seq(DocumentLine), d \in Document :
           /\ Billing(request, ls) /\ Made(d, "Invoice", None, ls)
           /\ invoices' = Append(invoices, d)
    BY <1>1, InvoiceRows
  <1>3. d.against = None /\ d.lines = ls /\ d.total = Over(ValueOf, ls)
    BY <1>2, TotalIsValue DEF Made
  <1>4. Charging(d)
    <2>1. \A j \in DOMAIN ls : ls[j].net = ls[j].qty * Rate[ls[j].line]
      BY <1>2 DEF Billing
    <2> QED
      BY <1>3, <2>1 DEF Charging
  <1>5. Over(UnitValue, d.lines) = 0
    <2>1. \A j \in DOMAIN ls : ls[j].credited = 0 /\ ls[j] \in DocumentLine
      BY <1>2 DEF Billing
    <2>2. \A x \in Int : x * 0 = 0
      OBVIOUS
    <2>3. \A j \in DOMAIN ls : UnitValue[ls[j]] = 0
      BY <2>1, <2>2, CreditFunctions DEF UnitValue
    <2> QED
      BY <1>3, <2>3, CreditFunctions, OverZero
  <1>6. ASSUME NEW k \in Nat PROVE Over(CreditedTo(k), invoices') = Over(CreditedTo(k), invoices)
    <2>1. CreditedTo(k)[d] = 0
      BY <1>3, OrderAssumption DEF CreditedTo
    <2>2. CreditedTo(k) \in [Document -> Int]
      BY CreditFunctions
    <2>3. Over(CreditedTo(k), invoices') = Over(CreditedTo(k), invoices) + CreditedTo(k)[d]
      BY <1>1, <1>2, <2>2, OverAppend
    <2>4. Over(CreditedTo(k), invoices) \in Int
      BY <1>1, <2>2, OverInt
    <2> QED
      BY <2>1, <2>3, <2>4
  <1>7. ASSUME NEW k \in DOMAIN invoices', invoices'[k].type = "Invoice"
        PROVE  /\ Charging(invoices'[k])
               /\ Over(CreditedTo(k), invoices') = Over(UnitValue, invoices'[k].lines)
    <2>1. k \in Nat
      BY <1>1, <1>2
    <2>2. CASE k \in DOMAIN invoices
      <3>1. invoices'[k] = invoices[k]
        BY <1>1, <1>2, <2>2
      <3> QED
        BY <1>6, <1>7, <2>1, <2>2, <3>1 DEF CreditsCounted
    <2>3. CASE k \notin DOMAIN invoices
      <3>1. invoices'[k] = d
        BY <1>1, <1>2, <2>3
      <3>2. Over(CreditedTo(k), invoices) = 0
        BY <2>1, <2>3, NothingCreditedAhead
      <3> QED
        BY <1>4, <1>5, <1>6, <2>1, <3>1, <3>2
    <2> QED
      BY <2>2, <2>3
  <1>8. \A k \in DOMAIN invoices' : invoices'[k].type = "Invoice" =>
            /\ Charging(invoices'[k])
            /\ Over(CreditedTo(k), invoices') = Over(UnitValue, invoices'[k].lines)
    BY <1>7
  <1> QED
    BY <1>8 DEF CreditsCounted, Charging, CreditedTo

(* A payment changes neither what is charged nor what is credited. *)
LEMMA ReceiveCharges ==
  ASSUME Sound, CreditsCounted, NEW p \in Entry,
         NEW target \in [DOMAIN p.allocations -> DOMAIN invoices], Receive(p, target)
  PROVE  CreditsCounted'
  <1>1. \A k \in DOMAIN invoices : invoices[k] \in Document
    BY Rows DEF Sound
  <1>2. DOMAIN invoices' = DOMAIN invoices
    BY ReceiveRows DEF Settles
  <1>3. \A k \in DOMAIN invoices :
           /\ invoices'[k] \in Document /\ invoices'[k].type = invoices[k].type
           /\ invoices'[k].against = invoices[k].against
           /\ invoices'[k].total = invoices[k].total /\ invoices'[k].lines = invoices[k].lines
    BY SettlesAmounts
  <1>4. ASSUME NEW k PROVE Over(CreditedTo(k), invoices') = Over(CreditedTo(k), invoices)
    <2>1. \A m \in DOMAIN invoices : CreditedTo(k)[invoices'[m]] = CreditedTo(k)[invoices[m]]
      BY <1>1, <1>3 DEF CreditedTo
    <2>2. Alike(CreditedTo(k), invoices', CreditedTo(k), invoices)
      BY <1>2, <2>1 DEF Alike
    <2> QED
      BY <2>2, OverEqual
  <1>5. ASSUME NEW k \in DOMAIN invoices', invoices'[k].type = "Invoice"
        PROVE  /\ Charging(invoices'[k])
               /\ Over(CreditedTo(k), invoices') = Over(UnitValue, invoices'[k].lines)
    <2>1. k \in DOMAIN invoices /\ invoices[k].type = "Invoice"
      BY <1>2, <1>3, <1>5
    <2>2. Charging(invoices[k]) /\ Over(CreditedTo(k), invoices) = Over(UnitValue, invoices[k].lines)
      BY <2>1 DEF CreditsCounted
    <2> QED
      BY <1>3, <1>4, <2>1, <2>2 DEF Charging
  <1>6. \A k \in DOMAIN invoices' : invoices'[k].type = "Invoice" =>
            /\ Charging(invoices'[k])
            /\ Over(CreditedTo(k), invoices') = Over(UnitValue, invoices'[k].lines)
    BY <1>5
  <1> QED
    BY <1>6 DEF CreditsCounted, Charging, CreditedTo

(* A credit note adds to what is credited what it marks on the lines. *)
LEMMA CreditCharges ==
  ASSUME Sound, CreditsCounted, NEW k \in DOMAIN invoices,
         NEW request \in Seq(Ask(DOMAIN invoices[k].lines)), CreditInvoice(k, request)
  PROVE  CreditsCounted'
  <1>1. /\ Typed /\ DOMAIN invoices = 1..Len(invoices) /\ Len(invoices) \in Nat
        /\ invoices[k] \in Document
    BY Rows DEF Sound
  <1>2. PICK ls \in Seq(DocumentLine), d \in Document, n \in Document, x \in Nat :
            /\ Credits(request, invoices[k], ls)
            /\ CreditedBy(request, invoices[k], d, x) /\ NoteOf(k, ls, n, x)
            /\ invoices' = Append([invoices EXCEPT ![k] = d], n)
            /\ line' = [l \in Lines |-> LineCredited(l, BackOn(ls, l))]
    BY CreditRows
  <1>3. invoices[k].type = "Invoice" /\ invoices[k].against = None
    BY DEF CreditInvoice, Sound, DocumentsSound
  <1>4. /\ d.type = "Invoice" /\ d.against = None /\ d.total = invoices[k].total
        /\ SameButCredited(request, invoices[k], d)
    BY <1>2, <1>3 DEF CreditedBy
  <1>5. n.type = "Credit Note" /\ n.against = k /\ n.total = Over(ValueOf, ls)
    BY <1>2, TotalIsValue DEF NoteOf, Made
  <1>6. /\ Over(UnitValue, d.lines) = Over(UnitValue, invoices[k].lines) + n.total
        /\ Over(ValueOf, d.lines) = Over(ValueOf, invoices[k].lines)
    <2>1. Credits(request, invoices[k], ls)
      BY <1>2
    <2> DEFINE old == invoices[k]
    <2>2. old \in Document /\ request \in Seq(Ask(DOMAIN old.lines))
      BY <1>1
    <2>3. SameButCredited(request, old, d) /\ Credits(request, old, ls)
      BY <1>4, <2>1
    <2> HIDE DEF old
    <2>4. /\ Over(UnitValue, d.lines) = Over(UnitValue, old.lines) + Over(ValueOf, ls)
          /\ Over(ValueOf, d.lines) = Over(ValueOf, old.lines)
      BY <2>2, <2>3, NoteValue
    <2> QED
      BY <1>5, <2>4 DEF old
  <1>7. Charging(d)
    <2>1. Charging(invoices[k])
      BY <1>3 DEF CreditsCounted
    <2>2. \A j \in DOMAIN d.lines : d.lines[j].net = d.lines[j].qty * Rate[d.lines[j].line]
      BY <1>4, <2>1 DEF Charging, SameButCredited
    <2> QED
      BY <1>4, <1>6, <2>1, <2>2 DEF Charging
  <1>8. ASSUME NEW f \in [Document -> Int]
        PROVE  /\ Over(f, invoices') = Over(f, invoices) + f[d] - f[invoices[k]] + f[n]
               /\ Over(f, invoices) \in Int
               /\ DOMAIN invoices' = 1..(Len(invoices) + 1)
               /\ invoices'[k] = d /\ invoices'[Len(invoices) + 1] = n
               /\ \A j \in DOMAIN invoices \ {k} : invoices'[j] = invoices[j]
    <2>1. Noted(k, d, n)
      BY <1>2 DEF Noted
    <2> QED
      BY <1>1, <2>1, NoteAppended
  <1>9. ASSUME NEW j \in DOMAIN invoices', invoices'[j].type = "Invoice"
        PROVE  /\ Charging(invoices'[j])
               /\ Over(CreditedTo(j), invoices') = Over(UnitValue, invoices'[j].lines)
    <2> DEFINE f == CreditedTo(j)
    <2>1. f \in [Document -> Int]
      BY CreditFunctions
    <2>2. /\ Over(f, invoices') = Over(f, invoices) + f[d] - f[invoices[k]] + f[n]
          /\ Over(f, invoices) \in Int
          /\ DOMAIN invoices' = 1..(Len(invoices) + 1)
          /\ invoices'[k] = d /\ invoices'[Len(invoices) + 1] = n
          /\ \A m \in DOMAIN invoices \ {k} : invoices'[m] = invoices[m]
      BY <1>8, <2>1
    <2>3. j \in DOMAIN invoices /\ None # j
      <3>1. "Credit Note" # "Invoice"
        OBVIOUS
      <3>2. invoices'[j] # n
        BY <1>5, <1>9, <3>1
      <3>3. j \in Nat
        BY <1>1, <2>2
      <3> QED
        BY <1>1, <2>2, <3>2, <3>3, OrderAssumption
    <2>4. f[d] = 0 /\ f[invoices[k]] = 0
      BY <1>1, <1>3, <1>4, <2>3 DEF CreditedTo
    <2>5. f[n] = (IF k = j THEN n.total ELSE 0) /\ n.total \in Int
      <3>1. n.total \in Int
        BY DEF Document
      <3> QED
        BY <1>5, <3>1 DEF CreditedTo
    <2> HIDE DEF f
    <2>6. CASE j = k
      <3>1. Over(f, invoices) = Over(UnitValue, invoices[k].lines)
        BY <1>3, <2>6 DEF CreditsCounted, f
      <3>2. Over(f, invoices') = Over(f, invoices) + n.total
        BY <2>2, <2>4, <2>5, <2>6
      <3>3. invoices'[j] = d
        BY <2>2, <2>6
      <3> QED
        BY <1>6, <1>7, <3>1, <3>2, <3>3 DEF f
    <2>7. CASE j # k
      <3>1. invoices'[j] = invoices[j]
        BY <2>2, <2>3, <2>7
      <3>2. Charging(invoices[j]) /\ Over(f, invoices) = Over(UnitValue, invoices[j].lines)
        BY <1>9, <2>3, <3>1 DEF CreditsCounted, f
      <3>3. Over(f, invoices') = Over(f, invoices)
        BY <2>2, <2>4, <2>5, <2>7
      <3> QED
        BY <3>1, <3>2, <3>3 DEF f
    <2> QED
      BY <2>6, <2>7
  <1>10. \A j \in DOMAIN invoices' : invoices'[j].type = "Invoice" =>
            /\ Charging(invoices'[j])
            /\ Over(CreditedTo(j), invoices') = Over(UnitValue, invoices'[j].lines)
    BY <1>9
  <1> QED
    BY <1>10 DEF CreditsCounted, Charging, CreditedTo

(* What is credited of a line is at most what it charges, but for half a unit *)
(* of rounding of the tax for each unit credited.                             *)
LEMMA LineCredit ==
  ASSUME NEW x \in DocumentLine, x.credited <= x.qty, NEW r \in Nat, x.net = x.qty * r
  PROVE  2 * UnitValue[x] <= 2 * ValueOf[x] + CreditedUnits[x]
  <1> DEFINE q == x.qty
             c == x.credited
             t == x.tax
             u == HalfEven(t, q)
  <1>1. q \in Nat \ {0} /\ c \in Nat /\ t \in Nat /\ c <= q
    BY LineAmounts
  <1>2. HalfEven(x.net, q) = r
    BY <1>1, HalfEvenExact
  <1>3. u \in Nat /\ -q <= 2 * (t - q * u)
    <2>1. \A n \in Nat : \A d \in Nat \ {0} :
             HalfEven(n, d) \in Nat /\ -d <= 2 * (n - d * HalfEven(n, d))
      BY HalfEvenBounds, HalfEvenNat
    <2> HIDE DEF q, t
    <2> QED
      BY <1>1, <2>1
  <1>4. /\ UnitValue[x] = (r + u) * c /\ ValueOf[x] = q * r + t /\ CreditedUnits[x] = c
    BY <1>2 DEF UnitValue, UnitOf, ValueOf, CreditedUnits
  <1> HIDE DEF q, c, t, u
  <1>5. (r + u) * c = r * c + u * c /\ r * c \in Int /\ u * c \in Int
    BY <1>1, <1>3
  <1>6. r * c <= q * r /\ q * r \in Int
    <2>1. r * c <= r * q
      BY <1>1
    <2> QED
      BY <1>1, <2>1
  <1>7. 2 * (u * c) <= 2 * t + c
    <2>1. CASE u = 0
      <3>1. u * c = 0
        BY <1>1, <2>1
      <3> QED
        BY <1>1, <3>1
    <2>2. CASE u # 0
      <3>1. 2 * u - 1 \in Nat
        BY <1>3, <2>2
      <3>2. (2 * u - 1) * c <= (2 * u - 1) * q
        <4>1. \A z \in Nat : z * c <= z * q
          BY <1>1
        <4> QED
          BY <3>1, <4>1
      <3>3. (2 * u - 1) * c = 2 * (u * c) - c /\ (2 * u - 1) * q = 2 * (q * u) - q
        BY <1>1, <1>3
      <3>4. q * u \in Int
        BY <1>1, <1>3
      <3>5. \A uc, qu \in Int : 2 * uc - c <= 2 * qu - q /\ -q <= 2 * (t - qu)
                                  => 2 * uc <= 2 * t + c
        BY <1>1
      <3> QED
        BY <1>3, <1>5, <3>2, <3>3, <3>4, <3>5
    <2> QED
      BY <2>1, <2>2
  <1>8. \A rc, uc, qr \in Int : rc <= qr /\ 2 * uc <= 2 * t + c
                                  => 2 * (rc + uc) <= 2 * (qr + t) + c
    BY <1>1
  <1> QED
    BY <1>4, <1>5, <1>6, <1>7, <1>8

(* The credit notes of an invoice never take back more than it charged, but *)
(* for the rounding of the unit tax.                                        *)
THEOREM CreditsCorrect == EntrySpec => []CreditsStayWithinInvoice
  <1>1. EntryInit => CreditsCounted
    <2> SUFFICES ASSUME EntryInit PROVE CreditsCounted
      OBVIOUS
    <2>1. invoices = <<>>
      BY DEF EntryInit, Init, ImportOrder, NothingDone
    <2> QED
      BY <2>1 DEF CreditsCounted
  <1>2. Sound /\ CreditsCounted /\ [Handlers]_vars => CreditsCounted'
    <2> SUFFICES ASSUME Sound, CreditsCounted, [Handlers]_vars PROVE CreditsCounted'
      OBVIOUS
    <2>2. ASSUME invoices' = invoices PROVE CreditsCounted'
      BY <2>2 DEF CreditsCounted, Charging, CreditedTo
    <2>3. ASSUME PostOrder \/ UNCHANGED vars PROVE CreditsCounted'
      BY <2>2, <2>3 DEF PostOrder, vars
    <2>4. ASSUME NEW request, DeliverLines(request) \/ ReturnLines(request)
          PROVE  CreditsCounted'
      BY <2>2, <2>4 DEF DeliverLines, ReturnLines
    <2> QED
      BY <2>3, <2>4, InvoiceCharges, ReceiveCharges, CreditCharges DEF Handlers
  <1>3. Sound /\ CreditsCounted => CreditsStayWithinInvoice
    <2> SUFFICES ASSUME Sound, CreditsCounted PROVE CreditsStayWithinInvoice
      OBVIOUS
    <2>1. /\ invoices \in Seq(Document)
          /\ \A k \in DOMAIN invoices : invoices[k] \in Document /\ Open(invoices[k])
      BY Rows DEF Sound, Typed, DocumentsSound
    <2>2. ASSUME NEW k \in DOMAIN invoices, IsInvoice(invoices[k])
          PROVE  2 * (DocumentSum(LAMBDA c : c.against = k, LAMBDA c : c.total)
                        - invoices[k].total)
                    <= LineSum(invoices[k], Always, LAMBDA x : x.credited)
      <3> DEFINE ls == invoices[k].lines
                 u == [i \in DOMAIN ls |-> UnitValue[ls[i]]]
                 v == [i \in DOMAIN ls |-> ValueOf[ls[i]]]
                 w == [i \in DOMAIN ls |-> CreditedUnits[ls[i]]]
      <3>1. ls \in Seq(DocumentLine) /\ \A i \in DOMAIN ls : ls[i] \in DocumentLine
        BY <2>1 DEF Document
      <3>2. u \in Seq(Int) /\ v \in Seq(Int) /\ w \in Seq(Int)
        BY <3>1, CreditFunctions, OverValues
      <3>3. Charging(invoices[k]) /\ Over(CreditedTo(k), invoices) = Over(UnitValue, ls)
        BY <2>2 DEF CreditsCounted, IsInvoice
      <3>4. ASSUME NEW i \in DOMAIN ls PROVE 2 * u[i] <= 2 * v[i] + w[i]
        <4>1. ls[i] \in DocumentLine /\ ls[i].credited <= ls[i].qty
          BY <2>1, <3>1 DEF Open
        <4>2. ls[i].net = ls[i].qty * Rate[ls[i].line] /\ Rate[ls[i].line] \in Nat
          BY <3>3, <4>1, OrderAssumption DEF Charging, DocumentLine
        <4>3. 2 * UnitValue[ls[i]] <= 2 * ValueOf[ls[i]] + CreditedUnits[ls[i]]
          <5> HIDE DEF ls
          <5> QED
            BY <4>1, <4>2, LineCredit
        <4> QED
          BY <4>3
      <3>5. SeqSum(u) = Over(CreditedTo(k), invoices) /\ SeqSum(v) = invoices[k].total
        BY <3>3 DEF Charging, Over
      <3>6. DocumentSum(LAMBDA c : c.against = k, LAMBDA c : c.total)
              = Over(CreditedTo(k), invoices)
        <4>1. [m \in DOMAIN invoices |-> CreditedTo(k)[invoices[m]]]
                = [m \in DOMAIN invoices |->
                     IF invoices[m].against = k THEN invoices[m].total ELSE 0]
          BY <2>1 DEF CreditedTo
        <4> QED
          BY <4>1 DEF Over, DocumentSum, SumWhere
      <3>7. LineSum(invoices[k], Always, LAMBDA x : x.credited) = SeqSum(w)
        <4>1. w = [i \in DOMAIN ls |-> IF Always(ls[i]) THEN ls[i].credited ELSE 0]
          BY <3>1 DEF CreditedUnits, Always
        <4> QED
          BY <4>1 DEF LineSum, SumWhere
      <3>8. DOMAIN u = DOMAIN v /\ DOMAIN w = DOMAIN u /\ DOMAIN u = DOMAIN ls
        OBVIOUS
      <3> HIDE DEF u, v, w, ls
      <3>9. 2 * SeqSum(u) <= 2 * SeqSum(v) + SeqSum(w)
        <4>1. \A i \in DOMAIN u : 2 * u[i] <= 2 * v[i] + w[i]
          BY <3>4, <3>8
        <4>2. 2 \in Int
          OBVIOUS
        <4> QED
          BY <3>2, <3>8, <4>1, <4>2, SeqSumBound
      <3>10. SeqSum(u) \in Int /\ SeqSum(v) \in Int /\ SeqSum(w) \in Int
        BY <3>2, SeqSumInt
      <3>11. \A a, b, c \in Int : 2 * a <= 2 * b + c => 2 * (a - b) <= c
        OBVIOUS
      <3> QED
        BY <3>5, <3>6, <3>7, <3>9, <3>10, <3>11
    <2> QED
      BY <2>2 DEF CreditsStayWithinInvoice
  <1> QED
    BY <1>1, <1>2, <1>3, SoundAlways, PTL DEF EntrySpec

-----------------------------------------------------------------------------
(* Billing above a limit is the doing of one invoice. *)

OnLine(l) == {x \in DocumentLine : x.line = l}
OnRow(k) == {x \in DocumentLine : x.from = k}

\* The quantity of the lines that are in X.
QuantityIn(X) == [x \in DocumentLine |-> IF x \in X THEN x.qty ELSE 0]

\* An invoice among the documents names lines in X, and all but one bill this much.
AtOnce(docs, X, excess) ==
    \E k \in DOMAIN docs :
        /\ docs[k].type = "Invoice"
        /\ \E j \in DOMAIN docs[k].lines :
              /\ docs[k].lines[j] \in X
              /\ excess <= Over(QuantityIn(X), docs[k].lines) - docs[k].lines[j].qty

Overbilled ==
    /\ \A l \in Lines :
          line[l].invoiced > Maximum(l, BillingTolerance) =>
              AtOnce(invoices, OnLine(l), line[l].invoiced - Maximum(l, BillingTolerance))
    /\ \A k \in DOMAIN goods :
          goods[k].billed > goods[k].qty =>
              AtOnce(invoices, OnRow(k), goods[k].billed - goods[k].qty)

\* The documents are still there and bill what they billed.
LinesStay(docs, rest) ==
    \A k \in DOMAIN docs :
        /\ k \in DOMAIN rest /\ rest[k].type = docs[k].type
        /\ DOMAIN rest[k].lines = DOMAIN docs[k].lines
        /\ \A j \in DOMAIN docs[k].lines :
              /\ rest[k].lines[j].line = docs[k].lines[j].line
              /\ rest[k].lines[j].from = docs[k].lines[j].from
              /\ rest[k].lines[j].qty = docs[k].lines[j].qty

\* Whether a line counts depends on what it bills only.
Selects(X) ==
    \A x, y \in DocumentLine : x.line = y.line /\ x.from = y.from => (x \in X <=> y \in X)

\* What one invoice bills at once, it still bills when the documents stay.
LEMMA AtOnceStays ==
  ASSUME NEW docs \in Seq(Document), NEW rest \in Seq(Document), LinesStay(docs, rest),
         NEW X, Selects(X), NEW e \in Int, NEW f \in Int, f <= e, AtOnce(docs, X, e)
  PROVE  AtOnce(rest, X, f)
  <1>0. PICK k \in DOMAIN docs :
           /\ docs[k].type = "Invoice"
           /\ \E j \in DOMAIN docs[k].lines :
                 /\ docs[k].lines[j] \in X
                 /\ e <= Over(QuantityIn(X), docs[k].lines) - docs[k].lines[j].qty
    BY DEF AtOnce
  <1>1. PICK j \in DOMAIN docs[k].lines :
           /\ docs[k].type = "Invoice" /\ docs[k].lines[j] \in X
           /\ e <= Over(QuantityIn(X), docs[k].lines) - docs[k].lines[j].qty
    BY <1>0
  <1>2. /\ k \in DOMAIN rest /\ rest[k].type = "Invoice"
        /\ DOMAIN rest[k].lines = DOMAIN docs[k].lines
        /\ \A i \in DOMAIN docs[k].lines :
              /\ rest[k].lines[i].line = docs[k].lines[i].line
              /\ rest[k].lines[i].from = docs[k].lines[i].from
              /\ rest[k].lines[i].qty = docs[k].lines[i].qty
    BY <1>1 DEF LinesStay
  <1>3. docs[k].lines \in Seq(DocumentLine) /\ rest[k].lines \in Seq(DocumentLine)
    <2>1. docs[k] \in Document /\ rest[k] \in Document
      BY <1>2
    <2>2. \A d \in Document : d.lines \in Seq(DocumentLine)
      BY DEF Document
    <2> QED
      BY <2>1, <2>2
  <1> DEFINE u == docs[k].lines
             v == rest[k].lines
  <1>4. \A i \in DOMAIN u : u[i] \in DocumentLine /\ v[i] \in DocumentLine
    BY <1>2, <1>3
  <1>5. \A i \in DOMAIN u : (u[i] \in X <=> v[i] \in X) /\ v[i].qty = u[i].qty
    BY <1>2, <1>4 DEF Selects
  <1>6. Alike(QuantityIn(X), u, QuantityIn(X), v)
    BY <1>2, <1>4, <1>5 DEF Alike, QuantityIn
  <1>7. Over(QuantityIn(X), u) = Over(QuantityIn(X), v)
    BY <1>6, OverEqual
  <1>8. u[j].qty \in Int /\ Over(QuantityIn(X), u) \in Int
    <2>1. QuantityIn(X) \in [DocumentLine -> Int]
      BY DEF QuantityIn, DocumentLine
    <2>2. Over(QuantityIn(X), u) \in Int
      BY <1>3, <2>1, OverInt
    <2>3. u[j].qty \in Int
      BY <1>1, <1>4 DEF DocumentLine
    <2> QED
      BY <2>2, <2>3
  <1> DEFINE t == Over(QuantityIn(X), v)
             q == v[j].qty
  <1>9. v[j] \in X /\ q = u[j].qty /\ f <= t - q
    <2>1. e <= t - q /\ t \in Int /\ q \in Int
      BY <1>1, <1>2, <1>7, <1>8
    <2> HIDE DEF t, q
    <2>2. f <= t - q
      BY <2>1
    <2> QED
      BY <1>1, <1>2, <1>5, <2>2 DEF q
  <1> HIDE DEF u
  <1> QED
    BY <1>1, <1>2, <1>9 DEF AtOnce

\* The lines that name an order line, or a goods row, are told by what they bill.
LEMMA Selections == (\A l : Selects(OnLine(l))) /\ (\A k : Selects(OnRow(k)))
  BY DEF Selects, OnLine, OnRow

\* A step that bills nothing leaves the excess where it was, or less of it.
LEMMA BillsNothing ==
  ASSUME Sound, Sound', Overbilled, LinesStay(invoices, invoices'),
         \A l \in Lines : line'[l].invoiced <= line[l].invoiced,
         \A k \in DOMAIN goods' :
            \/ goods'[k].billed = 0
            \/ /\ k \in DOMAIN goods /\ goods'[k].billed = goods[k].billed
               /\ goods'[k].qty = goods[k].qty
  PROVE  Overbilled'
  <1>1. invoices \in Seq(Document) /\ invoices' \in Seq(Document)
    BY DEF Sound, Typed
  <1>2. ASSUME NEW l \in Lines, line'[l].invoiced > Maximum(l, BillingTolerance)
        PROVE  AtOnce(invoices', OnLine(l), line'[l].invoiced - Maximum(l, BillingTolerance))
    <2> DEFINE m == Maximum(l, BillingTolerance)
               a == line[l].invoiced
               b == line'[l].invoiced
    <2>1. a \in Nat /\ b \in Nat /\ m \in Nat /\ b <= a /\ b > m
      <3>1. line[l] \in Counters /\ line'[l] \in Counters
        BY DEF Sound, Typed
      <3> QED
        BY <1>2, <3>1, MaximumNat, ToleranceTyped DEF Counters
    <2>2. AtOnce(invoices, OnLine(l), a - m)
      <3>1. a > m
        <4> HIDE DEF a, b, m
        <4> QED
          BY <2>1
      <3> QED
        BY <3>1 DEF Overbilled
    <2> HIDE DEF a, b, m
    <2>3. a - m \in Int /\ b - m \in Int /\ b - m <= a - m
      BY <2>1
    <2>4. AtOnce(invoices', OnLine(l), b - m)
      BY <1>1, <2>2, <2>3, Selections, AtOnceStays
    <2> QED
      BY <2>4 DEF b, m
  <1>3. ASSUME NEW k \in DOMAIN goods', goods'[k].billed > goods'[k].qty
        PROVE  AtOnce(invoices', OnRow(k), goods'[k].billed - goods'[k].qty)
    <2>1. goods'[k] \in GoodsLine
      BY DEF Sound, Typed
    <2>2. goods'[k].billed \in Nat /\ goods'[k].qty \in Nat
      BY <2>1 DEF GoodsLine
    <2>3. k \in DOMAIN goods /\ goods'[k].billed = goods[k].billed /\ goods'[k].qty = goods[k].qty
      BY <1>3, <2>2
    <2> DEFINE e == goods'[k].billed - goods'[k].qty
    <2>4. e \in Int /\ e <= e
      BY <2>2
    <2>5. AtOnce(invoices, OnRow(k), e)
      BY <1>3, <2>3 DEF Overbilled
    <2> HIDE DEF e
    <2>6. AtOnce(invoices', OnRow(k), e)
      BY <1>1, <2>4, <2>5, Selections, AtOnceStays
    <2> QED
      BY <2>6 DEF e
  <1> QED
    BY <1>2, <1>3 DEF Overbilled, Maximum

\* An invoice is checked line by line, against what was billed before it.
LEMMA InvoiceBills ==
  ASSUME Sound, Sound', Overbilled, NEW request \in Seq(Draw(Lines)), InvoiceLines(request)
  PROVE  Overbilled'
  <1>1. Typed /\ invoices \in Seq(Document) /\ invoices' \in Seq(Document)
    BY DEF Sound, Typed
  <1>2. PICK ls \in Seq(DocumentLine), d \in Document :
           /\ Billing(request, ls) /\ Made(d, "Invoice", None, ls)
           /\ invoices' = Append(invoices, d)
    BY <1>1, InvoiceRows
  <1>3. goods' \in Seq(GoodsLine) /\ Drawn(request, goods')
    BY <1>1, InvoiceRows
  <1> DEFINE n == Len(invoices) + 1
  <1>4. n \in DOMAIN invoices' /\ invoices'[n].type = "Invoice" /\ invoices'[n].lines = ls
    BY <1>1, <1>2 DEF Made
  <1>5. LinesStay(invoices, invoices')
    <2>1. \A k \in DOMAIN invoices : k \in DOMAIN invoices' /\ invoices'[k] = invoices[k]
      BY <1>1, <1>2
    <2> QED
      BY <2>1 DEF LinesStay
  <1>6. DOMAIN ls = DOMAIN request /\ \A i \in DOMAIN ls : ls[i] \in DocumentLine
                                        /\ ls[i].line = request[i].at /\ ls[i].qty = request[i].qty
                                        /\ ls[i].from = request[i].from
    BY <1>2 DEF Billing
  <1>7. \A i \in DOMAIN request : request[i].at \in Lines /\ request[i].qty \in Nat \ {0}
    BY Drawing
  <1>8. InvoiceAllowed(request)
    BY DEF InvoiceLines
  <1>9. ASSUME NEW l \in Lines, line'[l].invoiced > Maximum(l, BillingTolerance)
        PROVE  AtOnce(invoices', OnLine(l), line'[l].invoiced - Maximum(l, BillingTolerance))
    <2> DEFINE m == Maximum(l, BillingTolerance)
               a == line[l].invoiced
               x == Asked(request, l)
               b == line'[l].invoiced
    <2>1. a \in Nat /\ m \in Nat /\ x \in Nat /\ b = a + x /\ b > m
      <3>1. line[l] \in Counters
        BY <1>1, Rows
      <3>2. line'[l] = [line[l] EXCEPT !.invoiced = line[l].invoiced + Asked(request, l)]
        BY DEF InvoiceLines
      <3> QED
        BY <1>9, <3>1, <3>2, MaximumNat, ToleranceTyped, Drawing DEF Counters
    <2>2. CASE \A i \in DOMAIN request : request[i].at # l
      <3>1. x = 0
        BY <1>7, <2>2, AskedNat
      <3>2. AtOnce(invoices, OnLine(l), a - m)
        <4>1. a > m
          <5> HIDE DEF a, b, m, x
          <5> QED
            BY <2>1, <3>1
        <4> QED
          BY <4>1 DEF Overbilled
      <3> HIDE DEF a, b, m, x
      <3>3. a - m \in Int /\ b - m \in Int /\ b - m <= a - m
        BY <2>1, <3>1
      <3>4. AtOnce(invoices', OnLine(l), b - m)
        BY <1>1, <1>5, <3>2, <3>3, Selections, AtOnceStays
      <3> QED
        BY <3>4 DEF b, m
    <2>3. CASE \E i \in DOMAIN request : request[i].at = l
      <3>1. PICK i \in DOMAIN request : request[i].at = l
        BY <2>3
      <3> DEFINE q == request[i].qty
      <3>2. a + q <= m /\ q \in Nat
        BY <1>7, <1>8, <3>1 DEF InvoiceAllowed
      <3>3. Over(QuantityIn(OnLine(l)), ls) = x
        <4>1. \A j \in DOMAIN request : QuantityIn(OnLine(l))[ls[j]]
                                          = IF request[j].at = l THEN request[j].qty ELSE 0
          BY <1>6 DEF QuantityIn, OnLine
        <4> QED
          BY <1>6, <4>1 DEF Over, Asked, SumWhere
      <3>4. i \in DOMAIN ls /\ ls[i] \in OnLine(l) /\ ls[i].qty = q
        BY <1>6, <3>1 DEF OnLine
      <3>5. b - m <= x - q
        <4> HIDE DEF a, b, m, x, q
        <4> QED
          BY <2>1, <3>2
      <3> HIDE DEF a, b, m, x, q
      <3>6. AtOnce(invoices', OnLine(l), b - m)
        BY <1>4, <3>3, <3>4, <3>5 DEF AtOnce
      <3> QED
        BY <3>6 DEF b, m
    <2> QED
      BY <2>2, <2>3
  <1>10. ASSUME NEW k \in DOMAIN goods', goods'[k].billed > goods'[k].qty
         PROVE  AtOnce(invoices', OnRow(k), goods'[k].billed - goods'[k].qty)
    <2>1. k \in DOMAIN goods /\ goods[k] \in GoodsLine /\ k \in Nat
      BY <1>1, <1>3, Rows DEF Drawn
    <2> DEFINE m == goods[k].qty
               a == goods[k].billed
               x == DrawnBy(request, k)
               e == goods'[k].billed - goods'[k].qty
    <2>2. a \in Nat /\ m \in Nat /\ x \in Nat /\ e = a + x - m /\ a + x > m
      <3>1. goods'[k].billed = a + x /\ goods'[k].qty = m
        BY <1>3, <2>1 DEF Drawn
      <3>2. a \in Nat /\ m \in Nat /\ x \in Nat
        BY <2>1, Drawing DEF GoodsLine
      <3> QED
        BY <1>10, <3>1, <3>2
    <2>3. CASE \A i \in DOMAIN request : request[i].from # k
      <3>1. x = 0
        <4> DEFINE v == [i \in DOMAIN request |->
                           IF request[i].from = k THEN request[i].qty ELSE 0]
        <4>1. v \in [1..Len(request) -> Nat] /\ DOMAIN request = 1..Len(request)
              /\ Len(request) \in Nat
          BY <2>3, Drawing
        <4>2. v \in Seq(Int)
          BY <4>1, FunctionIsSeq
        <4>3. \A i \in DOMAIN v : v[i] = 0
          BY <2>3
        <4> HIDE DEF v
        <4> QED
          BY <4>2, <4>3, SeqSumZero DEF DrawnBy, v
      <3>2. AtOnce(invoices, OnRow(k), a - m)
        <4>1. a > m
          <5> HIDE DEF a, m, x, e
          <5> QED
            BY <2>2, <3>1
        <4> QED
          BY <2>1, <4>1 DEF Overbilled
      <3> HIDE DEF a, m, x, e
      <3>3. a - m \in Int /\ e \in Int /\ e <= a - m
        BY <2>2, <3>1
      <3>4. AtOnce(invoices', OnRow(k), e)
        BY <1>1, <1>5, <3>2, <3>3, Selections, AtOnceStays
      <3> QED
        BY <3>4 DEF e
    <2>4. CASE \E i \in DOMAIN request : request[i].from = k
      <3>1. PICK i \in DOMAIN request : request[i].from = k
        BY <2>4
      <3> DEFINE q == request[i].qty
      <3>2. a + q <= m /\ q \in Nat
        <4>1. k # None
          BY <2>1, OrderAssumption
        <4> QED
          BY <1>7, <1>8, <3>1, <4>1 DEF InvoiceAllowed
      <3>3. Over(QuantityIn(OnRow(k)), ls) = x
        <4>1. \A j \in DOMAIN request : QuantityIn(OnRow(k))[ls[j]]
                                          = IF request[j].from = k THEN request[j].qty ELSE 0
          BY <1>6 DEF QuantityIn, OnRow
        <4> QED
          BY <1>6, <4>1 DEF Over, DrawnBy
      <3>4. i \in DOMAIN ls /\ ls[i] \in OnRow(k) /\ ls[i].qty = q
        BY <1>6, <3>1 DEF OnRow
      <3>5. e <= x - q
        <4> HIDE DEF a, m, x, q, e
        <4> QED
          BY <2>2, <3>2
      <3> HIDE DEF a, m, x, q, e
      <3>6. AtOnce(invoices', OnRow(k), e)
        BY <1>4, <3>3, <3>4, <3>5 DEF AtOnce
      <3> QED
        BY <3>6 DEF e
    <2> QED
      BY <2>3, <2>4
  <1> QED
    BY <1>9, <1>10 DEF Overbilled, Maximum

\* The other operations bill nothing: they leave the documents, or add one.
LEMMA StepOverbilled ==
  ASSUME Sound, Overbilled, [Handlers]_vars
  PROVE  Overbilled'
  <1>1. Sound' /\ Typed
    BY StepSound DEF Sound
  <1>2. /\ \A l \in Lines : line[l] \in Counters /\ line[l].invoiced \in Nat
        /\ \A k \in DOMAIN invoices : invoices[k] \in Document
        /\ \A k \in DOMAIN goods : goods[k] \in GoodsLine
        /\ invoices \in Seq(Document) /\ goods \in Seq(GoodsLine)
    BY <1>1, Rows DEF Counters, Typed
  <1>3. LinesStay(invoices, invoices)
    BY DEF LinesStay
  <1>4. CASE PostOrder \/ UNCHANGED vars
    BY <1>4 DEF PostOrder, vars, Overbilled, AtOnce, Maximum
  <1>5. ASSUME NEW request \in Seq(Ask(Lines)), DeliverLines(request) PROVE Overbilled'
    <2>1. PICK new \in Seq(GoodsLine) : Issued(request, new) /\ goods' = goods \o new
      BY <1>1, <1>5, DeliverRows
    <2>2. invoices' = invoices
      BY <1>5 DEF DeliverLines
    <2>3. \A l \in Lines : line'[l].invoiced <= line[l].invoiced
      <3>1. ASSUME NEW l \in Lines PROVE line'[l].invoiced = line[l].invoiced
        <4>1. line'[l] = [line[l] EXCEPT !.delivered = line[l].delivered + Asked(request, l)]
          BY <1>5 DEF DeliverLines
        <4> QED
          BY <1>2, <4>1 DEF Counters
      <3> QED
        BY <1>2, <3>1
    <2>4. \A k \in DOMAIN goods' : \/ k \in DOMAIN goods /\ goods'[k] = goods[k]
                                   \/ goods'[k].billed = 0
      BY <1>2, <2>1 DEF Issued
    <2> QED
      BY <1>1, <1>3, <2>2, <2>3, <2>4, BillsNothing
  <1>6. ASSUME NEW request \in Seq(Ask(DOMAIN goods)), ReturnLines(request)
        PROVE  Overbilled'
    <2>1. PICK old \in Seq(GoodsLine), new \in Seq(GoodsLine) :
             Taken(request, old) /\ Returned(request, new) /\ goods' = old \o new
      BY <1>1, <1>6, ReturnRows DEF Sound
    <2>2. invoices' = invoices
      BY <1>6 DEF ReturnLines
    <2>3. \A l \in Lines : line'[l].invoiced <= line[l].invoiced
      <3>1. ASSUME NEW l \in Lines PROVE line'[l].invoiced = line[l].invoiced
        <4>1. line'[l] = [line[l] EXCEPT !.returned = line[l].returned + Brought(request, l)]
          BY <1>6 DEF ReturnLines, LineReturned
        <4> QED
          BY <1>2, <4>1 DEF Counters
      <3> QED
        BY <1>2, <3>1
    <2>4. \A k \in DOMAIN goods' : \/ k \in DOMAIN goods /\ goods'[k] = old[k]
                                   \/ goods'[k].billed = 0
      BY <2>1 DEF Returned, Taken
    <2>5. \A k \in DOMAIN goods : old[k].billed = goods[k].billed /\ old[k].qty = goods[k].qty
      BY <2>1 DEF Taken
    <2> QED
      BY <1>1, <1>3, <2>2, <2>3, <2>4, <2>5, BillsNothing
  <1>7. ASSUME NEW p \in Entry, NEW target \in [DOMAIN p.allocations -> DOMAIN invoices],
               Receive(p, target)
        PROVE  Overbilled'
    <2>1. Settles(p, target, invoices')
      BY <1>7, ReceiveRows
    <2>2. ASSUME NEW k \in DOMAIN invoices
          PROVE  /\ k \in DOMAIN invoices' /\ invoices'[k].type = invoices[k].type
                 /\ invoices'[k].lines = invoices[k].lines
      <3>1. CASE \A i \in DOMAIN target : target[i] # k
        BY <2>1, <3>1 DEF Settles
      <3>2. CASE \E i \in DOMAIN target : target[i] = k
        <4>1. PICK i \in DOMAIN target : target[i] = k
          BY <3>2
        <4>2. invoices'[k] = Settled(invoices[k], p.allocations[i].invoice_amount)
              /\ k \in DOMAIN invoices'
          BY <2>1, <4>1 DEF Settles
        <4>3. \A d \in Document : \A x : /\ Settled(d, x).type = d.type
                                         /\ Settled(d, x).lines = d.lines
          BY DEF Settled, Document
        <4> QED
          BY <1>2, <4>2, <4>3
      <3> QED
        BY <3>1, <3>2
    <2>3. LinesStay(invoices, invoices')
      BY <2>2 DEF LinesStay
    <2>4. line' = line /\ goods' = goods
      BY <1>7 DEF Receive
    <2>5. \A l \in Lines : line'[l].invoiced <= line[l].invoiced
      BY <1>2, <2>4
    <2> QED
      BY <1>1, <2>3, <2>4, <2>5, BillsNothing
  <1>8. ASSUME NEW k \in DOMAIN invoices, NEW request \in Seq(Ask(DOMAIN invoices[k].lines)),
               CreditInvoice(k, request)
        PROVE  Overbilled'
    <2>1. PICK ls \in Seq(DocumentLine), d \in Document, n \in Document, x \in Nat :
            /\ Credits(request, invoices[k], ls)
            /\ CreditedBy(request, invoices[k], d, x) /\ NoteOf(k, ls, n, x)
            /\ invoices' = Append([invoices EXCEPT ![k] = d], n)
            /\ line' = [l \in Lines |-> LineCredited(l, BackOn(ls, l))]
      <3>1. CreditInvoice(k, request)
        BY <1>8
      <3> QED
        BY <3>1, CreditRows
    <2>2. \A i \in DOMAIN invoices : i \in DOMAIN invoices'
                                       /\ invoices'[i] = IF i = k THEN d ELSE invoices[i]
      BY <1>2, <2>1
    <2>3. LinesStay(invoices, invoices')
      BY <2>1, <2>2 DEF LinesStay, CreditedBy, SameButCredited
    <2>4. \A l \in Lines : line'[l].invoiced <= line[l].invoiced
      <3>1. ASSUME NEW l \in Lines PROVE line'[l].invoiced <= line[l].invoiced
        <4> DEFINE v == [i \in DOMAIN ls |-> IF ls[i].line = l THEN ls[i].qty ELSE 0]
        <4>1. DOMAIN ls = 1..Len(ls) /\ Len(ls) \in Nat /\ \A i \in DOMAIN ls : ls[i].qty \in Nat
          <5>1. \A q \in DocumentLine : q.qty \in Nat
            BY DEF DocumentLine
          <5> QED
            BY <5>1
        <4>2. v \in [1..Len(ls) -> Nat]
          BY <4>1
        <4>3. v \in Seq(Nat)
          BY <4>1, <4>2, FunctionIsSeq
        <4> HIDE DEF v
        <4>4. BackOn(ls, l) \in Nat
          BY <4>3, SeqSumNat DEF BackOn, v
        <4>5. line'[l].invoiced = IF line[l].invoiced > BackOn(ls, l)
                                  THEN line[l].invoiced - BackOn(ls, l) ELSE 0
          BY <1>2, <2>1 DEF LineCredited, Counters
        <4> QED
          BY <1>2, <4>4, <4>5
      <3> QED
        BY <3>1
    <2>5. goods' = goods
      BY <1>8 DEF CreditInvoice
    <2> QED
      BY <1>1, <2>3, <2>4, <2>5, BillsNothing
  <1>9. ASSUME NEW request \in Seq(Draw(Lines)), InvoiceLines(request) PROVE Overbilled'
    BY <1>1, <1>9, InvoiceBills
  <1> QED
    BY <1>4, <1>5, <1>6, <1>7, <1>8, <1>9 DEF Handlers

(* Billing an order line above its tolerance, or a goods line above its      *)
(* quantity, is the doing of one invoice that names the line several times,  *)
(* whatever requests, of any length, the callers make and in whatever order. *)
THEOREM OverbillingCorrect == EntrySpec => []OverbillingIsOneInvoice
  <1>1. EntryInit => Overbilled
    <2> SUFFICES ASSUME EntryInit PROVE Overbilled
      OBVIOUS
    <2>1. goods = <<>> /\ \A l \in Lines : line[l].invoiced = 0
      BY DEF EntryInit, Init, ImportOrder, NothingDone
    <2>2. \A l \in Lines : Maximum(l, BillingTolerance) \in Nat
      BY MaximumNat, ToleranceTyped
    <2> QED
      BY <2>1, <2>2 DEF Overbilled
  <1>2. Sound /\ Overbilled /\ [Handlers]_vars => Overbilled'
    BY StepOverbilled
  <1>3. Sound /\ Overbilled => OverbillingIsOneInvoice
    <2> SUFFICES ASSUME Sound, Overbilled PROVE OverbillingIsOneInvoice
      OBVIOUS
    <2>1. \A k \in DOMAIN invoices : invoices[k].lines \in Seq(DocumentLine)
      BY Rows DEF Sound, Document
    <2>2. ASSUME NEW l \in Lines, NEW e, AtOnce(invoices, OnLine(l), e)
          PROVE  BilledAtOnce(LAMBDA x : x.line = l, e)
      <3>0. PICK k \in DOMAIN invoices :
               /\ invoices[k].type = "Invoice"
               /\ \E j \in DOMAIN invoices[k].lines :
                     /\ invoices[k].lines[j] \in OnLine(l)
                     /\ e <= Over(QuantityIn(OnLine(l)), invoices[k].lines)
                               - invoices[k].lines[j].qty
        BY <2>2 DEF AtOnce
      <3>1. PICK j \in DOMAIN invoices[k].lines :
               /\ invoices[k].type = "Invoice" /\ invoices[k].lines[j] \in OnLine(l)
               /\ e <= Over(QuantityIn(OnLine(l)), invoices[k].lines) - invoices[k].lines[j].qty
        BY <3>0
      <3>2. \A i \in DOMAIN invoices[k].lines : QuantityIn(OnLine(l))[invoices[k].lines[i]]
               = IF invoices[k].lines[i].line = l THEN invoices[k].lines[i].qty ELSE 0
        BY <2>1 DEF QuantityIn, OnLine
      <3>3. Over(QuantityIn(OnLine(l)), invoices[k].lines)
              = SeqSum([i \in DOMAIN invoices[k].lines |->
                   IF invoices[k].lines[i].line = l THEN invoices[k].lines[i].qty ELSE 0])
        BY <3>2 DEF Over
      <3> QED
        BY <3>1, <3>3 DEF BilledAtOnce, IsInvoice, LineSum, SumWhere, OnLine
    <2>3. ASSUME NEW r \in DOMAIN goods, NEW e, AtOnce(invoices, OnRow(r), e)
          PROVE  BilledAtOnce(LAMBDA x : x.from = r, e)
      <3>0. PICK k \in DOMAIN invoices :
               /\ invoices[k].type = "Invoice"
               /\ \E j \in DOMAIN invoices[k].lines :
                     /\ invoices[k].lines[j] \in OnRow(r)
                     /\ e <= Over(QuantityIn(OnRow(r)), invoices[k].lines)
                               - invoices[k].lines[j].qty
        BY <2>3 DEF AtOnce
      <3>1. PICK j \in DOMAIN invoices[k].lines :
               /\ invoices[k].type = "Invoice" /\ invoices[k].lines[j] \in OnRow(r)
               /\ e <= Over(QuantityIn(OnRow(r)), invoices[k].lines) - invoices[k].lines[j].qty
        BY <3>0
      <3>2. \A i \in DOMAIN invoices[k].lines : QuantityIn(OnRow(r))[invoices[k].lines[i]]
               = IF invoices[k].lines[i].from = r THEN invoices[k].lines[i].qty ELSE 0
        BY <2>1 DEF QuantityIn, OnRow
      <3>3. Over(QuantityIn(OnRow(r)), invoices[k].lines)
              = SeqSum([i \in DOMAIN invoices[k].lines |->
                   IF invoices[k].lines[i].from = r THEN invoices[k].lines[i].qty ELSE 0])
        BY <3>2 DEF Over
      <3> QED
        BY <3>1, <3>3 DEF BilledAtOnce, IsInvoice, LineSum, SumWhere, OnRow
    <2> QED
      BY <2>2, <2>3 DEF Overbilled, OverbillingIsOneInvoice
  <1> QED
    BY <1>1, <1>2, <1>3, SoundAlways, PTL DEF EntrySpec

=============================================================================
