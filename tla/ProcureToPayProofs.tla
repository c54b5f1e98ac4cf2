-------------------------- MODULE ProcureToPayProofs --------------------------
(***************************************************************************)
(* What holds of every purchase order, whatever its lines, rates, receipts *)
(* and payments: the invariants of ProcureToPay, for EntrySpec, so for the *)
(* handlers called directly, by the buttons and by the import.             *)
(***************************************************************************)
EXTENDS PurchaseEntry, MoneyProofs

-----------------------------------------------------------------------------
(* The handlers, called with any request: what the actions of EntryNext do. *)

Arrival == [at : Lines, parts : [accepted : Nat, rejected : Nat]]
Back(S) == [at : S, qty : Nat \ {0}, rejected : BOOLEAN]
Ask(S) == [at : S, qty : Nat \ {0}]
Draw(S) == [at : S, qty : Nat \ {0}, from : {None} \cup DOMAIN receipts]
Part == [payment_amount : Int, invoice_amount : Int, base_amount : Int]
Entry == [amount : Nat, exchange : Nat, allocations : Seq(Part)]

Handlers ==
    \/ PostOrder
    \/ \E request \in Seq(Arrival) : ReceiveLines(request)
    \/ \E request \in Seq(Back(DOMAIN receipts)) : ReturnLines(request)
    \/ \E request \in Seq(Draw(Lines)) : InvoiceLines(request)
    \/ \E p \in Entry : \E target \in [DOMAIN p.allocations -> DOMAIN invoices] :
          Pay(p, target)
    \/ \E k \in DOMAIN invoices : \E request \in Seq(Ask(DOMAIN invoices[k].lines)) :
          DebitInvoice(k, request)

(* The rows of the tables. *)

Counters == [received : Nat, returned : Nat, invoiced : Nat]

Movements == {"Receipt", "Return"}

ReceiptRow ==
    [doc : Nat, kind : Movements, line : Lines, accepted : Nat, rejected : Nat,
     acceptedReturned : Nat, rejectedReturned : Nat, billed : Nat]

DocumentLine ==
    [line : Lines, from : {None} \cup Nat, qty : Nat \ {0}, net : Nat, tax : Nat,
     debited : Nat]

Kinds == {"Invoice", "Debit Note"}
DocumentStatuses == {"Unpaid", "Partly Paid", "Paid"}

Document ==
    [type : Kinds, against : {None} \cup Nat, total : Nat, outstanding : Nat,
     status : DocumentStatuses, lines : Seq(DocumentLine)]

PaidPart == [invoice : Nat, invoice_amount : Nat, base_amount : Nat]
Payment == [base : Nat, allocations : Seq(PaidPart)]

Statuses ==
    {"Draft", "Ordered", "Partly Received", "Received", "Partly Invoiced", "Invoiced"}

Typed ==
    /\ order \in [state : {"Draft", "Posted"}, status : Statuses]
    /\ line \in [Lines -> Counters]
    /\ receipts \in Seq(ReceiptRow)
    /\ invoices \in Seq(Document)
    /\ payments \in Seq(Payment)
    /\ gl \in [Accounts -> Int]
    /\ party \in Int

(* What a clerk's page may have read. *)

Views == [at : {"idle", "receive"}] \cup [at : {"receiving"}, request : Seq(Arrival)]

PagesRead == page \in [Clerks -> Views]

-----------------------------------------------------------------------------
(* What is left of an order is a request for lines of it. *)
LEMMA RestIsRequest ==
  ASSUME \A l \in Lines : Missing(l) \in Int
  PROVE  Rest \in Seq(Arrival)
  <1> DEFINE open == {k \in Lines : Missing(k) > 0}
             rows == {[at |-> l, parts |-> AllAccepted(Missing(l))] : l \in open}
             row == [l \in open |-> [at |-> l, parts |-> AllAccepted(Missing(l))]]
  <1>1. IsFiniteSet(Lines) /\ IsFiniteSet(open)
    BY PurchaseAssumption, FS_Subset
  <1>2. row \in Surjection(open, rows)
    BY DEF Surjection
  <1>3. IsFiniteSet(rows)
    BY <1>1, <1>2, FS_Surjection
  <1>4. rows \subseteq Arrival
    <2>1. \A l \in open : Missing(l) \in Nat
      OBVIOUS
    <2>2. \A n \in Nat : AllAccepted(n) \in [accepted : Nat, rejected : Nat]
      BY DEF AllAccepted
    <2> QED
      BY <2>1, <2>2 DEF Arrival
  <1>5. \E f : f \in Bijection(1..Cardinality(rows), rows)
    BY <1>3, FS_CardinalityType DEF ExistsBijection
  <1>6. SetToSeq(rows) \in Seq(rows)
    <2>1. \E f : f \in [1..Cardinality(rows) -> rows] /\ IsInjective(f)
      BY <1>5 DEF Bijection, Injection, IsInjective
    <2>2. Cardinality(rows) \in Nat
      BY <1>3, FS_CardinalityType
    <2>3. SetToSeq(rows) \in [1..Cardinality(rows) -> rows]
      BY <2>1 DEF SetToSeq
    <2> QED
      BY <2>2, <2>3, FunctionIsSeq
  <1> QED
    BY <1>4, <1>6, SeqMonotonic DEF Rest

(* Every step of the order page, of the import and of the callers is a handler,  *)
(* or a read that changes nothing but the page.                                  *)
LEMMA EntryIsHandlers ==
  ASSUME Typed, PagesRead, [EntryNext]_entry
  PROVE  [Handlers]_vars
  <1>0. /\ Quantities \subseteq Nat \ {0} /\ Ordered \in [Lines -> Nat \ {0}]
        /\ PaymentRequests \subseteq [amount : Nat, exchange : Nat, allocations : Seq(Part)]
        /\ Exchange \in Nat \ {0} /\ Scale \in Nat \ {0} /\ RequestLines \in Nat
        /\ ReceiptParts \subseteq [accepted : Nat, rejected : Nat]
    BY PurchaseAssumption DEF Part
  <1>1. /\ \A l \in Lines : line[l] \in Counters
        /\ \A k \in DOMAIN invoices : invoices[k] \in Document
        /\ \A k \in DOMAIN receipts : receipts[k] \in ReceiptRow
    BY DEF Typed
  <1>13. \A S : [at : S, qty : Quantities] \subseteq Ask(S)
    BY <1>0 DEF Ask
  <1>15. \A S : [at : S, qty : Quantities, rejected : BOOLEAN] \subseteq Back(S)
    BY <1>0 DEF Back
  <1>14. [at : Lines, qty : Quantities, from : {None} \cup DOMAIN receipts] \subseteq Draw(Lines)
    BY <1>0 DEF Draw
  <1>2. ASSUME PostOrder \/ PlaceOrder PROVE Handlers
    BY <1>2 DEF PlaceOrder, Handlers
  <1>3. ASSUME Receive PROVE Handlers
    <2>1. PICK request \in Requests([at : Lines, parts : ReceiptParts], RequestLines) : ReceiveLines(request)
      BY <1>3 DEF Receive
    <2>2. request \in Seq([at : Lines, parts : ReceiptParts])
      BY <1>0, RequestsAreSequences
    <2>3. [at : Lines, parts : ReceiptParts] \subseteq Arrival
      BY <1>0 DEF Arrival
    <2>4. request \in Seq(Arrival)
      BY <2>2, <2>3, SeqMonotonic
    <2> QED
      BY <2>1, <2>4 DEF Handlers
  <1>4. ASSUME ReturnReceipt PROVE Handlers
    <2>1. PICK request \in Requests([at : DOMAIN receipts, qty : Quantities,
                                     rejected : BOOLEAN], RequestLines) : ReturnLines(request)
      BY <1>4 DEF ReturnReceipt
    <2>2. request \in Seq([at : DOMAIN receipts, qty : Quantities, rejected : BOOLEAN])
      BY <1>0, RequestsAreSequences
    <2>3. request \in Seq(Back(DOMAIN receipts))
      BY <2>2, <1>15, SeqMonotonic
    <2> QED
      BY <2>1, <2>3 DEF Handlers
  <1>5. ASSUME Invoice PROVE Handlers
    <2>1. PICK request \in Requests([at : Lines, qty : Quantities,
                                     from : {None} \cup DOMAIN receipts], RequestLines) :
             InvoiceLines(request)
      BY <1>5 DEF Invoice
    <2>2. request \in Seq([at : Lines, qty : Quantities, from : {None} \cup DOMAIN receipts])
      BY <1>0, RequestsAreSequences
    <2>3. request \in Seq(Draw(Lines))
      BY <2>2, <1>14, SeqMonotonic
    <2> QED
      BY <2>1, <2>3 DEF Handlers
  <1>6. ASSUME PaySupplier PROVE Handlers
    <2>1. PaymentRequests \subseteq Entry
      BY <1>0 DEF Entry
    <2> QED
      BY <1>6, <2>1 DEF PaySupplier, Handlers
  <1>7. ASSUME IssueDebitNote PROVE Handlers
    <2>1. PICK k \in DOMAIN invoices :
             \E request \in Requests([at : DOMAIN invoices[k].lines, qty : Quantities],
                                    RequestLines) :
                DebitInvoice(k, request)
      BY <1>7 DEF IssueDebitNote
    <2>2. PICK request \in Requests([at : DOMAIN invoices[k].lines, qty : Quantities],
                                    RequestLines) :
             DebitInvoice(k, request)
      BY <2>1
    <2>3. request \in Seq([at : DOMAIN invoices[k].lines, qty : Quantities])
      BY <1>0, RequestsAreSequences
    <2>4. request \in Seq(Ask(DOMAIN invoices[k].lines))
      <3> DEFINE S == DOMAIN invoices[k].lines
      <3>1. request \in Seq([at : S, qty : Quantities])
        BY <2>3
      <3>2. [at : S, qty : Quantities] \subseteq Ask(S)
        BY <1>13
      <3> HIDE DEF S
      <3>3. request \in Seq(Ask(S))
        BY <3>1, <3>2, SeqMonotonic
      <3> QED
        BY <3>3 DEF S
    <2> QED
      BY <2>2, <2>4 DEF Handlers
  <1>8. ASSUME NEW c \in Clerks, ReceiveRest(c) PROVE Handlers
    <2>1. page[c] \in Views /\ page[c].at = "receiving" /\ ReceiveLines(page[c].request)
      BY <1>8 DEF ReceiveRest, PagesRead
    <2>2. page[c].request \in Seq(Arrival)
      BY <2>1 DEF Views
    <2> QED
      BY <2>1, <2>2 DEF Handlers
  <1>9. ASSUME ImportReceipt PROVE Handlers
    <2>1. PICK asks \in Requests([at : Lines, qty : Quantities], RequestLines) :
             ReceiveLines([i \in DOMAIN asks |->
                              [at |-> asks[i].at, parts |-> AllAccepted(asks[i].qty)]])
      BY <1>9 DEF ImportReceipt
    <2> DEFINE request == [i \in DOMAIN asks |->
                              [at |-> asks[i].at, parts |-> AllAccepted(asks[i].qty)]]
    <2>2. asks \in Seq([at : Lines, qty : Quantities])
      BY <1>0, RequestsAreSequences
    <2>3. asks \in Seq(Ask(Lines))
      BY <2>2, <1>13, SeqMonotonic
    <2>4. DOMAIN asks = 1..Len(asks) /\ Len(asks) \in Nat
          /\ \A i \in DOMAIN asks : asks[i] \in Ask(Lines)
      BY <2>3
    <2>5. \A i \in DOMAIN asks :
             [at |-> asks[i].at, parts |-> AllAccepted(asks[i].qty)] \in Arrival
      BY <2>4 DEF Ask, Arrival, AllAccepted
    <2>6. request \in Seq(Arrival)
      BY <2>4, <2>5, FunctionIsSeq
    <2>7. ReceiveLines(request)
      BY <2>1
    <2> HIDE DEF request
    <2> QED
      BY <2>6, <2>7 DEF Handlers
  <1>10. ASSUME ImportReturn PROVE Handlers
    <2>1. PICK request \in Requests([at : DOMAIN receipts, qty : Quantities,
                                     rejected : {FALSE}], RequestLines) : ReturnLines(request)
      BY <1>10 DEF ImportReturn
    <2>2. request \in Seq([at : DOMAIN receipts, qty : Quantities, rejected : {FALSE}])
      BY <1>0, RequestsAreSequences
    <2>3. [at : DOMAIN receipts, qty : Quantities, rejected : {FALSE}] \subseteq Back(DOMAIN receipts)
      BY <1>0 DEF Back
    <2>4. request \in Seq(Back(DOMAIN receipts))
      BY <2>2, <2>3, SeqMonotonic
    <2> QED
      BY <2>1, <2>4 DEF Handlers
  <1>11. ASSUME ImportInvoice PROVE Handlers
    <2> DEFINE byLine == UNION {[at : {l}, qty : Quantities, from : DrawnFrom(l)] : l \in Lines}
               byDoc(d) == {[at |-> receipts[k].line, qty |-> q, from |-> k] :
                               k \in {j \in DOMAIN receipts : receipts[j].doc = d},
                               q \in Quantities}
    <2>1. byLine \subseteq Draw(Lines)
      <3>1. \A l \in Lines : DrawnFrom(l) \subseteq {None} \cup DOMAIN receipts
        BY DEF DrawnFrom
      <3>2. ASSUME NEW l \in Lines PROVE [at : {l}, qty : Quantities, from : DrawnFrom(l)]
                                            \subseteq Draw(Lines)
        BY <1>0, <3>1 DEF Draw
      <3> QED
        BY <3>2
    <2>2. \A d : byDoc(d) \subseteq Draw(Lines)
      BY <1>0, <1>1 DEF Draw, ReceiptRow
    <2>3. \/ \E request \in Requests(byLine, RequestLines) : InvoiceLines(request)
          \/ \E d \in {receipts[k].doc : k \in DOMAIN receipts} :
                \E request \in Requests(byDoc(d), RequestLines) : InvoiceLines(request)
      BY <1>11 DEF ImportInvoice
    <2> HIDE DEF byLine, byDoc
    <2>4. \A request \in Requests(byLine, RequestLines) : request \in Seq(Draw(Lines))
      BY <1>0, <2>1, RequestsAreSequences, SeqMonotonic
    <2>5. \A d : \A request \in Requests(byDoc(d), RequestLines) :
             request \in Seq(Draw(Lines))
      BY <1>0, <2>2, RequestsAreSequences, SeqMonotonic
    <2> QED
      BY <2>3, <2>4, <2>5 DEF Handlers
  <1>12. ASSUME ImportPayment PROVE Handlers
    <2>1. PICK p \in ImportedPayments :
             \E target \in [DOMAIN p.asked -> DOMAIN invoices] :
                Pay([amount |-> p.amount, exchange |-> p.exchange,
                         allocations |-> [i \in DOMAIN p.asked |-> AtInvoiceRate(
                             Smaller(p.asked[i], invoices[target[i]].outstanding))]], target)
      BY <1>12 DEF ImportPayment
    <2>2. PICK target \in [DOMAIN p.asked -> DOMAIN invoices] :
                Pay([amount |-> p.amount, exchange |-> p.exchange,
                         allocations |-> [i \in DOMAIN p.asked |-> AtInvoiceRate(
                             Smaller(p.asked[i], invoices[target[i]].outstanding))]], target)
      BY <2>1
    <2> DEFINE x(i) == Smaller(p.asked[i], invoices[target[i]].outstanding)
               parts == [i \in DOMAIN p.asked |-> AtInvoiceRate(x(i))]
               e == [amount |-> p.amount, exchange |-> p.exchange, allocations |-> parts]
    <2>3. p \in [amount : Nat, exchange : Nat, asked : Seq(Int)]
      BY EntryAssumption
    <2>4. \A i \in DOMAIN p.asked : x(i) \in Int
      <3>1. ASSUME NEW i \in DOMAIN p.asked
            PROVE  p.asked[i] \in Int /\ invoices[target[i]].outstanding \in Int
        <4>1. target[i] \in DOMAIN invoices
          BY <3>1
        <4>2. invoices[target[i]] \in Document
          BY <1>1, <4>1
        <4>3. p.asked \in Seq(Int)
          BY <2>3
        <4>4. p.asked[i] \in Int
          BY <4>3
        <4>5. \A d \in Document : d.outstanding \in Nat
          BY DEF Document
        <4> QED
          BY <4>2, <4>4, <4>5
      <3> QED
        BY <3>1 DEF Smaller
    <2>5. Pay(e, target)
      BY <2>2
    <2> HIDE DEF x
    <2>6. \A y \in Int : AtInvoiceRate(y) \in Part
      <3>1. \A y \in Int : y * Exchange \in Int
        BY <1>0
      <3> QED
        BY <3>1, <1>0, HalfEvenBounds DEF AtInvoiceRate, Part, Base
    <2>7. \A i \in DOMAIN p.asked : parts[i] \in Part
      BY <2>4, <2>6
    <2>8. DOMAIN p.asked = 1..Len(p.asked) /\ Len(p.asked) \in Nat
      BY <2>3
    <2>9. parts \in Seq(Part) /\ DOMAIN parts = DOMAIN p.asked
      BY <2>7, <2>8, FunctionIsSeq
    <2> HIDE DEF parts
    <2>10. e \in Entry /\ e.allocations = parts
      BY <2>3, <2>9 DEF Entry
    <2> HIDE DEF e
    <2> QED
      BY <2>5, <2>9, <2>10 DEF Handlers
  <1>16. ASSUME NEW c \in Clerks, Button(c) PROVE [Handlers]_vars
    <2>1. ASSUME NEW v, Shown(c, v) PROVE UNCHANGED vars
      BY <2>1 DEF Shown
    <2> QED
      BY <1>8, <1>16, <2>1 DEF Button, PressReceive, ReadMissing, GiveUp
  <1> QED
    BY <1>2, <1>3, <1>4, <1>5, <1>6, <1>7, <1>9, <1>10, <1>11, <1>12, <1>16
       DEF EntryNext, Next, entry
-----------------------------------------------------------------------------
(* The bounds each row keeps, and the links between rows. *)

ReceiptsSound ==
    \A k \in DOMAIN receipts :
        /\ 1 <= receipts[k].doc /\ receipts[k].doc <= k
        /\ Quantity(receipts[k]) > 0
        /\ receipts[k].acceptedReturned <= receipts[k].accepted
        /\ receipts[k].rejectedReturned <= receipts[k].rejected
        /\ receipts[k].kind = "Return" =>
              receipts[k].acceptedReturned = 0 /\ receipts[k].rejectedReturned = 0

Open(d) ==
    /\ d.total > 0 /\ d.outstanding <= d.total
    /\ d.status = CASE d.outstanding = d.total -> "Unpaid"
                    [] d.outstanding = 0       -> "Paid"
                    [] OTHER                   -> "Partly Paid"
    /\ \A j \in DOMAIN d.lines : d.lines[j].debited <= d.lines[j].qty

FromReceipts(ls) == \A j \in DOMAIN ls : ls[j].from \in {None} \cup DOMAIN receipts

DocumentsSound ==
    \A k \in DOMAIN invoices :
        /\ Open(invoices[k])
        /\ IF invoices[k].type = "Invoice" THEN invoices[k].against = None
           ELSE invoices[k].against \in 1..(k - 1)
        /\ FromReceipts(invoices[k].lines)

Sound == Typed /\ ReceiptsSound /\ DocumentsSound

-----------------------------------------------------------------------------
(* The values the handlers compute. *)

(* Rounding a value to base currency keeps integers and natural numbers. *)
LEMMA BaseValue ==
  /\ \A x \in Int : Base(x) \in Int
  /\ \A x \in Nat : Base(x) \in Nat
  /\ Base(0) = 0
  <1>1. Exchange \in Nat \ {0} /\ Scale \in Nat \ {0}
    BY PurchaseAssumption
  <1>2. \A x \in Int : Base(x) \in Int
    BY <1>1, Products, HalfEvenBounds DEF Base
  <1>3. \A x \in Nat : Base(x) \in Nat
    BY <1>1, Products, HalfEvenNat DEF Base
  <1>4. HalfEven(Scale * 0, Scale) = 0
    BY <1>1, HalfEvenExact
  <1>5. 0 * Exchange = Scale * 0
    BY <1>1
  <1> QED
    BY <1>2, <1>3, <1>4, <1>5 DEF Base

(* So do the cost as it is posted and the unit cost of a line. *)
LEMMA CostValue ==
  /\ \A x \in Int : Booked(x) \in Int
  /\ \A x \in Nat : Booked(x) \in Nat
  /\ Booked(0) = 0
  /\ \A l \in Lines : UnitCost(l) \in Nat
  <1>1. Exchange \in Nat \ {0} /\ Scale \in Nat \ {0} /\ Fine \in Nat \ {0}
        /\ Rate \in [Lines -> Nat]
    BY PurchaseAssumption
  <1>2. \A x \in Int : Booked(x) \in Int
    BY <1>1, HalfEvenBounds DEF Booked
  <1>3. \A x \in Nat : Booked(x) \in Nat
    BY <1>1, HalfEvenNat DEF Booked
  <1>4. ASSUME NEW l \in Lines PROVE UnitCost(l) \in Nat
    <2>1. Rate[l] * Exchange \in Nat
      BY <1>1, Products
    <2> QED
      BY <1>1, <2>1, HalfEvenNat DEF UnitCost
  <1>5. HalfEven(Fine * 0, Fine) = 0 /\ Fine * 0 = 0
    BY <1>1, HalfEvenExact
  <1> QED
    BY <1>2, <1>3, <1>4, <1>5 DEF Booked

(* The status of an order is one of those the table admits. *)
LEMMA StatusIsKnown == ASSUME NEW ls PROVE StatusOf(ls) \in Statuses
  <1> DEFINE sum(f) == SumFunction([l \in Lines |-> ls[l][f]])
             invoiced == sum("invoiced")
             net == sum("received") - sum("returned")
             ordered == SumFunction(Ordered)
  <1>1. StatusOf(ls) =
          CASE invoiced >= ordered                    -> "Invoiced"
            [] invoiced < ordered /\ invoiced > 0      -> "Partly Invoiced"
            [] invoiced <= 0 /\ net >= ordered         -> "Received"
            [] invoiced <= 0 /\ net < ordered /\ net > 0 -> "Partly Received"
            [] OTHER                                   -> "Ordered"
    BY DEF StatusOf
  <1> HIDE DEF invoiced, net, ordered
  <1> QED
    BY <1>1 DEF Statuses

\* The refreshed order has a state and a status.
LEMMA RefreshIsTyped ==
  ASSUME Typed, Refreshed
  PROVE  order' \in [state : {"Draft", "Posted"}, status : Statuses]
  BY StatusIsKnown DEF Typed, Refreshed

(* A row is in the table it is read from. *)
LEMMA Rows ==
  ASSUME Typed
  PROVE  /\ \A k \in DOMAIN receipts : receipts[k] \in ReceiptRow
         /\ \A k \in DOMAIN invoices : invoices[k] \in Document
         /\ \A k \in DOMAIN payments : payments[k] \in Payment
         /\ \A l \in Lines : line[l] \in Counters
         /\ DOMAIN receipts = 1..Len(receipts) /\ Len(receipts) \in Nat
         /\ DOMAIN invoices = 1..Len(invoices) /\ Len(invoices) \in Nat
         /\ \A a \in Accounts : gl[a] \in Int
  BY DEF Typed

(* A sum over the elements of a sequence that satisfy a condition. *)
LEMMA SumOfRow ==
  ASSUME NEW T, NEW s \in Seq(T), NEW v, v = [i \in DOMAIN s |-> v[i]]
  PROVE  /\ (\A i \in DOMAIN s : v[i] \in Int) => v \in Seq(Int) /\ SeqSum(v) \in Int
         /\ (\A i \in DOMAIN s : v[i] \in Nat) => v \in Seq(Nat) /\ SeqSum(v) \in Nat
  <1>1. DOMAIN s = 1..Len(s) /\ Len(s) \in Nat
    OBVIOUS
  <1>2. ASSUME \A i \in DOMAIN s : v[i] \in Int PROVE v \in Seq(Int) /\ SeqSum(v) \in Int
    <2>1. v \in [1..Len(s) -> Int]
      BY <1>1, <1>2
    <2> QED
      BY <1>1, <2>1, FunctionIsSeq, SeqSumInt
  <1>3. ASSUME \A i \in DOMAIN s : v[i] \in Nat PROVE v \in Seq(Nat) /\ SeqSum(v) \in Nat
    <2>1. v \in [1..Len(s) -> Nat]
      BY <1>1, <1>3
    <2> QED
      BY <1>1, <2>1, FunctionIsSeq, SeqSumNat
  <1> QED
    BY <1>2, <1>3

\* A document line, and the receipt row it draws from.
LEMMA LineFields ==
  ASSUME NEW x \in DocumentLine
  PROVE  /\ x.line \in Lines /\ x.from \in {None} \cup Nat /\ x.qty \in Nat \ {0}
         /\ x.net \in Nat /\ x.tax \in Nat /\ x.debited \in Nat
  BY DEF DocumentLine

\* The accrual a line of received goods clears.
LEMMA AccrualNat ==
  ASSUME Typed, NEW x \in DocumentLine, x.from \in {None} \cup DOMAIN receipts
  PROVE  Accrual(x) \in Nat /\ ClearedAccrual(x) \in Nat
  <1>1. CASE x.line \in Goods /\ x.from # None
    <2>1. receipts[x.from].line \in Lines
      BY <1>1, Rows DEF ReceiptRow
    <2>2. UnitCost(receipts[x.from].line) \in Nat /\ x.qty \in Nat
      BY <2>1, CostValue, LineFields
    <2>3. x.qty * UnitCost(receipts[x.from].line) \in Nat
      BY <2>2, Products
    <2> QED
      BY <1>1, <2>3, CostValue DEF Accrual, ClearedAccrual
  <1>2. CASE ~(x.line \in Goods /\ x.from # None)
    BY <1>2 DEF Accrual, ClearedAccrual
  <1> QED
    BY <1>1, <1>2

(* The totals of document lines. *)
LEMMA LineTotals ==
  ASSUME NEW ls \in Seq(DocumentLine)
  PROVE  /\ Total(ls, "net") \in Nat /\ Total(ls, "tax") \in Nat
         /\ BaseTotal(ls) \in Nat /\ BaseTax(ls) \in Nat
         /\ BaseTotal(ls) > 0 => Total(ls, "net") + Total(ls, "tax") > 0
  <1>1. \A i \in DOMAIN ls : ls[i].net \in Nat /\ ls[i].tax \in Nat
    BY LineFields
  <1>2. Total(ls, "net") \in Nat
    <2> DEFINE v == [i \in DOMAIN ls |-> ls[i]["net"]]
    <2>1. v = [i \in DOMAIN ls |-> v[i]] /\ \A i \in DOMAIN ls : v[i] \in Nat
      BY <1>1
    <2> HIDE DEF v
    <2> QED
      BY <2>1, SumOfRow DEF Total, v
  <1>3. Total(ls, "tax") \in Nat
    <2> DEFINE v == [i \in DOMAIN ls |-> ls[i]["tax"]]
    <2>1. v = [i \in DOMAIN ls |-> v[i]] /\ \A i \in DOMAIN ls : v[i] \in Nat
      BY <1>1
    <2> HIDE DEF v
    <2> QED
      BY <2>1, SumOfRow DEF Total, v
  <1>4. BaseTax(ls) \in Nat
    <2> DEFINE v == [i \in DOMAIN ls |-> IF Always(ls[i]) THEN Base(ls[i].tax) ELSE 0]
    <2>1. v = [i \in DOMAIN ls |-> v[i]] /\ \A i \in DOMAIN ls : v[i] \in Nat
      BY <1>1, BaseValue
    <2> HIDE DEF v
    <2> QED
      BY <2>1, SumOfRow DEF BaseTax, SumWhere, v
  <1>5. Total(ls, "net") + Total(ls, "tax") \in Nat
    BY <1>2, <1>3
  <1>6. BaseTotal(ls) \in Nat
    BY <1>5, BaseValue DEF BaseTotal
  <1>7. BaseTotal(ls) > 0 => Total(ls, "net") + Total(ls, "tax") > 0
    BY <1>5, BaseValue DEF BaseTotal
  <1> QED
    BY <1>2, <1>3, <1>4, <1>6, <1>7

(* What document lines clear and what they leave to the expense account. *)
LEMMA ClearedTotals ==
  ASSUME Typed, NEW ls \in Seq(DocumentLine), FromReceipts(ls)
  PROVE  Cleared(ls) \in Int /\ Expense(ls) \in Int
  <1>1. \A i \in DOMAIN ls : ClearedAccrual(ls[i]) \in Nat /\ Base(ls[i].net) \in Nat
    <2>1. ASSUME NEW i \in DOMAIN ls
          PROVE  ClearedAccrual(ls[i]) \in Nat /\ Base(ls[i].net) \in Nat
      <3>1. ls[i] \in DocumentLine /\ ls[i].from \in {None} \cup DOMAIN receipts
        BY DEF FromReceipts
      <3> QED
        BY <3>1, AccrualNat, LineFields, BaseValue
    <2> QED
      BY <2>1
  <1>2. Cleared(ls) \in Int
    <2> DEFINE v == [i \in DOMAIN ls |-> IF Always(ls[i]) THEN ClearedAccrual(ls[i]) ELSE 0]
    <2>1. v = [i \in DOMAIN ls |-> v[i]] /\ \A i \in DOMAIN ls : v[i] \in Int
      BY <1>1
    <2> HIDE DEF v
    <2> QED
      BY <2>1, SumOfRow DEF Cleared, SumWhere, v
  <1>3. Expense(ls) \in Int
    <2> DEFINE v == [i \in DOMAIN ls |->
                       IF Always(ls[i]) THEN Base(ls[i].net) - ClearedAccrual(ls[i]) ELSE 0]
    <2>1. v = [i \in DOMAIN ls |-> v[i]] /\ \A i \in DOMAIN ls : v[i] \in Int
      BY <1>1
    <2> HIDE DEF v
    <2> QED
      BY <2>1, SumOfRow DEF Expense, SumWhere, v
  <1> QED
    BY <1>2, <1>3

(* Settling part of what a document has open. *)
LEMMA SettledDocument ==
  ASSUME NEW d \in Document, Open(d), NEW x \in Nat \ {0}, x <= d.outstanding
  PROVE  /\ Settled(d, x) \in Document /\ Open(Settled(d, x))
         /\ Settled(d, x).type = d.type /\ Settled(d, x).against = d.against
         /\ Settled(d, x).total = d.total /\ Settled(d, x).lines = d.lines
         /\ Settled(d, x).outstanding = d.outstanding - x
  <1> DEFINE e == Settled(d, x)
  <1>1. d.total \in Nat /\ d.outstanding \in Nat /\ d.lines \in Seq(DocumentLine)
    BY DEF Document
  <1>0. d.total > 0 /\ d.outstanding <= d.total
    BY DEF Open
  <1>2. /\ e.type = d.type /\ e.against = d.against /\ e.total = d.total /\ e.lines = d.lines
        /\ e.outstanding = d.outstanding - x
    BY DEF Settled, Document
  <1>10. e.status = IF d.outstanding = x THEN "Paid" ELSE "Partly Paid"
    BY DEF Settled, Document
  <1>3. d.outstanding - x \in Nat
    BY <1>0, <1>1
  <1>4. e \in Document
    BY <1>3 DEF Settled, Document, DocumentStatuses
  <1> HIDE DEF e
  <1>5. e.total > 0 /\ e.outstanding <= e.total
    BY <1>0, <1>1, <1>2
  <1>6. e.outstanding # e.total /\ (e.outstanding = 0 <=> d.outstanding = x)
    BY <1>0, <1>1, <1>2
  <1>7. \A j \in DOMAIN e.lines : e.lines[j].debited <= e.lines[j].qty
    BY <1>2 DEF Open
  <1>8. Open(e)
    BY <1>10, <1>5, <1>6, <1>7 DEF Open
  <1> QED
    BY <1>2, <1>4, <1>8 DEF e

(* A new document of lines none of which is debited. *)
Fresh(ls) == \A j \in DOMAIN ls : ls[j].debited = 0

(* What a document of these lines is when it is made. *)
NewDocumentIs(d, type, against, ls) ==
    /\ d \in Document /\ Open(d) /\ d.type = type /\ d.against = against
    /\ d.total = Total(ls, "net") + Total(ls, "tax") /\ d.total \in Nat \ {0}
    /\ d.outstanding = d.total /\ d.lines = ls

\* A document made from lines that post is an open one.
LEMMA NewIsDocument ==
  ASSUME NEW type \in Kinds, NEW against \in {None} \cup Nat,
         NEW ls \in Seq(DocumentLine), Posts(ls), Fresh(ls)
  PROVE  NewDocumentIs(NewDocument(type, against, ls), type, against, ls)
  <1> DEFINE total == Total(ls, "net") + Total(ls, "tax")
             d == NewDocument(type, against, ls)
  <1>1. total \in Nat \ {0}
    <2>1. Total(ls, "net") \in Nat /\ Total(ls, "tax") \in Nat /\ BaseTotal(ls) > 0
      BY LineTotals DEF Posts
    <2>2. total > 0
      BY <2>1, LineTotals
    <2> QED
      BY <2>1, <2>2
  <1>2. /\ d.type = type /\ d.against = against /\ d.total = total /\ d.outstanding = total
        /\ d.lines = ls
    BY DEF NewDocument
  <1>7. d.status = "Unpaid"
    BY DEF NewDocument
  <1>3. d \in Document
    <2> HIDE DEF total
    <2> QED
      BY <1>1 DEF NewDocument, Document, DocumentStatuses, total
  <1>4. \A j \in DOMAIN ls : ls[j].debited <= ls[j].qty
    <2>1. \A j \in DOMAIN ls : ls[j].qty \in Nat
      BY LineFields
    <2> QED
      BY <2>1 DEF Fresh
  <1> HIDE DEF total, d
  <1>5. d.total > 0 /\ d.outstanding <= d.total
    BY <1>1, <1>2
  <1>6. Open(d)
    BY <1>2, <1>7, <1>4, <1>5 DEF Open
  <1> QED
    BY <1>1, <1>2, <1>3, <1>6 DEF total, d, NewDocumentIs

-----------------------------------------------------------------------------
(* What each handler does to the rows. *)

(* A voucher changes the accounts it names and no other. *)
LEMMA Vouchers ==
  ASSUME Typed, NEW x \in Int, NEW y \in Int, NEW z \in Int, NEW u \in Int
  PROVE  /\ gl' = [gl EXCEPT !.inventory = @ + x, !.grni = @ - x] =>
               /\ gl' \in [Accounts -> Int] /\ gl'.grni = gl.grni - x
               /\ gl'.ap = gl.ap /\ gl'.fx = gl.fx
         /\ gl' = [gl EXCEPT !.grni = @ + x, !.inventory = @ - x] =>
               /\ gl' \in [Accounts -> Int] /\ gl'.grni = gl.grni + x
               /\ gl'.ap = gl.ap /\ gl'.fx = gl.fx
         /\ gl' = [gl EXCEPT !.grni = @ + x, !.expense = @ + y, !.tax = @ + z, !.ap = @ - u] =>
               /\ gl' \in [Accounts -> Int] /\ gl'.grni = gl.grni + x
               /\ gl'.ap = gl.ap - u /\ gl'.fx = gl.fx
         /\ gl' = [gl EXCEPT !.grni = @ - x, !.expense = @ - y, !.tax = @ - z, !.ap = @ + u] =>
               /\ gl' \in [Accounts -> Int] /\ gl'.grni = gl.grni - x
               /\ gl'.ap = gl.ap + u /\ gl'.fx = gl.fx
         /\ gl' = [gl EXCEPT !.ap = @ + x, !.bank = @ - y, !.fx = @ + z] =>
               /\ gl' \in [Accounts -> Int] /\ gl'.grni = gl.grni
               /\ gl'.ap = gl.ap + x /\ gl'.fx = gl.fx + z
  <1>1. /\ DOMAIN gl = {"inventory", "grni", "expense", "tax", "ap", "bank", "fx"}
        /\ Accounts = {"inventory", "grni", "expense", "tax", "ap", "bank", "fx"}
    BY DEF Typed, Accounts
  <1>7. gl \in [Accounts -> Int] /\ \A a \in Accounts : gl[a] \in Int
    BY DEF Typed
  <1>2. ASSUME gl' = [gl EXCEPT !.inventory = @ + x, !.grni = @ - x]
        PROVE  /\ gl' \in [Accounts -> Int] /\ gl'.grni = gl.grni - x
               /\ gl'.ap = gl.ap /\ gl'.fx = gl.fx
    <2>1. gl'.grni = gl.grni - x /\ gl'.ap = gl.ap /\ gl'.fx = gl.fx
      BY <1>1, <1>2
    <2>2. gl' = [a \in Accounts |-> IF a = "inventory" THEN gl[a] + x
                      ELSE IF a = "grni" THEN gl[a] - x ELSE gl[a]]
      BY <1>7, <1>2 DEF Accounts
    <2>3. gl' \in [Accounts -> Int]
      BY <1>7, <2>2
    <2> QED
      BY <2>1, <2>3
  <1>3. ASSUME gl' = [gl EXCEPT !.grni = @ + x, !.inventory = @ - x]
        PROVE  /\ gl' \in [Accounts -> Int] /\ gl'.grni = gl.grni + x
               /\ gl'.ap = gl.ap /\ gl'.fx = gl.fx
    <2>1. gl'.grni = gl.grni + x /\ gl'.ap = gl.ap /\ gl'.fx = gl.fx
      BY <1>1, <1>3
    <2>2. gl' = [a \in Accounts |-> IF a = "grni" THEN gl[a] + x
                      ELSE IF a = "inventory" THEN gl[a] - x ELSE gl[a]]
      BY <1>7, <1>3 DEF Accounts
    <2>3. gl' \in [Accounts -> Int]
      BY <1>7, <2>2
    <2> QED
      BY <2>1, <2>3
  <1>4. ASSUME gl' = [gl EXCEPT !.grni = @ + x, !.expense = @ + y, !.tax = @ + z, !.ap = @ - u]
        PROVE  /\ gl' \in [Accounts -> Int] /\ gl'.grni = gl.grni + x
               /\ gl'.ap = gl.ap - u /\ gl'.fx = gl.fx
    <2>1. gl'.grni = gl.grni + x /\ gl'.ap = gl.ap - u /\ gl'.fx = gl.fx
      BY <1>1, <1>4
    <2>2. gl' = [a \in Accounts |-> IF a = "grni" THEN gl[a] + x
                      ELSE IF a = "expense" THEN gl[a] + y
                      ELSE IF a = "tax" THEN gl[a] + z
                      ELSE IF a = "ap" THEN gl[a] - u ELSE gl[a]]
      BY <1>7, <1>4 DEF Accounts
    <2>3. gl' \in [Accounts -> Int]
      BY <1>7, <2>2
    <2> QED
      BY <2>1, <2>3
  <1>5. ASSUME gl' = [gl EXCEPT !.grni = @ - x, !.expense = @ - y, !.tax = @ - z, !.ap = @ + u]
        PROVE  /\ gl' \in [Accounts -> Int] /\ gl'.grni = gl.grni - x
               /\ gl'.ap = gl.ap + u /\ gl'.fx = gl.fx
    <2>1. gl'.grni = gl.grni - x /\ gl'.ap = gl.ap + u /\ gl'.fx = gl.fx
      BY <1>1, <1>5
    <2>2. gl' = [a \in Accounts |-> IF a = "grni" THEN gl[a] - x
                      ELSE IF a = "expense" THEN gl[a] - y
                      ELSE IF a = "tax" THEN gl[a] - z
                      ELSE IF a = "ap" THEN gl[a] + u ELSE gl[a]]
      BY <1>7, <1>5 DEF Accounts
    <2>3. gl' \in [Accounts -> Int]
      BY <1>7, <2>2
    <2> QED
      BY <2>1, <2>3
  <1>6. ASSUME gl' = [gl EXCEPT !.ap = @ + x, !.bank = @ - y, !.fx = @ + z]
        PROVE  /\ gl' \in [Accounts -> Int] /\ gl'.grni = gl.grni
               /\ gl'.ap = gl.ap + x /\ gl'.fx = gl.fx + z
    <2>1. gl'.grni = gl.grni /\ gl'.ap = gl.ap + x /\ gl'.fx = gl.fx + z
      BY <1>1, <1>6
    <2>2. gl' = [a \in Accounts |-> IF a = "ap" THEN gl[a] + x
                      ELSE IF a = "bank" THEN gl[a] - y
                      ELSE IF a = "fx" THEN gl[a] + z ELSE gl[a]]
      BY <1>7, <1>6 DEF Accounts
    <2>3. gl' \in [Accounts -> Int]
      BY <1>7, <2>2
    <2> QED
      BY <2>1, <2>3
  <1> QED
    BY <1>2, <1>3, <1>4, <1>5, <1>6

(* The lines of a request, as rows. *)
LEMMA Requested ==
  ASSUME NEW S, NEW request \in Seq(Ask(S))
  PROVE  /\ DOMAIN request = 1..Len(request) /\ Len(request) \in Nat
         /\ \A i \in DOMAIN request : request[i].at \in S /\ request[i].qty \in Nat \ {0}
         /\ \A i \in DOMAIN request : request[i].qty \in Nat
         /\ \A l : Asked(request, l) \in Nat
         /\ \A l : (\A i \in DOMAIN request : request[i].at # l) => Asked(request, l) = 0
  <1>1. /\ DOMAIN request = 1..Len(request) /\ Len(request) \in Nat
        /\ \A i \in DOMAIN request : request[i] \in Ask(S)
    OBVIOUS
  <1>2. \A i \in DOMAIN request : request[i].at \in S /\ request[i].qty \in Nat \ {0}
    BY <1>1 DEF Ask
  <1>3. \A i \in DOMAIN request : request[i].qty \in Nat
    BY <1>2
  <1> QED
    BY <1>1, <1>2, <1>3, AskedNat

\* The fields of a receipt row.
LEMMA RowFields ==
  ASSUME NEW r \in ReceiptRow
  PROVE  /\ r.doc \in Nat /\ r.kind \in Movements /\ r.line \in Lines
         /\ r.accepted \in Nat /\ r.rejected \in Nat /\ r.billed \in Nat
         /\ r.acceptedReturned \in Nat /\ r.rejectedReturned \in Nat
         /\ Quantity(r) \in Nat /\ Quantity(r) = r.accepted + r.rejected
  BY DEF ReceiptRow, Quantity

(* Rows a handler adds: nothing of them is returned or billed yet. *)
NewRows(kind, new) ==
    \A i \in DOMAIN new :
        /\ new[i].doc = Len(receipts) + 1 /\ new[i].kind = kind
        /\ Quantity(new[i]) > 0 /\ new[i].billed = 0
        /\ new[i].acceptedReturned = 0 /\ new[i].rejectedReturned = 0

(* The rows of a receipt. *)
Arrived(request, new) ==
    /\ DOMAIN new = DOMAIN request /\ NewRows("Receipt", new)
    /\ \A i \in DOMAIN new :
          /\ new[i].line = request[i].at
          /\ Quantity(new[i]) = Quantity(request[i].parts)

\* What rows bring of an order line.
BroughtBy(rows, l) == SumWhere(rows, LAMBDA r : r.line = l, Quantity)

\* A new row, from what it takes.
NewRowIs(r, doc, kind, l, a, b) ==
    /\ r \in ReceiptRow /\ r.doc = doc /\ r.kind = kind /\ r.line = l
    /\ r.accepted = a /\ r.rejected = b /\ r.billed = 0 /\ Quantity(r) = a + b
    /\ r.acceptedReturned = 0 /\ r.rejectedReturned = 0

\* A row that is made is such a row.
LEMMA NewRow ==
  ASSUME NEW doc \in Nat, NEW kind \in Movements, NEW l \in Lines,
         NEW a \in Nat, NEW b \in Nat
  PROVE  NewRowIs(ReceiptLine(doc, kind, l, a, b), doc, kind, l, a, b)
  BY DEF ReceiptLine, ReceiptRow, Quantity, NewRowIs

\* The cost of goods rows is an integer.
LEMMA GoodsCostNat ==
  ASSUME NEW new \in Seq(ReceiptRow)
  PROVE  /\ GoodsCost(new) \in Int /\ Booked(GoodsCost(new)) \in Int
         /\ ReturnValue(new) \in Int
  <1>1. ASSUME NEW r \in ReceiptRow PROVE Quantity(r) * UnitCost(r.line) \in Int
    <2>1. Quantity(r) \in Nat /\ UnitCost(r.line) \in Nat
      BY RowFields, CostValue
    <2> QED
      BY <2>1, Products
  <1>2. \A i \in DOMAIN new : Quantity(new[i]) * UnitCost(new[i].line) \in Int
    BY <1>1
  <1>3. GoodsCost(new) \in Int
    <2> DEFINE v == [i \in DOMAIN new |-> IF new[i].line \in Goods
                        THEN Quantity(new[i]) * UnitCost(new[i].line) ELSE 0]
    <2>1. v = [i \in DOMAIN new |-> v[i]] /\ \A i \in DOMAIN new : v[i] \in Int
      BY <1>2
    <2> HIDE DEF v
    <2> QED
      BY <2>1, SumOfRow DEF GoodsCost, SumWhere, v
  <1>4. ReturnValue(new) \in Int
    <2> DEFINE v == [i \in DOMAIN new |-> IF Always(new[i])
                        THEN Quantity(new[i]) * UnitCost(new[i].line) ELSE 0]
    <2>1. v = [i \in DOMAIN new |-> v[i]] /\ \A i \in DOMAIN new : v[i] \in Int
      BY <1>2
    <2> HIDE DEF v
    <2>2. SeqSum(v) \in Int
      BY <2>1, SumOfRow
    <2>3. SumWhere(new, Always, LAMBDA r : Quantity(r) * UnitCost(r.line)) = SeqSum(v)
      BY DEF SumWhere, v
    <2> QED
      BY <2>2, <2>3, CostValue DEF ReturnValue
  <1> QED
    BY <1>3, <1>4, CostValue

\* What rows bring of a line is a natural number.
LEMMA BroughtNat ==
  ASSUME NEW new \in Seq(ReceiptRow), NEW l
  PROVE  BroughtBy(new, l) \in Nat
  <1> DEFINE v == [i \in DOMAIN new |-> IF new[i].line = l THEN Quantity(new[i]) ELSE 0]
  <1>1. v = [i \in DOMAIN new |-> v[i]] /\ \A i \in DOMAIN new : v[i] \in Nat
    BY RowFields
  <1> HIDE DEF v
  <1> QED
    BY <1>1, SumOfRow DEF BroughtBy, SumWhere, v

(* A receipt adds one row a request, posts its cost and counts it. *)
LEMMA ReceiveRows ==
  ASSUME Typed, NEW request \in Seq(Arrival), ReceiveLines(request)
  PROVE  \E new \in Seq(ReceiptRow) :
            /\ Arrived(request, new) /\ receipts' = receipts \o new
            /\ gl' = [gl EXCEPT !.inventory = @ + Booked(GoodsCost(new)),
                                !.grni = @ - Booked(GoodsCost(new))]
            /\ \A l \in Lines : Arriving(request, l) = BroughtBy(new, l)
  <1> DEFINE row(i) == ReceiptLine(Len(receipts) + 1, "Receipt", request[i].at,
                                   request[i].parts.accepted, request[i].parts.rejected)
             new == [i \in DOMAIN request |-> row(i)]
  <1>1. /\ receipts' = receipts \o new
        /\ gl' = [gl EXCEPT !.inventory = @ + Booked(GoodsCost(new)),
                            !.grni = @ - Booked(GoodsCost(new))]
    BY DEF ReceiveLines
  <1>2. /\ DOMAIN request = 1..Len(request) /\ Len(request) \in Nat
        /\ \A i \in DOMAIN request : request[i] \in Arrival
    OBVIOUS
  <1>3. \A i \in DOMAIN request : /\ request[i].at \in Lines
                                  /\ request[i].parts.accepted \in Nat
                                  /\ request[i].parts.rejected \in Nat
    <2>1. \A x \in Arrival : /\ x.at \in Lines /\ x.parts.accepted \in Nat
                             /\ x.parts.rejected \in Nat
      BY DEF Arrival
    <2> QED
      BY <1>2, <2>1
  <1>4. Len(receipts) + 1 \in Nat /\ "Receipt" \in Movements
    BY Rows DEF Movements
  <1>5. \A i \in DOMAIN request :
           NewRowIs(row(i), Len(receipts) + 1, "Receipt", request[i].at,
                    request[i].parts.accepted, request[i].parts.rejected)
    BY <1>3, <1>4, NewRow
  <1> HIDE DEF row
  <1>6. new \in Seq(ReceiptRow) /\ DOMAIN new = DOMAIN request
    <2>1. new \in [1..Len(request) -> ReceiptRow]
      BY <1>2, <1>5 DEF NewRowIs
    <2> QED
      BY <1>2, <2>1, FunctionIsSeq
  <1>7. \A i \in DOMAIN request : Quantity(new[i]) = Quantity(request[i].parts)
    BY <1>5 DEF Quantity, NewRowIs
  <1>8. \A i \in DOMAIN request : Quantity(new[i]) > 0
    BY <1>7 DEF ReceiveLines, ReceiptAllowed
  <1>9. Arrived(request, new)
    <2>1. \A i \in DOMAIN request : new[i] = row(i)
      OBVIOUS
    <2> HIDE DEF new
    <2> QED
      BY <1>5, <1>6, <1>7, <1>8, <2>1 DEF Arrived, NewRows, NewRowIs
  <1>10. ASSUME NEW l \in Lines PROVE Arriving(request, l) = BroughtBy(new, l)
    <2>1. [i \in DOMAIN request |-> IF request[i].at = l THEN Quantity(request[i].parts) ELSE 0]
          = [i \in DOMAIN new |-> IF new[i].line = l THEN Quantity(new[i]) ELSE 0]
      <3> HIDE DEF new
      <3> QED
        BY <1>6, <1>9 DEF Arrived
    <2> QED
      BY <2>1 DEF Arriving, BroughtBy, SumWhere
  <1> HIDE DEF new
  <1> QED
    BY <1>1, <1>6, <1>9, <1>10

(* Rows that are in their order and give back at most what they took. *)
Kept(old) ==
    /\ DOMAIN old = DOMAIN receipts
    /\ \A k \in DOMAIN old :
          /\ 1 <= old[k].doc /\ old[k].doc <= k /\ Quantity(old[k]) > 0
          /\ old[k].acceptedReturned <= old[k].accepted
          /\ old[k].rejectedReturned <= old[k].rejected
          /\ old[k].kind = "Return" =>
                old[k].acceptedReturned = 0 /\ old[k].rejectedReturned = 0

\* Rows added at the end, and the links of the documents to them.
LEMMA ReceiptsGrow ==
  ASSUME Sound, NEW old \in Seq(ReceiptRow), NEW new \in Seq(ReceiptRow),
         receipts' = old \o new, invoices' = invoices,
         Kept(old), NEW kind, NewRows(kind, new)
  PROVE  receipts' \in Seq(ReceiptRow) /\ ReceiptsSound' /\ DocumentsSound'
  <1>1. receipts' \in Seq(ReceiptRow)
    OBVIOUS
  <1>2. /\ DOMAIN old = 1..Len(old) /\ Len(old) \in Nat /\ Len(old) = Len(receipts)
        /\ DOMAIN new = 1..Len(new) /\ Len(new) \in Nat
        /\ DOMAIN receipts' = 1..(Len(old) + Len(new)) /\ Len(receipts') = Len(old) + Len(new)
        /\ DOMAIN receipts = 1..Len(receipts) /\ Len(receipts) \in Nat
    BY Rows DEF Sound, Kept
  <1>3. ASSUME NEW k \in DOMAIN receipts'
        PROVE  \/ k \in DOMAIN old /\ receipts'[k] = old[k]
               \/ /\ k - Len(old) \in DOMAIN new /\ k >= Len(old) + 1
                  /\ receipts'[k] = new[k - Len(old)]
    <2>1. CASE k <= Len(old)
      BY <1>2, <2>1
    <2>2. CASE k > Len(old)
      BY <1>2, <2>2
    <2> QED
      BY <1>2, <2>1, <2>2
  <1>4. ReceiptsSound'
    <2>1. ASSUME NEW k \in DOMAIN receipts'
          PROVE  /\ 1 <= receipts'[k].doc /\ receipts'[k].doc <= k
                 /\ Quantity(receipts'[k]) > 0
                 /\ receipts'[k].acceptedReturned <= receipts'[k].accepted
                 /\ receipts'[k].rejectedReturned <= receipts'[k].rejected
                 /\ receipts'[k].kind = "Return" =>
                       receipts'[k].acceptedReturned = 0 /\ receipts'[k].rejectedReturned = 0
      <3>1. CASE k \in DOMAIN old /\ receipts'[k] = old[k]
        BY <3>1 DEF Kept
      <3>2. CASE /\ k - Len(old) \in DOMAIN new /\ k >= Len(old) + 1
                 /\ receipts'[k] = new[k - Len(old)]
        <4>1. PICK i \in DOMAIN new : i = k - Len(old) /\ receipts'[k] = new[i]
          BY <3>2
        <4>2. new[i] \in ReceiptRow
          OBVIOUS
        <4>3. new[i].accepted \in Nat /\ new[i].rejected \in Nat
          BY <4>2, RowFields
        <4>4. /\ new[i].doc = Len(receipts) + 1 /\ Quantity(new[i]) > 0
              /\ new[i].acceptedReturned = 0 /\ new[i].rejectedReturned = 0
          BY DEF NewRows
        <4>5. 1 <= new[i].doc /\ new[i].doc <= k
          BY <1>2, <3>2, <4>4
        <4> QED
          BY <4>1, <4>3, <4>4, <4>5
      <3> QED
        BY <1>3, <3>1, <3>2
    <2> QED
      BY <2>1 DEF ReceiptsSound, Quantity
  <1>5. DOMAIN receipts \subseteq DOMAIN receipts'
    BY <1>2
  <1>6. DocumentsSound'
    BY <1>5 DEF Sound, DocumentsSound, Open, FromReceipts
  <1> QED
    BY <1>1, <1>4, <1>6

\* The counters of a line after more was received or returned.
LEMMA CountersGrow ==
  ASSUME NEW c \in Counters, NEW q \in Nat
  PROVE  /\ [c EXCEPT !.received = @ + q] \in Counters
         /\ [c EXCEPT !.returned = @ + q] \in Counters
         /\ [c EXCEPT !.invoiced = @ + q] \in Counters
         /\ [c EXCEPT !.invoiced = IF @ > q THEN @ - q ELSE 0] \in Counters
  BY DEF Counters

\* A receipt keeps the invariant.
LEMMA ReceiveSound ==
  ASSUME Sound, NEW request \in Seq(Arrival), ReceiveLines(request)
  PROVE  Sound'
  <1>1. Typed /\ ReceiptsSound
    BY DEF Sound
  <1>2. PICK new \in Seq(ReceiptRow) :
            /\ Arrived(request, new) /\ receipts' = receipts \o new
            /\ gl' = [gl EXCEPT !.inventory = @ + Booked(GoodsCost(new)),
                                !.grni = @ - Booked(GoodsCost(new))]
            /\ \A l \in Lines : Arriving(request, l) = BroughtBy(new, l)
    BY <1>1, ReceiveRows
  <1>3. line' \in [Lines -> Counters]
    <2>1. ASSUME NEW l \in Lines
          PROVE  [line[l] EXCEPT !.received = @ + Arriving(request, l)] \in Counters
      <3>1. line[l] \in Counters /\ Arriving(request, l) \in Nat
        BY <1>1, <1>2, Rows, BroughtNat
      <3> QED
        BY <3>1, CountersGrow
    <2> QED
      BY <2>1 DEF ReceiveLines
  <1>4. gl' \in [Accounts -> Int]
    <2>1. Booked(GoodsCost(new)) \in Int
      BY GoodsCostNat
    <2> QED
      BY <1>1, <1>2, <2>1, Vouchers
  <1>5. UNCHANGED <<invoices, payments, party>> /\ Refreshed
    BY DEF ReceiveLines
  <1>6. receipts' \in Seq(ReceiptRow) /\ ReceiptsSound' /\ DocumentsSound'
    <2>1. receipts \in Seq(ReceiptRow) /\ Kept(receipts)
      BY <1>1 DEF Typed, ReceiptsSound, Kept
    <2>2. NewRows("Receipt", new)
      BY <1>2 DEF Arrived
    <2> QED
      BY <1>2, <1>5, <2>1, <2>2, ReceiptsGrow
  <1>7. Typed'
    BY <1>1, <1>3, <1>4, <1>5, <1>6, RefreshIsTyped DEF Typed
  <1> QED
    BY <1>6, <1>7 DEF Sound

(* The lines of a request for a return, as rows. *)
LEMMA Returning ==
  ASSUME NEW S, NEW request \in Seq(Back(S))
  PROVE  /\ DOMAIN request = 1..Len(request) /\ Len(request) \in Nat
         /\ \A i \in DOMAIN request : /\ request[i].at \in S /\ request[i].qty \in Nat \ {0}
                                      /\ request[i].rejected \in BOOLEAN
         /\ \A k : Taken(request, k, FALSE) \in Nat /\ Taken(request, k, TRUE) \in Nat
         /\ \A k : (\A i \in DOMAIN request : request[i].at # k) =>
                      Taken(request, k, FALSE) = 0 /\ Taken(request, k, TRUE) = 0
         /\ \A k : (\A i \in DOMAIN request : ~(request[i].at = k /\ request[i].rejected = TRUE))
                      => Taken(request, k, TRUE) = 0
         /\ \A k : (\A i \in DOMAIN request : ~(request[i].at = k /\ request[i].rejected = FALSE))
                      => Taken(request, k, FALSE) = 0
  <1>1. /\ DOMAIN request = 1..Len(request) /\ Len(request) \in Nat
        /\ \A i \in DOMAIN request : request[i] \in Back(S)
    OBVIOUS
  <1>2. \A i \in DOMAIN request : /\ request[i].at \in S /\ request[i].qty \in Nat \ {0}
                                  /\ request[i].rejected \in BOOLEAN
    BY <1>1 DEF Back
  <1>3. ASSUME NEW k, NEW b
        PROVE  /\ Taken(request, k, b) \in Nat
               /\ (\A i \in DOMAIN request : ~(request[i].at = k /\ request[i].rejected = b))
                     => Taken(request, k, b) = 0
    <2> DEFINE v == [i \in DOMAIN request |->
                        IF request[i].at = k /\ request[i].rejected = b
                        THEN request[i].qty ELSE 0]
    <2>1. v = [i \in DOMAIN request |-> v[i]] /\ \A i \in DOMAIN request : v[i] \in Nat
      BY <1>2
    <2>2. Taken(request, k, b) = SeqSum(v)
      BY DEF Taken, SumWhere
    <2>3. (\A i \in DOMAIN request : ~(request[i].at = k /\ request[i].rejected = b))
             => \A i \in DOMAIN v : v[i] = 0
      OBVIOUS
    <2> HIDE DEF v
    <2>4. v \in Seq(Nat) /\ v \in Seq(Int) /\ SeqSum(v) \in Nat
      BY <2>1, SumOfRow
    <2> QED
      BY <2>2, <2>3, <2>4, SeqSumZero
  <1>4. ASSUME NEW k, NEW b, \A i \in DOMAIN request : request[i].at # k
        PROVE  Taken(request, k, b) = 0
    BY <1>3, <1>4
  <1> QED
    BY <1>1, <1>2, <1>3, <1>4

(* The rows of a return, and the receipt rows they take from. *)
TakenFrom(request, old) ==
    /\ DOMAIN old = DOMAIN receipts
    /\ \A k \in DOMAIN receipts :
          /\ old[k].doc = receipts[k].doc /\ old[k].kind = receipts[k].kind
          /\ old[k].line = receipts[k].line /\ old[k].billed = receipts[k].billed
          /\ old[k].accepted = receipts[k].accepted /\ old[k].rejected = receipts[k].rejected
          /\ old[k].acceptedReturned
                = receipts[k].acceptedReturned + Taken(request, k, FALSE)
          /\ old[k].rejectedReturned
                = receipts[k].rejectedReturned + Taken(request, k, TRUE)
          /\ old[k].acceptedReturned <= receipts[k].accepted
          /\ old[k].rejectedReturned <= receipts[k].rejected
          /\ receipts[k].kind = "Return" =>
                Taken(request, k, FALSE) = 0 /\ Taken(request, k, TRUE) = 0

AcceptedPart(x) == IF x.rejected THEN 0 ELSE x.qty
RejectedPart(x) == IF x.rejected THEN x.qty ELSE 0

SentBack(request, new) ==
    /\ DOMAIN new = DOMAIN request /\ NewRows("Return", new)
    /\ \A i \in DOMAIN new :
          /\ receipts[request[i].at].kind = "Receipt"
          /\ new[i].line = receipts[request[i].at].line
          /\ new[i].accepted = AcceptedPart(request[i])
          /\ new[i].rejected = RejectedPart(request[i])
          /\ Quantity(new[i]) = request[i].qty

\* A row after parts of it were sent back.
Shrunk(s, r, a, b) ==
    /\ s \in ReceiptRow /\ s.doc = r.doc /\ s.kind = r.kind /\ s.line = r.line
    /\ s.accepted = r.accepted /\ s.rejected = r.rejected /\ s.billed = r.billed
    /\ s.acceptedReturned = r.acceptedReturned + a
    /\ s.rejectedReturned = r.rejectedReturned + b

\* The receipt rows a return takes from.
LEMMA ReturnTakes ==
  ASSUME Typed, ReceiptsSound, NEW request \in Seq(Back(DOMAIN receipts)), ReturnAllowed(request)
  PROVE  LET old == [k \in DOMAIN receipts |->
                        Returned(receipts[k], Taken(request, k, FALSE), Taken(request, k, TRUE))]
         IN  old \in Seq(ReceiptRow) /\ TakenFrom(request, old)
  <1> DEFINE back(k) == Returned(receipts[k], Taken(request, k, FALSE), Taken(request, k, TRUE))
             old == [k \in DOMAIN receipts |-> back(k)]
  <1>1. \A k \in DOMAIN receipts : receipts[k] \in ReceiptRow
    BY Rows
  <1>2. ASSUME NEW k \in DOMAIN receipts
        PROVE  /\ receipts[k].acceptedReturned + Taken(request, k, FALSE) <= receipts[k].accepted
               /\ receipts[k].rejectedReturned + Taken(request, k, TRUE) <= receipts[k].rejected
               /\ receipts[k].kind = "Return" =>
                     Taken(request, k, FALSE) = 0 /\ Taken(request, k, TRUE) = 0
    <2>1. CASE \E i \in DOMAIN request : request[i].at = k
      BY <2>1 DEF ReturnAllowed
    <2>2. CASE \A i \in DOMAIN request : request[i].at # k
      <3>1. Taken(request, k, FALSE) = 0 /\ Taken(request, k, TRUE) = 0
        BY <2>2, Returning
      <3>2. /\ receipts[k].acceptedReturned <= receipts[k].accepted
            /\ receipts[k].rejectedReturned <= receipts[k].rejected
            /\ receipts[k].acceptedReturned \in Nat /\ receipts[k].rejectedReturned \in Nat
        BY <1>1, RowFields DEF ReceiptsSound
      <3>3. /\ receipts[k].acceptedReturned + Taken(request, k, FALSE) <= receipts[k].accepted
            /\ receipts[k].rejectedReturned + Taken(request, k, TRUE) <= receipts[k].rejected
        <4>1. /\ receipts[k].acceptedReturned + 0 = receipts[k].acceptedReturned
              /\ receipts[k].rejectedReturned + 0 = receipts[k].rejectedReturned
          BY <3>2
        <4>2. /\ receipts[k].acceptedReturned + Taken(request, k, FALSE)
                   = receipts[k].acceptedReturned
              /\ receipts[k].rejectedReturned + Taken(request, k, TRUE)
                   = receipts[k].rejectedReturned
          BY <3>1, <4>1, Zenon
        <4>3. /\ receipts[k].acceptedReturned <= receipts[k].accepted
              /\ receipts[k].rejectedReturned <= receipts[k].rejected
          BY <3>2
        <4> QED
          BY <4>2, <4>3, Zenon
      <3> QED
        BY <3>1, <3>3
    <2> QED
      BY <2>1, <2>2
  <1>3. ASSUME NEW r \in ReceiptRow, NEW a \in Nat, NEW b \in Nat
        PROVE  Shrunk(Returned(r, a, b), r, a, b)
    <2>1. r.acceptedReturned + a \in Nat /\ r.rejectedReturned + b \in Nat
      BY RowFields
    <2>2. Returned(r, a, b) = [r EXCEPT !.acceptedReturned = r.acceptedReturned + a,
                                        !.rejectedReturned = r.rejectedReturned + b]
      BY DEF Returned
    <2> QED
      BY <2>1, <2>2 DEF ReceiptRow, Shrunk
  <1>4. \A k \in DOMAIN receipts :
           Taken(request, k, FALSE) \in Nat /\ Taken(request, k, TRUE) \in Nat
    BY Returning
  <1>5. \A k \in DOMAIN receipts :
           Shrunk(back(k), receipts[k], Taken(request, k, FALSE), Taken(request, k, TRUE))
    BY <1>1, <1>3, <1>4
  <1> HIDE DEF back
  <1>6. old \in Seq(ReceiptRow) /\ DOMAIN old = DOMAIN receipts
    <2>1. old \in [1..Len(receipts) -> ReceiptRow]
      BY <1>5, Rows DEF Shrunk
    <2> QED
      BY <2>1, Rows, FunctionIsSeq
  <1>7. TakenFrom(request, old)
    <2>1. \A k \in DOMAIN receipts : old[k] = back(k)
      OBVIOUS
    <2> HIDE DEF old
    <2> QED
      BY <1>2, <1>5, <1>6, <2>1 DEF TakenFrom, Shrunk
  <1> QED
    BY <1>6, <1>7 DEF back

\* A return takes from the rows it names and adds one row a request.
LEMMA ReturnRows ==
  ASSUME Typed, ReceiptsSound, NEW request \in Seq(Back(DOMAIN receipts)), ReturnLines(request)
  PROVE  \E old \in Seq(ReceiptRow), new \in Seq(ReceiptRow) :
            /\ TakenFrom(request, old) /\ SentBack(request, new) /\ receipts' = old \o new
            /\ gl' = [gl EXCEPT !.grni = @ + ReturnValue(new),
                                !.inventory = @ - ReturnValue(new)]
            /\ line' = [l \in Lines |-> [line[l] EXCEPT !.returned = @ + BroughtBy(new, l)]]
  <1> DEFINE old == [k \in DOMAIN receipts |->
                        Returned(receipts[k], Taken(request, k, FALSE), Taken(request, k, TRUE))]
             row(i) == ReceiptLine(Len(receipts) + 1, "Return", receipts[request[i].at].line,
                                   IF request[i].rejected THEN 0 ELSE request[i].qty,
                                   IF request[i].rejected THEN request[i].qty ELSE 0)
             new == [i \in DOMAIN request |-> row(i)]
  <1>1. /\ ReturnAllowed(request) /\ receipts' = old \o new
        /\ gl' = [gl EXCEPT !.grni = @ + ReturnValue(new), !.inventory = @ - ReturnValue(new)]
        /\ line' = [l \in Lines |-> [line[l] EXCEPT !.returned = @ + BroughtBy(new, l)]]
    BY DEF ReturnLines, BroughtBy
  <1>2. old \in Seq(ReceiptRow) /\ TakenFrom(request, old)
    BY <1>1, ReturnTakes
  <1> HIDE DEF old
  <1>3. \A i \in DOMAIN request :
           /\ request[i].at \in DOMAIN receipts /\ request[i].qty \in Nat \ {0}
           /\ request[i].rejected \in BOOLEAN /\ receipts[request[i].at] \in ReceiptRow
    BY Returning, Rows
  <1>4. \A i \in DOMAIN request : receipts[request[i].at].kind = "Receipt"
    BY <1>1 DEF ReturnAllowed
  <1>5. \A i \in DOMAIN request :
           /\ receipts[request[i].at].line \in Lines
           /\ AcceptedPart(request[i]) \in Nat /\ RejectedPart(request[i]) \in Nat
           /\ AcceptedPart(request[i]) + RejectedPart(request[i]) = request[i].qty
           /\ request[i].qty > 0
    BY <1>3, RowFields DEF AcceptedPart, RejectedPart
  <1>6. Len(receipts) + 1 \in Nat /\ "Return" \in Movements
    BY Rows DEF Movements
  <1>7. \A i \in DOMAIN request :
           NewRowIs(row(i), Len(receipts) + 1, "Return", receipts[request[i].at].line,
                    AcceptedPart(request[i]), RejectedPart(request[i]))
    <2>1. \A i \in DOMAIN request :
             row(i) = ReceiptLine(Len(receipts) + 1, "Return", receipts[request[i].at].line,
                                  AcceptedPart(request[i]), RejectedPart(request[i]))
      BY DEF AcceptedPart, RejectedPart
    <2> HIDE DEF row
    <2> QED
      BY <1>5, <1>6, <2>1, NewRow
  <1> HIDE DEF row
  <1>8. new \in Seq(ReceiptRow) /\ DOMAIN new = DOMAIN request
    <2>1. DOMAIN request = 1..Len(request) /\ Len(request) \in Nat
      BY Returning
    <2>2. new \in [1..Len(request) -> ReceiptRow]
      BY <1>7, <2>1 DEF NewRowIs
    <2> QED
      BY <2>1, <2>2, FunctionIsSeq
  <1>9. SentBack(request, new)
    <2>1. \A i \in DOMAIN request : new[i] = row(i)
      OBVIOUS
    <2> HIDE DEF new
    <2> QED
      BY <1>4, <1>5, <1>7, <1>8, <2>1 DEF SentBack, NewRows, NewRowIs
  <1> HIDE DEF new
  <1> QED
    BY <1>1, <1>2, <1>8, <1>9

\* A return keeps the invariant.
LEMMA ReturnSound ==
  ASSUME Sound, NEW request \in Seq(Back(DOMAIN receipts)), ReturnLines(request)
  PROVE  Sound'
  <1>1. Typed /\ ReceiptsSound
    BY DEF Sound
  <1>2. PICK old \in Seq(ReceiptRow), new \in Seq(ReceiptRow) :
            /\ TakenFrom(request, old) /\ SentBack(request, new) /\ receipts' = old \o new
            /\ gl' = [gl EXCEPT !.grni = @ + ReturnValue(new),
                                !.inventory = @ - ReturnValue(new)]
            /\ line' = [l \in Lines |-> [line[l] EXCEPT !.returned = @ + BroughtBy(new, l)]]
    BY <1>1, ReturnRows
  <1>3. line' \in [Lines -> Counters]
    <2>1. ASSUME NEW l \in Lines
          PROVE  [line[l] EXCEPT !.returned = @ + BroughtBy(new, l)] \in Counters
      <3>1. line[l] \in Counters /\ BroughtBy(new, l) \in Nat
        BY <1>1, Rows, BroughtNat
      <3> QED
        BY <3>1, CountersGrow
    <2> QED
      BY <1>2, <2>1
  <1>4. gl' \in [Accounts -> Int]
    <2>1. ReturnValue(new) \in Int
      BY GoodsCostNat
    <2> QED
      BY <1>1, <1>2, <2>1, Vouchers
  <1>5. UNCHANGED <<invoices, payments, party>> /\ Refreshed
    BY DEF ReturnLines
  <1>6. receipts' \in Seq(ReceiptRow) /\ ReceiptsSound' /\ DocumentsSound'
    <2>1. Kept(old)
      <3>1. DOMAIN old = DOMAIN receipts
        BY <1>2 DEF TakenFrom
      <3>2. ASSUME NEW k \in DOMAIN receipts
            PROVE  /\ 1 <= old[k].doc /\ old[k].doc <= k /\ Quantity(old[k]) > 0
                   /\ old[k].acceptedReturned <= old[k].accepted
                   /\ old[k].rejectedReturned <= old[k].rejected
                   /\ old[k].kind = "Return" =>
                         old[k].acceptedReturned = 0 /\ old[k].rejectedReturned = 0
        <4>1. Quantity(old[k]) = Quantity(receipts[k])
          BY <1>2 DEF TakenFrom, Quantity
        <4>2. /\ 1 <= old[k].doc /\ old[k].doc <= k
              /\ old[k].acceptedReturned <= old[k].accepted
              /\ old[k].rejectedReturned <= old[k].rejected
              /\ Quantity(receipts[k]) > 0
          BY <1>1, <1>2 DEF TakenFrom, ReceiptsSound
        <4>3. ASSUME old[k].kind = "Return"
              PROVE  old[k].acceptedReturned = 0 /\ old[k].rejectedReturned = 0
          <5>1. receipts[k].kind = "Return"
            BY <1>2, <4>3 DEF TakenFrom
          <5>2. /\ receipts[k].acceptedReturned = 0 /\ receipts[k].rejectedReturned = 0
                /\ Taken(request, k, FALSE) = 0 /\ Taken(request, k, TRUE) = 0
            BY <1>1, <1>2, <5>1 DEF TakenFrom, ReceiptsSound
          <5>3. /\ old[k].acceptedReturned = 0 + 0 /\ old[k].rejectedReturned = 0 + 0
            BY <1>2, <5>2 DEF TakenFrom
          <5> QED
            BY <5>3
        <4> QED
          BY <4>1, <4>2, <4>3
      <3> QED
        BY <3>1, <3>2 DEF Kept
    <2>2. NewRows("Return", new)
      BY <1>2 DEF SentBack
    <2> QED
      BY <1>2, <1>5, <2>1, <2>2, ReceiptsGrow
  <1>7. Typed'
    BY <1>1, <1>3, <1>4, <1>5, <1>6, RefreshIsTyped DEF Typed
  <1> QED
    BY <1>6, <1>7 DEF Sound

(* The lines an invoice bills, and the receipt rows it draws from. *)
DrawnBy(request, k) == SumWhere(request, LAMBDA x : x.from = k, LAMBDA x : x.qty)

Billing(request, ls) ==
    /\ DOMAIN ls = DOMAIN request
    /\ \A i \in DOMAIN ls :
          /\ ls[i].line = request[i].at /\ ls[i].qty = request[i].qty
          /\ ls[i].from = request[i].from /\ ls[i].debited = 0

Drawn(request, rows) ==
    /\ DOMAIN rows = DOMAIN receipts
    /\ \A k \in DOMAIN receipts :
          /\ rows[k].doc = receipts[k].doc /\ rows[k].kind = receipts[k].kind
          /\ rows[k].line = receipts[k].line
          /\ rows[k].accepted = receipts[k].accepted /\ rows[k].rejected = receipts[k].rejected
          /\ rows[k].acceptedReturned = receipts[k].acceptedReturned
          /\ rows[k].rejectedReturned = receipts[k].rejectedReturned
          /\ rows[k].billed = receipts[k].billed + DrawnBy(request, k)

\* A document just made of its lines.
Made(d, type, against, ls) ==
    /\ Open(d) /\ d.type = type /\ d.against = against /\ d.lines = ls
    /\ d.total = Total(ls, "net") + Total(ls, "tax")

(* The lines of a request for an invoice, as rows. *)
LEMMA Drawing ==
  ASSUME NEW request \in Seq(Draw(Lines))
  PROVE  /\ DOMAIN request = 1..Len(request) /\ Len(request) \in Nat
         /\ \A i \in DOMAIN request :
               /\ request[i].at \in Lines
               /\ request[i].qty \in Nat \ {0}
               /\ request[i].from \in {None} \cup DOMAIN receipts
         /\ \A l : Asked(request, l) \in Nat
         /\ \A k : DrawnBy(request, k) \in Nat
  <1>1. /\ DOMAIN request = 1..Len(request) /\ Len(request) \in Nat
        /\ \A i \in DOMAIN request : request[i] \in Draw(Lines)
    OBVIOUS
  <1>2. \A i \in DOMAIN request :
               /\ request[i].at \in Lines
               /\ request[i].from \in {None} \cup DOMAIN receipts
    BY <1>1 DEF Draw
  <1>3. \A i \in DOMAIN request : request[i].qty \in Nat \ {0} /\ request[i].qty \in Nat
    BY <1>1 DEF Draw
  <1>4. ASSUME NEW k PROVE DrawnBy(request, k) \in Nat
    <2> DEFINE v == [i \in DOMAIN request |-> IF request[i].from = k THEN request[i].qty ELSE 0]
    <2>1. v = [i \in DOMAIN request |-> v[i]] /\ \A i \in DOMAIN request : v[i] \in Nat
      BY <1>3
    <2> HIDE DEF v
    <2> QED
      BY <2>1, SumOfRow DEF DrawnBy, SumWhere, v
  <1> QED
    BY <1>1, <1>2, <1>3, <1>4, AskedNat

\* An invoice line, from what is asked.
LEMMA InvoiceLineIs ==
  ASSUME NEW l \in Lines, NEW from \in {None} \cup Nat, NEW qty \in Nat \ {0}
  PROVE  /\ InvoiceLine(l, from, qty) \in DocumentLine
         /\ InvoiceLine(l, from, qty).line = l /\ InvoiceLine(l, from, qty).from = from
         /\ InvoiceLine(l, from, qty).qty = qty /\ InvoiceLine(l, from, qty).debited = 0
  <1>1. Rate \in [Lines -> Nat] /\ TaxPercent \in [Lines -> Nat]
    BY PurchaseAssumption
  <1> DEFINE net == Booked(qty * Rate[l])
             tax == HalfEven(net * TaxPercent[l], 100)
  <1>2. net \in Nat
    <2>1. qty * Rate[l] \in Nat
      BY <1>1, Products
    <2> QED
      BY <2>1, CostValue
  <1>3. tax \in Nat
    <2> HIDE DEF net
    <2>1. net * TaxPercent[l] \in Nat
      BY <1>1, <1>2, Products
    <2> QED
      BY <2>1, HalfEvenNat
  <1>4. InvoiceLine(l, from, qty) =
          [line |-> l, from |-> from, qty |-> qty, net |-> net, tax |-> tax, debited |-> 0]
    BY DEF InvoiceLine
  <1> HIDE DEF net, tax
  <1> QED
    BY <1>2, <1>3, <1>4 DEF DocumentLine

\* An invoice draws on receipt rows, and posts the lines it bills.
LEMMA InvoiceRows ==
  ASSUME Typed, NEW request \in Seq(Draw(Lines)), InvoiceLines(request)
  PROVE  /\ receipts' \in Seq(ReceiptRow) /\ Drawn(request, receipts')
         /\ \E ls \in Seq(DocumentLine), d \in Document :
               /\ Billing(request, ls) /\ Posts(ls) /\ Made(d, "Invoice", None, ls)
               /\ d.outstanding = d.total
               /\ invoices' = Append(invoices, d)
               /\ gl' = [gl EXCEPT !.grni = @ + Cleared(ls), !.expense = @ + Expense(ls),
                                   !.tax = @ + BaseTax(ls), !.ap = @ - BaseTotal(ls)]
               /\ party' = party - BaseTotal(ls)
  <1> DEFINE billed(k) == [receipts[k] EXCEPT !.billed = @ + DrawnBy(request, k)]
             row(i) == InvoiceLine(request[i].at, request[i].from, request[i].qty)
             ls == [i \in DOMAIN request |-> row(i)]
             d == NewDocument("Invoice", None, ls)
  <1>1. /\ receipts' = [k \in DOMAIN receipts |-> billed(k)]
        /\ Posts(ls) /\ invoices' = Append(invoices, d)
        /\ gl' = [gl EXCEPT !.grni = @ + Cleared(ls), !.expense = @ + Expense(ls),
                            !.tax = @ + BaseTax(ls), !.ap = @ - BaseTotal(ls)]
        /\ party' = party - BaseTotal(ls)
    BY DEF InvoiceLines, DrawnBy
  <1>2. ASSUME NEW k \in DOMAIN receipts
        PROVE  /\ billed(k) \in ReceiptRow
               /\ billed(k).doc = receipts[k].doc /\ billed(k).kind = receipts[k].kind
               /\ billed(k).line = receipts[k].line /\ billed(k).accepted = receipts[k].accepted
               /\ billed(k).rejected = receipts[k].rejected
               /\ billed(k).acceptedReturned = receipts[k].acceptedReturned
               /\ billed(k).rejectedReturned = receipts[k].rejectedReturned
               /\ billed(k).billed = receipts[k].billed + DrawnBy(request, k)
    <2>1. receipts[k] \in ReceiptRow /\ DrawnBy(request, k) \in Nat
      BY Rows, Drawing
    <2>2. receipts[k].billed + DrawnBy(request, k) \in Nat
      BY <2>1, RowFields
    <2>3. billed(k) = [receipts[k] EXCEPT !.billed = receipts[k].billed + DrawnBy(request, k)]
      OBVIOUS
    <2> HIDE DEF billed
    <2> QED
      BY <2>1, <2>2, <2>3 DEF ReceiptRow
  <1>3. receipts' \in Seq(ReceiptRow) /\ DOMAIN receipts' = DOMAIN receipts
    <2>1. receipts' \in [1..Len(receipts) -> ReceiptRow]
      BY <1>1, <1>2, Rows
    <2> QED
      BY <2>1, Rows, FunctionIsSeq
  <1>4. Drawn(request, receipts')
    <2> HIDE DEF billed
    <2>1. \A k \in DOMAIN receipts : receipts'[k] = billed(k)
      BY <1>1
    <2> QED
      BY <1>2, <1>3, <2>1 DEF Drawn
  <1>5. \A i \in DOMAIN request :
           /\ request[i].at \in Lines /\ request[i].qty \in Nat \ {0}
           /\ request[i].from \in {None} \cup Nat
    BY Drawing, Rows
  <1>7. \A i \in DOMAIN request :
           /\ row(i) \in DocumentLine
           /\ row(i).line = request[i].at /\ row(i).qty = request[i].qty
           /\ row(i).from = request[i].from /\ row(i).debited = 0
    BY <1>5, InvoiceLineIs
  <1>8. ls \in Seq(DocumentLine) /\ DOMAIN ls = DOMAIN request
    <2>1. ls \in [1..Len(request) -> DocumentLine]
      BY <1>7, Drawing
    <2> QED
      BY <2>1, Drawing, FunctionIsSeq
  <1>9. Billing(request, ls) /\ Fresh(ls)
    BY <1>7 DEF Billing, Fresh
  <1>10. d \in Document /\ Made(d, "Invoice", None, ls) /\ d.outstanding = d.total
    <2>1. "Invoice" \in Kinds /\ None \in {None} \cup Nat
      BY DEF Kinds
    <2> HIDE DEF ls
    <2>2. ASSUME NEW type \in Kinds
          PROVE  LET e == NewDocument(type, None, ls)
                 IN  e \in Document /\ Made(e, type, None, ls) /\ e.outstanding = e.total
      <3>1. Posts(ls) /\ Fresh(ls) /\ ls \in Seq(DocumentLine)
        BY <1>1, <1>8, <1>9
      <3>2. NewDocumentIs(NewDocument(type, None, ls), type, None, ls)
        BY <3>1, NewIsDocument
      <3> QED
        BY <3>2 DEF NewDocumentIs, Made
    <2> QED
      BY <2>1, <2>2
  <1> HIDE DEF ls, d
  <1> QED
    BY <1>1, <1>3, <1>4, <1>8, <1>9, <1>10

(* A document added at the end, others changed in what they have open. *)
SameLinks(rest) ==
    /\ DOMAIN rest = DOMAIN invoices
    /\ \A k \in DOMAIN rest :
          /\ Open(rest[k]) /\ rest[k].type = invoices[k].type
          /\ rest[k].against = invoices[k].against
          /\ DOMAIN rest[k].lines = DOMAIN invoices[k].lines
          /\ \A j \in DOMAIN rest[k].lines :
                rest[k].lines[j].from = invoices[k].lines[j].from

Linked(d) ==
    /\ Open(d)
    /\ IF d.type = "Invoice" THEN d.against = None ELSE d.against \in DOMAIN invoices
    /\ FromReceipts(d.lines)

\* Documents stay sound when one is appended to rows that kept their links.
LEMMA DocumentsGrow ==
  ASSUME Sound, NEW rest \in Seq(Document), SameLinks(rest), DOMAIN receipts' = DOMAIN receipts,
         \/ invoices' = rest
         \/ \E d \in Document : Linked(d) /\ invoices' = Append(rest, d)
  PROVE  invoices' \in Seq(Document) /\ DocumentsSound'
  <1>1. /\ DOMAIN rest = 1..Len(rest) /\ Len(rest) \in Nat
        /\ DOMAIN invoices = 1..Len(rest) /\ Len(invoices) = Len(rest)
    BY Rows DEF Sound, SameLinks
  <1>2. ASSUME NEW k \in DOMAIN rest
        PROVE  /\ Open(rest[k])
               /\ IF rest[k].type = "Invoice" THEN rest[k].against = None
                  ELSE rest[k].against \in 1..(k - 1)
               /\ FromReceipts(rest[k].lines)
    BY DEF Sound, SameLinks, DocumentsSound, FromReceipts
  <1>3. CASE invoices' = rest
    <2>1. DocumentsSound'
      BY <1>2, <1>3 DEF DocumentsSound, Open, FromReceipts
    <2> QED
      BY <1>3, <2>1
  <1>4. ASSUME NEW d \in Document, Linked(d), invoices' = Append(rest, d)
        PROVE  invoices' \in Seq(Document) /\ DocumentsSound'
    <2>1. /\ invoices' \in Seq(Document) /\ DOMAIN invoices' = 1..(Len(rest) + 1)
          /\ invoices'[Len(rest) + 1] = d
          /\ \A k \in 1..Len(rest) : invoices'[k] = rest[k]
      BY <1>4
    <2>2. ASSUME NEW k \in DOMAIN invoices'
          PROVE  /\ Open(invoices'[k])
                 /\ IF invoices'[k].type = "Invoice" THEN invoices'[k].against = None
                    ELSE invoices'[k].against \in 1..(k - 1)
                 /\ FromReceipts(invoices'[k].lines)
      <3>1. CASE k \in 1..Len(rest)
        <4>1. invoices'[k] = rest[k] /\ k \in DOMAIN rest
          BY <1>1, <2>1, <3>1
        <4> QED
          BY <1>2, <4>1
      <3>2. CASE k = Len(rest) + 1
        <4>1. invoices'[k] = d /\ 1..(k - 1) = DOMAIN invoices
          BY <1>1, <2>1, <3>2
        <4> QED
          BY <1>4, <4>1 DEF Linked
      <3>3. k \in 1..Len(rest) \/ k = Len(rest) + 1
        BY <1>1, <2>1
      <3> QED
        BY <3>1, <3>2, <3>3
    <2>3. DocumentsSound'
      BY <2>2 DEF DocumentsSound, Open, FromReceipts
    <2> QED
      BY <2>1, <2>3
  <1> QED
    BY <1>3, <1>4

\* An invoice keeps the invariant.
LEMMA InvoiceSound ==
  ASSUME Sound, NEW request \in Seq(Draw(Lines)), InvoiceLines(request)
  PROVE  Sound'
  <1>1. Typed /\ ReceiptsSound
    BY DEF Sound
  <1>2. receipts' \in Seq(ReceiptRow) /\ Drawn(request, receipts')
    BY <1>1, InvoiceRows
  <1>3. PICK ls \in Seq(DocumentLine), d \in Document :
               /\ Billing(request, ls) /\ Posts(ls) /\ Made(d, "Invoice", None, ls)
               /\ d.outstanding = d.total
               /\ invoices' = Append(invoices, d)
               /\ gl' = [gl EXCEPT !.grni = @ + Cleared(ls), !.expense = @ + Expense(ls),
                                   !.tax = @ + BaseTax(ls), !.ap = @ - BaseTotal(ls)]
               /\ party' = party - BaseTotal(ls)
    BY <1>1, InvoiceRows
  <1>4. ReceiptsSound'
    <2>1. DOMAIN receipts' = DOMAIN receipts
      BY <1>2 DEF Drawn
    <2>2. ASSUME NEW k \in DOMAIN receipts
          PROVE  /\ 1 <= receipts'[k].doc /\ receipts'[k].doc <= k
                 /\ Quantity(receipts'[k]) > 0
                 /\ receipts'[k].acceptedReturned <= receipts'[k].accepted
                 /\ receipts'[k].rejectedReturned <= receipts'[k].rejected
                 /\ receipts'[k].kind = "Return" =>
                       receipts'[k].acceptedReturned = 0 /\ receipts'[k].rejectedReturned = 0
      <3>1. Quantity(receipts'[k]) = Quantity(receipts[k])
        BY <1>2 DEF Drawn, Quantity
      <3>2. Quantity(receipts[k]) > 0
        BY <1>1 DEF ReceiptsSound
      <3> QED
        BY <1>1, <1>2, <3>1, <3>2 DEF Drawn, ReceiptsSound
    <2> QED
      BY <2>1, <2>2 DEF ReceiptsSound, Quantity
  <1>5. invoices' \in Seq(Document) /\ DocumentsSound'
    <2>1. invoices \in Seq(Document) /\ DOMAIN receipts' = DOMAIN receipts
      BY <1>1, <1>2 DEF Typed, Drawn
    <2>2. SameLinks(invoices)
      BY DEF SameLinks, Sound, DocumentsSound
    <2>3. Linked(d)
      <3>1. \A j \in DOMAIN ls : ls[j].from \in {None} \cup DOMAIN receipts
        BY <1>3, Drawing DEF Billing
      <3> QED
        BY <1>3, <3>1 DEF Made, Linked, FromReceipts
    <2> QED
      BY <1>3, <2>1, <2>2, <2>3, DocumentsGrow
  <1>6. line' \in [Lines -> Counters]
    <2>1. ASSUME NEW l \in Lines
          PROVE  [line[l] EXCEPT !.invoiced = @ + Asked(request, l)] \in Counters
      <3>1. line[l] \in Counters /\ Asked(request, l) \in Nat
        BY <1>1, Rows, Drawing
      <3> QED
        BY <3>1, CountersGrow
    <2> QED
      BY <2>1 DEF InvoiceLines
  <1>7. /\ BaseTotal(ls) \in Int /\ BaseTax(ls) \in Int
        /\ Cleared(ls) \in Int /\ Expense(ls) \in Int
    <2>1. FromReceipts(ls)
      BY <1>3, Drawing DEF Billing, FromReceipts
    <2> QED
      BY <1>1, <2>1, LineTotals, ClearedTotals
  <1>8. gl' \in [Accounts -> Int]
    BY <1>1, <1>3, <1>7, Vouchers
  <1>9. party' \in Int
    BY <1>1, <1>3, <1>7 DEF Typed
  <1>10. payments' = payments /\ Refreshed
    BY DEF InvoiceLines
  <1>11. Typed'
    BY <1>1, <1>2, <1>5, <1>6, <1>8, <1>9, <1>10, RefreshIsTyped DEF Typed
  <1> QED
    BY <1>4, <1>5, <1>11 DEF Sound

(* What a payment settles: target names no invoice twice. *)
Settles(p, target, rest) ==
    /\ DOMAIN rest = DOMAIN invoices
    /\ \A k \in DOMAIN invoices :
          (\A i \in DOMAIN target : target[i] # k) => rest[k] = invoices[k]
    /\ \A i \in DOMAIN target :
          /\ invoices[target[i]].type = "Invoice"
          /\ p.allocations[i].invoice_amount \in Nat \ {0}
          /\ p.allocations[i].invoice_amount <= invoices[target[i]].outstanding
          /\ rest[target[i]] = Settled(invoices[target[i]], p.allocations[i].invoice_amount)

PaidParts(p, target, pay) ==
    /\ pay.base = PaymentBase(p) /\ DOMAIN pay.allocations = DOMAIN target
    /\ \A i \in DOMAIN target :
          /\ pay.allocations[i].invoice = target[i]
          /\ pay.allocations[i].invoice_amount = p.allocations[i].invoice_amount
          /\ pay.allocations[i].base_amount = p.allocations[i].base_amount

\* A payment names every invoice once, each within what it has outstanding.
LEMMA Allocated ==
  ASSUME NEW p \in Entry, NEW target \in [DOMAIN p.allocations -> DOMAIN invoices],
         Pay(p, target)
  PROVE  /\ DOMAIN target = 1..Len(p.allocations) /\ Len(p.allocations) \in Nat
         /\ DOMAIN target = DOMAIN p.allocations /\ IsInjective(target)
         /\ \A i \in DOMAIN target :
               /\ target[i] \in DOMAIN invoices /\ invoices[target[i]].type = "Invoice"
               /\ p.allocations[i].invoice_amount \in Nat \ {0}
               /\ p.allocations[i].base_amount \in Nat \ {0}
               /\ p.allocations[i].invoice_amount <= invoices[target[i]].outstanding
         /\ PaymentBase(p) \in Nat /\ OriginalBase(p) \in Nat
         /\ Total(p.allocations, "base_amount") \in Nat
  <1>1. /\ p.amount \in Nat /\ p.exchange \in Nat /\ p.allocations \in Seq(Part)
    BY DEF Entry
  <1>2. /\ DOMAIN p.allocations = 1..Len(p.allocations) /\ Len(p.allocations) \in Nat
        /\ \A i \in DOMAIN p.allocations : p.allocations[i] \in Part
    BY <1>1
  <1>3. /\ PaymentAccepted(p) /\ Allocatable(p, target) /\ PaymentBase(p) > 0
    BY DEF Pay
  <1>4. \A i \in DOMAIN p.allocations :
           /\ p.allocations[i].invoice_amount \in Nat \ {0}
           /\ p.allocations[i].base_amount \in Nat \ {0}
    <2>1. \A a \in Part : a.invoice_amount \in Int /\ a.base_amount \in Int
      BY DEF Part
    <2>2. \A i \in DOMAIN p.allocations :
            p.allocations[i].invoice_amount > 0 /\ p.allocations[i].base_amount > 0
      BY <1>3 DEF PaymentAccepted
    <2> QED
      BY <1>2, <2>1, <2>2
  <1>5. PaymentBase(p) \in Nat
    <2>1. Scale \in Nat \ {0}
      BY PurchaseAssumption
    <2>2. p.amount * p.exchange \in Int
      BY <1>1, Products
    <2>3. PaymentBase(p) \in Int
      BY <2>1, <2>2, HalfEvenBounds DEF PaymentBase
    <2> QED
      BY <1>3, <2>3
  <1>6. OriginalBase(p) \in Nat
    <2> DEFINE v == [i \in DOMAIN p.allocations |->
                       IF Always(p.allocations[i])
                       THEN Base(p.allocations[i].invoice_amount) ELSE 0]
    <2>1. v \in [1..Len(p.allocations) -> Nat]
      BY <1>2, <1>4, BaseValue
    <2>2. v \in Seq(Nat)
      BY <1>2, <2>1, FunctionIsSeq
    <2>3. OriginalBase(p) = SeqSum(v)
      BY DEF OriginalBase, SumWhere
    <2> HIDE DEF v
    <2> QED
      BY <2>2, <2>3, SeqSumNat
  <1>7. Total(p.allocations, "base_amount") \in Nat
    <2> DEFINE v == [i \in DOMAIN p.allocations |-> p.allocations[i]["base_amount"]]
    <2>1. v \in [1..Len(p.allocations) -> Nat]
      BY <1>2, <1>4
    <2>2. v \in Seq(Nat)
      BY <1>2, <2>1, FunctionIsSeq
    <2> HIDE DEF v
    <2> QED
      BY <2>2, SeqSumNat DEF Total, v
  <1> QED
    BY <1>2, <1>3, <1>4, <1>5, <1>6, <1>7 DEF Allocatable

\* A payment settles its invoices by the parts it says.
LEMMA PayRows ==
  ASSUME Sound, NEW p \in Entry, NEW target \in [DOMAIN p.allocations -> DOMAIN invoices],
         Pay(p, target)
  PROVE  /\ invoices' \in Seq(Document) /\ Settles(p, target, invoices')
         /\ \E pay \in Payment : PaidParts(p, target, pay) /\ payments' = Append(payments, pay)
  <1>1. Typed
    BY DEF Sound
  <1> DEFINE settled(k) ==
               IF \E i \in DOMAIN target : target[i] = k
               THEN Settled(invoices[k], p.allocations[
                      CHOOSE i \in DOMAIN target : target[i] = k].invoice_amount)
               ELSE invoices[k]
             part(i) == [invoice |-> target[i],
                         invoice_amount |-> p.allocations[i].invoice_amount,
                         base_amount |-> p.allocations[i].base_amount]
             pay == [base |-> PaymentBase(p), allocations |-> [i \in DOMAIN target |-> part(i)]]
  <1>2. invoices' = [k \in DOMAIN invoices |-> settled(k)] /\ payments' = Append(payments, pay)
    BY DEF Pay
  <1>3. \A k \in DOMAIN invoices :
          (\A i \in DOMAIN target : target[i] # k) => settled(k) = invoices[k]
    OBVIOUS
  <1>4. ASSUME NEW i \in DOMAIN target
        PROVE  settled(target[i]) = Settled(invoices[target[i]], p.allocations[i].invoice_amount)
    <2>1. (CHOOSE j \in DOMAIN target : target[j] = target[i]) = i
      BY Allocated DEF IsInjective
    <2> QED
      BY <2>1
  <1> HIDE DEF settled
  <1>5. ASSUME NEW k \in DOMAIN invoices PROVE settled(k) \in Document
    <2>1. invoices[k] \in Document /\ Open(invoices[k])
      BY <1>1, Rows DEF Sound, DocumentsSound
    <2>2. CASE \A i \in DOMAIN target : target[i] # k
      BY <1>3, <2>1, <2>2
    <2>3. ASSUME NEW i \in DOMAIN target, target[i] = k PROVE settled(k) \in Document
      <3>1. /\ p.allocations[i].invoice_amount \in Nat \ {0}
            /\ p.allocations[i].invoice_amount <= invoices[k].outstanding
        BY <2>3, Allocated
      <3>2. Settled(invoices[k], p.allocations[i].invoice_amount) \in Document
        BY <2>1, <3>1, SettledDocument
      <3> QED
        BY <1>4, <2>3, <3>2
    <2> QED
      BY <2>2, <2>3
  <1>6. invoices' \in Seq(Document) /\ DOMAIN invoices' = DOMAIN invoices
    <2>1. invoices' \in [1..Len(invoices) -> Document]
      BY <1>1, <1>2, <1>5, Rows
    <2> QED
      BY <1>1, <2>1, Rows, FunctionIsSeq
  <1>7. Settles(p, target, invoices')
    <2>1. \A k \in DOMAIN invoices : invoices'[k] = settled(k)
      BY <1>2
    <2>2. \A i \in DOMAIN target : target[i] \in DOMAIN invoices
      OBVIOUS
    <2> QED
      BY <1>3, <1>4, <1>6, <2>1, <2>2, Allocated DEF Settles
  <1>8. \A i \in DOMAIN target : part(i) \in PaidPart
    <2>1. \A i \in DOMAIN target : target[i] \in Nat
      BY <1>1, Rows
    <2> QED
      BY <2>1, Allocated DEF PaidPart
  <1>9. pay.allocations \in Seq(PaidPart) /\ DOMAIN pay.allocations = DOMAIN target
    <2>1. [i \in DOMAIN target |-> part(i)] \in [1..Len(p.allocations) -> PaidPart]
      BY <1>8, Allocated
    <2>2. [i \in DOMAIN target |-> part(i)] \in Seq(PaidPart)
      BY <2>1, Allocated, FunctionIsSeq
    <2> QED
      BY <2>2
  <1>10. PaidParts(p, target, pay)
    BY <1>9 DEF PaidParts
  <1>11. pay \in Payment
    BY <1>9, Allocated DEF Payment
  <1> HIDE DEF pay
  <1> QED
    BY <1>2, <1>6, <1>7, <1>10, <1>11

\* A payment keeps the invariant.
LEMMA PaySound ==
  ASSUME Sound, NEW p \in Entry, NEW target \in [DOMAIN p.allocations -> DOMAIN invoices],
         Pay(p, target)
  PROVE  Sound'
  <1>1. Typed
    BY DEF Sound
  <1>2. invoices' \in Seq(Document) /\ Settles(p, target, invoices')
    BY PayRows
  <1>3. PICK pay \in Payment : payments' = Append(payments, pay)
    BY PayRows
  <1>4. UNCHANGED <<order, line, receipts>>
    BY DEF Pay
  <1>5. DocumentsSound'
    <2>1. ASSUME NEW k \in DOMAIN invoices
          PROVE  /\ Open(invoices'[k]) /\ invoices'[k].type = invoices[k].type
                 /\ invoices'[k].against = invoices[k].against
                 /\ invoices'[k].lines = invoices[k].lines
      <3>1. invoices[k] \in Document /\ Open(invoices[k])
        BY <1>1, Rows DEF Sound, DocumentsSound
      <3>2. CASE \A i \in DOMAIN target : target[i] # k
        BY <1>2, <3>1, <3>2 DEF Settles
      <3>3. ASSUME NEW i \in DOMAIN target, target[i] = k
            PROVE  /\ Open(invoices'[k]) /\ invoices'[k].type = invoices[k].type
                   /\ invoices'[k].against = invoices[k].against
                   /\ invoices'[k].lines = invoices[k].lines
        <4> DEFINE x == p.allocations[i].invoice_amount
        <4>1. /\ x \in Nat \ {0} /\ x <= invoices[k].outstanding
              /\ invoices'[k] = Settled(invoices[k], x)
          BY <1>2, <3>3 DEF Settles
        <4> HIDE DEF x
        <4> QED
          BY <3>1, <4>1, SettledDocument
      <3> QED
        BY <3>2, <3>3
    <2>2. SameLinks(invoices')
      BY <1>2, <2>1 DEF SameLinks, Settles
    <2> QED
      BY <1>2, <1>4, <2>2, DocumentsGrow
  <1>6. ReceiptsSound'
    BY <1>4 DEF Sound, ReceiptsSound
  <1>7. PaymentBase(p) \in Int /\ ApDebit(p) \in Int /\ GainLoss(p) \in Int
    BY Allocated DEF ApDebit, GainLoss
  <1>8. gl' \in [Accounts -> Int]
    <2>1. gl' = [gl EXCEPT !.ap = @ + ApDebit(p), !.bank = @ - PaymentBase(p),
                           !.fx = @ + GainLoss(p)]
      BY DEF Pay
    <2> QED
      BY <1>1, <1>7, <2>1, Vouchers
  <1>9. party' \in Int
    BY <1>1, <1>7 DEF Typed, Pay
  <1>10. payments' \in Seq(Payment)
    BY <1>1, <1>3 DEF Typed
  <1>11. Typed'
    BY <1>1, <1>2, <1>4, <1>8, <1>9, <1>10 DEF Typed
  <1> QED
    BY <1>5, <1>6, <1>11 DEF Sound

(* What a debit note takes from the lines of its invoice. *)
Debits(request, old, ls) ==
    /\ DOMAIN ls = DOMAIN request
    /\ \A i \in DOMAIN ls :
          /\ ls[i].line = old.lines[request[i].at].line
          /\ ls[i].from = old.lines[request[i].at].from
          /\ ls[i].qty = request[i].qty /\ ls[i].debited = 0

SameButDebited(request, old, d) ==
    /\ DOMAIN d.lines = DOMAIN old.lines
    /\ \A j \in DOMAIN d.lines :
          /\ d.lines[j].line = old.lines[j].line /\ d.lines[j].from = old.lines[j].from
          /\ d.lines[j].qty = old.lines[j].qty /\ d.lines[j].net = old.lines[j].net
          /\ d.lines[j].tax = old.lines[j].tax
          /\ d.lines[j].debited = old.lines[j].debited + Asked(request, j)

DebitedBy(request, old, d, x) ==
    /\ Open(d) /\ d.type = old.type /\ d.against = old.against /\ d.total = old.total
    /\ d.outstanding = old.outstanding - x
    /\ SameButDebited(request, old, d)

NoteOf(k, ls, n, x) ==
    /\ Made(n, "Debit Note", k, ls)
    /\ n.outstanding = n.total - x

BackOn(ls, l) == SumWhere(ls, LAMBDA x : x.line = l, LAMBDA x : x.qty)

\* What a debit note takes from a line is a natural number.
LEMMA BackNat ==
  ASSUME NEW ls \in Seq(DocumentLine), NEW l
  PROVE  BackOn(ls, l) \in Nat
  <1> DEFINE v == [i \in DOMAIN ls |-> IF ls[i].line = l THEN ls[i].qty ELSE 0]
  <1>1. v = [i \in DOMAIN ls |-> v[i]] /\ \A i \in DOMAIN ls : v[i] \in Nat
    BY LineFields
  <1> HIDE DEF v
  <1> QED
    BY <1>1, SumOfRow DEF BackOn, SumWhere, v

\* The lines of a debit note, and what they leave of the invoice.
LEMMA DebitLines ==
  ASSUME NEW old \in Document, NEW request \in Seq(Ask(DOMAIN old.lines)),
         Open(old), DebitAllowed(old, request)
  PROVE  /\ [i \in DOMAIN request |-> DebitLine(old.lines[request[i].at], request[i].qty)]
               \in Seq(DocumentLine)
         /\ Debits(request, old,
              [i \in DOMAIN request |-> DebitLine(old.lines[request[i].at], request[i].qty)])
         /\ Debited(old, request) \in Document /\ Open(Debited(old, request))
         /\ DebitedBy(request, old, Debited(old, request), 0)
  <1> DEFINE row(i) == DebitLine(old.lines[request[i].at], request[i].qty)
             ls == [i \in DOMAIN request |-> row(i)]
             back(j) == [old.lines[j] EXCEPT !.debited = @ + Asked(request, j)]
             lines == [j \in DOMAIN old.lines |-> back(j)]
             d == Debited(old, request)
  <1>1. /\ old.lines \in Seq(DocumentLine) /\ old.total \in Nat /\ old.outstanding \in Nat
    BY DEF Document
  <1>2. /\ DOMAIN old.lines = 1..Len(old.lines) /\ Len(old.lines) \in Nat
        /\ \A j \in DOMAIN old.lines : old.lines[j] \in DocumentLine
    BY <1>1
  <1>3. \A x \in DocumentLine :
           /\ x.line \in Lines /\ x.from \in {None} \cup Nat /\ x.qty \in Nat \ {0}
           /\ x.net \in Nat /\ x.tax \in Nat /\ x.debited \in Nat
    BY DEF DocumentLine
  <1>4. /\ DOMAIN request = 1..Len(request) /\ Len(request) \in Nat
        /\ \A i \in DOMAIN request :
              request[i].at \in DOMAIN old.lines /\ request[i].qty \in Nat \ {0}
    BY Requested
  <1>5. ASSUME NEW x \in DocumentLine, NEW q \in Nat \ {0}
        PROVE  /\ DebitLine(x, q) \in DocumentLine
               /\ DebitLine(x, q).line = x.line /\ DebitLine(x, q).from = x.from
               /\ DebitLine(x, q).qty = q /\ DebitLine(x, q).debited = 0
    <2>1. Digits \in Nat \ {0}
      BY PurchaseAssumption
    <2>2. \A y, b \in Nat : b > 0 => Share(y, q, b) \in Nat
      <3>1. ASSUME NEW y \in Nat, NEW b \in Nat, b > 0 PROVE Share(y, q, b) \in Nat
        <4>1. y * Digits \in Nat
          BY <2>1, Products
        <4>2. HalfEven(y * Digits, b) \in Nat
          BY <3>1, <4>1, HalfEvenNat
        <4>3. HalfEven(y * Digits, b) * q \in Nat
          BY <4>2, Products
        <4> QED
          BY <2>1, <4>3, HalfEvenNat DEF Share
      <3> QED
        BY <3>1
    <2>3. Share(x.net, q, x.qty) \in Nat /\ Share(x.tax, q, x.qty) \in Nat
      <3>1. x.net \in Nat /\ x.tax \in Nat /\ x.qty \in Nat /\ x.qty > 0
        BY <1>3
      <3> QED
        BY <3>1, <2>2
    <2> QED
      BY <2>3, <1>3 DEF DebitLine, DocumentLine
  <1>6. \A i \in DOMAIN request : old.lines[request[i].at] \in DocumentLine
    BY <1>2, <1>4
  <1>7. ls \in Seq(DocumentLine) /\ DOMAIN ls = DOMAIN request
    <2>1. ls \in [1..Len(request) -> DocumentLine]
      BY <1>4, <1>5, <1>6
    <2> QED
      BY <1>4, <2>1, FunctionIsSeq
  <1>8. Debits(request, old, ls)
    <2>1. \A i \in DOMAIN request :
            /\ row(i).line = old.lines[request[i].at].line
            /\ row(i).from = old.lines[request[i].at].from
            /\ row(i).qty = request[i].qty /\ row(i).debited = 0
      BY <1>4, <1>5, <1>6
    <2> HIDE DEF row
    <2>2. \A i \in DOMAIN request : ls[i] = row(i)
      OBVIOUS
    <2> HIDE DEF ls
    <2> QED
      BY <1>7, <2>1, <2>2 DEF Debits
  <1>9. ASSUME NEW j \in DOMAIN old.lines
        PROVE  /\ Asked(request, j) \in Nat
               /\ old.lines[j].debited + Asked(request, j) <= old.lines[j].qty
    <2>1. Asked(request, j) \in Nat
      BY Requested
    <2>2. CASE \E i \in DOMAIN request : request[i].at = j
      BY <2>1, <2>2 DEF DebitAllowed
    <2>3. CASE \A i \in DOMAIN request : request[i].at # j
      <3>1. Asked(request, j) = 0
        BY <2>3, Requested
      <3>2. old.lines[j].debited <= old.lines[j].qty /\ old.lines[j].debited \in Nat
        BY <1>2, <1>3 DEF Open
      <3> QED
        BY <3>1, <3>2
    <2> QED
      BY <2>1, <2>2, <2>3
  <1>10. ASSUME NEW j \in DOMAIN old.lines
         PROVE  /\ back(j) \in DocumentLine
                /\ back(j).line = old.lines[j].line /\ back(j).from = old.lines[j].from
                /\ back(j).qty = old.lines[j].qty /\ back(j).net = old.lines[j].net
                /\ back(j).tax = old.lines[j].tax
                /\ back(j).debited = old.lines[j].debited + Asked(request, j)
    <2>1. \A x \in DocumentLine, q \in Nat :
             LET y == [x EXCEPT !.debited = x.debited + q]
             IN  /\ y \in DocumentLine
                 /\ y.line = x.line /\ y.from = x.from /\ y.qty = x.qty /\ y.net = x.net
                 /\ y.tax = x.tax /\ y.debited = x.debited + q
      BY DEF DocumentLine
    <2> QED
      BY <1>2, <1>9, <2>1
  <1>11. lines \in Seq(DocumentLine) /\ DOMAIN lines = DOMAIN old.lines
    <2>1. lines \in [1..Len(old.lines) -> DocumentLine]
      BY <1>2, <1>10
    <2> QED
      BY <1>2, <2>1, FunctionIsSeq
  <1>12. \A j \in DOMAIN old.lines : lines[j] = back(j)
    OBVIOUS
  <1>13. d = [old EXCEPT !.lines = lines]
    BY DEF Debited
  <1> HIDE DEF lines, back
  <1>14. /\ d \in Document /\ d.lines = lines /\ d.type = old.type /\ d.against = old.against
         /\ d.total = old.total /\ d.outstanding = old.outstanding
         /\ d.status = old.status
    BY <1>11, <1>13 DEF Document
  <1> HIDE DEF d, ls
  <1>15. Open(d)
    <2>1. \A j \in DOMAIN d.lines : d.lines[j].debited <= d.lines[j].qty
      BY <1>9, <1>10, <1>11, <1>12, <1>14
    <2> QED
      BY <1>14, <2>1 DEF Open
  <1>16. SameButDebited(request, old, d)
    BY <1>10, <1>11, <1>12, <1>14 DEF SameButDebited
  <1>17. d.outstanding = old.outstanding - 0
    BY <1>1, <1>14
  <1>18. DebitedBy(request, old, d, 0)
    BY <1>14, <1>15, <1>16, <1>17 DEF DebitedBy
  <1> QED
    BY <1>7, <1>8, <1>14, <1>15, <1>18 DEF d, ls

\* A debit note debits one invoice and is appended as its note.
LEMMA DebitRows ==
  ASSUME Sound, NEW k \in DOMAIN invoices, NEW request \in Seq(Ask(DOMAIN invoices[k].lines)),
         DebitInvoice(k, request)
  PROVE  \E ls \in Seq(DocumentLine), d \in Document, n \in Document, x \in Nat :
            /\ Debits(request, invoices[k], ls) /\ Posts(ls)
            /\ DebitedBy(request, invoices[k], d, x) /\ NoteOf(k, ls, n, x)
            /\ x = Allocation(n.total, invoices[k].outstanding)
            /\ invoices' = Append([invoices EXCEPT ![k] = d], n)
            /\ line' = [l \in Lines |-> LineDebited(l, BackOn(ls, l))]
            /\ gl' = [gl EXCEPT !.grni = @ - Cleared(ls), !.expense = @ - Expense(ls),
                                !.tax = @ - BaseTax(ls), !.ap = @ + BaseTotal(ls)]
            /\ party' = party + BaseTotal(ls)
  <1> DEFINE old == invoices[k]
             ls == [i \in DOMAIN request |-> DebitLine(old.lines[request[i].at], request[i].qty)]
             note == NewDocument("Debit Note", k, ls)
             settle == Allocation(note.total, old.outstanding)
             deb == Debited(old, request)
  <1>1. /\ DebitAllowed(old, request) /\ Posts(ls)
        /\ invoices' = IF settle > 0
                       THEN Append([invoices EXCEPT ![k] = Settled(deb, settle)],
                                   Settled(note, settle))
                       ELSE Append([invoices EXCEPT ![k] = deb], note)
        /\ line' = [l \in Lines |-> LineDebited(l, BackOn(ls, l))]
        /\ gl' = [gl EXCEPT !.grni = @ - Cleared(ls), !.expense = @ - Expense(ls),
                            !.tax = @ - BaseTax(ls), !.ap = @ + BaseTotal(ls)]
        /\ party' = party + BaseTotal(ls)
    BY DEF DebitInvoice, BackOn
  <1>2. old \in Document /\ Open(old) /\ k \in Nat
    BY Rows DEF Sound, DocumentsSound
  <1>3. request \in Seq(Ask(DOMAIN old.lines))
    OBVIOUS
  <1> HIDE DEF old
  <1>4. /\ ls \in Seq(DocumentLine) /\ Debits(request, old, ls)
        /\ deb \in Document /\ Open(deb) /\ DebitedBy(request, old, deb, 0)
    BY <1>1, <1>2, <1>3, DebitLines
  <1> HIDE DEF ls, deb
  <1>5. Fresh(ls)
    BY <1>4 DEF Fresh, Debits
  <1>6. /\ note \in Document /\ note.total \in Nat /\ note.outstanding = note.total
        /\ Made(note, "Debit Note", k, ls)
    <2>1. k \in {None} \cup Nat
      BY <1>2
    <2>4. "Debit Note" \in Kinds
      BY DEF Kinds
    <2>2. ls \in Seq(DocumentLine) /\ Posts(ls) /\ Fresh(ls)
      BY <1>1, <1>4, <1>5
    <2>3. ASSUME NEW type \in Kinds
          PROVE  LET d == NewDocument(type, k, ls)
                 IN  /\ d \in Document /\ d.total \in Nat /\ d.outstanding = d.total
                     /\ Made(d, type, k, ls)
      <3>1. NewDocumentIs(NewDocument(type, k, ls), type, k, ls)
        BY <2>1, <2>2, NewIsDocument
      <3> QED
        BY <3>1 DEF NewDocumentIs, Made
    <2> QED
      BY <2>3, <2>4
  <1> HIDE DEF note
  <1>12. note.total \in Nat /\ note.outstanding = note.total
    BY <1>6
  <1>7. old.outstanding \in Nat
    BY <1>2 DEF Document
  <1>8. settle \in Nat /\ settle <= note.total /\ settle <= old.outstanding
    BY <1>12, <1>7 DEF Allocation, Smaller
  <1>9. CASE settle > 0
    <2> HIDE DEF settle
    <2> DEFINE d == Settled(deb, settle)
               n == Settled(note, settle)
    <2>1. /\ deb.outstanding = old.outstanding - 0
          /\ deb.type = old.type /\ deb.against = old.against /\ deb.total = old.total
          /\ SameButDebited(request, old, deb)
      BY <1>4 DEF DebitedBy
    <2>2. /\ settle \in Nat \ {0} /\ settle <= deb.outstanding /\ settle <= note.outstanding
      BY <1>12, <1>7, <1>8, <1>9, <2>1
    <2>3. /\ d \in Document /\ Open(d) /\ d.type = deb.type /\ d.against = deb.against
          /\ d.total = deb.total /\ d.lines = deb.lines
          /\ d.outstanding = deb.outstanding - settle
      BY <1>4, <2>2, SettledDocument
    <2>4. Open(note)
      BY <1>6 DEF Made
    <2>5. /\ n \in Document /\ Open(n) /\ n.type = note.type /\ n.against = note.against
          /\ n.total = note.total /\ n.lines = note.lines
          /\ n.outstanding = note.outstanding - settle
      BY <1>6, <2>2, <2>4, SettledDocument
    <2> HIDE DEF d, n
    <2>6. DebitedBy(request, old, d, settle)
      <3>1. d.outstanding = old.outstanding - settle
        BY <1>7, <1>8, <2>1, <2>3
      <3>2. SameButDebited(request, old, d)
        BY <2>1, <2>3 DEF SameButDebited
      <3> QED
        BY <2>1, <2>3, <3>1, <3>2 DEF DebitedBy
    <2>7. NoteOf(k, ls, n, settle)
      <3>1. n.outstanding = n.total - settle
        BY <1>6, <1>8, <2>5
      <3> QED
        BY <1>6, <2>5, <3>1 DEF Made, NoteOf
    <2>8. invoices' = Append([invoices EXCEPT ![k] = d], n)
      BY <1>1, <1>9 DEF d, n, settle
    <2>9. settle = Allocation(n.total, old.outstanding)
      BY <1>6, <2>5 DEF settle
    <2> QED
      BY <1>1, <1>4, <1>8, <2>3, <2>5, <2>6, <2>7, <2>8, <2>9 DEF old
  <1>10. CASE ~(settle > 0)
    <2>1. settle = 0
      BY <1>8, <1>10
    <2>2. NoteOf(k, ls, note, 0)
      <3>1. note.outstanding = note.total - 0
        BY <1>12
      <3> QED
        BY <1>6, <3>1 DEF NoteOf, Made
    <2>3. invoices' = Append([invoices EXCEPT ![k] = deb], note)
      BY <1>1, <1>10
    <2>4. 0 = Allocation(note.total, old.outstanding) /\ 0 \in Nat
      BY <1>6, <2>1
    <2> QED
      BY <1>1, <1>4, <1>6, <2>2, <2>3, <2>4 DEF old
  <1> QED
    BY <1>8, <1>9, <1>10

\* A debit note keeps the invariant.
LEMMA DebitSound ==
  ASSUME Sound, NEW k \in DOMAIN invoices, NEW request \in Seq(Ask(DOMAIN invoices[k].lines)),
         DebitInvoice(k, request)
  PROVE  Sound'
  <1>1. Typed
    BY DEF Sound
  <1>2. PICK ls \in Seq(DocumentLine), d \in Document, n \in Document, x \in Nat :
            /\ Debits(request, invoices[k], ls) /\ Posts(ls)
            /\ DebitedBy(request, invoices[k], d, x) /\ NoteOf(k, ls, n, x)
            /\ x = Allocation(n.total, invoices[k].outstanding)
            /\ invoices' = Append([invoices EXCEPT ![k] = d], n)
            /\ line' = [l \in Lines |-> LineDebited(l, BackOn(ls, l))]
            /\ gl' = [gl EXCEPT !.grni = @ - Cleared(ls), !.expense = @ - Expense(ls),
                                !.tax = @ - BaseTax(ls), !.ap = @ + BaseTotal(ls)]
            /\ party' = party + BaseTotal(ls)
    BY DebitRows
  <1>3. receipts' = receipts /\ payments' = payments /\ Refreshed
    BY DEF DebitInvoice
  <1> DEFINE old == invoices[k]
             rest == [invoices EXCEPT ![k] = d]
  <1>4. rest \in Seq(Document) /\ DOMAIN rest = DOMAIN invoices /\ rest[k] = d
        /\ \A j \in DOMAIN invoices \ {k} : rest[j] = invoices[j]
    BY <1>1 DEF Typed
  <1>5. SameLinks(rest)
    <2>1. ASSUME NEW j \in DOMAIN rest
          PROVE  /\ Open(rest[j]) /\ rest[j].type = invoices[j].type
                 /\ rest[j].against = invoices[j].against
                 /\ DOMAIN rest[j].lines = DOMAIN invoices[j].lines
                 /\ \A i \in DOMAIN rest[j].lines :
                       rest[j].lines[i].from = invoices[j].lines[i].from
      <3>1. CASE j = k
        BY <1>2, <1>4, <3>1 DEF DebitedBy, SameButDebited
      <3>2. CASE j # k
        BY <1>4, <3>2 DEF Sound, DocumentsSound
      <3> QED
        BY <3>1, <3>2
    <2> QED
      BY <1>4, <2>1 DEF SameLinks
  <1>6. Linked(n)
    <2>1. \A i \in DOMAIN old.lines : old.lines[i].from \in {None} \cup DOMAIN receipts
      BY DEF Sound, DocumentsSound, FromReceipts
    <2>2. \A i \in DOMAIN request : request[i].at \in DOMAIN old.lines
      BY Requested
    <2> HIDE DEF old
    <2>3. \A i \in DOMAIN ls : ls[i].from \in {None} \cup DOMAIN receipts
      BY <1>2, <2>1, <2>2 DEF Debits, old
    <2> QED
      BY <1>2, <2>3 DEF NoteOf, Made, Linked, FromReceipts
  <1>7. invoices' \in Seq(Document) /\ DocumentsSound'
    <2> HIDE DEF rest
    <2>1. invoices' = Append(rest, n)
      BY <1>2 DEF rest
    <2> QED
      BY <1>3, <1>4, <1>5, <1>6, <2>1, DocumentsGrow
  <1>8. ReceiptsSound'
    BY <1>3 DEF Sound, ReceiptsSound
  <1>9. line' \in [Lines -> Counters]
    <2>1. ASSUME NEW l \in Lines PROVE LineDebited(l, BackOn(ls, l)) \in Counters
      <3>1. BackOn(ls, l) \in Nat /\ line[l] \in Counters
        BY <1>1, Rows, BackNat
      <3> QED
        BY <3>1, CountersGrow DEF LineDebited
    <2> QED
      BY <1>2, <2>1
  <1>10. /\ BaseTotal(ls) \in Int /\ BaseTax(ls) \in Int
         /\ Cleared(ls) \in Int /\ Expense(ls) \in Int
    <2>1. FromReceipts(ls)
      BY <1>2, <1>6 DEF NoteOf, Made, Linked
    <2> QED
      BY <1>1, <2>1, LineTotals, ClearedTotals
  <1>11. gl' \in [Accounts -> Int]
    BY <1>1, <1>2, <1>10, Vouchers
  <1>12. party' \in Int
    BY <1>1, <1>2, <1>10 DEF Typed
  <1>13. Typed'
    BY <1>1, <1>3, <1>7, <1>9, <1>11, <1>12, RefreshIsTyped DEF Typed
  <1> QED
    BY <1>7, <1>8, <1>13 DEF Sound

-----------------------------------------------------------------------------
(* The rows stay typed, within their bounds and linked.                      *)

\* The invariant holds when the order is entered.
LEMMA InitSound == EntryInit => Sound
  <1> SUFFICES ASSUME EntryInit PROVE Sound
    OBVIOUS
  <1>1. order \in {Draft, Posted} /\ NothingDone
    BY DEF EntryInit, Init, ImportOrder
  <1>2. order \in [state : {"Draft", "Posted"}, status : Statuses]
    <2>1. Draft \in [state : {"Draft", "Posted"}, status : Statuses]
      BY DEF Draft, Statuses
    <2>2. Posted \in [state : {"Draft", "Posted"}, status : Statuses]
      BY DEF Posted, Statuses
    <2> QED
      BY <1>1, <2>1, <2>2
  <1>3. Typed
    BY <1>1, <1>2 DEF NothingDone, Typed, Counters
  <1>4. ReceiptsSound /\ DocumentsSound
    BY <1>1 DEF NothingDone, ReceiptsSound, DocumentsSound
  <1> QED
    BY <1>3, <1>4 DEF Sound

\* Every operation keeps the invariant.
LEMMA StepSound == Sound /\ [Handlers]_vars => Sound'
  <1> SUFFICES ASSUME Sound, [Handlers]_vars PROVE Sound'
    OBVIOUS
  <1>1. CASE PostOrder
    <2>1. order' \in [state : {"Draft", "Posted"}, status : Statuses]
      BY <1>1 DEF PostOrder, Posted, Statuses
    <2>2. UNCHANGED <<line, receipts, invoices, payments, gl, party>>
      BY <1>1 DEF PostOrder
    <2> QED
      BY <2>1, <2>2 DEF Sound, Typed, ReceiptsSound, DocumentsSound, Open, FromReceipts, Quantity
  <1>2. CASE UNCHANGED vars
    BY <1>2 DEF vars, Sound, Typed, ReceiptsSound, DocumentsSound, Open, FromReceipts, Quantity
  <1> QED
    BY <1>1, <1>2, ReceiveSound, ReturnSound, InvoiceSound, PaySound, DebitSound
       DEF Handlers

\* A clerk's page holds what one of its reads can have shown.
LEMMA PagesStayRead ==
  ASSUME Sound, PagesRead, [EntryNext]_entry
  PROVE  PagesRead'
  <1>1. Typed /\ Idle \in Views
    BY DEF Sound, Idle, Views
  <1>2. ASSUME UNCHANGED page PROVE PagesRead'
    BY <1>2 DEF PagesRead
  <1>3. ASSUME NEW c \in Clerks, NEW v \in Views, page' = [page EXCEPT ![c] = v] PROVE PagesRead'
    BY <1>3 DEF PagesRead
  <1>4. ASSUME NEW c \in Clerks, ReceiveRest(c) \/ GiveUp(c) PROVE PagesRead'
    BY <1>1, <1>3, <1>4 DEF ReceiveRest, GiveUp, Shown
  <1>5. ASSUME NEW c \in Clerks, PressReceive(c) PROVE PagesRead'
    <2>1. [at |-> "receive"] \in Views
      BY DEF Views
    <2> QED
      BY <1>3, <1>5, <2>1 DEF PressReceive, Shown
  <1>6. ASSUME NEW c \in Clerks, ReadMissing(c) PROVE PagesRead'
    <2>1. \A l \in Lines : Missing(l) \in Int
      <3>1. \A l \in Lines : line[l] \in Counters /\ Ordered[l] \in Nat
        BY <1>1, PurchaseAssumption DEF Typed
      <3> QED
        BY <3>1 DEF Missing, Counters
    <2> DEFINE view == [at |-> "receiving", request |-> Rest]
    <2>2. Rest \in Seq(Arrival)
      BY <2>1, RestIsRequest
    <2>3. view \in Views
      BY <2>2 DEF Views
    <2> QED
      BY <1>3, <1>6, <2>3 DEF ReadMissing, Shown
  <1> QED
    BY <1>2, <1>4, <1>5, <1>6 DEF EntryNext, Button, PlaceOrder, entry

(* Whatever the callers do, the rows stay sound, and what they do are handlers. *)
THEOREM SoundAlways == EntrySpec => []Sound /\ [][Handlers]_vars
  <1>1. EntryInit => Sound /\ PagesRead
    <2>1. EntryInit => PagesRead
      BY DEF EntryInit, PagesRead, Idle, Views
    <2> QED
      BY <2>1, InitSound
  <1>2. Sound /\ PagesRead /\ [EntryNext]_entry => (Sound /\ PagesRead)' /\ [Handlers]_vars
    BY EntryIsHandlers, StepSound, PagesStayRead DEF Sound
  <1> QED
    BY <1>1, <1>2, PTL DEF EntrySpec

(* Every document the handlers write is one the tables admit. *)
THEOREM TypeCorrect == EntrySpec => []TypeOK
  <1>1. Sound => TypeOK
    <2> SUFFICES ASSUME Sound PROVE TypeOK
      OBVIOUS
    <2>1. Typed /\ ReceiptsSound /\ DocumentsSound
      BY DEF Sound
    <2>2. /\ order.state \in {"Draft", "Posted"} /\ order.status \in Statuses
          /\ line \in [Lines -> Counters] /\ gl \in [Accounts -> Int] /\ party \in Int
      BY <2>1 DEF Typed
    <2>3. ASSUME NEW k \in DOMAIN receipts
          PROVE  LET r == receipts[k] IN
                 /\ r.doc \in 1..k /\ r.kind \in {"Receipt", "Return"} /\ r.line \in Lines
                 /\ {r.accepted, r.rejected, r.billed} \subseteq Nat /\ Quantity(r) > 0
                 /\ r.acceptedReturned \in 0..r.accepted /\ r.rejectedReturned \in 0..r.rejected
      <3>1. receipts[k] \in ReceiptRow /\ k \in Nat
        BY <2>1, Rows
      <3>2. /\ receipts[k].doc \in Nat /\ receipts[k].kind \in Movements
            /\ receipts[k].line \in Lines /\ receipts[k].billed \in Nat
            /\ receipts[k].accepted \in Nat /\ receipts[k].rejected \in Nat
            /\ receipts[k].acceptedReturned \in Nat /\ receipts[k].rejectedReturned \in Nat
        BY <3>1, RowFields
      <3>3. /\ 1 <= receipts[k].doc /\ receipts[k].doc <= k /\ Quantity(receipts[k]) > 0
            /\ receipts[k].acceptedReturned <= receipts[k].accepted
            /\ receipts[k].rejectedReturned <= receipts[k].rejected
        BY <2>1 DEF ReceiptsSound
      <3>4. receipts[k].kind \in {"Receipt", "Return"}
        BY <3>2 DEF Movements
      <3>5. /\ receipts[k].doc \in 1..k
            /\ receipts[k].acceptedReturned \in 0..receipts[k].accepted
            /\ receipts[k].rejectedReturned \in 0..receipts[k].rejected
        BY <3>1, <3>2, <3>3
      <3> QED
        BY <3>2, <3>3, <3>4, <3>5
    <2>4. ASSUME NEW k \in DOMAIN invoices
          PROVE  LET d == invoices[k] IN
                 /\ IF d.type = "Invoice" THEN d.against = None
                    ELSE d.type = "Debit Note" /\ d.against \in 1..(k - 1)
                 /\ d.total \in Nat /\ d.outstanding \in 0..d.total
                 /\ \A j \in DOMAIN d.lines :
                       /\ d.lines[j].qty \in Nat \ {0}
                       /\ d.lines[j].debited \in 0..d.lines[j].qty
                       /\ d.lines[j].from \in {None} \cup DOMAIN receipts
      <3>1. invoices[k] \in Document
        BY <2>1, Rows
      <3>2. /\ invoices[k].type \in Kinds /\ invoices[k].total \in Nat
            /\ invoices[k].outstanding \in Nat /\ invoices[k].lines \in Seq(DocumentLine)
        BY <3>1 DEF Document
      <3>3. /\ IF invoices[k].type = "Invoice" THEN invoices[k].against = None
               ELSE invoices[k].against \in 1..(k - 1)
            /\ invoices[k].outstanding <= invoices[k].total
            /\ \A j \in DOMAIN invoices[k].lines :
                  /\ invoices[k].lines[j].from \in {None} \cup DOMAIN receipts
                  /\ invoices[k].lines[j].debited <= invoices[k].lines[j].qty
        BY <2>1 DEF DocumentsSound, Open, FromReceipts
      <3>4. IF invoices[k].type = "Invoice" THEN invoices[k].against = None
            ELSE invoices[k].type = "Debit Note" /\ invoices[k].against \in 1..(k - 1)
        BY <3>2, <3>3 DEF Kinds
      <3>5. \A j \in DOMAIN invoices[k].lines :
               invoices[k].lines[j].qty \in Nat \ {0} /\ invoices[k].lines[j].debited \in Nat
        BY <3>2, LineFields
      <3>6. \A j \in DOMAIN invoices[k].lines :
               invoices[k].lines[j].debited \in 0..invoices[k].lines[j].qty
        BY <3>3, <3>5
      <3>7. invoices[k].outstanding \in 0..invoices[k].total
        BY <3>2, <3>3
      <3> QED
        BY <3>2, <3>3, <3>4, <3>5, <3>6, <3>7
    <2> QED
      BY <2>2, <2>3, <2>4 DEF TypeOK, Statuses, Counters
  <1> QED
    BY <1>1, SoundAlways, PTL


-----------------------------------------------------------------------------
(* The counters are sums over the rows of the documents. *)

ReceivedOn(l) == [r \in ReceiptRow |-> IF r.line = l /\ r.kind = "Receipt" THEN Quantity(r) ELSE 0]
SentOn(l) == [r \in ReceiptRow |-> IF r.line = l /\ r.kind = "Return" THEN Quantity(r) ELSE 0]

\* What of each part was sent, by the returns and by the rows they take from.
SentAccepted(l) == [r \in ReceiptRow |-> IF r.line = l /\ r.kind = "Return" THEN r.accepted ELSE 0]
SentRejected(l) == [r \in ReceiptRow |-> IF r.line = l /\ r.kind = "Return" THEN r.rejected ELSE 0]
TakenAccepted(l) == [r \in ReceiptRow |-> IF r.line = l THEN r.acceptedReturned ELSE 0]
TakenRejected(l) == [r \in ReceiptRow |-> IF r.line = l THEN r.rejectedReturned ELSE 0]

ReceiptsCounted ==
    \A l \in Lines :
        /\ line[l].received = Over(ReceivedOn(l), receipts)
        /\ line[l].returned = Over(SentOn(l), receipts)
        /\ Over(SentAccepted(l), receipts) = Over(TakenAccepted(l), receipts)
        /\ Over(SentRejected(l), receipts) = Over(TakenRejected(l), receipts)

\* What is counted of a row is an integer.
LEMMA ReceiptFunctions ==
  ASSUME NEW l
  PROVE  /\ ReceivedOn(l) \in [ReceiptRow -> Int] /\ SentOn(l) \in [ReceiptRow -> Int]
         /\ SentAccepted(l) \in [ReceiptRow -> Int] /\ SentRejected(l) \in [ReceiptRow -> Int]
         /\ TakenAccepted(l) \in [ReceiptRow -> Int] /\ TakenRejected(l) \in [ReceiptRow -> Int]
  <1>1. \A r \in ReceiptRow :
           /\ Quantity(r) \in Int /\ r.accepted \in Int /\ r.rejected \in Int
           /\ r.acceptedReturned \in Int /\ r.rejectedReturned \in Int
    BY RowFields
  <1> QED
    BY <1>1 DEF ReceivedOn, SentOn, SentAccepted, SentRejected, TakenAccepted, TakenRejected

\* The six counts of a row, each of the two movements and each of the two parts.
CountsOf(l, r, a, b, c, d, e, f) ==
    /\ ReceivedOn(l)[r] = a /\ SentOn(l)[r] = b
    /\ SentAccepted(l)[r] = c /\ SentRejected(l)[r] = d
    /\ TakenAccepted(l)[r] = e /\ TakenRejected(l)[r] = f

\* What a row counts, by its movement.
LEMMA RowCounts ==
  ASSUME NEW r \in ReceiptRow, NEW l
  PROVE  /\ r.kind = "Receipt" =>
               CountsOf(l, r, IF r.line = l THEN Quantity(r) ELSE 0, 0, 0, 0,
                        IF r.line = l THEN r.acceptedReturned ELSE 0,
                        IF r.line = l THEN r.rejectedReturned ELSE 0)
         /\ r.kind = "Return" =>
               CountsOf(l, r, 0, IF r.line = l THEN Quantity(r) ELSE 0,
                        IF r.line = l THEN r.accepted ELSE 0,
                        IF r.line = l THEN r.rejected ELSE 0,
                        IF r.line = l THEN r.acceptedReturned ELSE 0,
                        IF r.line = l THEN r.rejectedReturned ELSE 0)
  BY DEF CountsOf, ReceivedOn, SentOn, SentAccepted, SentRejected, TakenAccepted, TakenRejected

\* The six sums over rows.
SumsOf(l, rows, a, b, c, d, e, f) ==
    /\ Over(ReceivedOn(l), rows) = a /\ Over(SentOn(l), rows) = b
    /\ Over(SentAccepted(l), rows) = c /\ Over(SentRejected(l), rows) = d
    /\ Over(TakenAccepted(l), rows) = e /\ Over(TakenRejected(l), rows) = f

(* The rows a receipt adds count what they bring. *)
LEMMA ArrivedCounts ==
  ASSUME NEW request, NEW new \in Seq(ReceiptRow), Arrived(request, new), NEW l
  PROVE  SumsOf(l, new, BroughtBy(new, l), 0, 0, 0, 0, 0)
  <1>1. \A i \in DOMAIN new : new[i] \in ReceiptRow
    OBVIOUS
  <1>2. \A i \in DOMAIN new :
           /\ new[i].kind = "Receipt" /\ new[i].acceptedReturned = 0
           /\ new[i].rejectedReturned = 0
    BY DEF Arrived, NewRows
  <1>3. ASSUME NEW i \in DOMAIN new
        PROVE  CountsOf(l, new[i], IF new[i].line = l THEN Quantity(new[i]) ELSE 0, 0, 0, 0, 0, 0)
    <2>1. CountsOf(l, new[i], IF new[i].line = l THEN Quantity(new[i]) ELSE 0, 0, 0, 0,
                   IF new[i].line = l THEN new[i].acceptedReturned ELSE 0,
                   IF new[i].line = l THEN new[i].rejectedReturned ELSE 0)
      BY <1>1, <1>2, RowCounts
    <2> QED
      BY <1>2, <2>1 DEF CountsOf
  <1>4. [i \in DOMAIN new |-> ReceivedOn(l)[new[i]]]
          = [i \in DOMAIN new |-> IF new[i].line = l THEN Quantity(new[i]) ELSE 0]
    BY <1>3 DEF CountsOf
  <1>5. Over(ReceivedOn(l), new) = BroughtBy(new, l)
    BY <1>4 DEF Over, BroughtBy, SumWhere
  <1>6. ASSUME NEW f \in [ReceiptRow -> Int], \A i \in DOMAIN new : f[new[i]] = 0
        PROVE  Over(f, new) = 0
    BY <1>6, OverZero
  <1>7. Over(SentOn(l), new) = 0
    BY <1>3, <1>6, ReceiptFunctions DEF CountsOf
  <1>8. Over(SentAccepted(l), new) = 0 /\ Over(SentRejected(l), new) = 0
    BY <1>3, <1>6, ReceiptFunctions DEF CountsOf
  <1>9. Over(TakenAccepted(l), new) = 0 /\ Over(TakenRejected(l), new) = 0
    BY <1>3, <1>6, ReceiptFunctions DEF CountsOf
  <1> QED
    BY <1>5, <1>7, <1>8, <1>9 DEF SumsOf

(* The part of a request that is for accepted, or for rejected, goods. *)
AcceptedHalf(request) ==
    [i \in DOMAIN request |-> [at |-> request[i].at, qty |-> AcceptedPart(request[i])]]
RejectedHalf(request) ==
    [i \in DOMAIN request |-> [at |-> request[i].at, qty |-> RejectedPart(request[i])]]

\* What half a request asks of the rows of an order line.
HalfOn(half, l) ==
    SeqSum([i \in DOMAIN half |-> IF receipts[half[i].at].line = l THEN half[i].qty ELSE 0])

Halved(S) == [at : S, qty : Nat]

IsHalved(y, S, x, q) == y \in Halved(S) /\ y.at = x /\ y.qty = q

\* A row of half a request.
LEMMA HalvedRow ==
  ASSUME NEW S, NEW x \in S, NEW q \in Nat
  PROVE  IsHalved([at |-> x, qty |-> q], S, x, q)
  BY DEF IsHalved, Halved

\* Each half of a request asks of a row what the request takes of its part.
LEMMA Halves ==
  ASSUME NEW S, NEW request \in Seq(Back(S))
  PROVE  /\ AcceptedHalf(request) \in Seq(Halved(S))
         /\ RejectedHalf(request) \in Seq(Halved(S))
         /\ \A k : Taken(request, k, FALSE) = Asked(AcceptedHalf(request), k)
         /\ \A k : Taken(request, k, TRUE) = Asked(RejectedHalf(request), k)
  <1>1. /\ DOMAIN request = 1..Len(request) /\ Len(request) \in Nat
        /\ \A i \in DOMAIN request : /\ request[i].at \in S /\ request[i].qty \in Nat \ {0}
                                     /\ request[i].rejected \in BOOLEAN
    BY Returning
  <1>2. \A i \in DOMAIN request : /\ AcceptedPart(request[i]) \in Nat
                                  /\ RejectedPart(request[i]) \in Nat
    BY <1>1 DEF AcceptedPart, RejectedPart
  <1> DEFINE a == AcceptedHalf(request)
             b == RejectedHalf(request)
  <1>3. DOMAIN a = DOMAIN request /\ DOMAIN b = DOMAIN request
    BY DEF AcceptedHalf, RejectedHalf
  <1>4. \A i \in DOMAIN request :
           /\ a[i] = [at |-> request[i].at, qty |-> AcceptedPart(request[i])]
           /\ b[i] = [at |-> request[i].at, qty |-> RejectedPart(request[i])]
    BY DEF AcceptedHalf, RejectedHalf
  <1> HIDE DEF a, b
  <1>5. \A i \in DOMAIN request :
           /\ a[i] \in Halved(S) /\ a[i].at = request[i].at /\ a[i].qty = AcceptedPart(request[i])
           /\ b[i] \in Halved(S) /\ b[i].at = request[i].at /\ b[i].qty = RejectedPart(request[i])
    <2>1. ASSUME NEW i \in DOMAIN request
          PROVE  a[i] \in Halved(S) /\ a[i].at = request[i].at /\ a[i].qty = AcceptedPart(request[i])
      <3>1. request[i].at \in S /\ AcceptedPart(request[i]) \in Nat
        BY <1>1, <1>2
      <3>2. a[i] = [at |-> request[i].at, qty |-> AcceptedPart(request[i])]
        BY <1>4
      <3>3. IsHalved(a[i], S, request[i].at, AcceptedPart(request[i]))
        BY <3>1, <3>2, HalvedRow
      <3> QED
        BY <3>3 DEF IsHalved
    <2>2. ASSUME NEW i \in DOMAIN request
          PROVE  b[i] \in Halved(S) /\ b[i].at = request[i].at /\ b[i].qty = RejectedPart(request[i])
      <3>1. request[i].at \in S /\ RejectedPart(request[i]) \in Nat
        BY <1>1, <1>2
      <3>2. b[i] = [at |-> request[i].at, qty |-> RejectedPart(request[i])]
        BY <1>4
      <3>3. IsHalved(b[i], S, request[i].at, RejectedPart(request[i]))
        BY <3>1, <3>2, HalvedRow
      <3> QED
        BY <3>3 DEF IsHalved
    <2> QED
      BY <2>1, <2>2
  <1>6. a \in Seq(Halved(S)) /\ b \in Seq(Halved(S))
    <2>1. a = [i \in 1..Len(request) |-> a[i]] /\ b = [i \in 1..Len(request) |-> b[i]]
      BY <1>1, <1>3 DEF a, b, AcceptedHalf, RejectedHalf
    <2>2. a \in [1..Len(request) -> Halved(S)] /\ b \in [1..Len(request) -> Halved(S)]
      BY <1>1, <1>5, <2>1
    <2> QED
      BY <1>1, <2>2, FunctionIsSeq
  <1>7. ASSUME NEW k PROVE Taken(request, k, FALSE) = Asked(a, k)
    <2>1. [i \in DOMAIN request |->
             IF request[i].at = k /\ request[i].rejected = FALSE THEN request[i].qty ELSE 0]
            = [i \in DOMAIN a |-> IF a[i].at = k THEN a[i].qty ELSE 0]
      BY <1>1, <1>3, <1>5 DEF AcceptedPart
    <2> QED
      BY <2>1 DEF Taken, Asked, SumWhere
  <1>8. ASSUME NEW k PROVE Taken(request, k, TRUE) = Asked(b, k)
    <2>1. [i \in DOMAIN request |->
             IF request[i].at = k /\ request[i].rejected = TRUE THEN request[i].qty ELSE 0]
            = [i \in DOMAIN b |-> IF b[i].at = k THEN b[i].qty ELSE 0]
      BY <1>1, <1>3, <1>5 DEF RejectedPart
    <2> QED
      BY <2>1 DEF Taken, Asked, SumWhere
  <1> QED
    BY <1>6, <1>7, <1>8 DEF a, b

\* Rows of which each asked one was taken from, as f counts them.
TakenAs(f, half, old, l) ==
    /\ DOMAIN old = DOMAIN receipts
    /\ \A k \in DOMAIN receipts :
          f[old[k]] = f[receipts[k]] + (IF receipts[k].line = l THEN Asked(half, k) ELSE 0)

\* What is taken from the rows adds up to what the request asks of them.
LEMMA TakenSum ==
  ASSUME Typed, NEW half \in Seq(Halved(DOMAIN receipts)), NEW old \in Seq(ReceiptRow), NEW l,
         NEW f \in [ReceiptRow -> Int], TakenAs(f, half, old, l)
  PROVE  Over(f, old) = Over(f, receipts) + HalfOn(half, l)
  <1>1. receipts \in Seq(ReceiptRow) /\ DOMAIN receipts = 1..Len(receipts) /\ Len(receipts) \in Nat
    BY Rows DEF Typed
  <1>2. \A i \in DOMAIN half : half[i].qty \in Nat /\ half[i].at \in 1..Len(receipts)
    <2>1. \A i \in DOMAIN half : half[i] \in Halved(DOMAIN receipts)
      OBVIOUS
    <2> QED
      BY <1>1, <2>1 DEF Halved
  <1>3. \A k : Asked(half, k) \in Nat
    BY <1>2, AskedNat
  <1> DEFINE n == Len(receipts)
             c == [k \in 1..n |-> IF receipts[k].line = l THEN 1 ELSE 0]
             d == [k \in DOMAIN receipts |-> c[k] * Asked(half, k)]
  <1>4. \A k \in DOMAIN receipts : d[k] \in Int /\ f[old[k]] = f[receipts[k]] + d[k]
    <2>1. ASSUME NEW k \in DOMAIN receipts
          PROVE  d[k] = IF receipts[k].line = l THEN Asked(half, k) ELSE 0
      <3>1. Asked(half, k) \in Nat
        BY <1>3
      <3> QED
        BY <1>1, <3>1
    <2> HIDE DEF d
    <2>2. ASSUME NEW k \in DOMAIN receipts
          PROVE  d[k] \in Int /\ f[old[k]] = f[receipts[k]] + d[k]
      <3>1. Asked(half, k) \in Nat
        BY <1>3
      <3> QED
        BY <2>1, <3>1 DEF TakenAs
    <2> QED
      BY <2>2
  <1>5. Over(f, old) = Over(f, receipts) + SeqSum([k \in DOMAIN receipts |-> d[k]])
    <2> HIDE DEF d
    <2>1. Shifted(ReceiptRow, f, receipts, old, d)
      BY <1>1, <1>4 DEF Shifted, TakenAs
    <2> QED
      BY <2>1, OverAdd
  <1>6. SeqSum([k \in DOMAIN receipts |-> d[k]]) = HalfOn(half, l)
    <2>1. c \in [1..n -> Int] /\ n \in Nat
      BY <1>1
    <2>2. [k \in DOMAIN receipts |-> d[k]] = [k \in 1..n |-> c[k] * Asked(half, k)]
      BY <1>1
    <2>3. [i \in DOMAIN half |-> c[half[i].at] * half[i].qty]
            = [i \in DOMAIN half |-> IF receipts[half[i].at].line = l THEN half[i].qty ELSE 0]
      BY <1>2
    <2> HIDE DEF c, n, d
    <2>4. \A i \in DOMAIN half : half[i].qty \in Nat /\ half[i].at \in 1..n
      BY <1>2 DEF n
    <2>5. SeqSum([k \in 1..n |-> c[k] * Asked(half, k)])
            = SeqSum([i \in DOMAIN half |-> c[half[i].at] * half[i].qty])
      BY <2>1, <2>4, AskedGroup
    <2> QED
      BY <2>2, <2>3, <2>5 DEF HalfOn
  <1> QED
    BY <1>5, <1>6

\* What a return adds counts what its halves ask.
LEMMA SentCounts ==
  ASSUME NEW request \in Seq(Back(DOMAIN receipts)), NEW new \in Seq(ReceiptRow),
         SentBack(request, new), NEW l
  PROVE  SumsOf(l, new, 0, BroughtBy(new, l), HalfOn(AcceptedHalf(request), l),
                HalfOn(RejectedHalf(request), l), 0, 0)
  <1>1. \A i \in DOMAIN new : new[i] \in ReceiptRow
    OBVIOUS
  <1>2. /\ DOMAIN new = DOMAIN request
        /\ \A i \in DOMAIN new :
           /\ new[i].kind = "Return" /\ new[i].acceptedReturned = 0 /\ new[i].rejectedReturned = 0
           /\ new[i].line = receipts[request[i].at].line
           /\ new[i].accepted = AcceptedPart(request[i])
           /\ new[i].rejected = RejectedPart(request[i])
    BY DEF SentBack, NewRows
  <1>3. ASSUME NEW i \in DOMAIN new
        PROVE  CountsOf(l, new[i], 0, IF new[i].line = l THEN Quantity(new[i]) ELSE 0,
                        IF new[i].line = l THEN new[i].accepted ELSE 0,
                        IF new[i].line = l THEN new[i].rejected ELSE 0, 0, 0)
    <2>1. CountsOf(l, new[i], 0, IF new[i].line = l THEN Quantity(new[i]) ELSE 0,
                   IF new[i].line = l THEN new[i].accepted ELSE 0,
                   IF new[i].line = l THEN new[i].rejected ELSE 0,
                   IF new[i].line = l THEN new[i].acceptedReturned ELSE 0,
                   IF new[i].line = l THEN new[i].rejectedReturned ELSE 0)
      BY <1>1, <1>2, RowCounts
    <2> QED
      BY <1>2, <2>1 DEF CountsOf
  <1>4. Over(SentOn(l), new) = BroughtBy(new, l)
    <2>1. [i \in DOMAIN new |-> SentOn(l)[new[i]]]
            = [i \in DOMAIN new |-> IF new[i].line = l THEN Quantity(new[i]) ELSE 0]
      BY <1>3 DEF CountsOf
    <2> QED
      BY <2>1 DEF Over, BroughtBy, SumWhere
  <1>5. Over(SentAccepted(l), new) = HalfOn(AcceptedHalf(request), l)
    <2> DEFINE h == AcceptedHalf(request)
    <2>1. /\ DOMAIN h = DOMAIN request
          /\ \A i \in DOMAIN request : h[i].at = request[i].at /\ h[i].qty = AcceptedPart(request[i])
      BY DEF AcceptedHalf
    <2> HIDE DEF h
    <2>2. [i \in DOMAIN new |-> SentAccepted(l)[new[i]]]
            = [i \in DOMAIN h |-> IF receipts[h[i].at].line = l THEN h[i].qty ELSE 0]
      BY <1>2, <1>3, <2>1 DEF CountsOf
    <2> QED
      BY <2>2 DEF Over, HalfOn, h
  <1>6. Over(SentRejected(l), new) = HalfOn(RejectedHalf(request), l)
    <2> DEFINE h == RejectedHalf(request)
    <2>1. /\ DOMAIN h = DOMAIN request
          /\ \A i \in DOMAIN request : h[i].at = request[i].at /\ h[i].qty = RejectedPart(request[i])
      BY DEF RejectedHalf
    <2> HIDE DEF h
    <2>2. [i \in DOMAIN new |-> SentRejected(l)[new[i]]]
            = [i \in DOMAIN h |-> IF receipts[h[i].at].line = l THEN h[i].qty ELSE 0]
      BY <1>2, <1>3, <2>1 DEF CountsOf
    <2> QED
      BY <2>2 DEF Over, HalfOn, h
  <1>7. ASSUME NEW f \in [ReceiptRow -> Int], \A i \in DOMAIN new : f[new[i]] = 0
        PROVE  Over(f, new) = 0
    BY <1>7, OverZero
  <1>8. Over(ReceivedOn(l), new) = 0
    BY <1>3, <1>7, ReceiptFunctions DEF CountsOf
  <1>9. Over(TakenAccepted(l), new) = 0 /\ Over(TakenRejected(l), new) = 0
    BY <1>3, <1>7, ReceiptFunctions DEF CountsOf
  <1> QED
    BY <1>4, <1>5, <1>6, <1>8, <1>9 DEF SumsOf

\* The rows a return takes from count what its halves ask more as taken.
LEMMA TakenCounts ==
  ASSUME Typed, NEW request \in Seq(Back(DOMAIN receipts)), NEW old \in Seq(ReceiptRow),
         TakenFrom(request, old), NEW l
  PROVE  SumsOf(l, old, Over(ReceivedOn(l), receipts), Over(SentOn(l), receipts),
                Over(SentAccepted(l), receipts), Over(SentRejected(l), receipts),
                Over(TakenAccepted(l), receipts) + HalfOn(AcceptedHalf(request), l),
                Over(TakenRejected(l), receipts) + HalfOn(RejectedHalf(request), l))
  <1>1. /\ \A k \in DOMAIN receipts : old[k] \in ReceiptRow /\ receipts[k] \in ReceiptRow
        /\ DOMAIN old = DOMAIN receipts
    BY Rows DEF TakenFrom
  <1>2. ASSUME NEW k \in DOMAIN receipts
        PROVE  /\ old[k].kind = receipts[k].kind /\ old[k].line = receipts[k].line
               /\ old[k].accepted = receipts[k].accepted /\ old[k].rejected = receipts[k].rejected
               /\ Quantity(old[k]) = Quantity(receipts[k])
    BY DEF TakenFrom, Quantity
  <1>3. ASSUME NEW k \in DOMAIN receipts
        PROVE  /\ ReceivedOn(l)[old[k]] = ReceivedOn(l)[receipts[k]]
               /\ SentOn(l)[old[k]] = SentOn(l)[receipts[k]]
               /\ SentAccepted(l)[old[k]] = SentAccepted(l)[receipts[k]]
               /\ SentRejected(l)[old[k]] = SentRejected(l)[receipts[k]]
    BY <1>1, <1>2 DEF ReceivedOn, SentOn, SentAccepted, SentRejected
  <1>4. ASSUME NEW f, \A k \in DOMAIN receipts : f[old[k]] = f[receipts[k]]
        PROVE  Over(f, old) = Over(f, receipts)
    <2>1. Alike(f, old, f, receipts)
      BY <1>1, <1>4 DEF Alike
    <2> QED
      BY <2>1, OverEqual
  <1>5. /\ Over(ReceivedOn(l), old) = Over(ReceivedOn(l), receipts)
        /\ Over(SentOn(l), old) = Over(SentOn(l), receipts)
    BY <1>3, <1>4
  <1>6. /\ Over(SentAccepted(l), old) = Over(SentAccepted(l), receipts)
        /\ Over(SentRejected(l), old) = Over(SentRejected(l), receipts)
    BY <1>3, <1>4
  <1>7. Over(TakenAccepted(l), old)
          = Over(TakenAccepted(l), receipts) + HalfOn(AcceptedHalf(request), l)
    <2> DEFINE h == AcceptedHalf(request)
    <2>1. h \in Seq(Halved(DOMAIN receipts)) /\ \A k : Taken(request, k, FALSE) = Asked(h, k)
      BY Halves
    <2>2. \A k : Asked(h, k) \in Nat
      <3>1. \A k : Taken(request, k, FALSE) \in Nat
        BY Returning
      <3> QED
        BY <2>1, <3>1, Zenon
    <2> HIDE DEF h
    <2>3. ASSUME NEW k \in DOMAIN receipts
          PROVE  TakenAccepted(l)[old[k]] = TakenAccepted(l)[receipts[k]]
                   + (IF receipts[k].line = l THEN Asked(h, k) ELSE 0)
      <3>1. old[k].acceptedReturned = receipts[k].acceptedReturned + Asked(h, k)
        BY <2>1 DEF TakenFrom
      <3>2. receipts[k].acceptedReturned \in Nat
        BY <1>1, RowFields
      <3>3. /\ TakenAccepted(l)[old[k]] = IF old[k].line = l THEN old[k].acceptedReturned ELSE 0
            /\ TakenAccepted(l)[receipts[k]]
                 = IF receipts[k].line = l THEN receipts[k].acceptedReturned ELSE 0
        BY <1>1 DEF TakenAccepted
      <3> QED
        BY <1>2, <2>2, <3>1, <3>2, <3>3
    <2>4. TakenAs(TakenAccepted(l), h, old, l)
      BY <1>1, <2>3 DEF TakenAs
    <2>5. TakenAccepted(l) \in [ReceiptRow -> Int]
      BY ReceiptFunctions
    <2>6. Over(TakenAccepted(l), old) = Over(TakenAccepted(l), receipts) + HalfOn(h, l)
      BY <2>1, <2>4, <2>5, TakenSum
    <2> QED
      BY <2>6 DEF h
  <1>8. Over(TakenRejected(l), old)
          = Over(TakenRejected(l), receipts) + HalfOn(RejectedHalf(request), l)
    <2> DEFINE h == RejectedHalf(request)
    <2>1. h \in Seq(Halved(DOMAIN receipts)) /\ \A k : Taken(request, k, TRUE) = Asked(h, k)
      BY Halves
    <2>2. \A k : Asked(h, k) \in Nat
      <3>1. \A k : Taken(request, k, TRUE) \in Nat
        BY Returning
      <3> QED
        BY <2>1, <3>1, Zenon
    <2> HIDE DEF h
    <2>3. ASSUME NEW k \in DOMAIN receipts
          PROVE  TakenRejected(l)[old[k]] = TakenRejected(l)[receipts[k]]
                   + (IF receipts[k].line = l THEN Asked(h, k) ELSE 0)
      <3>1. old[k].rejectedReturned = receipts[k].rejectedReturned + Asked(h, k)
        BY <2>1 DEF TakenFrom
      <3>2. receipts[k].rejectedReturned \in Nat
        BY <1>1, RowFields
      <3>3. /\ TakenRejected(l)[old[k]] = IF old[k].line = l THEN old[k].rejectedReturned ELSE 0
            /\ TakenRejected(l)[receipts[k]]
                 = IF receipts[k].line = l THEN receipts[k].rejectedReturned ELSE 0
        BY <1>1 DEF TakenRejected
      <3> QED
        BY <1>2, <2>2, <3>1, <3>2, <3>3
    <2>4. TakenAs(TakenRejected(l), h, old, l)
      BY <1>1, <2>3 DEF TakenAs
    <2>5. TakenRejected(l) \in [ReceiptRow -> Int]
      BY ReceiptFunctions
    <2>6. Over(TakenRejected(l), old) = Over(TakenRejected(l), receipts) + HalfOn(h, l)
      BY <2>1, <2>4, <2>5, TakenSum
    <2> QED
      BY <2>6 DEF h
  <1> QED
    BY <1>5, <1>6, <1>7, <1>8 DEF SumsOf

\* Rows added after others add what they count.
LEMMA SumsConcat ==
  ASSUME NEW s \in Seq(ReceiptRow), NEW t \in Seq(ReceiptRow), NEW l,
         NEW a, NEW b, NEW c, NEW d, NEW e, NEW f, SumsOf(l, s, a, b, c, d, e, f),
         NEW a1, NEW b1, NEW c1, NEW d1, NEW e1, NEW f1, SumsOf(l, t, a1, b1, c1, d1, e1, f1)
  PROVE  /\ SumsOf(l, s \o t, a + a1, b + b1, c + c1, d + d1, e + e1, f + f1)
         /\ {a, b, c, d, e, f} \subseteq Int /\ {a1, b1, c1, d1, e1, f1} \subseteq Int
  <1>1. ASSUME NEW g \in [ReceiptRow -> Int]
        PROVE  /\ Over(g, s \o t) = Over(g, s) + Over(g, t)
               /\ Over(g, s) \in Int /\ Over(g, t) \in Int
    BY OverConcat, OverInt
  <1>2. /\ ReceivedOn(l) \in [ReceiptRow -> Int] /\ SentOn(l) \in [ReceiptRow -> Int]
        /\ SentAccepted(l) \in [ReceiptRow -> Int] /\ SentRejected(l) \in [ReceiptRow -> Int]
        /\ TakenAccepted(l) \in [ReceiptRow -> Int] /\ TakenRejected(l) \in [ReceiptRow -> Int]
    BY ReceiptFunctions
  <1> QED
    BY <1>1, <1>2 DEF SumsOf

(* A receipt and a return keep the counters of what was received and returned. *)
LEMMA ReceiveCounted ==
  ASSUME Sound, ReceiptsCounted, NEW request \in Seq(Arrival), ReceiveLines(request)
  PROVE  ReceiptsCounted'
  <1>1. Typed /\ receipts \in Seq(ReceiptRow)
    BY DEF Sound, Typed
  <1>2. PICK new \in Seq(ReceiptRow) :
            /\ Arrived(request, new) /\ receipts' = receipts \o new
            /\ \A l \in Lines : Arriving(request, l) = BroughtBy(new, l)
    BY <1>1, ReceiveRows
  <1>3. ASSUME NEW l \in Lines
        PROVE  /\ line'[l].received = Over(ReceivedOn(l), receipts')
               /\ line'[l].returned = Over(SentOn(l), receipts')
               /\ Over(SentAccepted(l), receipts') = Over(TakenAccepted(l), receipts')
               /\ Over(SentRejected(l), receipts') = Over(TakenRejected(l), receipts')
    <2>1. /\ line'[l].received = line[l].received + BroughtBy(new, l)
          /\ line'[l].returned = line[l].returned
      <3>1. line[l] \in Counters
        BY <1>1, Rows
      <3>2. line'[l] = [line[l] EXCEPT !.received = line[l].received + BroughtBy(new, l)]
        BY <1>2 DEF ReceiveLines
      <3> QED
        BY <3>1, <3>2 DEF Counters
    <2>2. SumsOf(l, new, BroughtBy(new, l), 0, 0, 0, 0, 0)
      BY <1>2, ArrivedCounts
    <2>3. PICK a, b, c, d, e, f : SumsOf(l, receipts, a, b, c, d, e, f)
      BY DEF SumsOf
    <2>4. /\ SumsOf(l, receipts', a + BroughtBy(new, l), b + 0, c + 0, d + 0, e + 0, f + 0)
          /\ {a, b, c, d, e, f} \subseteq Int
      BY <1>1, <1>2, <2>2, <2>3, SumsConcat
    <2>5. /\ line[l].received = a /\ line[l].returned = b /\ c = e /\ d = f
      BY <2>3 DEF ReceiptsCounted, SumsOf
    <2> QED
      BY <2>1, <2>4, <2>5 DEF SumsOf
  <1> QED
    BY <1>3 DEF ReceiptsCounted

\* A return takes from each part of its receipt what it adds as returned.
LEMMA ReturnCounted ==
  ASSUME Sound, ReceiptsCounted, NEW request \in Seq(Back(DOMAIN receipts)), ReturnLines(request)
  PROVE  ReceiptsCounted'
  <1>1. Typed /\ ReceiptsSound /\ receipts \in Seq(ReceiptRow)
    BY DEF Sound, Typed
  <1>2. PICK old \in Seq(ReceiptRow), new \in Seq(ReceiptRow) :
            /\ TakenFrom(request, old) /\ SentBack(request, new) /\ receipts' = old \o new
            /\ line' = [l \in Lines |-> [line[l] EXCEPT !.returned = @ + BroughtBy(new, l)]]
    BY <1>1, ReturnRows
  <1>3. ASSUME NEW l \in Lines
        PROVE  /\ line'[l].received = Over(ReceivedOn(l), receipts')
               /\ line'[l].returned = Over(SentOn(l), receipts')
               /\ Over(SentAccepted(l), receipts') = Over(TakenAccepted(l), receipts')
               /\ Over(SentRejected(l), receipts') = Over(TakenRejected(l), receipts')
    <2>1. /\ line'[l].received = line[l].received
          /\ line'[l].returned = line[l].returned + BroughtBy(new, l)
      <3>1. line[l] \in Counters
        BY <1>1, Rows
      <3> QED
        BY <1>2, <3>1 DEF Counters
    <2>2. PICK x, y : x = HalfOn(AcceptedHalf(request), l) /\ y = HalfOn(RejectedHalf(request), l)
      OBVIOUS
    <2>3. PICK a, b, c, d, e, f : SumsOf(l, receipts, a, b, c, d, e, f)
      BY DEF SumsOf
    <2>4. SumsOf(l, old, a, b, c, d, e + x, f + y)
      <3>1. SumsOf(l, old, Over(ReceivedOn(l), receipts), Over(SentOn(l), receipts),
                Over(SentAccepted(l), receipts), Over(SentRejected(l), receipts),
                Over(TakenAccepted(l), receipts) + HalfOn(AcceptedHalf(request), l),
                Over(TakenRejected(l), receipts) + HalfOn(RejectedHalf(request), l))
        BY <1>1, <1>2, TakenCounts
      <3> QED
        BY <2>2, <2>3, <3>1 DEF SumsOf
    <2>5. SumsOf(l, new, 0, BroughtBy(new, l), x, y, 0, 0)
      <3>1. SumsOf(l, new, 0, BroughtBy(new, l), HalfOn(AcceptedHalf(request), l),
                HalfOn(RejectedHalf(request), l), 0, 0)
        BY <1>2, SentCounts
      <3> QED
        BY <2>2, <3>1
    <2>6. /\ SumsOf(l, receipts', a + 0, b + BroughtBy(new, l), c + x, d + y, e + x + 0, f + y + 0)
          /\ {a, b, c, d, e + x, f + y} \subseteq Int /\ {x, y} \subseteq Int
      BY <1>2, <2>4, <2>5, SumsConcat
    <2>7. /\ line[l].received = a /\ line[l].returned = b /\ c = e /\ d = f
      BY <2>3 DEF ReceiptsCounted, SumsOf
    <2> QED
      BY <2>1, <2>6, <2>7 DEF SumsOf
  <1> QED
    BY <1>3 DEF ReceiptsCounted

(* Rows that differ in what was billed from them count the same. *)
LEMMA DrawnCounts ==
  ASSUME Typed, NEW request, NEW rows \in Seq(ReceiptRow), Drawn(request, rows), NEW l
  PROVE  SumsOf(l, rows, Over(ReceivedOn(l), receipts), Over(SentOn(l), receipts),
                Over(SentAccepted(l), receipts), Over(SentRejected(l), receipts),
                Over(TakenAccepted(l), receipts), Over(TakenRejected(l), receipts))
  <1>1. /\ \A k \in DOMAIN receipts : rows[k] \in ReceiptRow /\ receipts[k] \in ReceiptRow
        /\ DOMAIN rows = DOMAIN receipts
    BY Rows DEF Drawn
  <1>2. ASSUME NEW k \in DOMAIN receipts
        PROVE  /\ rows[k].kind = receipts[k].kind /\ rows[k].line = receipts[k].line
               /\ rows[k].accepted = receipts[k].accepted /\ rows[k].rejected = receipts[k].rejected
               /\ rows[k].acceptedReturned = receipts[k].acceptedReturned
               /\ rows[k].rejectedReturned = receipts[k].rejectedReturned
               /\ Quantity(rows[k]) = Quantity(receipts[k])
    BY DEF Drawn, Quantity
  <1>3. ASSUME NEW k \in DOMAIN receipts
        PROVE  /\ ReceivedOn(l)[rows[k]] = ReceivedOn(l)[receipts[k]]
               /\ SentOn(l)[rows[k]] = SentOn(l)[receipts[k]]
               /\ SentAccepted(l)[rows[k]] = SentAccepted(l)[receipts[k]]
               /\ SentRejected(l)[rows[k]] = SentRejected(l)[receipts[k]]
               /\ TakenAccepted(l)[rows[k]] = TakenAccepted(l)[receipts[k]]
               /\ TakenRejected(l)[rows[k]] = TakenRejected(l)[receipts[k]]
    BY <1>1, <1>2 DEF ReceivedOn, SentOn, SentAccepted, SentRejected, TakenAccepted, TakenRejected
  <1>4. ASSUME NEW f, \A k \in DOMAIN receipts : f[rows[k]] = f[receipts[k]]
        PROVE  Over(f, rows) = Over(f, receipts)
    <2>1. Alike(f, rows, f, receipts)
      BY <1>1, <1>4 DEF Alike
    <2> QED
      BY <2>1, OverEqual
  <1>5. /\ Over(ReceivedOn(l), rows) = Over(ReceivedOn(l), receipts)
        /\ Over(SentOn(l), rows) = Over(SentOn(l), receipts)
    BY <1>3, <1>4
  <1>6. /\ Over(SentAccepted(l), rows) = Over(SentAccepted(l), receipts)
        /\ Over(SentRejected(l), rows) = Over(SentRejected(l), receipts)
    BY <1>3, <1>4
  <1>7. /\ Over(TakenAccepted(l), rows) = Over(TakenAccepted(l), receipts)
        /\ Over(TakenRejected(l), rows) = Over(TakenRejected(l), receipts)
    BY <1>3, <1>4
  <1> QED
    BY <1>5, <1>6, <1>7 DEF SumsOf

(* Every handler keeps the counters of what was received and returned. *)
LEMMA ReceiptsStayCounted ==
  ASSUME Sound, ReceiptsCounted, [Handlers]_vars
  PROVE  ReceiptsCounted'
  <1>1. Typed /\ \A l \in Lines : line[l] \in Counters
    BY Rows DEF Sound
  <1>2. ASSUME NEW request \in Seq(Draw(Lines)), InvoiceLines(request)
        PROVE  ReceiptsCounted'
    <2>1. receipts' \in Seq(ReceiptRow) /\ Drawn(request, receipts')
      BY <1>1, <1>2, InvoiceRows
    <2>2. \A l \in Lines : /\ line'[l].received = line[l].received
                           /\ line'[l].returned = line[l].returned
      BY <1>1, <1>2 DEF InvoiceLines, Counters
    <2>3. \A l : SumsOf(l, receipts', Over(ReceivedOn(l), receipts), Over(SentOn(l), receipts),
                Over(SentAccepted(l), receipts), Over(SentRejected(l), receipts),
                Over(TakenAccepted(l), receipts), Over(TakenRejected(l), receipts))
      BY <1>1, <2>1, DrawnCounts
    <2> QED
      BY <2>2, <2>3 DEF ReceiptsCounted, SumsOf
  <1>3. ASSUME NEW k \in DOMAIN invoices, NEW request \in Seq(Ask(DOMAIN invoices[k].lines)),
               DebitInvoice(k, request)
        PROVE  ReceiptsCounted'
    <2>1. PICK ls \in Seq(DocumentLine) : line' = [l \in Lines |-> LineDebited(l, BackOn(ls, l))]
      BY <1>3, DebitRows
    <2>2. \A l \in Lines : /\ line'[l].received = line[l].received
                           /\ line'[l].returned = line[l].returned
      BY <1>1, <2>1 DEF LineDebited, Counters
    <2>3. receipts' = receipts
      BY <1>3 DEF DebitInvoice
    <2> QED
      BY <2>2, <2>3 DEF ReceiptsCounted
  <1>4. ASSUME UNCHANGED <<line, receipts>> PROVE ReceiptsCounted'
    BY <1>4 DEF ReceiptsCounted
  <1>5. CASE PostOrder \/ UNCHANGED vars
    BY <1>4, <1>5 DEF PostOrder, vars
  <1>6. ASSUME NEW p, NEW target, Pay(p, target) PROVE ReceiptsCounted'
    BY <1>4, <1>6 DEF Pay
  <1> QED
    BY <1>2, <1>3, <1>5, <1>6, ReceiveCounted, ReturnCounted DEF Handlers

-----------------------------------------------------------------------------
(* What the documents bill, debit and take back of an order line, or of a   *)
(* receipt row, and what the notes of an invoice take back of it.           *)

QtyOn(l) == [x \in DocumentLine |-> IF x.line = l THEN x.qty ELSE 0]
DebitedOn(l) == [x \in DocumentLine |-> IF x.line = l THEN x.debited ELSE 0]
FromRow(k) == [x \in DocumentLine |-> IF x.from = k THEN x.qty ELSE 0]
AllQty == [x \in DocumentLine |-> x.qty]
AllDebited == [x \in DocumentLine |-> x.debited]

BilledOn(l) == [d \in Document |-> IF d.type = "Invoice" THEN Over(QtyOn(l), d.lines) ELSE 0]
DebitsOn(l) == [d \in Document |-> IF d.type = "Invoice" THEN Over(DebitedOn(l), d.lines) ELSE 0]
NotesOn(l) == [d \in Document |-> IF d.type = "Invoice" THEN 0 ELSE Over(QtyOn(l), d.lines)]
BilledFrom(k) == [d \in Document |-> IF d.type = "Invoice" THEN Over(FromRow(k), d.lines) ELSE 0]
NotesTo(k) == [d \in Document |-> IF d.against = k THEN Over(AllQty, d.lines) ELSE 0]

InvoicesCounted ==
    \A l \in Lines :
        /\ line[l].invoiced = Over(BilledOn(l), invoices) - Over(NotesOn(l), invoices)
        /\ Over(DebitsOn(l), invoices) = Over(NotesOn(l), invoices)

NotesCounted ==
    \A k \in DOMAIN invoices : invoices[k].type = "Invoice" =>
        Over(AllDebited, invoices[k].lines) = Over(NotesTo(k), invoices)

DrawingCounted == \A k \in DOMAIN receipts : receipts[k].billed = Over(BilledFrom(k), invoices)

Counted == ReceiptsCounted /\ InvoicesCounted /\ NotesCounted /\ DrawingCounted

\* What is counted of a document line is an integer.
LEMMA LineFunctions ==
  /\ \A l : /\ QtyOn(l) \in [DocumentLine -> Int] /\ DebitedOn(l) \in [DocumentLine -> Int]
            /\ FromRow(l) \in [DocumentLine -> Int]
  /\ AllQty \in [DocumentLine -> Int] /\ AllDebited \in [DocumentLine -> Int]
  <1>1. \A x \in DocumentLine : x.qty \in Int /\ x.debited \in Int
    BY LineFields
  <1> QED
    BY <1>1 DEF QtyOn, DebitedOn, FromRow, AllQty, AllDebited

\* And so is what is counted of a document.
LEMMA DocumentFunctions ==
  ASSUME NEW l
  PROVE  /\ BilledOn(l) \in [Document -> Int] /\ DebitsOn(l) \in [Document -> Int]
         /\ NotesOn(l) \in [Document -> Int] /\ BilledFrom(l) \in [Document -> Int]
         /\ NotesTo(l) \in [Document -> Int]
  <1>1. \A d \in Document : d.lines \in Seq(DocumentLine)
    BY DEF Document
  <1>2. \A d \in Document :
           /\ Over(QtyOn(l), d.lines) \in Int /\ Over(DebitedOn(l), d.lines) \in Int
           /\ Over(FromRow(l), d.lines) \in Int /\ Over(AllQty, d.lines) \in Int
    BY <1>1, LineFunctions, OverInt
  <1> QED
    BY <1>2 DEF BilledOn, DebitsOn, NotesOn, BilledFrom, NotesTo

\* What is taken back of an order line is the sum of the lines of the note.
LEMMA BackIsOver ==
  ASSUME NEW ls \in Seq(DocumentLine), NEW l
  PROVE  BackOn(ls, l) = Over(QtyOn(l), ls)
  <1>1. [i \in DOMAIN ls |-> QtyOn(l)[ls[i]]]
          = [i \in DOMAIN ls |-> IF ls[i].line = l THEN ls[i].qty ELSE 0]
    BY DEF QtyOn
  <1> QED
    BY <1>1 DEF BackOn, SumWhere, Over

(* The lines of an invoice count what was asked, and nothing of them is debited. *)
LEMMA BillingCounts ==
  ASSUME NEW request \in Seq(Draw(Lines)), NEW ls \in Seq(DocumentLine), Billing(request, ls), NEW l
  PROVE  /\ Over(QtyOn(l), ls) = Asked(request, l)
         /\ Over(FromRow(l), ls) = DrawnBy(request, l)
         /\ Over(DebitedOn(l), ls) = 0 /\ Over(AllDebited, ls) = 0
  <1>1. \A i \in DOMAIN ls : ls[i] \in DocumentLine
    OBVIOUS
  <1>2. DOMAIN ls = DOMAIN request
        /\ \A i \in DOMAIN ls : /\ ls[i].line = request[i].at /\ ls[i].qty = request[i].qty
                                /\ ls[i].from = request[i].from /\ ls[i].debited = 0
    BY DEF Billing
  <1>3. /\ [i \in DOMAIN ls |-> QtyOn(l)[ls[i]]]
             = [i \in DOMAIN request |-> IF request[i].at = l THEN request[i].qty ELSE 0]
        /\ [i \in DOMAIN ls |-> FromRow(l)[ls[i]]]
             = [i \in DOMAIN request |-> IF request[i].from = l THEN request[i].qty ELSE 0]
    BY <1>1, <1>2 DEF QtyOn, FromRow
  <1>4. Over(QtyOn(l), ls) = Asked(request, l)
    BY <1>3 DEF Over, Asked, SumWhere
  <1>5. Over(FromRow(l), ls) = DrawnBy(request, l)
    BY <1>3 DEF Over, DrawnBy, SumWhere
  <1>6. \A i \in DOMAIN ls : DebitedOn(l)[ls[i]] = 0 /\ AllDebited[ls[i]] = 0
    BY <1>1, <1>2 DEF DebitedOn, AllDebited
  <1>7. Over(DebitedOn(l), ls) = 0 /\ Over(AllDebited, ls) = 0
    BY <1>6, LineFunctions, OverZero
  <1> QED
    BY <1>4, <1>5, <1>7

\* Lines each worth c of the debited quantity more, as f counts them; g counts the note's.
Moved(request, old, d, ls, f, g, c) ==
    /\ c \in [DOMAIN old.lines -> Int]
    /\ \A j \in DOMAIN old.lines :
          f[d.lines[j]] = f[old.lines[j]] + c[j] * Asked(request, j)
    /\ \A i \in DOMAIN ls : g[ls[i]] = c[request[i].at] * request[i].qty

(* What a debit note takes back is debited from the lines of its invoice. *)
LEMMA DebitSum ==
  ASSUME NEW old \in Document, NEW d \in Document, NEW request \in Seq(Ask(DOMAIN old.lines)),
         NEW ls \in Seq(DocumentLine), Debits(request, old, ls),
         SameButDebited(request, old, d),
         NEW f \in [DocumentLine -> Int], NEW g, NEW c, Moved(request, old, d, ls, f, g, c)
  PROVE  Over(f, d.lines) = Over(f, old.lines) + Over(g, ls)
  <1>1. old.lines \in Seq(DocumentLine) /\ d.lines \in Seq(DocumentLine)
    BY DEF Document
  <1>2. /\ DOMAIN d.lines = DOMAIN old.lines
        /\ DOMAIN old.lines = 1..Len(old.lines) /\ Len(old.lines) \in Nat
    BY <1>1 DEF SameButDebited
  <1>3. /\ \A i \in DOMAIN request : request[i].qty \in Nat /\ request[i].at \in DOMAIN old.lines
        /\ \A j : Asked(request, j) \in Nat
    BY Requested
  <1> DEFINE n == Len(old.lines)
             b == [j \in DOMAIN old.lines |-> c[j] * Asked(request, j)]
  <1>4. ASSUME NEW j \in DOMAIN old.lines
        PROVE  b[j] \in Int /\ f[d.lines[j]] = f[old.lines[j]] + b[j]
    <2>1. c[j] \in Int /\ Asked(request, j) \in Int
      BY <1>3 DEF Moved
    <2>2. b[j] = c[j] * Asked(request, j)
      OBVIOUS
    <2>3. f[d.lines[j]] = f[old.lines[j]] + c[j] * Asked(request, j)
      BY DEF Moved
    <2>4. c[j] * Asked(request, j) \in Int
      BY <2>1, Products
    <2> HIDE DEF b
    <2> QED
      BY <2>2, <2>3, <2>4
  <1>5. Over(f, d.lines) = Over(f, old.lines) + SeqSum([j \in DOMAIN old.lines |-> b[j]])
    <2> HIDE DEF b
    <2>1. Shifted(DocumentLine, f, old.lines, d.lines, b)
      BY <1>1, <1>2, <1>4 DEF Shifted
    <2> QED
      BY <2>1, OverAdd
  <1>6. SeqSum([j \in DOMAIN old.lines |-> b[j]]) = Over(g, ls)
    <2>1. c \in [1..n -> Int] /\ n \in Nat
      BY <1>2 DEF Moved
    <2>2. \A i \in DOMAIN request : request[i].qty \in Nat /\ request[i].at \in 1..n
      BY <1>2, <1>3
    <2>3. [j \in DOMAIN old.lines |-> b[j]] = [j \in 1..n |-> c[j] * Asked(request, j)]
      BY <1>2
    <2>4. [i \in DOMAIN request |-> c[request[i].at] * request[i].qty]
            = [i \in DOMAIN ls |-> g[ls[i]]]
      BY DEF Debits, Moved
    <2> HIDE DEF n, b
    <2>5. SeqSum([j \in 1..n |-> c[j] * Asked(request, j)])
            = SeqSum([i \in DOMAIN request |-> c[request[i].at] * request[i].qty])
      BY <2>1, <2>2, AskedGroup
    <2> QED
      BY <2>3, <2>4, <2>5 DEF Over
  <1> QED
    BY <1>5, <1>6

\* Of an order line, and of the whole invoice.
LEMMA DebitCounts ==
  ASSUME NEW old \in Document, NEW d \in Document, NEW request \in Seq(Ask(DOMAIN old.lines)),
         NEW ls \in Seq(DocumentLine), Debits(request, old, ls),
         SameButDebited(request, old, d), NEW l
  PROVE  /\ Over(DebitedOn(l), d.lines) = Over(DebitedOn(l), old.lines) + BackOn(ls, l)
         /\ Over(AllDebited, d.lines) = Over(AllDebited, old.lines) + Over(AllQty, ls)
         /\ Over(QtyOn(l), d.lines) = Over(QtyOn(l), old.lines)
         /\ Over(FromRow(l), d.lines) = Over(FromRow(l), old.lines)
         /\ Over(AllQty, d.lines) = Over(AllQty, old.lines)
  <1>1. old.lines \in Seq(DocumentLine) /\ d.lines \in Seq(DocumentLine)
    BY DEF Document
  <1>2. /\ DOMAIN d.lines = DOMAIN old.lines
        /\ \A j \in DOMAIN old.lines : old.lines[j] \in DocumentLine /\ d.lines[j] \in DocumentLine
        /\ \A i \in DOMAIN ls : ls[i] \in DocumentLine
    BY <1>1 DEF SameButDebited
  <1>3. /\ \A i \in DOMAIN request : request[i].qty \in Nat /\ request[i].at \in DOMAIN old.lines
        /\ \A j : Asked(request, j) \in Nat
    BY Requested
  <1>4. ASSUME NEW j \in DOMAIN old.lines
        PROVE  /\ d.lines[j].line = old.lines[j].line /\ d.lines[j].qty = old.lines[j].qty
               /\ d.lines[j].from = old.lines[j].from
               /\ d.lines[j].debited = old.lines[j].debited + Asked(request, j)
               /\ old.lines[j].debited \in Nat /\ Asked(request, j) \in Nat
    BY <1>2, <1>3, LineFields DEF SameButDebited
  <1>5. ASSUME NEW i \in DOMAIN ls
        PROVE  /\ ls[i].line = old.lines[request[i].at].line /\ ls[i].qty = request[i].qty
               /\ request[i].at \in DOMAIN old.lines /\ request[i].qty \in Nat
    BY <1>3 DEF Debits
  <1>6. Over(DebitedOn(l), d.lines) = Over(DebitedOn(l), old.lines) + Over(QtyOn(l), ls)
    <2> DEFINE c == [j \in DOMAIN old.lines |-> IF old.lines[j].line = l THEN 1 ELSE 0]
    <2>1. ASSUME NEW j \in DOMAIN old.lines
          PROVE  DebitedOn(l)[d.lines[j]] = DebitedOn(l)[old.lines[j]] + c[j] * Asked(request, j)
      <3>1. c[j] * Asked(request, j) = IF old.lines[j].line = l THEN Asked(request, j) ELSE 0
        BY <1>4
      <3>2. /\ DebitedOn(l)[d.lines[j]] = IF d.lines[j].line = l THEN d.lines[j].debited ELSE 0
            /\ DebitedOn(l)[old.lines[j]]
                 = IF old.lines[j].line = l THEN old.lines[j].debited ELSE 0
        BY <1>2 DEF DebitedOn
      <3> HIDE DEF c
      <3> QED
        BY <1>4, <3>1, <3>2
    <2>2. ASSUME NEW i \in DOMAIN ls PROVE QtyOn(l)[ls[i]] = c[request[i].at] * request[i].qty
      <3>1. QtyOn(l)[ls[i]] = IF ls[i].line = l THEN ls[i].qty ELSE 0
        BY <1>2 DEF QtyOn
      <3> QED
        BY <1>5, <3>1
    <2>3. c \in [DOMAIN old.lines -> Int]
      OBVIOUS
    <2> HIDE DEF c
    <2>4. Moved(request, old, d, ls, DebitedOn(l), QtyOn(l), c)
      BY <2>1, <2>2, <2>3 DEF Moved
    <2>5. DebitedOn(l) \in [DocumentLine -> Int]
      BY LineFunctions
    <2> QED
      BY <2>4, <2>5, DebitSum
  <1>7. Over(AllDebited, d.lines) = Over(AllDebited, old.lines) + Over(AllQty, ls)
    <2> DEFINE c == [j \in DOMAIN old.lines |-> 1]
    <2>1. ASSUME NEW j \in DOMAIN old.lines
          PROVE  AllDebited[d.lines[j]] = AllDebited[old.lines[j]] + c[j] * Asked(request, j)
      <3>1. c[j] * Asked(request, j) = Asked(request, j)
        BY <1>4
      <3>2. /\ AllDebited[d.lines[j]] = d.lines[j].debited
            /\ AllDebited[old.lines[j]] = old.lines[j].debited
        BY <1>2 DEF AllDebited
      <3> HIDE DEF c
      <3> QED
        BY <1>4, <3>1, <3>2
    <2>2. ASSUME NEW i \in DOMAIN ls PROVE AllQty[ls[i]] = c[request[i].at] * request[i].qty
      <3>1. AllQty[ls[i]] = ls[i].qty
        BY <1>2 DEF AllQty
      <3> QED
        BY <1>5, <3>1
    <2>3. c \in [DOMAIN old.lines -> Int]
      OBVIOUS
    <2> HIDE DEF c
    <2>4. Moved(request, old, d, ls, AllDebited, AllQty, c)
      BY <2>1, <2>2, <2>3 DEF Moved
    <2>5. AllDebited \in [DocumentLine -> Int]
      BY LineFunctions
    <2> QED
      BY <2>4, <2>5, DebitSum
  <1>8. \A j \in DOMAIN old.lines : /\ QtyOn(l)[d.lines[j]] = QtyOn(l)[old.lines[j]]
                                    /\ FromRow(l)[d.lines[j]] = FromRow(l)[old.lines[j]]
                                    /\ AllQty[d.lines[j]] = AllQty[old.lines[j]]
    BY <1>2, <1>4 DEF QtyOn, FromRow, AllQty
  <1>9. ASSUME NEW f, \A j \in DOMAIN old.lines : f[d.lines[j]] = f[old.lines[j]]
        PROVE  Over(f, d.lines) = Over(f, old.lines)
    <2>1. Alike(f, d.lines, f, old.lines)
      BY <1>2, <1>9 DEF Alike
    <2> QED
      BY <2>1, OverEqual
  <1>10. /\ Over(QtyOn(l), d.lines) = Over(QtyOn(l), old.lines)
         /\ Over(FromRow(l), d.lines) = Over(FromRow(l), old.lines)
         /\ Over(AllQty, d.lines) = Over(AllQty, old.lines)
    BY <1>8, <1>9
  <1> QED
    BY <1>6, <1>7, <1>10, BackIsOver

(* A payment changes neither the kind nor the lines of a document. *)
LEMMA SettlesLines ==
  ASSUME Sound, NEW p, NEW target, NEW rest, Settles(p, target, rest), NEW k \in DOMAIN invoices
  PROVE  /\ rest[k].type = invoices[k].type /\ rest[k].lines = invoices[k].lines
         /\ rest[k].against = invoices[k].against /\ rest[k].total = invoices[k].total
  <1>1. invoices[k] \in Document /\ Open(invoices[k])
    BY Rows DEF Sound, DocumentsSound
  <1>2. CASE \A i \in DOMAIN target : target[i] # k
    BY <1>2 DEF Settles
  <1>3. ASSUME NEW i \in DOMAIN target, target[i] = k
        PROVE  /\ rest[k].type = invoices[k].type /\ rest[k].lines = invoices[k].lines
               /\ rest[k].against = invoices[k].against /\ rest[k].total = invoices[k].total
    <2> DEFINE x == p.allocations[i].invoice_amount
    <2>1. /\ x \in Nat \ {0} /\ x <= invoices[k].outstanding
          /\ rest[k] = Settled(invoices[k], x)
      BY <1>3 DEF Settles
    <2> HIDE DEF x
    <2> QED
      BY <1>1, <2>1, SettledDocument
  <1> QED
    BY <1>2, <1>3

Noted(k, d, n) == invoices' = Append([invoices EXCEPT ![k] = d], n)

(* One document replaced and one added at the end. *)
LEMMA NoteAppended ==
  ASSUME Typed, NEW k \in DOMAIN invoices, NEW d \in Document, NEW n \in Document,
         Noted(k, d, n), NEW f \in [Document -> Int]
  PROVE  /\ Over(f, invoices') = Over(f, invoices) + f[d] - f[invoices[k]] + f[n]
         /\ Over(f, invoices) \in Int /\ f[d] \in Int /\ f[n] \in Int /\ f[invoices[k]] \in Int
         /\ DOMAIN invoices' = 1..(Len(invoices) + 1)
         /\ invoices'[k] = d /\ invoices'[Len(invoices) + 1] = n
         /\ \A j \in DOMAIN invoices \ {k} : invoices'[j] = invoices[j]
  <1>1. /\ invoices \in Seq(Document) /\ invoices[k] \in Document
        /\ DOMAIN invoices = 1..Len(invoices) /\ Len(invoices) \in Nat
    BY Rows DEF Typed
  <1> DEFINE rest == [invoices EXCEPT ![k] = d]
  <1>2. /\ rest \in Seq(Document) /\ DOMAIN rest = DOMAIN invoices /\ rest[k] = d
        /\ \A j \in DOMAIN invoices \ {k} : rest[j] = invoices[j]
    BY <1>1
  <1>8. invoices' = Append(rest, n) /\ Len(rest) = Len(invoices)
    BY <1>1 DEF Noted
  <1> HIDE DEF rest
  <1>3. Over(f, rest) = Over(f, invoices) + f[rest[k]] - f[invoices[k]]
    <2>1. f \in [Document -> Int] /\ invoices \in Seq(Document)
      BY <1>1
    <2> QED
      <3>1. Replaced(invoices, rest, k)
        BY <1>2 DEF Replaced
      <3> QED
        BY <1>2, <2>1, <3>1, OverChange
  <1>4. Over(f, Append(rest, n)) = Over(f, rest) + f[n]
    BY <1>2, OverAppend
  <1>5. /\ Over(f, invoices) \in Int /\ f[d] \in Int /\ f[n] \in Int /\ f[invoices[k]] \in Int
    BY <1>1, OverInt
  <1>6. /\ DOMAIN invoices' = 1..(Len(invoices) + 1) /\ invoices'[Len(invoices) + 1] = n
        /\ \A j \in DOMAIN invoices : invoices'[j] = rest[j]
    BY <1>1, <1>2, <1>8
  <1>7. Over(f, invoices') = Over(f, invoices) + f[d] - f[invoices[k]] + f[n]
    BY <1>2, <1>3, <1>4, <1>8
  <1> QED
    BY <1>2, <1>5, <1>6, <1>7

\* No document is against one that is still to come.
LEMMA NothingNotedAhead ==
  ASSUME Sound, NEW k \in Nat, k \notin DOMAIN invoices
  PROVE  Over(NotesTo(k), invoices) = 0
  <1>1. /\ Typed /\ invoices \in Seq(Document)
        /\ \A m \in DOMAIN invoices : invoices[m] \in Document
        /\ DOMAIN invoices = 1..Len(invoices) /\ Len(invoices) \in Nat
    BY Rows DEF Sound, Typed
  <1>2. \A m \in DOMAIN invoices : invoices[m].against # k
    <2>1. None # k
      BY PurchaseAssumption
    <2>2. \A m \in DOMAIN invoices : invoices[m].against = None \/ invoices[m].against \in 1..(m - 1)
      BY DEF Sound, DocumentsSound
    <2> QED
      BY <1>1, <2>1, <2>2
  <1>3. \A m \in DOMAIN invoices : NotesTo(k)[invoices[m]] = 0
    BY <1>1, <1>2 DEF NotesTo
  <1> QED
    BY <1>1, <1>3, DocumentFunctions, OverZero

(* An invoice adds what it bills. *)
LEMMA InvoiceCounts ==
  ASSUME Sound, NEW request \in Seq(Draw(Lines)), InvoiceLines(request), NEW l
  PROVE  /\ Over(BilledOn(l), invoices') = Over(BilledOn(l), invoices) + Asked(request, l)
         /\ Over(DebitsOn(l), invoices') = Over(DebitsOn(l), invoices)
         /\ Over(NotesOn(l), invoices') = Over(NotesOn(l), invoices)
         /\ Over(BilledFrom(l), invoices') = Over(BilledFrom(l), invoices) + DrawnBy(request, l)
         /\ Over(BilledOn(l), invoices) \in Int /\ Over(NotesOn(l), invoices) \in Int
         /\ Asked(request, l) \in Int
  <1>1. Typed /\ invoices \in Seq(Document)
    BY DEF Sound, Typed
  <1>2. PICK ls \in Seq(DocumentLine), d \in Document :
           /\ Billing(request, ls) /\ Made(d, "Invoice", None, ls)
           /\ invoices' = Append(invoices, d)
    BY <1>1, InvoiceRows
  <1>3. d.type = "Invoice" /\ d.lines = ls
    BY <1>2 DEF Made
  <1>4. /\ Over(QtyOn(l), ls) = Asked(request, l) /\ Over(FromRow(l), ls) = DrawnBy(request, l)
        /\ Over(DebitedOn(l), ls) = 0
    BY <1>2, BillingCounts
  <1>5. /\ BilledOn(l)[d] = Asked(request, l) /\ DebitsOn(l)[d] = 0 /\ NotesOn(l)[d] = 0
        /\ BilledFrom(l)[d] = DrawnBy(request, l)
    BY <1>3, <1>4 DEF BilledOn, DebitsOn, NotesOn, BilledFrom
  <1>6. ASSUME NEW f \in [Document -> Int]
        PROVE  Over(f, invoices') = Over(f, invoices) + f[d] /\ Over(f, invoices) \in Int
    BY <1>1, <1>2, OverAppend, OverInt
  <1>7. /\ BilledOn(l) \in [Document -> Int] /\ DebitsOn(l) \in [Document -> Int]
        /\ NotesOn(l) \in [Document -> Int] /\ BilledFrom(l) \in [Document -> Int]
    BY DocumentFunctions
  <1>8. /\ Over(BilledOn(l), invoices') = Over(BilledOn(l), invoices) + BilledOn(l)[d]
        /\ Over(DebitsOn(l), invoices') = Over(DebitsOn(l), invoices) + DebitsOn(l)[d]
        /\ Over(NotesOn(l), invoices') = Over(NotesOn(l), invoices) + NotesOn(l)[d]
        /\ Over(BilledFrom(l), invoices') = Over(BilledFrom(l), invoices) + BilledFrom(l)[d]
        /\ Over(BilledOn(l), invoices) \in Int /\ Over(NotesOn(l), invoices) \in Int
        /\ Over(DebitsOn(l), invoices) \in Int
    BY <1>6, <1>7
  <1>9. Asked(request, l) \in Int
    BY Drawing
  <1> QED
    BY <1>5, <1>8, <1>9

\* A payment changes nothing that is counted.
LEMMA PayCounts ==
  ASSUME Sound, NEW p \in Entry, NEW target \in [DOMAIN p.allocations -> DOMAIN invoices],
         Pay(p, target), NEW l
  PROVE  /\ Over(BilledOn(l), invoices') = Over(BilledOn(l), invoices)
         /\ Over(DebitsOn(l), invoices') = Over(DebitsOn(l), invoices)
         /\ Over(NotesOn(l), invoices') = Over(NotesOn(l), invoices)
         /\ Over(BilledFrom(l), invoices') = Over(BilledFrom(l), invoices)
         /\ Over(NotesTo(l), invoices') = Over(NotesTo(l), invoices)
         /\ DOMAIN invoices' = DOMAIN invoices
         /\ \A k \in DOMAIN invoices : /\ invoices'[k].type = invoices[k].type
                                       /\ invoices'[k].lines = invoices[k].lines
  <1>1. /\ Settles(p, target, invoices') /\ invoices' \in Seq(Document)
        /\ DOMAIN invoices' = DOMAIN invoices
    BY PayRows DEF Settles
  <1>2. \A k \in DOMAIN invoices :
          /\ invoices'[k] \in Document /\ invoices[k] \in Document
          /\ invoices'[k].type = invoices[k].type /\ invoices'[k].lines = invoices[k].lines
          /\ invoices'[k].against = invoices[k].against
    BY <1>1, SettlesLines, Rows DEF Sound
  <1>3. \A k \in DOMAIN invoices : /\ BilledOn(l)[invoices'[k]] = BilledOn(l)[invoices[k]]
                                   /\ DebitsOn(l)[invoices'[k]] = DebitsOn(l)[invoices[k]]
                                   /\ NotesOn(l)[invoices'[k]] = NotesOn(l)[invoices[k]]
                                   /\ BilledFrom(l)[invoices'[k]] = BilledFrom(l)[invoices[k]]
                                   /\ NotesTo(l)[invoices'[k]] = NotesTo(l)[invoices[k]]
    BY <1>2 DEF BilledOn, DebitsOn, NotesOn, BilledFrom, NotesTo
  <1>4. ASSUME NEW f, \A k \in DOMAIN invoices : f[invoices'[k]] = f[invoices[k]]
        PROVE  Over(f, invoices') = Over(f, invoices)
    <2>1. Alike(f, invoices', f, invoices)
      BY <1>1, <1>4 DEF Alike
    <2> QED
      BY <2>1, OverEqual
  <1>5. /\ Over(BilledOn(l), invoices') = Over(BilledOn(l), invoices)
        /\ Over(DebitsOn(l), invoices') = Over(DebitsOn(l), invoices)
        /\ Over(NotesOn(l), invoices') = Over(NotesOn(l), invoices)
    BY <1>3, <1>4
  <1>6. /\ Over(BilledFrom(l), invoices') = Over(BilledFrom(l), invoices)
        /\ Over(NotesTo(l), invoices') = Over(NotesTo(l), invoices)
    BY <1>3, <1>4
  <1> QED
    BY <1>1, <1>2, <1>5, <1>6

\* A debit note adds what it takes back, as debited and as a note.
LEMMA NoteCounts ==
  ASSUME Sound, NEW k \in DOMAIN invoices, NEW request \in Seq(Ask(DOMAIN invoices[k].lines)),
         DebitInvoice(k, request),
         NEW ls \in Seq(DocumentLine), NEW d \in Document, NEW n \in Document, NEW x \in Nat,
         Debits(request, invoices[k], ls), DebitedBy(request, invoices[k], d, x),
         NoteOf(k, ls, n, x), Noted(k, d, n), NEW l
  PROVE  /\ Over(BilledOn(l), invoices') = Over(BilledOn(l), invoices)
         /\ Over(DebitsOn(l), invoices') = Over(DebitsOn(l), invoices) + BackOn(ls, l)
         /\ Over(NotesOn(l), invoices') = Over(NotesOn(l), invoices) + BackOn(ls, l)
         /\ Over(BilledFrom(l), invoices') = Over(BilledFrom(l), invoices)
  <1>1. Typed /\ invoices[k] \in Document /\ invoices \in Seq(Document)
    BY Rows DEF Sound, Typed
  <1>2. invoices[k].type = "Invoice" /\ d.type = "Invoice" /\ n.type # "Invoice" /\ n.lines = ls
    BY DEF DebitInvoice, DebitedBy, NoteOf, Made
  <1>3. SameButDebited(request, invoices[k], d)
    BY DEF DebitedBy
  <1>4. /\ Over(DebitedOn(l), d.lines) = Over(DebitedOn(l), invoices[k].lines) + BackOn(ls, l)
        /\ Over(QtyOn(l), d.lines) = Over(QtyOn(l), invoices[k].lines)
        /\ Over(FromRow(l), d.lines) = Over(FromRow(l), invoices[k].lines)
        /\ BackOn(ls, l) = Over(QtyOn(l), ls)
    BY <1>1, <1>3, DebitCounts, BackIsOver
  <1>5. /\ BilledOn(l)[d] = BilledOn(l)[invoices[k]] /\ BilledOn(l)[n] = 0
        /\ DebitsOn(l)[d] = DebitsOn(l)[invoices[k]] + BackOn(ls, l) /\ DebitsOn(l)[n] = 0
        /\ NotesOn(l)[d] = 0 /\ NotesOn(l)[invoices[k]] = 0 /\ NotesOn(l)[n] = BackOn(ls, l)
        /\ BilledFrom(l)[d] = BilledFrom(l)[invoices[k]] /\ BilledFrom(l)[n] = 0
    BY <1>1, <1>2, <1>4 DEF BilledOn, DebitsOn, NotesOn, BilledFrom
  <1>6. ASSUME NEW f \in [Document -> Int]
        PROVE  /\ Over(f, invoices') = Over(f, invoices) + f[d] - f[invoices[k]] + f[n]
               /\ Over(f, invoices) \in Int /\ f[d] \in Int /\ f[invoices[k]] \in Int
    BY <1>1, NoteAppended
  <1>7. /\ BilledOn(l) \in [Document -> Int] /\ DebitsOn(l) \in [Document -> Int]
        /\ NotesOn(l) \in [Document -> Int] /\ BilledFrom(l) \in [Document -> Int]
        /\ BackOn(ls, l) \in Nat
    BY DocumentFunctions, BackNat
  <1>8. Over(BilledOn(l), invoices') = Over(BilledOn(l), invoices)
    <2>1. /\ Over(BilledOn(l), invoices') = Over(BilledOn(l), invoices) + BilledOn(l)[d]
                                           - BilledOn(l)[invoices[k]] + BilledOn(l)[n]
          /\ Over(BilledOn(l), invoices) \in Int /\ BilledOn(l)[invoices[k]] \in Int
      BY <1>6, <1>7
    <2> QED
      BY <1>5, <2>1
  <1>9. Over(BilledFrom(l), invoices') = Over(BilledFrom(l), invoices)
    <2>1. /\ Over(BilledFrom(l), invoices') = Over(BilledFrom(l), invoices) + BilledFrom(l)[d]
                                           - BilledFrom(l)[invoices[k]] + BilledFrom(l)[n]
          /\ Over(BilledFrom(l), invoices) \in Int /\ BilledFrom(l)[invoices[k]] \in Int
      BY <1>6, <1>7
    <2> QED
      BY <1>5, <2>1
  <1>10. Over(DebitsOn(l), invoices') = Over(DebitsOn(l), invoices) + BackOn(ls, l)
    <2>1. /\ Over(DebitsOn(l), invoices') = Over(DebitsOn(l), invoices) + DebitsOn(l)[d]
                                              - DebitsOn(l)[invoices[k]] + DebitsOn(l)[n]
          /\ Over(DebitsOn(l), invoices) \in Int /\ DebitsOn(l)[invoices[k]] \in Int
      BY <1>6, <1>7
    <2> QED
      BY <1>5, <1>7, <2>1
  <1>11. Over(NotesOn(l), invoices') = Over(NotesOn(l), invoices) + BackOn(ls, l)
    <2>1. /\ Over(NotesOn(l), invoices') = Over(NotesOn(l), invoices) + NotesOn(l)[d]
                                             - NotesOn(l)[invoices[k]] + NotesOn(l)[n]
          /\ Over(NotesOn(l), invoices) \in Int
      BY <1>6, <1>7
    <2> QED
      BY <1>5, <1>7, <2>1
  <1> QED
    BY <1>8, <1>9, <1>10, <1>11

\* No more is debited of an order line than was billed of it.
LEMMA DebitsWithinBilled ==
  ASSUME NEW l, NEW docs \in Seq(Document), \A k \in DOMAIN docs : Open(docs[k])
  PROVE  Over(DebitsOn(l), docs) <= Over(BilledOn(l), docs)
  <1>1. ASSUME NEW k \in DOMAIN docs PROVE DebitsOn(l)[docs[k]] <= BilledOn(l)[docs[k]]
    <2> DEFINE d == docs[k]
    <2>1. d \in Document /\ Open(d)
      OBVIOUS
    <2> HIDE DEF d
    <2>7. d.lines \in Seq(DocumentLine)
      BY <2>1 DEF Document
    <2>2. \A j \in DOMAIN d.lines : d.lines[j] \in DocumentLine
      BY <2>7
    <2>3. \A j \in DOMAIN d.lines : /\ d.lines[j].debited <= d.lines[j].qty
                                    /\ d.lines[j].qty \in Nat /\ d.lines[j].debited \in Nat
      BY <2>1, <2>2, LineFields DEF Open
    <2>4. \A j \in DOMAIN d.lines : DebitedOn(l)[d.lines[j]] <= QtyOn(l)[d.lines[j]]
      BY <2>2, <2>3 DEF DebitedOn, QtyOn
    <2>5. Over(DebitedOn(l), d.lines) <= Over(QtyOn(l), d.lines)
      BY <2>7, <2>4, LineFunctions, OverMonotone
    <2>6. DebitsOn(l)[d] <= BilledOn(l)[d]
      BY <2>1, <2>5 DEF DebitsOn, BilledOn
    <2> QED
      BY <2>6 DEF d
  <1> QED
    BY <1>1, DocumentFunctions, OverMonotone

\* A debit note takes from the invoiced quantity what it takes from the invoice.
LEMMA DebitCounted ==
  ASSUME Sound, InvoicesCounted, NEW k \in DOMAIN invoices,
         NEW request \in Seq(Ask(DOMAIN invoices[k].lines)), DebitInvoice(k, request)
  PROVE  /\ InvoicesCounted'
         /\ \A l : Over(BilledFrom(l), invoices') = Over(BilledFrom(l), invoices)
  <1>1. Typed
    BY DEF Sound
  <1>2. PICK ls \in Seq(DocumentLine), d \in Document, n \in Document, x \in Nat :
            /\ Debits(request, invoices[k], ls)
            /\ DebitedBy(request, invoices[k], d, x) /\ NoteOf(k, ls, n, x)
            /\ invoices' = Append([invoices EXCEPT ![k] = d], n)
            /\ line' = [l \in Lines |-> LineDebited(l, BackOn(ls, l))]
    BY DebitRows
  <1>3. Noted(k, d, n)
    BY <1>2 DEF Noted
  <1>4. ASSUME NEW l
        PROVE  /\ Over(BilledOn(l), invoices') = Over(BilledOn(l), invoices)
               /\ Over(DebitsOn(l), invoices') = Over(DebitsOn(l), invoices) + BackOn(ls, l)
               /\ Over(NotesOn(l), invoices') = Over(NotesOn(l), invoices) + BackOn(ls, l)
               /\ Over(BilledFrom(l), invoices') = Over(BilledFrom(l), invoices)
    BY <1>2, <1>3, NoteCounts
  <1>5. invoices' \in Seq(Document) /\ \A j \in DOMAIN invoices' : Open(invoices'[j])
    <2>1. Typed' /\ DocumentsSound'
      BY DebitSound DEF Sound
    <2> QED
      BY <2>1 DEF Typed, DocumentsSound
  <1>6. ASSUME NEW l \in Lines
        PROVE  /\ line'[l].invoiced = Over(BilledOn(l), invoices') - Over(NotesOn(l), invoices')
               /\ Over(DebitsOn(l), invoices') = Over(NotesOn(l), invoices')
    <2>1. line[l] \in Counters /\ line[l].invoiced \in Nat
      BY <1>1, Rows DEF Counters
    <2>2. line'[l].invoiced = IF line[l].invoiced > BackOn(ls, l)
                              THEN line[l].invoiced - BackOn(ls, l) ELSE 0
      BY <1>2, <2>1 DEF LineDebited, Counters
    <2>3. Over(DebitsOn(l), invoices') <= Over(BilledOn(l), invoices')
      BY <1>5, DebitsWithinBilled
    <2>4. /\ Over(BilledOn(l), invoices) \in Int /\ Over(DebitsOn(l), invoices) \in Int
          /\ Over(NotesOn(l), invoices) \in Int /\ BackOn(ls, l) \in Nat
      BY <1>1, DocumentFunctions, OverInt, BackNat DEF Typed
    <2>5. /\ line[l].invoiced = Over(BilledOn(l), invoices) - Over(NotesOn(l), invoices)
          /\ Over(DebitsOn(l), invoices) = Over(NotesOn(l), invoices)
      BY DEF InvoicesCounted
    <2> QED
      BY <1>4, <2>1, <2>2, <2>3, <2>4, <2>5
  <1> QED
    BY <1>4, <1>6 DEF InvoicesCounted

(* Every handler keeps the invoiced quantity of the lines. *)
LEMMA InvoicesStayCounted ==
  ASSUME Sound, InvoicesCounted, [Handlers]_vars
  PROVE  InvoicesCounted'
  <1>1. Typed /\ \A l \in Lines : line[l] \in Counters
    BY Rows DEF Sound
  <1>2. ASSUME invoices' = invoices, \A l \in Lines : line'[l].invoiced = line[l].invoiced
        PROVE  InvoicesCounted'
    BY <1>2 DEF InvoicesCounted
  <1>3. CASE PostOrder \/ UNCHANGED vars
    BY <1>2, <1>3 DEF PostOrder, vars
  <1>4. ASSUME NEW request \in Seq(Arrival), ReceiveLines(request) PROVE InvoicesCounted'
    BY <1>1, <1>2, <1>4 DEF ReceiveLines, Counters
  <1>5. ASSUME NEW request \in Seq(Back(DOMAIN receipts)), ReturnLines(request)
        PROVE  InvoicesCounted'
    <2>1. PICK new \in Seq(ReceiptRow) :
             line' = [l \in Lines |-> [line[l] EXCEPT !.returned = @ + BroughtBy(new, l)]]
      BY <1>1, <1>5, ReturnRows DEF Sound
    <2>2. \A l \in Lines : line'[l].invoiced = line[l].invoiced
      BY <1>1, <2>1 DEF Counters
    <2> QED
      BY <1>2, <1>5, <2>2 DEF ReturnLines
  <1>6. ASSUME NEW request \in Seq(Draw(Lines)), InvoiceLines(request) PROVE InvoicesCounted'
    <2>1. \A l \in Lines : line'[l].invoiced = line[l].invoiced + Asked(request, l)
      BY <1>1, <1>6 DEF InvoiceLines, Counters
    <2>2. ASSUME NEW l \in Lines
          PROVE  /\ line'[l].invoiced = Over(BilledOn(l), invoices') - Over(NotesOn(l), invoices')
                 /\ Over(DebitsOn(l), invoices') = Over(NotesOn(l), invoices')
      BY <1>6, <2>1, InvoiceCounts DEF InvoicesCounted
    <2> QED
      BY <2>2 DEF InvoicesCounted
  <1>7. ASSUME NEW p \in Entry, NEW target \in [DOMAIN p.allocations -> DOMAIN invoices],
               Pay(p, target)
        PROVE  InvoicesCounted'
    <2>1. line' = line
      BY <1>7 DEF Pay
    <2> QED
      BY <1>7, <2>1, PayCounts DEF InvoicesCounted
  <1>8. ASSUME NEW k \in DOMAIN invoices, NEW request \in Seq(Ask(DOMAIN invoices[k].lines)),
               DebitInvoice(k, request)
        PROVE  InvoicesCounted'
    BY <1>8, DebitCounted
  <1> QED
    BY <1>3, <1>4, <1>5, <1>6, <1>7, <1>8 DEF Handlers

(* Every handler keeps the debited quantity of the invoices. *)
LEMMA NotesStayCounted ==
  ASSUME Sound, NotesCounted, [Handlers]_vars
  PROVE  NotesCounted'
  <1>1. /\ Typed /\ invoices \in Seq(Document)
        /\ DOMAIN invoices = 1..Len(invoices) /\ Len(invoices) \in Nat
        /\ \A k \in DOMAIN invoices : invoices[k] \in Document
    BY Rows DEF Sound, Typed
  <1>2. CASE invoices' = invoices
    BY <1>2 DEF NotesCounted
  <1>3. CASE PostOrder \/ UNCHANGED vars
    BY <1>2, <1>3 DEF PostOrder, vars
  <1>4. ASSUME NEW request \in Seq(Arrival), ReceiveLines(request) PROVE NotesCounted'
    BY <1>2, <1>4 DEF ReceiveLines
  <1>5. ASSUME NEW request \in Seq(Back(DOMAIN receipts)), ReturnLines(request)
        PROVE  NotesCounted'
    BY <1>2, <1>5 DEF ReturnLines
  <1>6. ASSUME NEW request \in Seq(Draw(Lines)), InvoiceLines(request) PROVE NotesCounted'
    <2>1. PICK ls \in Seq(DocumentLine), d \in Document :
             /\ Billing(request, ls) /\ Made(d, "Invoice", None, ls)
             /\ invoices' = Append(invoices, d)
      BY <1>1, <1>6, InvoiceRows
    <2>2. /\ d.against = None /\ d.lines = ls
          /\ DOMAIN invoices' = 1..(Len(invoices) + 1) /\ invoices'[Len(invoices) + 1] = d
          /\ \A j \in DOMAIN invoices : invoices'[j] = invoices[j]
      BY <1>1, <2>1 DEF Made
    <2>3. Over(AllDebited, ls) = 0
      BY <2>1, BillingCounts
    <2>4. ASSUME NEW k \in Nat
          PROVE  Over(NotesTo(k), invoices') = Over(NotesTo(k), invoices)
      <3>1. None # k
        BY PurchaseAssumption
      <3>2. NotesTo(k)[d] = 0
        BY <2>2, <3>1 DEF NotesTo
      <3>3. NotesTo(k) \in [Document -> Int]
        BY DocumentFunctions
      <3>4. /\ Over(NotesTo(k), invoices') = Over(NotesTo(k), invoices) + NotesTo(k)[d]
            /\ Over(NotesTo(k), invoices) \in Int
        BY <1>1, <2>1, <3>3, OverAppend, OverInt
      <3> QED
        BY <3>2, <3>4
    <2>5. ASSUME NEW k \in DOMAIN invoices', invoices'[k].type = "Invoice"
          PROVE  Over(AllDebited, invoices'[k].lines) = Over(NotesTo(k), invoices')
      <3>1. CASE k \in DOMAIN invoices
        BY <1>1, <2>2, <2>4, <2>5, <3>1 DEF NotesCounted
      <3>2. CASE k \notin DOMAIN invoices
        <4>1. k = Len(invoices) + 1 /\ k \in Nat
          BY <1>1, <2>2, <3>2
        <4> QED
          BY <2>2, <2>3, <2>4, <3>2, <4>1, NothingNotedAhead
      <3> QED
        BY <3>1, <3>2
    <2> QED
      BY <2>5 DEF NotesCounted
  <1>7. ASSUME NEW p \in Entry, NEW target \in [DOMAIN p.allocations -> DOMAIN invoices],
               Pay(p, target)
        PROVE  NotesCounted'
    BY <1>7, PayCounts DEF NotesCounted
  <1>8. ASSUME NEW k \in DOMAIN invoices, NEW request \in Seq(Ask(DOMAIN invoices[k].lines)),
               DebitInvoice(k, request)
        PROVE  NotesCounted'
    <2>1. PICK ls \in Seq(DocumentLine), d \in Document, n \in Document, x \in Nat :
             /\ Debits(request, invoices[k], ls)
             /\ DebitedBy(request, invoices[k], d, x) /\ NoteOf(k, ls, n, x)
             /\ invoices' = Append([invoices EXCEPT ![k] = d], n)
             /\ line' = [l \in Lines |-> LineDebited(l, BackOn(ls, l))]
      BY <1>8, DebitRows
    <2>2. Noted(k, d, n)
      BY <2>1 DEF Noted
    <2>3. /\ invoices[k].type = "Invoice" /\ d.type = "Invoice" /\ d.against = invoices[k].against
          /\ n.type # "Invoice" /\ n.against = k /\ n.lines = ls
      BY <1>8, <2>1 DEF DebitInvoice, DebitedBy, NoteOf, Made
    <2>4. SameButDebited(request, invoices[k], d)
      BY <2>1 DEF DebitedBy
    <2>5. /\ Over(AllDebited, d.lines) = Over(AllDebited, invoices[k].lines) + Over(AllQty, ls)
          /\ Over(AllQty, d.lines) = Over(AllQty, invoices[k].lines)
      BY <1>1, <2>1, <2>4, DebitCounts
    <2>6. ASSUME NEW j
          PROVE  Over(NotesTo(j), invoices')
                   = Over(NotesTo(j), invoices) + (IF j = k THEN Over(AllQty, ls) ELSE 0)
      <3>1. /\ NotesTo(j)[d] = NotesTo(j)[invoices[k]]
            /\ NotesTo(j)[n] = IF j = k THEN Over(AllQty, ls) ELSE 0
        BY <1>1, <2>3, <2>5 DEF NotesTo
      <3>2. NotesTo(j) \in [Document -> Int]
        BY DocumentFunctions
      <3>3. /\ Over(NotesTo(j), invoices') = Over(NotesTo(j), invoices) + NotesTo(j)[d]
                                               - NotesTo(j)[invoices[k]] + NotesTo(j)[n]
            /\ Over(NotesTo(j), invoices) \in Int /\ NotesTo(j)[invoices[k]] \in Int
            /\ NotesTo(j)[n] \in Int
        BY <1>1, <2>2, <3>2, NoteAppended
      <3> HIDE DEF NotesTo
      <3> QED
        BY <3>1, <3>3
    <2>7. /\ DOMAIN invoices' = 1..(Len(invoices) + 1) /\ invoices'[k] = d
          /\ invoices'[Len(invoices) + 1] = n
          /\ \A j \in DOMAIN invoices \ {k} : invoices'[j] = invoices[j]
      <3>1. BilledOn(k) \in [Document -> Int]
        BY DocumentFunctions
      <3> QED
        BY <1>1, <2>2, <3>1, NoteAppended
    <2>8. ASSUME NEW j \in DOMAIN invoices', invoices'[j].type = "Invoice"
          PROVE  Over(AllDebited, invoices'[j].lines) = Over(NotesTo(j), invoices')
      <3>1. CASE j = k
        BY <2>3, <2>5, <2>6, <2>7, <3>1 DEF NotesCounted
      <3>2. CASE j # k
        <4>1. j \in DOMAIN invoices /\ j # k
          BY <1>1, <2>3, <2>7, <2>8, <3>2
        <4>2. Over(NotesTo(j), invoices) \in Int
          BY <1>1, DocumentFunctions, OverInt
        <4>3. Over(NotesTo(j), invoices') = Over(NotesTo(j), invoices)
          BY <2>6, <4>1, <4>2
        <4> QED
          BY <2>7, <2>8, <4>1, <4>3 DEF NotesCounted
      <3> QED
        BY <3>1, <3>2
    <2> QED
      BY <2>8 DEF NotesCounted
  <1> QED
    BY <1>3, <1>4, <1>5, <1>6, <1>7, <1>8 DEF Handlers

(* No invoice line draws from a receipt row that is still to come. *)
LEMMA NothingDrawnAhead ==
  ASSUME Sound, NEW k \in Nat, k \notin DOMAIN receipts
  PROVE  Over(BilledFrom(k), invoices) = 0
  <1>1. /\ Typed /\ invoices \in Seq(Document)
        /\ \A m \in DOMAIN invoices : invoices[m] \in Document
    BY Rows DEF Sound, Typed
  <1>2. None # k
    BY PurchaseAssumption
  <1>3. ASSUME NEW m \in DOMAIN invoices PROVE BilledFrom(k)[invoices[m]] = 0
    <2>1. /\ invoices[m].lines \in Seq(DocumentLine)
          /\ \A j \in DOMAIN invoices[m].lines : invoices[m].lines[j] \in DocumentLine
      BY <1>1 DEF Document
    <2>2. \A j \in DOMAIN invoices[m].lines : invoices[m].lines[j].from # k
      BY <1>2 DEF Sound, DocumentsSound, FromReceipts
    <2>3. \A j \in DOMAIN invoices[m].lines : FromRow(k)[invoices[m].lines[j]] = 0
      BY <2>1, <2>2 DEF FromRow
    <2>4. Over(FromRow(k), invoices[m].lines) = 0
      BY <2>1, <2>3, LineFunctions, OverZero
    <2> QED
      BY <1>1, <2>4 DEF BilledFrom
  <1> QED
    BY <1>1, <1>3, DocumentFunctions, OverZero

(* Rows added at the end keep what is billed from the rows, when none was billed yet. *)
LEMMA RowsStayDrawn ==
  ASSUME Sound, DrawingCounted, invoices' = invoices,
         NEW old \in Seq(ReceiptRow), NEW new \in Seq(ReceiptRow), receipts' = old \o new,
         DOMAIN old = DOMAIN receipts,
         \A k \in DOMAIN receipts : old[k].billed = receipts[k].billed,
         \A i \in DOMAIN new : new[i].billed = 0
  PROVE  DrawingCounted'
  <1>1. /\ DOMAIN old = 1..Len(old) /\ Len(old) \in Nat /\ DOMAIN new = 1..Len(new)
        /\ Len(new) \in Nat /\ DOMAIN receipts' = 1..(Len(old) + Len(new))
    OBVIOUS
  <1>2. ASSUME NEW k \in DOMAIN receipts'
        PROVE  receipts'[k].billed = Over(BilledFrom(k), invoices)
    <2>1. CASE k \in DOMAIN receipts
      <3>1. receipts'[k] = old[k]
        BY <1>1, <2>1
      <3> QED
        BY <2>1, <3>1 DEF DrawingCounted
    <2>2. CASE k \notin DOMAIN receipts
      <3>1. k \in Nat /\ k - Len(old) \in DOMAIN new /\ receipts'[k] = new[k - Len(old)]
        BY <1>1, <2>2
      <3> QED
        BY <2>2, <3>1, NothingDrawnAhead
    <2> QED
      BY <2>1, <2>2
  <1> QED
    BY <1>2 DEF DrawingCounted

(* Every handler keeps the billed quantity of the receipt rows. *)
LEMMA DrawingStaysCounted ==
  ASSUME Sound, InvoicesCounted, DrawingCounted, [Handlers]_vars
  PROVE  DrawingCounted'
  <1>1. Typed /\ ReceiptsSound /\ receipts \in Seq(ReceiptRow)
    BY DEF Sound, Typed
  <1>2. CASE PostOrder \/ UNCHANGED vars
    BY <1>2 DEF PostOrder, vars, DrawingCounted
  <1>3. ASSUME NEW request \in Seq(Arrival), ReceiveLines(request) PROVE DrawingCounted'
    <2>1. PICK new \in Seq(ReceiptRow) : Arrived(request, new) /\ receipts' = receipts \o new
      BY <1>1, <1>3, ReceiveRows
    <2>2. \A i \in DOMAIN new : new[i].billed = 0
      BY <2>1 DEF Arrived, NewRows
    <2>3. invoices' = invoices
      BY <1>3 DEF ReceiveLines
    <2> QED
      BY <1>1, <2>1, <2>2, <2>3, RowsStayDrawn
  <1>4. ASSUME NEW request \in Seq(Back(DOMAIN receipts)), ReturnLines(request)
        PROVE  DrawingCounted'
    <2>1. PICK old \in Seq(ReceiptRow), new \in Seq(ReceiptRow) :
             TakenFrom(request, old) /\ SentBack(request, new) /\ receipts' = old \o new
      BY <1>1, <1>4, ReturnRows
    <2>2. /\ DOMAIN old = DOMAIN receipts
          /\ \A k \in DOMAIN receipts : old[k].billed = receipts[k].billed
          /\ \A i \in DOMAIN new : new[i].billed = 0
      BY <2>1 DEF TakenFrom, SentBack, NewRows
    <2>3. invoices' = invoices
      BY <1>4 DEF ReturnLines
    <2> QED
      BY <2>1, <2>2, <2>3, RowsStayDrawn
  <1>5. ASSUME NEW request \in Seq(Draw(Lines)), InvoiceLines(request) PROVE DrawingCounted'
    <2>1. Drawn(request, receipts')
      BY <1>1, <1>5, InvoiceRows
    <2> QED
      BY <1>5, <2>1, InvoiceCounts DEF DrawingCounted, Drawn
  <1>6. ASSUME NEW p \in Entry, NEW target \in [DOMAIN p.allocations -> DOMAIN invoices],
               Pay(p, target)
        PROVE  DrawingCounted'
    <2>1. receipts' = receipts
      BY <1>6 DEF Pay
    <2> QED
      BY <1>6, <2>1, PayCounts DEF DrawingCounted
  <1>7. ASSUME NEW k \in DOMAIN invoices, NEW request \in Seq(Ask(DOMAIN invoices[k].lines)),
               DebitInvoice(k, request)
        PROVE  DrawingCounted'
    <2>1. receipts' = receipts
      BY <1>7 DEF DebitInvoice
    <2> QED
      BY <1>7, <2>1, DebitCounted DEF DrawingCounted
  <1> QED
    BY <1>2, <1>3, <1>4, <1>5, <1>6, <1>7 DEF Handlers

(* Nothing is received or billed before the first document. *)
LEMMA InitCounted == EntryInit => Counted
  <1> SUFFICES ASSUME EntryInit PROVE Counted
    OBVIOUS
  <1>1. NothingDone
    BY DEF EntryInit, Init, ImportOrder
  <1>2. receipts = <<>> /\ invoices = <<>>
    BY <1>1 DEF NothingDone
  <1>3. \A l \in Lines : line[l].received = 0 /\ line[l].returned = 0 /\ line[l].invoiced = 0
    BY <1>1 DEF NothingDone
  <1> QED
    BY <1>2, <1>3, OverEmpty
       DEF Counted, ReceiptsCounted, InvoicesCounted, NotesCounted, DrawingCounted

(* The rows stay sound and the counters stay the sums of the rows. *)
THEOREM CountedAlways == EntrySpec => [](Sound /\ Counted)
  <1>1. EntryInit => Sound /\ Counted
    BY InitSound, InitCounted
  <1>2. Sound /\ Counted /\ [Handlers]_vars => Counted'
    BY ReceiptsStayCounted, InvoicesStayCounted, NotesStayCounted, DrawingStaysCounted DEF Counted
  <1> QED
    BY <1>1, <1>2, SoundAlways, PTL DEF EntrySpec

(* The counters kept in place agree with the documents they summarise. *)
THEOREM CountersCorrect == EntrySpec => []CountersAreDocuments
  <1>1. Sound /\ Counted => CountersAreDocuments
    <2> SUFFICES ASSUME Sound, Counted PROVE CountersAreDocuments
      OBVIOUS
    <2>1. /\ Typed /\ \A k \in DOMAIN receipts : receipts[k] \in ReceiptRow
          /\ \A k \in DOMAIN invoices : invoices[k] \in Document
      BY Rows DEF Sound
    <2>2. ASSUME NEW l \in Lines
          PROVE  /\ line[l].received =
                      SumWhere(receipts, LAMBDA r : r.line = l /\ r.kind = "Receipt", Quantity)
                 /\ line[l].returned =
                      SumWhere(receipts, LAMBDA r : r.line = l /\ r.kind = "Return", Quantity)
      <3>1. /\ [k \in DOMAIN receipts |-> ReceivedOn(l)[receipts[k]]] = [k \in DOMAIN receipts |->
                   IF receipts[k].line = l /\ receipts[k].kind = "Receipt"
                   THEN Quantity(receipts[k]) ELSE 0]
            /\ [k \in DOMAIN receipts |-> SentOn(l)[receipts[k]]] = [k \in DOMAIN receipts |->
                   IF receipts[k].line = l /\ receipts[k].kind = "Return"
                   THEN Quantity(receipts[k]) ELSE 0]
        BY <2>1 DEF ReceivedOn, SentOn
      <3>2. /\ line[l].received = Over(ReceivedOn(l), receipts)
            /\ line[l].returned = Over(SentOn(l), receipts)
        BY DEF Counted, ReceiptsCounted
      <3> QED
        BY <3>1, <3>2 DEF Over, SumWhere
    <2>3. ASSUME NEW l \in Lines, NEW part \in {"accepted", "rejected"}
          PROVE  SumWhere(receipts, LAMBDA r : r.line = l /\ r.kind = "Return",
                          LAMBDA r : r[part]) =
                 SumWhere(receipts, LAMBDA r : r.line = l /\ r.kind = "Receipt",
                          LAMBDA r : IF part = "accepted" THEN r.acceptedReturned
                                                          ELSE r.rejectedReturned)
      <3>1. /\ Over(SentAccepted(l), receipts) = Over(TakenAccepted(l), receipts)
            /\ Over(SentRejected(l), receipts) = Over(TakenRejected(l), receipts)
        BY DEF Counted, ReceiptsCounted
      <3>2. ASSUME NEW k \in DOMAIN receipts
            PROVE  /\ receipts[k].kind \in Movements
                   /\ receipts[k].kind = "Return" =>
                         receipts[k].acceptedReturned = 0 /\ receipts[k].rejectedReturned = 0
        BY <2>1, RowFields DEF Sound, ReceiptsSound
      <3>3. CASE part = "accepted"
        <4>1. [k \in DOMAIN receipts |-> SentAccepted(l)[receipts[k]]]
                = [k \in DOMAIN receipts |->
                      IF receipts[k].line = l /\ receipts[k].kind = "Return"
                      THEN receipts[k][part] ELSE 0]
          BY <2>1, <3>3 DEF SentAccepted
        <4>2. [k \in DOMAIN receipts |-> TakenAccepted(l)[receipts[k]]]
                = [k \in DOMAIN receipts |->
                      IF receipts[k].line = l /\ receipts[k].kind = "Receipt"
                      THEN IF part = "accepted" THEN receipts[k].acceptedReturned
                                                ELSE receipts[k].rejectedReturned ELSE 0]
          BY <2>1, <3>2, <3>3 DEF TakenAccepted, Movements
        <4> QED
          BY <3>1, <4>1, <4>2 DEF Over, SumWhere
      <3>4. CASE part = "rejected"
        <4>1. [k \in DOMAIN receipts |-> SentRejected(l)[receipts[k]]]
                = [k \in DOMAIN receipts |->
                      IF receipts[k].line = l /\ receipts[k].kind = "Return"
                      THEN receipts[k][part] ELSE 0]
          BY <2>1, <3>4 DEF SentRejected
        <4>2. [k \in DOMAIN receipts |-> TakenRejected(l)[receipts[k]]]
                = [k \in DOMAIN receipts |->
                      IF receipts[k].line = l /\ receipts[k].kind = "Receipt"
                      THEN IF part = "accepted" THEN receipts[k].acceptedReturned
                                                ELSE receipts[k].rejectedReturned ELSE 0]
          BY <2>1, <3>2, <3>4 DEF TakenRejected, Movements
        <4> QED
          BY <3>1, <4>1, <4>2 DEF Over, SumWhere
      <3> QED
        BY <3>3, <3>4
    <2>4. ASSUME NEW l \in Lines
          PROVE  line[l].invoiced =
                    DocumentSum(IsInvoice, LAMBDA d :
                        LineSum(d, LAMBDA x : x.line = l, LAMBDA x : x.qty)) -
                    DocumentSum(IsNote, LAMBDA d :
                        LineSum(d, LAMBDA x : x.line = l, LAMBDA x : x.qty))
      <3> DEFINE f(d) == LineSum(d, LAMBDA x : x.line = l, LAMBDA x : x.qty)
      <3>1. ASSUME NEW k \in DOMAIN invoices
            PROVE  Over(QtyOn(l), invoices[k].lines) = f(invoices[k])
        <4>1. \A j \in DOMAIN invoices[k].lines : invoices[k].lines[j] \in DocumentLine
          BY <2>1 DEF Document
        <4>2. [j \in DOMAIN invoices[k].lines |-> QtyOn(l)[invoices[k].lines[j]]]
                = [j \in DOMAIN invoices[k].lines |->
                      IF invoices[k].lines[j].line = l THEN invoices[k].lines[j].qty ELSE 0]
          BY <4>1 DEF QtyOn
        <4> QED
          BY <4>2 DEF Over, LineSum, SumWhere
      <3> HIDE DEF f
      <3>2. /\ [k \in DOMAIN invoices |-> BilledOn(l)[invoices[k]]]
                 = [k \in DOMAIN invoices |->
                       IF IsInvoice(invoices[k]) THEN f(invoices[k]) ELSE 0]
            /\ [k \in DOMAIN invoices |-> NotesOn(l)[invoices[k]]]
                 = [k \in DOMAIN invoices |->
                       IF IsNote(invoices[k]) THEN f(invoices[k]) ELSE 0]
        BY <2>1, <3>1 DEF BilledOn, NotesOn, IsInvoice, IsNote
      <3>3. /\ Over(BilledOn(l), invoices) = DocumentSum(IsInvoice, f)
            /\ Over(NotesOn(l), invoices) = DocumentSum(IsNote, f)
        BY <3>2 DEF Over, DocumentSum, SumWhere
      <3>4. line[l].invoiced = DocumentSum(IsInvoice, f) - DocumentSum(IsNote, f)
        BY <3>3 DEF Counted, InvoicesCounted
      <3> QED
        BY <3>4 DEF f
    <2>5. ASSUME NEW k \in DOMAIN receipts
          PROVE  receipts[k].billed = DocumentSum(IsInvoice, LAMBDA d :
                    LineSum(d, LAMBDA x : x.from = k, LAMBDA x : x.qty))
      <3> DEFINE f(d) == LineSum(d, LAMBDA x : x.from = k, LAMBDA x : x.qty)
      <3>1. ASSUME NEW m \in DOMAIN invoices
            PROVE  Over(FromRow(k), invoices[m].lines) = f(invoices[m])
        <4>1. \A j \in DOMAIN invoices[m].lines : invoices[m].lines[j] \in DocumentLine
          BY <2>1 DEF Document
        <4>2. [j \in DOMAIN invoices[m].lines |-> FromRow(k)[invoices[m].lines[j]]]
                = [j \in DOMAIN invoices[m].lines |->
                      IF invoices[m].lines[j].from = k THEN invoices[m].lines[j].qty ELSE 0]
          BY <4>1 DEF FromRow
        <4> QED
          BY <4>2 DEF Over, LineSum, SumWhere
      <3> HIDE DEF f
      <3>2. [m \in DOMAIN invoices |-> BilledFrom(k)[invoices[m]]]
              = [m \in DOMAIN invoices |->
                    IF IsInvoice(invoices[m]) THEN f(invoices[m]) ELSE 0]
        BY <2>1, <3>1 DEF BilledFrom, IsInvoice
      <3>3. receipts[k].billed = Over(BilledFrom(k), invoices)
        BY DEF Counted, DrawingCounted
      <3>4. receipts[k].billed = DocumentSum(IsInvoice, f)
        BY <3>2, <3>3 DEF Over, DocumentSum, SumWhere
      <3> QED
        BY <3>4 DEF f
    <2>6. ASSUME NEW k \in DOMAIN invoices, IsInvoice(invoices[k])
          PROVE  LineSum(invoices[k], Always, LAMBDA x : x.debited) =
                    DocumentSum(LAMBDA d : d.against = k, LAMBDA d :
                        LineSum(d, Always, LAMBDA x : x.qty))
      <3> DEFINE f(d) == LineSum(d, Always, LAMBDA x : x.qty)
                 P(d) == d.against = k
      <3>1. ASSUME NEW m \in DOMAIN invoices
            PROVE  Over(AllQty, invoices[m].lines) = f(invoices[m])
        <4>1. \A j \in DOMAIN invoices[m].lines : invoices[m].lines[j] \in DocumentLine
          BY <2>1 DEF Document
        <4>2. [j \in DOMAIN invoices[m].lines |-> AllQty[invoices[m].lines[j]]]
                = [j \in DOMAIN invoices[m].lines |->
                      IF Always(invoices[m].lines[j]) THEN invoices[m].lines[j].qty ELSE 0]
          BY <4>1 DEF AllQty, Always
        <4> QED
          BY <4>2 DEF Over, LineSum, SumWhere
      <3>2. LineSum(invoices[k], Always, LAMBDA x : x.debited)
              = Over(AllDebited, invoices[k].lines)
        <4>1. \A j \in DOMAIN invoices[k].lines : invoices[k].lines[j] \in DocumentLine
          BY <2>1 DEF Document
        <4>2. [j \in DOMAIN invoices[k].lines |-> AllDebited[invoices[k].lines[j]]]
                = [j \in DOMAIN invoices[k].lines |->
                      IF Always(invoices[k].lines[j]) THEN invoices[k].lines[j].debited ELSE 0]
          BY <4>1 DEF AllDebited, Always
        <4> QED
          BY <4>2 DEF Over, LineSum, SumWhere
      <3> HIDE DEF f
      <3>3. [m \in DOMAIN invoices |-> NotesTo(k)[invoices[m]]]
              = [m \in DOMAIN invoices |-> IF P(invoices[m]) THEN f(invoices[m]) ELSE 0]
        BY <2>1, <3>1 DEF NotesTo
      <3>4. Over(NotesTo(k), invoices) = DocumentSum(P, f)
        BY <3>3 DEF Over, DocumentSum, SumWhere
      <3>5. Over(AllDebited, invoices[k].lines) = Over(NotesTo(k), invoices)
        BY <2>6 DEF Counted, NotesCounted, IsInvoice
      <3>6. DocumentSum(P, f) = DocumentSum(LAMBDA d : d.against = k, LAMBDA d :
                        LineSum(d, Always, LAMBDA x : x.qty))
        BY DEF f
      <3> QED
        BY <3>2, <3>4, <3>5, <3>6
    <2> QED
      BY <2>2, <2>3, <2>4, <2>5, <2>6 DEF CountersAreDocuments
  <1> QED
    BY <1>1, CountedAlways, PTL

-----------------------------------------------------------------------------
(* What is kept of a line stays within its order, whatever it was billed. *)

KeptWithin ==
    \A l \in Lines : line[l].received - line[l].returned <= Maximum(l, ReceiptTolerance)

\* The most that may be received or billed of a line is a quantity.
LEMMA MaximumNat ==
  ASSUME NEW l \in Lines
  PROVE  Maximum(l, ReceiptTolerance) \in Nat /\ Maximum(l, BillingTolerance) \in Nat
  <1>0. /\ Ordered \in [Lines -> Nat \ {0}]
        /\ ReceiptTolerance \in [Lines -> Nat] /\ BillingTolerance \in [Lines -> Nat]
    BY PurchaseAssumption
  <1>1. /\ Ordered[l] \in Nat
        /\ 100 + ReceiptTolerance[l] \in Nat /\ 100 + BillingTolerance[l] \in Nat
    BY <1>0
  <1>2. /\ Ordered[l] * (100 + ReceiptTolerance[l]) \in Nat
        /\ Ordered[l] * (100 + BillingTolerance[l]) \in Nat
    BY <1>1, Products
  <1> QED
    BY <1>2, HalfEvenNat DEF Maximum

(* A receipt stays within what is left of the order. *)
LEMMA ReceiveKept ==
  ASSUME Sound, KeptWithin, NEW request \in Seq(Arrival), ReceiveLines(request)
  PROVE  KeptWithin'
  <1>1. Typed /\ \A l \in Lines : line[l] \in Counters
    BY Rows DEF Sound
  <1>2. PICK new \in Seq(ReceiptRow) :
           Arrived(request, new) /\ \A l \in Lines : Arriving(request, l) = BroughtBy(new, l)
    BY <1>1, ReceiveRows
  <1>3. ASSUME NEW l \in Lines
        PROVE  line'[l].received - line'[l].returned <= Maximum(l, ReceiptTolerance)
    <2>1. /\ line'[l].received = line[l].received + Arriving(request, l)
          /\ line'[l].returned = line[l].returned
      BY <1>1 DEF ReceiveLines, Counters
    <2>2. /\ line[l].received \in Nat /\ line[l].returned \in Nat
          /\ Arriving(request, l) \in Nat /\ Maximum(l, ReceiptTolerance) \in Nat
      BY <1>1, <1>2, BroughtNat, MaximumNat DEF Counters
    <2>3. CASE \E i \in DOMAIN request : request[i].at = l
      <3>1. line[l].received + Arriving(request, l) - line[l].returned
              <= Maximum(l, ReceiptTolerance)
        BY <2>3 DEF ReceiveLines, ReceiptAllowed
      <3> QED
        BY <2>1, <2>2, <3>1 DEF KeptWithin
    <2>4. CASE \A i \in DOMAIN request : request[i].at # l
      <3>1. BroughtBy(new, l) = 0
        <4>1. \A i \in DOMAIN new : new[i].line # l
          BY <1>2, <2>4 DEF Arrived
        <4>2. [i \in DOMAIN new |-> IF new[i].line = l THEN Quantity(new[i]) ELSE 0]
                = [i \in DOMAIN new |-> 0]
          BY <4>1
        <4>3. DOMAIN new = 1..Len(new) /\ Len(new) \in Nat
          OBVIOUS
        <4>4. SeqSum([i \in 1..Len(new) |-> 0]) = 0
          BY <4>3, SeqSumConst
        <4>5. BroughtBy(new, l)
                = SeqSum([i \in DOMAIN new |-> IF new[i].line = l THEN Quantity(new[i]) ELSE 0])
          BY DEF BroughtBy, SumWhere
        <4> QED
          BY <4>2, <4>3, <4>4, <4>5
      <3> QED
        BY <1>2, <2>1, <2>2, <3>1 DEF KeptWithin
    <2> QED
      BY <2>3, <2>4
  <1> QED
    BY <1>3 DEF KeptWithin, Maximum

(* Every handler keeps to the order: only a receipt adds to what is kept. *)
LEMMA StepKept ==
  ASSUME Sound, KeptWithin, [Handlers]_vars
  PROVE  KeptWithin'
  <1>1. /\ Typed /\ \A l \in Lines : line[l] \in Counters
    BY Rows DEF Sound
  <1>2. ASSUME \A l \in Lines : /\ line'[l].received = line[l].received
                                /\ line'[l].returned = line[l].returned
        PROVE  KeptWithin'
    BY <1>2 DEF KeptWithin, Maximum
  <1>3. CASE PostOrder \/ UNCHANGED vars
    BY <1>2, <1>3 DEF PostOrder, vars
  <1>4. ASSUME NEW request \in Seq(Back(DOMAIN receipts)), ReturnLines(request)
        PROVE  KeptWithin'
    <2>1. PICK new \in Seq(ReceiptRow) :
             line' = [l \in Lines |-> [line[l] EXCEPT !.returned = @ + BroughtBy(new, l)]]
      BY <1>1, <1>4, ReturnRows DEF Sound
    <2>2. ASSUME NEW l \in Lines
          PROVE  line'[l].received - line'[l].returned <= Maximum(l, ReceiptTolerance)
      <3>1. /\ line'[l].received = line[l].received
            /\ line'[l].returned = line[l].returned + BroughtBy(new, l)
        BY <1>1, <2>1 DEF Counters
      <3>2. /\ line[l].received \in Nat /\ line[l].returned \in Nat
            /\ BroughtBy(new, l) \in Nat /\ Maximum(l, ReceiptTolerance) \in Nat
        BY <1>1, BroughtNat, MaximumNat DEF Counters
      <3> QED
        BY <3>1, <3>2 DEF KeptWithin
    <2> QED
      BY <2>2 DEF KeptWithin, Maximum
  <1>5. ASSUME NEW request \in Seq(Draw(Lines)), InvoiceLines(request) PROVE KeptWithin'
    BY <1>1, <1>2, <1>5 DEF InvoiceLines, Counters
  <1>6. ASSUME NEW p \in Entry, NEW target \in [DOMAIN p.allocations -> DOMAIN invoices],
               Pay(p, target)
        PROVE  KeptWithin'
    BY <1>2, <1>6 DEF Pay
  <1>7. ASSUME NEW k \in DOMAIN invoices, NEW request \in Seq(Ask(DOMAIN invoices[k].lines)),
               DebitInvoice(k, request)
        PROVE  KeptWithin'
    <2>1. PICK ls \in Seq(DocumentLine) : line' = [l \in Lines |-> LineDebited(l, BackOn(ls, l))]
      BY <1>7, DebitRows
    <2> QED
      BY <1>1, <1>2, <2>1 DEF LineDebited, Counters
  <1> QED
    BY <1>3, <1>4, <1>5, <1>6, <1>7, ReceiveKept DEF Handlers

(* What comes back was received, in each of its parts. *)
LEMMA ReturnedWasReceived ==
  ASSUME Sound, ReceiptsCounted, NEW l \in Lines
  PROVE  line[l].returned <= line[l].received
  <1>1. /\ Typed /\ receipts \in Seq(ReceiptRow)
        /\ \A k \in DOMAIN receipts : receipts[k] \in ReceiptRow
    BY Rows DEF Sound, Typed
  <1> DEFINE both == [r \in ReceiptRow |-> SentAccepted(l)[r] + SentRejected(l)[r]]
             taken == [r \in ReceiptRow |-> TakenAccepted(l)[r] + TakenRejected(l)[r]]
  <1>2. both \in [ReceiptRow -> Int] /\ taken \in [ReceiptRow -> Int]
    BY ReceiptFunctions
  <1>3. ASSUME NEW f \in [ReceiptRow -> Int], NEW g \in [ReceiptRow -> Int],
               NEW h \in [ReceiptRow -> Int],
               \A k \in DOMAIN receipts : h[receipts[k]] = f[receipts[k]] + g[receipts[k]]
        PROVE  Over(h, receipts) = Over(f, receipts) + Over(g, receipts)
    <2> DEFINE u == [k \in DOMAIN receipts |-> h[receipts[k]]]
               v == [k \in DOMAIN receipts |-> f[receipts[k]]]
               w == [k \in DOMAIN receipts |-> g[receipts[k]]]
    <2>1. u \in Seq(Int) /\ v \in Seq(Int) /\ w \in Seq(Int)
      BY <1>1, OverValues
    <2>2. /\ DOMAIN u = DOMAIN v /\ DOMAIN u = DOMAIN w
          /\ \A k \in DOMAIN u : u[k] = v[k] + w[k]
      BY <1>3
    <2> HIDE DEF u, v, w
    <2>3. SeqSum(u) = SeqSum(v) + SeqSum(w)
      BY <2>1, <2>2, SeqSumPlus
    <2> QED
      BY <2>3 DEF Over, u, v, w
  <1>4. ASSUME NEW k \in DOMAIN receipts
        PROVE  /\ both[receipts[k]] = SentAccepted(l)[receipts[k]] + SentRejected(l)[receipts[k]]
               /\ taken[receipts[k]]
                    = TakenAccepted(l)[receipts[k]] + TakenRejected(l)[receipts[k]]
               /\ SentOn(l)[receipts[k]] = both[receipts[k]]
               /\ taken[receipts[k]] <= ReceivedOn(l)[receipts[k]]
    <2> DEFINE r == receipts[k]
    <2>1. r \in ReceiptRow
      BY <1>1
    <2>2. /\ r.acceptedReturned <= r.accepted /\ r.rejectedReturned <= r.rejected
          /\ r.kind = "Return" => r.acceptedReturned = 0 /\ r.rejectedReturned = 0
      BY DEF Sound, ReceiptsSound
    <2> HIDE DEF r
    <2>3. /\ r.accepted \in Nat /\ r.rejected \in Nat /\ r.acceptedReturned \in Nat
          /\ r.rejectedReturned \in Nat /\ Quantity(r) = r.accepted + r.rejected
          /\ r.kind = "Receipt" \/ r.kind = "Return"
      BY <2>1, RowFields DEF Movements
    <2>4. /\ both[r] = SentAccepted(l)[r] + SentRejected(l)[r]
          /\ taken[r] = TakenAccepted(l)[r] + TakenRejected(l)[r]
      BY <2>1
    <2> HIDE DEF both, taken
    <2>5. SentOn(l)[r] = both[r] /\ taken[r] <= ReceivedOn(l)[r]
      <3>1. CASE r.kind = "Receipt"
        <4>1. CountsOf(l, r, IF r.line = l THEN Quantity(r) ELSE 0, 0, 0, 0,
                       IF r.line = l THEN r.acceptedReturned ELSE 0,
                       IF r.line = l THEN r.rejectedReturned ELSE 0)
          BY <2>1, <3>1, RowCounts
        <4> QED
          BY <2>2, <2>3, <2>4, <4>1 DEF CountsOf
      <3>2. CASE r.kind = "Return"
        <4>1. CountsOf(l, r, 0, IF r.line = l THEN Quantity(r) ELSE 0,
                       IF r.line = l THEN r.accepted ELSE 0,
                       IF r.line = l THEN r.rejected ELSE 0,
                       IF r.line = l THEN r.acceptedReturned ELSE 0,
                       IF r.line = l THEN r.rejectedReturned ELSE 0)
          BY <2>1, <3>2, RowCounts
        <4> QED
          BY <2>2, <2>3, <2>4, <3>2, <4>1 DEF CountsOf
      <3> QED
        BY <2>3, <3>1, <3>2
    <2> QED
      BY <2>4, <2>5 DEF r
  <1> HIDE DEF both, taken
  <1>5. Over(both, receipts) = Over(SentAccepted(l), receipts) + Over(SentRejected(l), receipts)
    BY <1>2, <1>3, <1>4, ReceiptFunctions
  <1>6. Over(taken, receipts) = Over(TakenAccepted(l), receipts) + Over(TakenRejected(l), receipts)
    BY <1>2, <1>3, <1>4, ReceiptFunctions
  <1>7. Over(SentOn(l), receipts) = Over(both, receipts)
    <2>1. Alike(SentOn(l), receipts, both, receipts)
      BY <1>4 DEF Alike
    <2> QED
      BY <2>1, OverEqual
  <1>8. Over(taken, receipts) <= Over(ReceivedOn(l), receipts)
    BY <1>1, <1>2, <1>4, ReceiptFunctions, OverMonotone
  <1> QED
    BY <1>5, <1>6, <1>7, <1>8 DEF ReceiptsCounted

-----------------------------------------------------------------------------
(* Billing above a limit is the doing of one invoice. *)

OnLine(l) == {x \in DocumentLine : x.line = l}
OnRow(k) == {x \in DocumentLine : x.from = k}

\* The quantity of the lines that are in X.
QuantityIn(X) == [x \in DocumentLine |-> IF x \in X THEN x.qty ELSE 0]

\* An invoice among the documents names lines in X, and all but one bill this much.
AtOnce(docs, X, excess) ==
    \E k \in DOMAIN docs :
        /\ docs[k].type = "Invoice"
        /\ \E j \in DOMAIN docs[k].lines :
              /\ docs[k].lines[j] \in X
              /\ excess <= Over(QuantityIn(X), docs[k].lines) - docs[k].lines[j].qty

Overbilled ==
    /\ \A l \in Lines :
          line[l].invoiced > Maximum(l, BillingTolerance) =>
              AtOnce(invoices, OnLine(l), line[l].invoiced - Maximum(l, BillingTolerance))
    /\ \A k \in DOMAIN receipts :
          receipts[k].billed > Quantity(receipts[k]) =>
              AtOnce(invoices, OnRow(k), receipts[k].billed - Quantity(receipts[k]))

\* The documents are still there and bill what they billed.
LinesStay(docs, rest) ==
    \A k \in DOMAIN docs :
        /\ k \in DOMAIN rest /\ rest[k].type = docs[k].type
        /\ DOMAIN rest[k].lines = DOMAIN docs[k].lines
        /\ \A j \in DOMAIN docs[k].lines :
              /\ rest[k].lines[j].line = docs[k].lines[j].line
              /\ rest[k].lines[j].from = docs[k].lines[j].from
              /\ rest[k].lines[j].qty = docs[k].lines[j].qty

\* Whether a line counts depends on what it bills only.
Selects(X) ==
    \A x, y \in DocumentLine : x.line = y.line /\ x.from = y.from => (x \in X <=> y \in X)

\* What one invoice bills at once, it still bills when the documents stay.
LEMMA AtOnceStays ==
  ASSUME NEW docs \in Seq(Document), NEW rest \in Seq(Document), LinesStay(docs, rest),
         NEW X, Selects(X), NEW e \in Int, NEW f \in Int, f <= e, AtOnce(docs, X, e)
  PROVE  AtOnce(rest, X, f)
  <1>0. PICK k \in DOMAIN docs :
           /\ docs[k].type = "Invoice"
           /\ \E j \in DOMAIN docs[k].lines :
                 /\ docs[k].lines[j] \in X
                 /\ e <= Over(QuantityIn(X), docs[k].lines) - docs[k].lines[j].qty
    BY DEF AtOnce
  <1>1. PICK j \in DOMAIN docs[k].lines :
           /\ docs[k].type = "Invoice" /\ docs[k].lines[j] \in X
           /\ e <= Over(QuantityIn(X), docs[k].lines) - docs[k].lines[j].qty
    BY <1>0
  <1>2. /\ k \in DOMAIN rest /\ rest[k].type = "Invoice"
        /\ DOMAIN rest[k].lines = DOMAIN docs[k].lines
        /\ \A i \in DOMAIN docs[k].lines :
              /\ rest[k].lines[i].line = docs[k].lines[i].line
              /\ rest[k].lines[i].from = docs[k].lines[i].from
              /\ rest[k].lines[i].qty = docs[k].lines[i].qty
    BY <1>1 DEF LinesStay
  <1>3. docs[k].lines \in Seq(DocumentLine) /\ rest[k].lines \in Seq(DocumentLine)
    <2>1. docs[k] \in Document /\ rest[k] \in Document
      BY <1>2
    <2>2. \A d \in Document : d.lines \in Seq(DocumentLine)
      BY DEF Document
    <2> QED
      BY <2>1, <2>2
  <1> DEFINE u == docs[k].lines
             v == rest[k].lines
  <1>4. \A i \in DOMAIN u : u[i] \in DocumentLine /\ v[i] \in DocumentLine
    BY <1>2, <1>3
  <1>5. \A i \in DOMAIN u : (u[i] \in X <=> v[i] \in X) /\ v[i].qty = u[i].qty
    BY <1>2, <1>4 DEF Selects
  <1>6. Alike(QuantityIn(X), u, QuantityIn(X), v)
    BY <1>2, <1>4, <1>5 DEF Alike, QuantityIn
  <1>7. Over(QuantityIn(X), u) = Over(QuantityIn(X), v)
    BY <1>6, OverEqual
  <1>8. u[j].qty \in Int /\ Over(QuantityIn(X), u) \in Int
    <2>1. QuantityIn(X) \in [DocumentLine -> Int]
      BY DEF QuantityIn, DocumentLine
    <2>2. Over(QuantityIn(X), u) \in Int
      BY <1>3, <2>1, OverInt
    <2>3. u[j].qty \in Int
      BY <1>1, <1>4 DEF DocumentLine
    <2> QED
      BY <2>2, <2>3
  <1> DEFINE t == Over(QuantityIn(X), v)
             q == v[j].qty
  <1>9. v[j] \in X /\ q = u[j].qty /\ f <= t - q
    <2>1. e <= t - q /\ t \in Int /\ q \in Int
      BY <1>1, <1>2, <1>7, <1>8
    <2> HIDE DEF t, q
    <2>2. f <= t - q
      BY <2>1
    <2> QED
      BY <1>1, <1>2, <1>5, <2>2 DEF q
  <1> HIDE DEF u
  <1> QED
    BY <1>1, <1>2, <1>9 DEF AtOnce

\* The lines that name an order line, or a receipts row, are told by what they bill.
LEMMA Selections == (\A l : Selects(OnLine(l))) /\ (\A k : Selects(OnRow(k)))
  BY DEF Selects, OnLine, OnRow

\* A step that bills nothing leaves the excess where it was, or less of it.
LEMMA BillsNothing ==
  ASSUME Sound, Sound', Overbilled, LinesStay(invoices, invoices'),
         \A l \in Lines : line'[l].invoiced <= line[l].invoiced,
         \A k \in DOMAIN receipts' :
            \/ receipts'[k].billed = 0
            \/ /\ k \in DOMAIN receipts /\ receipts'[k].billed = receipts[k].billed
               /\ Quantity(receipts'[k]) = Quantity(receipts[k])
  PROVE  Overbilled'
  <1>1. invoices \in Seq(Document) /\ invoices' \in Seq(Document)
    BY DEF Sound, Typed
  <1>2. ASSUME NEW l \in Lines, line'[l].invoiced > Maximum(l, BillingTolerance)
        PROVE  AtOnce(invoices', OnLine(l), line'[l].invoiced - Maximum(l, BillingTolerance))
    <2> DEFINE m == Maximum(l, BillingTolerance)
               a == line[l].invoiced
               b == line'[l].invoiced
    <2>1. a \in Nat /\ b \in Nat /\ m \in Nat /\ b <= a /\ b > m
      <3>1. line[l] \in Counters /\ line'[l] \in Counters
        BY DEF Sound, Typed
      <3> QED
        BY <1>2, <3>1, MaximumNat DEF Counters
    <2>2. AtOnce(invoices, OnLine(l), a - m)
      <3>1. a > m
        <4> HIDE DEF a, b, m
        <4> QED
          BY <2>1
      <3> QED
        BY <3>1 DEF Overbilled
    <2> HIDE DEF a, b, m
    <2>3. a - m \in Int /\ b - m \in Int /\ b - m <= a - m
      BY <2>1
    <2>4. AtOnce(invoices', OnLine(l), b - m)
      BY <1>1, <2>2, <2>3, Selections, AtOnceStays
    <2> QED
      BY <2>4 DEF b, m
  <1>3. ASSUME NEW k \in DOMAIN receipts', receipts'[k].billed > Quantity(receipts'[k])
        PROVE  AtOnce(invoices', OnRow(k), receipts'[k].billed - Quantity(receipts'[k]))
    <2>1. receipts'[k] \in ReceiptRow
      BY DEF Sound, Typed
    <2>2. receipts'[k].billed \in Nat /\ Quantity(receipts'[k]) \in Nat
      BY <2>1, RowFields
    <2>3. k \in DOMAIN receipts /\ receipts'[k].billed = receipts[k].billed /\ Quantity(receipts'[k]) = Quantity(receipts[k])
      BY <1>3, <2>2
    <2> DEFINE e == receipts'[k].billed - Quantity(receipts'[k])
    <2>4. e \in Int /\ e <= e
      BY <2>2
    <2>5. AtOnce(invoices, OnRow(k), e)
      BY <1>3, <2>3 DEF Overbilled
    <2> HIDE DEF e
    <2>6. AtOnce(invoices', OnRow(k), e)
      BY <1>1, <2>4, <2>5, Selections, AtOnceStays
    <2> QED
      BY <2>6 DEF e
  <1> QED
    BY <1>2, <1>3 DEF Overbilled, Maximum

\* An invoice is checked line by line, against what was billed before it.
LEMMA InvoiceBills ==
  ASSUME Sound, Sound', Overbilled, NEW request \in Seq(Draw(Lines)), InvoiceLines(request)
  PROVE  Overbilled'
  <1>1. Typed /\ invoices \in Seq(Document) /\ invoices' \in Seq(Document)
    BY DEF Sound, Typed
  <1>2. PICK ls \in Seq(DocumentLine), d \in Document :
           /\ Billing(request, ls) /\ Made(d, "Invoice", None, ls)
           /\ invoices' = Append(invoices, d)
    BY <1>1, InvoiceRows
  <1>3. receipts' \in Seq(ReceiptRow) /\ Drawn(request, receipts')
    BY <1>1, InvoiceRows
  <1> DEFINE n == Len(invoices) + 1
  <1>4. n \in DOMAIN invoices' /\ invoices'[n].type = "Invoice" /\ invoices'[n].lines = ls
    BY <1>1, <1>2 DEF Made
  <1>5. LinesStay(invoices, invoices')
    <2>1. \A k \in DOMAIN invoices : k \in DOMAIN invoices' /\ invoices'[k] = invoices[k]
      BY <1>1, <1>2
    <2> QED
      BY <2>1 DEF LinesStay
  <1>6. DOMAIN ls = DOMAIN request /\ \A i \in DOMAIN ls : ls[i] \in DocumentLine
                                        /\ ls[i].line = request[i].at /\ ls[i].qty = request[i].qty
                                        /\ ls[i].from = request[i].from
    BY <1>2 DEF Billing
  <1>7. \A i \in DOMAIN request : request[i].at \in Lines /\ request[i].qty \in Nat \ {0}
    BY Drawing
  <1>8. InvoiceAllowed(request)
    BY DEF InvoiceLines
  <1>9. ASSUME NEW l \in Lines, line'[l].invoiced > Maximum(l, BillingTolerance)
        PROVE  AtOnce(invoices', OnLine(l), line'[l].invoiced - Maximum(l, BillingTolerance))
    <2> DEFINE m == Maximum(l, BillingTolerance)
               a == line[l].invoiced
               x == Asked(request, l)
               b == line'[l].invoiced
    <2>1. a \in Nat /\ m \in Nat /\ x \in Nat /\ b = a + x /\ b > m
      <3>1. line[l] \in Counters
        BY <1>1, Rows
      <3>2. line'[l] = [line[l] EXCEPT !.invoiced = line[l].invoiced + Asked(request, l)]
        BY DEF InvoiceLines
      <3> QED
        BY <1>9, <3>1, <3>2, MaximumNat, Drawing DEF Counters
    <2>2. CASE \A i \in DOMAIN request : request[i].at # l
      <3>1. x = 0
        BY <1>7, <2>2, AskedNat
      <3>2. AtOnce(invoices, OnLine(l), a - m)
        <4>1. a > m
          <5> HIDE DEF a, b, m, x
          <5> QED
            BY <2>1, <3>1
        <4> QED
          BY <4>1 DEF Overbilled
      <3> HIDE DEF a, b, m, x
      <3>3. a - m \in Int /\ b - m \in Int /\ b - m <= a - m
        BY <2>1, <3>1
      <3>4. AtOnce(invoices', OnLine(l), b - m)
        BY <1>1, <1>5, <3>2, <3>3, Selections, AtOnceStays
      <3> QED
        BY <3>4 DEF b, m
    <2>3. CASE \E i \in DOMAIN request : request[i].at = l
      <3>1. PICK i \in DOMAIN request : request[i].at = l
        BY <2>3
      <3> DEFINE q == request[i].qty
      <3>2. a + q <= m /\ q \in Nat
        BY <1>7, <1>8, <3>1 DEF InvoiceAllowed
      <3>3. Over(QuantityIn(OnLine(l)), ls) = x
        <4>1. \A j \in DOMAIN request : QuantityIn(OnLine(l))[ls[j]]
                                          = IF request[j].at = l THEN request[j].qty ELSE 0
          BY <1>6 DEF QuantityIn, OnLine
        <4> QED
          BY <1>6, <4>1 DEF Over, Asked, SumWhere
      <3>4. i \in DOMAIN ls /\ ls[i] \in OnLine(l) /\ ls[i].qty = q
        BY <1>6, <3>1 DEF OnLine
      <3>5. b - m <= x - q
        <4> HIDE DEF a, b, m, x, q
        <4> QED
          BY <2>1, <3>2
      <3> HIDE DEF a, b, m, x, q
      <3>6. AtOnce(invoices', OnLine(l), b - m)
        BY <1>4, <3>3, <3>4, <3>5 DEF AtOnce
      <3> QED
        BY <3>6 DEF b, m
    <2> QED
      BY <2>2, <2>3
  <1>10. ASSUME NEW k \in DOMAIN receipts', receipts'[k].billed > Quantity(receipts'[k])
         PROVE  AtOnce(invoices', OnRow(k), receipts'[k].billed - Quantity(receipts'[k]))
    <2>1. k \in DOMAIN receipts /\ receipts[k] \in ReceiptRow /\ k \in Nat
      BY <1>1, <1>3, Rows DEF Drawn
    <2> DEFINE m == Quantity(receipts[k])
               a == receipts[k].billed
               x == DrawnBy(request, k)
               e == receipts'[k].billed - Quantity(receipts'[k])
    <2>2. a \in Nat /\ m \in Nat /\ x \in Nat /\ e = a + x - m /\ a + x > m
      <3>1. receipts'[k].billed = a + x /\ Quantity(receipts'[k]) = m
        BY <1>3, <2>1 DEF Drawn, Quantity
      <3>2. a \in Nat /\ m \in Nat /\ x \in Nat
        BY <2>1, Drawing, RowFields
      <3> QED
        BY <1>10, <3>1, <3>2
    <2>3. CASE \A i \in DOMAIN request : request[i].from # k
      <3>1. x = 0
        <4> DEFINE v == [i \in DOMAIN request |->
                           IF request[i].from = k THEN request[i].qty ELSE 0]
        <4>1. v \in [1..Len(request) -> Nat] /\ DOMAIN request = 1..Len(request)
              /\ Len(request) \in Nat
          BY <2>3, Drawing
        <4>2. v \in Seq(Int)
          BY <4>1, FunctionIsSeq
        <4>3. \A i \in DOMAIN v : v[i] = 0
          BY <2>3
        <4> HIDE DEF v
        <4> QED
          BY <4>2, <4>3, SeqSumZero DEF DrawnBy, SumWhere, v
      <3>2. AtOnce(invoices, OnRow(k), a - m)
        <4>1. a > m
          <5> HIDE DEF a, m, x, e
          <5> QED
            BY <2>2, <3>1
        <4> QED
          BY <2>1, <4>1 DEF Overbilled
      <3> HIDE DEF a, m, x, e
      <3>3. a - m \in Int /\ e \in Int /\ e <= a - m
        BY <2>2, <3>1
      <3>4. AtOnce(invoices', OnRow(k), e)
        BY <1>1, <1>5, <3>2, <3>3, Selections, AtOnceStays
      <3> QED
        BY <3>4 DEF e
    <2>4. CASE \E i \in DOMAIN request : request[i].from = k
      <3>1. PICK i \in DOMAIN request : request[i].from = k
        BY <2>4
      <3> DEFINE q == request[i].qty
      <3>2. a + q <= m /\ q \in Nat
        <4>1. k # None
          BY <2>1, PurchaseAssumption
        <4> QED
          BY <1>7, <1>8, <3>1, <4>1 DEF InvoiceAllowed
      <3>3. Over(QuantityIn(OnRow(k)), ls) = x
        <4>1. \A j \in DOMAIN request : QuantityIn(OnRow(k))[ls[j]]
                                          = IF request[j].from = k THEN request[j].qty ELSE 0
          BY <1>6 DEF QuantityIn, OnRow
        <4> QED
          BY <1>6, <4>1 DEF Over, DrawnBy, SumWhere
      <3>4. i \in DOMAIN ls /\ ls[i] \in OnRow(k) /\ ls[i].qty = q
        BY <1>6, <3>1 DEF OnRow
      <3>5. e <= x - q
        <4> HIDE DEF a, m, x, q, e
        <4> QED
          BY <2>2, <3>2
      <3> HIDE DEF a, m, x, q, e
      <3>6. AtOnce(invoices', OnRow(k), e)
        BY <1>4, <3>3, <3>4, <3>5 DEF AtOnce
      <3> QED
        BY <3>6 DEF e
    <2> QED
      BY <2>3, <2>4
  <1> QED
    BY <1>9, <1>10 DEF Overbilled, Maximum

\* A row that is not new keeps its quantity and what was billed of it.
SameBilling(old, new) ==
    /\ DOMAIN old = DOMAIN receipts
    /\ \A k \in DOMAIN receipts : /\ old[k].billed = receipts[k].billed
                                  /\ Quantity(old[k]) = Quantity(receipts[k])
    /\ \A i \in DOMAIN new : new[i].billed = 0

\* Rows that are added are not billed yet.
LEMMA RowsBillNothing ==
  ASSUME Sound, Sound', Overbilled, invoices' = invoices,
         \A l \in Lines : line'[l].invoiced = line[l].invoiced,
         NEW old \in Seq(ReceiptRow), NEW new \in Seq(ReceiptRow), receipts' = old \o new,
         SameBilling(old, new)
  PROVE  Overbilled'
  <1>1. LinesStay(invoices, invoices')
    BY DEF LinesStay
  <1>2. \A l \in Lines : line'[l].invoiced <= line[l].invoiced
    <2>1. \A l \in Lines : line[l] \in Counters
      BY Rows DEF Sound
    <2> QED
      BY <2>1 DEF Counters
  <1>3. /\ DOMAIN old = 1..Len(old) /\ Len(old) \in Nat /\ DOMAIN new = 1..Len(new)
        /\ Len(new) \in Nat /\ DOMAIN receipts' = 1..(Len(old) + Len(new))
    OBVIOUS
  <1>4. ASSUME NEW k \in DOMAIN receipts'
        PROVE  \/ receipts'[k].billed = 0
               \/ /\ k \in DOMAIN receipts /\ receipts'[k].billed = receipts[k].billed
                  /\ Quantity(receipts'[k]) = Quantity(receipts[k])
    <2>1. CASE k \in DOMAIN receipts
      <3>1. receipts'[k] = old[k]
        BY <1>3, <2>1 DEF SameBilling
      <3> QED
        BY <2>1, <3>1 DEF SameBilling
    <2>2. CASE k \notin DOMAIN receipts
      <3>1. k - Len(old) \in DOMAIN new /\ receipts'[k] = new[k - Len(old)]
        BY <1>3, <2>2 DEF SameBilling
      <3> QED
        BY <3>1 DEF SameBilling
    <2> QED
      BY <2>1, <2>2
  <1> QED
    BY <1>1, <1>2, <1>4, BillsNothing

\* The other operations bill nothing: they leave the documents, or add one.
LEMMA StepOverbilled ==
  ASSUME Sound, Overbilled, [Handlers]_vars
  PROVE  Overbilled'
  <1>1. Sound' /\ Typed /\ ReceiptsSound
    BY StepSound DEF Sound
  <1>2. /\ \A l \in Lines : line[l] \in Counters /\ line[l].invoiced \in Nat
        /\ \A k \in DOMAIN invoices : invoices[k] \in Document
        /\ invoices \in Seq(Document) /\ receipts \in Seq(ReceiptRow)
    BY <1>1, Rows DEF Counters, Typed
  <1>3. CASE PostOrder \/ UNCHANGED vars
    BY <1>3 DEF PostOrder, vars, Overbilled, AtOnce, Maximum, Quantity
  <1>4. ASSUME NEW request \in Seq(Arrival), ReceiveLines(request) PROVE Overbilled'
    <2>1. PICK new \in Seq(ReceiptRow) : Arrived(request, new) /\ receipts' = receipts \o new
      BY <1>1, <1>4, ReceiveRows
    <2>2. invoices' = invoices /\ \A l \in Lines : line'[l].invoiced = line[l].invoiced
      BY <1>2, <1>4 DEF ReceiveLines, Counters
    <2>3. SameBilling(receipts, new)
      BY <2>1 DEF SameBilling, Arrived, NewRows
    <2> QED
      BY <1>1, <1>2, <2>1, <2>2, <2>3, RowsBillNothing
  <1>5. ASSUME NEW request \in Seq(Back(DOMAIN receipts)), ReturnLines(request)
        PROVE  Overbilled'
    <2>1. PICK old \in Seq(ReceiptRow), new \in Seq(ReceiptRow) :
             /\ TakenFrom(request, old) /\ SentBack(request, new) /\ receipts' = old \o new
             /\ line' = [l \in Lines |-> [line[l] EXCEPT !.returned = @ + BroughtBy(new, l)]]
      BY <1>1, <1>5, ReturnRows
    <2>2. invoices' = invoices /\ \A l \in Lines : line'[l].invoiced = line[l].invoiced
      BY <1>2, <1>5, <2>1 DEF ReturnLines, Counters
    <2>3. SameBilling(old, new)
      BY <2>1 DEF SameBilling, TakenFrom, SentBack, NewRows, Quantity
    <2> QED
      BY <1>1, <2>1, <2>2, <2>3, RowsBillNothing
  <1>6. ASSUME NEW p \in Entry, NEW target \in [DOMAIN p.allocations -> DOMAIN invoices],
               Pay(p, target)
        PROVE  Overbilled'
    <2>1. Settles(p, target, invoices')
      BY <1>6, PayRows
    <2>2. ASSUME NEW k \in DOMAIN invoices
          PROVE  /\ k \in DOMAIN invoices' /\ invoices'[k].type = invoices[k].type
                 /\ invoices'[k].lines = invoices[k].lines
      <3>1. CASE \A i \in DOMAIN target : target[i] # k
        BY <2>1, <3>1 DEF Settles
      <3>2. CASE \E i \in DOMAIN target : target[i] = k
        <4>1. PICK i \in DOMAIN target : target[i] = k
          BY <3>2
        <4>2. invoices'[k] = Settled(invoices[k], p.allocations[i].invoice_amount)
              /\ k \in DOMAIN invoices'
          BY <2>1, <4>1 DEF Settles
        <4>3. \A d \in Document : \A x : /\ Settled(d, x).type = d.type
                                         /\ Settled(d, x).lines = d.lines
          BY DEF Settled, Document
        <4> QED
          BY <1>2, <4>2, <4>3
      <3> QED
        BY <3>1, <3>2
    <2>3. LinesStay(invoices, invoices')
      BY <2>2 DEF LinesStay
    <2>4. line' = line /\ receipts' = receipts
      BY <1>6 DEF Pay
    <2>5. \A l \in Lines : line'[l].invoiced <= line[l].invoiced
      BY <1>2, <2>4
    <2> QED
      BY <1>1, <2>3, <2>4, <2>5, BillsNothing
  <1>7. ASSUME NEW k \in DOMAIN invoices, NEW request \in Seq(Ask(DOMAIN invoices[k].lines)),
               DebitInvoice(k, request)
        PROVE  Overbilled'
    <2>1. PICK ls \in Seq(DocumentLine), d \in Document, n \in Document, x \in Nat :
            /\ DebitedBy(request, invoices[k], d, x)
            /\ invoices' = Append([invoices EXCEPT ![k] = d], n)
            /\ line' = [l \in Lines |-> LineDebited(l, BackOn(ls, l))]
      BY <1>7, DebitRows
    <2>2. \A i \in DOMAIN invoices : i \in DOMAIN invoices'
                                       /\ invoices'[i] = IF i = k THEN d ELSE invoices[i]
      BY <1>2, <2>1
    <2>3. LinesStay(invoices, invoices')
      BY <2>1, <2>2 DEF LinesStay, DebitedBy, SameButDebited
    <2>4. ASSUME NEW l \in Lines PROVE line'[l].invoiced <= line[l].invoiced
      <3>1. line'[l].invoiced = IF line[l].invoiced > BackOn(ls, l)
                                THEN line[l].invoiced - BackOn(ls, l) ELSE 0
        BY <1>2, <2>1 DEF LineDebited, Counters
      <3> QED
        BY <1>2, <3>1, BackNat
    <2>5. receipts' = receipts
      BY <1>7 DEF DebitInvoice
    <2> QED
      BY <1>1, <2>3, <2>4, <2>5, BillsNothing
  <1>8. ASSUME NEW request \in Seq(Draw(Lines)), InvoiceLines(request) PROVE Overbilled'
    BY <1>1, <1>8, InvoiceBills
  <1> QED
    BY <1>3, <1>4, <1>5, <1>6, <1>7, <1>8 DEF Handlers

(* What is kept of a line is never negative and never above the order and its *)
(* tolerance.  Billing an order line above its tolerance, or a receipt line    *)
(* above its quantity, is the doing of one invoice that names the line several *)
(* times: for requests of any length, in any order.                            *)
THEOREM LimitsCorrect == EntrySpec => []OrderLimitsHold
  <1>1. EntryInit => KeptWithin /\ Overbilled
    <2> SUFFICES ASSUME EntryInit PROVE KeptWithin /\ Overbilled
      OBVIOUS
    <2>1. /\ receipts = <<>>
          /\ \A l \in Lines : /\ line[l].received = 0 /\ line[l].returned = 0
                             /\ line[l].invoiced = 0
      BY DEF EntryInit, Init, ImportOrder, NothingDone
    <2>2. \A l \in Lines : /\ Maximum(l, BillingTolerance) \in Nat
                          /\ Maximum(l, ReceiptTolerance) \in Nat
      BY MaximumNat
    <2> QED
      BY <2>1, <2>2 DEF KeptWithin, Overbilled
  <1>2. Sound /\ KeptWithin /\ Overbilled /\ [Handlers]_vars => KeptWithin' /\ Overbilled'
    BY StepKept, StepOverbilled
  <1>3. Sound /\ Counted /\ KeptWithin /\ Overbilled => OrderLimitsHold
    <2> SUFFICES ASSUME Sound, Counted, KeptWithin, Overbilled PROVE OrderLimitsHold
      OBVIOUS
    <2>1. \A k \in DOMAIN invoices : invoices[k].lines \in Seq(DocumentLine)
      BY Rows DEF Sound, Document
    <2>2. ASSUME NEW l \in Lines, NEW e, AtOnce(invoices, OnLine(l), e)
          PROVE  BilledAtOnce(LAMBDA x : x.line = l, e)
      <3>0. PICK k \in DOMAIN invoices :
               /\ invoices[k].type = "Invoice"
               /\ \E j \in DOMAIN invoices[k].lines :
                     /\ invoices[k].lines[j] \in OnLine(l)
                     /\ e <= Over(QuantityIn(OnLine(l)), invoices[k].lines)
                               - invoices[k].lines[j].qty
        BY <2>2 DEF AtOnce
      <3>1. PICK j \in DOMAIN invoices[k].lines :
               /\ invoices[k].type = "Invoice" /\ invoices[k].lines[j] \in OnLine(l)
               /\ e <= Over(QuantityIn(OnLine(l)), invoices[k].lines) - invoices[k].lines[j].qty
        BY <3>0
      <3>2. \A i \in DOMAIN invoices[k].lines : QuantityIn(OnLine(l))[invoices[k].lines[i]]
               = IF invoices[k].lines[i].line = l THEN invoices[k].lines[i].qty ELSE 0
        BY <2>1 DEF QuantityIn, OnLine
      <3>3. Over(QuantityIn(OnLine(l)), invoices[k].lines)
              = SeqSum([i \in DOMAIN invoices[k].lines |->
                   IF invoices[k].lines[i].line = l THEN invoices[k].lines[i].qty ELSE 0])
        BY <3>2 DEF Over
      <3> QED
        BY <3>1, <3>3 DEF BilledAtOnce, IsInvoice, LineSum, SumWhere, OnLine
    <2>3. ASSUME NEW r \in DOMAIN receipts, NEW e, AtOnce(invoices, OnRow(r), e)
          PROVE  BilledAtOnce(LAMBDA x : x.from = r, e)
      <3>0. PICK k \in DOMAIN invoices :
               /\ invoices[k].type = "Invoice"
               /\ \E j \in DOMAIN invoices[k].lines :
                     /\ invoices[k].lines[j] \in OnRow(r)
                     /\ e <= Over(QuantityIn(OnRow(r)), invoices[k].lines)
                               - invoices[k].lines[j].qty
        BY <2>3 DEF AtOnce
      <3>1. PICK j \in DOMAIN invoices[k].lines :
               /\ invoices[k].type = "Invoice" /\ invoices[k].lines[j] \in OnRow(r)
               /\ e <= Over(QuantityIn(OnRow(r)), invoices[k].lines) - invoices[k].lines[j].qty
        BY <3>0
      <3>2. \A i \in DOMAIN invoices[k].lines : QuantityIn(OnRow(r))[invoices[k].lines[i]]
               = IF invoices[k].lines[i].from = r THEN invoices[k].lines[i].qty ELSE 0
        BY <2>1 DEF QuantityIn, OnRow
      <3>3. Over(QuantityIn(OnRow(r)), invoices[k].lines)
              = SeqSum([i \in DOMAIN invoices[k].lines |->
                   IF invoices[k].lines[i].from = r THEN invoices[k].lines[i].qty ELSE 0])
        BY <3>2 DEF Over
      <3> QED
        BY <3>1, <3>3 DEF BilledAtOnce, IsInvoice, LineSum, SumWhere, OnRow
    <2>4. ASSUME NEW l \in Lines
          PROVE  line[l].received - line[l].returned \in 0..Maximum(l, ReceiptTolerance)
      <3>1. line[l].received \in Nat /\ line[l].returned \in Nat
        BY Rows DEF Sound, Counters
      <3>2. line[l].returned <= line[l].received
        BY ReturnedWasReceived DEF Counted
      <3>3. Maximum(l, ReceiptTolerance) \in Nat
        BY MaximumNat
      <3> QED
        BY <3>1, <3>2, <3>3 DEF KeptWithin
    <2> QED
      BY <2>2, <2>3, <2>4 DEF Overbilled, OrderLimitsHold
  <1> QED
    BY <1>1, <1>2, <1>3, SoundAlways, CountedAlways, PTL DEF EntrySpec

-----------------------------------------------------------------------------
(* What a payment allocates to the invoices, as a request. *)

Parts(p, target) ==
    [i \in DOMAIN target |-> [at |-> target[i], qty |-> p.allocations[i].invoice_amount]]

\* A payment asks of every invoice the part it allocates to it.
LEMMA PartsAsked ==
  ASSUME Sound, NEW p \in Entry, NEW target \in [DOMAIN p.allocations -> DOMAIN invoices],
         Pay(p, target)
  PROVE  /\ Parts(p, target) \in Seq(Ask(DOMAIN invoices))
         /\ \A i \in DOMAIN target :
               Asked(Parts(p, target), target[i]) = p.allocations[i].invoice_amount
         /\ \A k : (\A i \in DOMAIN target : target[i] # k) => Asked(Parts(p, target), k) = 0
         /\ \A k : Asked(Parts(p, target), k) \in Nat
  <1> DEFINE parts == Parts(p, target)
  <1>1. /\ DOMAIN target = 1..Len(p.allocations) /\ Len(p.allocations) \in Nat
        /\ IsInjective(target)
        /\ \A i \in DOMAIN target : /\ target[i] \in DOMAIN invoices
                                    /\ p.allocations[i].invoice_amount \in Nat \ {0}
    BY Allocated
  <1>2. /\ DOMAIN parts = DOMAIN target
        /\ \A i \in DOMAIN target : /\ parts[i].at = target[i]
                                    /\ parts[i].qty = p.allocations[i].invoice_amount
                                    /\ parts[i] \in Ask(DOMAIN invoices)
    BY <1>1 DEF Parts, Ask
  <1>3. parts \in Seq(Ask(DOMAIN invoices))
    <2>1. parts \in [1..Len(p.allocations) -> Ask(DOMAIN invoices)]
      BY <1>1, <1>2 DEF Parts
    <2> QED
      BY <1>1, <2>1, FunctionIsSeq
  <1> HIDE DEF parts
  <1>4. \A i \in DOMAIN parts : parts[i].qty \in Nat
    BY <1>1, <1>2
  <1>5. ASSUME NEW i \in DOMAIN target
        PROVE  Asked(parts, target[i]) = p.allocations[i].invoice_amount
    <2>1. \A j \in DOMAIN parts : parts[j].at = parts[i].at => j = i
      BY <1>1, <1>2 DEF IsInjective
    <2>2. Asked(parts, parts[i].at) = parts[i].qty
      BY <1>2, <1>3, <1>4, <2>1, AskedOnce
    <2> QED
      BY <1>2, <2>2
  <1>6. \A k : (\A i \in DOMAIN target : target[i] # k) => Asked(parts, k) = 0
    BY <1>2, <1>3, Requested
  <1>7. \A k : Asked(parts, k) \in Nat
    BY <1>3, Requested
  <1> QED
    BY <1>3, <1>5, <1>6, <1>7 DEF parts

\* What was paid of a document, in money or by a note.
PaidOf(d) == d.total - d.outstanding

\* It is an integer.
LEMMA PaidInt == ASSUME NEW d \in Document PROVE PaidOf(d) \in Int
  <1>1. d.total \in Nat /\ d.outstanding \in Nat
    BY DEF Document
  <1> QED
    BY <1>1 DEF PaidOf

(* What a payment leaves of each invoice. *)
LEMMA SettlesAmounts ==
  ASSUME Sound, NEW p \in Entry, NEW target \in [DOMAIN p.allocations -> DOMAIN invoices],
         Pay(p, target), NEW k \in DOMAIN invoices
  PROVE  /\ invoices'[k] \in Document
         /\ invoices'[k].type = invoices[k].type /\ invoices'[k].against = invoices[k].against
         /\ invoices'[k].total = invoices[k].total /\ invoices'[k].lines = invoices[k].lines
         /\ invoices'[k].outstanding = invoices[k].outstanding - Asked(Parts(p, target), k)
         /\ PaidOf(invoices'[k]) = PaidOf(invoices[k]) + Asked(Parts(p, target), k)
         /\ Asked(Parts(p, target), k) > 0 => invoices[k].type = "Invoice"
  <1>1. /\ invoices[k] \in Document /\ Open(invoices[k]) /\ invoices[k].outstanding \in Nat
        /\ PaidOf(invoices[k]) \in Int /\ invoices[k].total \in Nat
    <2>1. invoices[k] \in Document /\ Open(invoices[k])
      BY Rows DEF Sound, DocumentsSound
    <2>2. invoices[k].outstanding \in Nat /\ invoices[k].total \in Nat
      BY <2>1 DEF Document
    <2> QED
      BY <2>1, <2>2, PaidInt
  <1>2. invoices' \in Seq(Document) /\ Settles(p, target, invoices')
    BY PayRows
  <1>3. invoices'[k] \in Document
    BY <1>2 DEF Settles
  <1>4. CASE \A i \in DOMAIN target : target[i] # k
    <2>1. invoices'[k] = invoices[k] /\ Asked(Parts(p, target), k) = 0
      BY <1>2, <1>4, PartsAsked DEF Settles
    <2>2. \A x \in Nat : x = x - 0 /\ x = x + 0
      OBVIOUS
    <2> QED
      BY <1>1, <2>1, <2>2
  <1>5. ASSUME NEW i \in DOMAIN target, target[i] = k
        PROVE  /\ invoices'[k].type = invoices[k].type
               /\ invoices'[k].against = invoices[k].against
               /\ invoices'[k].total = invoices[k].total
               /\ invoices'[k].lines = invoices[k].lines
               /\ invoices'[k].outstanding
                    = invoices[k].outstanding - Asked(Parts(p, target), k)
               /\ PaidOf(invoices'[k]) = PaidOf(invoices[k]) + Asked(Parts(p, target), k)
               /\ invoices[k].type = "Invoice"
    <2> DEFINE x == p.allocations[i].invoice_amount
    <2>1. /\ x \in Nat \ {0} /\ x <= invoices[k].outstanding
          /\ invoices'[k] = Settled(invoices[k], x)
          /\ invoices[k].type = "Invoice"
      BY <1>2, <1>5 DEF Settles
    <2>2. Asked(Parts(p, target), k) = x
      BY <1>5, PartsAsked
    <2> HIDE DEF x
    <2> QED
      BY <1>1, <2>1, <2>2, SettledDocument DEF PaidOf
  <1> QED
    BY <1>3, <1>4, <1>5

(* What was paid of an invoice is what payments allocate to it and notes settle. *)

PartFor(k) == [a \in PaidPart |-> IF a.invoice = k THEN a.invoice_amount ELSE 0]
PaidFor(k) == [p \in Payment |-> Over(PartFor(k), p.allocations)]
SettledFor(k) == [d \in Document |-> IF d.against = k THEN PaidOf(d) ELSE 0]

PaymentsLinked ==
    \A m \in DOMAIN payments : \A i \in DOMAIN payments[m].allocations :
        payments[m].allocations[i].invoice \in DOMAIN invoices

PaidCounted ==
    \A k \in DOMAIN invoices : invoices[k].type = "Invoice" =>
        PaidOf(invoices[k]) = Over(PaidFor(k), payments) + Over(SettledFor(k), invoices)

\* What is counted of payments and notes is an integer.
LEMMA PayingFunctions ==
  ASSUME NEW k
  PROVE  /\ PartFor(k) \in [PaidPart -> Int] /\ PaidFor(k) \in [Payment -> Int]
         /\ SettledFor(k) \in [Document -> Int]
  <1>1. \A a \in PaidPart : a.invoice_amount \in Int
    BY DEF PaidPart
  <1>2. PartFor(k) \in [PaidPart -> Int]
    BY <1>1 DEF PartFor
  <1>3. \A p \in Payment : p.allocations \in Seq(PaidPart)
    BY DEF Payment
  <1>4. PaidFor(k) \in [Payment -> Int]
    BY <1>2, <1>3, OverInt DEF PaidFor
  <1>5. \A d \in Document : PaidOf(d) \in Int
    BY PaidInt
  <1>6. SettledFor(k) \in [Document -> Int]
    BY <1>5 DEF SettledFor
  <1> QED
    BY <1>2, <1>4, <1>6

(* A payment counts for an invoice what it allocates to it. *)
LEMMA PaidCounts ==
  ASSUME NEW p, NEW target, NEW pay \in Payment, PaidParts(p, target, pay), NEW k
  PROVE  PaidFor(k)[pay] = Asked(Parts(p, target), k)
  <1>1. /\ pay.allocations \in Seq(PaidPart) /\ DOMAIN pay.allocations = DOMAIN target
        /\ \A i \in DOMAIN target : pay.allocations[i] \in PaidPart
    BY DEF Payment, PaidParts
  <1>2. \A i \in DOMAIN target :
           PartFor(k)[pay.allocations[i]]
             = IF target[i] = k THEN p.allocations[i].invoice_amount ELSE 0
    BY <1>1 DEF PaidParts, PartFor
  <1>3. /\ DOMAIN Parts(p, target) = DOMAIN target
        /\ \A i \in DOMAIN target :
              /\ Parts(p, target)[i].at = target[i]
              /\ Parts(p, target)[i].qty = p.allocations[i].invoice_amount
    BY DEF Parts
  <1>4. [i \in DOMAIN pay.allocations |-> PartFor(k)[pay.allocations[i]]]
          = [i \in DOMAIN Parts(p, target) |->
                IF Parts(p, target)[i].at = k THEN Parts(p, target)[i].qty ELSE 0]
    BY <1>1, <1>2, <1>3
  <1>5. Over(PartFor(k), pay.allocations) = Asked(Parts(p, target), k)
    BY <1>4 DEF Over, Asked, SumWhere
  <1> QED
    BY <1>5 DEF PaidFor

(* Nothing is paid of a document that is still to come. *)
LEMMA NothingPaidAhead ==
  ASSUME Sound, PaymentsLinked, NEW k \in Nat, k \notin DOMAIN invoices
  PROVE  Over(PaidFor(k), payments) = 0 /\ Over(SettledFor(k), invoices) = 0
  <1>1. /\ Typed /\ payments \in Seq(Payment) /\ invoices \in Seq(Document)
        /\ \A m \in DOMAIN payments : payments[m] \in Payment
        /\ \A m \in DOMAIN invoices : invoices[m] \in Document
        /\ DOMAIN invoices = 1..Len(invoices) /\ Len(invoices) \in Nat
    BY Rows DEF Sound, Typed
  <1>2. ASSUME NEW m \in DOMAIN payments PROVE PaidFor(k)[payments[m]] = 0
    <2>1. /\ payments[m].allocations \in Seq(PaidPart)
          /\ \A i \in DOMAIN payments[m].allocations : payments[m].allocations[i] \in PaidPart
      BY <1>1 DEF Payment
    <2>2. \A i \in DOMAIN payments[m].allocations :
             PartFor(k)[payments[m].allocations[i]] = 0
      BY <2>1 DEF PaymentsLinked, PartFor
    <2>3. Over(PartFor(k), payments[m].allocations) = 0
      BY <2>1, <2>2, PayingFunctions, OverZero
    <2> QED
      BY <1>1, <2>3 DEF PaidFor
  <1>3. None # k
    BY PurchaseAssumption
  <1>4. ASSUME NEW m \in DOMAIN invoices PROVE SettledFor(k)[invoices[m]] = 0
    <2>1. invoices[m].against # k
      <3>1. invoices[m].against = None \/ invoices[m].against \in 1..(m - 1)
        BY DEF Sound, DocumentsSound
      <3> QED
        BY <1>1, <1>3, <3>1
    <2> QED
      BY <1>1, <2>1 DEF SettledFor
  <1> QED
    BY <1>1, <1>2, <1>4, PayingFunctions, OverZero

(* Every payment names invoices that are there. *)
LEMMA PaymentsStayLinked ==
  ASSUME Sound, PaymentsLinked, [Handlers]_vars
  PROVE  PaymentsLinked'
  <1>1. /\ Typed /\ invoices \in Seq(Document) /\ payments \in Seq(Payment)
        /\ DOMAIN invoices = 1..Len(invoices) /\ Len(invoices) \in Nat
    BY Rows DEF Sound, Typed
  <1>2. ASSUME payments' = payments, DOMAIN invoices \subseteq DOMAIN invoices'
        PROVE  PaymentsLinked'
    BY <1>2 DEF PaymentsLinked
  <1>3. CASE PostOrder \/ UNCHANGED vars
    BY <1>2, <1>3 DEF PostOrder, vars
  <1>4. ASSUME NEW request, ReceiveLines(request) \/ ReturnLines(request) PROVE PaymentsLinked'
    BY <1>2, <1>4 DEF ReceiveLines, ReturnLines
  <1>5. ASSUME NEW request \in Seq(Draw(Lines)), InvoiceLines(request) PROVE PaymentsLinked'
    <2>1. PICK d \in Document : invoices' = Append(invoices, d)
      BY <1>1, <1>5, InvoiceRows
    <2>2. DOMAIN invoices \subseteq DOMAIN invoices'
      BY <1>1, <2>1
    <2> QED
      BY <1>2, <1>5, <2>2 DEF InvoiceLines
  <1>6. ASSUME NEW p \in Entry, NEW target \in [DOMAIN p.allocations -> DOMAIN invoices],
               Pay(p, target)
        PROVE  PaymentsLinked'
    <2>1. PICK pay \in Payment : PaidParts(p, target, pay) /\ payments' = Append(payments, pay)
      BY <1>6, PayRows
    <2>2. DOMAIN invoices' = DOMAIN invoices
      BY <1>6, PayRows DEF Settles
    <2>3. \A i \in DOMAIN pay.allocations : pay.allocations[i].invoice \in DOMAIN invoices
      BY <2>1 DEF PaidParts
    <2>4. ASSUME NEW m \in DOMAIN payments'
          PROVE  \A i \in DOMAIN payments'[m].allocations :
                    payments'[m].allocations[i].invoice \in DOMAIN invoices
      <3>1. (m \in DOMAIN payments /\ payments'[m] = payments[m]) \/ payments'[m] = pay
        BY <1>1, <2>1
      <3> QED
        BY <2>3, <3>1 DEF PaymentsLinked
    <2> QED
      BY <2>2, <2>4 DEF PaymentsLinked
  <1>7. ASSUME NEW k \in DOMAIN invoices, NEW request \in Seq(Ask(DOMAIN invoices[k].lines)),
               DebitInvoice(k, request)
        PROVE  PaymentsLinked'
    <2>1. PICK d \in Document, n \in Document :
             invoices' = Append([invoices EXCEPT ![k] = d], n)
      BY <1>7, DebitRows
    <2>2. DOMAIN invoices \subseteq DOMAIN invoices'
      BY <1>1, <2>1
    <2> QED
      BY <1>2, <1>7, <2>2 DEF DebitInvoice
  <1> QED
    BY <1>3, <1>4, <1>5, <1>6, <1>7 DEF Handlers

\* A new invoice has nothing paid of it, and settles no other.
LEMMA InvoicePaid ==
  ASSUME Sound, PaymentsLinked, PaidCounted, NEW request \in Seq(Draw(Lines)),
         InvoiceLines(request)
  PROVE  PaidCounted'
  <1>1. /\ Typed /\ invoices \in Seq(Document)
        /\ DOMAIN invoices = 1..Len(invoices) /\ Len(invoices) \in Nat
    BY Rows DEF Sound, Typed
  <1>2. PICK ls \in Seq(DocumentLine), d \in Document :
           /\ Made(d, "Invoice", None, ls) /\ d.outstanding = d.total
           /\ invoices' = Append(invoices, d)
    BY <1>1, InvoiceRows
  <1>3. d.against = None /\ PaidOf(d) = d.total - d.outstanding /\ d.total \in Nat
    BY <1>2 DEF Made, PaidOf, Document
  <1>4. PaidOf(d) = 0
    BY <1>2, <1>3
  <1>5. payments' = payments
    BY DEF InvoiceLines
  <1>6. ASSUME NEW k \in Nat PROVE Over(SettledFor(k), invoices') = Over(SettledFor(k), invoices)
    <2>1. None # k
      BY PurchaseAssumption
    <2>2. SettledFor(k)[d] = 0
      BY <1>3, <2>1 DEF SettledFor
    <2>3. Over(SettledFor(k), invoices') = Over(SettledFor(k), invoices) + 0
      BY <1>1, <1>2, <2>2, PayingFunctions, OverAppend
    <2>4. Over(SettledFor(k), invoices) \in Int
      BY <1>1, PayingFunctions, OverInt
    <2> QED
      BY <2>3, <2>4
  <1>7. ASSUME NEW k \in DOMAIN invoices', invoices'[k].type = "Invoice"
        PROVE  PaidOf(invoices'[k]) = Over(PaidFor(k), payments') + Over(SettledFor(k), invoices')
    <2>1. k \in Nat /\ (k \in DOMAIN invoices \/ k \notin DOMAIN invoices)
      BY <1>1, <1>2
    <2>2. CASE k \in DOMAIN invoices
      <3>1. invoices'[k] = invoices[k]
        BY <1>1, <1>2, <2>2
      <3>2. PaidOf(invoices[k]) = Over(PaidFor(k), payments) + Over(SettledFor(k), invoices)
        BY <1>7, <2>2, <3>1 DEF PaidCounted
      <3> QED
        BY <1>5, <1>6, <2>1, <3>1, <3>2
    <2>3. CASE k \notin DOMAIN invoices
      <3>1. invoices'[k] = d
        BY <1>1, <1>2, <2>3
      <3>2. Over(PaidFor(k), payments) = 0 /\ Over(SettledFor(k), invoices) = 0
        BY <2>1, <2>3, NothingPaidAhead
      <3> QED
        BY <1>4, <1>5, <1>6, <2>1, <3>1, <3>2
    <2> QED
      BY <2>2, <2>3
  <1> QED
    BY <1>7 DEF PaidCounted

\* A payment lowers the outstanding amounts by its parts.
LEMMA PayPaid ==
  ASSUME Sound, PaymentsLinked, PaidCounted, NEW p \in Entry,
         NEW target \in [DOMAIN p.allocations -> DOMAIN invoices], Pay(p, target)
  PROVE  PaidCounted'
  <1>1. /\ Typed /\ payments \in Seq(Payment) /\ invoices \in Seq(Document)
        /\ \A k \in DOMAIN invoices : invoices[k] \in Document /\ k \in Nat
    BY Rows DEF Sound, Typed
  <1>2. PICK pay \in Payment : PaidParts(p, target, pay) /\ payments' = Append(payments, pay)
    BY PayRows
  <1>3. DOMAIN invoices' = DOMAIN invoices
    BY PayRows DEF Settles
  <1>4. ASSUME NEW k \in DOMAIN invoices', invoices'[k].type = "Invoice"
        PROVE  PaidOf(invoices'[k]) = Over(PaidFor(k), payments') + Over(SettledFor(k), invoices')
    <2> DEFINE a == Asked(Parts(p, target), k)
    <2>1. /\ invoices[k].type = "Invoice" /\ PaidOf(invoices'[k]) = PaidOf(invoices[k]) + a
          /\ a \in Nat /\ k \in Nat
      BY <1>1, <1>3, <1>4, SettlesAmounts, PartsAsked
    <2>2. PaidOf(invoices[k]) = Over(PaidFor(k), payments) + Over(SettledFor(k), invoices)
      BY <1>3, <2>1 DEF PaidCounted
    <2>3. PaidFor(k)[pay] = a
      BY <1>2, PaidCounts
    <2>4. Over(PaidFor(k), payments') = Over(PaidFor(k), payments) + a
      <3>1. PaidFor(k) \in [Payment -> Int]
        BY PayingFunctions
      <3>2. Over(PaidFor(k), payments')
              = Over(PaidFor(k), payments) + PaidFor(k)[pay]
        BY <1>1, <1>2, <3>1, OverAppend
      <3> HIDE DEF a
      <3> QED
        BY <2>3, <3>2
    <2>5. Over(SettledFor(k), invoices') = Over(SettledFor(k), invoices)
      <3>1. None # k
        BY <2>1, PurchaseAssumption
      <3>2. ASSUME NEW m \in DOMAIN invoices
            PROVE  SettledFor(k)[invoices'[m]] = SettledFor(k)[invoices[m]]
        <4> DEFINE b == Asked(Parts(p, target), m)
        <4>1. /\ invoices'[m] \in Document /\ invoices'[m].against = invoices[m].against
              /\ PaidOf(invoices'[m]) = PaidOf(invoices[m]) + b /\ b \in Nat
              /\ b > 0 => invoices[m].type = "Invoice"
          BY SettlesAmounts, PartsAsked
        <4> HIDE DEF b
        <4>2. invoices[m] \in Document /\ PaidOf(invoices[m]) \in Int
          BY <1>1, PaidInt
        <4>3. CASE invoices[m].type = "Invoice"
          <5>1. invoices[m].against = None
            BY <4>3 DEF Sound, DocumentsSound
          <5> QED
            BY <3>1, <4>1, <4>2, <5>1 DEF SettledFor
        <4>4. CASE invoices[m].type # "Invoice"
          <5>1. PaidOf(invoices'[m]) = PaidOf(invoices[m])
            BY <4>1, <4>2, <4>4
          <5> QED
            BY <4>1, <4>2, <5>1 DEF SettledFor
        <4> QED
          BY <4>3, <4>4
      <3>3. Alike(SettledFor(k), invoices', SettledFor(k), invoices)
        BY <1>3, <3>2 DEF Alike
      <3> QED
        BY <3>3, OverEqual
    <2>6. Over(PaidFor(k), payments) \in Int /\ Over(SettledFor(k), invoices) \in Int
      BY <1>1, PayingFunctions, OverInt
    <2> HIDE DEF a
    <2> QED
      BY <2>1, <2>2, <2>4, <2>5, <2>6
  <1> QED
    BY <1>4 DEF PaidCounted

\* A debit note lowers the outstanding amount by its allocation.
LEMMA DebitPaid ==
  ASSUME Sound, PaymentsLinked, PaidCounted, NEW k \in DOMAIN invoices,
         NEW request \in Seq(Ask(DOMAIN invoices[k].lines)), DebitInvoice(k, request)
  PROVE  PaidCounted'
  <1>1. /\ Typed /\ DOMAIN invoices = 1..Len(invoices) /\ Len(invoices) \in Nat
        /\ invoices[k] \in Document
        /\ \A j \in DOMAIN invoices : PaidOf(invoices[j]) \in Int
    BY Rows, PaidInt DEF Sound
  <1>2. PICK ls \in Seq(DocumentLine), d \in Document, n \in Document, x \in Nat :
            /\ Debits(request, invoices[k], ls)
            /\ DebitedBy(request, invoices[k], d, x) /\ NoteOf(k, ls, n, x)
            /\ invoices' = Append([invoices EXCEPT ![k] = d], n)
            /\ line' = [l \in Lines |-> LineDebited(l, BackOn(ls, l))]
    BY DebitRows
  <1>3. invoices[k].type = "Invoice" /\ payments' = payments
    BY DEF DebitInvoice
  <1>4. /\ d.against = None /\ PaidOf(d) = PaidOf(invoices[k]) + x /\ invoices[k].against = None
        /\ n.against = k /\ PaidOf(n) = x /\ n.type = "Debit Note"
    <2>1. /\ invoices[k].against = None /\ d.against = invoices[k].against
          /\ d.total = invoices[k].total /\ d.outstanding = invoices[k].outstanding - x
      BY <1>2, <1>3 DEF DebitedBy, Sound, DocumentsSound
    <2>2. n.against = k /\ n.type = "Debit Note" /\ n.outstanding = n.total - x
      BY <1>2 DEF NoteOf, Made
    <2>3. /\ invoices[k].total \in Nat /\ invoices[k].outstanding \in Nat
          /\ n.total \in Nat /\ x \in Nat
      BY <1>1 DEF Document
    <2>4. PaidOf(d) = PaidOf(invoices[k]) + x
      BY <2>1, <2>3 DEF PaidOf
    <2>5. n.outstanding = n.total - x
      BY <2>2
    <2>6. PaidOf(n) = x
      BY <2>3, <2>5 DEF PaidOf
    <2> QED
      BY <2>1, <2>2, <2>4, <2>6
  <1>5. ASSUME NEW j \in DOMAIN invoices', invoices'[j].type = "Invoice"
        PROVE  PaidOf(invoices'[j]) = Over(PaidFor(j), payments') + Over(SettledFor(j), invoices')
    <2>1. /\ DOMAIN invoices' = 1..(Len(invoices) + 1)
          /\ invoices'[k] = d /\ invoices'[Len(invoices) + 1] = n
          /\ \A m \in DOMAIN invoices \ {k} : invoices'[m] = invoices[m]
          /\ Over(SettledFor(j), invoices') = Over(SettledFor(j), invoices) + SettledFor(j)[d]
                                                - SettledFor(j)[invoices[k]] + SettledFor(j)[n]
          /\ Over(SettledFor(j), invoices) \in Int
      <3>1. SettledFor(j) \in [Document -> Int]
        BY PayingFunctions
      <3>2. Noted(k, d, n)
        BY <1>2 DEF Noted
      <3> QED
        BY <1>1, <3>1, <3>2, NoteAppended
    <2>2. j \in DOMAIN invoices /\ None # j
      <3>1. invoices'[j] # n
        BY <1>4, <1>5
      <3>2. j \in Nat
        BY <1>1, <2>1
      <3> QED
        BY <1>1, <2>1, <3>1, <3>2, PurchaseAssumption
    <2>3. SettledFor(j)[d] = 0 /\ SettledFor(j)[invoices[k]] = 0
      BY <1>1, <1>4, <2>2 DEF SettledFor
    <2>4. SettledFor(j)[n] = IF j = k THEN x ELSE 0
      BY <1>4 DEF SettledFor
    <2>5. Over(PaidFor(j), payments) \in Int
      BY <1>1, PayingFunctions, OverInt DEF Typed
    <2>6. CASE j = k
      <3>1. /\ PaidOf(invoices[k]) = Over(PaidFor(k), payments) + Over(SettledFor(k), invoices)
            /\ PaidOf(invoices'[j]) = PaidOf(invoices[k]) + x
        BY <1>3, <1>4, <2>1, <2>6 DEF PaidCounted
      <3>2. Over(SettledFor(j), invoices') = Over(SettledFor(j), invoices) + x
        BY <2>1, <2>3, <2>4, <2>6
      <3> QED
        BY <1>3, <2>1, <2>5, <2>6, <3>1, <3>2
    <2>7. CASE j # k
      <3>1. invoices'[j] = invoices[j]
        BY <2>1, <2>2, <2>7
      <3>2. PaidOf(invoices[j]) = Over(PaidFor(j), payments) + Over(SettledFor(j), invoices)
        BY <1>5, <2>2, <3>1 DEF PaidCounted
      <3>3. Over(SettledFor(j), invoices') = Over(SettledFor(j), invoices)
        BY <2>1, <2>3, <2>4, <2>7
      <3> QED
        BY <1>3, <3>1, <3>2, <3>3
    <2> QED
      BY <2>6, <2>7
  <1> QED
    BY <1>5 DEF PaidCounted

-----------------------------------------------------------------------------
(* The payable account against the open documents. *)

OpenOf == [d \in Document |-> IF d.type = "Invoice" THEN d.outstanding ELSE 0]
OpenNote == [d \in Document |-> IF d.type = "Invoice" THEN 0 ELSE d.outstanding]
BaseAmount == [a \in PaidPart |-> a.base_amount]
Advance == [p \in Payment |-> p.base - Over(BaseAmount, p.allocations)]
PartCount == [p \in Payment |-> Len(p.allocations)]

Owing == Over(OpenOf, invoices) - Over(OpenNote, invoices)
Payable == Over(Advance, payments) - gl.ap
PaidRoundings == Len(invoices) + Over(PartCount, payments)

\* The base amount b is worth the amount o but for r roundings.
Worth(b, o, r) == Near(Scale, b, Exchange * o, r)

PayableCounted == Worth(Payable, Owing, PaidRoundings) /\ party = gl.ap + gl.fx

(* What is worth its amount but for some roundings, added up or taken back. *)
LEMMA WorthAdds ==
  ASSUME NEW b \in Int, NEW o \in Int, NEW r \in Int,
         NEW x \in Int, NEW y \in Int, NEW z \in Int, Worth(b, o, r), Worth(x, y, z)
  PROVE  Worth(b + x, o + y, r + z) /\ Worth(b - x, o - y, r + z)
  <1>1. Scale \in Int /\ Exchange \in Int
    BY PurchaseAssumption
  <1>2. /\ Exchange * (o + y) = Exchange * o + Exchange * y
        /\ Exchange * (o - y) = Exchange * o - Exchange * y
    BY <1>1
  <1>3. Exchange * o \in Int /\ Exchange * y \in Int
    BY <1>1, Products
  <1> DEFINE eo == Exchange * o
             ey == Exchange * y
  <1>4. eo \in Int /\ ey \in Int /\ Near(Scale, b, eo, r) /\ Near(Scale, x, ey, z)
    BY <1>3 DEF Worth
  <1> HIDE DEF eo, ey
  <1>5. Near(Scale, b + x, eo + ey, r + z) /\ Near(Scale, b - x, eo - ey, r + z)
    BY <1>1, <1>4, NearAdds
  <1> QED
    BY <1>2, <1>5 DEF Worth, eo, ey

(* An amount converted to base currency is worth itself but for one rounding. *)
LEMMA BaseWorth == ASSUME NEW x \in Int PROVE Worth(Base(x), x, 1)
  <1>1. Scale \in Nat \ {0} /\ Exchange \in Int
    BY PurchaseAssumption
  <1>2. x * Exchange \in Int /\ x * Exchange = Exchange * x
    BY <1>1
  <1>3. Near(Scale, HalfEven(x * Exchange, Scale), x * Exchange, 1)
    BY <1>1, <1>2, HalfEvenNear
  <1> QED
    BY <1>2, <1>3 DEF Worth, Base

(* The counting functions are defined on the rows. *)
LEMMA OpenFunctions ==
  /\ OpenOf \in [Document -> Int] /\ OpenNote \in [Document -> Int]
  /\ BaseAmount \in [PaidPart -> Int] /\ Advance \in [Payment -> Int]
  /\ PartCount \in [Payment -> Int]
  <1>1. OpenOf \in [Document -> Int] /\ OpenNote \in [Document -> Int]
    BY DEF OpenOf, OpenNote, Document
  <1>2. BaseAmount \in [PaidPart -> Int]
    BY DEF BaseAmount, PaidPart
  <1>3. ASSUME NEW p \in Payment
        PROVE  p.base - Over(BaseAmount, p.allocations) \in Int /\ Len(p.allocations) \in Int
    <2>1. p.base \in Nat /\ p.allocations \in Seq(PaidPart)
      BY DEF Payment
    <2>2. Over(BaseAmount, p.allocations) \in Int
      BY <1>2, <2>1, OverInt
    <2> QED
      BY <2>1, <2>2
  <1> QED
    BY <1>1, <1>2, <1>3 DEF Advance, PartCount

\* The balances of the accounts are integers.
LEMMA Balances ==
  ASSUME Typed
  PROVE  gl.ap \in Int /\ gl.fx \in Int /\ gl.grni \in Int /\ gl \in [Accounts -> Int]
  BY DEF Typed, Accounts

(* What is summed up is a number. *)
LEMMA PayableInt ==
  ASSUME Typed
  PROVE  /\ Owing \in Int /\ Payable \in Int /\ PaidRoundings \in Int /\ gl.ap \in Int /\ gl.fx \in Int
         /\ Over(OpenOf, invoices) \in Int /\ Over(OpenNote, invoices) \in Int
         /\ Over(Advance, payments) \in Int /\ Over(PartCount, payments) \in Int
         /\ Len(invoices) \in Int /\ party \in Int
  <1>1. /\ invoices \in Seq(Document) /\ payments \in Seq(Payment) /\ party \in Int
        /\ Len(invoices) \in Int
    BY DEF Typed
  <1>2. Over(OpenOf, invoices) \in Int /\ Over(OpenNote, invoices) \in Int
    BY <1>1, OpenFunctions, OverInt
  <1>3. Over(Advance, payments) \in Int /\ Over(PartCount, payments) \in Int
    BY <1>1, OpenFunctions, OverInt
  <1> QED
    <2>1. gl.ap \in Int /\ gl.fx \in Int
      BY Balances
    <2> QED
      BY <1>1, <1>2, <1>3, <2>1 DEF Owing, Payable, PaidRoundings

(* What an invoice posts, with the lines it bills. *)
InvoicePosts(request, ls, d) ==
    /\ Made(d, "Invoice", None, ls) /\ d.outstanding = d.total
    /\ invoices' = Append(invoices, d)
    /\ Billing(request, ls) /\ FromReceipts(ls)
    /\ Cleared(ls) \in Int /\ gl'.grni = gl.grni + Cleared(ls)
    /\ gl'.ap = gl.ap - Base(d.total) /\ gl'.fx = gl.fx /\ Base(d.total) \in Int
    /\ party' = party - Base(d.total)

\* An invoice posts what it bills.
LEMMA InvoiceVoucher ==
  ASSUME Sound, NEW request \in Seq(Draw(Lines)), InvoiceLines(request)
  PROVE  \E ls \in Seq(DocumentLine), d \in Document : InvoicePosts(request, ls, d)
  <1>1. Typed
    BY DEF Sound
  <1>2. PICK ls \in Seq(DocumentLine), d \in Document :
           /\ Billing(request, ls) /\ Made(d, "Invoice", None, ls) /\ d.outstanding = d.total
           /\ invoices' = Append(invoices, d)
           /\ gl' = [gl EXCEPT !.grni = @ + Cleared(ls), !.expense = @ + Expense(ls),
                               !.tax = @ + BaseTax(ls), !.ap = @ - BaseTotal(ls)]
           /\ party' = party - BaseTotal(ls)
    BY <1>1, InvoiceRows
  <1>3. FromReceipts(ls)
    BY <1>2, Drawing DEF Billing, FromReceipts
  <1>4. /\ BaseTotal(ls) \in Int /\ BaseTax(ls) \in Int
        /\ Cleared(ls) \in Int /\ Expense(ls) \in Int
    BY <1>1, <1>3, LineTotals, ClearedTotals
  <1>5. BaseTotal(ls) = Base(d.total)
    BY <1>2 DEF Made, BaseTotal
  <1>6. gl'.grni = gl.grni + Cleared(ls) /\ gl'.ap = gl.ap - BaseTotal(ls) /\ gl'.fx = gl.fx
    <2>1. gl' = [gl EXCEPT !.grni = @ + Cleared(ls), !.expense = @ + Expense(ls),
                           !.tax = @ + BaseTax(ls), !.ap = @ - BaseTotal(ls)]
      BY <1>2
    <2>2. ASSUME NEW x \in Int, NEW y \in Int, NEW z \in Int, NEW u \in Int,
                 gl' = [gl EXCEPT !.grni = @ + x, !.expense = @ + y,
                                  !.tax = @ + z, !.ap = @ - u]
          PROVE  gl'.grni = gl.grni + x /\ gl'.ap = gl.ap - u /\ gl'.fx = gl.fx
      <3>1. DOMAIN gl = {"inventory", "grni", "expense", "tax", "ap", "bank", "fx"}
        BY <1>1 DEF Typed, Accounts
      <3> QED
        BY <2>2, <3>1
    <2> QED
      BY <1>4, <2>1, <2>2
  <1>7. InvoicePosts(request, ls, d)
    BY <1>2, <1>3, <1>4, <1>5, <1>6 DEF InvoicePosts
  <1> QED
    BY <1>7

(* What a debit note posts, with what it takes back of its invoice. *)
NotePosts(k, request, ls, d, n, x) ==
    /\ Debits(request, invoices[k], ls) /\ FromReceipts(ls)
    /\ DebitedBy(request, invoices[k], d, x) /\ NoteOf(k, ls, n, x)
    /\ invoices' = Append([invoices EXCEPT ![k] = d], n)
    /\ Cleared(ls) \in Int /\ gl'.grni = gl.grni - Cleared(ls)
    /\ gl'.ap = gl.ap + Base(n.total) /\ gl'.fx = gl.fx /\ Base(n.total) \in Int
    /\ party' = party + Base(n.total)

\* A debit note posts what it takes back of its invoice.
LEMMA DebitVoucher ==
  ASSUME Sound, NEW k \in DOMAIN invoices, NEW request \in Seq(Ask(DOMAIN invoices[k].lines)),
         DebitInvoice(k, request)
  PROVE  \E ls \in Seq(DocumentLine), d \in Document, n \in Document, x \in Nat :
            NotePosts(k, request, ls, d, n, x)
  <1>1. Typed /\ invoices[k] \in Document /\ FromReceipts(invoices[k].lines)
    BY Rows DEF Sound, DocumentsSound
  <1>2. PICK ls \in Seq(DocumentLine), d \in Document, n \in Document, x \in Nat :
            /\ Debits(request, invoices[k], ls)
            /\ DebitedBy(request, invoices[k], d, x) /\ NoteOf(k, ls, n, x)
            /\ invoices' = Append([invoices EXCEPT ![k] = d], n)
            /\ line' = [l \in Lines |-> LineDebited(l, BackOn(ls, l))]
            /\ gl' = [gl EXCEPT !.grni = @ - Cleared(ls), !.expense = @ - Expense(ls),
                                !.tax = @ - BaseTax(ls), !.ap = @ + BaseTotal(ls)]
            /\ party' = party + BaseTotal(ls)
    BY DebitRows
  <1>3. FromReceipts(ls)
    <2>1. \A i \in DOMAIN request : request[i].at \in DOMAIN invoices[k].lines
      BY Requested
    <2> QED
      BY <1>1, <1>2, <2>1 DEF Debits, FromReceipts
  <1>4. /\ BaseTotal(ls) \in Int /\ BaseTax(ls) \in Int
        /\ Cleared(ls) \in Int /\ Expense(ls) \in Int
    BY <1>1, <1>3, LineTotals, ClearedTotals
  <1>5. BaseTotal(ls) = Base(n.total)
    BY <1>2 DEF NoteOf, Made, BaseTotal
  <1>6. gl'.grni = gl.grni - Cleared(ls) /\ gl'.ap = gl.ap + BaseTotal(ls) /\ gl'.fx = gl.fx
    <2>1. gl' = [gl EXCEPT !.grni = @ - Cleared(ls), !.expense = @ - Expense(ls),
                           !.tax = @ - BaseTax(ls), !.ap = @ + BaseTotal(ls)]
      BY <1>2
    <2>2. ASSUME NEW w \in Int, NEW y \in Int, NEW z \in Int, NEW u \in Int,
                 gl' = [gl EXCEPT !.grni = @ - w, !.expense = @ - y,
                                  !.tax = @ - z, !.ap = @ + u]
          PROVE  gl'.grni = gl.grni - w /\ gl'.ap = gl.ap + u /\ gl'.fx = gl.fx
      <3>1. DOMAIN gl = {"inventory", "grni", "expense", "tax", "ap", "bank", "fx"}
        BY <1>1 DEF Typed, Accounts
      <3> QED
        BY <2>2, <3>1
    <2> QED
      BY <1>4, <2>1, <2>2
  <1>7. NotePosts(k, request, ls, d, n, x)
    BY <1>2, <1>3, <1>4, <1>5, <1>6 DEF NotePosts
  <1> QED
    BY <1>7

(* An invoice books what it opens. *)
LEMMA InvoicePayable ==
  ASSUME Sound, PayableCounted, NEW request \in Seq(Draw(Lines)), InvoiceLines(request)
  PROVE  PayableCounted'
  <1>1. Typed /\ invoices \in Seq(Document)
    BY DEF Sound, Typed
  <1>2. PICK ls \in Seq(DocumentLine), d \in Document : InvoicePosts(request, ls, d)
    BY InvoiceVoucher
  <1>3. payments' = payments
    BY DEF InvoiceLines
  <1>4. /\ d.type = "Invoice" /\ d.outstanding = d.total /\ d.total \in Int
        /\ invoices' = Append(invoices, d)
    BY <1>2 DEF InvoicePosts, Made, Document
  <1>5. OpenOf[d] = d.total /\ OpenNote[d] = 0
    BY <1>4 DEF OpenOf, OpenNote
  <1>6. /\ Over(OpenOf, invoices') = Over(OpenOf, invoices) + d.total
        /\ Over(OpenNote, invoices') = Over(OpenNote, invoices) + 0
    <2>1. ASSUME NEW f \in [Document -> Int] PROVE Over(f, invoices') = Over(f, invoices) + f[d]
      BY <1>1, <1>4, OverAppend
    <2> QED
      BY <1>5, <2>1, OpenFunctions
  <1>7. /\ gl'.ap = gl.ap - Base(d.total) /\ gl'.fx = gl.fx
        /\ party' = party - Base(d.total) /\ Base(d.total) \in Int
    BY <1>2 DEF InvoicePosts
  <1>8. Len(invoices') = Len(invoices) + 1
    BY <1>1, <1>4
  <1>13. /\ Owing \in Int /\ Payable \in Int /\ PaidRoundings \in Int /\ gl.ap \in Int /\ gl.fx \in Int
         /\ Over(OpenOf, invoices) \in Int /\ Over(OpenNote, invoices) \in Int
         /\ Over(Advance, payments) \in Int /\ Over(PartCount, payments) \in Int
         /\ Len(invoices) \in Int /\ party \in Int
    BY <1>1, PayableInt
  <1>10. /\ Payable' = Payable + Base(d.total) /\ Owing' = Owing + d.total
         /\ PaidRoundings' = PaidRoundings + 1
    <2>1. Payable' = Over(Advance, payments) - gl'.ap
      BY <1>3 DEF Payable
    <2>2. Payable' = Payable + Base(d.total)
      BY <1>7, <1>13, <2>1 DEF Payable
    <2>3. Owing' = Owing + d.total
      BY <1>4, <1>6, <1>13 DEF Owing
    <2>4. PaidRoundings' = PaidRoundings + 1
      BY <1>3, <1>8, <1>13 DEF PaidRoundings
    <2> QED
      BY <2>2, <2>3, <2>4
  <1>11. Worth(Payable + Base(d.total), Owing + d.total, PaidRoundings + 1)
    <2>1. Worth(Payable, Owing, PaidRoundings) /\ Worth(Base(d.total), d.total, 1) /\ 1 \in Int
      BY <1>4, BaseWorth DEF PayableCounted
    <2> QED
      BY <1>4, <1>7, <1>13, <2>1, WorthAdds
  <1>12. party' = gl'.ap + gl'.fx
    <2>1. party = gl.ap + gl.fx
      BY DEF PayableCounted
    <2> QED
      BY <1>7, <1>13, <2>1
  <1> QED
    BY <1>10, <1>11, <1>12 DEF PayableCounted

(* A debit note takes back what it closes of its invoice or opens itself. *)
LEMMA DebitPayable ==
  ASSUME Sound, PayableCounted, NEW k \in DOMAIN invoices,
         NEW request \in Seq(Ask(DOMAIN invoices[k].lines)), DebitInvoice(k, request)
  PROVE  PayableCounted'
  <1>1. Typed /\ invoices \in Seq(Document) /\ invoices[k] \in Document
    BY Rows DEF Sound, Typed
  <1>2. PICK ls \in Seq(DocumentLine), d \in Document, n \in Document, x \in Nat :
            NotePosts(k, request, ls, d, n, x)
    BY DebitVoucher
  <1>3. payments' = payments /\ invoices[k].type = "Invoice"
    BY DEF DebitInvoice
  <1>4. n.type # "Invoice" /\ n.total \in Int
    <2>1. n.type = "Debit Note"
      BY <1>2 DEF NotePosts, NoteOf, Made
    <2>2. n.type # "Invoice"
      BY <2>1
    <2>3. n.total \in Int
      BY DEF Document
    <2> QED
      BY <2>2, <2>3
  <1>5. /\ d.type = "Invoice" /\ d.outstanding = invoices[k].outstanding - x
        /\ n.outstanding = n.total - x
        /\ invoices' = Append([invoices EXCEPT ![k] = d], n)
    BY <1>2, <1>3 DEF NotePosts, DebitedBy, NoteOf
  <1>13. invoices[k].outstanding \in Int
    BY <1>1 DEF Document
  <1>6. /\ OpenOf[d] = d.outstanding /\ OpenNote[d] = 0
        /\ OpenOf[n] = 0 /\ OpenNote[n] = n.outstanding
        /\ OpenOf[invoices[k]] = invoices[k].outstanding /\ OpenNote[invoices[k]] = 0
    BY <1>1, <1>3, <1>4, <1>5 DEF OpenOf, OpenNote
  <1>7. /\ Over(OpenOf, invoices')
             = Over(OpenOf, invoices) + OpenOf[d] - OpenOf[invoices[k]] + OpenOf[n]
        /\ Over(OpenNote, invoices')
             = Over(OpenNote, invoices) + OpenNote[d] - OpenNote[invoices[k]] + OpenNote[n]
    <2>1. Noted(k, d, n)
      BY <1>5 DEF Noted
    <2>2. ASSUME NEW f \in [Document -> Int]
          PROVE  Over(f, invoices') = Over(f, invoices) + f[d] - f[invoices[k]] + f[n]
      BY <1>1, <2>1, NoteAppended
    <2> QED
      BY <2>2, OpenFunctions
  <1>8. Len(invoices') = Len(invoices) + 1
    BY <1>1, <1>5
  <1>9. /\ gl'.ap = gl.ap + Base(n.total) /\ gl'.fx = gl.fx /\ Base(n.total) \in Int
        /\ party' = party + Base(n.total)
    BY <1>2 DEF NotePosts
  <1>15. /\ Owing \in Int /\ Payable \in Int /\ PaidRoundings \in Int /\ gl.ap \in Int /\ gl.fx \in Int
         /\ Over(OpenOf, invoices) \in Int /\ Over(OpenNote, invoices) \in Int
         /\ Over(Advance, payments) \in Int /\ Over(PartCount, payments) \in Int
         /\ Len(invoices) \in Int /\ party \in Int
    BY <1>1, PayableInt
  <1>10. Owing' = Owing - n.total
    <2>1. /\ Over(OpenOf, invoices')
                = Over(OpenOf, invoices) + (invoices[k].outstanding - x)
                    - invoices[k].outstanding + 0
          /\ Over(OpenNote, invoices') = Over(OpenNote, invoices) + 0 - 0 + (n.total - x)
      BY <1>5, <1>6, <1>7
    <2>2. /\ Owing' = Over(OpenOf, invoices') - Over(OpenNote, invoices')
          /\ Owing = Over(OpenOf, invoices) - Over(OpenNote, invoices)
      BY DEF Owing
    <2>3. \A a, b, o, t, y \in Int :
             (a + (o - y) - o + 0) - (b + 0 - 0 + (t - y)) = (a - b) - t
      OBVIOUS
    <2>4. n.total \in Int /\ x \in Int
      BY <1>4
    <2>5. Owing' = (Over(OpenOf, invoices) + (invoices[k].outstanding - x)
                     - invoices[k].outstanding + 0)
                    - (Over(OpenNote, invoices) + 0 - 0 + (n.total - x))
      BY <2>1, <2>2
    <2>6. /\ Over(OpenOf, invoices) \in Int /\ Over(OpenNote, invoices) \in Int
          /\ invoices[k].outstanding \in Int
      BY <1>13, <1>15
    <2>7. Owing' = (Over(OpenOf, invoices) - Over(OpenNote, invoices)) - n.total
      BY <2>3, <2>4, <2>5, <2>6
    <2> QED
      BY <2>2, <2>7
  <1>14. Payable' = Payable - Base(n.total) /\ PaidRoundings' = PaidRoundings + 1
    <2>1. Payable' = Over(Advance, payments) - gl'.ap
      BY <1>3 DEF Payable
    <2>2. Payable' = Payable - Base(n.total)
      BY <1>9, <1>15, <2>1 DEF Payable
    <2>3. PaidRoundings' = PaidRoundings + 1
      BY <1>3, <1>8, <1>15 DEF PaidRoundings
    <2> QED
      BY <2>2, <2>3
  <1>11. Worth(Payable - Base(n.total), Owing - n.total, PaidRoundings + 1)
    <2>1. Worth(Payable, Owing, PaidRoundings) /\ Worth(Base(n.total), n.total, 1) /\ 1 \in Int
      BY <1>4, BaseWorth DEF PayableCounted
    <2> QED
      BY <1>4, <1>9, <1>15, <2>1, WorthAdds
  <1>12. party' = gl'.ap + gl'.fx
    <2>1. party = gl.ap + gl.fx
      BY DEF PayableCounted
    <2> QED
      BY <1>9, <1>15, <2>1
  <1> QED
    BY <1>10, <1>11, <1>12, <1>14 DEF PayableCounted

(* The parts of a payment are worth what the invoices' parts were booked at. *)
LEMMA PartsWorth ==
  ASSUME NEW p \in Entry, NEW target \in [DOMAIN p.allocations -> DOMAIN invoices],
         Pay(p, target)
  PROVE  /\ Total(p.allocations, "invoice_amount") \in Int
         /\ Worth(OriginalBase(p), Total(p.allocations, "invoice_amount"), Len(p.allocations))
  <1> DEFINE u == [i \in DOMAIN p.allocations |-> Base(p.allocations[i].invoice_amount)]
             v == [i \in DOMAIN p.allocations |-> p.allocations[i].invoice_amount]
             w == [i \in 1..Len(p.allocations) |-> 1]
  <1>1. /\ DOMAIN p.allocations = 1..Len(p.allocations) /\ Len(p.allocations) \in Nat
        /\ \A i \in DOMAIN p.allocations : p.allocations[i].invoice_amount \in Int
    BY Allocated
  <1>2. u \in Seq(Int) /\ DOMAIN u = DOMAIN p.allocations
    <2>1. u \in [1..Len(p.allocations) -> Int]
      BY <1>1, BaseValue
    <2> QED
      BY <1>1, <2>1, FunctionIsSeq
  <1>3. v \in Seq(Int) /\ DOMAIN v = DOMAIN p.allocations
    <2>1. v \in [1..Len(p.allocations) -> Int]
      BY <1>1
    <2> QED
      BY <1>1, <2>1, FunctionIsSeq
  <1>4. SeqSum(u) = OriginalBase(p)
    BY DEF OriginalBase, SumWhere, Always
  <1>5. SeqSum(v) = Total(p.allocations, "invoice_amount")
    BY DEF Total
  <1>6. \A i \in DOMAIN u : v[i] \in Int /\ u[i] = Base(v[i])
    BY <1>1
  <1>7. Len(u) = Len(p.allocations) /\ Len(v) = Len(p.allocations)
    BY <1>1, <1>2, <1>3
  <1>8. SeqSum(u) \in Int /\ SeqSum(v) \in Int
    BY <1>2, <1>3, SeqSumInt
  <1> HIDE DEF u, v
  <1>9. w \in Seq(Int) /\ DOMAIN w = 1..Len(p.allocations) /\ SeqSum(w) = Len(p.allocations)
    <2>1. w \in [1..Len(p.allocations) -> Int]
      OBVIOUS
    <2>2. SeqSum(w) = 1 * Len(p.allocations)
      BY <1>1, SeqSumConst
    <2> HIDE DEF w
    <2>3. w \in Seq(Int) /\ DOMAIN w = 1..Len(p.allocations)
      BY <1>1, <2>1, FunctionIsSeq
    <2> QED
      BY <1>1, <2>2, <2>3 DEF w
  <1> DEFINE ev == [i \in DOMAIN v |-> Exchange * v[i]]
  <1>10. Scale \in Int /\ Exchange \in Int
    BY PurchaseAssumption
  <1>11. /\ ev \in Seq(Int) /\ SeqSum(ev) = Exchange * SeqSum(v) /\ DOMAIN ev = DOMAIN v
         /\ \A i \in DOMAIN v : ev[i] = Exchange * v[i]
    BY <1>3, <1>10, SeqSumScale
  <1>12. \A i \in DOMAIN u : w[i] = 1
    BY <1>1, <1>2
  <1>13. ASSUME NEW i \in DOMAIN u PROVE Near(Scale, u[i], ev[i], w[i])
    <2>1. Worth(Base(v[i]), v[i], 1)
      BY <1>6, BaseWorth
    <2>2. ev[i] = Exchange * v[i]
      BY <1>2, <1>3, <1>11
    <2> QED
      BY <1>6, <1>12, <2>1, <2>2 DEF Worth
  <1> HIDE DEF ev, w
  <1>14. Near(Scale, SeqSum(u), SeqSum(ev), SeqSum(w))
    BY <1>1, <1>2, <1>3, <1>9, <1>10, <1>11, <1>13, NearSum
  <1>15. Worth(SeqSum(u), SeqSum(v), Len(p.allocations))
    BY <1>9, <1>11, <1>14 DEF Worth
  <1> QED
    BY <1>4, <1>5, <1>8, <1>15

(* A payment closes the invoices by what it allocates to them. *)
LEMMA PayOpens ==
  ASSUME Sound, NEW p \in Entry, NEW target \in [DOMAIN p.allocations -> DOMAIN invoices],
         Pay(p, target)
  PROVE  /\ Over(OpenOf, invoices)
              = Over(OpenOf, invoices') + Total(p.allocations, "invoice_amount")
         /\ Over(OpenNote, invoices') = Over(OpenNote, invoices)
         /\ Over(OpenOf, invoices') \in Int
         /\ Len(invoices') = Len(invoices)
  <1> DEFINE parts == Parts(p, target)
             asked == [k \in DOMAIN invoices |-> Asked(parts, k)]
             one == [k \in 1..Len(invoices) |-> 1]
  <1>1. /\ Typed /\ invoices \in Seq(Document)
        /\ DOMAIN invoices = 1..Len(invoices) /\ Len(invoices) \in Nat
        /\ \A k \in DOMAIN invoices : invoices[k] \in Document
    BY Rows DEF Sound, Typed
  <1>2. invoices' \in Seq(Document) /\ DOMAIN invoices' = DOMAIN invoices
    BY PayRows DEF Settles
  <1>3. /\ parts \in Seq(Ask(DOMAIN invoices)) /\ \A k : Asked(parts, k) \in Nat
        /\ \A i \in DOMAIN parts : parts[i].qty \in Nat /\ parts[i].at \in 1..Len(invoices)
    <2>1. parts \in Seq(Ask(DOMAIN invoices)) /\ \A k : Asked(parts, k) \in Nat
      BY PartsAsked
    <2> HIDE DEF parts
    <2> QED
      BY <1>1, <2>1, Requested
  <1>4. ASSUME NEW k \in DOMAIN invoices
        PROVE  /\ OpenOf[invoices[k]] = OpenOf[invoices'[k]] + asked[k]
               /\ OpenNote[invoices'[k]] = OpenNote[invoices[k]]
    <2>1. /\ invoices'[k] \in Document /\ invoices'[k].type = invoices[k].type
          /\ invoices'[k].outstanding = invoices[k].outstanding - asked[k]
          /\ asked[k] > 0 => invoices[k].type = "Invoice"
      BY SettlesAmounts
    <2>2. invoices[k] \in Document /\ asked[k] \in Nat
      BY <1>1, <1>3
    <2> HIDE DEF asked
    <2>3. invoices[k].outstanding \in Int
      BY <2>2 DEF Document
    <2>4. CASE invoices[k].type = "Invoice"
      BY <2>1, <2>2, <2>3, <2>4 DEF OpenOf, OpenNote
    <2>5. CASE invoices[k].type # "Invoice"
      <3>1. asked[k] = 0
        BY <2>1, <2>2, <2>5
      <3> QED
        BY <2>1, <2>2, <2>3, <2>5, <3>1 DEF OpenOf, OpenNote
    <2> QED
      BY <2>4, <2>5
  <1>5. \A k \in DOMAIN invoices' : asked[k] \in Int
    BY <1>2, <1>3
  <1>6. SeqSum([k \in DOMAIN invoices' |-> asked[k]]) = Total(p.allocations, "invoice_amount")
    <2>1. one \in [1..Len(invoices) -> Int]
      OBVIOUS
    <2>2. SeqSum([k \in 1..Len(invoices) |-> one[k] * Asked(parts, k)])
            = SeqSum([i \in DOMAIN parts |-> one[parts[i].at] * parts[i].qty])
      <3> HIDE DEF parts, one
      <3> QED
        BY <1>1, <1>3, <2>1, AskedGroup
    <2>3. [k \in 1..Len(invoices) |-> one[k] * Asked(parts, k)]
            = [k \in DOMAIN invoices' |-> asked[k]]
      <3> HIDE DEF parts
      <3>1. \A k \in DOMAIN invoices : one[k] * Asked(parts, k) = Asked(parts, k)
        BY <1>1, <1>3
      <3> QED
        BY <1>1, <1>2, <3>1
    <2>4. [i \in DOMAIN parts |-> one[parts[i].at] * parts[i].qty]
            = [i \in DOMAIN p.allocations |-> p.allocations[i].invoice_amount]
      <3>1. \A i \in DOMAIN parts : one[parts[i].at] * parts[i].qty = parts[i].qty
        BY <1>3
      <3>2. DOMAIN parts = DOMAIN p.allocations
        BY DEF Parts
      <3>3. \A i \in DOMAIN parts : parts[i].qty = p.allocations[i].invoice_amount
        BY DEF Parts
      <3> HIDE DEF parts, one
      <3> QED
        BY <3>1, <3>2, <3>3
    <2> QED
      BY <2>2, <2>3, <2>4 DEF Total
  <1> HIDE DEF asked
  <1>7. Shifted(Document, OpenOf, invoices', invoices, asked)
    BY <1>1, <1>2, <1>4, <1>5, OpenFunctions DEF Shifted
  <1>8. Over(OpenOf, invoices)
          = Over(OpenOf, invoices') + SeqSum([k \in DOMAIN invoices' |-> asked[k]])
    BY <1>7, OverAdd
  <1>9. Alike(OpenNote, invoices', OpenNote, invoices)
    BY <1>2, <1>4 DEF Alike
  <1>10. Over(OpenNote, invoices') = Over(OpenNote, invoices)
    BY <1>9, OverEqual
  <1>11. Over(OpenOf, invoices') \in Int
    BY <1>2, OpenFunctions, OverInt
  <1>12. Len(invoices') = Len(invoices)
    BY <1>1, <1>2
  <1> QED
    BY <1>6, <1>8, <1>10, <1>11, <1>12

(* A payment debits what its parts were booked at and its advance. *)
LEMMA PayPayable ==
  ASSUME Sound, PayableCounted, NEW p \in Entry,
         NEW target \in [DOMAIN p.allocations -> DOMAIN invoices], Pay(p, target)
  PROVE  PayableCounted'
  <1> DEFINE ob == OriginalBase(p)
             pb == PaymentBase(p)
             t == Total(p.allocations, "base_amount")
             am == Total(p.allocations, "invoice_amount")
             n == Len(p.allocations)
  <1>1. Typed /\ payments \in Seq(Payment)
    BY DEF Sound, Typed
  <1>2. PICK pay \in Payment : PaidParts(p, target, pay) /\ payments' = Append(payments, pay)
    BY PayRows
  <1>3. ob \in Int /\ pb \in Int /\ t \in Int /\ n \in Int
    BY Allocated
  <1>4. am \in Int /\ Worth(ob, am, n)
    BY PartsWorth
  <1>5. /\ DOMAIN pay.allocations = DOMAIN p.allocations
        /\ pay.allocations \in Seq(PaidPart) /\ pay.base = pb
        /\ \A i \in DOMAIN p.allocations :
              pay.allocations[i].base_amount = p.allocations[i].base_amount
    BY <1>2, Allocated DEF PaidParts, Payment
  <1>6. Len(pay.allocations) = n
    <2>1. n \in Nat /\ DOMAIN pay.allocations = 1..n
      BY <1>5, Allocated
    <2> QED
      BY <1>5, <2>1
  <1>7. Over(BaseAmount, pay.allocations) = t
    <2>1. \A i \in DOMAIN pay.allocations : pay.allocations[i] \in PaidPart
      BY <1>5
    <2>2. [i \in DOMAIN pay.allocations |-> BaseAmount[pay.allocations[i]]]
            = [i \in DOMAIN p.allocations |-> p.allocations[i]["base_amount"]]
      BY <1>5, <2>1 DEF BaseAmount
    <2> QED
      BY <2>2 DEF Over, Total
  <1>8. Advance[pay] = pb - t /\ PartCount[pay] = n
    BY <1>5, <1>6, <1>7 DEF Advance, PartCount
  <1>9. ASSUME NEW f \in [Payment -> Int] PROVE Over(f, payments') = Over(f, payments) + f[pay]
    BY <1>1, <1>2, OverAppend
  <1>10. /\ Over(Advance, payments') = Over(Advance, payments) + (pb - t)
         /\ Over(PartCount, payments') = Over(PartCount, payments) + n
    BY <1>8, <1>9, OpenFunctions
  <1>11. gl'.ap = gl.ap + (ob + (pb - t)) /\ gl'.fx = gl.fx + (t - ob)
    <2>1. gl' = [gl EXCEPT !.ap = @ + ApDebit(p), !.bank = @ - PaymentBase(p),
                           !.fx = @ + GainLoss(p)]
      BY DEF Pay
    <2>2. ApDebit(p) = ob + (pb - t) /\ GainLoss(p) = t - ob
      BY DEF ApDebit, GainLoss
    <2> HIDE DEF ob, pb, t
    <2>3. ApDebit(p) \in Int /\ PaymentBase(p) \in Int /\ GainLoss(p) \in Int
      BY <1>3, <2>2 DEF pb
    <2>4. ASSUME NEW x \in Int, NEW y \in Int, NEW z \in Int,
                 gl' = [gl EXCEPT !.ap = @ + x, !.bank = @ - y, !.fx = @ + z]
          PROVE  gl'.ap = gl.ap + x /\ gl'.fx = gl.fx + z
      BY <1>1, <2>4, Vouchers, ZenonT(30)
    <2>5. gl'.ap = gl.ap + ApDebit(p) /\ gl'.fx = gl.fx + GainLoss(p)
      BY <2>1, <2>3, <2>4
    <2> QED
      BY <2>2, <2>5
  <1>12. party' = party + pb
    BY DEF Pay
  <1>13. /\ Over(OpenOf, invoices) = Over(OpenOf, invoices') + am
         /\ Over(OpenNote, invoices') = Over(OpenNote, invoices)
         /\ Over(OpenOf, invoices') \in Int
         /\ Len(invoices') = Len(invoices)
    BY PayOpens
  <1> HIDE DEF ob, pb, t, am, n
  <1>14. /\ Owing \in Int /\ Payable \in Int /\ PaidRoundings \in Int /\ gl.ap \in Int /\ gl.fx \in Int
         /\ Over(OpenOf, invoices) \in Int /\ Over(OpenNote, invoices) \in Int
         /\ Over(Advance, payments) \in Int /\ Over(PartCount, payments) \in Int
         /\ Len(invoices) \in Int /\ party \in Int
    BY <1>1, PayableInt
  <1>15. Payable' = Payable - ob
    <2>1. Payable' = Over(Advance, payments') - gl'.ap
      BY DEF Payable
    <2>2. Payable' = (Over(Advance, payments) + (pb - t)) - (gl.ap + (ob + (pb - t)))
      BY <1>10, <1>11, <2>1
    <2>3. \A x, y, o, q, r \in Int : (y + (q - r)) - (x + (o + (q - r))) = (y - x) - o
      OBVIOUS
    <2> QED
      BY <1>3, <1>14, <2>2, <2>3 DEF Payable
  <1>16. Owing' = Owing - am
    <2>1. Owing' = Over(OpenOf, invoices') - Over(OpenNote, invoices')
      BY DEF Owing
    <2>2. Owing' = Over(OpenOf, invoices') - Over(OpenNote, invoices)
      BY <1>13, <2>1
    <2>3. Owing = (Over(OpenOf, invoices') + am) - Over(OpenNote, invoices)
      BY <1>13 DEF Owing
    <2>4. \A x, y, z \in Int : x - z = ((x + y) - z) - y
      OBVIOUS
    <2> QED
      BY <1>4, <1>13, <1>14, <2>2, <2>3, <2>4
  <1>17. PaidRoundings' = PaidRoundings + n
    BY <1>3, <1>10, <1>13, <1>14 DEF PaidRoundings
  <1>18. Worth(Payable - ob, Owing - am, PaidRoundings + n)
    <2>1. Worth(Payable, Owing, PaidRoundings)
      BY DEF PayableCounted
    <2> QED
      BY <1>3, <1>4, <1>14, <2>1, WorthAdds
  <1>19. party' = gl'.ap + gl'.fx
    <2>1. party = gl.ap + gl.fx
      BY DEF PayableCounted
    <2>2. \A x, y, o, q, r \in Int :
             (x + y) + q = (x + (o + (q - r))) + (y + (r - o))
      OBVIOUS
    <2> QED
      BY <1>3, <1>11, <1>12, <1>14, <2>1, <2>2
  <1> QED
    BY <1>15, <1>16, <1>17, <1>18, <1>19 DEF PayableCounted


(* What a receipt or a return posts, with the rows it writes. *)
ReceivePosts(request, new) ==
    /\ Arrived(request, new) /\ receipts' = receipts \o new
    /\ Booked(GoodsCost(new)) \in Int /\ gl'.grni = gl.grni - Booked(GoodsCost(new))
    /\ gl'.ap = gl.ap /\ gl'.fx = gl.fx

ReturnPosts(request, old, new) ==
    /\ TakenFrom(request, old) /\ SentBack(request, new) /\ receipts' = old \o new
    /\ ReturnValue(new) \in Int /\ gl'.grni = gl.grni + ReturnValue(new)
    /\ gl'.ap = gl.ap /\ gl'.fx = gl.fx

\* A receipt posts its goods at their cost.
LEMMA ReceiveVoucher ==
  ASSUME Sound, NEW request \in Seq(Arrival), ReceiveLines(request)
  PROVE  \E new \in Seq(ReceiptRow) : ReceivePosts(request, new)
  <1>1. Typed
    BY DEF Sound
  <1>2. PICK new \in Seq(ReceiptRow) :
            /\ Arrived(request, new) /\ receipts' = receipts \o new
            /\ gl' = [gl EXCEPT !.inventory = @ + Booked(GoodsCost(new)),
                                !.grni = @ - Booked(GoodsCost(new))]
            /\ \A l \in Lines : Arriving(request, l) = BroughtBy(new, l)
    BY <1>1, ReceiveRows
  <1>3. Booked(GoodsCost(new)) \in Int
    BY GoodsCostNat
  <1>4. DOMAIN gl = {"inventory", "grni", "expense", "tax", "ap", "bank", "fx"}
    BY <1>1 DEF Typed, Accounts
  <1>5. ASSUME NEW x \in Int, gl' = [gl EXCEPT !.inventory = @ + x, !.grni = @ - x]
        PROVE  gl'.grni = gl.grni - x /\ gl'.ap = gl.ap /\ gl'.fx = gl.fx
    BY <1>4, <1>5
  <1>6. /\ gl'.grni = gl.grni - Booked(GoodsCost(new))
        /\ gl'.ap = gl.ap /\ gl'.fx = gl.fx
    BY <1>2, <1>3, <1>5
  <1>7. ReceivePosts(request, new)
    BY <1>2, <1>3, <1>6 DEF ReceivePosts
  <1> QED
    BY <1>7

\* A return posts what it takes back at the cost of the receipt.
LEMMA ReturnVoucher ==
  ASSUME Sound, NEW request \in Seq(Back(DOMAIN receipts)), ReturnLines(request)
  PROVE  \E old \in Seq(ReceiptRow), new \in Seq(ReceiptRow) : ReturnPosts(request, old, new)
  <1>1. Typed /\ ReceiptsSound
    BY DEF Sound
  <1>2. PICK old \in Seq(ReceiptRow), new \in Seq(ReceiptRow) :
            /\ TakenFrom(request, old) /\ SentBack(request, new) /\ receipts' = old \o new
            /\ gl' = [gl EXCEPT !.grni = @ + ReturnValue(new),
                                !.inventory = @ - ReturnValue(new)]
            /\ line' = [l \in Lines |-> [line[l] EXCEPT !.returned = @ + BroughtBy(new, l)]]
    BY <1>1, ReturnRows
  <1>3. ReturnValue(new) \in Int
    BY GoodsCostNat
  <1>4. DOMAIN gl = {"inventory", "grni", "expense", "tax", "ap", "bank", "fx"}
    BY <1>1 DEF Typed, Accounts
  <1>5. ASSUME NEW x \in Int, gl' = [gl EXCEPT !.grni = @ + x, !.inventory = @ - x]
        PROVE  gl'.grni = gl.grni + x /\ gl'.ap = gl.ap /\ gl'.fx = gl.fx
    BY <1>4, <1>5
  <1>6. gl'.grni = gl.grni + ReturnValue(new) /\ gl'.ap = gl.ap /\ gl'.fx = gl.fx
    BY <1>2, <1>3, <1>5
  <1>7. ReturnPosts(request, old, new)
    BY <1>2, <1>3, <1>6 DEF ReturnPosts
  <1> QED
    BY <1>7

PaymentsCounted == PaymentsLinked /\ PaidCounted /\ PayableCounted

\* No step separates the open amounts from the payments, the notes and the ledgers.
LEMMA PaymentsStayCounted ==
  ASSUME Sound, PaymentsCounted, [Handlers]_vars
  PROVE  PaymentsCounted'
  <1>1. PaymentsLinked /\ PaidCounted /\ PayableCounted
    BY DEF PaymentsCounted
  <1>2. PaymentsLinked'
    BY <1>1, PaymentsStayLinked
  <1>3. ASSUME invoices' = invoices, payments' = payments, gl'.ap = gl.ap, gl'.fx = gl.fx,
               party' = party
        PROVE  PaidCounted' /\ PayableCounted'
    <2>1. PaidCounted'
      BY <1>1, <1>3 DEF PaidCounted
    <2>2. PayableCounted'
      BY <1>1, <1>3 DEF PayableCounted, Worth, Payable, Owing, PaidRoundings
    <2> QED
      BY <2>1, <2>2
  <1>4. ASSUME PostOrder \/ UNCHANGED vars PROVE PaidCounted' /\ PayableCounted'
    BY <1>3, <1>4 DEF PostOrder, vars
  <1>5. ASSUME NEW request \in Seq(Arrival), ReceiveLines(request)
        PROVE  PaidCounted' /\ PayableCounted'
    <2>1. gl'.ap = gl.ap /\ gl'.fx = gl.fx
      BY <1>5, ReceiveVoucher DEF ReceivePosts
    <2> QED
      BY <1>3, <1>5, <2>1 DEF ReceiveLines
  <1>6. ASSUME NEW request \in Seq(Back(DOMAIN receipts)), ReturnLines(request)
        PROVE  PaidCounted' /\ PayableCounted'
    <2>1. gl'.ap = gl.ap /\ gl'.fx = gl.fx
      BY <1>6, ReturnVoucher DEF ReturnPosts
    <2> QED
      BY <1>3, <1>6, <2>1 DEF ReturnLines
  <1>7. ASSUME NEW request \in Seq(Draw(Lines)), InvoiceLines(request)
        PROVE  PaidCounted' /\ PayableCounted'
    BY <1>1, <1>7, InvoicePaid, InvoicePayable
  <1>8. ASSUME NEW p \in Entry, NEW target \in [DOMAIN p.allocations -> DOMAIN invoices],
               Pay(p, target)
        PROVE  PaidCounted' /\ PayableCounted'
    BY <1>1, <1>8, PayPaid, PayPayable
  <1>9. ASSUME NEW k \in DOMAIN invoices, NEW request \in Seq(Ask(DOMAIN invoices[k].lines)),
               DebitInvoice(k, request)
        PROVE  PaidCounted' /\ PayableCounted'
    BY <1>1, <1>9, DebitPaid, DebitPayable
  <1>10. PaidCounted' /\ PayableCounted'
    BY <1>4, <1>5, <1>6, <1>7, <1>8, <1>9 DEF Handlers
  <1> QED
    BY <1>2, <1>10 DEF PaymentsCounted

\* The open amount of every invoice, as the property states it.
LEMMA OpenIsUnpaid ==
  ASSUME Sound, PaidCounted, NEW k \in DOMAIN invoices, IsInvoice(invoices[k])
  PROVE  invoices[k].outstanding = invoices[k].total
           - SumWhere(payments, Always, LAMBDA p :
               SumWhere(p.allocations, LAMBDA a : a.invoice = k, LAMBDA a : a.invoice_amount))
           - DocumentSum(LAMBDA d : d.against = k, LAMBDA d : d.total - d.outstanding)
  <1> DEFINE f(p) == SumWhere(p.allocations, LAMBDA a : a.invoice = k,
                              LAMBDA a : a.invoice_amount)
             paid == SumWhere(payments, Always, f)
             settled == DocumentSum(LAMBDA d : d.against = k, LAMBDA d : d.total - d.outstanding)
  <1>1. /\ payments \in Seq(Payment) /\ invoices \in Seq(Document)
        /\ \A m \in DOMAIN invoices : invoices[m] \in Document
        /\ \A m \in DOMAIN payments : payments[m] \in Payment
    BY Rows DEF Sound, Typed
  <1>2. ASSUME NEW m \in DOMAIN payments PROVE PaidFor(k)[payments[m]] = f(payments[m])
    <2>1. \A i \in DOMAIN payments[m].allocations : payments[m].allocations[i] \in PaidPart
      BY <1>1 DEF Payment
    <2>2. [i \in DOMAIN payments[m].allocations |-> PartFor(k)[payments[m].allocations[i]]]
            = [i \in DOMAIN payments[m].allocations |->
                  IF payments[m].allocations[i].invoice = k
                  THEN payments[m].allocations[i].invoice_amount ELSE 0]
      BY <2>1 DEF PartFor
    <2>3. Over(PartFor(k), payments[m].allocations) = f(payments[m])
      BY <2>2 DEF Over, SumWhere
    <2> QED
      BY <1>1, <2>3 DEF PaidFor
  <1>3. paid = Over(PaidFor(k), payments)
    <2>1. [m \in DOMAIN payments |-> PaidFor(k)[payments[m]]]
            = [m \in DOMAIN payments |-> IF Always(payments[m]) THEN f(payments[m]) ELSE 0]
      BY <1>2 DEF Always
    <2> HIDE DEF f
    <2> QED
      BY <2>1 DEF Over, SumWhere
  <1>4. settled = Over(SettledFor(k), invoices)
    <2>1. [m \in DOMAIN invoices |-> SettledFor(k)[invoices[m]]]
            = [m \in DOMAIN invoices |->
                 IF invoices[m].against = k THEN invoices[m].total - invoices[m].outstanding
                                            ELSE 0]
      BY <1>1 DEF SettledFor, PaidOf
    <2> QED
      BY <2>1 DEF Over, DocumentSum, SumWhere
  <1>5. Over(PaidFor(k), payments) \in Int /\ Over(SettledFor(k), invoices) \in Int
    <2>1. PaidFor(k) \in [Payment -> Int] /\ SettledFor(k) \in [Document -> Int]
      BY PayingFunctions
    <2>2. Over(PaidFor(k), payments) \in Int
      BY <1>1, <2>1, OverInt
    <2>3. Over(SettledFor(k), invoices) \in Int
      BY <1>1, <2>1, OverInt
    <2> QED
      BY <2>2, <2>3
  <1>6. invoices[k].outstanding \in Nat /\ invoices[k].total \in Nat
    BY <1>1 DEF Document
  <1>7. PaidOf(invoices[k]) = Over(PaidFor(k), payments) + Over(SettledFor(k), invoices)
    BY DEF PaidCounted, IsInvoice
  <1> HIDE DEF paid, settled, f
  <1>8. invoices[k].total - invoices[k].outstanding = paid + settled
    BY <1>3, <1>4, <1>7 DEF PaidOf
  <1>9. paid \in Int /\ settled \in Int
    BY <1>3, <1>4, <1>5
  <1>10. invoices[k].outstanding = invoices[k].total - paid - settled
    BY <1>6, <1>8, <1>9
  <1> QED
    BY <1>10 DEF paid, settled, f


(* The open amounts are what payments and notes have left, the payable account *)
(* is worth the open documents less the advances but for the roundings, and    *)
(* the party ledger differs from it by the exchange gains and losses alone.    *)
THEOREM PayableCorrect == EntrySpec => []PayableIsOutstanding
  <1>1. EntryInit => PaymentsCounted
    <2> SUFFICES ASSUME EntryInit PROVE PaymentsCounted
      OBVIOUS
    <2>1. NothingDone
      BY DEF EntryInit, Init, ImportOrder
    <2>2. gl.ap = 0 /\ gl.fx = 0 /\ party = 0 /\ invoices = <<>> /\ payments = <<>>
      BY <2>1 DEF NothingDone, Accounts
    <2>3. Payable = 0 /\ Owing = 0 /\ PaidRoundings = 0
      BY <2>2, OverEmpty DEF Payable, Owing, PaidRoundings
    <2>4. Scale \in Int /\ Exchange \in Int
      BY PurchaseAssumption
    <2>5. Scale * 0 = 0 /\ Exchange * 0 = 0
      BY <2>4
    <2>6. Worth(0, 0, 0)
      BY <2>5 DEF Worth, Near
    <2>7. PayableCounted
      BY <2>2, <2>3, <2>6 DEF PayableCounted
    <2>8. PaymentsLinked /\ PaidCounted
      BY <2>2 DEF PaymentsLinked, PaidCounted
    <2> QED
      BY <2>7, <2>8 DEF PaymentsCounted
  <1>2. Sound /\ PaymentsCounted /\ [Handlers]_vars => PaymentsCounted'
    BY PaymentsStayCounted
  <1>3. Sound /\ PaymentsCounted => PayableIsOutstanding
    <2> SUFFICES ASSUME Sound, PaymentsCounted PROVE PayableIsOutstanding
      OBVIOUS
    <2>1. /\ PaidCounted /\ PayableCounted
          /\ \A k \in DOMAIN invoices : invoices[k] \in Document
          /\ \A m \in DOMAIN payments : payments[m] \in Payment
      BY Rows DEF Sound, PaymentsCounted
    <2> DEFINE f(p) == p.base - Total(p.allocations, "base_amount")
               g(p) == Len(p.allocations)
               advance == SumWhere(payments, Always, f)
               counts == SumWhere(payments, Always, g)
               open == DocumentSum(IsInvoice, LAMBDA d : d.outstanding)
                         - DocumentSum(IsNote, LAMBDA d : d.outstanding)
    <2>2. ASSUME NEW m \in DOMAIN payments PROVE Advance[payments[m]] = f(payments[m])
      <3>1. \A i \in DOMAIN payments[m].allocations : payments[m].allocations[i] \in PaidPart
        BY <2>1 DEF Payment
      <3>2. [i \in DOMAIN payments[m].allocations |-> BaseAmount[payments[m].allocations[i]]]
              = [i \in DOMAIN payments[m].allocations |->
                    payments[m].allocations[i]["base_amount"]]
        BY <3>1 DEF BaseAmount
      <3>3. Over(BaseAmount, payments[m].allocations)
              = Total(payments[m].allocations, "base_amount")
        BY <3>2 DEF Over, Total
      <3> QED
        BY <2>1, <3>3 DEF Advance
    <2>3. advance = Over(Advance, payments)
      <3>1. [m \in DOMAIN payments |-> Advance[payments[m]]]
              = [m \in DOMAIN payments |-> IF Always(payments[m]) THEN f(payments[m]) ELSE 0]
        BY <2>2 DEF Always
      <3> HIDE DEF f
      <3> QED
        BY <3>1 DEF Over, SumWhere
    <2>4. counts = Over(PartCount, payments)
      <3>1. [m \in DOMAIN payments |-> PartCount[payments[m]]]
              = [m \in DOMAIN payments |-> IF Always(payments[m]) THEN g(payments[m]) ELSE 0]
        BY <2>1 DEF Always, PartCount
      <3> HIDE DEF g
      <3> QED
        BY <3>1 DEF Over, SumWhere
    <2>5. DocumentSum(IsInvoice, LAMBDA d : d.outstanding) = Over(OpenOf, invoices)
      <3>1. [k \in DOMAIN invoices |-> OpenOf[invoices[k]]]
              = [k \in DOMAIN invoices |->
                   IF IsInvoice(invoices[k]) THEN invoices[k].outstanding ELSE 0]
        BY <2>1 DEF OpenOf, IsInvoice
      <3> QED
        BY <3>1 DEF Over, DocumentSum, SumWhere
    <2>6. DocumentSum(IsNote, LAMBDA d : d.outstanding) = Over(OpenNote, invoices)
      <3>1. [k \in DOMAIN invoices |-> OpenNote[invoices[k]]]
              = [k \in DOMAIN invoices |->
                   IF IsNote(invoices[k]) THEN invoices[k].outstanding ELSE 0]
        BY <2>1 DEF OpenNote, IsNote, IsInvoice
      <3> QED
        BY <3>1 DEF Over, DocumentSum, SumWhere
    <2>7. open = Owing
      BY <2>5, <2>6 DEF Owing
    <2>8. gl.ap \in Int /\ advance \in Int /\ Payable = -gl.ap + advance
      <3>1. gl.ap \in Int /\ Over(Advance, payments) \in Int
        BY PayableInt DEF Sound
      <3> HIDE DEF advance
      <3> QED
        BY <2>3, <3>1 DEF Payable
    <2>9. PaidRoundings = Len(invoices) + counts
      BY <2>4 DEF PaidRoundings
    <2> HIDE DEF f, g, advance, counts, open
    <2>10. /\ 2 * (Scale * (-gl.ap + advance) - Exchange * open)
                <= Scale * (Len(invoices) + counts)
           /\ -(Scale * (Len(invoices) + counts))
                <= 2 * (Scale * (-gl.ap + advance) - Exchange * open)
           /\ party = gl.ap + gl.fx
      BY <2>1, <2>7, <2>8, <2>9 DEF PayableCounted, Worth, Near
    <2>11. \A k \in DOMAIN invoices : IsInvoice(invoices[k]) =>
              invoices[k].outstanding = invoices[k].total
                - SumWhere(payments, Always, LAMBDA p :
                    SumWhere(p.allocations, LAMBDA a : a.invoice = k,
                             LAMBDA a : a.invoice_amount))
                - DocumentSum(LAMBDA d : d.against = k, LAMBDA d : d.total - d.outstanding)
      BY <2>1, OpenIsUnpaid
    <2> QED
      BY <2>10, <2>11 DEF PayableIsOutstanding, f, g, advance, counts, open
  <1> QED
    BY <1>1, <1>2, <1>3, SoundAlways, PTL DEF EntrySpec

-----------------------------------------------------------------------------
(* The clearing account against the goods received, returned and billed. *)

Held(r) == IF r.line \in Goods
           THEN (IF r.kind = "Receipt" THEN Quantity(r) ELSE 0) - r.billed ELSE 0
Gone(r) == r.acceptedReturned + r.rejectedReturned

\* What the clearing account still owes for a row, debit notes left aside.
RowCost == [r \in ReceiptRow |-> (Held(r) - Gone(r)) * UnitCost(r.line)]
Weight == [r \in ReceiptRow |-> IF r.line \in Goods THEN UnitCost(r.line) ELSE 0]

\* What the debit notes put back of a receipt row, and the lines drawn from one.
DebitedRow(k) == [x \in DocumentLine |-> IF x.from = k THEN x.debited ELSE 0]
DebitedFrom(k) == [d \in Document |-> IF d.type = "Invoice" THEN Over(DebitedRow(k), d.lines)
                                                            ELSE 0]
HasRow == [x \in DocumentLine |-> IF x.from # None THEN 1 ELSE 0]
FromCount == [d \in Document |-> Over(HasRow, d.lines)]

\* Units of each row, weighed with its cost.
Weighed(rows, u) == [k \in DOMAIN rows |-> Weight[rows[k]] * u[k]]
DebitedUnits(rows, docs) == [k \in DOMAIN rows |-> Over(DebitedFrom(k), docs)]
DrawnUnits(rows, ls) == [k \in DOMAIN rows |-> Over(FromRow(k), ls)]
DebitedCost(rows, docs) == SeqSum(Weighed(rows, DebitedUnits(rows, docs)))
DrawnCost(rows, ls) == SeqSum(Weighed(rows, DrawnUnits(rows, ls)))

\* A line drawn from a receipt row is of the row's order line.
Matched(ls, rows) == \A i \in DOMAIN ls : ls[i].from # None => rows[ls[i].from].line = ls[i].line
LinesMatched == \A k \in DOMAIN invoices : Matched(invoices[k].lines, receipts)

ReceiptDocs == {receipts[k].doc : k \in DOMAIN receipts}
Unbilled == Over(RowCost, receipts) + DebitedCost(receipts, invoices)
ClearingRoundings == Cardinality(ReceiptDocs) + Over(FromCount, invoices)

ClearingCounted == LinesMatched /\ Near(Fine, -gl.grni, Unbilled, ClearingRoundings)

\* What is counted of a row, a line or a document is an integer.
LEMMA ClearingFunctions ==
  /\ RowCost \in [ReceiptRow -> Int] /\ Weight \in [ReceiptRow -> Nat]
  /\ HasRow \in [DocumentLine -> Int] /\ FromCount \in [Document -> Int]
  /\ \A k : DebitedRow(k) \in [DocumentLine -> Int] /\ DebitedFrom(k) \in [Document -> Int]
  <1>1. \A r \in ReceiptRow : UnitCost(r.line) \in Nat
    BY RowFields, CostValue
  <1>2. ASSUME NEW r \in ReceiptRow PROVE (Held(r) - Gone(r)) * UnitCost(r.line) \in Int
    <2>1. Held(r) \in Int /\ Gone(r) \in Int
      BY RowFields DEF Held, Gone
    <2>2. Held(r) - Gone(r) \in Int /\ UnitCost(r.line) \in Int
      BY <1>1, <2>1
    <2> QED
      BY <2>2, Products
  <1>3. RowCost \in [ReceiptRow -> Int]
    BY <1>2 DEF RowCost
  <1>4. Weight \in [ReceiptRow -> Nat]
    BY <1>1 DEF Weight
  <1>5. HasRow \in [DocumentLine -> Int]
    BY DEF HasRow
  <1>6. \A k : DebitedRow(k) \in [DocumentLine -> Int]
    BY LineFields DEF DebitedRow
  <1>7. \A d \in Document : d.lines \in Seq(DocumentLine)
    BY DEF Document
  <1>8. \A d \in Document : Over(HasRow, d.lines) \in Int
    BY <1>5, <1>7, OverInt
  <1>9. FromCount \in [Document -> Int]
    BY <1>8 DEF FromCount
  <1>10. ASSUME NEW k PROVE DebitedFrom(k) \in [Document -> Int]
    <2>1. DebitedRow(k) \in [DocumentLine -> Int]
      BY <1>6
    <2>2. \A d \in Document : Over(DebitedRow(k), d.lines) \in Int
      BY <1>7, <2>1, OverInt
    <2> QED
      BY <2>2 DEF DebitedFrom
  <1> QED
    BY <1>3, <1>4, <1>5, <1>6, <1>9, <1>10

\* Weighed units are numbers and sum to one.
LEMMA WeighedInt ==
  ASSUME NEW rows \in Seq(ReceiptRow), NEW u, \A k \in DOMAIN rows : u[k] \in Int
  PROVE  /\ Weighed(rows, u) \in Seq(Int) /\ SeqSum(Weighed(rows, u)) \in Int
         /\ DOMAIN Weighed(rows, u) = DOMAIN rows
         /\ \A k \in DOMAIN rows : Weighed(rows, u)[k] = Weight[rows[k]] * u[k]
  <1> DEFINE v == [k \in DOMAIN rows |-> Weight[rows[k]] * u[k]]
  <1>1. \A k \in DOMAIN rows : rows[k] \in ReceiptRow
    OBVIOUS
  <1>2. \A k \in DOMAIN rows : Weight[rows[k]] * u[k] \in Int
    <2>1. \A k \in DOMAIN rows : Weight[rows[k]] \in Int
      BY <1>1, ClearingFunctions
    <2> QED
      BY <2>1, Products
  <1>3. v = [i \in DOMAIN rows |-> v[i]] /\ \A k \in DOMAIN rows : v[k] \in Int
    BY <1>2
  <1>4. /\ DOMAIN v = DOMAIN rows
        /\ \A k \in DOMAIN rows : v[k] = Weight[rows[k]] * u[k]
    OBVIOUS
  <1> HIDE DEF v
  <1>5. v \in Seq(Int) /\ SeqSum(v) \in Int
    BY <1>3, SumOfRow
  <1> QED
    BY <1>4, <1>5 DEF v, Weighed

\* The units debited and drawn of the rows are integers.
LEMMA UnitsInt ==
  /\ \A docs \in Seq(Document) : \A k : Over(DebitedFrom(k), docs) \in Int
  /\ \A ls \in Seq(DocumentLine) : \A k : Over(FromRow(k), ls) \in Int
  <1>1. ASSUME NEW docs \in Seq(Document), NEW k PROVE Over(DebitedFrom(k), docs) \in Int
    <2>1. DebitedFrom(k) \in [Document -> Int]
      BY ClearingFunctions
    <2> QED
      BY <2>1, OverInt
  <1>2. ASSUME NEW ls \in Seq(DocumentLine), NEW k PROVE Over(FromRow(k), ls) \in Int
    <2>1. FromRow(k) \in [DocumentLine -> Int]
      BY LineFunctions
    <2> QED
      BY <2>1, OverInt
  <1> QED
    BY <1>1, <1>2

\* What was debited and drawn has a cost.
LEMMA CostsInt ==
  ASSUME NEW rows \in Seq(ReceiptRow), NEW docs \in Seq(Document), NEW ls \in Seq(DocumentLine)
  PROVE  DebitedCost(rows, docs) \in Int /\ DrawnCost(rows, ls) \in Int
  <1>1. /\ \A k \in DOMAIN rows : DebitedUnits(rows, docs)[k] \in Int
        /\ \A k \in DOMAIN rows : DrawnUnits(rows, ls)[k] \in Int
    BY UnitsInt DEF DebitedUnits, DrawnUnits
  <1> QED
    BY <1>1, WeighedInt DEF DebitedCost, DrawnCost

(* Lines that draw from the rows, weighed by row, are weighed line by line. *)
LEMMA DrawnGroup ==
  ASSUME NEW ls \in Seq(DocumentLine), NEW n \in Nat, NEW c \in [1..n -> Int],
         \A i \in DOMAIN ls : ls[i].from \in {None} \cup (1..n)
  PROVE  SeqSum([k \in 1..n |-> c[k] * Over(FromRow(k), ls)])
           = SeqSum([i \in DOMAIN ls |-> IF ls[i].from = None THEN 0
                                         ELSE c[ls[i].from] * ls[i].qty])
  <1> DEFINE T == [at : Nat, qty : Nat]
             row(i) == [at |-> IF ls[i].from = None THEN n + 1 ELSE ls[i].from,
                        qty |-> ls[i].qty]
             request == [i \in DOMAIN ls |-> row(i)]
             e == [k \in 1..(n + 1) |-> IF k = n + 1 THEN 0 ELSE c[k]]
             u == [k \in 1..n |-> c[k] * Over(FromRow(k), ls)]
  <1>1. /\ DOMAIN ls = 1..Len(ls) /\ Len(ls) \in Nat
        /\ \A i \in DOMAIN ls : ls[i] \in DocumentLine
    OBVIOUS
  <1>2. \A i \in DOMAIN ls : ls[i].qty \in Nat
    BY <1>1, LineFields
  <1>3. None \notin Nat /\ n + 1 \in Nat
    BY PurchaseAssumption
  <1>4. ASSUME NEW i \in DOMAIN ls
        PROVE  /\ row(i) \in T /\ row(i).qty = ls[i].qty /\ row(i).at \in 1..(n + 1)
               /\ row(i).at = IF ls[i].from = None THEN n + 1 ELSE ls[i].from
               /\ row(i).at = n + 1 <=> ls[i].from = None
    BY <1>2, <1>3
  <1>5. request \in Seq(T) /\ DOMAIN request = DOMAIN ls
    <2>1. request \in [1..Len(ls) -> T]
      BY <1>1, <1>4
    <2> QED
      BY <1>1, <2>1, FunctionIsSeq
  <1>6. \A i \in DOMAIN request :
           /\ request[i].qty = ls[i].qty /\ request[i].qty \in Nat /\ request[i].at \in 1..(n + 1)
           /\ request[i].at = IF ls[i].from = None THEN n + 1 ELSE ls[i].from
           /\ request[i].at = n + 1 <=> ls[i].from = None
    BY <1>2, <1>4
  <1>7. e \in [1..(n + 1) -> Int] /\ e[n + 1] = 0 /\ \A k \in 1..n : e[k] = c[k]
    OBVIOUS
  <1> HIDE DEF request, row, T
  <1>8. SeqSum([k \in 1..(n + 1) |-> e[k] * Asked(request, k)])
          = SeqSum([i \in DOMAIN request |-> e[request[i].at] * request[i].qty])
    <2> HIDE DEF e
    <2> DEFINE m == n + 1
    <2>1. m \in Nat /\ e \in [1..m -> Int]
      BY <1>3, <1>7
    <2>2. \A i \in DOMAIN request : request[i].qty \in Nat /\ request[i].at \in 1..m
      BY <1>6
    <2> HIDE DEF m
    <2>3. SeqSum([k \in 1..m |-> e[k] * Asked(request, k)])
            = SeqSum([i \in DOMAIN request |-> e[request[i].at] * request[i].qty])
      BY <1>5, <2>1, <2>2, AskedGroup
    <2> QED
      BY <2>3 DEF m
  <1>9. [i \in DOMAIN request |-> e[request[i].at] * request[i].qty]
          = [i \in DOMAIN ls |-> IF ls[i].from = None THEN 0 ELSE c[ls[i].from] * ls[i].qty]
    <2> HIDE DEF e
    <2>1. ASSUME NEW i \in DOMAIN ls
          PROVE  e[request[i].at] * request[i].qty
                   = IF ls[i].from = None THEN 0 ELSE c[ls[i].from] * ls[i].qty
      <3>1. CASE ls[i].from = None
        <4>1. e[request[i].at] = 0 /\ request[i].qty \in Nat
          BY <1>5, <1>6, <1>7, <3>1
        <4>2. e[request[i].at] * request[i].qty = 0
          BY <4>1
        <4> QED
          BY <3>1, <4>2
      <3>2. CASE ls[i].from # None
        <4>1. request[i].at = ls[i].from /\ ls[i].from \in 1..n /\ request[i].qty = ls[i].qty
          BY <1>5, <1>6, <3>2
        <4> QED
          BY <1>7, <3>2, <4>1
      <3> QED
        BY <3>1, <3>2
    <2> QED
      BY <1>5, <2>1
  <1>10. ASSUME NEW k \in 1..n PROVE Asked(request, k) = Over(FromRow(k), ls)
    <2>1. \A i \in DOMAIN ls : request[i].at = k <=> ls[i].from = k
      BY <1>3, <1>5, <1>6
    <2>2. [i \in DOMAIN request |-> IF request[i].at = k THEN request[i].qty ELSE 0]
            = [i \in DOMAIN ls |-> FromRow(k)[ls[i]]]
      BY <1>1, <1>5, <1>6, <2>1 DEF FromRow
    <2> QED
      BY <2>2 DEF Over, Asked, SumWhere
  <1>11. u \in Seq(Int) /\ DOMAIN u = 1..n /\ Len(u) = n
    <2>1. \A k \in 1..n : c[k] \in Int /\ Over(FromRow(k), ls) \in Int
      BY UnitsInt
    <2>2. \A k \in 1..n : c[k] * Over(FromRow(k), ls) \in Int
      BY <2>1, Products
    <2>3. u \in [1..n -> Int]
      BY <2>2
    <2> QED
      BY <2>3, FunctionIsSeq
  <1>12. [k \in 1..(n + 1) |-> e[k] * Asked(request, k)] = Append(u, 0)
    <2>1. \A k \in 1..n : e[k] * Asked(request, k) = u[k]
      BY <1>7, <1>10
    <2>2. e[n + 1] * Asked(request, n + 1) = 0
      <3>1. Asked(request, n + 1) \in Nat
        BY <1>5, <1>6, AskedNat
      <3> QED
        BY <1>7, <3>1
    <2> HIDE DEF e, u
    <2>3. /\ DOMAIN Append(u, 0) = 1..(n + 1) /\ Append(u, 0)[n + 1] = 0
          /\ \A k \in 1..n : Append(u, 0)[k] = u[k]
      BY <1>11
    <2>5. Append(u, 0) = [k \in 1..(n + 1) |-> Append(u, 0)[k]]
      <3>1. Append(u, 0) \in Seq(Int) /\ DOMAIN Append(u, 0) = 1..(n + 1)
        BY <1>11, <2>3
      <3>2. \A s \in Seq(Int) : s = [k \in DOMAIN s |-> s[k]]
        OBVIOUS
      <3> QED
        BY <3>1, <3>2
    <2>4. \A k \in 1..(n + 1) : e[k] * Asked(request, k) = Append(u, 0)[k]
      <3>1. \A k \in 1..(n + 1) : k \in 1..n \/ k = n + 1
        OBVIOUS
      <3> QED
        BY <2>1, <2>2, <2>3, <3>1
    <2> QED
      BY <2>4, <2>5
  <1> HIDE DEF u, e
  <1>13. SeqSum(Append(u, 0)) = SeqSum(u)
    BY <1>11, SeqSumAppend, SeqSumInt
  <1> QED
    BY <1>8, <1>9, <1>12, <1>13 DEF u

(* What lines clear is worth the cost of what they draw, but for one rounding *)
(* for each line drawn from a receipt.                                        *)
LEMMA ClearedWorth ==
  ASSUME Sound, NEW ls \in Seq(DocumentLine), FromReceipts(ls), Matched(ls, receipts)
  PROVE  Near(Fine, Cleared(ls), DrawnCost(receipts, ls), Over(HasRow, ls))
  <1> DEFINE n == Len(receipts)
             c == [k \in 1..n |-> Weight[receipts[k]]]
             u == [i \in DOMAIN ls |-> ClearedAccrual(ls[i])]
             v == [i \in DOMAIN ls |-> IF ls[i].from = None THEN 0
                                       ELSE c[ls[i].from] * ls[i].qty]
             w == [i \in DOMAIN ls |-> HasRow[ls[i]]]
  <1>1. /\ Typed /\ receipts \in Seq(ReceiptRow) /\ DOMAIN receipts = 1..n /\ n \in Nat
        /\ \A k \in DOMAIN receipts : receipts[k] \in ReceiptRow
        /\ \A i \in DOMAIN ls : ls[i] \in DocumentLine
    BY Rows DEF Sound, Typed
  <1>2. \A i \in DOMAIN ls : ls[i].from \in {None} \cup DOMAIN receipts
    BY DEF FromReceipts
  <1>3. Fine \in Nat \ {0} /\ Fine \in Int
    BY PurchaseAssumption
  <1>4. \A k \in 1..n : c[k] = Weight[receipts[k]] /\ c[k] \in Int
    BY <1>1, ClearingFunctions
  <1>5. c \in [1..n -> Int]
    BY <1>4
  <1>6. DrawnCost(receipts, ls) = SeqSum(v)
    <2>1. Weighed(receipts, DrawnUnits(receipts, ls))
            = [k \in 1..n |-> c[k] * Over(FromRow(k), ls)]
      BY <1>1 DEF Weighed, DrawnUnits
    <2>2. \A i \in DOMAIN ls : ls[i].from \in {None} \cup (1..n)
      BY <1>1, <1>2
    <2> HIDE DEF c, n
    <2>3. n \in Nat
      BY <1>1
    <2>4. SeqSum([k \in 1..n |-> c[k] * Over(FromRow(k), ls)]) = SeqSum(v)
      BY <1>5, <2>2, <2>3, DrawnGroup
    <2> QED
      BY <2>1, <2>4 DEF DrawnCost
  <1>7. Near(Fine, 0, 0, 0) /\ Near(Fine, 0, 0, 1)
    <2>1. Fine * 0 = 0 /\ Fine * 1 = Fine
      BY <1>3
    <2> QED
      BY <1>3, <2>1 DEF Near
  <1>8. ASSUME NEW i \in DOMAIN ls
        PROVE  /\ Near(Fine, u[i], v[i], w[i])
               /\ u[i] \in Int /\ v[i] \in Int /\ w[i] \in Int
    <2> DEFINE x == ls[i]
               r == receipts[x.from]
    <2>1. x \in DocumentLine /\ x.qty \in Nat
      BY <1>1, LineFields
    <2>2. CASE x.from = None
      <3>1. u[i] = 0
        BY <2>2 DEF ClearedAccrual, Accrual
      <3>2. v[i] = 0 /\ w[i] = 0
        BY <2>1, <2>2 DEF HasRow
      <3> QED
        BY <1>7, <3>1, <3>2
    <2>3. CASE x.from # None
      <3>1. x.from \in DOMAIN receipts /\ r \in ReceiptRow /\ r.line = x.line
        BY <1>1, <1>2, <2>3 DEF Matched
      <3>2. w[i] = 1
        BY <2>1, <2>3 DEF HasRow
      <3>3. v[i] = Weight[r] * x.qty
        BY <1>1, <2>3, <3>1
      <3>4. CASE x.line \in Goods
        <4>1. u[i] = Booked(x.qty * UnitCost(r.line))
          BY <2>3, <3>4 DEF ClearedAccrual, Accrual
        <4>2. Weight[r] = UnitCost(r.line) /\ UnitCost(r.line) \in Nat
          BY <3>1, <3>4, RowFields, CostValue DEF Weight
        <4> HIDE DEF x, r, u, v, w
        <4> DEFINE t == UnitCost(r.line)
                   q == x.qty
        <4>3. t \in Nat /\ q \in Nat
          BY <2>1, <4>2
        <4>4. v[i] = t * q /\ u[i] = Booked(q * t)
          BY <3>3, <4>1, <4>2
        <4> HIDE DEF t, q
        <4>5. v[i] = q * t /\ q * t \in Int
          BY <4>3, <4>4, Products
        <4>6. HalfEven(q * t, Fine) \in Int /\ Near(Fine, HalfEven(q * t, Fine), q * t, 1)
          BY <1>3, <4>5, HalfEvenNear
        <4> QED
          BY <3>2, <4>4, <4>5, <4>6 DEF Booked
      <3>5. CASE x.line \notin Goods
        <4>1. u[i] = 0
          BY <3>5 DEF ClearedAccrual, Accrual
        <4>2. Weight[r] = 0
          BY <3>1, <3>5 DEF Weight
        <4>3. v[i] = 0
          <5> HIDE DEF v, x, r
          <5>1. v[i] = 0 * x.qty
            BY <3>3, <4>2
          <5> QED
            BY <2>1, <5>1
        <4> QED
          BY <1>7, <3>2, <4>1, <4>3
      <3> QED
        BY <3>4, <3>5
    <2> QED
      BY <2>2, <2>3
  <1>9. /\ u = [i \in DOMAIN ls |-> u[i]] /\ v = [i \in DOMAIN ls |-> v[i]]
        /\ w = [i \in DOMAIN ls |-> w[i]]
        /\ DOMAIN u = DOMAIN ls /\ DOMAIN v = DOMAIN ls /\ DOMAIN w = DOMAIN ls
    OBVIOUS
  <1>10. Cleared(ls) = SeqSum(u)
    BY DEF Cleared, SumWhere, Always
  <1>11. Over(HasRow, ls) = SeqSum(w)
    BY DEF Over
  <1> HIDE DEF u, v, w
  <1>12. u \in Seq(Int) /\ v \in Seq(Int) /\ w \in Seq(Int)
    BY <1>8, <1>9, SumOfRow
  <1>13. Near(Fine, SeqSum(u), SeqSum(v), SeqSum(w))
    BY <1>3, <1>8, <1>9, <1>12, NearSum
  <1> QED
    BY <1>6, <1>10, <1>11, <1>13

(* Rows with the same weights and the same debits have the same cost. *)
LEMMA SameDebitedCost ==
  ASSUME NEW rows, NEW docs, NEW rest, NEW later, DOMAIN rest = DOMAIN rows,
         \A k \in DOMAIN rows : /\ Weight[rest[k]] = Weight[rows[k]]
                                /\ Over(DebitedFrom(k), later) = Over(DebitedFrom(k), docs)
  PROVE  DebitedCost(rest, later) = DebitedCost(rows, docs)
  <1>1. Weighed(rest, DebitedUnits(rest, later)) = Weighed(rows, DebitedUnits(rows, docs))
    BY DEF Weighed, DebitedUnits
  <1> QED
    BY <1>1 DEF DebitedCost

\* Rows added at the end have no debits yet.
LEMMA DebitedConcat ==
  ASSUME NEW old \in Seq(ReceiptRow), NEW new \in Seq(ReceiptRow), NEW docs \in Seq(Document),
         \A k \in DOMAIN (old \o new) \ DOMAIN old : Over(DebitedFrom(k), docs) = 0
  PROVE  DebitedCost(old \o new, docs) = DebitedCost(old, docs)
  <1> DEFINE rows == old \o new
             u == Weighed(old, DebitedUnits(old, docs))
             z == [i \in DOMAIN new |-> 0]
             v == Weighed(rows, DebitedUnits(rows, docs))
  <1>1. /\ rows \in Seq(ReceiptRow) /\ DOMAIN old = 1..Len(old) /\ DOMAIN new = 1..Len(new)
        /\ Len(old) \in Nat /\ Len(new) \in Nat /\ DOMAIN rows = 1..(Len(old) + Len(new))
        /\ \A k \in DOMAIN old : rows[k] = old[k]
        /\ \A k \in DOMAIN rows : rows[k] \in ReceiptRow
    OBVIOUS
  <1> HIDE DEF rows
  <1>2. /\ u \in Seq(Int) /\ DOMAIN u = DOMAIN old
        /\ \A k \in DOMAIN old : u[k] = Weight[old[k]] * Over(DebitedFrom(k), docs)
    <2>1. \A k \in DOMAIN old : DebitedUnits(old, docs)[k] \in Int
      BY UnitsInt DEF DebitedUnits
    <2> QED
      BY <2>1, WeighedInt DEF DebitedUnits
  <1>3. /\ v \in Seq(Int) /\ DOMAIN v = DOMAIN rows
        /\ \A k \in DOMAIN rows : v[k] = Weight[rows[k]] * Over(DebitedFrom(k), docs)
    <2>1. \A k \in DOMAIN rows : DebitedUnits(rows, docs)[k] \in Int
      BY UnitsInt DEF DebitedUnits
    <2> QED
      BY <1>1, <2>1, WeighedInt DEF DebitedUnits
  <1>4. z \in Seq(Int) /\ SeqSum(z) = 0 /\ DOMAIN z = DOMAIN new /\ \A i \in DOMAIN new : z[i] = 0
    <2>1. z \in [1..Len(new) -> Int]
      BY <1>1
    <2>2. z \in Seq(Int)
      BY <1>1, <2>1, FunctionIsSeq
    <2>3. DOMAIN z = DOMAIN new /\ \A i \in DOMAIN new : z[i] = 0
      OBVIOUS
    <2> HIDE DEF z
    <2> QED
      BY <2>2, <2>3, SeqSumZero
  <1> HIDE DEF u, v, z
  <1>5. ASSUME NEW k \in DOMAIN rows
        PROVE  v[k] = IF k \in DOMAIN old THEN u[k] ELSE 0
    <2>1. CASE k \in DOMAIN old
      BY <1>1, <1>2, <1>3, <2>1
    <2>2. CASE k \notin DOMAIN old
      <3>1. Over(DebitedFrom(k), docs) = 0
        BY <2>2 DEF rows
      <3>2. Weight[rows[k]] \in Nat
        BY <1>1, ClearingFunctions
      <3>3. v[k] = Weight[rows[k]] * 0
        BY <1>3, <3>1
      <3> QED
        BY <2>2, <3>2, <3>3
    <2> QED
      BY <2>1, <2>2
  <1>6. u \o z \in Seq(Int) /\ DOMAIN (u \o z) = DOMAIN rows
        /\ \A k \in DOMAIN rows : (u \o z)[k] = IF k \in DOMAIN old THEN u[k] ELSE 0
    <2>1. Len(u) = Len(old) /\ Len(z) = Len(new)
      BY <1>1, <1>2, <1>4
    <2>2. u \o z \in Seq(Int) /\ DOMAIN (u \o z) = 1..(Len(old) + Len(new))
      BY <1>2, <1>4, <2>1
    <2>3. ASSUME NEW k \in DOMAIN rows
          PROVE  (u \o z)[k] = IF k \in DOMAIN old THEN u[k] ELSE 0
      <3>1. CASE k \in DOMAIN old
        BY <1>1, <1>2, <1>4, <2>1, <3>1
      <3>2. CASE k \notin DOMAIN old
        <4>1. k - Len(old) \in DOMAIN new /\ (u \o z)[k] = z[k - Len(old)]
          BY <1>1, <1>2, <1>4, <2>1, <3>2
        <4> QED
          BY <1>4, <3>2, <4>1
      <3> QED
        BY <3>1, <3>2
    <2> QED
      BY <1>1, <2>2, <2>3
  <1>7. SeqSum(v) = SeqSum(u \o z)
    BY <1>3, <1>5, <1>6, SeqSumEqual
  <1>8. SeqSum(u \o z) = SeqSum(u) + SeqSum(z) /\ SeqSum(u) \in Int
    BY <1>2, <1>4, SeqSumConcat, SeqSumInt
  <1>9. SeqSum(v) = SeqSum(u)
    BY <1>4, <1>7, <1>8
  <1> QED
    BY <1>9 DEF DebitedCost, u, v, rows

\* Debits that grow by what lines draw cost what the lines draw more.
LEMMA DebitedGrows ==
  ASSUME NEW rows \in Seq(ReceiptRow), NEW docs \in Seq(Document), NEW rest \in Seq(Document),
         NEW ls \in Seq(DocumentLine),
         \A k \in DOMAIN rows :
            Over(DebitedFrom(k), rest) = Over(DebitedFrom(k), docs) + Over(FromRow(k), ls)
  PROVE  DebitedCost(rows, rest) = DebitedCost(rows, docs) + DrawnCost(rows, ls)
  <1> DEFINE u == Weighed(rows, DebitedUnits(rows, docs))
             v == Weighed(rows, DrawnUnits(rows, ls))
             t == Weighed(rows, DebitedUnits(rows, rest))
  <1>1. /\ \A k \in DOMAIN rows : DebitedUnits(rows, docs)[k] \in Int
        /\ \A k \in DOMAIN rows : DebitedUnits(rows, rest)[k] \in Int
        /\ \A k \in DOMAIN rows : DrawnUnits(rows, ls)[k] \in Int
    BY UnitsInt DEF DebitedUnits, DrawnUnits
  <1>2. /\ u \in Seq(Int) /\ DOMAIN u = DOMAIN rows
        /\ \A k \in DOMAIN rows : u[k] = Weight[rows[k]] * Over(DebitedFrom(k), docs)
    <2>1. /\ u \in Seq(Int) /\ DOMAIN u = DOMAIN rows
          /\ \A k \in DOMAIN rows : u[k] = Weight[rows[k]] * DebitedUnits(rows, docs)[k]
      BY <1>1, WeighedInt
    <2> HIDE DEF u
    <2> QED
      BY <2>1 DEF DebitedUnits
  <1>3. /\ t \in Seq(Int) /\ DOMAIN t = DOMAIN rows
        /\ \A k \in DOMAIN rows : t[k] = Weight[rows[k]] * Over(DebitedFrom(k), rest)
    BY <1>1, WeighedInt DEF DebitedUnits
  <1>4. /\ v \in Seq(Int) /\ DOMAIN v = DOMAIN rows
        /\ \A k \in DOMAIN rows : v[k] = Weight[rows[k]] * Over(FromRow(k), ls)
    BY <1>1, WeighedInt DEF DrawnUnits
  <1> HIDE DEF u, v, t
  <1>5. ASSUME NEW k \in DOMAIN rows PROVE t[k] = u[k] + v[k]
    <2>1. /\ Weight[rows[k]] \in Int /\ Over(DebitedFrom(k), docs) \in Int
          /\ Over(FromRow(k), ls) \in Int
      BY ClearingFunctions, UnitsInt
    <2>2. \A a, b, c \in Int : a * (b + c) = a * b + a * c
      OBVIOUS
    <2>3. t[k] = Weight[rows[k]] * (Over(DebitedFrom(k), docs) + Over(FromRow(k), ls))
      BY <1>3
    <2> QED
      BY <1>2, <1>4, <2>1, <2>2, <2>3
  <1>6. SeqSum(t) = SeqSum(u) + SeqSum(v)
    BY <1>2, <1>3, <1>4, <1>5, SeqSumPlus
  <1> QED
    BY <1>6 DEF u, v, t, DebitedCost, DrawnCost

\* Nothing is debited from a row that is not there yet.
LEMMA NothingDebitedAhead ==
  ASSUME Sound, NEW k \in Nat, k \notin DOMAIN receipts
  PROVE  Over(DebitedFrom(k), invoices) = 0
  <1>1. /\ Typed /\ invoices \in Seq(Document)
        /\ \A m \in DOMAIN invoices : invoices[m] \in Document
    BY Rows DEF Sound, Typed
  <1>2. None # k
    BY PurchaseAssumption
  <1>3. ASSUME NEW m \in DOMAIN invoices PROVE DebitedFrom(k)[invoices[m]] = 0
    <2>1. /\ invoices[m].lines \in Seq(DocumentLine)
          /\ \A j \in DOMAIN invoices[m].lines : invoices[m].lines[j] \in DocumentLine
      BY <1>1 DEF Document
    <2>2. \A j \in DOMAIN invoices[m].lines : invoices[m].lines[j].from # k
      BY <1>2 DEF Sound, DocumentsSound, FromReceipts
    <2>3. \A j \in DOMAIN invoices[m].lines : DebitedRow(k)[invoices[m].lines[j]] = 0
      BY <2>1, <2>2 DEF DebitedRow
    <2>4. Over(DebitedRow(k), invoices[m].lines) = 0
      BY <2>1, <2>3, ClearingFunctions, OverZero
    <2> QED
      BY <1>1, <2>4 DEF DebitedFrom
  <1> QED
    BY <1>1, <1>3, ClearingFunctions, OverZero

\* What is summed up is a number.
LEMMA ClearingInt ==
  ASSUME Typed
  PROVE  /\ Over(RowCost, receipts) \in Int /\ DebitedCost(receipts, invoices) \in Int
         /\ Unbilled \in Int /\ Over(FromCount, invoices) \in Int
         /\ gl.grni \in Int /\ Fine \in Int
  <1>1. receipts \in Seq(ReceiptRow) /\ invoices \in Seq(Document)
    BY DEF Typed
  <1>2. Over(RowCost, receipts) \in Int /\ Over(FromCount, invoices) \in Int
    BY <1>1, ClearingFunctions, OverInt
  <1>3. DebitedCost(receipts, invoices) \in Int
    <2>1. <<>> \in Seq(DocumentLine)
      OBVIOUS
    <2> QED
      BY <1>1, <2>1, CostsInt
  <1> QED
    BY <1>2, <1>3, Balances, PurchaseAssumption DEF Unbilled

\* The receipts and returns so far are numbered, with a number to spare.
LEMMA DocsCount ==
  ASSUME Sound
  PROVE  /\ IsFiniteSet(ReceiptDocs) /\ Cardinality(ReceiptDocs) \in Nat
         /\ Len(receipts) + 1 \notin ReceiptDocs
  <1>1. /\ DOMAIN receipts = 1..Len(receipts) /\ Len(receipts) \in Nat
        /\ \A k \in DOMAIN receipts : receipts[k].doc \in Nat /\ receipts[k].doc >= 1
                                      /\ receipts[k].doc <= k
    BY Rows, RowFields DEF Sound, ReceiptsSound
  <1>2. ReceiptDocs \in SUBSET (1..Len(receipts))
    BY <1>1 DEF ReceiptDocs
  <1>3. IsFiniteSet(1..Len(receipts))
    BY <1>1, FS_Interval
  <1>4. IsFiniteSet(ReceiptDocs)
    BY <1>2, <1>3, FS_Subset
  <1>5. Cardinality(ReceiptDocs) \in Nat
    BY <1>4, FS_CardinalityType
  <1>6. Len(receipts) + 1 \notin 1..Len(receipts)
    BY <1>1
  <1> QED
    BY <1>2, <1>4, <1>5, <1>6

\* What a receipt or a return adds is one document, if it adds anything.
LEMMA DocsGrow ==
  ASSUME Sound, NEW old \in Seq(ReceiptRow), NEW new \in Seq(ReceiptRow),
         receipts' = old \o new, DOMAIN old = DOMAIN receipts,
         \A k \in DOMAIN receipts : old[k].doc = receipts[k].doc,
         NEW kind, NewRows(kind, new)
  PROVE  Cardinality(ReceiptDocs') = Cardinality(ReceiptDocs) + (IF new = <<>> THEN 0 ELSE 1)
  <1> DEFINE n == Len(receipts) + 1
  <1>1. /\ DOMAIN old = 1..Len(old) /\ Len(old) \in Nat /\ DOMAIN new = 1..Len(new)
        /\ Len(new) \in Nat /\ DOMAIN receipts' = 1..(Len(old) + Len(new))
        /\ \A k \in DOMAIN old : receipts'[k] = old[k]
        /\ \A i \in DOMAIN new : /\ Len(old) + i \in DOMAIN receipts'
                                 /\ receipts'[Len(old) + i] = new[i]
    OBVIOUS
  <1>6. ASSUME NEW k \in DOMAIN receipts'
        PROVE  k \in DOMAIN old \/ (k - Len(old) \in DOMAIN new /\ receipts'[k] = new[k - Len(old)])
    <2>1. CASE k <= Len(old)
      BY <1>1, <2>1
    <2>2. CASE k > Len(old)
      BY <1>1, <2>2
    <2> QED
      BY <1>1, <2>1, <2>2
  <1>2. \A i \in DOMAIN new : new[i].doc = n
    BY DEF NewRows
  <1>3. ReceiptDocs' = {receipts'[k].doc : k \in DOMAIN receipts'}
    BY DEF ReceiptDocs
  <1>4. CASE new = <<>>
    <2>1. ReceiptDocs' = ReceiptDocs
      <3>1. DOMAIN receipts' = DOMAIN receipts
        BY <1>1, <1>4
      <3>2. \A k \in DOMAIN receipts : receipts'[k].doc = receipts[k].doc
        BY <1>1
      <3> QED
        BY <1>3, <3>1, <3>2 DEF ReceiptDocs
    <2> QED
      BY <1>4, <2>1, DocsCount
  <1>5. CASE new # <<>>
    <2>1. 1 \in DOMAIN new
      BY <1>1, <1>5
    <2>2. n \in ReceiptDocs'
      BY <1>1, <1>2, <1>3, <2>1
    <2> HIDE DEF n
    <2>3. ReceiptDocs \subseteq ReceiptDocs'
      BY <1>1, <1>3 DEF ReceiptDocs
    <2>4. ReceiptDocs' \subseteq ReceiptDocs \cup {n}
      BY <1>1, <1>2, <1>3, <1>6 DEF ReceiptDocs
    <2>5. ReceiptDocs' = ReceiptDocs \cup {n}
      BY <2>2, <2>3, <2>4
    <2>6. n \notin ReceiptDocs /\ IsFiniteSet(ReceiptDocs)
      BY DocsCount DEF n
    <2> QED
      BY <1>5, <2>5, <2>6, FS_AddElement
  <1> QED
    BY <1>4, <1>5

(* Rows that keep their lines and rows added after them leave what is debited *)
(* as it was: the account moves by what the rows become and add.              *)
LEMMA RowsPosted ==
  ASSUME Sound, ClearingCounted, invoices' = invoices,
         NEW old \in Seq(ReceiptRow), NEW new \in Seq(ReceiptRow), receipts' = old \o new,
         DOMAIN old = DOMAIN receipts,
         \A k \in DOMAIN receipts : /\ old[k].doc = receipts[k].doc
                                    /\ old[k].line = receipts[k].line,
         NEW kind, NewRows(kind, new), NEW x \in Int, NEW c \in Int,
         Over(RowCost, old) + Over(RowCost, new) = Over(RowCost, receipts) + c,
         gl'.grni = gl.grni - x, Near(Fine, x, c, 1), new = <<>> => x = 0 /\ c = 0
  PROVE  ClearingCounted'
  <1>1. /\ Typed /\ receipts \in Seq(ReceiptRow) /\ invoices \in Seq(Document)
        /\ \A k \in DOMAIN receipts : receipts[k] \in ReceiptRow /\ old[k] \in ReceiptRow
        /\ DOMAIN (old \o new) = 1..(Len(old) + Len(new)) /\ DOMAIN old = 1..Len(old)
        /\ Len(old) \in Nat /\ Len(new) \in Nat
        /\ \A k \in DOMAIN old : receipts'[k] = old[k]
    BY Rows DEF Sound, Typed
  <1>2. LinesMatched'
    <2>1. ASSUME NEW m \in DOMAIN invoices PROVE Matched(invoices[m].lines, receipts')
      <3>1. Matched(invoices[m].lines, receipts) /\ FromReceipts(invoices[m].lines)
        BY DEF ClearingCounted, LinesMatched, Sound, DocumentsSound
      <3> QED
        BY <1>1, <3>1 DEF Matched, FromReceipts
    <2> QED
      BY <2>1 DEF LinesMatched
  <1>3. DebitedCost(receipts', invoices') = DebitedCost(receipts, invoices)
    <2>1. \A k \in DOMAIN (old \o new) \ DOMAIN old : Over(DebitedFrom(k), invoices) = 0
      BY <1>1, NothingDebitedAhead
    <2>2. DebitedCost(old \o new, invoices) = DebitedCost(old, invoices)
      BY <1>1, <2>1, DebitedConcat
    <2>3. \A k \in DOMAIN receipts : Weight[old[k]] = Weight[receipts[k]]
      BY <1>1 DEF Weight
    <2>4. DebitedCost(old, invoices) = DebitedCost(receipts, invoices)
      BY <2>3, SameDebitedCost
    <2> QED
      BY <2>2, <2>4
  <1>4. Over(RowCost, receipts') = Over(RowCost, old) + Over(RowCost, new)
    BY ClearingFunctions, OverConcat
  <1>5. Unbilled' = Unbilled + c
    <2>1. Unbilled' = Over(RowCost, receipts') + DebitedCost(receipts', invoices')
      BY DEF Unbilled
    <2>2. Unbilled' = (Over(RowCost, receipts) + c) + DebitedCost(receipts, invoices)
      BY <1>3, <1>4, <2>1
    <2> QED
      BY <1>1, <2>2, ClearingInt DEF Unbilled
  <1> DEFINE e == IF new = <<>> THEN 0 ELSE 1
  <1>6. ClearingRoundings' = ClearingRoundings + e /\ ClearingRoundings \in Int
    <2>1. Cardinality(ReceiptDocs') = Cardinality(ReceiptDocs) + e
      BY DocsGrow
    <2>2. Cardinality(ReceiptDocs) \in Int /\ Over(FromCount, invoices) \in Int
      BY <1>1, DocsCount, ClearingInt
    <2>3. ClearingRoundings' = Cardinality(ReceiptDocs') + Over(FromCount, invoices)
      BY DEF ClearingRoundings
    <2> QED
      BY <2>1, <2>2, <2>3 DEF ClearingRoundings
  <1>7. Near(Fine, x, c, e)
    <2>1. Fine \in Int /\ Fine * 0 = 0
      BY PurchaseAssumption
    <2> QED
      BY <2>1 DEF Near
  <1>8. Near(Fine, -gl.grni + x, Unbilled + c, ClearingRoundings + e)
    <2>1. Near(Fine, -gl.grni, Unbilled, ClearingRoundings)
      BY DEF ClearingCounted
    <2>2. -gl.grni \in Int /\ Unbilled \in Int /\ e \in Int /\ Fine \in Int
      BY <1>1, ClearingInt
    <2> HIDE DEF e
    <2> QED
      BY <1>6, <1>7, <2>1, <2>2, NearAdds
  <1>9. -gl'.grni = -gl.grni + x
    BY <1>1, ClearingInt
  <1> QED
    BY <1>2, <1>5, <1>6, <1>8, <1>9 DEF ClearingCounted

\* The cost of rows that arrived, or were sent back, as they are counted.
LEMMA NewRowsCost ==
  ASSUME NEW new \in Seq(ReceiptRow), NEW kind, NewRows(kind, new)
  PROVE  /\ kind = "Receipt" => Over(RowCost, new) = GoodsCost(new)
         /\ kind = "Return" => Over(RowCost, new) = 0
  <1>1. ASSUME NEW i \in DOMAIN new
        PROVE  /\ kind = "Receipt" => RowCost[new[i]] = IF new[i].line \in Goods
                                         THEN Quantity(new[i]) * UnitCost(new[i].line) ELSE 0
               /\ kind = "Return" => RowCost[new[i]] = 0
    <2> DEFINE r == new[i]
    <2>1. r \in ReceiptRow /\ r.kind = kind /\ r.billed = 0 /\ Gone(r) = 0
      BY DEF NewRows, Gone
    <2> HIDE DEF r
    <2>2. UnitCost(r.line) \in Nat /\ Quantity(r) \in Nat
      BY <2>1, CostValue, RowFields
    <2>3. RowCost[r] = (Held(r) - 0) * UnitCost(r.line)
      BY <2>1 DEF RowCost
    <2>4. /\ kind = "Receipt" => Held(r) = IF r.line \in Goods THEN Quantity(r) ELSE 0
          /\ kind = "Return" => Held(r) = 0
      BY <2>1, <2>2 DEF Held
    <2>5. \A u \in Nat : (0 - 0) * u = 0 /\ \A q \in Nat : (q - 0) * u = q * u
      OBVIOUS
    <2> QED
      BY <2>2, <2>3, <2>4, <2>5 DEF r
  <1>2. ASSUME kind = "Receipt" PROVE Over(RowCost, new) = GoodsCost(new)
    <2>1. [i \in DOMAIN new |-> RowCost[new[i]]] = [i \in DOMAIN new |->
             IF new[i].line \in Goods THEN Quantity(new[i]) * UnitCost(new[i].line) ELSE 0]
      BY <1>1, <1>2
    <2> QED
      BY <2>1 DEF Over, GoodsCost, SumWhere
  <1>3. ASSUME kind = "Return" PROVE Over(RowCost, new) = 0
    BY <1>1, <1>3, ClearingFunctions, OverZero
  <1> QED
    BY <1>2, <1>3

\* A receipt owes what its goods cost.
LEMMA ReceiveCleared ==
  ASSUME Sound, ClearingCounted, NEW request \in Seq(Arrival), ReceiveLines(request)
  PROVE  ClearingCounted'
  <1>1. Typed /\ receipts \in Seq(ReceiptRow) /\ Fine \in Nat \ {0}
    BY PurchaseAssumption DEF Sound, Typed
  <1>2. PICK new \in Seq(ReceiptRow) : ReceivePosts(request, new)
    BY ReceiveVoucher
  <1> DEFINE c == GoodsCost(new)
             x == Booked(c)
  <1>3. /\ NewRows("Receipt", new) /\ receipts' = receipts \o new
        /\ x \in Int /\ gl'.grni = gl.grni - x
    BY <1>2 DEF ReceivePosts, Arrived
  <1>4. c \in Int /\ Over(RowCost, new) = c
    BY <1>3, NewRowsCost, GoodsCostNat
  <1>5. Near(Fine, x, c, 1)
    <2> HIDE DEF c
    <2>1. Near(Fine, HalfEven(c, Fine), c, 1)
      BY <1>1, <1>4, HalfEvenNear
    <2> QED
      BY <2>1 DEF Booked
  <1>6. new = <<>> => x = 0 /\ c = 0
    <2>1. Over(RowCost, <<>>) = 0 /\ Booked(0) = 0
      BY OverEmpty, CostValue
    <2> HIDE DEF c
    <2> QED
      BY <1>4, <2>1
  <1>7. Over(RowCost, receipts) + Over(RowCost, new) = Over(RowCost, receipts) + c
    BY <1>4
  <1>8. invoices' = invoices
    BY DEF ReceiveLines
  <1> HIDE DEF c, x
  <1> QED
    BY <1>1, <1>3, <1>4, <1>5, <1>6, <1>7, <1>8, RowsPosted

\* What a request asks of a row is what it takes of its two parts.
LEMMA AskedTaken ==
  ASSUME NEW S, NEW request \in Seq(Back(S)), NEW k
  PROVE  /\ Asked(request, k) = Taken(request, k, FALSE) + Taken(request, k, TRUE)
         /\ Asked(request, k) \in Nat
  <1> DEFINE a == AcceptedHalf(request)
             b == RejectedHalf(request)
             u == [i \in DOMAIN request |-> IF request[i].at = k THEN request[i].qty ELSE 0]
             v == [i \in DOMAIN request |-> IF request[i].at = k THEN a[i].qty ELSE 0]
             w == [i \in DOMAIN request |-> IF request[i].at = k THEN b[i].qty ELSE 0]
  <1>1. /\ DOMAIN request = 1..Len(request) /\ Len(request) \in Nat
        /\ \A i \in DOMAIN request : /\ request[i].at \in S /\ request[i].qty \in Nat \ {0}
                                     /\ request[i].rejected \in BOOLEAN
    BY Returning
  <1>2. /\ DOMAIN a = DOMAIN request /\ DOMAIN b = DOMAIN request
        /\ \A i \in DOMAIN request :
              /\ a[i].at = request[i].at /\ a[i].qty = AcceptedPart(request[i])
              /\ b[i].at = request[i].at /\ b[i].qty = RejectedPart(request[i])
    BY DEF AcceptedHalf, RejectedHalf
  <1> HIDE DEF a, b
  <1>3. \A i \in DOMAIN request : /\ a[i].qty \in Nat /\ b[i].qty \in Nat
                                  /\ request[i].qty = a[i].qty + b[i].qty
    BY <1>1, <1>2 DEF AcceptedPart, RejectedPart
  <1>4. /\ \A i \in DOMAIN request : /\ u[i] \in Nat /\ v[i] \in Nat /\ w[i] \in Nat
                                     /\ u[i] = v[i] + w[i]
        /\ DOMAIN u = DOMAIN request /\ DOMAIN v = DOMAIN request /\ DOMAIN w = DOMAIN request
        /\ u = [i \in DOMAIN request |-> u[i]] /\ v = [i \in DOMAIN request |-> v[i]]
        /\ w = [i \in DOMAIN request |-> w[i]]
    BY <1>1, <1>3
  <1>5. Asked(request, k) = SeqSum(u)
    BY DEF Asked, SumWhere
  <1>6. Asked(a, k) = SeqSum(v) /\ Asked(b, k) = SeqSum(w)
    <2>1. /\ [i \in DOMAIN a |-> IF a[i].at = k THEN a[i].qty ELSE 0] = v
          /\ [i \in DOMAIN b |-> IF b[i].at = k THEN b[i].qty ELSE 0] = w
      BY <1>2
    <2> QED
      BY <2>1 DEF Asked, SumWhere
  <1> HIDE DEF u, v, w
  <1>7. /\ u \in Seq(Nat) /\ v \in Seq(Nat) /\ w \in Seq(Nat)
        /\ SeqSum(u) \in Nat
    BY <1>4, SumOfRow
  <1>8. u \in Seq(Int) /\ v \in Seq(Int) /\ w \in Seq(Int)
    BY <1>4, SumOfRow
  <1>9. SeqSum(u) = SeqSum(v) + SeqSum(w)
    BY <1>4, <1>8, SeqSumPlus
  <1>10. Taken(request, k, FALSE) = Asked(a, k) /\ Taken(request, k, TRUE) = Asked(b, k)
    BY Halves DEF a, b
  <1>11. Asked(request, k) = Asked(a, k) + Asked(b, k)
    BY <1>5, <1>6, <1>9
  <1> QED
    BY <1>5, <1>7, <1>10, <1>11, Zenon

\* What a return takes from the rows costs what it sends back.
LEMMA TakenCost ==
  ASSUME Typed, NEW request \in Seq(Back(DOMAIN receipts)), NEW old \in Seq(ReceiptRow),
         NEW new \in Seq(ReceiptRow), TakenFrom(request, old), SentBack(request, new)
  PROVE  LET v == SumWhere(new, Always, LAMBDA r : Quantity(r) * UnitCost(r.line))
         IN  v \in Int /\ Over(RowCost, receipts) = Over(RowCost, old) + v
  <1> DEFINE n == Len(receipts)
             c == [k \in 1..n |-> UnitCost(receipts[k].line)]
             d == [k \in 1..n |-> c[k] * Asked(request, k)]
             t == [i \in DOMAIN request |-> c[request[i].at] * request[i].qty]
             v == SumWhere(new, Always, LAMBDA r : Quantity(r) * UnitCost(r.line))
  <1>1. /\ receipts \in Seq(ReceiptRow) /\ DOMAIN receipts = 1..n /\ n \in Nat
        /\ \A k \in DOMAIN receipts : receipts[k] \in ReceiptRow /\ old[k] \in ReceiptRow
        /\ DOMAIN old = DOMAIN receipts
    BY Rows DEF Typed, TakenFrom
  <1>2. \A i \in DOMAIN request : request[i].at \in 1..n /\ request[i].qty \in Nat
    BY <1>1, Returning
  <1>3. c \in [1..n -> Int] /\ \A k \in 1..n : c[k] = UnitCost(receipts[k].line) /\ c[k] \in Nat
    <2>1. \A k \in 1..n : UnitCost(receipts[k].line) \in Nat
      BY <1>1, RowFields, CostValue
    <2> QED
      BY <2>1
  <1>4. \A k : Asked(request, k) \in Nat
    BY AskedTaken
  <1>5. \A k \in 1..n : d[k] = c[k] * Asked(request, k) /\ d[k] \in Int
    <2>1. \A k \in 1..n : c[k] * Asked(request, k) \in Int
      BY <1>3, <1>4, Products
    <2> QED
      BY <2>1
  <1>6. t = [i \in DOMAIN new |-> IF Always(new[i])
                                  THEN Quantity(new[i]) * UnitCost(new[i].line) ELSE 0]
    <2> HIDE DEF c
    <2>1. ASSUME NEW i \in DOMAIN request
          PROVE  c[request[i].at] * request[i].qty = Quantity(new[i]) * UnitCost(new[i].line)
      <3>1. /\ c[request[i].at] = UnitCost(new[i].line) /\ request[i].qty = Quantity(new[i])
            /\ c[request[i].at] \in Nat /\ request[i].qty \in Nat
        BY <1>2, <1>3 DEF SentBack
      <3>2. \A a, b \in Nat : a * b = b * a
        OBVIOUS
      <3> QED
        BY <3>1, <3>2
    <2> QED
      BY <2>1 DEF SentBack, Always
  <1>7. v = SeqSum(t)
    BY <1>6 DEF SumWhere
  <1>8. SeqSum(d) = SeqSum(t)
    <2> HIDE DEF c
    <2>1. n \in Nat /\ c \in [1..n -> Int]
          /\ \A i \in DOMAIN request : request[i].qty \in Nat /\ request[i].at \in 1..n
      BY <1>1, <1>2, <1>3
    <2> HIDE DEF n
    <2> QED
      BY <2>1, AskedGroup
  <1> HIDE DEF t, v, c
  <1>9. ASSUME NEW k \in 1..n PROVE RowCost[receipts[k]] = RowCost[old[k]] + d[k]
    <2> DEFINE r == receipts[k]
               s == old[k]
    <2>1. /\ r \in ReceiptRow /\ s \in ReceiptRow
          /\ s.line = r.line /\ s.kind = r.kind /\ s.billed = r.billed
          /\ s.accepted = r.accepted /\ s.rejected = r.rejected
      BY <1>1 DEF TakenFrom
    <2>2. Gone(s) = Gone(r) + Asked(request, k)
      <3>1. PICK a \in Nat, b \in Nat :
                a = Taken(request, k, FALSE) /\ b = Taken(request, k, TRUE)
        BY Returning, Zenon
      <3>2. s.acceptedReturned = r.acceptedReturned + a /\ s.rejectedReturned = r.rejectedReturned + b
        <4>1. /\ s.acceptedReturned = r.acceptedReturned + Taken(request, k, FALSE)
              /\ s.rejectedReturned = r.rejectedReturned + Taken(request, k, TRUE)
          BY <1>1 DEF TakenFrom
        <4> QED
          BY <3>1, <4>1, Zenon
      <3>3. Asked(request, k) = a + b
        BY <3>1, AskedTaken, Zenon
      <3>4. r.acceptedReturned \in Nat /\ r.rejectedReturned \in Nat
        BY <2>1, RowFields
      <3> HIDE DEF r, s
      <3> QED
        BY <3>2, <3>3, <3>4 DEF Gone
    <2>3. c[k] = UnitCost(r.line) /\ c[k] \in Int /\ Asked(request, k) \in Int
      BY <1>3, <1>4
    <2> HIDE DEF r, s, n
    <2>4. Held(s) = Held(r) /\ Held(r) \in Int /\ Gone(r) \in Int
      BY <2>1, RowFields DEF Held, Quantity, Gone
    <2>5. RowCost[r] = (Held(r) - Gone(r)) * c[k] /\ RowCost[s] = (Held(s) - Gone(s)) * c[k]
      BY <2>1, <2>3 DEF RowCost
    <2>6. \A h, g, a, u \in Int : (h - g) * u = (h - (g + a)) * u + u * a
      OBVIOUS
    <2>7. RowCost[r] = RowCost[s] + c[k] * Asked(request, k)
      BY <2>2, <2>3, <2>4, <2>5, <2>6
    <2> QED
      BY <1>5, <2>7 DEF r, s
  <1>10. Over(RowCost, receipts) = Over(RowCost, old) + SeqSum([k \in DOMAIN old |-> d[k]])
    <2> HIDE DEF d
    <2>1. Shifted(ReceiptRow, RowCost, old, receipts, d)
      BY <1>1, <1>5, <1>9, ClearingFunctions DEF Shifted
    <2> QED
      BY <2>1, OverAdd
  <1>11. [k \in DOMAIN old |-> d[k]] = d
    BY <1>1
  <1>12. SeqSum(d) \in Int
    <2>1. d \in [1..n -> Int]
      BY <1>5
    <2> HIDE DEF d, n
    <2>2. d \in Seq(Int)
      BY <1>1, <2>1, FunctionIsSeq DEF n
    <2> QED
      BY <2>2, SeqSumInt
  <1> HIDE DEF d
  <1>13. v \in Int /\ Over(RowCost, receipts) = Over(RowCost, old) + v
    BY <1>7, <1>8, <1>10, <1>11, <1>12
  <1> QED
    BY <1>13 DEF v

\* A return no longer owes what it sends back.
LEMMA ReturnCleared ==
  ASSUME Sound, ClearingCounted, NEW request \in Seq(Back(DOMAIN receipts)), ReturnLines(request)
  PROVE  ClearingCounted'
  <1>1. Typed /\ receipts \in Seq(ReceiptRow) /\ Fine \in Nat \ {0}
    BY PurchaseAssumption DEF Sound, Typed
  <1>2. PICK old \in Seq(ReceiptRow), new \in Seq(ReceiptRow) : ReturnPosts(request, old, new)
    BY ReturnVoucher
  <1>3. /\ TakenFrom(request, old) /\ SentBack(request, new) /\ receipts' = old \o new
        /\ ReturnValue(new) \in Int /\ gl'.grni = gl.grni + ReturnValue(new)
        /\ NewRows("Return", new)
    BY <1>2 DEF ReturnPosts, SentBack
  <1> DEFINE v == SumWhere(new, Always, LAMBDA r : Quantity(r) * UnitCost(r.line))
  <1>4. v \in Int /\ Over(RowCost, receipts) = Over(RowCost, old) + v
    BY <1>1, <1>3, TakenCost
  <1>5. ReturnValue(new) = HalfEven(v, Fine)
    BY DEF ReturnValue, Booked
  <1>6. new = <<>> => v = 0
    <2>1. ASSUME new = <<>> PROVE v = 0
      <3>1. [i \in DOMAIN new |-> IF Always(new[i]) THEN Quantity(new[i]) * UnitCost(new[i].line)
                                                    ELSE 0] = <<>>
        BY <2>1
      <3> QED
        BY <3>1, SeqSumEmpty DEF SumWhere
    <2> QED
      BY <2>1
  <1> HIDE DEF v
  <1>7. Over(RowCost, new) = 0
    BY <1>3, NewRowsCost
  <1>8. HalfEven(v, Fine) \in Int /\ Near(Fine, 0 - HalfEven(v, Fine), 0 - v, 1)
    <2>1. Near(Fine, HalfEven(v, Fine), v, 1) /\ HalfEven(v, Fine) \in Int
      BY <1>1, <1>4, HalfEvenNear
    <2>2. Fine \in Int /\ Fine * 0 = 0
      BY <1>1
    <2>3. Near(Fine, 0, 0, 0)
      BY <2>2 DEF Near
    <2>4. Near(Fine, 0 - HalfEven(v, Fine), 0 - v, 0 + 1)
      BY <1>4, <2>1, <2>2, <2>3, NearAdds
    <2> QED
      BY <2>1, <2>4
  <1> DEFINE x == 0 - ReturnValue(new)
             c == 0 - v
  <1>9. x \in Int /\ c \in Int /\ Near(Fine, x, c, 1) /\ gl'.grni = gl.grni - x
    <2>1. gl.grni \in Int
      BY <1>1, ClearingInt
    <2>2. gl'.grni = gl.grni - x
      BY <1>3, <2>1
    <2> QED
      BY <1>3, <1>4, <1>5, <1>8, <2>2
  <1>10. new = <<>> => x = 0 /\ c = 0
    <2>1. Booked(0) = 0
      BY CostValue
    <2>2. HalfEven(0, Fine) = 0
      BY <2>1 DEF Booked
    <2> HIDE DEF x, c
    <2>3. new = <<>> => ReturnValue(new) = 0 /\ v = 0
      BY <1>5, <1>6, <2>2
    <2>4. 0 - 0 = 0
      OBVIOUS
    <2> QED
      BY <2>3, <2>4 DEF x, c
  <1>11. Over(RowCost, old) + Over(RowCost, new) = Over(RowCost, receipts) + c
    <2>1. Over(RowCost, old) \in Int
      BY ClearingFunctions, OverInt
    <2> QED
      BY <1>4, <1>7, <2>1
  <1>12. invoices' = invoices
    BY DEF ReturnLines
  <1>13. DOMAIN old = DOMAIN receipts
         /\ \A k \in DOMAIN receipts : /\ old[k].doc = receipts[k].doc
                                       /\ old[k].line = receipts[k].line
    BY <1>3 DEF TakenFrom
  <1> HIDE DEF x, c
  <1> QED
    BY <1>1, <1>3, <1>9, <1>10, <1>11, <1>12, <1>13, RowsPosted

\* An invoice owes no longer what it draws from the rows.
LEMMA DrawnRowsCost ==
  ASSUME Typed, NEW request \in Seq(Draw(Lines)), NEW ls \in Seq(DocumentLine),
         Billing(request, ls), NEW rows \in Seq(ReceiptRow), Drawn(request, rows)
  PROVE  Over(RowCost, receipts) = Over(RowCost, rows) + DrawnCost(receipts, ls)
  <1> DEFINE d == Weighed(receipts, DrawnUnits(receipts, ls))
  <1>1. /\ receipts \in Seq(ReceiptRow) /\ DOMAIN rows = DOMAIN receipts
        /\ \A k \in DOMAIN receipts : receipts[k] \in ReceiptRow /\ rows[k] \in ReceiptRow
    BY Rows DEF Typed, Drawn
  <1>2. \A k : Over(FromRow(k), ls) = DrawnBy(request, k) /\ DrawnBy(request, k) \in Nat
    BY BillingCounts, Drawing
  <1>3. /\ DOMAIN d = DOMAIN receipts /\ d \in Seq(Int)
        /\ \A k \in DOMAIN receipts : d[k] = Weight[receipts[k]] * DrawnBy(request, k)
    <2>1. \A k \in DOMAIN receipts : DrawnUnits(receipts, ls)[k] \in Int
      BY <1>2 DEF DrawnUnits
    <2>2. /\ d \in Seq(Int) /\ DOMAIN d = DOMAIN receipts
          /\ \A k \in DOMAIN receipts : d[k] = Weight[receipts[k]] * DrawnUnits(receipts, ls)[k]
      BY <1>1, <2>1, WeighedInt
    <2> HIDE DEF d
    <2> QED
      BY <1>2, <2>2 DEF DrawnUnits
  <1> HIDE DEF d
  <1>4. ASSUME NEW k \in DOMAIN receipts PROVE RowCost[receipts[k]] = RowCost[rows[k]] + d[k]
    <2> DEFINE r == receipts[k]
               s == rows[k]
               q == DrawnBy(request, k)
               u == UnitCost(r.line)
    <2>1. /\ r \in ReceiptRow /\ s \in ReceiptRow /\ s.line = r.line /\ s.kind = r.kind
          /\ s.accepted = r.accepted /\ s.rejected = r.rejected /\ s.billed = r.billed + q
          /\ s.acceptedReturned = r.acceptedReturned /\ s.rejectedReturned = r.rejectedReturned
      BY <1>1 DEF Drawn
    <2>2. q \in Nat /\ d[k] = Weight[r] * q
      BY <1>2, <1>3
    <2> HIDE DEF r, s, q
    <2>8. r.line \in Lines /\ r.acceptedReturned \in Nat /\ r.rejectedReturned \in Nat
      BY <2>1, RowFields
    <2>9. Gone(s) = Gone(r) /\ Gone(r) \in Int
      BY <2>1, <2>8 DEF Gone
    <2>3. u \in Int /\ Gone(s) = Gone(r) /\ Gone(r) \in Int
      <3>1. \A l \in Lines : UnitCost(l) \in Nat
        BY CostValue
      <3>2. u \in Nat
        BY <2>8, <3>1
      <3> QED
        BY <2>9, <3>2
    <2>4. /\ RowCost[r] = (Held(r) - Gone(r)) * u /\ RowCost[s] = (Held(s) - Gone(s)) * u
          /\ Weight[r] = IF r.line \in Goods THEN u ELSE 0
      BY <2>1 DEF RowCost, Weight
    <2>5. /\ Held(r) \in Int /\ Held(s) = IF r.line \in Goods THEN Held(r) - q ELSE Held(r)
          /\ r.line \notin Goods => Held(r) = 0
      <3>1. /\ Quantity(r) \in Nat /\ Quantity(s) = Quantity(r) /\ r.billed \in Nat
        BY <2>1, RowFields DEF Quantity
      <3>2. (IF r.kind = "Receipt" THEN Quantity(r) ELSE 0) \in Nat
        BY <3>1
      <3>3. (IF s.kind = "Receipt" THEN Quantity(s) ELSE 0)
              = (IF r.kind = "Receipt" THEN Quantity(r) ELSE 0)
        BY <2>1, <3>1
      <3> QED
        BY <2>1, <2>2, <3>1, <3>2, <3>3 DEF Held
    <2> HIDE DEF u
    <2>6. \A h, g, a, y \in Int : /\ (h - g) * y = ((h - a) - g) * y + y * a
                                  /\ (h - g) * y = (h - g) * y + 0 * a
      OBVIOUS
    <2>7. RowCost[r] = RowCost[s] + d[k]
      <3>1. CASE r.line \in Goods
        BY <2>2, <2>3, <2>4, <2>5, <2>6, <3>1
      <3>2. CASE r.line \notin Goods
        BY <2>2, <2>3, <2>4, <2>5, <2>6, <3>2
      <3> QED
        BY <3>1, <3>2
    <2> QED
      BY <2>7 DEF r, s
  <1>5. \A k \in DOMAIN receipts : d[k] \in Int
    <2>1. \A z \in Seq(Int) : \A k \in DOMAIN z : z[k] \in Int
      OBVIOUS
    <2> QED
      BY <1>3, <2>1
  <1>6. Over(RowCost, receipts) = Over(RowCost, rows) + SeqSum([k \in DOMAIN rows |-> d[k]])
    <2>1. Shifted(ReceiptRow, RowCost, rows, receipts, d)
      BY <1>1, <1>4, <1>5, ClearingFunctions DEF Shifted
    <2> QED
      BY <2>1, OverAdd
  <1>7. [k \in DOMAIN rows |-> d[k]] = d
    <2>1. \A z \in Seq(Int) : z = [k \in DOMAIN z |-> z[k]]
      OBVIOUS
    <2> QED
      BY <1>1, <1>3, <2>1
  <1> QED
    BY <1>6, <1>7 DEF d, DrawnCost

\* An invoice clears what its lines draw, one rounding a line.
LEMMA InvoiceCleared ==
  ASSUME Sound, ClearingCounted, NEW request \in Seq(Draw(Lines)), InvoiceLines(request)
  PROVE  ClearingCounted'
  <1>1. /\ Typed /\ receipts \in Seq(ReceiptRow) /\ invoices \in Seq(Document)
        /\ \A m \in DOMAIN invoices : invoices[m] \in Document
        /\ DOMAIN invoices = 1..Len(invoices) /\ Len(invoices) \in Nat
    BY Rows DEF Sound, Typed
  <1>2. PICK ls \in Seq(DocumentLine), d \in Document : InvoicePosts(request, ls, d)
    BY InvoiceVoucher
  <1>3. /\ d.type = "Invoice" /\ d.lines = ls /\ invoices' = Append(invoices, d)
        /\ Billing(request, ls) /\ FromReceipts(ls)
        /\ Cleared(ls) \in Int /\ gl'.grni = gl.grni + Cleared(ls)
    BY <1>2 DEF InvoicePosts, Made
  <1>4. receipts' \in Seq(ReceiptRow) /\ Drawn(request, receipts')
    BY <1>1, InvoiceRows
  <1>5. \A k \in DOMAIN receipts : receipts'[k].line = receipts[k].line
                                   /\ receipts'[k].doc = receipts[k].doc
    BY <1>4 DEF Drawn
  <1>6. Matched(ls, receipts)
    <2>1. InvoiceAllowed(request)
      BY DEF InvoiceLines
    <2> QED
      BY <1>3, <2>1 DEF InvoiceAllowed, Matched, Billing
  <1>7. LinesMatched'
    <2>1. ASSUME NEW m \in DOMAIN invoices' PROVE Matched(invoices'[m].lines, receipts')
      <3>1. CASE m \in DOMAIN invoices
        <4>1. invoices'[m] = invoices[m]
          BY <1>1, <1>3, <3>1
        <4>2. Matched(invoices[m].lines, receipts) /\ FromReceipts(invoices[m].lines)
          BY <3>1 DEF ClearingCounted, LinesMatched, Sound, DocumentsSound
        <4>3. Matched(invoices[m].lines, receipts')
          BY <1>5, <4>2 DEF Matched, FromReceipts
        <4> QED
          BY <4>1, <4>3
      <3>2. CASE m \notin DOMAIN invoices
        <4>1. invoices'[m] = d
          BY <1>1, <1>3, <3>2
        <4> QED
          BY <1>3, <1>5, <1>6, <4>1 DEF Matched, FromReceipts
      <3> QED
        BY <3>1, <3>2
    <2> QED
      BY <2>1 DEF LinesMatched
  <1>8. ASSUME NEW f \in [Document -> Int]
        PROVE  Over(f, invoices') = Over(f, invoices) + f[d] /\ Over(f, invoices) \in Int
    BY <1>1, <1>3, OverAppend, OverInt
  <1>9. \A k : Over(DebitedFrom(k), invoices') = Over(DebitedFrom(k), invoices)
    <2>1. ASSUME NEW k PROVE Over(DebitedFrom(k), invoices') = Over(DebitedFrom(k), invoices)
      <3>1. /\ DebitedFrom(k) \in [Document -> Int] /\ DebitedRow(k) \in [DocumentLine -> Int]
        BY ClearingFunctions
      <3>2. \A i \in DOMAIN ls : ls[i] \in DocumentLine /\ ls[i].debited = 0
        BY <1>3 DEF Billing
      <3>3. \A i \in DOMAIN ls : DebitedRow(k)[ls[i]] = 0
        BY <3>2 DEF DebitedRow
      <3>4. Over(DebitedRow(k), ls) = 0
        BY <3>1, <3>3, OverZero
      <3>5. DebitedFrom(k)[d] = 0
        BY <1>3, <3>4 DEF DebitedFrom
      <3> QED
        BY <1>8, <3>1, <3>5
    <2> QED
      BY <2>1
  <1>10. DebitedCost(receipts', invoices') = DebitedCost(receipts, invoices)
    <2>1. \A k \in DOMAIN receipts : /\ receipts[k] \in ReceiptRow /\ receipts'[k] \in ReceiptRow
                                     /\ Weight[receipts'[k]] = Weight[receipts[k]]
      <3>1. \A k \in DOMAIN receipts : receipts[k] \in ReceiptRow /\ receipts'[k] \in ReceiptRow
        BY <1>1, <1>4 DEF Drawn
      <3> QED
        BY <1>5, <3>1 DEF Weight
    <2>2. DOMAIN receipts' = DOMAIN receipts
      BY <1>4 DEF Drawn
    <2> QED
      BY <1>9, <2>1, <2>2, SameDebitedCost
  <1> DEFINE c == DrawnCost(receipts, ls)
             h == Over(HasRow, ls)
             x == Cleared(ls)
  <1>11. c \in Int /\ h \in Int /\ x \in Int /\ Near(Fine, x, c, h)
    <2>1. c \in Int
      BY <1>1, CostsInt
    <2>2. h \in Int
      BY ClearingFunctions, OverInt
    <2> QED
      BY <1>3, <1>6, <2>1, <2>2, ClearedWorth
  <1>12. Over(RowCost, receipts) = Over(RowCost, receipts') + c /\ Over(RowCost, receipts') \in Int
    BY <1>1, <1>3, <1>4, DrawnRowsCost, ClearingFunctions, OverInt
  <1>13. Over(FromCount, invoices') = Over(FromCount, invoices) + h
    <2>1. FromCount[d] = h
      BY <1>3 DEF FromCount
    <2> QED
      BY <1>8, <2>1, ClearingFunctions
  <1>14. ReceiptDocs' = ReceiptDocs
    <2>1. DOMAIN receipts' = DOMAIN receipts
      BY <1>4 DEF Drawn
    <2> QED
      BY <1>5, <2>1 DEF ReceiptDocs
  <1> HIDE DEF c, h, x
  <1>15. Unbilled' = Unbilled - c /\ ClearingRoundings' = ClearingRoundings + h
    <2>1. /\ Unbilled' = Over(RowCost, receipts') + DebitedCost(receipts', invoices')
          /\ ClearingRoundings' = Cardinality(ReceiptDocs') + Over(FromCount, invoices')
      BY DEF Unbilled, ClearingRoundings
    <2>2. /\ Unbilled' = Over(RowCost, receipts') + DebitedCost(receipts, invoices)
          /\ ClearingRoundings' = Cardinality(ReceiptDocs) + (Over(FromCount, invoices) + h)
      BY <1>10, <1>13, <1>14, <2>1
    <2>3. Cardinality(ReceiptDocs) \in Int /\ Over(FromCount, invoices) \in Int
          /\ DebitedCost(receipts, invoices) \in Int
      BY <1>1, DocsCount, ClearingInt
    <2> QED
      BY <1>11, <1>12, <2>2, <2>3 DEF Unbilled, ClearingRoundings
  <1>16. Near(Fine, -gl.grni - x, Unbilled - c, ClearingRoundings + h)
    <2>1. Near(Fine, -gl.grni, Unbilled, ClearingRoundings)
      BY DEF ClearingCounted
    <2>2. -gl.grni \in Int /\ Unbilled \in Int /\ Fine \in Int /\ ClearingRoundings \in Int
      BY <1>1, ClearingInt, DocsCount DEF ClearingRoundings
    <2> QED
      BY <1>11, <2>1, <2>2, NearAdds
  <1>17. -gl'.grni = -gl.grni - x
    <2>1. gl.grni \in Int /\ gl'.grni = gl.grni + x
      BY <1>1, <1>3, ClearingInt DEF x
    <2> QED
      BY <1>11, <2>1
  <1> QED
    BY <1>7, <1>15, <1>16, <1>17 DEF ClearingCounted

\* A payment owes nothing more and nothing less.
LEMMA PayCleared ==
  ASSUME Sound, ClearingCounted, NEW p \in Entry,
         NEW target \in [DOMAIN p.allocations -> DOMAIN invoices], Pay(p, target)
  PROVE  ClearingCounted'
  <1>1. /\ Typed /\ DOMAIN invoices' = DOMAIN invoices /\ receipts' = receipts
        /\ \A k \in DOMAIN invoices : /\ invoices'[k].type = invoices[k].type
                                      /\ invoices'[k].lines = invoices[k].lines
    BY PayCounts DEF Sound, Pay
  <1>2. \A k \in DOMAIN invoices : invoices[k] \in Document /\ invoices'[k] \in Document
    BY <1>1, SettlesAmounts, Rows
  <1>3. ASSUME NEW f, \A k \in DOMAIN invoices : f[invoices'[k]] = f[invoices[k]]
        PROVE  Over(f, invoices') = Over(f, invoices)
    <2>1. Alike(f, invoices', f, invoices)
      BY <1>1, <1>3 DEF Alike
    <2> QED
      BY <2>1, OverEqual
  <1>4. \A k : Over(DebitedFrom(k), invoices') = Over(DebitedFrom(k), invoices)
    <2>1. ASSUME NEW k PROVE Over(DebitedFrom(k), invoices') = Over(DebitedFrom(k), invoices)
      <3>1. \A m \in DOMAIN invoices :
               DebitedFrom(k)[invoices'[m]] = DebitedFrom(k)[invoices[m]]
        BY <1>1, <1>2 DEF DebitedFrom
      <3> QED
        BY <1>3, <3>1
    <2> QED
      BY <2>1
  <1>5. Over(FromCount, invoices') = Over(FromCount, invoices)
    <2>1. \A m \in DOMAIN invoices : FromCount[invoices'[m]] = FromCount[invoices[m]]
      BY <1>1, <1>2 DEF FromCount
    <2> QED
      BY <1>3, <2>1
  <1>6. DebitedCost(receipts, invoices') = DebitedCost(receipts, invoices)
    BY <1>4, SameDebitedCost
  <1>7. LinesMatched'
    BY <1>1 DEF ClearingCounted, LinesMatched
  <1>8. gl'.grni = gl.grni
    <2>1. DOMAIN gl = {"inventory", "grni", "expense", "tax", "ap", "bank", "fx"}
      BY <1>1 DEF Typed, Accounts
    <2> QED
      BY <2>1 DEF Pay
  <1>9. ReceiptDocs' = ReceiptDocs
    BY <1>1 DEF ReceiptDocs
  <1>10. Unbilled' = Unbilled /\ ClearingRoundings' = ClearingRoundings
    BY <1>1, <1>5, <1>6, <1>9 DEF Unbilled, ClearingRoundings
  <1> QED
    BY <1>7, <1>8, <1>10 DEF ClearingCounted

\* What a debit note takes back counts as debited from the row it was drawn from.
LEMMA DebitedFromGrows ==
  ASSUME NEW old \in Document, NEW d \in Document, NEW request \in Seq(Ask(DOMAIN old.lines)),
         NEW ls \in Seq(DocumentLine), Debits(request, old, ls),
         SameButDebited(request, old, d), NEW k
  PROVE  /\ Over(DebitedRow(k), d.lines) = Over(DebitedRow(k), old.lines) + Over(FromRow(k), ls)
         /\ Over(HasRow, d.lines) = Over(HasRow, old.lines)
  <1>1. old.lines \in Seq(DocumentLine) /\ d.lines \in Seq(DocumentLine)
    BY DEF Document
  <1>2. /\ DOMAIN d.lines = DOMAIN old.lines
        /\ \A j \in DOMAIN old.lines : old.lines[j] \in DocumentLine /\ d.lines[j] \in DocumentLine
        /\ \A i \in DOMAIN ls : ls[i] \in DocumentLine
    BY <1>1 DEF SameButDebited
  <1>3. /\ \A i \in DOMAIN request : request[i].qty \in Nat /\ request[i].at \in DOMAIN old.lines
        /\ \A j : Asked(request, j) \in Nat
    BY Requested
  <1>4. ASSUME NEW j \in DOMAIN old.lines
        PROVE  /\ d.lines[j].from = old.lines[j].from
               /\ d.lines[j].debited = old.lines[j].debited + Asked(request, j)
               /\ old.lines[j].debited \in Nat /\ Asked(request, j) \in Nat
    BY <1>2, <1>3, LineFields DEF SameButDebited
  <1>5. ASSUME NEW i \in DOMAIN ls
        PROVE  /\ ls[i].from = old.lines[request[i].at].from /\ ls[i].qty = request[i].qty
               /\ request[i].at \in DOMAIN old.lines /\ request[i].qty \in Nat
    BY <1>3 DEF Debits
  <1>6. Over(DebitedRow(k), d.lines) = Over(DebitedRow(k), old.lines) + Over(FromRow(k), ls)
    <2> DEFINE c == [j \in DOMAIN old.lines |-> IF old.lines[j].from = k THEN 1 ELSE 0]
    <2>1. ASSUME NEW j \in DOMAIN old.lines
          PROVE  DebitedRow(k)[d.lines[j]] = DebitedRow(k)[old.lines[j]] + c[j] * Asked(request, j)
      <3>1. c[j] * Asked(request, j) = IF old.lines[j].from = k THEN Asked(request, j) ELSE 0
        BY <1>4
      <3>2. /\ DebitedRow(k)[d.lines[j]] = IF d.lines[j].from = k THEN d.lines[j].debited ELSE 0
            /\ DebitedRow(k)[old.lines[j]]
                 = IF old.lines[j].from = k THEN old.lines[j].debited ELSE 0
        BY <1>2 DEF DebitedRow
      <3> HIDE DEF c
      <3> QED
        BY <1>4, <3>1, <3>2
    <2>2. ASSUME NEW i \in DOMAIN ls PROVE FromRow(k)[ls[i]] = c[request[i].at] * request[i].qty
      <3>1. FromRow(k)[ls[i]] = IF ls[i].from = k THEN ls[i].qty ELSE 0
        BY <1>2 DEF FromRow
      <3> QED
        BY <1>5, <3>1
    <2>3. c \in [DOMAIN old.lines -> Int]
      OBVIOUS
    <2> HIDE DEF c
    <2>4. Moved(request, old, d, ls, DebitedRow(k), FromRow(k), c)
      BY <2>1, <2>2, <2>3 DEF Moved
    <2>5. DebitedRow(k) \in [DocumentLine -> Int]
      BY ClearingFunctions
    <2> QED
      BY <2>4, <2>5, DebitSum
  <1>7. \A j \in DOMAIN old.lines : HasRow[d.lines[j]] = HasRow[old.lines[j]]
    BY <1>2, <1>4 DEF HasRow
  <1>8. Over(HasRow, d.lines) = Over(HasRow, old.lines)
    <2>1. Alike(HasRow, d.lines, HasRow, old.lines)
      BY <1>2, <1>7 DEF Alike
    <2> QED
      BY <2>1, OverEqual
  <1> QED
    BY <1>6, <1>8

\* The lines of a debit note, and the invoice it is against, stay with their rows.
LEMMA DebitStaysMatched ==
  ASSUME Sound, LinesMatched, NEW k \in DOMAIN invoices,
         NEW request \in Seq(Ask(DOMAIN invoices[k].lines)), receipts' = receipts,
         NEW ls \in Seq(DocumentLine), NEW d \in Document, NEW n \in Document,
         Debits(request, invoices[k], ls), SameButDebited(request, invoices[k], d),
         n.lines = ls, Noted(k, d, n)
  PROVE  Matched(ls, receipts) /\ LinesMatched'
  <1>1. Typed /\ Matched(invoices[k].lines, receipts)
        /\ DOMAIN invoices = 1..Len(invoices) /\ Len(invoices) \in Nat
    BY Rows DEF Sound, LinesMatched
  <1>2. Matched(ls, receipts)
    <2>1. \A i \in DOMAIN request : request[i].at \in DOMAIN invoices[k].lines
      BY Requested
    <2> QED
      BY <1>1, <2>1 DEF Matched, Debits
  <1>3. Matched(d.lines, receipts)
    BY <1>1 DEF Matched, SameButDebited
  <1>4. /\ DOMAIN invoices' = 1..(Len(invoices) + 1)
        /\ invoices'[k] = d /\ invoices'[Len(invoices) + 1] = n
        /\ \A j \in DOMAIN invoices \ {k} : invoices'[j] = invoices[j]
    <2>1. FromCount \in [Document -> Int]
      BY ClearingFunctions
    <2> QED
      BY <1>1, <2>1, NoteAppended
  <1>5. ASSUME NEW j \in DOMAIN invoices' PROVE Matched(invoices'[j].lines, receipts)
    <2>1. CASE j = k
      BY <1>3, <1>4, <2>1
    <2>2. CASE j = Len(invoices) + 1
      BY <1>2, <1>4, <2>2
    <2>3. CASE j \in DOMAIN invoices \ {k}
      BY <1>4, <2>3 DEF LinesMatched
    <2> QED
      BY <1>1, <1>4, <2>1, <2>2, <2>3
  <1> QED
    BY <1>2, <1>5 DEF LinesMatched

\* A debit note owes again what its lines drew.
LEMMA DebitCleared ==
  ASSUME Sound, ClearingCounted, NEW k \in DOMAIN invoices,
         NEW request \in Seq(Ask(DOMAIN invoices[k].lines)), DebitInvoice(k, request)
  PROVE  ClearingCounted'
  <1>1. /\ Typed /\ receipts \in Seq(ReceiptRow) /\ invoices \in Seq(Document)
        /\ invoices[k] \in Document /\ invoices[k].type = "Invoice" /\ receipts' = receipts
    BY Rows DEF Sound, Typed, DebitInvoice
  <1>2. PICK ls \in Seq(DocumentLine), d \in Document, n \in Document, y \in Nat :
            NotePosts(k, request, ls, d, n, y)
    BY DebitVoucher
  <1>3. /\ Debits(request, invoices[k], ls) /\ FromReceipts(ls)
        /\ SameButDebited(request, invoices[k], d) /\ Noted(k, d, n)
        /\ Cleared(ls) \in Int /\ gl'.grni = gl.grni - Cleared(ls)
    BY <1>2 DEF NotePosts, DebitedBy, Noted
  <1>4. n.lines = ls /\ n.type # "Invoice" /\ d.type = "Invoice"
    BY <1>1, <1>2 DEF NotePosts, DebitedBy, NoteOf, Made
  <1>5. LinesMatched /\ Near(Fine, -gl.grni, Unbilled, ClearingRoundings)
    BY DEF ClearingCounted
  <1>6. Matched(ls, receipts) /\ LinesMatched'
    BY <1>1, <1>3, <1>4, <1>5, DebitStaysMatched
  <1>7. ASSUME NEW f \in [Document -> Int]
        PROVE  /\ Over(f, invoices') = Over(f, invoices) + f[d] - f[invoices[k]] + f[n]
               /\ Over(f, invoices) \in Int /\ f[d] \in Int /\ f[invoices[k]] \in Int
    BY <1>1, <1>3, NoteAppended
  <1>8. ASSUME NEW j
        PROVE  Over(DebitedFrom(j), invoices') = Over(DebitedFrom(j), invoices) + Over(FromRow(j), ls)
    <2>1. DebitedFrom(j) \in [Document -> Int] /\ Over(FromRow(j), ls) \in Int
      BY ClearingFunctions, UnitsInt
    <2>2. Over(DebitedRow(j), d.lines) = Over(DebitedRow(j), invoices[k].lines) + Over(FromRow(j), ls)
      BY <1>1, <1>3, DebitedFromGrows
    <2>3. /\ DebitedFrom(j)[d] = DebitedFrom(j)[invoices[k]] + Over(FromRow(j), ls)
          /\ DebitedFrom(j)[n] = 0
      BY <1>1, <1>4, <2>2 DEF DebitedFrom
    <2>4. /\ Over(DebitedFrom(j), invoices') = Over(DebitedFrom(j), invoices) + DebitedFrom(j)[d]
                                               - DebitedFrom(j)[invoices[k]] + DebitedFrom(j)[n]
          /\ Over(DebitedFrom(j), invoices) \in Int /\ DebitedFrom(j)[invoices[k]] \in Int
      BY <1>7, <2>1
    <2> QED
      BY <2>1, <2>3, <2>4
  <1> DEFINE c == DrawnCost(receipts, ls)
             h == Over(HasRow, ls)
             x == Cleared(ls)
  <1>9. invoices' \in Seq(Document)
    BY DebitSound DEF Sound, Typed
  <1>10. DebitedCost(receipts, invoices') = DebitedCost(receipts, invoices) + c
    <2>1. \A j \in DOMAIN receipts :
            Over(DebitedFrom(j), invoices') = Over(DebitedFrom(j), invoices) + Over(FromRow(j), ls)
      BY <1>8
    <2> QED
      BY <1>1, <1>9, <2>1, DebitedGrows
  <1>11. c \in Int /\ h \in Int /\ x \in Int /\ Near(Fine, x, c, h)
    <2>1. c \in Int
      BY <1>1, CostsInt
    <2>2. h \in Int
      BY ClearingFunctions, OverInt
    <2> QED
      BY <1>3, <1>6, <2>1, <2>2, ClearedWorth
  <1>12. Over(FromCount, invoices') = Over(FromCount, invoices) + h
    <2>1. Over(HasRow, d.lines) = Over(HasRow, invoices[k].lines)
      BY <1>1, <1>3, DebitedFromGrows
    <2>2. FromCount[n] = h /\ FromCount[d] = FromCount[invoices[k]]
      BY <1>1, <1>4, <2>1 DEF FromCount
    <2>3. /\ Over(FromCount, invoices') = Over(FromCount, invoices) + FromCount[d]
                                            - FromCount[invoices[k]] + FromCount[n]
          /\ Over(FromCount, invoices) \in Int /\ FromCount[invoices[k]] \in Int
      BY <1>7, ClearingFunctions
    <2> HIDE DEF h
    <2> QED
      BY <1>11, <2>2, <2>3
  <1>13. ReceiptDocs' = ReceiptDocs
    BY <1>1 DEF ReceiptDocs
  <1> HIDE DEF c, h, x
  <1>14. Unbilled' = Unbilled + c /\ ClearingRoundings' = ClearingRoundings + h
    <2>1. /\ Unbilled' = Over(RowCost, receipts') + DebitedCost(receipts', invoices')
          /\ ClearingRoundings' = Cardinality(ReceiptDocs') + Over(FromCount, invoices')
      BY DEF Unbilled, ClearingRoundings
    <2>2. /\ Unbilled' = Over(RowCost, receipts) + (DebitedCost(receipts, invoices) + c)
          /\ ClearingRoundings' = Cardinality(ReceiptDocs) + (Over(FromCount, invoices) + h)
      BY <1>1, <1>10, <1>12, <1>13, <2>1
    <2>3. Cardinality(ReceiptDocs) \in Int /\ Over(FromCount, invoices) \in Int
          /\ DebitedCost(receipts, invoices) \in Int /\ Over(RowCost, receipts) \in Int
      BY <1>1, DocsCount, ClearingInt
    <2> QED
      BY <1>11, <2>2, <2>3 DEF Unbilled, ClearingRoundings
  <1>15. Near(Fine, -gl.grni + x, Unbilled + c, ClearingRoundings + h)
    <2>1. -gl.grni \in Int /\ Unbilled \in Int /\ Fine \in Int /\ ClearingRoundings \in Int
      BY <1>1, ClearingInt, DocsCount DEF ClearingRoundings
    <2> QED
      BY <1>5, <1>11, <2>1, NearAdds
  <1>16. -gl'.grni = -gl.grni + x
    <2>1. gl.grni \in Int /\ gl'.grni = gl.grni - x
      BY <1>1, <1>3, ClearingInt DEF x
    <2> QED
      BY <1>11, <2>1
  <1> QED
    BY <1>6, <1>14, <1>15, <1>16 DEF ClearingCounted

\* No step separates the clearing account from the goods.
LEMMA ClearingStaysCounted ==
  ASSUME Sound, ClearingCounted, [Handlers]_vars
  PROVE  ClearingCounted'
  <1>1. ASSUME receipts' = receipts, invoices' = invoices, gl' = gl PROVE ClearingCounted'
    BY <1>1 DEF ClearingCounted, LinesMatched, Unbilled, ClearingRoundings, ReceiptDocs
  <1>2. ASSUME PostOrder \/ UNCHANGED vars PROVE ClearingCounted'
    BY <1>1, <1>2 DEF PostOrder, vars
  <1> QED
    BY <1>2, ReceiveCleared, ReturnCleared, InvoiceCleared, PayCleared, DebitCleared DEF Handlers

\* What the property says of each row, of the debits and of the roundings.
LEMMA RowsOwed ==
  ASSUME Sound
  PROVE  SumFunction([k \in DOMAIN receipts |-> Uncleared(k) * UnitCost(receipts[k].line)])
           = Unbilled
  <1> DEFINE f == [k \in DOMAIN receipts |-> Uncleared(k) * UnitCost(receipts[k].line)]
             u == [k \in DOMAIN receipts |-> RowCost[receipts[k]]]
             v == Weighed(receipts, DebitedUnits(receipts, invoices))
  <1>1. /\ Typed /\ receipts \in Seq(ReceiptRow) /\ invoices \in Seq(Document)
        /\ \A k \in DOMAIN receipts : receipts[k] \in ReceiptRow
        /\ \A m \in DOMAIN invoices : invoices[m] \in Document
    BY Rows DEF Sound, Typed
  <1>2. ASSUME NEW k \in DOMAIN receipts
        PROVE  DocumentSum(IsInvoice, LAMBDA d :
                   LineSum(d, LAMBDA x : x.from = k, LAMBDA x : x.debited))
                 = Over(DebitedFrom(k), invoices)
    <2> DEFINE g(d) == LineSum(d, LAMBDA x : x.from = k, LAMBDA x : x.debited)
    <2>1. ASSUME NEW m \in DOMAIN invoices
          PROVE  Over(DebitedRow(k), invoices[m].lines) = g(invoices[m])
      <3>1. \A j \in DOMAIN invoices[m].lines : invoices[m].lines[j] \in DocumentLine
        BY <1>1 DEF Document
      <3>2. [j \in DOMAIN invoices[m].lines |-> DebitedRow(k)[invoices[m].lines[j]]]
              = [j \in DOMAIN invoices[m].lines |->
                    IF invoices[m].lines[j].from = k THEN invoices[m].lines[j].debited ELSE 0]
        BY <3>1 DEF DebitedRow
      <3> QED
        BY <3>2 DEF Over, LineSum, SumWhere
    <2> HIDE DEF g
    <2>2. [m \in DOMAIN invoices |-> DebitedFrom(k)[invoices[m]]]
            = [m \in DOMAIN invoices |-> IF IsInvoice(invoices[m]) THEN g(invoices[m]) ELSE 0]
      BY <1>1, <2>1 DEF DebitedFrom, IsInvoice
    <2>3. Over(DebitedFrom(k), invoices) = DocumentSum(IsInvoice, g)
      BY <2>2 DEF Over, DocumentSum, SumWhere
    <2> QED
      BY <2>3 DEF g
  <1>3. /\ v \in Seq(Int) /\ DOMAIN v = DOMAIN receipts
        /\ \A k \in DOMAIN receipts : v[k] = Weight[receipts[k]] * Over(DebitedFrom(k), invoices)
    <2>1. \A k \in DOMAIN receipts : DebitedUnits(receipts, invoices)[k] \in Int
      BY <1>1, UnitsInt DEF DebitedUnits
    <2>2. /\ v \in Seq(Int) /\ DOMAIN v = DOMAIN receipts
          /\ \A k \in DOMAIN receipts :
                v[k] = Weight[receipts[k]] * DebitedUnits(receipts, invoices)[k]
      BY <1>1, <2>1, WeighedInt
    <2> HIDE DEF v
    <2> QED
      BY <2>2 DEF DebitedUnits
  <1>4. /\ u \in Seq(Int) /\ DOMAIN u = DOMAIN receipts
        /\ \A k \in DOMAIN receipts : u[k] = RowCost[receipts[k]] /\ u[k] \in Int
    <2>1. \A k \in DOMAIN receipts : RowCost[receipts[k]] \in Int
      BY <1>1, ClearingFunctions
    <2> QED
      BY <1>1, <2>1, OverValues, ClearingFunctions
  <1>5. DOMAIN f = DOMAIN receipts
        /\ \A k \in DOMAIN receipts : f[k] = Uncleared(k) * UnitCost(receipts[k].line)
    OBVIOUS
  <1> HIDE DEF f, u, v
  <1>6. ASSUME NEW k \in DOMAIN receipts PROVE f[k] = u[k] + v[k]
    <2> DEFINE r == receipts[k]
               debited == Over(DebitedFrom(k), invoices)
               cost == UnitCost(r.line)
    <2>1. r \in ReceiptRow /\ debited \in Int
      BY <1>1, UnitsInt
    <2>2. Uncleared(k) = IF r.line \in Goods
                         THEN (IF r.kind = "Receipt" THEN Quantity(r) ELSE 0)
                                - (r.acceptedReturned + r.rejectedReturned) - (r.billed - debited)
                         ELSE -(r.acceptedReturned + r.rejectedReturned)
      BY <1>2 DEF Uncleared
    <2> HIDE DEF r, debited
    <2>3. /\ r.line \in Lines /\ Quantity(r) \in Nat /\ r.billed \in Nat
          /\ r.acceptedReturned \in Nat /\ r.rejectedReturned \in Nat
      BY <2>1, RowFields
    <2>4. cost \in Int
      <3>1. \A l \in Lines : UnitCost(l) \in Nat
        BY CostValue
      <3>2. cost \in Nat
        BY <2>3, <3>1
      <3> QED
        BY <3>2
    <2>5. /\ Held(r) \in Int /\ Gone(r) \in Int
          /\ Uncleared(k) = IF r.line \in Goods THEN Held(r) - Gone(r) + debited
                                                ELSE Held(r) - Gone(r)
      BY <2>1, <2>2, <2>3 DEF Held, Gone
    <2>6. u[k] = (Held(r) - Gone(r)) * cost /\ v[k] = Weight[r] * debited
          /\ Weight[r] = IF r.line \in Goods THEN cost ELSE 0
      BY <1>3, <1>4, <2>1 DEF r, debited, RowCost, Weight
    <2>7. f[k] = Uncleared(k) * cost
      BY <1>5 DEF r
    <2> HIDE DEF cost
    <2>8. \A h, g, a, y \in Int : /\ (h - g + a) * y = (h - g) * y + y * a
                                  /\ (h - g) * y = (h - g) * y + 0 * a
      OBVIOUS
    <2>9. CASE r.line \in Goods
      BY <2>1, <2>4, <2>5, <2>6, <2>7, <2>8, <2>9
    <2>10. CASE r.line \notin Goods
      BY <2>1, <2>4, <2>5, <2>6, <2>7, <2>8, <2>10
    <2> QED
      BY <2>9, <2>10
  <1>7. f \in Seq(Int)
    <2>1. \A k \in DOMAIN receipts : v[k] \in Int
      <3>1. \A z \in Seq(Int) : \A k \in DOMAIN z : z[k] \in Int
        OBVIOUS
      <3> QED
        BY <1>3, <3>1
    <2>2. \A k \in DOMAIN receipts : f[k] \in Int
      BY <1>4, <1>6, <2>1
    <2>3. f = [k \in DOMAIN receipts |-> f[k]]
      BY DEF f
    <2> QED
      BY <1>1, <2>2, <2>3, SumOfRow
  <1>8. SumFunction(f) = SeqSum(f)
    <2>1. SumFunction(f) = SumFunctionOnSet(f, DOMAIN f)
      BY DEF SumFunction
    <2> QED
      BY <1>7, <2>1, SeqSumIsSum
  <1>9. SeqSum(f) = SeqSum(u) + SeqSum(v)
    BY <1>3, <1>4, <1>5, <1>6, <1>7, SeqSumPlus
  <1>10. SumFunction(f) = Unbilled
    BY <1>8, <1>9 DEF u, v, Over, DebitedCost, Unbilled
  <1> QED
    BY <1>10 DEF f

\* The documents that draw from rows are rounded line by line.
LEMMA LinesRounded ==
  ASSUME Sound
  PROVE  DocumentSum(Always, LAMBDA d : LineSum(d, LAMBDA x : x.from # None, LAMBDA x : 1))
           = Over(FromCount, invoices)
  <1> DEFINE g(d) == LineSum(d, LAMBDA x : x.from # None, LAMBDA x : 1)
  <1>1. \A m \in DOMAIN invoices : invoices[m] \in Document
    BY Rows DEF Sound
  <1>2. ASSUME NEW m \in DOMAIN invoices PROVE FromCount[invoices[m]] = g(invoices[m])
    <2>1. \A j \in DOMAIN invoices[m].lines : invoices[m].lines[j] \in DocumentLine
      BY <1>1 DEF Document
    <2>2. [j \in DOMAIN invoices[m].lines |-> HasRow[invoices[m].lines[j]]]
            = [j \in DOMAIN invoices[m].lines |->
                  IF invoices[m].lines[j].from # None THEN 1 ELSE 0]
      BY <2>1 DEF HasRow
    <2>3. Over(HasRow, invoices[m].lines) = g(invoices[m])
      BY <2>2 DEF Over, LineSum, SumWhere
    <2> QED
      BY <1>1, <2>3 DEF FromCount
  <1> HIDE DEF g
  <1>3. [m \in DOMAIN invoices |-> FromCount[invoices[m]]]
          = [m \in DOMAIN invoices |-> IF Always(invoices[m]) THEN g(invoices[m]) ELSE 0]
    BY <1>2 DEF Always
  <1>4. DocumentSum(Always, g) = Over(FromCount, invoices)
    BY <1>3 DEF Over, DocumentSum, SumWhere
  <1> QED
    BY <1>4 DEF g

(* The goods-received-not-invoiced account is worth, but for the roundings, the *)
(* goods received that were neither returned nor billed, at their receipt cost. *)
THEOREM ClearingCorrect == EntrySpec => []ClearingIsUnbilled
  <1>1. EntryInit => ClearingCounted
    <2> SUFFICES ASSUME EntryInit PROVE ClearingCounted
      OBVIOUS
    <2>1. NothingDone
      BY DEF EntryInit, Init, ImportOrder
    <2>2. gl.grni = 0 /\ receipts = <<>> /\ invoices = <<>>
      BY <2>1 DEF NothingDone, Accounts
    <2>3. ReceiptDocs = {} /\ Cardinality(ReceiptDocs) = 0
      <3>1. ReceiptDocs = {}
        BY <2>2 DEF ReceiptDocs
      <3> QED
        BY <3>1, FS_EmptySet
    <2>4. DebitedCost(receipts, invoices) = 0
      <3>1. Weighed(receipts, DebitedUnits(receipts, invoices)) = <<>>
        BY <2>2 DEF Weighed
      <3> QED
        BY <3>1, SeqSumEmpty DEF DebitedCost
    <2>5. Unbilled = 0 /\ ClearingRoundings = 0
      BY <2>2, <2>3, <2>4, OverEmpty DEF Unbilled, ClearingRoundings
    <2>6. Fine \in Int
      BY PurchaseAssumption
    <2>7. Fine * 0 = 0 /\ Fine * (-0) = 0
      BY <2>6
    <2>8. Near(Fine, -0, 0, 0)
      BY <2>7 DEF Near
    <2>9. Near(Fine, -gl.grni, Unbilled, ClearingRoundings)
      BY <2>2, <2>5, <2>8
    <2>10. LinesMatched
      BY <2>2 DEF LinesMatched
    <2> QED
      BY <2>9, <2>10 DEF ClearingCounted
  <1>2. Sound /\ ClearingCounted /\ [Handlers]_vars => ClearingCounted'
    BY ClearingStaysCounted
  <1>3. Sound /\ ClearingCounted => ClearingIsUnbilled
    <2> SUFFICES ASSUME Sound, ClearingCounted PROVE ClearingIsUnbilled
      OBVIOUS
    <2> DEFINE owed == SumFunction([k \in DOMAIN receipts |->
                           Uncleared(k) * UnitCost(receipts[k].line)])
               roundings == Cardinality({receipts[k].doc : k \in DOMAIN receipts})
                              + DocumentSum(Always, LAMBDA d :
                                    LineSum(d, LAMBDA x : x.from # None, LAMBDA x : 1))
    <2>1. owed = Unbilled
      BY RowsOwed
    <2>2. roundings = ClearingRoundings
      BY LinesRounded DEF ClearingRoundings, ReceiptDocs
    <2> HIDE DEF owed, roundings
    <2>3. Near(Fine, -gl.grni, owed, roundings)
      BY <2>1, <2>2 DEF ClearingCounted
    <2>4. /\ gl.grni \in Int /\ Fine \in Int /\ owed \in Int /\ roundings \in Int
      BY <2>1, <2>2, ClearingInt, DocsCount DEF Sound, ClearingRoundings
    <2>5. \A s, g, o, r \in Int : Near(s, -g, o, r) =>
             2 * (s * g + o) <= s * r /\ 2 * (s * g + o) >= -(s * r)
      <3>1. \A s, g, o \in Int : 2 * (s * (-g) - o) = -(2 * (s * g + o))
        OBVIOUS
      <3> QED
        BY <3>1, Products DEF Near
    <2>6. /\ 2 * (Fine * gl.grni + owed) <= Fine * roundings
          /\ 2 * (Fine * gl.grni + owed) >= -(Fine * roundings)
      BY <2>3, <2>4, <2>5
    <2> QED
      BY <2>6 DEF ClearingIsUnbilled, owed, roundings
  <1> QED
    BY <1>1, <1>2, <1>3, SoundAlways, PTL DEF EntrySpec
=============================================================================
