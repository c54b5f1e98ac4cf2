------------------------------- MODULE Preorders -------------------------------
(***************************************************************************)
(* What comes before an order: sales quotations turned into sales orders,  *)
(* and purchase requests, requests for quote, supplier quotations and      *)
(* their award as purchase orders (src/fasterp/preorders.py), with the     *)
(* handlers that import such documents from another system                 *)
(* (src/migration/transactions.py).                                        *)
(*                                                                         *)
(* A call is one transaction and one atomic step; an import makes all its  *)
(* calls in the one transaction of its record.  Prices and taxes do not    *)
(* steer these calls and are left out.  A document is named by its place   *)
(* in the sequence of its kind, and so are its lines.                      *)
(***************************************************************************)
EXTENDS Money

CONSTANTS
    Suppliers,
    Forms,         \* quantities per line of a new quotation or request
    Asks,          \* lines callers name: [at, qty]
    Payloads,      \* lines of imported documents: [base, qty], base 0 when absent
    MaxOfKind,     \* bounds on the documents of each kind
    MaxDocuments   \* bound on documents of all kinds

ASSUME PreorderAssumption ==
    /\ Suppliers # {} /\ IsFiniteSet(Suppliers) /\ MaxDocuments \in Nat
    /\ Asks \subseteq Seq([at : Nat, qty : Nat \ {0}]) /\ <<>> \notin Asks
    /\ Forms \subseteq Seq(Nat \ {0}) /\ <<>> \notin Forms
    /\ Payloads \subseteq Seq([base : Nat, qty : Nat \ {0}]) /\ <<>> \notin Payloads

VARIABLES
    quotes,         \* sales quotations
    salesOrders,    \* sales orders made from them
    requests,       \* purchase requests
    rfqs,           \* requests for quote
    quotations,     \* supplier quotations
    purchaseOrders  \* purchase orders made from them

vars == <<quotes, salesOrders, requests, rfqs, quotations, purchaseOrders>>

\* The documents of each kind, and the bounds that each action that makes one keeps.
Documents ==
    [quotes |-> Len(quotes), salesOrders |-> Len(salesOrders), requests |-> Len(requests),
     rfqs |-> Len(rfqs), quotations |-> Len(quotations), purchaseOrders |-> Len(purchaseOrders)]

Bounded ==
    /\ \A kind \in DOMAIN Documents : Documents'[kind] <= MaxOfKind[kind]
    /\ SumFunction(Documents') <= MaxDocuments

\* The asks that name existing lines.
AsksOf(lines) == {ask \in Asks : \A i \in DOMAIN ask : ask[i].at \in DOMAIN lines}

\* Lines of which nothing is ordered yet.
Unordered(form) == [i \in DOMAIN form |-> [qty |-> form[i], ordered |-> 0]]

\* Lines after an order of some of them, and whether it was the rest.
WithOrdered(lines, taken) ==
    [i \in DOMAIN lines |-> [lines[i] EXCEPT !.ordered = @ + Asked(taken, i)]]
OrderStatus(lines) ==
    IF \E i \in DOMAIN lines : lines[i].ordered < lines[i].qty THEN "Partly Ordered" ELSE "Ordered"

-----------------------------------------------------------------------------
(* Sales quotations                                                         *)
NewQuote(form, state) == [state |-> state, status |-> "Open", lines |-> Unordered(form)]

CreateSalesQuote ==
    /\ \E form \in Forms : quotes' = Append(quotes, NewQuote(form, "Draft"))
    /\ UNCHANGED <<salesOrders, requests, rfqs, quotations, purchaseOrders>>
    /\ Bounded

PostSalesQuote(q) ==
    /\ quotes[q].state \in {"Draft", "Approved"}
    /\ quotes' = [quotes EXCEPT ![q].state = "Posted"]
    /\ UNCHANGED <<salesOrders, requests, rfqs, quotations, purchaseOrders>>

\* Mutant: a quotation need not be posted to be converted.
Convertible_AnyState(quote) ==
    quote.status \notin {"Closed", "Cancelled", "Expired", "Lost", "Ordered"}
Convertible(quote) ==
    /\ quote.state = "Posted"
    /\ quote.status \notin {"Closed", "Cancelled", "Expired", "Lost", "Ordered"}

\* All lines of a conversion are checked before the first is counted, so one that
\* is named twice passes twice.
ConvertSalesQuote(q) ==
    /\ Convertible(quotes[q])
    /\ \E taken \in AsksOf(quotes[q].lines) :
          LET lines == WithOrdered(quotes[q].lines, taken)
          IN  /\ \A i \in DOMAIN taken :
                    LET l == quotes[q].lines[taken[i].at]
                    IN  l.ordered + taken[i].qty <= l.qty
              /\ salesOrders' = Append(salesOrders, [quote |-> q, lines |-> taken])
              /\ quotes' = [quotes EXCEPT ![q].lines = lines, ![q].status = OrderStatus(lines)]
    /\ UNCHANGED <<requests, rfqs, quotations, purchaseOrders>>
    /\ Bounded

-----------------------------------------------------------------------------
(* Purchase requests and requests for quote                                 *)
NewRequest(form) == [status |-> "Open", lines |-> Unordered(form)]

CreatePurchaseRequest ==
    /\ \E form \in Forms : requests' = Append(requests, NewRequest(form))
    /\ UNCHANGED <<quotes, salesOrders, rfqs, quotations, purchaseOrders>>
    /\ Bounded

\* Each line is compared with what its request line has open, one by one.
\* Mutant: what is ordered already is not deducted.
RfqAllowed_Requested(request, lines) ==
    \A i \in DOMAIN lines : lines[i].qty <= request.lines[lines[i].at].qty
RfqAllowed(request, lines) ==
    \A i \in DOMAIN lines :
        LET l == request.lines[lines[i].at]
        IN  lines[i].qty <= l.qty - l.ordered

NewRfq(r, invited, lines) ==
    [request |-> r, status |-> "Open", invited |-> invited, responded |-> {}, lines |-> lines]

CreateRfq(r) ==
    /\ \E invited \in SUBSET Suppliers \ {{}},
          lines \in AsksOf(requests[r].lines) :
          /\ RfqAllowed(requests[r], lines)
          /\ rfqs' = Append(rfqs, NewRfq(r, invited, lines))
    /\ requests' = [requests EXCEPT ![r].status = "RFQ Created"]
    /\ UNCHANGED <<quotes, salesOrders, quotations, purchaseOrders>>
    /\ Bounded

-----------------------------------------------------------------------------
(* Supplier quotations and their award                                      *)
QuotationAllowed(rfq, supplier, lines) ==
    /\ supplier \in rfq.invited
    /\ \A i \in DOMAIN lines : lines[i].qty <= rfq.lines[lines[i].at].qty

NewQuotation(f, supplier, lines) ==
    [rfq |-> f, supplier |-> supplier, status |-> "Open", lines |-> lines]

\* A quotation is welcome whatever became of the request for quote.
Responded(rfq, supplier) ==
    [rfq EXCEPT !.status = "Responses Received", !.responded = @ \cup {supplier}]

RecordSupplierQuote(f, supplier) ==
    /\ \E lines \in AsksOf(rfqs[f].lines) :
          /\ QuotationAllowed(rfqs[f], supplier, lines)
          /\ quotations' = Append(quotations, NewQuotation(f, supplier, lines))
    /\ rfqs' = [rfqs EXCEPT ![f] = Responded(@, supplier)]
    /\ UNCHANGED <<quotes, salesOrders, requests, purchaseOrders>>
    /\ Bounded

\* What a quotation takes of the request behind its request for quote.
TakenOf(quotation) ==
    [i \in DOMAIN quotation.lines |->
        [at |-> rfqs[quotation.rfq].lines[quotation.lines[i].at].at,
         qty |-> quotation.lines[i].qty]]

Awardable(quotation) == quotation.status \in {"Open", "Accepted"}

\* The award looks at the quotation only, not at the other ones of the request.
AwardSupplierQuote(n) ==
    LET f == quotations[n].rfq
        r == rfqs[f].request
        lines == WithOrdered(requests[r].lines, TakenOf(quotations[n]))
    IN  /\ Awardable(quotations[n])
        /\ purchaseOrders' = Append(purchaseOrders,
               [quotation |-> n, lines |-> TakenOf(quotations[n])])
        /\ requests' = [requests EXCEPT ![r] = [status |-> OrderStatus(lines), lines |-> lines]]
        /\ quotations' = [quotations EXCEPT ![n].status = "Ordered"]
        /\ rfqs' = [rfqs EXCEPT ![f].status = "Awarded"]
        /\ UNCHANGED <<quotes, salesOrders>>
        /\ Bounded

-----------------------------------------------------------------------------
(* Imports.  A payload's lines refer to the lines of the document they come *)
(* from by number, or by their own place when that number is missing.       *)
Form(payload) == [i \in DOMAIN payload |-> payload[i].qty]

Source(lines, payload, i) ==
    IF payload[i].base \in DOMAIN lines THEN payload[i].base ELSE i

Resolved(lines, payload) == \A i \in DOMAIN payload : Source(lines, payload, i) \in DOMAIN lines

\* Imported quantities are cut to those of the lines they come from.
Cut(lines, payload) ==
    [i \in DOMAIN payload |->
        [at |-> Source(lines, payload, i),
         qty |-> Smaller(payload[i].qty, lines[Source(lines, payload, i)].qty)]]

ImportSalesQuote ==
    /\ \E payload \in Payloads : quotes' = Append(quotes, NewQuote(Form(payload), "Posted"))
    /\ UNCHANGED <<salesOrders, requests, rfqs, quotations, purchaseOrders>>
    /\ Bounded

ImportPurchaseRequest ==
    /\ \E payload \in Payloads : requests' = Append(requests, NewRequest(Form(payload)))
    /\ UNCHANGED <<quotes, salesOrders, rfqs, quotations, purchaseOrders>>
    /\ Bounded

\* The requests after an import found its request r by its crosswalk, or made one.
RequestsFor(r, payload) ==
    IF r \in DOMAIN requests THEN requests ELSE Append(requests, NewRequest(Form(payload)))

\* _create_rfq_for_payload()
ImportedRfq(r, payload, invited, book) ==
    /\ book = RequestsFor(r, payload)
    /\ Resolved(book[r].lines, payload)
    /\ RfqAllowed(book[r], Cut(book[r].lines, payload))
    /\ requests' = [book EXCEPT ![r].status = "RFQ Created"]

ImportRfq ==
    /\ \E payload \in Payloads, r \in 1..(Len(requests) + 1),
          invited \in SUBSET Suppliers \ {{}} :
          LET book == RequestsFor(r, payload)
          IN  /\ ImportedRfq(r, payload, invited, book)
              /\ rfqs' = Append(rfqs, NewRfq(r, invited, Cut(book[r].lines, payload)))
    /\ UNCHANGED <<quotes, salesOrders, quotations, purchaseOrders>>
    /\ Bounded

\* The quotation answers the request for quote its lines name.
ImportSupplierQuote(f, supplier) ==
    /\ \E payload \in Payloads :
          /\ Resolved(rfqs[f].lines, payload)
          /\ QuotationAllowed(rfqs[f], supplier, Cut(rfqs[f].lines, payload))
          /\ quotations' = Append(quotations,
                 NewQuotation(f, supplier, Cut(rfqs[f].lines, payload)))
    /\ rfqs' = [rfqs EXCEPT ![f] = Responded(@, supplier)]
    /\ UNCHANGED <<quotes, salesOrders, requests, purchaseOrders>>
    /\ Bounded

\* It names none: its request for quote is made on the way.
ImportUnaskedQuote(supplier) ==
    /\ \E payload \in Payloads, r \in 1..(Len(requests) + 1) :
          LET book == RequestsFor(r, payload)
              rfq == NewRfq(r, {supplier}, Cut(book[r].lines, payload))
          IN  /\ ImportedRfq(r, payload, {supplier}, book)
              /\ Resolved(rfq.lines, payload)
              /\ rfqs' = Append(rfqs, Responded(rfq, supplier))
              /\ quotations' = Append(quotations,
                     NewQuotation(Len(rfqs) + 1, supplier, Cut(rfq.lines, payload)))
    /\ UNCHANGED <<quotes, salesOrders, purchaseOrders>>
    /\ Bounded

-----------------------------------------------------------------------------
Init ==
    /\ quotes = <<>> /\ salesOrders = <<>> /\ requests = <<>>
    /\ rfqs = <<>> /\ quotations = <<>> /\ purchaseOrders = <<>>

Next ==
    \/ CreateSalesQuote \/ CreatePurchaseRequest
    \/ ImportSalesQuote \/ ImportPurchaseRequest \/ ImportRfq
    \/ \E q \in DOMAIN quotes : PostSalesQuote(q) \/ ConvertSalesQuote(q)
    \/ \E r \in DOMAIN requests : CreateRfq(r)
    \/ \E f \in DOMAIN rfqs, s \in Suppliers : RecordSupplierQuote(f, s) \/ ImportSupplierQuote(f, s)
    \/ \E s \in Suppliers : ImportUnaskedQuote(s)
    \/ \E n \in DOMAIN quotations : AwardSupplierQuote(n)

Spec == Init /\ [][Next]_vars

-----------------------------------------------------------------------------
(* Properties                                                               *)

\* Documents keep their shape; lines refer to lines that exist, and nothing is
\* ordered from a quotation that is not posted.
TypeOK ==
    LET row == [qty : Nat \ {0}, ordered : Nat]
        taken(n) == Seq([at : 1..n, qty : Nat \ {0}])
    IN  /\ \A q \in DOMAIN quotes :
              /\ quotes[q] \in [state : {"Draft", "Posted"}, lines : Seq(row),
                                status : {"Open", "Partly Ordered", "Ordered"}]
              /\ quotes[q].state = "Draft" => quotes[q].status = "Open"
        /\ \A r \in DOMAIN requests : requests[r] \in
               [status : {"Open", "RFQ Created", "Partly Ordered", "Ordered"}, lines : Seq(row)]
        /\ \A f \in DOMAIN rfqs :
              /\ rfqs[f] \in [request : DOMAIN requests, invited : SUBSET Suppliers,
                     status : {"Open", "Responses Received", "Awarded"},
                     responded : SUBSET Suppliers,
                     lines : taken(Len(requests[rfqs[f].request].lines))]
              /\ rfqs[f].responded \subseteq rfqs[f].invited
        /\ \A n \in DOMAIN quotations : quotations[n] \in
               [rfq : DOMAIN rfqs, supplier : Suppliers, status : {"Open", "Ordered"},
                lines : taken(Len(rfqs[quotations[n].rfq].lines))]
        /\ \A d \in DOMAIN salesOrders : salesOrders[d].quote \in DOMAIN quotes
        /\ \A d \in DOMAIN purchaseOrders : purchaseOrders[d].quotation \in DOMAIN quotations

\* The orders made from quotation q, or through any supplier quotation for request r.
FromQuote(q) == {d \in DOMAIN salesOrders : salesOrders[d].quote = q}
FromRequest(r) ==
    {d \in DOMAIN purchaseOrders : rfqs[quotations[purchaseOrders[d].quotation].rfq].request = r}

\* The order lines drawn from line i make up its ordered quantity, none takes
\* more than the line has: it takes two of them to order too much.
Accounted(line, i, orders, made) ==
    LET drawn == {x \in UNION {{d} \X (DOMAIN orders[d].lines) : d \in made} :
                     orders[x[1]].lines[x[2]].at = i}
    IN  /\ line.ordered = SumFunction([x \in drawn |-> orders[x[1]].lines[x[2]].qty])
        /\ \A x \in drawn : orders[x[1]].lines[x[2]].qty <= line.qty

\* Ordered quantities are the orders made, through requests for quote, supplier
\* quotations and imports; a quotation becomes one order at most; and a quotation
\* or request is Ordered exactly when all of it is, never reopened afterwards.
OrdersAreTraced ==
    /\ \A q \in DOMAIN quotes :
          /\ \A i \in DOMAIN quotes[q].lines :
                Accounted(quotes[q].lines[i], i, salesOrders, FromQuote(q))
          /\ quotes[q].status = "Ordered" <=> OrderStatus(quotes[q].lines) = "Ordered"
    /\ \A r \in DOMAIN requests :
          /\ \A i \in DOMAIN requests[r].lines :
                Accounted(requests[r].lines[i], i, purchaseOrders, FromRequest(r))
          /\ requests[r].status = "Ordered" <=> OrderStatus(requests[r].lines) = "Ordered"
    /\ \A n \in DOMAIN quotations :
          Cardinality({d \in DOMAIN purchaseOrders : purchaseOrders[d].quotation = n})
              = IF quotations[n].status = "Ordered" THEN 1 ELSE 0
=============================================================================
