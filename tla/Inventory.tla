------------------------------- MODULE Inventory -------------------------------
(***************************************************************************)
(* The inventory valuation kernel: InventoryService of                     *)
(* src/fasterp/inventory.py over inventory_events, inventory_ledger_entries, *)
(* inventory_balances and inventory_cost_layers (0006_inventory_ledger.sql). *)
(*                                                                         *)
(* An event is one transaction that posts its lines one by one.  A company *)
(* advisory lock taken before the first line and held to the commit        *)
(* serialises events, so at most one transaction works on a copy of the    *)
(* tables, which becomes the database at the commit or is dropped.  A      *)
(* voucher is named by the event it created: posting it again returns that *)
(* event's id and changes nothing.  Quantities, rates and values are       *)
(* integers in units of 1/Scale (Decimal quantized to SIX).                *)
(***************************************************************************)
EXTENDS Money

CONSTANTS
    Bins,          \* item and warehouse pairs
    Method,        \* Method[b]: valuation method of the item
    StandardCost,  \* StandardCost[b]: items.standard_cost
    AllowNegative, \* bins whose item or company allows negative stock
    LineLists,     \* the lists of lines callers post
    Dates,         \* posting dates in open fiscal periods
    Scale,         \* units per whole (10^6 in the code)
    MaxEvents,     \* bound on the number of events
    None           \* SQL NULL

Methods == {"Moving Average", "FIFO", "Standard Cost"}

\* An inventory line: qty is signed, extra is the additional cost.
Line == [bin : Bins, qty : Int \ {0}, cost : Nat \cup {None}, extra : Int,
         forced : Int \cup {None}]

ASSUME InventoryAssumption ==
    /\ Scale \in Nat \ {0}
    /\ Method \in [Bins -> Methods]
    /\ StandardCost \in [Bins -> Nat]
    /\ AllowNegative \subseteq Bins
    /\ LineLists \subseteq Seq(Line) \ {<<>>}
    /\ Dates \subseteq Nat
    /\ None \notin Int

VARIABLES
    db,   \* committed tables: bins, layers, ledger, events
    txn   \* the transaction holding the advisory lock, or None

vars == <<db, txn>>

-----------------------------------------------------------------------------
(* Decimal arithmetic: number(x) rounds half to even (HalfEven of Money).   *)
Times(a, b) == HalfEven(a * b, Scale)
Ratio(a, b) == HalfEven(a * Scale, b)

-----------------------------------------------------------------------------
(* FIFO layers of one bin: a function from the receiving ledger entry to    *)
(* [at, left, cost].                                                        *)
NoLayers == [k \in {} |-> None]

Left(layers, K) == SumFunctionOnSet([k \in DOMAIN layers |-> layers[k].left], K)

\* ORDER BY received_at, id.  Mutant: receipt order only.
Earlier_ById(layers, k) == {j \in DOMAIN layers : j < k}
Earlier(layers, k) ==
    {j \in DOMAIN layers : \/ layers[j].at < layers[k].at
                           \/ layers[j].at = layers[k].at /\ j < k}

\* What an issue of q takes from layer k.  Mutant: not capped by the layer.
Used_NoCap(layers, k, q) ==
    LET wanted == q - Left(layers, Earlier(layers, k)) IN IF wanted <= 0 THEN 0 ELSE wanted
Used(layers, k, q) ==
    LET wanted == q - Left(layers, Earlier(layers, k))
    IN  IF wanted <= 0 THEN 0
        ELSE IF wanted < layers[k].left THEN wanted ELSE layers[k].left

Short(layers, q) ==
    LET all == Left(layers, DOMAIN layers) IN IF q > all THEN q - all ELSE 0

\* Mutant: the issue is charged the average rate.
FifoValue_Average(layers, q, fallback) == HalfEven(q * fallback, Scale)
FifoValue(layers, q, fallback) ==
    HalfEven(SumFunction([k \in DOMAIN layers |-> Used(layers, k, q) * layers[k].cost])
               + Short(layers, q) * fallback, Scale)

Consumed(layers, q) ==
    [k \in DOMAIN layers |-> [layers[k] EXCEPT !.left = @ - Used(layers, k, q)]]

-----------------------------------------------------------------------------
(* One line against its balance row b = [qty, value, rate].                 *)
NewQty(b, l) == b.qty + l.qty

InRate(l) == IF Method[l.bin] = "Standard Cost" THEN StandardCost[l.bin] ELSE l.cost

InValue(b, l) ==
    IF Method[l.bin] = "Standard Cost"
    THEN Times(NewQty(b, l), StandardCost[l.bin])
    ELSE b.value + HalfEven(l.qty * InRate(l) + l.extra * Scale, Scale)

InAverage(b, l) ==
    IF Method[l.bin] = "Standard Cost" THEN StandardCost[l.bin]
    ELSE IF NewQty(b, l) > 0 THEN Ratio(InValue(b, l), NewQty(b, l))
    ELSE IF InRate(l) # 0 THEN InRate(l) ELSE b.rate

OutRate(b, layers, l) ==
    IF l.forced # None THEN l.forced
    ELSE IF Method[l.bin] = "FIFO" THEN Ratio(FifoValue(layers, -l.qty, b.rate), -l.qty)
    ELSE IF Method[l.bin] = "Standard Cost" THEN StandardCost[l.bin]
    ELSE b.rate

OutValue(b, layers, l) ==
    IF l.forced = None /\ Method[l.bin] = "FIFO"
    THEN b.value - FifoValue(layers, -l.qty, b.rate)
    ELSE b.value - Times(-l.qty, OutRate(b, layers, l))

OutAverage(b, layers, l) ==
    IF NewQty(b, l) > 0 THEN Ratio(OutValue(b, layers, l), NewQty(b, l))
    ELSE IF NewQty(b, l) < 0 THEN b.rate
    ELSE 0

\* The balance row after the line.  Mutant: the average is not refreshed.
NewBin_StaleRate(b, layers, l) ==
    [qty |-> NewQty(b, l), rate |-> IF b.qty = 0 /\ l.qty > 0 THEN InRate(l) ELSE b.rate,
     value |-> IF l.qty > 0 THEN InValue(b, l) ELSE OutValue(b, layers, l)]
NewBin(b, layers, l) ==
    IF l.qty > 0
    THEN [qty |-> NewQty(b, l), value |-> InValue(b, l), rate |-> InAverage(b, l)]
    ELSE [qty |-> NewQty(b, l), value |-> OutValue(b, layers, l),
          rate |-> OutAverage(b, layers, l)]

\* Mutant: the layer of a FIFO receipt onto negative stock is dropped.
NewLayers_Netted(b, layers, l, id, at) ==
    IF Method[l.bin] # "FIFO" THEN layers
    ELSE IF l.qty > 0
         THEN [k \in DOMAIN layers \cup {id} |->
                 IF k = id THEN [at |-> at, left |-> IF b.qty >= 0 THEN l.qty ELSE 0,
                                 cost |-> InRate(l)]
                 ELSE layers[k]]
         ELSE Consumed(layers, -l.qty)
NewLayers(b, layers, l, id, at) ==
    IF Method[l.bin] = "FIFO" /\ l.qty > 0
    THEN [k \in DOMAIN layers \cup {id} |->
            IF k = id THEN [at |-> at, left |-> l.qty, cost |-> InRate(l)] ELSE layers[k]]
    ELSE IF Method[l.bin] = "FIFO" /\ l.forced = None THEN Consumed(layers, -l.qty)
    ELSE layers

\* The errors of _post_line.  Mutant: the old quantity is tested.
Accepts_OldQty(b, layers, l) ==
    /\ b.qty >= 0 \/ l.bin \in AllowNegative
    /\ l.qty > 0 => InRate(l) # None
Accepts(b, layers, l) ==
    /\ NewQty(b, l) >= 0 \/ l.bin \in AllowNegative
    /\ l.qty > 0 => InRate(l) # None /\ InRate(l) >= 0
    /\ l.qty < 0 /\ l.forced = None /\ Method[l.bin] = "FIFO" =>
          Short(layers, -l.qty) = 0 \/ NewQty(b, l) < 0

\* The ledger row of a line that leaves its bin as new.
EntryOf(e, b, layers, l, new) ==
    [event |-> e, bin |-> l.bin, qty |-> l.qty, after |-> new.qty,
     unit |-> IF l.qty > 0 THEN InRate(l) ELSE OutRate(b, layers, l),
     rate |-> new.rate, change |-> new.value - b.value, value |-> new.value]

\* All the writes of _post_line in the tables w.
PostedLine(w, e, at, l) ==
    LET b   == w.bins[l.bin]
        lay == w.layers[l.bin]
        new == NewBin(b, lay, l)
        id  == Len(w.ledger) + 1
    IN  [bins   |-> [w.bins EXCEPT ![l.bin] = new],
         layers |-> [w.layers EXCEPT ![l.bin] = NewLayers(b, lay, l, id, at)],
         ledger |-> Append(w.ledger, EntryOf(e, b, lay, l, new)),
         events |-> w.events]

-----------------------------------------------------------------------------
Entries(e) == {k \in DOMAIN db.ledger : db.ledger[k].event = e}

\* The lines reverse_event derives from the event's lines and ledger rows,
\* Mutant: quantities are not negated.
Reversal_SameSign(x) ==
    [bin |-> x.bin, qty |-> x.qty, cost |-> x.rate, extra |-> 0, forced |-> x.rate]
Reversal(x) ==
    [bin |-> x.bin, qty |-> -x.qty, cost |-> x.rate, extra |-> 0, forced |-> x.rate]

\* in their order.
ReversalLines(own) == [i \in DOMAIN own |-> Reversal(db.ledger[own[i]])]

\* The transaction that inserts the next event.
Begun(reverses, at, lines) ==
    [event |-> Len(db.events) + 1, at |-> at, lines |-> lines,
     work |-> [bins |-> db.bins, layers |-> db.layers, ledger |-> db.ledger,
        events |-> Append(db.events,
            [state |-> "Posted", reverses |-> reverses,
             forced |-> \E i \in DOMAIN lines : lines[i].forced # None])]]

(* post_event for a voucher not posted before.                              *)
PostEvent ==
    /\ txn = None /\ Len(db.events) < MaxEvents
    /\ \E lines \in LineLists, at \in Dates : txn' = Begun(None, at, lines)
    /\ UNCHANGED db

(* post_event for a voucher posted before: the id of the event, or an error  *)
(* when it was cancelled since; nothing is written.                         *)
RepostEvent == txn = None /\ db.events # <<>> /\ UNCHANGED vars

(* reverse_event with a reversal voucher of its own.                        *)
ReverseEvent ==
    /\ txn = None /\ Len(db.events) < MaxEvents
    /\ \E e \in DOMAIN db.events, at \in Dates :
          /\ db.events[e].state = "Posted"
          /\ \E own \in [1..Cardinality(Entries(e)) -> Entries(e)] :
                /\ \A i, j \in DOMAIN own : i < j => own[i] < own[j]
                /\ txn' = Begun(e, at, ReversalLines(own))
    /\ UNCHANGED db

(* reverse_event naming a reversal voucher that is already posted: the      *)
(* posting returns the old event and the original is cancelled all the same. *)
ReverseOntoPosted ==
    /\ txn = None
    /\ \E e, r \in DOMAIN db.events :
          /\ db.events[e].state = "Posted"
          /\ db.events[r].state = "Posted" /\ db.events[r].reverses # None
          /\ db' = [db EXCEPT !.events[e].state = "Cancelled"]
    /\ UNCHANGED txn

PostLine ==
    /\ txn # None /\ txn.lines # <<>>
    /\ LET l == Head(txn.lines) IN
          /\ Accepts(txn.work.bins[l.bin], txn.work.layers[l.bin], l)
          /\ txn' = [event |-> txn.event, at |-> txn.at, lines |-> Tail(txn.lines),
                      work |-> PostedLine(txn.work, txn.event, txn.at, l)]
    /\ UNCHANGED db

\* The last statement of reverse_event.
Final(w, e) ==
    IF w.events[e].reverses = None THEN w
    ELSE [w EXCEPT !.events[w.events[e].reverses].state = "Cancelled"]

Commit ==
    /\ txn # None /\ txn.lines = <<>>
    /\ db' = Final(txn.work, txn.event)
    /\ txn' = None

\* Mutant: the balance rows are written outside the transaction.
Rollback_KeepsBins ==
    /\ txn # None
    /\ txn' = None
    /\ db' = [db EXCEPT !.bins = txn.work.bins]

(* A line is refused, the enclosing document fails, or the process dies.    *)
Rollback ==
    /\ txn # None
    /\ txn' = None
    /\ UNCHANGED db

Init ==
    /\ db = [bins   |-> [b \in Bins |-> [qty |-> 0, value |-> 0, rate |-> 0]],
             layers |-> [b \in Bins |-> NoLayers],
             ledger |-> <<>>, events |-> <<>>]
    /\ txn = None

Next == \/ PostEvent \/ RepostEvent \/ ReverseEvent \/ ReverseOntoPosted
        \/ PostLine \/ Commit \/ Rollback

Spec == Init /\ [][Next]_vars

-----------------------------------------------------------------------------
BinEntries(b) == {k \in DOMAIN db.ledger : db.ledger[k].bin = b}
SumOf(field(_), K) == SumFunctionOnSet([k \in DOMAIN db.ledger |-> field(k)], K)
QtyOf(K)   == LET f(k) == db.ledger[k].qty    IN SumOf(f, K)
ValueOf(K) == LET f(k) == db.ledger[k].change IN SumOf(f, K)

(* The tables keep their types, ledger rows point at events.                *)
TypeOK ==
    /\ db.bins \in [Bins -> [qty : Int, value : Int, rate : Int]]
    /\ \A b \in Bins : \A k \in DOMAIN db.layers[b] :
          /\ k \in BinEntries(b) /\ db.layers[b][k].left \in 0 .. db.ledger[k].qty
    /\ \A k \in DOMAIN db.ledger : db.ledger[k].event \in DOMAIN db.events
    /\ \A e \in DOMAIN db.events : db.events[e].reverses \in 1 .. (e - 1) \cup {None}

(* The docstring of InventoryService calls the balances rebuildable: the     *)
(* immutable ledger alone determines every balance row, whatever mixture of  *)
(* methods, negative stock, reversals and failed events led there.           *)
LedgerRebuildsBalances ==
    \A b \in Bins :
        /\ db.bins[b].qty = QtyOf(BinEntries(b))
        /\ db.bins[b].value = ValueOf(BinEntries(b))
        /\ \A k \in BinEntries(b) :
              db.ledger[k].after = QtyOf({j \in BinEntries(b) : j <= k})

(* The layers of a FIFO bin hold at least its stock, so that an issue the    *)
(* balance allows never fails with "FIFO layers are short" and never falls   *)
(* back to the average rate; forced issues leave layers behind.              *)
LayersCoverStock ==
    \A b \in Bins : Method[b] = "FIFO" =>
        Left(db.layers[b], DOMAIN db.layers[b]) >= db.bins[b].qty

(* A bin that does not allow it never goes negative, reversals of receipts   *)
(* already consumed included (inventory.py 202-206).                         *)
NoNegativeStock ==
    \A b \in Bins \ AllowNegative : db.bins[b].qty >= 0

(* Without reversals and purchase returns, which force a cost, the stock and *)
(* the value of a FIFO bin are those of its open layers, in whatever order   *)
(* receipts were dated: issues consume exactly what they are charged for.    *)
(* Rounding is half a unit per entry.                                        *)
FifoValueIsLayers ==
    (\A e \in DOMAIN db.events : ~db.events[e].forced) =>
        \A b \in Bins \ AllowNegative : Method[b] = "FIFO" =>
            LET lay == db.layers[b]
                gap == Scale * db.bins[b].value
                         - SumFunction([k \in DOMAIN lay |-> lay[k].left * lay[k].cost])
            IN  /\ Left(lay, DOMAIN lay) = db.bins[b].qty
                /\ 2 * gap <= Scale * Cardinality(BinEntries(b))
                /\ -2 * gap <= Scale * Cardinality(BinEntries(b))

(* Issues take the layer with the oldest date first, whatever the order in   *)
(* which receipts were entered: a layer is touched while an older one is     *)
(* open only when the older one was entered after an issue (backdating).     *)
OldestLayerFirst ==
    \A b \in Bins : LET lay == db.layers[b] IN
        \A j, k \in DOMAIN lay :
            /\ lay[j].at < lay[k].at \/ (lay[j].at = lay[k].at /\ j < k)
            /\ lay[j].left > 0 /\ lay[k].left < db.ledger[k].qty
            => \E i \in BinEntries(b) : k < i /\ i < j /\ db.ledger[i].qty < 0

(* Issuing the whole stock of a moving-average bin at its running average    *)
(* leaves a residual value below half a unit per unit issued: the average is *)
(* refreshed by every entry, so that rounding never accumulates.             *)
ResidualIsRounding ==
    \A b \in Bins : \A k \in BinEntries(b) :
        LET before == {j \in BinEntries(b) : j < k}
            x      == db.ledger[k]
            last   == CHOOSE j \in before : \A i \in before : i <= j
        IN  (/\ Method[b] = "Moving Average" /\ x.qty < 0 /\ x.after = 0
             /\ before # {} /\ x.unit = db.ledger[last].rate)
            => /\ 2 * Scale * x.value <= Scale - x.qty
               /\ -2 * Scale * x.value <= Scale - x.qty

(* A reversal event puts back every quantity its original moved, bin by bin, *)
(* cancels it, and no event is reversed by two events.                       *)
ReversalsBalanceQuantity ==
    \A r \in DOMAIN db.events : db.events[r].reverses # None =>
        LET e == db.events[r].reverses IN
        /\ db.events[e].state = "Cancelled"
        /\ \A b \in Bins : QtyOf({k \in Entries(e) \cup Entries(r) : db.ledger[k].bin = b}) = 0
        /\ \A s \in DOMAIN db.events : db.events[s].reverses = e => s = r

(* docs/SAP_BUSINESS_ONE_MIGRATION_PLAN.md asks reversal and value           *)
(* invariants of the kernel: reversing the last event restores the values.   *)
ReversalRestoresValue ==
    \A r \in DOMAIN db.events : r > 1 /\ db.events[r].reverses = r - 1 =>
        \A b \in Bins :
            ValueOf({k \in Entries(r - 1) \cup Entries(r) : db.ledger[k].bin = b}) = 0
=============================================================================
