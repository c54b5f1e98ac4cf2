# A TLA+ verification of FastERP

FastERP (`src/`) is a Python and PostgreSQL ERP: sales and purchasing documents
over a general-ledger kernel and a perpetual-inventory kernel, a migration
pipeline from other ERP systems, and a web front end. This directory holds TLA+
models of its documents, its kernels and its migration pipeline, the TLC runs
that check them and the TLAPS proofs about them. `PROJECT.json` maps every
definition to the source lines it stands for, and names each run, finding,
hazard and theorem.

Contents: 1 inventory, 2 what is hard, 3 modules and their correspondence, 4
runs and bounds, 5 fairness, 6 proofs, 7 where the code departs from its
documents, 8 what is not modelled, 9 plan.

## 1. Inventory

Every service method opens `Database.transaction()` (`fasterp/database.py`
97-101) or joins the caller's connection; that is the unit of commit and
roll-back. PostgreSQL runs at READ COMMITTED.

| Component | State | Operations | Interacts with |
|---|---|---|---|
| Posting kernel, `accounting.py` | `posting_batches`, `gl_entries`, `fiscal_periods` | `post_voucher`, `reverse_batch` | called by sales, purchasing, openings, in their transaction |
| Inventory kernel, `inventory.py` | `inventory_events`, `inventory_ledger_entries`, `inventory_balances`, `inventory_cost_layers` | `post_event`, `reverse_event` | called by deliveries, receipts, returns, openings, which also post the value with the posting kernel |
| Sales, `sales.py` | order and its lines' counters, deliveries, invoices, payments, allocations, party ledger | `create_order`, `post_order`, `deliver`, `return_delivery`, `invoice`, `receive_payment`, `issue_credit_note` | both kernels, numbering |
| Purchasing, `purchasing.py` | the mirror image of sales | `create_order`, `post_order`, `receive`, `invoice`, `pay_supplier`, `return_receipt`, `issue_debit_note` | both kernels, numbering |
| Pre-orders, `preorders.py` | quotations, purchase requests, RFQs, supplier quotations | create, post, convert, award | creates sales and purchase orders |
| Numbering and audit, `documents.py` | `document_sequences`, audit events | `next_code`, `require_state`, `audit` | every handler, in its transaction |
| Database, `database.py` | one cached pool per settings | `open`, `close`, `connection`, `transaction` | everything |
| Migration run, `migration/staging.py` | run status, batches, staged records, checkpoints | `transition`, `discover`, `extract`, `approve` | connectors, apply |
| Migration apply, `apply.py`, `transactions.py`, `masters.py` | crosswalks, record status | `Applier.apply` with a handler per object | sales, purchasing, inventory services |
| Validation, reconciliation, orchestration | record errors, control artifacts | `validate`, `apply_opening_*`, `reconcile_financials`, `execute` | the run |
| UI facade, `db.py` | none on PostgreSQL; tables of its own as a SQLite demo | `confirm_order`, `deliver_order`, `invoice_order`, `record_payment`, `create_po`, `receive_po`, queries | sales and purchasing services |
| Commerce ingress, `web/api.py` | received orders by idempotency key | idempotent ingestion | none: nothing reads the rows again |
| Pages, sign-in, AI assistant, API catalogue, scripts | own stores | | the scripts call the services |

What makes each correct: the posting kernel posts a voucher once, balanced, and
never changes what it posted; the inventory kernel keeps balances and cost
layers that the ledger explains; sales and purchasing keep counters that are the
documents, within the tolerances, and a ledger that is worth what is open; a
pre-order is turned into an order once; a migration run applies every record
once in spite of crashes, and only after its gates; a caller of the services may
ask anything, and the services must hold all the same.

## 2. What is hard

No handler is long-running; what is hard is what two of them do together and
what a long sequence of them adds up to. `PROJECT.json` lists each hazard at its
line. In short:

- *Races*: two posts of one voucher pass the same unlocked look-up; two
  reversals want one batch; a period is locked between check and commit; a
  delivery, a return and a credit note meet only at the order's lines.
- *Waiting*: rows, unique keys, series rows and the advisory lock of the stock
  are taken in different orders by different handlers.
- *Failing half-way*: a later line of an event or document is refused after
  earlier ones changed balances and counters.
- *Drift*: counters, averages, layers and outstanding amounts are kept in place
  and rounded, over any sequence of legal calls.
- *Restart* (migration): a page is fetched, then staged; a record is looked up,
  then applied; each record is a transaction of its own; two processes may work
  on one run, and another run of the same source on the same records.
- *Stale requests*: a page reads what is open, and asks for it later.

## 3. Modules

### Accounting (`Accounting.tla`, `MCAccounting.tla`, `AccountingProofs.tla`)

Sessions are transactions. `session[s].pc` walks through the statements of
`post_voucher` and `reverse_batch`: `locking` (`SELECT ... FOR UPDATE` of the
original, 201-204), `checking` (`assert_period_open`), `lookup` (139-147),
`inserting` (148-189, where the unique key makes the session wait for an
uncommitted batch of the same voucher), `posted` (to the commit, where the
original becomes `Reversed`, 236-239). `batches` are the rows, with the session
that inserted them as `owner` until it commits. `Rollback` may happen anywhere
and stands for an error of the enclosing document, a lost connection or a crash.
Callers pass raw lines; `Normalized` rounds them half to even, as
`Decimal.quantize` does, before `Validates` compares totals. `SetPeriod` is the
administrator who locks and unlocks periods.

### Inventory (`Inventory.tla`, `MCInventory.tla`, `InventoryProofs.tla`)

`db` is the committed tables, `txn` the one transaction holding the company's
advisory lock with its working copy. `PostLine` is the whole of `_post_line`:
the new average or the FIFO layers consumed, the rate zero of an empty bin, the
ledger entry. Lines are posted one at a time and `Rollback` drops the copy in
between. Arithmetic is integer, in units of 1/`Scale`, rounded as the code
rounds and where it rounds. A caller asks with one of `LineLists`.
`ReverseEvent` posts the lines that `reverse_event` derives; `ReverseOntoPosted`
is its path when the reversal voucher is already posted.

### Money (`Money.tla`, `MoneyProofs.tla`)

Rounding half to even, sums over records, requests of one line to a given number
of them: what the document modules share, and the lemmas about it that their
proofs share.

### Order to cash (`OrderToCash.tla`, `SalesEntry.tla`, `MCOrderToCash.tla`, `OrderToCashProofs.tla`)

One order. A handler of `SalesService` is an operator on its request:
`PostOrder`, `DeliverLines`, `ReturnLines`, `InvoiceLines`, `Receive`,
`CreditInvoice` are the whole of `post_order`, `deliver`, `return_delivery`,
`invoice`, `receive_payment`, `issue_credit_note`, each one atomic step.
Atomicity is justified by the locks a handler takes on the documents it reads
(module `OrderLocking`) and by its single transaction; a refused handler leaves
no step. `Deliver`, `ReturnDelivery`, `Invoice`, `ReceivePayment`,
`IssueCreditNote` call them with any request of up to `RequestLines` lines,
possibly naming the same line several times, because the code checks such
requests differently: `deliver` applies each line before the next, `invoice`
checks them all first. Lines come in one order of many, on which nothing a
handler does depends. `gl` has the balance per account the handlers post to,
`party` the customer's party ledger. A voucher that the posting kernel would
refuse (an amount rounded to zero, base amounts that do not add up) makes the
handler fail (`Posts`). The valuation kernel is abstracted to the value an issue
takes off the stock and the average it leaves (any pair in `Charges`, in the six
decimals of the stock ledger, `Fine` units to one of the books). What is posted
is the sum over the document, rounded once (`Booked`): `Cost` of a delivery,
`ReturnValue` of a return, whose units come back at the rounded rate of their
own issue (`ReturnCost`); so partial returns need not add up to the delivery's
posting.

`SalesEntry` adds who really calls: the buttons of the order page
(`ConfirmOrder`, `DeliverRest`, `InvoiceRest`, `RecordPayment` are
`confirm_order`, `deliver_order`, `invoice_order`, `record_payment` of
`src/db.py`) and the import of another system's documents (`ImportOrder`,
`ImportInvoice`, `ImportPayment` of `migration/transactions.py`; imported
deliveries, returns and notes name any lines, which the open requests do). A
button of the page is several steps, because the code reads in statements of
their own before the handler's transaction: `PressDeliver` reads the status,
`ReadUndelivered` the quantities left, `DeliverRest` acts; `PressInvoice`,
`ReadInvoices`, `ReadUnbilled`, `InvoiceRest`; `PressPay`, `RecordPayment`.
`page[c]` is what clerk `c` has read, anything may happen to the order in
between, and so a delivery made from a stale page is refused or delivers what
was left then, and a page that looked before the first invoice may still make a
second one, as far as the limits allow. `GiveUp` is a handler that refused, or
nothing to do. The status read is the one the lines imply; that the stored one
may be older is finding 5, and the theorems do not depend on it, since they hold
for any request. Facts of the code the module keeps: the page bills no
order it finds an invoice of, not even after a full credit note, and names no delivery lines; an
imported invoice draws from the oldest line with something unbilled, be it of a
delivery or of a return; an imported payment is valued at the invoice's rate, so
a payment at another rate realises no gain or loss and the difference stays as
an advance.

### Procure to pay (`ProcureToPay.tla`, `PurchaseEntry.tla`, `MCProcureToPay.tla`, `ProcureToPayProofs.tla`)

The mirror image over `PurchasingService`, where it differs: a receipt has an
accepted and a rejected part, both in stock, both counted against the order;
returns take from either part and leave at the receipt's cost (`ReturnValue`), a
service line included when its item may go negative; an invoice line that names
a receipt clears its accrual at the receipt's cost, the rest is an expense
(`Accrual`, `ClearedAccrual`, `Expense`); a debit note takes its share of the
net and tax rounded once (`DebitLine`, where a credit note multiplies a rounded
unit amount; the share is a quotient of `Digits` kept digits, `Share`, as the
code divides before it multiplies) and restores the accrual. Costs have six
decimals and amounts four (`Fine`, `Scale`). Items at standard cost, whose
receipts are booked at standard and cleared at the order's cost, are left out.
`PurchaseEntry` has the page (`PlaceOrder` is the second transaction of
`create_po`; `PressReceive`, `ReadMissing` and `ReceiveRest` are `receive_po`)
and the imports.

### Pre-orders (`Preorders.tla`, `MCPreorders.tla`, `PreordersProofs.tla`)

The documents before an order as sequences: quotations, sales orders, requests,
requests for quote, supplier quotations, purchase orders. One action per
operation of `PreorderService`, and one per import handler: `ImportRfq` and
`ImportUnaskedQuote` make the documents they miss on the way, in the one
transaction of their record. An award looks at its quotation only, so two
quotations of one request may both be ordered; a conversion that names a line
twice passes its check twice. The properties say what stays true then.

### Migration (`MigrationRun.tla`, `Cutover.tla`, `MCMigrationRun.tla`, `MigrationRunProofs.tla`)

A session is a process: `execute()` of the orchestrator, which makes a run and
carries it through its calls (`DryRun`, `CutoverRun`), or an operator's script
that carries an existing run on from any call, with `restart` or without. Each
step is one transaction or one request to the source: `BeginDiscover`,
`FailConnection` (the connection test of `execute`, after which a run is
Failed), `EndDiscover`, `KeepManifest` (the manifest, stored in a transaction
after the discovery's); `OpenObject`, `FetchPage` (outside any transaction),
`StagePage` (rows and checkpoint together); `Scope`; `EndValidate`; `Approve`;
`ListRecords`, `OpenStock`, `OpenLedger`, then `LookUp` and `Commit` or `Refuse`
per record; `Counts`, `EndFinancials`; `Failback`. Any step may be followed by
`Crash`; the source may fail at any request, refuse any document, and change a
payload or its capabilities in between (`ChangeSource`). `HandleError` and
`Unwind` are what the `except` clauses write. `RunTransitions` is the state
machine of a run; a `session[s].controls` is what the caller passed as
`before_transactions`: `None` when nothing, or the parts whose opening controls
are not empty; apply posts these before the first record of a transactional
object, and a run given none completes without openings. A transition to the
status a run has already is accepted, which is how a run left in `Applying` is
resumed. `LookUp` and `Commit` are two steps of one transaction, since another
process may commit the record's crosswalk between them; the unique keys
(`Unique`) are what refuses then.

`Cutover` is what the pipeline promises: a record becomes at most one document,
after those it refers to; a run's openings are posted at most once; nothing is
taken back. `MigrationRun!Implements` is that specification under the mapping
`imported <- effects`. What a completed run amounts to is `CutoverIsWhole`,
because it depends on what the run was given.

### Concurrent handlers (`OrderLocking.tla`, `MCOrderLocking.tla`, `OrderLockingProofs.tla`)

The same handlers of one order, as sessions that take locks one by one.
`Plan(q)` is the sequence of locks of a request, as the code takes them:

| Handler | Locks, in order |
|---|---|
| `deliver` | order FOR UPDATE, series, lines FOR UPDATE, stock if the lines have goods |
| `invoice` | order FOR UPDATE, series, lines FOR UPDATE |
| `return_delivery` | delivery FOR UPDATE, series, lines FOR UPDATE, stock |
| `issue_credit_note` | invoice FOR UPDATE, series, order KEY SHARE (its foreign key), lines by UPDATE |

All of them end with `_refresh_order_status`: a `SELECT` of the lines without a
lock (`ReadLines`) and an `UPDATE` of the order (`WriteStatus`), two statements
between which others may commit. `Conflict` is PostgreSQL's conflict table for
the modes used. A line's row is checked and changed when its lock is taken, and
others see the change at `Commit`. `Deadlocked` and `BreakDeadlock` are
PostgreSQL's deadlock detector; delivery and return of one line do deadlock.

## 4. Runs

| Run | Question | Bounds | Result |
|---|---|---|---|
| `accounting` | do racing posts and reversals keep a balanced, append-only ledger without duplicates, and does every request end? | 2 sessions, 3 batch ids, 3 vouchers, 1 period, 4 line lists | holds |
| `accounting_reversal` | is every Reversed batch offset? | as above, 2 vouchers | violated, see 7 |
| `accounting_period` | does nothing get posted into a locked period? | as above, 2 vouchers | violated, see 7 |
| `inventory` | do balances, layers, averages and ledger agree? | 4 bins (average, FIFO, FIFO negative, standard), 2 dates, 15 line lists, 4 events | holds |
| `inventory_reversal` | does reversing the last event restore the value? | as above | violated, see 7 |
| `order_to_cash` | do counters, invoices, ledger and party ledger agree over any sequence of handlers, and what makes an order over-billed? | `EntrySpec`: a goods and a service line, quantities 1 and 2, requests of 2 lines, 3 payment requests, 2 imported payments, 1 clerk with 2 amounts, 4 documents (119,652 states) | holds |
| `order_to_cash_billing` | is billing within the tolerance? | as above, requests of 3 lines | violated, see 7 |
| `order_locking` | do concurrent handlers lose nothing, respect the limits and end? | 2 sessions, 2 lines, 8 requests, 3 documents beyond the first (22,470 states) | holds |
| `order_locking_status` | is the status at rest the one the lines imply? | as above | violated, see 7 |
| `procure_to_pay` | do counters, clearing account and payables agree over any sequence of handlers, and how far can an order be exceeded? | `EntrySpec`: a goods line of 2 and a service line, 2 ways to receive, requests of 2 lines, 3 payment requests, 1 imported payment, 1 clerk, 4 documents (70,136 states) | holds |
| `preorders` | are the orders made those that quotations and requests count? | 2 suppliers, forms of 2 lines, 4 requests of lines, 2 imported payloads, 6 documents, at most 2 of a kind | holds |
| `migration` | does a pipeline that crashes, resumes and runs twice implement `Cutover`, and what has it posted when it relies on it? | 2 sessions, 5 records in 2 objects, pages of 2, 1 rehearsal before, 2 starts, openings with controls, with empty ones or not asked for, 1 change of the source (557,789 states) | holds |

Why the bounds are enough for what they ask. *Accounting*: a race needs two
sessions; three ids give a voucher, its reversal and the reversal of the
reversal, or a second voucher while a reversal runs; the four line lists are
plain, balanced only before rounding, balanced only after rounding, and balanced
with a negative credit. *Inventory*: four events admit a receipt at two costs,
an issue that consumes both layers, a backdated receipt, and a reversal of any
of them; `Scale` = 1 makes every division round. *Order to cash*: four documents
admit a delivery, its return in part, an invoice and its credit note or payment,
or two of one kind between a page's read and its action; one clerk is enough for
a stale page, since the other handlers may all run in between; requests of two
lines are the least to name a line twice, and longer requests are covered by the
theorems, which are about requests of any length; `Scale` = 2 and `Exchange` = 3
give a rate of 1.5 that rounds every odd amount, and `Fine` = 3 a cost of 7 that
rounds when it is posted and when it comes back unit by unit. *Locking*: two
sessions show every pairwise conflict and every two-session deadlock; the
initial delivery and invoice make returns and credits possible at once. Larger
numbers of sessions are covered by the proofs, not by TLC. *Order to cash,
entry*: the amounts 2 and 9 of the page pay an invoice in part and are cut to
what is open. *Procure to pay*: a receipt tolerance of a half admits three units
of two ordered, so returns and a second receipt fit; `Fine` = 3 with an exchange
rate of 2.5 makes each cost round. *Pre-orders*: one request, two requests for
quote and two quotations are the least for two awards of one request; a form of
two lines makes a partial order; the payloads refer to lines in their own order
and in another, and ask too much. *Migration*: two pages give a checkpoint in
the middle of an object; the records are one with a reference (and a payload
that is rejected), one cancelled, one out of scope and one without handler; two
starts are two runs, a run and its resumption, or two processes on one run; one
change of the source gives a changed record or changed capabilities. Symmetry is
on sessions and on suppliers, which no property tells apart.

Deadlock is checked in all runs except those of order to cash, procure to pay,
pre-orders and migration, which have nothing left to do once an order is
settled, `MaxDocuments` is reached or the starts are used up; in `OrderLocking`
the states where everything is posted stutter through `Done`, so a deadlock of
sessions would be reported.

Properties worth a word:

- `AckedIsDurable`: an id a caller got back is a committed batch of the voucher
  it asked for, whoever rolled back in between.
- `LayersCoverStock` and `FifoValueIsLayers`: the layers of a FIFO bin hold at
  least its stock, so no issue the balance allows finds them short; and exactly
  its stock and its value, unless an event forced a cost.
- `ReceivableIsOutstanding`, `PayableIsOutstanding`: the account is the sum of
  what is open, less advances, within half a unit per rounding made, and the
  party ledger differs from it by exactly the exchange gains and losses.
- `CreditsStayWithinInvoice`: partial credits exceed the invoice at most by the
  rounding of the unit tax.
- `CostFollowsGoods`: the cost of sales is what the issues took off the stock
  less what came back, within half a unit for every delivery and return posted.
- `OverbillingIsOneInvoice`, and the same in `OrderLimitsHold`: a request may
  name a line several times and over-bill it, without a fixed bound; but then a
  single invoice did it. The excess of a line is at most what all but one of
  that invoice's lines bill, and no sequence of invoices, notes, returns and
  stale pages gets there otherwise.
- `CutoverIsWhole`: a cutover that was given openings writes no transaction
  before they are posted; and when it compares the totals every record of its
  source is staged and, if no count has failed, every record in scope that its
  handler does not archive is a document, whoever else worked on the run.
- `ClearingIsUnbilled`: the clearing account is the received goods neither
  returned nor billed, at their receipt's cost. A service line that is returned
  is debited there though its receipt never credited it; `Uncleared` says so.
- `OrdersAreTraced`: ordered quantities are the orders made, along the whole
  chain, over-ordering only by a request that names a line twice or by a second
  award.
- `CheckpointCovers`, `CrosswalkIsTruth`, `Implements`: nothing is skipped,
  reported without having been done, or done twice.
- `LimitsHold`: handlers that passed their checks at the same time do not exceed
  a limit together, and the `GREATEST(.., 0)` of a credit note never cuts.
- `OrderLockRefreshes`: a delivery or invoice commits the status of the lines it
  commits, even after another handler left a stale one.

## 5. Fairness

Liveness is checked in `accounting` and `order_locking` (`EveryRequestEnds`). A
transaction that is not waiting runs its next statement: weak fairness of those
steps. Statements that wait for a lock or a unique key have strong fairness:
PostgreSQL queues waiters and wakes them in order, so one that can proceed again
and again does. `BreakDeadlock` has weak fairness: the detector runs after
`deadlock_timeout`. No fairness is put on `Begin...`, `Rollback`, `SetPeriod`:
nobody is obliged to send requests, fail, or administer periods.

## 6. Proofs

TLAPS checks eight proof modules, for every value of the constants that
satisfies the assumptions stated in the modules: `ScaleAssumption`,
`BatchIdAssumption`, `VoucherAssumption`, `NoneAssumption` (accounting),
`InventoryAssumption`, `OrderAssumption` and `EntryAssumption` (order to cash),
`PurchaseAssumption` and `EntryAssumption` (procure to pay),
`LockingAssumption`, `PreorderAssumption`, `MigrationAssumption`. They give the
constants their types and keep the null value apart from the values it stands
beside; of the data they say what the services refuse otherwise (an order line
has a positive quantity, a line list is not empty) or what a column cannot hold.
The bounds of the runs, numbers of documents, events, batches, are constants as
well and may have any value.

**`AccountingProofs`**: `TypeCorrect`, `PostsOnce`, `AlwaysBalanced`,
`ReversesOnce`, `AcknowledgedStays`, `AppendOnly`. The properties are not
inductive: that no voucher is posted twice depends on rows not yet committed, so
`UniqueInv` is over all stored rows, and `OwnerInv` ties an uncommitted row to
the session about to commit it. That no batch is reversed twice depends on
`HolderAlone` (one session holds the original) and `HolderMirrors` (the original
stays Posted and the session's lines are its mirror while it is held). A
reversal is balanced because its debits are the credits of a balanced batch: the
sums stay opaque, so no induction over lines is needed.

**`MoneyProofs`**: what a sum over a set or a sequence does when a term is
added, removed or changed, when terms are grouped (a quantity per line, summed
over the lines), and that rounding half to even is monotone, exact on multiples
and off by at most half. The library's induction theorems take an operator as a
parameter and cannot be used here. Its theorem that a set of natural numbers has
a least element takes a set, and is enough: `NatSetInduction` and
`FiniteSetInduction` are induction stated of the set of numbers, or of subsets,
for which the fact holds.

**`InventoryProofs`**: `TypeCorrect`, `LedgerIsBalances`, `LayersSuffice`,
`StockNonNegative`, `OldestIssuedFirst`, `ResidualRounding`, `ReversalsBalance`
and `FifoLayersValue`, for any bins and valuation methods and any lists of
lines. The invariant `Sound` is stated of any tables (`Tables`), since it holds
of the committed ones and of the working copy of the open transaction. Three of
its parts strengthen what the runs check. `Touched`: a layer that is no longer
whole was entered before some issue of its bin; so when an older layer is
entered later, that issue came between them, and nothing passed the older layer
over. `Averaged`: the last row of a bin carries the rate of its balance, and
that is the ratio of value and quantity; the residue of an emptied bin is the
difference the rounding of that ratio made. `Reversing`: the rows a reversal has
posted, the lines it has left and the rows of its original add up to nothing in
every bin, which is what makes a reversal complete at its commit whatever order
its lines are posted in. `FifoLayersValue` has a hypothesis on the callers,
`NoLandedCost`: no receipt of FIFO goods carries an additional cost. The code
adds that cost to the value of the bin and not to the cost of the layer
(`inventory.py` 214), so the value would exceed the layers by it; no service of
the repository sends one, and the line lists of the run satisfy the hypothesis.
Under it `ValuedThroughout` is inductive: as long as no event forced a cost, the
layers of a FIFO bin that may not go negative are its stock and, within half a
unit per row, its value, and no line of the open transaction will force one.

**`OrderToCashProofs`**: `TypeCorrect`, `CountersCorrect`, `NetDeliveryCorrect`,
`CostCorrect`, `OutstandingCorrect`, `ReceivableCorrect`, `CreditsCorrect`,
`OverbillingCorrect`, as theorems of `EntrySpec`, so for every mix of handlers
called by the buttons, by the import and by open requests. A step of any of
these is a handler called with some request (`EntryIsHandlers`), and each
handler has a lemma per part of the invariant. `Sound` is types and references:
a goods row draws on a line of the order, a document line on a goods row, a note
on an invoice, what was returned or credited is at most what there was. Each of
the others adds the counting it needs to `Sound`: `Counted` equates the counters
of a line, and what was billed of a goods row, with sums over the documents;
`CostCounted` the cost of sales with a sum over the goods rows, within half a
unit per document of goods; `PaidCounted` what was paid on a document with the
payments and notes that paid it; `ReceivableCounted` the receivable with what is
open less the advances, within half a unit per rounding; `CreditsCounted` the
notes of an invoice with the unit prices of the credited quantities;
`Overbilled` keeps, for every line and goods row above its limit, the invoice
that did it: what is above grows by one invoice only from within the limit, or
stays the doing of an earlier one, as each line of a request is checked against
what was read. A request may name a line twice, so what a handler did to a row
is a sum over its request, which `Over` and the grouping lemmas of `MoneyProofs`
carry.

**`ProcureToPayProofs`**: `TypeCorrect`, `CountersCorrect`, `LimitsCorrect`,
`PayableCorrect`, `ClearingCorrect`, of `EntrySpec`, laid out as the proofs of
sales. `Sound` is types and references: a receipt row belongs to a document made
no later than itself and gives back at most what each of its parts took, a
return row gives back nothing; an invoice has no invoice it is against, a debit
note an earlier one, and no line is debited beyond its quantity; a document is
Unpaid, Partly Paid or Paid according to what it has open, and it never has open
more than its total. `Counted` equates the counters of a line, what was billed
of a goods row and what was debited of a line with sums over the documents. A
return takes from the accepted and the rejected part of a row in one step, so
its request is read as two requests, one for each part (`AcceptedHalf`,
`RejectedHalf`). `KeptWithin` is the limit on what is kept: a receipt is checked
with what its own request adds to the line and stays within, and that returns
leave nothing negative follows from `Counted`; `invoice` checks every line of a
request against what it read before, so an excess is the doing of one invoice,
of all but one of its lines (`Overbilled`), however many lines it has.
`PaymentsCounted` says that payments pay invoices that exist, that what was paid
of an invoice is what payments and notes paid, and that the payable account is
worth what is open; `ClearingCounted` that a line drawn from a receipt row is of
the row's order line, and that the clearing account is worth `Unbilled`, the
rows' cost and what notes put back. Both accounts are kept in rounded amounts,
so the equation is `Near`: within half a unit per rounding. Each handler is
shown to post an amount that is `Near` its exact one (`HalfEvenNear`), the
roundings adding up (`NearAdds`, `NearSum`).

**`OrderLockingProofs`**: `TypeCorrect`, `NoLostUpdate`, `LimitsAlways`,
`StatusRefreshed`, for any number of sessions, lines and requests. The invariant
`IInv` says that locks exclude; that a row a session prepared is the committed
row after its change, passed its check, and is locked by the session
(`RowsReady`); that counters are documents; that lines are within their limits;
and that a session holding the order for update has the status of the lines as
they are (`StatusCurrent`). It is needed because a commit writes rows computed
earlier: they are still right because nobody else can have changed a line whose
lock is held (`LineLocksConflict` with `LocksExclude`). A commit keeps
`StatusCurrent` of the others because none of them can hold the order for update
while the committing session holds it for its status. `PlanType` is the fact
about the plans all this rests on: they are non-empty, take lines only with
locks that exclude, and begin with the order's row for `deliver` and `invoice`.
Nothing is assumed of callers beyond `LockingAssumption`: a request names each
line at most once (`IsInjective`); requests naming a line twice are the subject
of `order_to_cash`.

**`PreordersProofs`**: `TypeCorrect` and `OrdersTraced`, for any forms, payloads
and suppliers. Sales and purchasing share no document, so the invariant has a
part for each (`Sales`, `Purchases`), stated of any sequences of documents: an
import that makes a request, a request for quote and a quotation in one
transaction is then three small steps, each with its lemma. `Traced` says that a
line's ordered quantity is what the orders draw from it (`DrawnQty`, a sum over
pairs of an order and one of its lines) and that the status is Ordered exactly
when nothing is left. Its other parts are what this rests on: documents refer to
documents that exist, and lines taken fit the lines they are taken from
(`Fits`), from order to quotation to request for quote to request, so an award
finds every line it counts. A request for quote sets the request's status
without looking at it, and does not hide that all is ordered only because its
own lines are checked against what is left (`AllowedLeaves`).

**`MigrationRunProofs`**: `TypeCorrect`, `CheckpointsCorrect`,
`CrosswalkCorrect`, `CutoverCorrect` and the refinement, `RunsImplementCutover`:
`Spec => Implements`, every behaviour of the pipeline is one of `Cutover`, for
any source, any number of processes, crashes and resumptions. The invariant
`Sound` says of the tables what their rows are, and of each session, by the step
it stands at, what its local variables still know of the tables it read a
transaction ago (`Knows`): the page it is about to stage follows rows already
staged up to its cursor, the records it lists have the payload they were staged
with, the crosswalk it found is still there. The other sessions cannot make that
false because the tables only grow (`Grows`); what they can do, commit the same
record first, is what the unique keys refuse. A step of `Cutover` is recognised
by what it writes: an effect (`RecordImported`) or an opening (`VoucherPosted`);
every other step leaves both alone and is a stutter. `CutoverCorrect` needs a
second invariant on top of `Sound`, `Careful`: a record is skipped only when it
is out of scope (`SkippedOld`), and a session's position says what its run has
by then (`Aware`): which objects it has staged, whether its openings are posted,
and, once the counts are done, that everything is imported.

Only model-checked:

- Liveness and everything that needs ENABLED is out of the prover's reach:
  `EveryRequestEnds` (both).
- The counterexamples of section 7, which are runs.

## 7. Where the code departs from its documents

1. `reverse_batch` marks the original Reversed when the reversal voucher was
   already posted and nothing was written (`accounting.py` 236; run
   `accounting_reversal`).
2. A period locked after the check still receives the posting (`accounting.py`
   138; run `accounting_period`).
3. `reverse_event` prices a reversal at the average after the line it reverses,
   so the value is not restored (`inventory.py` 401; run `inventory_reversal`).
4. An invoice that names an order line twice is checked twice against the old
   quantity (`sales.py` 314; run `order_to_cash_billing`).
5. `return_delivery` and `issue_credit_note` compute the order's status without
   its lock, and may leave an older status than the lines imply (`sales.py` 693,
   875; run `order_locking_status`).

Each run ends with a trace of the behaviour.

Behaviour the models keep that no document of the repository contradicts, and
that a maintainer may want to know: two transactions make a `create_po`, and a
failure between them leaves a draft without a button; a purchase return does not
look at what was billed, and an invoice not at what was returned; base amounts
rounded line by line can make an invoice unpostable; a failed run may go from
`Failed` to `Applying` without a new approval, and to `Validating` with its
extraction incomplete, and then completes with the records it has; an extractor
that fails late overwrites any status with `Failed`; validation issues are never
resolved, so a run that had one is never approved; a cutover compares the
source's capabilities with the rehearsal's, not its contents; a second run of a
source posts its opening balances again (`Cutover` promises them per run); a
reference to an archived record resolves to the archive's identifier; the
manifest's unique sequence numbers can refuse the first record of a resumed run
when records before it changed status.

## 8. What is not modelled

- Commerce ingress: one look-up and one insert under two unique keys; nothing
  reads the rows again. The pool of `database.py`: opened once, closed at exit.
- Master data, field mapping and connectors: upserts, parsing and HTTP without
  protocol; what the pipeline relies on, pages and a cursor that ends, is an
  input of `MigrationRun`. What `reconcile_financials` compares is a comparison
  that may succeed or fail.
- `create_expense`, `create_journal`, `apply_journal`, `apply_stock_entry`: each
  hands one voucher to a modelled kernel and has no action of its own.
- The SQLite demo behind `db.py`, pages, sign-in, AI assistant, API catalogue
  and scripts: rendering, queries and drivers without protocol state.
- In the modelled modules: codes and audit rows (written, never read back by the
  handlers); several companies (every table is keyed by company, so they do not
  interact except at the pool); invoices that name a delivery line in
  `OrderLocking`, and payments, whose lock order the caller chooses; fractional
  quantities (quantities are whole, money is rounded); items at standard cost in
  `ProcureToPay` and, for returns, in `OrderToCash`; customers, suppliers,
  warehouses and tax codes that are missing or inactive, which make a handler
  fail before it writes.

## 9. Plan

Done: `Accounting`, `Inventory`, `OrderToCash` with `SalesEntry`,
`OrderLocking`, `ProcureToPay` with `PurchaseEntry`, `Preorders`, `MigrationRun`
with `Cutover`; the proofs of `Accounting`, `Inventory`, `OrderToCash`,
`OrderLocking`, `ProcureToPay`, `Preorders` and `MigrationRun`, the refinement
of `Cutover` among them: every safety property a passing run checks is a
theorem. Next:

1. An append-only ledger of balanced vouchers as an abstract specification that
   `Accounting` implements, committed batches being its entries.
