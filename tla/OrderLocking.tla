----------------------------- MODULE OrderLocking -----------------------------
(***************************************************************************)
(* Concurrent handlers of one sales order: the transactions of deliver,    *)
(* invoice, return_delivery and issue_credit_note in src/fasterp/sales.py, *)
(* lock by lock, under PostgreSQL's READ COMMITTED.                        *)
(*                                                                         *)
(* A session runs one handler.  It takes the handler's locks in the order  *)
(* the code takes them and holds them to the end of its transaction; with  *)
(* the lock of an order line it checks the line and changes it, unseen by  *)
(* others until the commit.  Then _refresh_order_status reads all lines    *)
(* without a lock and, as a second statement, writes the status, for which *)
(* it needs the order's row.  PostgreSQL refuses one session of a cycle of *)
(* waiting sessions.  One delivery and one invoice were posted before, and *)
(* those are the ones returned and credited.  Invoices here bill the order *)
(* and name no delivery line, whose row would be one more lock.            *)
(***************************************************************************)
EXTENDS Integers, Sequences, FiniteSets, Functions

CONSTANTS
    Sessions,
    Lines,         \* lines of the order
    Goods,         \* lines whose item is an inventory item
    Ordered,       \* Ordered[l], also what may be delivered and what may be billed
    First,         \* First[l]: quantity of the earlier delivery and of the earlier invoice
    Requests,      \* [op, lines, qty, coded] that callers send
    MaxDocuments,  \* bound on the documents posted
    None

Ops == {"deliver", "invoice", "return", "credit"}

ASSUME LockingAssumption ==
    /\ IsFiniteSet(Sessions) /\ IsFiniteSet(Lines) /\ Goods \subseteq Lines
    /\ Ordered \in [Lines -> Nat \ {0}] /\ First \in [Lines -> Nat]
    /\ \A l \in Lines : First[l] <= Ordered[l]
    /\ \A q \in Requests :
          /\ q.op \in Ops /\ q.qty \in Nat \ {0} /\ q.coded \in BOOLEAN
          /\ q.lines \in Seq(Lines) \ {<<>>} /\ IsInjective(q.lines)

VARIABLES
    line,     \* committed rows of the order's lines
    status,   \* committed status of the order
    posted,   \* posted[op][l]: quantity of l in the committed documents of op
    session   \* what each session runs

vars == <<line, status, posted, session>>

-----------------------------------------------------------------------------
(* Locks.  A resource is taken for the strongest use the handler makes of   *)
(* it: FOR UPDATE, UPDATE of columns that are no key, or the KEY SHARE lock *)
(* that inserting a row with a foreign key takes on the row it refers to.   *)
Lock(kind, of, mode) == [kind |-> kind, of |-> of, mode |-> mode]

Conflict(a, b) ==
    /\ a.kind = b.kind /\ a.of = b.of
    /\ \/ "for update" \in {a.mode, b.mode}
       \/ a.mode = "update" /\ b.mode = "update"

OrderLock(mode) == <<Lock("order", None, mode)>>
LineLocks(q, mode) == [i \in DOMAIN q.lines |-> Lock("line", q.lines[i], mode)]

\* Without a code of its own a document takes the next of its series.
Series(q) == IF q.coded THEN <<>> ELSE <<Lock("series", q.op, "for update")>>

\* Inventory events are serialised by an advisory lock of the company; a
\* delivery posts one if it has goods, a return always does.
Stock(q) ==
    IF q.op = "return" \/ \E i \in DOMAIN q.lines : q.lines[i] \in Goods
    THEN <<Lock("stock", None, "for update")>> ELSE <<>>

\* The locks of a handler, in order.  Mutant: lines are read without a lock.
Plan_NoLineLocks(q) ==
    (IF q.op \in {"deliver", "invoice"} THEN OrderLock("for update")
     ELSE <<Lock("document", q.op, "for update")>>) \o Series(q) \o LineLocks(q, "key share")
Plan(q) ==
    CASE q.op = "deliver" ->
           OrderLock("for update") \o Series(q) \o LineLocks(q, "for update") \o Stock(q)
      [] q.op = "invoice" ->
           OrderLock("for update") \o Series(q) \o LineLocks(q, "for update")
      [] q.op = "return" ->
           <<Lock("document", q.op, "for update")>> \o Series(q)
             \o LineLocks(q, "for update") \o Stock(q)
      [] q.op = "credit" ->
           <<Lock("document", q.op, "for update")>> \o Series(q)
             \o OrderLock("key share") \o LineLocks(q, "update")

Idle == [pc |-> "idle", req |-> None, at |-> 0, rows |-> None, seen |-> None]

Active(s) == session[s].pc # "idle"

\* The locks s holds: those of its plan it went past, and the order's row once
\* it wrote the status.
Holds(s) ==
    IF ~Active(s) THEN {}
    ELSE {Plan(session[s].req)[i] : i \in 1..(session[s].at - 1)}
           \cup (IF session[s].pc = "committing" THEN {Lock("order", None, "update")} ELSE {})

\* The lock s needs for its next step, if any.
Needs(s) ==
    CASE session[s].pc = "locking" -> {Plan(session[s].req)[session[s].at]}
      [] session[s].pc = "writing" -> {Lock("order", None, "update")}
      [] OTHER -> {}

\* The sessions that keep s waiting.
Blockers(s) ==
    {t \in Sessions \ {s} : \E a \in Holds(t), b \in Needs(s) : Conflict(a, b)}

\* s waits, over other waiting sessions, for itself.
Deadlocked(s) ==
    \E n \in 1..Cardinality(Sessions) : \E p \in [1..n -> Sessions] :
        /\ p[1] = s
        /\ \A i \in 1..n : (IF i = n THEN s ELSE p[i + 1]) \in Blockers(p[i])

-----------------------------------------------------------------------------
\* The row of a line after the handler changed it.  Mutant: a return takes the
\* delivery back.
Changed_Undelivers(op, row, qty) ==
    CASE op = "deliver" -> [row EXCEPT !.delivered = @ + qty]
      [] op = "invoice" -> [row EXCEPT !.invoiced = @ + qty]
      [] op = "return"  -> [row EXCEPT !.delivered = @ - qty]
      [] op = "credit"  -> [row EXCEPT !.invoiced = IF @ > qty THEN @ - qty ELSE 0,
                                       !.credited = @ + qty]
Changed(op, row, qty) ==
    CASE op = "deliver" -> [row EXCEPT !.delivered = @ + qty]
      [] op = "invoice" -> [row EXCEPT !.invoiced = @ + qty]
      [] op = "return"  -> [row EXCEPT !.returned = @ + qty]
      [] op = "credit"  -> [row EXCEPT !.invoiced = IF @ > qty THEN @ - qty ELSE 0,
                                       !.credited = @ + qty]

\* The check of the line, against the row read with its lock.  Mutant: what
\* was ordered may be returned, not what the delivery has.
Allowed_Ordered(op, l, row, qty) ==
    CASE op = "deliver" -> row.delivered + qty - row.returned <= Ordered[l]
      [] op = "invoice" -> row.invoiced + qty <= Ordered[l]
      [] op = "return"  -> row.returned + qty <= Ordered[l]
      [] op = "credit"  -> row.credited + qty <= First[l]
Allowed(op, l, row, qty) ==
    CASE op = "deliver" -> row.delivered + qty - row.returned <= Ordered[l]
      [] op = "invoice" -> row.invoiced + qty <= Ordered[l]
      [] op = "return"  -> row.returned + qty <= First[l]
      [] op = "credit"  -> row.credited + qty <= First[l]

\* The status the counters imply.
StatusOf(rows) ==
    LET sum(f) == SumFunction([l \in Lines |-> rows[l][f]])
        net == sum("delivered") - sum("returned")
        ordered == SumFunction(Ordered)
    IN  CASE sum("invoiced") >= ordered                       -> "Invoiced"
          [] sum("invoiced") < ordered /\ sum("invoiced") > 0 -> "Partly Invoiced"
          [] sum("invoiced") <= 0 /\ net >= ordered           -> "Delivered"
          [] sum("invoiced") <= 0 /\ net < ordered /\ net > 0 -> "Partly Delivered"
          [] OTHER                                            -> "Confirmed"

\* The rows s reads: its own changes, and what is committed.  Mutant: only that.
View_Committed(s) == line
View(s) ==
    [l \in Lines |-> IF l \in DOMAIN session[s].rows THEN session[s].rows[l] ELSE line[l]]

Documents == SumFunction([op \in Ops |-> SumFunction(posted[op])])

-----------------------------------------------------------------------------
(* A caller sends a request; bounded by what may still be posted.           *)
Begin(s) ==
    /\ ~Active(s)
    /\ \E q \in Requests :
          /\ Documents + Len(q.lines) * q.qty <= MaxDocuments
          /\ session' = [session EXCEPT ![s] =
                [pc |-> "locking", req |-> q, at |-> 1, rows |-> [l \in {} |-> None],
                 seen |-> None]]
    /\ UNCHANGED <<line, status, posted>>

\* What s does with the lock it takes: the row of a line is checked and changed.
Taken(s) ==
    LET q == session[s].req
        lock == Needs(s)
        ls == {l \in Lines : \E a \in lock : a.kind = "line" /\ a.of = l}
    IN  /\ \A l \in ls : Allowed(q.op, l, line[l], q.qty)
        /\ session' = [session EXCEPT
              ![s].at = @ + 1,
              ![s].pc = IF session[s].at = Len(Plan(q)) THEN "refreshing" ELSE "locking",
              ![s].rows = [l \in DOMAIN @ \cup ls |->
                  IF l \in ls THEN Changed(q.op, line[l], q.qty) ELSE session[s].rows[l]]]

Acquire(s) ==
    /\ session[s].pc = "locking"
    /\ Blockers(s) = {}
    /\ Taken(s)
    /\ UNCHANGED <<line, status, posted>>

\* A statement fails (no stock, an unbalanced voucher), or the connection.
Rollback(s) ==
    /\ Active(s)
    /\ session' = [session EXCEPT ![s] = Idle]
    /\ UNCHANGED <<line, status, posted>>

\* The check of a line fails and the handler raises.  Mutant: the transaction
\* stays open, with its locks.
Refuse_LeftOpen(s) ==
    /\ session[s].pc = "locking"
    /\ Blockers(s) = {}
    /\ \E l \in Lines, a \in Needs(s) :
          a.kind = "line" /\ a.of = l /\ ~Allowed(session[s].req.op, l, line[l], session[s].req.qty)
    /\ UNCHANGED vars
Refuse(s) ==
    /\ session[s].pc = "locking"
    /\ Blockers(s) = {}
    /\ \E l \in Lines, a \in Needs(s) :
          a.kind = "line" /\ a.of = l /\ ~Allowed(session[s].req.op, l, line[l], session[s].req.qty)
    /\ Rollback(s)

\* The deadlock detector refuses a waiting session of a cycle.
BreakDeadlock(s) ==
    /\ Deadlocked(s)
    /\ Rollback(s)

\* _refresh_order_status: SELECT ... FROM sales_order_items.
ReadLines(s) ==
    /\ session[s].pc = "refreshing"
    /\ session' = [session EXCEPT ![s].seen = StatusOf(View(s)), ![s].pc = "writing"]
    /\ UNCHANGED <<line, status, posted>>

\* _refresh_order_status: UPDATE sales_orders SET status.
WriteStatus(s) ==
    /\ session[s].pc = "writing"
    /\ Blockers(s) = {}
    /\ session' = [session EXCEPT ![s].pc = "committing"]
    /\ UNCHANGED <<line, status, posted>>

Commit(s) ==
    /\ session[s].pc = "committing"
    /\ LET q == session[s].req
           ls == DOMAIN session[s].rows
       IN  /\ line' = [l \in Lines |-> IF l \in ls THEN session[s].rows[l] ELSE line[l]]
           /\ posted' = [posted EXCEPT ![q.op] =
                             [l \in Lines |-> @[l] + (IF l \in ls THEN q.qty ELSE 0)]]
    /\ status' = session[s].seen
    /\ session' = [session EXCEPT ![s] = Idle]

\* The last document is posted and every session is done.
Done ==
    /\ \A s \in Sessions : ~Active(s)
    /\ \A q \in Requests : Documents + Len(q.lines) * q.qty > MaxDocuments
    /\ UNCHANGED vars

\* The order after its earlier delivery and invoice.
Init ==
    /\ line = [l \in Lines |-> [delivered |-> First[l], returned |-> 0,
                                invoiced |-> First[l], credited |-> 0]]
    /\ status = StatusOf(line)
    /\ posted = [op \in Ops |-> [l \in Lines |-> 0]]
    /\ session = [s \in Sessions |-> Idle]

Step(s) ==
    Acquire(s) \/ Refuse(s) \/ BreakDeadlock(s) \/ ReadLines(s) \/ WriteStatus(s) \/ Commit(s)

Next == Done \/ \E s \in Sessions : Begin(s) \/ Step(s) \/ Rollback(s)

Spec == Init /\ [][Next]_vars

\* A handler runs on; lock queues are first come, first served.
Fairness ==
    \A s \in Sessions :
        /\ WF_vars(ReadLines(s)) /\ WF_vars(Commit(s)) /\ WF_vars(BreakDeadlock(s))
        /\ SF_vars(Acquire(s)) /\ SF_vars(Refuse(s)) /\ SF_vars(WriteStatus(s))

LiveSpec == Spec /\ Fairness

-----------------------------------------------------------------------------
(* The rows and statuses the tables admit; sessions run requests and have   *)
(* changed lines of them only.                                              *)
TypeOK ==
    /\ line \in [Lines -> [delivered : Nat, returned : Nat, invoiced : Nat, credited : Nat]]
    /\ status \in {"Confirmed", "Partly Delivered", "Delivered", "Partly Invoiced", "Invoiced"}
    /\ posted \in [Ops -> [Lines -> Nat]]
    /\ \A s \in Sessions :
          \/ session[s] = Idle
          \/ /\ session[s].pc \in {"locking", "refreshing", "writing", "committing"}
             /\ session[s].req \in Requests
             /\ session[s].at \in 1..(Len(Plan(session[s].req)) + 1)
             /\ DOMAIN session[s].rows \subseteq Lines

(* No change of a line is lost or made twice, whatever handlers overlap:    *)
(* the counters of a line are the committed documents.                      *)
CountersAreCommitted ==
    \A l \in Lines :
        /\ line[l].delivered = First[l] + posted["deliver"][l]
        /\ line[l].returned = posted["return"][l]
        /\ line[l].credited = posted["credit"][l]
        /\ line[l].invoiced = First[l] + posted["invoice"][l] - posted["credit"][l]

(* Handlers that passed their checks at the same time do not take a line    *)
(* over its limits together: delivered and billed at most what was ordered, *)
(* returned and credited at most what the earlier documents have.           *)
LimitsHold ==
    \A l \in Lines :
        /\ line[l].delivered - line[l].returned \in 0..Ordered[l]
        /\ line[l].invoiced \in 0..Ordered[l]
        /\ line[l].returned <= First[l] /\ line[l].credited <= First[l]

(* deliver and invoice hold the order's row from their first statement, so  *)
(* their commit leaves the status of the committed lines, even where an     *)
(* earlier return or credit had left another.                               *)
OrderLockRefreshes ==
    [][\A s \in Sessions :
          /\ session[s].pc = "committing" /\ session'[s].pc = "idle" /\ posted' # posted
          /\ session[s].req.op \in {"deliver", "invoice"}
          => status' = StatusOf(line')]_vars

(* Every request ends, committed or refused: waiting sessions are served,   *)
(* and cycles of them are broken.                                           *)
EveryRequestEnds == \A s \in Sessions : Active(s) ~> ~Active(s)

(* "Derived fulfillment, billing, and payment status; status is not a       *)
(* manually maintained substitute for quantities or allocations."           *)
(* (docs/SAP_BUSINESS_ONE_MIGRATION_PLAN.md): with no handler at work, the  *)
(* status of the order is the one its lines imply.                          *)
StatusIsDerived ==
    (\A s \in Sessions : ~Active(s)) => status = StatusOf(line)

=============================================================================
