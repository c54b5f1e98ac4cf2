------------------------------ MODULE Accounting ------------------------------
(***************************************************************************)
(* The general-ledger posting kernel: AccountingService of                 *)
(* src/fasterp/accounting.py over the posting_batches and gl_entries tables *)
(* of src/migrations/postgres/0007_accounting_kernel.sql.                  *)
(*                                                                         *)
(* Sessions are database transactions (one per web request or worker       *)
(* thread).  A step is one SQL statement that another session can observe  *)
(* or be blocked by; statements on rows nobody else can see (a Draft batch *)
(* and its entries, up to the commit) are merged into the insert.          *)
(* PostgreSQL runs at READ COMMITTED: a plain SELECT sees committed rows,  *)
(* a conflicting unique key or a row lock makes the session wait.          *)
(***************************************************************************)
EXTENDS Integers, Sequences, FiniteSets, Functions

CONSTANTS
    Sessions,    \* concurrent transactions
    BatchIds,    \* values of the posting_batches.id sequence (bound), in order
    Keys,        \* (company, voucher_type, voucher_id) triples
    Periods,     \* posting dates up to the fiscal period that covers them; a
                 \* date no period covers is one in a period never locked
    Accounts,    \* chart of accounts
    RawVouchers, \* line lists callers pass in, amounts in raw units
    Scale,       \* raw units per ledger unit (MONEY = 0.0001)
    None         \* SQL NULL

RawLine == [account : Accounts, debit : Int, credit : Int]

Batch == [key : Keys, date : Periods, lines : Seq(RawLine),
          status : {"Posted", "Reversed"},
          reverses : BatchIds \cup {None}, owner : Sessions \cup {None}]

ASSUME ScaleAssumption == Scale \in Nat \ {0}
ASSUME BatchIdAssumption == BatchIds \subseteq Nat
ASSUME VoucherAssumption == RawVouchers \subseteq Seq(RawLine)
ASSUME NoneAssumption == None \notin BatchIds \cup Keys \cup Periods \cup Sessions \cup Batch

VARIABLES
    batches,  \* batches[id]: the row, or None when the id is not in use
    locked,   \* fiscal periods whose status is Locked
    session   \* session[s]: where transaction s stands and what it holds

vars == <<batches, locked, session>>

-----------------------------------------------------------------------------
(* Pure part: amounts, validation, reversal lines.                          *)

\* Decimal.quantize under the default context: half to even.
RoundHalfEven(v) ==
    LET q == v \div Scale
        r == 2 * (v % Scale)
    IN  IF r > Scale \/ (r = Scale /\ q % 2 = 1) THEN q + 1 ELSE q

Normalized(raw) ==
    [i \in DOMAIN raw |-> [account |-> raw[i].account,
                           debit   |-> RoundHalfEven(raw[i].debit),
                           credit  |-> RoundHalfEven(raw[i].credit)]]

DebitTotal(lines)  == SumFunction([i \in DOMAIN lines |-> lines[i].debit])
CreditTotal(lines) == SumFunction([i \in DOMAIN lines |-> lines[i].credit])

\* Mutant: totals are not compared.
Validates_NoTotals(lines) ==
    /\ Len(lines) >= 2
    /\ \A i \in DOMAIN lines : (lines[i].debit > 0) # (lines[i].credit > 0)

Validates(lines) ==
    /\ Len(lines) >= 2
    /\ \A i \in DOMAIN lines : (lines[i].debit > 0) # (lines[i].credit > 0)
    /\ DebitTotal(lines) # 0
    /\ DebitTotal(lines) = CreditTotal(lines)

\* The CHECK constraints of gl_entries, which validate_lines does not imply.
EntriesAccepted(lines) ==
    \A i \in DOMAIN lines :
        \/ lines[i].debit > 0 /\ lines[i].credit = 0
        \/ lines[i].credit > 0 /\ lines[i].debit = 0

Swapped(lines) ==
    [i \in DOMAIN lines |-> [account |-> lines[i].account,
                             debit   |-> lines[i].credit,
                             credit  |-> lines[i].debit]]

-----------------------------------------------------------------------------
Session == [pc : {"idle", "locking", "checking", "lookup", "inserting", "posted"},
            key : Keys \cup {None}, date : Periods \cup {None},
            lines : Seq(RawLine), target : BatchIds \cup {None},
            batch : BatchIds \cup {None}]

\* A finished request remembers the voucher it asked for and the id returned.
Finished(key, b) == [pc |-> "idle", key |-> key, date |-> None, lines |-> <<>>,
                     target |-> None, batch |-> b]

Idle == Finished(None, None)

Stored(b)    == batches[b] # None
Committed(b) == Stored(b) /\ batches[b].owner = None
Own(s, b)    == Stored(b) /\ batches[b].owner = s

\* Mutants: SELECT without FOR UPDATE; a waiter is taken for a holder.
Holders_NoLock(b) == {}
Holders_Waiters(b) == {t \in Sessions : session[t].target = b /\ session[t].pc # "idle"}

\* Transactions that hold the FOR UPDATE lock of batch b.
Holders(b) == {t \in Sessions : /\ session[t].target = b
                                /\ session[t].pc \notin {"idle", "locking"}}

\* Bound: every open transaction can still get an id.
IdsRemain == Cardinality({b \in BatchIds : ~Stored(b)})
               > Cardinality({t \in Sessions : session[t].pc # "idle"})

\* Rows of the voucher session s posts, its own view of the UNIQUE index.
\* Mutant: a check that overlooks rows not committed yet.
SameVoucher_Committed(s) == {b \in BatchIds : Committed(b) /\ batches[b].key = session[s].key}
SameVoucher(s) == {b \in BatchIds : Stored(b) /\ batches[b].key = session[s].key}

\* An exception ends the request.  Mutant: the id survives the rollback.
Fail_KeepsId(s) == session' = [session EXCEPT ![s] = Finished(session[s].key, session[s].batch)]
Fail(s) == session' = [session EXCEPT ![s] = Idle]

-----------------------------------------------------------------------------
(* post_voucher.  A voucher validate_lines rejects opens no transaction.    *)
BeginPost(s) ==
    /\ session[s].pc = "idle"
    /\ IdsRemain
    /\ \E k \in Keys, d \in Periods, raw \in RawVouchers :
          /\ Validates(Normalized(raw))
          /\ session' = [session EXCEPT ![s] =
                 [pc |-> "checking", key |-> k, date |-> d,
                  lines |-> Normalized(raw), target |-> None, batch |-> None]]
    /\ UNCHANGED <<batches, locked>>

(* reverse_batch: the call, any batch id and any reversal voucher.          *)
BeginReverse(s) ==
    /\ session[s].pc = "idle"
    /\ IdsRemain
    /\ \E b \in BatchIds, k \in Keys, d \in Periods :
          session' = [session EXCEPT ![s] =
              [pc |-> "locking", key |-> k, date |-> d, lines |-> <<>>,
               target |-> b, batch |-> None]]
    /\ UNCHANGED <<batches, locked>>

\* SELECT ... FOR UPDATE: waits for another holder, then reads the last
\* committed version of the row.
LockBatch(s) ==
    LET b == session[s].target IN
    /\ session[s].pc = "locking"
    /\ Holders(b) = {}
    /\ \/ /\ Committed(b) /\ batches[b].status = "Posted"
          /\ Validates(Swapped(batches[b].lines))
          /\ session' = [session EXCEPT ![s].pc = "checking",
                                        ![s].lines = Swapped(batches[b].lines)]
       \/ /\ ~(Committed(b) /\ batches[b].status = "Posted")
          /\ Fail(s)
    /\ UNCHANGED <<batches, locked>>

(* assert_period_open.                                                      *)
CheckPeriod(s) ==
    /\ session[s].pc = "checking"
    /\ \/ session[s].date \in locked /\ Fail(s)
       \/ session[s].date \notin locked
          /\ session' = [session EXCEPT ![s].pc = "lookup"]
    /\ UNCHANGED <<batches, locked>>

(* The idempotence test of _post: a committed batch of the same voucher.    *)
LookUp(s) ==
    LET same == {b \in SameVoucher(s) : Committed(b)}
    IN  /\ session[s].pc = "lookup"
        /\ \/ /\ same = {}
              /\ session' = [session EXCEPT ![s].pc = "inserting"]
           \/ \E b \in same :
                /\ batches[b].status = "Posted"
                /\ session' = [session EXCEPT ![s].pc = "posted", ![s].batch = b]
           \/ \E b \in same : batches[b].status # "Posted" /\ Fail(s)
        /\ UNCHANGED <<batches, locked>>

(* INSERT of the batch and its entries, then status Posted.  The UNIQUE     *)
(* constraint makes it wait for an uncommitted row of the same voucher and  *)
(* fail on a committed one.                                                 *)
Insert(s) ==
    /\ session[s].pc = "inserting"
    /\ \A b \in SameVoucher(s) : Committed(b)
    /\ \/ /\ SameVoucher(s) # {} \/ ~EntriesAccepted(session[s].lines)
          /\ Fail(s)
          /\ UNCHANGED batches
       \/ /\ SameVoucher(s) = {} /\ EntriesAccepted(session[s].lines)
          /\ \E b \in BatchIds :
                /\ ~Stored(b) /\ \A c \in BatchIds : ~Stored(c) => b <= c
                /\ batches' = [batches EXCEPT ![b] =
                      [key |-> session[s].key, date |-> session[s].date,
                       lines |-> session[s].lines, status |-> "Posted",
                       reverses |-> session[s].target, owner |-> s]]
                /\ session' = [session EXCEPT ![s].pc = "posted", ![s].batch = b]
    /\ UNCHANGED locked

\* Mutants: the status update is forgotten; a reversal deletes its original.
AfterCommit_Draft(s) ==
    [b \in BatchIds |->
        IF Own(s, b) THEN [batches[b] EXCEPT !.owner = None, !.status = "Draft"]
        ELSE batches[b]]
AfterCommit_Delete(s) ==
    [b \in BatchIds |->
        IF Own(s, b) THEN [batches[b] EXCEPT !.owner = None]
        ELSE IF b = session[s].target THEN None
        ELSE batches[b]]

\* The rows after transaction s commits: its insert becomes visible, and a
\* reversal marks the batch it locked.
AfterCommit(s) ==
    [b \in BatchIds |->
        IF Own(s, b) THEN [batches[b] EXCEPT !.owner = None]
        ELSE IF b = session[s].target THEN [batches[b] EXCEPT !.status = "Reversed"]
        ELSE batches[b]]

Commit(s) ==
    /\ session[s].pc = "posted"
    /\ batches' = AfterCommit(s)
    /\ session' = [session EXCEPT ![s] = Finished(session[s].key, session[s].batch)]
    /\ UNCHANGED locked

(* The enclosing document transaction fails later on, or the connection or  *)
(* the process dies: nothing of the transaction remains.                    *)
Rollback(s) ==
    /\ session[s].pc # "idle"
    /\ batches' = [b \in BatchIds |-> IF Own(s, b) THEN None ELSE batches[b]]
    /\ Fail(s)
    /\ UNCHANGED locked

(* Period maintenance is outside the services: a row of fiscal_periods is   *)
(* updated by an administrator.                                             *)
SetPeriod(p) ==
    /\ locked' = IF p \in locked THEN locked \ {p} ELSE locked \cup {p}
    /\ UNCHANGED <<batches, session>>

-----------------------------------------------------------------------------
Init ==
    /\ batches = [b \in BatchIds |-> None]
    /\ locked = {}
    /\ session = [s \in Sessions |-> Idle]

Step(s) == \/ BeginPost(s) \/ BeginReverse(s)
           \/ LockBatch(s) \/ CheckPeriod(s) \/ LookUp(s)
           \/ Insert(s) \/ Commit(s) \/ Rollback(s)

Next == \/ \E s \in Sessions : Step(s)
        \/ \E p \in Periods : SetPeriod(p)

Spec == Init /\ [][Next]_vars

(* A running transaction executes its next statement; the two statements    *)
(* that can block queue in PostgreSQL's lock manager, which wakes waiters   *)
(* in order, hence strong fairness.  Rollback is never forced.              *)
Fairness ==
    \A s \in Sessions : /\ WF_vars(CheckPeriod(s)) /\ WF_vars(LookUp(s))
                        /\ WF_vars(Commit(s))
                        /\ SF_vars(LockBatch(s)) /\ SF_vars(Insert(s))

LiveSpec == Spec /\ Fairness

-----------------------------------------------------------------------------
(* Type correctness of the rows and of the transactions.                    *)
TypeOK ==
    /\ batches \in [BatchIds -> Batch \cup {None}]
    /\ locked \in SUBSET Periods
    /\ session \in [Sessions -> Session]

(* Every batch another session can read is balanced in ledger units, after  *)
(* rounding, and each entry is a positive debit or a positive credit, for   *)
(* vouchers and for the reversals derived from them (accounting.py 88-99    *)
(* and the CHECKs of gl_entries).                                           *)
LedgerBalanced ==
    \A b \in BatchIds : Committed(b) =>
        /\ DebitTotal(batches[b].lines) = CreditTotal(batches[b].lines)
        /\ \A i \in DOMAIN batches[b].lines :
              LET line == batches[b].lines[i] IN
              /\ line.debit >= 0 /\ line.credit >= 0
              /\ (line.debit = 0) # (line.credit = 0)

(* Two requests for one voucher racing through the unlocked look-up of      *)
(* accounting.py 139-143 leave one batch, so no voucher is posted twice.    *)
OneBatchPerVoucher ==
    \A b, c \in BatchIds :
        Committed(b) /\ Committed(c) /\ batches[b].key = batches[c].key => b = c

(* A reversing batch swaps debits and credits of the batch it names, which  *)
(* is marked Reversed, and no batch is reversed twice although two sessions *)
(* ask for it at once (accounting.py 202-238).                              *)
ReversalsMirrorOnce ==
    /\ \A b \in BatchIds : Committed(b) /\ batches[b].reverses # None =>
          LET r == batches[b].reverses IN
          /\ Committed(r) /\ batches[r].status = "Reversed"
          /\ batches[b].lines = Swapped(batches[r].lines)
    /\ \A b, c \in BatchIds :
          /\ Committed(b) /\ Committed(c)
          /\ batches[b].reverses # None /\ batches[b].reverses = batches[c].reverses
          => b = c

(* An id the service returned to a caller names a committed batch of the    *)
(* voucher the caller asked for, whatever other sessions do afterwards.     *)
AckedIsDurable ==
    \A s \in Sessions : session[s].pc = "idle" /\ session[s].batch # None =>
        /\ Committed(session[s].batch)
        /\ batches[session[s].batch].key = session[s].key

(* The ledger is append-only: a committed batch never disappears and never  *)
(* changes its voucher or lines; its status only goes from Posted to        *)
(* Reversed (the immutability triggers of 0007 and 0006, reverse_batch).    *)
CommittedStay ==
    \A b \in BatchIds : Committed(b) =>
        /\ batches'[b] # None
        /\ batches'[b].lines = batches[b].lines
        /\ batches'[b].key = batches[b].key
        /\ batches'[b].reverses = batches[b].reverses
        /\ batches'[b].owner = None
        /\ batches[b].status = "Reversed" => batches'[b].status = "Reversed"

LedgerImmutable == [][CommittedStay]_vars

(* No request waits forever: the unique-key wait of a post and the row lock *)
(* of a reversal never form a cycle, so every call returns or raises.       *)
EveryRequestEnds ==
    \A s \in Sessions : session[s].pc # "idle" ~> session[s].pc = "idle"

(* What tests/test_postgres_kernels.py asserts of reverse_batch (original   *)
(* and reversal net to zero): a batch marked Reversed is offset by a batch  *)
(* that reverses it.                                                        *)
ReversedIsOffset ==
    \A b \in BatchIds : Committed(b) /\ batches[b].status = "Reversed" =>
        \E c \in BatchIds : Committed(c) /\ batches[c].reverses = b

(* What errors.py says of PeriodLockedError: posting is not allowed in a    *)
(* locked fiscal period.                                                    *)
NoPostingIntoLockedPeriod ==
    [][\A b \in BatchIds : ~Committed(b) /\ Committed(b)' =>
          batches'[b].date \notin locked]_vars
=============================================================================
