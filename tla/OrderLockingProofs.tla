--------------------------- MODULE OrderLockingProofs ---------------------------
(***************************************************************************)
(* Proofs about OrderLocking, for any sessions, lines and requests.        *)
(*                                                                         *)
(* The inductive invariant has four parts besides the types.  Locks are    *)
(* exclusive.  A row that a session changed is the committed row after its *)
(* change, it passed the check, and the session holds the row's lock: so   *)
(* no other session has changed the same row, and a commit leaves what the *)
(* others prepared valid.  The counters are the committed documents, which *)
(* with the checks gives the limits.  And a session that holds the order's *)
(* row for update has read lines that no commit changed since.             *)
(***************************************************************************)
EXTENDS OrderLocking, SequenceTheorems, TLAPS

Row == [delivered : Nat, returned : Nat, invoiced : Nat, credited : Nat]

\* Locks as plans have them: the lock of a line is one to change the row with.
Locks ==
    {a \in [kind : {"order", "series", "document", "stock", "line"},
            of : {None} \cup Ops \cup Lines,
            mode : {"for update", "update", "key share"}] :
        a.kind = "line" => a.mode \in {"for update", "update"}}

Statuses == {"Confirmed", "Partly Delivered", "Delivered", "Partly Invoiced", "Invoiced"}

\* The locks held in a session record.
HeldIn(x) ==
    IF x.pc = "idle" THEN {}
    ELSE {Plan(x.req)[i] : i \in 1..(x.at - 1)}
           \cup (IF x.pc = "committing" THEN {Lock("order", None, "update")} ELSE {})

\* A session record of the right shape.
SessionType(x) ==
    \/ x = Idle
    \/ /\ x = [pc |-> x.pc, req |-> x.req, at |-> x.at, rows |-> x.rows, seen |-> x.seen]
       /\ x.req \in Requests
       /\ x.rows = [l \in DOMAIN x.rows |-> x.rows[l]] /\ DOMAIN x.rows \subseteq Lines
       /\ \/ x.pc = "locking" /\ x.at \in 1..Len(Plan(x.req))
          \/ x.pc \in {"refreshing", "writing", "committing"} /\ x.at = Len(Plan(x.req)) + 1
       /\ x.pc \in {"writing", "committing"} => x.seen \in Statuses

Types ==
    /\ line \in [Lines -> Row]
    /\ posted \in [Ops -> [Lines -> Nat]]
    /\ status \in Statuses
    /\ DOMAIN session = Sessions
    /\ \A s \in Sessions : SessionType(session[s])

\* What a session changed is the committed row after its change, allowed and locked.
RowReady(x, l) ==
    /\ x.rows[l] = Changed(x.req.op, line[l], x.req.qty)
    /\ Allowed(x.req.op, l, line[l], x.req.qty)
    /\ \E a \in HeldIn(x) : a.kind = "line" /\ a.of = l /\ a.mode \in {"for update", "update"}

RowsReady ==
    \A s \in Sessions : Active(s) => \A l \in DOMAIN session[s].rows : RowReady(session[s], l)

\* The line counters that the limits need.
WithinOrder ==
    \A l \in Lines : line[l].delivered - line[l].returned <= Ordered[l]
                       /\ line[l].invoiced <= Ordered[l]
                       /\ line[l].returned <= First[l] /\ line[l].credited <= First[l]

\* A session that locked the order for update and read its lines.
StatusCurrent(s) ==
    session[s].pc \in {"writing", "committing"} /\ session[s].req.op \in {"deliver", "invoice"}
        => session[s].seen = StatusOf(View(s))

\* Sessions hold no locks that conflict: what the locks of the plans rest on.
LocksExclude ==
    \A s, t \in Sessions :
        s # t => \A a \in Holds(s), b \in Holds(t) : ~Conflict(a, b)

IInv ==
    /\ Types
    /\ LocksExclude
    /\ RowsReady
    /\ CountersAreCommitted
    /\ WithinOrder
    /\ \A s \in Sessions : StatusCurrent(s)

-----------------------------------------------------------------------------
\* The locks s holds are those in its record.
LEMMA HoldsIsHeldIn == \A s \in Sessions : Holds(s) = HeldIn(session[s])
BY DEF Holds, HeldIn, Active

\* Conflicts go both ways.
LEMMA ConflictSymmetric == \A a, b : Conflict(a, b) => Conflict(b, a)
BY DEF Conflict

\* Two locks to change one line conflict.
LEMMA LineLocksConflict ==
    ASSUME NEW a, NEW b, NEW l,
           a.kind = "line", b.kind = "line", a.of = l, b.of = l,
           a.mode \in {"for update", "update"}, b.mode \in {"for update", "update"}
    PROVE  Conflict(a, b)
BY DEF Conflict

\* Sequences are the functions from 1..n.
LEMMA SeqIsFunctions == \A S : \A n \in Nat : \A f \in [1..n -> S] : f \in Seq(S)
OBVIOUS

\* A plan is a sequence of locks, not empty, that begins with the order's row
\* in the handlers that lock the order for update.
LEMMA PlanType ==
    ASSUME NEW q \in Requests
    PROVE  /\ Plan(q) \in Seq(Locks) /\ Len(Plan(q)) \in Nat \ {0}
           /\ q.op \in {"deliver", "invoice"} => Plan(q)[1] = Lock("order", None, "for update")
<1>1. q.op \in Ops /\ q.lines \in Seq(Lines)
  BY LockingAssumption
<1>2. DOMAIN q.lines = 1..Len(q.lines) /\ Len(q.lines) \in Nat
      /\ \A i \in 1..Len(q.lines) : q.lines[i] \in Lines
  BY <1>1, LenProperties, ElementOfSeq
<1>3. \A m \in {"for update", "update"}, l \in Lines : Lock("line", l, m) \in Locks
  BY DEF Lock, Locks
<1>4. \A k \in {"order", "document", "stock", "series"}, m \in {"for update", "key share"},
         o \in {None} \cup Ops : Lock(k, o, m) \in Locks
  BY DEF Lock, Locks
<1>5. \A m \in {"for update", "update"} : LineLocks(q, m) \in Seq(Locks)
  <2> SUFFICES ASSUME NEW m \in {"for update", "update"} PROVE LineLocks(q, m) \in Seq(Locks)
    OBVIOUS
  <2>1. LineLocks(q, m) \in [1..Len(q.lines) -> Locks]
    BY <1>2, <1>3 DEF LineLocks
  <2> QED BY <1>2, <2>1, SeqIsFunctions
<1>6. \A x \in Locks : <<x>> \in Seq(Locks) /\ Len(<<x>>) = 1 /\ <<x>>[1] = x
  OBVIOUS
<1>7. <<>> \in Seq(Locks) /\ Len(<<>>) = 0
  BY EmptySeq
<1>8. /\ Series(q) \in Seq(Locks) /\ Stock(q) \in Seq(Locks)
      /\ OrderLock("for update") \in Seq(Locks) /\ Len(OrderLock("for update")) = 1
      /\ OrderLock("key share") \in Seq(Locks)
      /\ OrderLock("for update")[1] = Lock("order", None, "for update")
      /\ <<Lock("document", q.op, "for update")>> \in Seq(Locks)
      /\ Len(<<Lock("document", q.op, "for update")>>) = 1
  BY <1>1, <1>4, <1>6, <1>7 DEF Series, Stock, OrderLock
<1>b. /\ Len(OrderLock("for update")) \in Nat \ {0}
      /\ Len(<<Lock("document", q.op, "for update")>>) \in Nat \ {0}
  <2>1. 1 \in Nat \ {0}
    OBVIOUS
  <2> QED BY <1>8, <2>1
<1> DEFINE First1(u, v) == v \in Seq(Locks) /\ Len(v) \in Nat \ {0} /\ v[1] = u[1]
<1>a. \A u, v \in Seq(Locks) : Len(u) \in Nat \ {0} => First1(u, u \o v)
  <2> SUFFICES ASSUME NEW u \in Seq(Locks), NEW v \in Seq(Locks), Len(u) \in Nat \ {0}
               PROVE  First1(u, u \o v)
    OBVIOUS
  <2>1. Len(v) \in Nat
    BY LenProperties
  <2> QED BY <2>1, ConcatProperties
<1> HIDE DEF First1
<1> DEFINE d == <<Lock("document", q.op, "for update")>>
           o == OrderLock("for update")
           r == Series(q)
           f == LineLocks(q, "for update")
<1>9. CASE q.op = "deliver"
  <2>1. Plan(q) = ((o \o r) \o f) \o Stock(q)
    BY <1>9 DEF Plan
  <2>2. First1(o, o \o r)
    BY <1>8, <1>a, <1>b
  <2>3. First1(o \o r, (o \o r) \o f)
    BY <1>5, <1>a, <2>2 DEF First1
  <2>4. First1((o \o r) \o f, ((o \o r) \o f) \o Stock(q))
    BY <1>8, <1>a, <2>3 DEF First1
  <2> QED BY <1>8, <2>1, <2>2, <2>3, <2>4 DEF First1
<1>10. CASE q.op = "invoice"
  <2>1. Plan(q) = (o \o r) \o f
    BY <1>10 DEF Plan
  <2>2. First1(o, o \o r)
    BY <1>8, <1>a, <1>b
  <2>3. First1(o \o r, (o \o r) \o f)
    BY <1>5, <1>a, <2>2 DEF First1
  <2> QED BY <1>8, <2>1, <2>2, <2>3 DEF First1
<1>11. CASE q.op = "return"
  <2>1. Plan(q) = ((d \o r) \o f) \o Stock(q)
    BY <1>11 DEF Plan
  <2>2. First1(d, d \o r)
    BY <1>8, <1>a, <1>b
  <2>3. First1(d \o r, (d \o r) \o f)
    BY <1>5, <1>a, <2>2 DEF First1
  <2>4. First1((d \o r) \o f, ((d \o r) \o f) \o Stock(q))
    BY <1>8, <1>a, <2>3 DEF First1
  <2> QED BY <1>11, <2>1, <2>4 DEF First1
<1>12. CASE q.op = "credit"
  <2>1. Plan(q) = ((d \o r) \o OrderLock("key share")) \o LineLocks(q, "update")
    BY <1>12 DEF Plan
  <2>2. First1(d, d \o r)
    BY <1>8, <1>a, <1>b
  <2>3. First1(d \o r, (d \o r) \o OrderLock("key share"))
    BY <1>8, <1>a, <2>2 DEF First1
  <2>4. First1((d \o r) \o OrderLock("key share"),
               ((d \o r) \o OrderLock("key share")) \o LineLocks(q, "update"))
    BY <1>5, <1>a, <2>3 DEF First1
  <2> QED BY <1>12, <2>1, <2>4 DEF First1
<1> QED BY <1>1, <1>9, <1>10, <1>11, <1>12 DEF Ops

-----------------------------------------------------------------------------
\* A handler changes a row by adding its quantity to the counters of its kind.
LEMMA ChangedFields ==
    ASSUME NEW op \in Ops, NEW row \in Row, NEW qty \in Nat \ {0}
    PROVE  /\ Changed(op, row, qty) \in Row
           /\ Changed(op, row, qty).delivered
                 = row.delivered + (IF op = "deliver" THEN qty ELSE 0)
           /\ Changed(op, row, qty).returned = row.returned + (IF op = "return" THEN qty ELSE 0)
           /\ Changed(op, row, qty).credited = row.credited + (IF op = "credit" THEN qty ELSE 0)
           /\ op # "credit" \/ row.invoiced >= qty
                 => Changed(op, row, qty).invoiced = row.invoiced
                       + (IF op = "invoice" THEN qty ELSE 0) - (IF op = "credit" THEN qty ELSE 0)
<1>1. CASE op = "deliver"
  BY <1>1 DEF Changed, Row
<1>2. CASE op = "invoice"
  BY <1>2 DEF Changed, Row
<1>3. CASE op = "return"
  BY <1>3 DEF Changed, Row
<1>4. CASE op = "credit"
  <2> DEFINE left == IF row.invoiced > qty THEN row.invoiced - qty ELSE 0
             c == [row EXCEPT !.invoiced = left, !.credited = @ + qty]
  <2>1. /\ row.delivered \in Nat /\ row.returned \in Nat /\ row.credited \in Nat
        /\ row.invoiced \in Nat
    BY DEF Row
  <2>2. left \in Nat /\ (row.invoiced >= qty => left = row.invoiced - qty)
    BY <2>1
  <2>3. Changed(op, row, qty) = c
    BY <1>4 DEF Changed
  <2> HIDE DEF left
  <2>4. /\ c \in Row /\ c.delivered = row.delivered /\ c.returned = row.returned
        /\ c.credited = row.credited + qty /\ c.invoiced = left
    <3> DEFINE b == [row EXCEPT !.invoiced = left]
    <3>1. /\ b \in Row /\ b.delivered = row.delivered /\ b.returned = row.returned
          /\ b.credited = row.credited /\ b.invoiced = left
      BY <2>1, <2>2 DEF Row
    <3>2. c = [b EXCEPT !.credited = row.credited + qty]
      OBVIOUS
    <3>3. row.credited + qty \in Nat
      BY <2>1
    <3> HIDE DEF b, c
    <3> QED BY <3>1, <3>2, <3>3 DEF Row
  <2> HIDE DEF c
  <2> QED BY <1>4, <2>1, <2>2, <2>3, <2>4
<1> QED BY <1>1, <1>2, <1>3, <1>4 DEF Ops

\* One commit keeps the counters of a line its documents, and within the limits.
LEMMA LineCommit ==
    ASSUME NEW op \in Ops, NEW row \in Row, NEW qty \in Nat \ {0}, NEW l \in Lines,
           row.invoiced + row.credited >= First[l],
           row.delivered - row.returned <= Ordered[l], row.invoiced <= Ordered[l],
           row.returned <= First[l], row.credited <= First[l],
           Allowed(op, l, row, qty)
    PROVE  LET n == Changed(op, row, qty)
           IN  /\ n \in Row
               /\ n.delivered = row.delivered + (IF op = "deliver" THEN qty ELSE 0)
               /\ n.returned = row.returned + (IF op = "return" THEN qty ELSE 0)
               /\ n.credited = row.credited + (IF op = "credit" THEN qty ELSE 0)
               /\ n.invoiced = row.invoiced + (IF op = "invoice" THEN qty ELSE 0)
                                            - (IF op = "credit" THEN qty ELSE 0)
               /\ n.delivered - n.returned <= Ordered[l] /\ n.invoiced <= Ordered[l]
               /\ n.returned <= First[l] /\ n.credited <= First[l]
<1>1. First[l] \in Nat /\ Ordered[l] \in Nat
  BY LockingAssumption
<1>2. row.delivered \in Nat /\ row.returned \in Nat /\ row.invoiced \in Nat /\ row.credited \in Nat
  BY DEF Row
<1>3. /\ op = "deliver" => row.delivered + qty - row.returned <= Ordered[l]
      /\ op = "invoice" => row.invoiced + qty <= Ordered[l]
      /\ op = "return" => row.returned + qty <= First[l]
      /\ op = "credit" => row.credited + qty <= First[l]
  BY DEF Allowed
<1>4. op = "credit" => row.invoiced >= qty
  BY <1>1, <1>2, <1>3
<1> DEFINE n == Changed(op, row, qty)
<1>5. /\ n \in Row
      /\ n.delivered = row.delivered + (IF op = "deliver" THEN qty ELSE 0)
      /\ n.returned = row.returned + (IF op = "return" THEN qty ELSE 0)
      /\ n.credited = row.credited + (IF op = "credit" THEN qty ELSE 0)
      /\ n.invoiced = row.invoiced + (IF op = "invoice" THEN qty ELSE 0)
                                   - (IF op = "credit" THEN qty ELSE 0)
  BY <1>4, ChangedFields
<1> HIDE DEF n
<1>6. CASE op = "deliver"
  BY <1>1, <1>2, <1>3, <1>5, <1>6 DEF n
<1>7. CASE op = "invoice"
  BY <1>1, <1>2, <1>3, <1>5, <1>7 DEF n
<1>8. CASE op = "return"
  BY <1>1, <1>2, <1>3, <1>5, <1>8 DEF n
<1>9. CASE op = "credit"
  BY <1>1, <1>2, <1>3, <1>5, <1>9 DEF n
<1> QED BY <1>6, <1>7, <1>8, <1>9 DEF Ops

\* The status is one of the five.
LEMMA StatusType == \A rows : StatusOf(rows) \in Statuses
BY DEF StatusOf, Statuses

-----------------------------------------------------------------------------
\* A step in which one session moves and the committed rows stay keeps the
\* invariant, if the session moves to a record that fits and takes no lock
\* that conflicts with one held.
LEMMA SessionMoves ==
    ASSUME IInv, NEW s \in Sessions, NEW x,
           session' = [session EXCEPT ![s] = x],
           UNCHANGED <<line, posted>>, status' \in Statuses,
           SessionType(x),
           \A t \in Sessions \ {s} : \A a \in HeldIn(session[t]), b \in HeldIn(x) : ~Conflict(a, b),
           x.pc # "idle" => \A l \in DOMAIN x.rows : RowReady(x, l),
           x.pc \in {"writing", "committing"} /\ x.req.op \in {"deliver", "invoice"}
              => x.seen = StatusOf([l \in Lines |-> IF l \in DOMAIN x.rows THEN x.rows[l] ELSE line[l]])
    PROVE  IInv'
<1>1. /\ DOMAIN session = Sessions /\ session'[s] = x
      /\ \A t \in Sessions \ {s} : session'[t] = session[t]
  BY DEF IInv, Types
<1>2. Types'
  BY <1>1 DEF IInv, Types
<1>3. LocksExclude'
  <2> SUFFICES ASSUME NEW t \in Sessions, NEW u \in Sessions, t # u,
                      NEW a \in HeldIn(session'[t]), NEW b \in HeldIn(session'[u])
               PROVE  ~Conflict(a, b)
    BY DEF LocksExclude, Holds, HeldIn, Active
  <2>1. CASE t = s
    BY <1>1, <2>1, ConflictSymmetric
  <2>2. CASE u = s
    BY <1>1, <2>2
  <2>3. CASE t # s /\ u # s
    BY <1>1, <2>3, HoldsIsHeldIn DEF IInv, LocksExclude
  <2> QED BY <2>1, <2>2, <2>3
<1>4. RowsReady'
  <2> SUFFICES ASSUME NEW t \in Sessions, session'[t].pc # "idle",
                      NEW l \in DOMAIN session'[t].rows
               PROVE  RowReady(session[t], l)'
    BY DEF RowsReady, Active
  <2>1. RowReady(session'[t], l)
    BY <1>1 DEF IInv, RowsReady, Active
  <2> QED BY <2>1 DEF RowReady
<1>5. CountersAreCommitted' /\ WithinOrder'
  BY DEF IInv, CountersAreCommitted, WithinOrder
<1>6. ASSUME NEW t \in Sessions PROVE StatusCurrent(t)'
  <2>1. CASE t = s
    <3> SUFFICES ASSUME x.pc \in {"writing", "committing"}, x.req.op \in {"deliver", "invoice"}
                 PROVE  x.seen = StatusOf(View(s))'
      BY <1>1, <2>1 DEF StatusCurrent
    <3>1. View(s)' = [l \in Lines |-> IF l \in DOMAIN x.rows THEN x.rows[l] ELSE line[l]]
      BY <1>1 DEF View
    <3> QED BY <3>1
  <2>2. CASE t # s
    <3>1. session'[t] = session[t] /\ View(t)' = View(t)
      BY <1>1, <2>2 DEF View
    <3> QED BY <3>1 DEF IInv, StatusCurrent
  <2> QED BY <2>1, <2>2
<1> QED BY <1>2, <1>3, <1>4, <1>5, <1>6 DEF IInv

\* Changing two fields of a session record.
LEMMA RecordRead ==
    ASSUME NEW y, NEW v, NEW p,
           y = [pc |-> y.pc, req |-> y.req, at |-> y.at, rows |-> y.rows, seen |-> y.seen]
    PROVE  [y EXCEPT !.seen = v, !.pc = p]
             = [pc |-> p, req |-> y.req, at |-> y.at, rows |-> y.rows, seen |-> v]
<1> DEFINE f == [y EXCEPT !.seen = v]
<1>1. f = [pc |-> y.pc, req |-> y.req, at |-> y.at, rows |-> y.rows, seen |-> v]
  OBVIOUS
<1>2. [y EXCEPT !.seen = v, !.pc = p] = [f EXCEPT !.pc = p]
  OBVIOUS
<1> HIDE DEF f
<1> QED BY <1>1, <1>2

\* The invariant holds of a fresh order.
LEMMA InitHolds == Init => IInv
<1> SUFFICES ASSUME Init PROVE IInv
  OBVIOUS
<1>1. \A l \in Lines : First[l] \in Nat /\ Ordered[l] \in Nat /\ First[l] <= Ordered[l]
  BY LockingAssumption
<1>2. \A s \in Sessions : session[s] = Idle /\ session[s].pc = "idle"
  BY DEF Init, Idle
<1>3. Types
  BY <1>1, <1>2, StatusType DEF Init, Types, SessionType, Row
<1>4. LocksExclude /\ RowsReady /\ \A s \in Sessions : StatusCurrent(s)
  BY <1>2 DEF LocksExclude, RowsReady, StatusCurrent, Holds, Active
<1>5. CountersAreCommitted /\ WithinOrder
  BY <1>1 DEF Init, CountersAreCommitted, WithinOrder, Ops
<1> QED BY <1>3, <1>4, <1>5 DEF IInv

\* A request that starts holds nothing.
LEMMA BeginHolds ==
    ASSUME IInv, NEW s \in Sessions, Begin(s)
    PROVE  IInv'
<1>1. PICK q \in Requests :
         session' = [session EXCEPT ![s] =
                [pc |-> "locking", req |-> q, at |-> 1, rows |-> [l \in {} |-> None],
                 seen |-> None]]
  BY DEF Begin
<1> DEFINE x == [pc |-> "locking", req |-> q, at |-> 1, rows |-> [l \in {} |-> None],
                 seen |-> None]
<1>2. SessionType(x)
  <2> DEFINE e == [l \in {} |-> None]
  <2>1. DOMAIN e = {} /\ e = [l \in DOMAIN e |-> e[l]]
    OBVIOUS
  <2>2. 1 \in 1..Len(Plan(q))
    <3>1. Len(Plan(q)) \in Nat \ {0}
      BY PlanType
    <3> QED BY <3>1
  <2>3. /\ x.pc = "locking" /\ x.req = q /\ x.at = 1 /\ x.rows = e
        /\ x = [pc |-> x.pc, req |-> x.req, at |-> x.at, rows |-> x.rows, seen |-> x.seen]
    OBVIOUS
  <2> HIDE DEF x, e
  <2> QED BY <2>1, <2>2, <2>3 DEF SessionType
<1>3. HeldIn(x) = {}
  BY DEF HeldIn
<1>4. DOMAIN x.rows = {} /\ x.pc = "locking"
  OBVIOUS
<1>5. UNCHANGED <<line, posted>> /\ status' \in Statuses
  BY DEF Begin, IInv, Types
<1> HIDE DEF x
<1> QED BY <1>1, <1>2, <1>3, <1>4, <1>5, SessionMoves DEF x

\* A transaction that ends without a commit leaves nothing.
LEMMA RollbackHolds ==
    ASSUME IInv, NEW s \in Sessions, Rollback(s)
    PROVE  IInv'
<1>1. SessionType(Idle) /\ HeldIn(Idle) = {} /\ Idle.pc = "idle"
  BY DEF SessionType, HeldIn, Idle
<1>2. UNCHANGED <<line, posted>> /\ status' \in Statuses /\ session' = [session EXCEPT ![s] = Idle]
  BY DEF Rollback, IInv, Types
<1> QED BY <1>1, <1>2, SessionMoves

\* Reading the lines, the session computes their status.
LEMMA ReadLinesHolds ==
    ASSUME IInv, NEW s \in Sessions, ReadLines(s)
    PROVE  IInv'
<1> DEFINE y == session[s]
           x == [y EXCEPT !.seen = StatusOf(View(s)), !.pc = "writing"]
<1>1. SessionType(y) /\ y.pc = "refreshing" /\ y # Idle /\ s \in DOMAIN session
  BY DEF ReadLines, IInv, Types, Idle
<1>2. session' = [session EXCEPT ![s] = x] /\ UNCHANGED <<line, posted>> /\ status' \in Statuses
  BY <1>1 DEF ReadLines, IInv, Types
<1>3. /\ x = [pc |-> "writing", req |-> y.req, at |-> y.at, rows |-> y.rows,
              seen |-> StatusOf(View(s))]
  <2> DEFINE v == StatusOf(View(s))
  <2>1. y = [pc |-> y.pc, req |-> y.req, at |-> y.at, rows |-> y.rows, seen |-> y.seen]
    BY <1>1 DEF SessionType
  <2> HIDE DEF v, y
  <2>2. [y EXCEPT !.seen = v, !.pc = "writing"]
          = [pc |-> "writing", req |-> y.req, at |-> y.at, rows |-> y.rows, seen |-> v]
    BY <2>1, RecordRead
  <2>3. x = [y EXCEPT !.seen = v, !.pc = "writing"]
    BY DEF v
  <2> HIDE DEF x
  <2> QED BY <2>2, <2>3 DEF v
<1>4. SessionType(x) /\ HeldIn(x) = HeldIn(y) /\ x.req = y.req /\ x.rows = y.rows /\ x.pc = "writing"
      /\ x.seen = StatusOf(View(s))
  BY <1>1, <1>3, StatusType DEF SessionType, HeldIn
<1>5. \A t \in Sessions \ {s} : \A a \in HeldIn(session[t]), b \in HeldIn(x) : ~Conflict(a, b)
  BY <1>4, HoldsIsHeldIn DEF IInv, LocksExclude
<1>6. \A l \in DOMAIN x.rows : RowReady(x, l)
  <2>1. \A l \in DOMAIN y.rows : RowReady(y, l)
    BY <1>1 DEF IInv, RowsReady, Active
  <2> HIDE DEF x, y
  <2> QED BY <1>4, <2>1 DEF RowReady
<1>7. x.seen = StatusOf([l \in Lines |-> IF l \in DOMAIN x.rows THEN x.rows[l] ELSE line[l]])
  BY <1>4 DEF View
<1> HIDE DEF x
<1> QED BY <1>2, <1>4, <1>5, <1>6, <1>7, SessionMoves

\* Writing the status takes the order's row, which nobody else holds to change.
LEMMA WriteStatusHolds ==
    ASSUME IInv, NEW s \in Sessions, WriteStatus(s)
    PROVE  IInv'
<1> DEFINE y == session[s]
           x == [y EXCEPT !.pc = "committing"]
           o == Lock("order", None, "update")
<1>1. SessionType(y) /\ y.pc = "writing" /\ y # Idle /\ s \in DOMAIN session
  BY DEF WriteStatus, IInv, Types, Idle
<1>2. session' = [session EXCEPT ![s] = x] /\ UNCHANGED <<line, posted>> /\ status' \in Statuses
  BY <1>1 DEF WriteStatus, IInv, Types
<1>3. x = [pc |-> "committing", req |-> y.req, at |-> y.at, rows |-> y.rows, seen |-> y.seen]
  BY <1>1 DEF SessionType
<1>4. /\ SessionType(x) /\ HeldIn(x) = HeldIn(y) \cup {o} /\ x.req = y.req /\ x.rows = y.rows
      /\ x.pc = "committing" /\ x.seen = y.seen
  BY <1>1, <1>3 DEF SessionType, HeldIn
<1>5. Needs(s) = {o} /\ Blockers(s) = {}
  BY <1>1 DEF WriteStatus, Needs
<1>6. \A t \in Sessions \ {s} : \A a \in HeldIn(session[t]), b \in HeldIn(x) : ~Conflict(a, b)
  BY <1>4, <1>5, HoldsIsHeldIn DEF IInv, LocksExclude, Blockers
<1>7. \A l \in DOMAIN x.rows : RowReady(x, l)
  <2>1. \A l \in DOMAIN y.rows : RowReady(y, l)
    BY <1>1 DEF IInv, RowsReady, Active
  <2> HIDE DEF x, y
  <2> QED BY <1>4, <2>1 DEF RowReady
<1>8. x.req.op \in {"deliver", "invoice"}
         => x.seen = StatusOf([l \in Lines |-> IF l \in DOMAIN x.rows THEN x.rows[l] ELSE line[l]])
  BY <1>1, <1>4 DEF IInv, StatusCurrent, View
<1> HIDE DEF x
<1> QED BY <1>2, <1>4, <1>6, <1>7, <1>8, SessionMoves

\* With the lock of a line, a session changes the row that is committed.
LEMMA TakenHolds ==
    ASSUME IInv, NEW s \in Sessions, Acquire(s)
    PROVE  IInv'
<1> DEFINE y == session[s]
           q == y.req
           lock == Plan(q)[y.at]
           ls == {l \in Lines : lock.kind = "line" /\ lock.of = l}
           p == IF y.at = Len(Plan(q)) THEN "refreshing" ELSE "locking"
           r == [l \in DOMAIN y.rows \cup ls |->
                    IF l \in ls THEN Changed(q.op, line[l], q.qty) ELSE y.rows[l]]
           x == [pc |-> p, req |-> q, at |-> y.at + 1, rows |-> r, seen |-> y.seen]
<1>1. SessionType(y) /\ y.pc = "locking" /\ y # Idle /\ s \in DOMAIN session
  BY DEF Acquire, IInv, Types, Idle
<1>2. /\ y = [pc |-> y.pc, req |-> q, at |-> y.at, rows |-> y.rows, seen |-> y.seen]
      /\ q \in Requests /\ y.at \in 1..Len(Plan(q)) /\ DOMAIN y.rows \subseteq Lines
  BY <1>1 DEF SessionType
<1>3. Needs(s) = {lock} /\ Blockers(s) = {} /\ lock \in Locks
  BY <1>1, <1>2, PlanType, ElementOfSeq DEF Acquire, Needs
<1>4. /\ \A l \in ls : Allowed(q.op, l, line[l], q.qty)
      /\ session' = [session EXCEPT ![s].at = @ + 1, ![s].pc = p, ![s].rows = r]
  BY <1>3 DEF Acquire, Taken
<1>5. session' = [session EXCEPT ![s] = x]
  <2>1. y = [pc |-> y.pc, req |-> y.req, at |-> y.at, rows |-> y.rows, seen |-> y.seen]
    BY <1>2
  <2> DEFINE n == y.at + 1
             g == [y EXCEPT !.at = n]
             h == [g EXCEPT !.pc = p]
  <2> HIDE DEF r, p, y, n
  <2>2. [y EXCEPT !.at = n, !.pc = p, !.rows = r] = [h EXCEPT !.rows = r]
    OBVIOUS
  <2>3. g = [pc |-> y.pc, req |-> y.req, at |-> n, rows |-> y.rows, seen |-> y.seen]
    BY <2>1
  <2> HIDE DEF g
  <2>4. h = [pc |-> p, req |-> y.req, at |-> n, rows |-> y.rows, seen |-> y.seen]
    BY <2>3
  <2> HIDE DEF h
  <2>5. [h EXCEPT !.rows = r] = x
    BY <2>4 DEF n
  <2>6. [y EXCEPT !.at = y.at + 1, !.pc = p, !.rows = r] = x
    BY <2>2, <2>5 DEF n
  <2> USE DEF y
  <2> QED BY <1>1, <1>4, <2>6
<1>6. /\ x.pc = p /\ x.req = q /\ x.at = y.at + 1 /\ x.rows = r /\ DOMAIN r = DOMAIN y.rows \cup ls
      /\ x = [pc |-> x.pc, req |-> x.req, at |-> x.at, rows |-> x.rows, seen |-> x.seen]
      /\ x.pc \in {"locking", "refreshing"}
      /\ \A l \in DOMAIN r : r[l] = IF l \in ls THEN Changed(q.op, line[l], q.qty) ELSE y.rows[l]
  OBVIOUS
<1> HIDE DEF x, r, p, ls, lock, y
<1>7. SessionType(x)
  <2>1. \/ x.pc = "locking" /\ x.at \in 1..Len(Plan(q))
        \/ x.pc = "refreshing" /\ x.at = Len(Plan(q)) + 1
    <3>1. Len(Plan(q)) \in Nat
      BY <1>2, PlanType
    <3> QED BY <1>2, <1>6, <3>1 DEF p
  <2>2. DOMAIN r \subseteq Lines /\ r = [l \in DOMAIN r |-> r[l]]
    <3>1. r = [l \in DOMAIN r |-> r[l]]
      BY <1>6 DEF r
    <3> QED BY <1>2, <1>6, <3>1 DEF ls
  <2> QED BY <1>2, <1>6, <2>1, <2>2 DEF SessionType
<1>8. HeldIn(x) = HeldIn(y) \cup {lock}
  <2>1. /\ HeldIn(x) = {Plan(q)[i] : i \in 1..(x.at - 1)}
        /\ HeldIn(y) = {Plan(q)[i] : i \in 1..(y.at - 1)}
    BY <1>1, <1>6 DEF HeldIn, q
  <2>2. 1..(x.at - 1) = 1..(y.at - 1) \cup {y.at}
    BY <1>2, <1>6
  <2> QED BY <2>1, <2>2 DEF lock
<1>9. \A t \in Sessions \ {s} : \A a \in HeldIn(session[t]), b \in HeldIn(x) : ~Conflict(a, b)
  BY <1>3, <1>8, HoldsIsHeldIn DEF IInv, LocksExclude, Blockers, y
<1>10. \A l \in DOMAIN x.rows : RowReady(x, l)
  <2> SUFFICES ASSUME NEW l \in DOMAIN r PROVE RowReady(x, l)
    BY <1>6
  <2>1. CASE l \in ls
    <3>1. lock \in HeldIn(x) /\ lock.kind = "line" /\ lock.of = l
          /\ lock.mode \in {"for update", "update"}
      BY <1>3, <1>8, <2>1 DEF Locks, ls
    <3>2. Allowed(q.op, l, line[l], q.qty) /\ x.rows[l] = Changed(q.op, line[l], q.qty)
      BY <1>4, <1>6, <2>1
    <3> QED BY <1>6, <3>1, <3>2 DEF RowReady
  <2>2. CASE l \notin ls
    <3>1. RowReady(y, l)
      BY <1>1, <1>6, <2>2 DEF IInv, RowsReady, Active, y
    <3> QED BY <1>6, <1>8, <2>2, <3>1 DEF RowReady
  <2> QED BY <2>1, <2>2
<1>11. UNCHANGED <<line, posted>> /\ status' \in Statuses
  BY DEF Acquire, IInv, Types
<1>12. ~(x.pc \in {"writing", "committing"})
  BY <1>6
<1> QED BY <1>5, <1>7, <1>9, <1>10, <1>11, <1>12, SessionMoves

\* A commit makes its rows the lines and its quantities documents; the other
\* sessions hold other lines, and none of them relies on the order's row.
LEMMA CommitHolds ==
    ASSUME IInv, NEW s \in Sessions, Commit(s)
    PROVE  IInv'
<1> DEFINE y == session[s]
           q == y.req
           ls == DOMAIN y.rows
<1>1. /\ SessionType(y) /\ y.pc = "committing" /\ y # Idle /\ s \in DOMAIN session
      /\ q \in Requests /\ ls \subseteq Lines /\ q.op \in Ops /\ q.qty \in Nat \ {0}
      /\ y.seen \in Statuses
  BY LockingAssumption DEF Commit, IInv, Types, Idle, SessionType
<1>2. /\ line' = [l \in Lines |-> IF l \in ls THEN y.rows[l] ELSE line[l]]
      /\ posted' = [posted EXCEPT ![q.op] = [l \in Lines |-> @[l] + (IF l \in ls THEN q.qty ELSE 0)]]
      /\ status' = y.seen
      /\ session' = [session EXCEPT ![s] = Idle]
  BY DEF Commit
<1>3. /\ \A t \in Sessions \ {s} : session'[t] = session[t]
      /\ session'[s] = Idle /\ Idle.pc = "idle" /\ DOMAIN session' = Sessions
  BY <1>1, <1>2 DEF Idle, IInv, Types
<1>4. ASSUME NEW l \in ls PROVE RowReady(y, l)
  BY <1>1, <1>4 DEF IInv, RowsReady, Active
<1>5. ASSUME NEW l \in Lines, NEW op \in Ops
      PROVE  /\ posted[op][l] \in Nat
             /\ posted'[op][l] = posted[op][l] + (IF op = q.op /\ l \in ls THEN q.qty ELSE 0)
  <2>1. posted \in [Ops -> [Lines -> Nat]]
    BY DEF IInv, Types
  <2> HIDE DEF q, ls
  <2>2. posted'[op] = IF op = q.op
                      THEN [k \in Lines |-> posted[op][k] + (IF k \in ls THEN q.qty ELSE 0)]
                      ELSE posted[op]
    BY <1>1, <1>2, <2>1
  <2> QED BY <1>1, <2>1, <2>2
<1>6. posted' \in [Ops -> [Lines -> Nat]]
  <2>1. posted \in [Ops -> [Lines -> Nat]]
    BY DEF IInv, Types
  <2>2. [l \in Lines |-> posted[q.op][l] + (IF l \in ls THEN q.qty ELSE 0)] \in [Lines -> Nat]
    BY <1>1, <2>1
  <2> HIDE DEF q, ls
  <2> QED BY <1>1, <1>2, <2>1, <2>2
<1> DEFINE Good(l) ==
        /\ line'[l] \in Row
        /\ line'[l].delivered = First[l] + posted'["deliver"][l]
        /\ line'[l].returned = posted'["return"][l]
        /\ line'[l].credited = posted'["credit"][l]
        /\ line'[l].invoiced = First[l] + posted'["invoice"][l] - posted'["credit"][l]
        /\ line'[l].delivered - line'[l].returned <= Ordered[l] /\ line'[l].invoiced <= Ordered[l]
        /\ line'[l].returned <= First[l] /\ line'[l].credited <= First[l]
<1>7. ASSUME NEW l \in Lines PROVE Good(l)
  <2>1. /\ line[l] \in Row /\ First[l] \in Nat
        /\ line[l].delivered = First[l] + posted["deliver"][l]
        /\ line[l].returned = posted["return"][l]
        /\ line[l].credited = posted["credit"][l]
        /\ line[l].invoiced = First[l] + posted["invoice"][l] - posted["credit"][l]
        /\ line[l].delivered - line[l].returned <= Ordered[l] /\ line[l].invoiced <= Ordered[l]
        /\ line[l].returned <= First[l] /\ line[l].credited <= First[l]
    BY LockingAssumption DEF IInv, Types, CountersAreCommitted, WithinOrder
  <2>2. \A op \in Ops : posted[op][l] \in Nat
    BY <1>5
  <2>3. {"deliver", "return", "credit", "invoice"} \subseteq Ops
    BY DEF Ops
  <2>4. CASE l \in ls
    <3>1. line'[l] = Changed(q.op, line[l], q.qty) /\ Allowed(q.op, l, line[l], q.qty)
      BY <1>2, <1>4, <2>4 DEF RowReady
    <3>2. \A op \in Ops : posted'[op][l] = posted[op][l] + (IF q.op = op THEN q.qty ELSE 0)
      BY <1>5, <2>4
    <3> DEFINE n == Changed(q.op, line[l], q.qty)
               by(o) == IF q.op = o THEN q.qty ELSE 0
    <3>3. line[l].invoiced + line[l].credited >= First[l]
      BY <2>1, <2>2, <2>3
    <3>4. /\ n \in Row
          /\ n.delivered = line[l].delivered + by("deliver")
          /\ n.returned = line[l].returned + by("return")
          /\ n.credited = line[l].credited + by("credit")
          /\ n.invoiced = line[l].invoiced + by("invoice") - by("credit")
          /\ n.delivered - n.returned <= Ordered[l] /\ n.invoiced <= Ordered[l]
          /\ n.returned <= First[l] /\ n.credited <= First[l]
      <4> HIDE DEF q
      <4> QED BY <1>1, <2>1, <3>1, <3>3, LineCommit
    <3>5. \A op \in Ops : posted'[op][l] = posted[op][l] + by(op)
      BY <3>2
    <3>6. \A op \in Ops : by(op) \in Nat
      BY <1>1
    <3> HIDE DEF by, n
    <3>7. line'[l] = n
      BY <3>1 DEF n
    <3> QED BY <2>1, <2>2, <2>3, <3>4, <3>5, <3>6, <3>7
  <2>5. CASE l \notin ls
    <3>1. line'[l] = line[l] /\ \A op \in Ops : posted'[op][l] = posted[op][l]
      BY <1>2, <1>5, <2>2, <2>5
    <3> QED BY <2>1, <2>3, <3>1
  <2> QED BY <2>4, <2>5
<1>8. Types'
  <2>1. line' \in [Lines -> Row]
    BY <1>2, <1>7
  <2>2. \A t \in Sessions : SessionType(session'[t])
    BY <1>3 DEF IInv, Types, SessionType
  <2> QED BY <1>1, <1>2, <1>3, <1>6, <2>1, <2>2 DEF Types
<1>9. LocksExclude'
  <2> SUFFICES ASSUME NEW t \in Sessions, NEW u \in Sessions, t # u,
                      NEW a \in HeldIn(session'[t]), NEW b \in HeldIn(session'[u])
               PROVE  ~Conflict(a, b)
    BY DEF LocksExclude, Holds, HeldIn, Active
  <2>1. t # s /\ u # s
    BY <1>3 DEF HeldIn
  <2> QED BY <1>3, <2>1, HoldsIsHeldIn DEF IInv, LocksExclude
<1>10. RowsReady'
  <2> SUFFICES ASSUME NEW t \in Sessions, session'[t].pc # "idle",
                      NEW l \in DOMAIN session'[t].rows
               PROVE  RowReady(session[t], l)'
    BY DEF RowsReady, Active
  <2>1. t # s /\ session'[t] = session[t] /\ RowReady(session[t], l)
    BY <1>3 DEF IInv, RowsReady, Active
  <2>2. l \in Lines
    <3>1. SessionType(session[t])
      BY DEF IInv, Types
    <3>2. session[t] # Idle
      BY <1>3, <2>1
    <3>3. l \in DOMAIN session[t].rows
      BY <2>1
    <3> QED BY <3>1, <3>2, <3>3 DEF SessionType
  <2>3. l \notin ls
    <3> SUFFICES ASSUME l \in ls PROVE FALSE
      OBVIOUS
    <3>1. PICK a \in HeldIn(session[t]) :
             a.kind = "line" /\ a.of = l /\ a.mode \in {"for update", "update"}
      BY <2>1 DEF RowReady
    <3>2. PICK b \in HeldIn(y) :
             b.kind = "line" /\ b.of = l /\ b.mode \in {"for update", "update"}
      BY <1>4 DEF RowReady
    <3> QED BY <2>1, <3>1, <3>2, HoldsIsHeldIn, LineLocksConflict DEF IInv, LocksExclude
  <2>4. line'[l] = line[l]
    BY <1>2, <2>2, <2>3
  <2> QED BY <2>1, <2>4 DEF RowReady
<1>11. CountersAreCommitted' /\ WithinOrder'
  BY <1>7 DEF CountersAreCommitted, WithinOrder
<1>12. ASSUME NEW t \in Sessions PROVE StatusCurrent(t)'
  <2> SUFFICES ASSUME session'[t].pc \in {"writing", "committing"},
                      session'[t].req.op \in {"deliver", "invoice"}
               PROVE  FALSE
    BY DEF StatusCurrent
  <2>1. t # s /\ session'[t] = session[t] /\ session[t] # Idle
    BY <1>3
  <2>2. /\ session[t].req \in Requests /\ session[t].at = Len(Plan(session[t].req)) + 1
        /\ session[t].pc # "idle"
    BY <2>1 DEF IInv, Types, SessionType
  <2>3. Lock("order", None, "for update") \in HeldIn(session[t])
    <3> DEFINE k == session[t].req
    <3>1. Len(Plan(k)) \in Nat \ {0} /\ Plan(k)[1] = Lock("order", None, "for update")
      <4>1. k \in Requests /\ k.op \in {"deliver", "invoice"}
        BY <2>1, <2>2
      <4> HIDE DEF k
      <4> QED BY <4>1, PlanType
    <3>2. 1 \in 1..(session[t].at - 1)
      <4> DEFINE n == Len(Plan(k))
      <4>1. session[t].at - 1 = n /\ n \in Nat \ {0}
        <5>1. session[t].at = n + 1 /\ n \in Nat \ {0}
          BY <2>2, <3>1
        <5> HIDE DEF n
        <5> QED BY <5>1
      <4> HIDE DEF n
      <4> QED BY <4>1
    <3> QED BY <2>2, <3>1, <3>2 DEF HeldIn
  <2>4. Lock("order", None, "update") \in HeldIn(y)
    BY <1>1 DEF HeldIn
  <2>5. Conflict(Lock("order", None, "for update"), Lock("order", None, "update"))
    BY DEF Conflict, Lock
  <2> QED BY <2>1, <2>3, <2>4, <2>5, HoldsIsHeldIn DEF IInv, LocksExclude
<1> QED BY <1>8, <1>9, <1>10, <1>11, <1>12 DEF IInv

-----------------------------------------------------------------------------
\* Every step of every handler keeps the invariant.
LEMMA StepHolds == IInv /\ [Next]_vars => IInv'
<1> SUFFICES ASSUME IInv, [Next]_vars PROVE IInv'
  OBVIOUS
<1>1. ASSUME NEW s \in Sessions, Begin(s) PROVE IInv'
  BY <1>1, BeginHolds
<1>2. ASSUME NEW s \in Sessions, Rollback(s) PROVE IInv'
  BY <1>2, RollbackHolds
<1>3. ASSUME NEW s \in Sessions, Step(s) PROVE IInv'
  <2>1. CASE Acquire(s)
    BY <2>1, TakenHolds
  <2>2. CASE Refuse(s)
    BY <2>2, RollbackHolds DEF Refuse
  <2>3. CASE BreakDeadlock(s)
    BY <2>3, RollbackHolds DEF BreakDeadlock
  <2>4. CASE ReadLines(s)
    BY <2>4, ReadLinesHolds
  <2>5. CASE WriteStatus(s)
    BY <2>5, WriteStatusHolds
  <2>6. CASE Commit(s)
    BY <2>6, CommitHolds
  <2> QED BY <1>3, <2>1, <2>2, <2>3, <2>4, <2>5, <2>6 DEF Step
<1>4. CASE UNCHANGED vars
  <2>1. /\ Types' /\ LocksExclude' /\ CountersAreCommitted' /\ WithinOrder'
        /\ \A s \in Sessions : View(s)' = View(s)
    BY <1>4 DEF vars, IInv, Types, LocksExclude, Holds, Active, CountersAreCommitted,
                WithinOrder, View
  <2>2. RowsReady'
    BY <1>4 DEF vars, IInv, RowsReady, RowReady, Active
  <2>3. \A s \in Sessions : StatusCurrent(s)'
    BY <1>4, <2>1 DEF vars, IInv, StatusCurrent
  <2> QED BY <2>1, <2>2, <2>3 DEF IInv
<1> QED BY <1>1, <1>2, <1>3, <1>4 DEF Next, Done

\* The invariant holds in every behaviour.
LEMMA Invariant == Spec => []IInv
BY InitHolds, StepHolds, PTL DEF Spec

\* Rows, statuses and sessions keep their types (sales_orders,
\* sales_order_items, and the requests the handlers run).
THEOREM TypeCorrect == Spec => []TypeOK
<1>1. IInv => TypeOK
  <2> SUFFICES ASSUME IInv PROVE TypeOK
    OBVIOUS
  <2>1. ASSUME NEW s \in Sessions, session[s] # Idle
        PROVE  /\ session[s].pc \in {"locking", "refreshing", "writing", "committing"}
               /\ session[s].req \in Requests
               /\ session[s].at \in 1..(Len(Plan(session[s].req)) + 1)
               /\ DOMAIN session[s].rows \subseteq Lines
    <3>1. SessionType(session[s])
      BY DEF IInv, Types
    <3>2. session[s].req \in Requests => Len(Plan(session[s].req)) \in Nat
      BY PlanType
    <3> QED BY <2>1, <3>1, <3>2 DEF SessionType
  <2> QED BY <2>1 DEF IInv, Types, TypeOK, Row, Statuses
<1> QED BY <1>1, Invariant, PTL

\* Whatever handlers of deliver, invoice, return_delivery and
\* issue_credit_note overlap, a line's counters are its committed documents.
THEOREM NoLostUpdate == Spec => []CountersAreCommitted
<1>1. IInv => CountersAreCommitted
  BY DEF IInv
<1> QED BY <1>1, Invariant, PTL

\* Overlapping handlers never take a line over its limits together, and
\* GREATEST(0, ...) in issue_credit_note never cuts a quantity off.
THEOREM LimitsAlways == Spec => []LimitsHold
<1>1. IInv => LimitsHold
  <2> SUFFICES ASSUME IInv, NEW l \in Lines
               PROVE  /\ line[l].delivered - line[l].returned \in 0..Ordered[l]
                      /\ line[l].invoiced \in 0..Ordered[l]
                      /\ line[l].returned <= First[l] /\ line[l].credited <= First[l]
    BY DEF LimitsHold
  <2>1. \A op \in Ops : posted[op][l] \in Nat
    BY DEF IInv, Types
  <2>2. {"deliver", "return", "credit", "invoice"} \subseteq Ops
    BY DEF Ops
  <2>3. First[l] \in Nat /\ Ordered[l] \in Nat
    BY LockingAssumption
  <2>4. /\ line[l].delivered - line[l].returned <= Ordered[l] /\ line[l].invoiced <= Ordered[l]
        /\ line[l].returned <= First[l] /\ line[l].credited <= First[l]
    BY DEF IInv, WithinOrder
  <2>5. /\ line[l].delivered = First[l] + posted["deliver"][l]
        /\ line[l].returned = posted["return"][l]
        /\ line[l].credited = posted["credit"][l]
        /\ line[l].invoiced = First[l] + posted["invoice"][l] - posted["credit"][l]
    BY DEF IInv, CountersAreCommitted
  <2> QED BY <2>1, <2>2, <2>3, <2>4, <2>5
<1> QED BY <1>1, Invariant, PTL

\* The status a delivery or an invoice commits is the one the committed lines
\* imply, for they hold the order's row from their first statement.
THEOREM StatusRefreshed == Spec => OrderLockRefreshes
<1> DEFINE Fresh(s) ==
        /\ session[s].pc = "committing" /\ session'[s].pc = "idle" /\ posted' # posted
        /\ session[s].req.op \in {"deliver", "invoice"}
        => status' = StatusOf(line')
<1>1. IInv /\ [Next]_vars => [\A s \in Sessions : Fresh(s)]_vars
  <2> SUFFICES ASSUME IInv, Next, NEW s \in Sessions,
                      session[s].pc = "committing", session'[s].pc = "idle", posted' # posted,
                      session[s].req.op \in {"deliver", "invoice"}
               PROVE  status' = StatusOf(line')
    OBVIOUS
  <2>1. PICK t \in Sessions : Commit(t)
    BY DEF Next, Done, vars, Begin, Rollback, Step, Acquire, Refuse, BreakDeadlock, ReadLines,
           WriteStatus
  <2>2. t = s
    BY <2>1 DEF Commit, IInv, Types
  <2>3. status' = session[s].seen /\ line' = View(s)
    BY <2>1, <2>2 DEF Commit, View
  <2>4. session[s].seen = StatusOf(View(s))
    BY DEF IInv, StatusCurrent
  <2> QED BY <2>3, <2>4
<1> QED BY <1>1, Invariant, PTL DEF Spec, OrderLockRefreshes

=============================================================================
