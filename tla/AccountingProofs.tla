-------------------------- MODULE AccountingProofs --------------------------
(* Proofs about the posting kernel, for any number of sessions, batches and  *)
(* vouchers.  The sums of a voucher stay opaque: a reversal is balanced      *)
(* because its debits are the credits of a balanced batch, line by line.     *)
EXTENDS Accounting, TLAPS

-----------------------------------------------------------------------------
Running(s) == session[s].pc \notin {"idle", "locking"}

LinesBalanced(lines) == DebitTotal(lines) = CreditTotal(lines)

(* A request names a voucher and a date, and a reversal a batch.             *)
RequestInv ==
    \A s \in Sessions :
        /\ session[s].pc # "idle" => session[s].key \in Keys /\ session[s].date \in Periods
        /\ session[s].pc = "locking" => session[s].target \in BatchIds

(* An uncommitted row belongs to a session about to commit it, and is what   *)
(* that session's request asked for.                                         *)
OwnerInv ==
    \A b \in BatchIds : Stored(b) /\ batches[b].owner # None =>
        LET s == batches[b].owner IN
        /\ session[s].pc = "posted" /\ session[s].batch = b
        /\ batches[b].reverses = session[s].target
        /\ batches[b].lines = session[s].lines
        /\ batches[b].status = "Posted"

(* A session about to commit has inserted its batch or found a committed one. *)
PostedInv ==
    \A s \in Sessions : session[s].pc = "posted" =>
        LET b == session[s].batch IN
        /\ b \in BatchIds /\ Stored(b) /\ batches[b].key = session[s].key
        /\ Own(s, b) \/ Committed(b)

UniqueInv ==
    \A b, c \in BatchIds :
        Stored(b) /\ Stored(c) /\ batches[b].key = batches[c].key => b = c

(* A reversal holds its original: committed, still Posted, and mirrored by    *)
(* the lines it is about to post; nobody else holds it.                      *)
HolderMirrors ==
    \A s \in Sessions : Running(s) /\ session[s].target # None =>
        LET r == session[s].target IN
        /\ Committed(r) /\ batches[r].status = "Posted"
        /\ session[s].lines = Swapped(batches[r].lines)

HolderAlone ==
    \A s, t \in Sessions :
        /\ Running(s) /\ Running(t)
        /\ session[s].target # None /\ session[s].target = session[t].target
        => s = t

LinesInv ==
    /\ \A s \in Sessions : Running(s) => LinesBalanced(session[s].lines)
    /\ \A b \in BatchIds : Stored(b) =>
          LinesBalanced(batches[b].lines) /\ EntriesAccepted(batches[b].lines)

IInv == /\ RequestInv /\ OwnerInv /\ PostedInv /\ UniqueInv
        /\ HolderMirrors /\ HolderAlone /\ LinesInv
        /\ ReversalsMirrorOnce /\ AckedIsDurable

-----------------------------------------------------------------------------
\* Rounding to cents gives cents.
LEMMA RoundInt == ASSUME NEW v \in Int PROVE RoundHalfEven(v) \in Int
  BY ScaleAssumption DEF RoundHalfEven

\* Normalized lines are lines.
LEMMA NormalizedType ==
  ASSUME NEW raw \in RawVouchers PROVE Normalized(raw) \in Seq(RawLine)
  <1>1. raw \in Seq(RawLine)
    BY VoucherAssumption
  <1>2. /\ DOMAIN raw = 1..Len(raw) /\ Len(raw) \in Nat
        /\ \A i \in DOMAIN raw : raw[i] \in RawLine
    BY <1>1
  <1>3. ASSUME NEW i \in DOMAIN raw
        PROVE  [account |-> raw[i].account, debit |-> RoundHalfEven(raw[i].debit),
                credit |-> RoundHalfEven(raw[i].credit)] \in RawLine
    <2>1. /\ raw[i].account \in Accounts
          /\ raw[i].debit \in Int /\ raw[i].credit \in Int
      BY <1>2 DEF RawLine
    <2>2. RoundHalfEven(raw[i].debit) \in Int
      BY <2>1, RoundInt
    <2>3. RoundHalfEven(raw[i].credit) \in Int
      BY <2>1, RoundInt
    <2> QED
      BY <2>1, <2>2, <2>3 DEF RawLine
  <1>4. Normalized(raw) \in [1..Len(raw) -> RawLine]
    BY <1>2, <1>3 DEF Normalized
  <1> QED
    BY <1>2, <1>4

\* The lines of a reversal are lines.
LEMMA SwappedType ==
  ASSUME NEW lines \in Seq(RawLine) PROVE Swapped(lines) \in Seq(RawLine)
  <1>1. /\ DOMAIN lines = 1..Len(lines) /\ Len(lines) \in Nat
        /\ \A i \in DOMAIN lines : lines[i] \in RawLine
    OBVIOUS
  <1>2. \A i \in DOMAIN lines :
           [account |-> lines[i].account, debit |-> lines[i].credit,
            credit |-> lines[i].debit] \in RawLine
    BY <1>1 DEF RawLine
  <1>3. Swapped(lines) \in [1..Len(lines) -> RawLine]
    BY <1>1, <1>2 DEF Swapped
  <1> QED
    BY <1>1, <1>3

(* A reversal needs no balance check of its own: the debits of the swapped   *)
(* lines are, as a function, the credits of the original.                    *)
LEMMA SwappedBalanced ==
  ASSUME NEW lines \in Seq(RawLine), LinesBalanced(lines)
  PROVE  LinesBalanced(Swapped(lines))
  <1>1. [i \in DOMAIN Swapped(lines) |-> Swapped(lines)[i].debit]
          = [i \in DOMAIN lines |-> lines[i].credit]
    BY DEF Swapped
  <1>2. [i \in DOMAIN Swapped(lines) |-> Swapped(lines)[i].credit]
          = [i \in DOMAIN lines |-> lines[i].debit]
    BY DEF Swapped
  <1>3. DebitTotal(Swapped(lines)) = CreditTotal(lines)
    BY <1>1 DEF DebitTotal, CreditTotal
  <1>4. CreditTotal(Swapped(lines)) = DebitTotal(lines)
    BY <1>2 DEF DebitTotal, CreditTotal
  <1> QED
    BY <1>3, <1>4 DEF LinesBalanced

-----------------------------------------------------------------------------
\* No lines are a sequence of lines.
LEMMA EmptyLines == <<>> \in Seq(RawLine)
  OBVIOUS

\* A session at rest is a session.
LEMMA IdleType == Idle \in Session
  BY EmptyLines DEF Idle, Finished, Session

\* A commit leaves batches behind.
LEMMA CommitType ==
  ASSUME TypeOK, HolderMirrors, NEW s \in Sessions, session[s].pc = "posted"
  PROVE  AfterCommit(s) \in [BatchIds -> Batch \cup {None}]
  <1> SUFFICES ASSUME NEW b \in BatchIds
               PROVE AfterCommit(s)[b] \in Batch \cup {None}
    BY DEF AfterCommit
  <1>0. None \notin Batch /\ None \notin BatchIds
    BY NoneAssumption
  <1>1. CASE Own(s, b)
    <2>1. batches[b] \in Batch
      BY <1>1 DEF Own, Stored, TypeOK
    <2>2. [batches[b] EXCEPT !.owner = None] \in Batch
      BY <2>1 DEF Batch
    <2> QED
      BY <1>1, <2>2 DEF AfterCommit
  <1>2. CASE ~Own(s, b) /\ b = session[s].target
    <2>1. batches[b] \in Batch
      BY <1>0, <1>2 DEF HolderMirrors, Running, Committed, Stored, TypeOK
    <2>2. [batches[b] EXCEPT !.status = "Reversed"] \in Batch
      BY <2>1 DEF Batch
    <2> QED
      BY <1>2, <2>2 DEF AfterCommit
  <1>3. CASE ~Own(s, b) /\ b # session[s].target
    BY <1>3 DEF AfterCommit, TypeOK
  <1> QED
    BY <1>1, <1>2, <1>3

\* Every step keeps the types.
LEMMA TypeStep ==
  ASSUME TypeOK, RequestInv, HolderMirrors, [Next]_vars PROVE TypeOK'
  <1> USE DEF TypeOK
  <1>1. ASSUME NEW s \in Sessions, BeginPost(s) PROVE TypeOK'
    BY <1>1, NormalizedType, NoneAssumption DEF BeginPost, Session
  <1>2. ASSUME NEW s \in Sessions, BeginReverse(s) PROVE TypeOK'
    BY <1>2, EmptyLines, NoneAssumption DEF BeginReverse, Session
  <1>3. ASSUME NEW s \in Sessions, LockBatch(s) PROVE TypeOK'
    <2> DEFINE b == session[s].target
    <2>1. CASE Committed(b) /\ batches[b].status = "Posted"
      <3>1. session[s] \in Session /\ b \in BatchIds \cup {None}
        BY DEF Session
      <3>2. b \in BatchIds
        BY <1>3 DEF LockBatch, RequestInv
      <3>3. batches[b] \in Batch
        BY <2>1, <3>2 DEF Committed, Stored
      <3>4. Swapped(batches[b].lines) \in Seq(RawLine)
        BY <3>3, SwappedType DEF Batch
      <3>5. [session[s] EXCEPT !.pc = "checking",
                               !.lines = Swapped(batches[b].lines)] \in Session
        BY <3>1, <3>4 DEF Session
      <3> QED
        BY <1>3, <2>1, <3>1, <3>5 DEF LockBatch
    <2>2. CASE ~(Committed(b) /\ batches[b].status = "Posted")
      BY <1>3, <2>2, IdleType DEF LockBatch, Fail
    <2> QED
      BY <2>1, <2>2
  <1>4. ASSUME NEW s \in Sessions, CheckPeriod(s) PROVE TypeOK'
    <2>1. [session[s] EXCEPT !.pc = "lookup"] \in Session
      BY DEF Session
    <2> QED
      BY <1>4, <2>1, IdleType DEF CheckPeriod, Fail
  <1>5. ASSUME NEW s \in Sessions, LookUp(s) PROVE TypeOK'
    <2>1. [session[s] EXCEPT !.pc = "inserting"] \in Session
      BY DEF Session
    <2>2. \A b \in BatchIds : [session[s] EXCEPT !.pc = "posted", !.batch = b] \in Session
      BY DEF Session
    <2> QED
      BY <1>5, <2>1, <2>2, IdleType DEF LookUp, Fail, SameVoucher
  <1>6. ASSUME NEW s \in Sessions, Insert(s) PROVE TypeOK'
    <2>1. CASE Fail(s) /\ UNCHANGED <<batches, locked>>
      BY <2>1, IdleType DEF Fail
    <2>2. ASSUME NEW b \in BatchIds,
                 batches' = [batches EXCEPT ![b] =
                      [key |-> session[s].key, date |-> session[s].date,
                       lines |-> session[s].lines, status |-> "Posted",
                       reverses |-> session[s].target, owner |-> s]],
                 session' = [session EXCEPT ![s].pc = "posted", ![s].batch = b],
                 UNCHANGED locked
          PROVE  TypeOK'
      <3>1. session[s] \in Session /\ session[s].key \in Keys /\ session[s].date \in Periods
        BY <1>6 DEF Insert, Session, RequestInv
      <3>2. [key |-> session[s].key, date |-> session[s].date,
             lines |-> session[s].lines, status |-> "Posted",
             reverses |-> session[s].target, owner |-> s] \in Batch
        BY <3>1 DEF Batch, Session
      <3>3. [session[s] EXCEPT !.pc = "posted", !.batch = b] \in Session
        BY <3>1 DEF Session
      <3> QED
        BY <1>6, <2>2, <3>1, <3>2, <3>3 DEF Insert
    <2> QED
      BY <1>6, <2>1, <2>2 DEF Insert
  <1>7. ASSUME NEW s \in Sessions, Commit(s) PROVE TypeOK'
    <2>1. Finished(session[s].key, session[s].batch) \in Session
      BY EmptyLines DEF Finished, Session
    <2> QED
      BY <1>7, <2>1, CommitType DEF Commit
  <1>8. ASSUME NEW s \in Sessions, Rollback(s) PROVE TypeOK'
    BY <1>8, IdleType DEF Rollback, Fail
  <1>9. ASSUME NEW p \in Periods, SetPeriod(p) PROVE TypeOK'
    BY <1>9 DEF SetPeriod
  <1>10. CASE UNCHANGED vars
    BY <1>10 DEF vars
  <1> QED
    BY <1>1, <1>2, <1>3, <1>4, <1>5, <1>6, <1>7, <1>8, <1>9, <1>10 DEF Next, Step

-----------------------------------------------------------------------------
(* Steps that change one session and no row.  F names the facts about the    *)
(* next state that the parts of the invariant depend on.                     *)
LEMMA FailInv ==
  ASSUME TypeOK, IInv, NEW s \in Sessions,
         \A t \in Sessions : t # s => session'[t] = session[t],
         session[s].pc # "posted", session'[s].pc = "idle",
         session'[s].batch = None /\ session'[s].target = None,
         batches' = batches
  PROVE  IInv'
  <1> USE NoneAssumption DEF IInv
  <1>1. /\ \A x \in BatchIds : Stored(x) => /\ batches[x].owner \in Sessions \cup {None}
                                        /\ batches[x].reverses \in BatchIds \cup {None}
        /\ \A t \in Sessions : /\ session[t].target \in BatchIds \cup {None}
                              /\ session[t].batch \in BatchIds \cup {None}
    BY DEF TypeOK, Stored, Batch, Session
  <1>2. RequestInv'
    BY <1>1 DEF RequestInv
  <1>3. OwnerInv'
    BY <1>1 DEF OwnerInv, Stored, Own
  <1>4. PostedInv'
    BY <1>1 DEF PostedInv, Stored, Own, Committed
  <1>5. UniqueInv'
    BY <1>1 DEF UniqueInv, Stored
  <1>6. HolderMirrors'
    BY <1>1 DEF HolderMirrors, Running, Committed, Stored
  <1>7. HolderAlone'
    BY <1>1 DEF HolderAlone, Running, Holders
  <1>8. LinesInv'
    BY <1>1 DEF LinesInv, Running, Stored, LinesBalanced
  <1>9. ReversalsMirrorOnce'
    BY <1>1 DEF ReversalsMirrorOnce, Committed, Stored
  <1>10. AckedIsDurable'
    BY <1>1 DEF AckedIsDurable, Committed, Stored
  <1> QED
    BY <1>2, <1>3, <1>4, <1>5, <1>6, <1>7, <1>8, <1>9, <1>10

\* A session that goes on to its next check keeps the invariant.
LEMMA AdvanceInv ==
  ASSUME TypeOK, IInv, NEW s \in Sessions,
         NEW pc \in {"lookup", "inserting"},
         \A t \in Sessions : t # s => session'[t] = session[t],
         session[s].pc \in {"checking", "lookup"}, session'[s].pc = pc,
         session'[s].key = session[s].key /\ session'[s].date = session[s].date,
         session'[s].target = session[s].target /\ session'[s].lines = session[s].lines,
         batches' = batches
  PROVE  IInv'
  <1> USE NoneAssumption DEF IInv
  <1>1. /\ \A x \in BatchIds : Stored(x) => /\ batches[x].owner \in Sessions \cup {None}
                                        /\ batches[x].reverses \in BatchIds \cup {None}
        /\ \A t \in Sessions : /\ session[t].target \in BatchIds \cup {None}
                              /\ session[t].batch \in BatchIds \cup {None}
    BY DEF TypeOK, Stored, Batch, Session
  <1>2. RequestInv'
    BY <1>1 DEF RequestInv
  <1>3. OwnerInv'
    BY <1>1 DEF OwnerInv, Stored, Own
  <1>4. PostedInv'
    BY <1>1 DEF PostedInv, Stored, Own, Committed
  <1>5. UniqueInv'
    BY <1>1 DEF UniqueInv, Stored
  <1>6. HolderMirrors'
    BY <1>1 DEF HolderMirrors, Running, Committed, Stored
  <1>7. HolderAlone'
    BY <1>1 DEF HolderAlone, Running, Holders
  <1>8. LinesInv'
    BY <1>1 DEF LinesInv, Running, Stored, LinesBalanced
  <1>9. ReversalsMirrorOnce'
    BY <1>1 DEF ReversalsMirrorOnce, Committed, Stored
  <1>10. AckedIsDurable'
    BY <1>1 DEF AckedIsDurable, Committed, Stored
  <1> QED
    BY <1>2, <1>3, <1>4, <1>5, <1>6, <1>7, <1>8, <1>9, <1>10

\* A session that finds its key posted keeps the invariant.
LEMMA FoundInv ==
  ASSUME TypeOK, IInv, NEW s \in Sessions,
         NEW b \in BatchIds,
         \A t \in Sessions : t # s => session'[t] = session[t],
         session[s].pc = "lookup", session'[s].pc = "posted", session'[s].batch = b,
         Committed(b), batches[b].key = session[s].key,
         session'[s].key = session[s].key /\ session'[s].date = session[s].date,
         session'[s].target = session[s].target /\ session'[s].lines = session[s].lines,
         batches' = batches
  PROVE  IInv'
  <1> USE NoneAssumption DEF IInv
  <1>1. /\ \A x \in BatchIds : Stored(x) => /\ batches[x].owner \in Sessions \cup {None}
                                        /\ batches[x].reverses \in BatchIds \cup {None}
        /\ \A t \in Sessions : /\ session[t].target \in BatchIds \cup {None}
                              /\ session[t].batch \in BatchIds \cup {None}
    BY DEF TypeOK, Stored, Batch, Session
  <1>2. RequestInv'
    BY <1>1 DEF RequestInv
  <1>3. OwnerInv'
    BY <1>1 DEF OwnerInv, Stored, Own
  <1>4. PostedInv'
    BY <1>1 DEF PostedInv, Stored, Own, Committed
  <1>5. UniqueInv'
    BY <1>1 DEF UniqueInv, Stored
  <1>6. HolderMirrors'
    BY <1>1 DEF HolderMirrors, Running, Committed, Stored
  <1>7. HolderAlone'
    BY <1>1 DEF HolderAlone, Running, Holders
  <1>8. LinesInv'
    BY <1>1 DEF LinesInv, Running, Stored, LinesBalanced
  <1>9. ReversalsMirrorOnce'
    BY <1>1 DEF ReversalsMirrorOnce, Committed, Stored
  <1>10. AckedIsDurable'
    BY <1>1 DEF AckedIsDurable, Committed, Stored
  <1> QED
    BY <1>2, <1>3, <1>4, <1>5, <1>6, <1>7, <1>8, <1>9, <1>10

\* A session that begins to post keeps the invariant.
LEMMA PostInv ==
  ASSUME TypeOK, IInv, NEW s \in Sessions,
         \A t \in Sessions : t # s => session'[t] = session[t],
         session[s].pc = "idle", session'[s].pc = "checking",
         session'[s].key \in Keys, session'[s].date \in Periods,
         session'[s].target = None, LinesBalanced(session'[s].lines),
         batches' = batches
  PROVE  IInv'
  <1> USE NoneAssumption DEF IInv
  <1>1. /\ \A x \in BatchIds : Stored(x) => /\ batches[x].owner \in Sessions \cup {None}
                                        /\ batches[x].reverses \in BatchIds \cup {None}
        /\ \A t \in Sessions : /\ session[t].target \in BatchIds \cup {None}
                              /\ session[t].batch \in BatchIds \cup {None}
    BY DEF TypeOK, Stored, Batch, Session
  <1>2. RequestInv'
    BY <1>1 DEF RequestInv
  <1>3. OwnerInv'
    BY <1>1 DEF OwnerInv, Stored, Own
  <1>4. PostedInv'
    BY <1>1 DEF PostedInv, Stored, Own, Committed
  <1>5. UniqueInv'
    BY <1>1 DEF UniqueInv, Stored
  <1>6. HolderMirrors'
    BY <1>1 DEF HolderMirrors, Running, Committed, Stored
  <1>7. HolderAlone'
    BY <1>1 DEF HolderAlone, Running, Holders
  <1>8. LinesInv'
    BY <1>1 DEF LinesInv, Running, Stored, LinesBalanced
  <1>9. ReversalsMirrorOnce'
    BY <1>1 DEF ReversalsMirrorOnce, Committed, Stored
  <1>10. AckedIsDurable'
    BY <1>1 DEF AckedIsDurable, Committed, Stored
  <1> QED
    BY <1>2, <1>3, <1>4, <1>5, <1>6, <1>7, <1>8, <1>9, <1>10

\* A session that begins to reverse keeps the invariant.
LEMMA RequestReversalInv ==
  ASSUME TypeOK, IInv, NEW s \in Sessions,
         \A t \in Sessions : t # s => session'[t] = session[t],
         session[s].pc = "idle", session'[s].pc = "locking",
         session'[s].key \in Keys, session'[s].date \in Periods,
         session'[s].target \in BatchIds,
         batches' = batches
  PROVE  IInv'
  <1> USE NoneAssumption DEF IInv
  <1>1. /\ \A x \in BatchIds : Stored(x) => /\ batches[x].owner \in Sessions \cup {None}
                                        /\ batches[x].reverses \in BatchIds \cup {None}
        /\ \A t \in Sessions : /\ session[t].target \in BatchIds \cup {None}
                              /\ session[t].batch \in BatchIds \cup {None}
    BY DEF TypeOK, Stored, Batch, Session
  <1>2. RequestInv'
    BY <1>1 DEF RequestInv
  <1>3. OwnerInv'
    BY <1>1 DEF OwnerInv, Stored, Own
  <1>4. PostedInv'
    BY <1>1 DEF PostedInv, Stored, Own, Committed
  <1>5. UniqueInv'
    BY <1>1 DEF UniqueInv, Stored
  <1>6. HolderMirrors'
    BY <1>1 DEF HolderMirrors, Running, Committed, Stored
  <1>7. HolderAlone'
    BY <1>1 DEF HolderAlone, Running, Holders
  <1>8. LinesInv'
    BY <1>1 DEF LinesInv, Running, Stored, LinesBalanced
  <1>9. ReversalsMirrorOnce'
    BY <1>1 DEF ReversalsMirrorOnce, Committed, Stored
  <1>10. AckedIsDurable'
    BY <1>1 DEF AckedIsDurable, Committed, Stored
  <1> QED
    BY <1>2, <1>3, <1>4, <1>5, <1>6, <1>7, <1>8, <1>9, <1>10

\* A session that locks the batch it reverses keeps the invariant.
LEMMA AcquireInv ==
  ASSUME TypeOK, IInv, NEW s \in Sessions,
         NEW r \in BatchIds,
         \A t \in Sessions : t # s => session'[t] = session[t],
         session[s].pc = "locking", session'[s].pc = "checking",
         session[s].target = r, session'[s].target = r,
         session'[s].key = session[s].key /\ session'[s].date = session[s].date,
         Holders(r) = {}, Committed(r), batches[r].status = "Posted",
         session'[s].lines = Swapped(batches[r].lines),
         batches' = batches
  PROVE  IInv'
  <1> USE NoneAssumption DEF IInv
  <1>1. /\ \A x \in BatchIds : Stored(x) => /\ batches[x].owner \in Sessions \cup {None}
                                        /\ batches[x].reverses \in BatchIds \cup {None}
        /\ \A t \in Sessions : /\ session[t].target \in BatchIds \cup {None}
                              /\ session[t].batch \in BatchIds \cup {None}
    BY DEF TypeOK, Stored, Batch, Session
  <1>2. RequestInv'
    BY <1>1 DEF RequestInv
  <1>3. OwnerInv'
    BY <1>1 DEF OwnerInv, Stored, Own
  <1>4. PostedInv'
    BY <1>1 DEF PostedInv, Stored, Own, Committed
  <1>5. UniqueInv'
    BY <1>1 DEF UniqueInv, Stored
  <1>6. HolderMirrors'
    BY <1>1 DEF HolderMirrors, Running, Committed, Stored
  <1>7. HolderAlone'
    BY <1>1 DEF HolderAlone, Running, Holders
  <1>8. LinesInv'
    <2>1. batches[r] \in Batch /\ LinesBalanced(batches[r].lines)
      BY DEF TypeOK, Committed, Stored, LinesInv
    <2>2. LinesBalanced(Swapped(batches[r].lines))
      BY <2>1, SwappedBalanced DEF Batch
    <2> QED
      BY <2>2 DEF LinesInv, Running, Stored, LinesBalanced
  <1>9. ReversalsMirrorOnce'
    BY <1>1 DEF ReversalsMirrorOnce, Committed, Stored
  <1>10. AckedIsDurable'
    BY <1>1 DEF AckedIsDurable, Committed, Stored
  <1> QED
    BY <1>2, <1>3, <1>4, <1>5, <1>6, <1>7, <1>8, <1>9, <1>10

\* A session that inserts its batch keeps the invariant.
LEMMA InsertInv ==
  ASSUME TypeOK, IInv, NEW s \in Sessions,
         NEW b \in BatchIds,
         \A t \in Sessions : t # s => session'[t] = session[t],
         session[s].pc = "inserting", session'[s].pc = "posted", session'[s].batch = b,
         session'[s].key = session[s].key /\ session'[s].date = session[s].date,
         session'[s].target = session[s].target /\ session'[s].lines = session[s].lines,
         ~Stored(b), \A c \in BatchIds : Stored(c) => batches[c].key # session[s].key,
         EntriesAccepted(session[s].lines),
         \A c \in BatchIds : c # b => batches'[c] = batches[c],
         batches'[b] # None, batches'[b].owner = s, batches'[b].status = "Posted",
         batches'[b].key = session[s].key, batches'[b].lines = session[s].lines,
         batches'[b].reverses = session[s].target
  PROVE  IInv'
  <1> USE NoneAssumption DEF IInv
  <1>1. /\ \A x \in BatchIds : Stored(x) => /\ batches[x].owner \in Sessions \cup {None}
                                        /\ batches[x].reverses \in BatchIds \cup {None}
        /\ \A t \in Sessions : /\ session[t].target \in BatchIds \cup {None}
                              /\ session[t].batch \in BatchIds \cup {None}
    BY DEF TypeOK, Stored, Batch, Session
  <1>0. \A c \in BatchIds : Committed(c)' <=> Committed(c)
    BY <1>1 DEF Committed, Stored
  <1>2. RequestInv'
    BY <1>1, <1>0 DEF RequestInv
  <1>3. OwnerInv'
    BY <1>1, <1>0 DEF OwnerInv, Stored, Own
  <1>4. PostedInv'
    BY <1>1, <1>0 DEF PostedInv, Stored, Own, Committed
  <1>5. UniqueInv'
    BY <1>1, <1>0 DEF UniqueInv, Stored
  <1>6. HolderMirrors'
    BY <1>1, <1>0 DEF HolderMirrors, Running, Committed, Stored
  <1>7. HolderAlone'
    BY <1>1, <1>0 DEF HolderAlone, Running, Holders
  <1>8. LinesInv'
    BY <1>1, <1>0 DEF LinesInv, Running, Stored, LinesBalanced
  <1>9. ReversalsMirrorOnce'
    BY <1>1, <1>0 DEF ReversalsMirrorOnce, Committed, Stored
  <1>10. AckedIsDurable'
    BY <1>1, <1>0 DEF AckedIsDurable, Committed, Stored
  <1> QED
    BY <1>2, <1>3, <1>4, <1>5, <1>6, <1>7, <1>8, <1>9, <1>10

\* A commit keeps the invariant.
LEMMA CommitInv ==
  ASSUME TypeOK, IInv, NEW s \in Sessions,
         \A t \in Sessions : t # s => session'[t] = session[t],
         session[s].pc = "posted", session'[s].pc = "idle", session'[s].target = None,
         session'[s].key = session[s].key, session'[s].batch = session[s].batch,
         \A b \in BatchIds : Stored(b) <=> batches'[b] # None,
         \A b \in BatchIds : Stored(b) => batches'[b].key = batches[b].key,
         \A b \in BatchIds : Stored(b) => batches'[b].lines = batches[b].lines,
         \A b \in BatchIds : Stored(b) => batches'[b].reverses = batches[b].reverses,
         \A b \in BatchIds : Own(s, b) => batches'[b].owner = None,
         \A b \in BatchIds : Stored(b) /\ ~Own(s, b) => batches'[b].owner = batches[b].owner,
         session[s].target \in BatchIds => batches'[session[s].target].status = "Reversed",
         \A b \in BatchIds : b # session[s].target => batches'[b].status = batches[b].status
  PROVE  IInv'
  <1> USE NoneAssumption DEF IInv
  <1>1. /\ \A x \in BatchIds : Stored(x) => /\ batches[x].owner \in Sessions \cup {None}
                                        /\ batches[x].reverses \in BatchIds \cup {None}
        /\ \A t \in Sessions : /\ session[t].target \in BatchIds \cup {None}
                              /\ session[t].batch \in BatchIds \cup {None}
    BY DEF TypeOK, Stored, Batch, Session
  <1>0. /\ \A b \in BatchIds : Committed(b)' <=> Committed(b) \/ Own(s, b)
        /\ session[s].target \in BatchIds =>
             /\ Committed(session[s].target) /\ batches[session[s].target].status = "Posted"
             /\ session[s].lines = Swapped(batches[session[s].target].lines)
             /\ ~Own(s, session[s].target)
             /\ \A t \in Sessions : t # s /\ Running(t) => session[t].target # session[s].target
    <2>1. \A b \in BatchIds : Committed(b)' <=> Committed(b) \/ Own(s, b)
      BY <1>1 DEF Committed, Stored, Own
    <2>2. Running(s)
      BY DEF Running
    <2> QED
      BY <1>1, <2>1, <2>2 DEF HolderMirrors, HolderAlone, Committed, Own
  <1>2. RequestInv'
    BY <1>1, <1>0 DEF RequestInv
  <1>3. OwnerInv'
    <2> SUFFICES ASSUME NEW b \in BatchIds, Stored(b)', batches'[b].owner # None
                 PROVE  /\ session'[batches'[b].owner].pc = "posted"
                        /\ session'[batches'[b].owner].batch = b
                        /\ batches'[b].reverses = session'[batches'[b].owner].target
                        /\ batches'[b].lines = session'[batches'[b].owner].lines
                        /\ batches'[b].status = "Posted"
      BY DEF OwnerInv, Stored
    <2>1. Stored(b) /\ ~Own(s, b) /\ batches'[b].owner = batches[b].owner
      BY DEF Stored
    <2>2. batches[b].owner \in Sessions /\ batches[b].owner # s
      BY <1>1, <2>1 DEF Own
    <2>3. b # session[s].target
      BY <1>0, <2>1, <2>2 DEF Committed
    <2> QED
      BY <2>1, <2>2, <2>3 DEF OwnerInv
  <1>4. PostedInv'
    BY <1>1, <1>0 DEF PostedInv, Stored, Own, Committed
  <1>5. UniqueInv'
    BY <1>1, <1>0 DEF UniqueInv, Stored
  <1>6. HolderMirrors'
    BY <1>1, <1>0 DEF HolderMirrors, Running, Committed, Stored
  <1>7. HolderAlone'
    BY <1>1, <1>0 DEF HolderAlone, Running, Holders
  <1>8. LinesInv'
    BY <1>1, <1>0 DEF LinesInv, Running, Stored, LinesBalanced
  <1>9. ReversalsMirrorOnce'
    <2>1. ASSUME NEW b \in BatchIds, Own(s, b)
          PROVE  /\ batches[b].reverses = session[s].target
                 /\ batches[b].lines = session[s].lines
                 /\ session[s].batch = b
      BY <2>1 DEF OwnerInv, Own
    <2>2. ASSUME NEW b \in BatchIds, NEW r \in BatchIds, Committed(b)',
                 batches'[b].reverses = r
          PROVE  /\ batches'[r] # None /\ batches'[r].owner = None
                 /\ batches'[r].status = "Reversed"
                 /\ batches'[b].lines = Swapped(batches'[r].lines)
      <3>1. CASE Own(s, b)
        <4>1. session[s].target = r /\ Committed(r)
              /\ batches[b].lines = Swapped(batches[r].lines)
          BY <2>1, <2>2, <3>1, <1>0 DEF Own
        <4> QED
          BY <2>2, <3>1, <4>1, <1>0 DEF Committed, Stored, Own
      <3>2. CASE Committed(b)
        <4>1. /\ Committed(r) /\ batches[r].status = "Reversed"
              /\ batches[b].lines = Swapped(batches[r].lines)
          BY <2>2, <3>2, NoneAssumption DEF ReversalsMirrorOnce, Committed, Stored
        <4> QED
          BY <2>2, <3>2, <4>1, <1>0 DEF Committed, Stored
      <3> QED
        BY <2>2, <3>1, <3>2, <1>0
    <2>4. \A b \in BatchIds : Committed(b)' => batches'[b].reverses \in BatchIds \cup {None}
      BY <1>0, <1>1 DEF Committed, Stored, Own
    <2>3. ASSUME NEW b \in BatchIds, NEW c \in BatchIds, Committed(b)', Committed(c)',
                 batches'[b].reverses # None, batches'[b].reverses = batches'[c].reverses
          PROVE  b = c
      BY <1>0, <1>1, <2>1, <2>3 DEF ReversalsMirrorOnce, Committed, Stored, Own
    <2> QED
      BY <2>2, <2>3, <2>4 DEF ReversalsMirrorOnce, Committed, Stored
  <1>10. AckedIsDurable'
    <2>1. ASSUME NEW t \in Sessions, NEW b \in BatchIds,
                 session'[t].pc = "idle", session'[t].batch = b
          PROVE  batches'[b] # None /\ batches'[b].owner = None /\ batches'[b].key = session'[t].key
      <3>1. CASE t = s
        <4>1. session[s].batch = b /\ Stored(b) /\ batches[b].key = session[s].key
              /\ (Own(s, b) \/ Committed(b))
          BY <2>1, <3>1 DEF PostedInv
        <4> QED
          BY <2>1, <3>1, <4>1, <1>0 DEF Committed, Stored
      <3>2. CASE t # s
        <4>1. Committed(b) /\ batches[b].key = session[t].key
          BY <2>1, <3>2, NoneAssumption DEF AckedIsDurable
        <4> QED
          BY <2>1, <3>2, <4>1, <1>0 DEF Committed, Stored
      <3> QED
        BY <3>1, <3>2
    <2>2. \A t \in Sessions : session'[t].batch \in BatchIds \cup {None}
      BY <1>1
    <2> QED
      BY <2>1, <2>2 DEF AckedIsDurable, Committed, Stored
  <1> QED
    BY <1>2, <1>3, <1>4, <1>5, <1>6, <1>7, <1>8, <1>9, <1>10

\* A rollback keeps the invariant.
LEMMA RollbackInv ==
  ASSUME TypeOK, IInv, NEW s \in Sessions,
         \A t \in Sessions : t # s => session'[t] = session[t],
         session'[s].pc = "idle", session'[s].batch = None, session'[s].target = None,
         \A b \in BatchIds : Own(s, b) => batches'[b] = None,
         \A b \in BatchIds : ~Own(s, b) => batches'[b] = batches[b]
  PROVE  IInv'
  <1> USE NoneAssumption DEF IInv
  <1>1. /\ \A x \in BatchIds : Stored(x) => /\ batches[x].owner \in Sessions \cup {None}
                                        /\ batches[x].reverses \in BatchIds \cup {None}
        /\ \A t \in Sessions : /\ session[t].target \in BatchIds \cup {None}
                              /\ session[t].batch \in BatchIds \cup {None}
    BY DEF TypeOK, Stored, Batch, Session
  <1>0. \A b \in BatchIds : Committed(b)' <=> Committed(b)
    BY <1>1 DEF Committed, Stored, Own
  <1>2. RequestInv'
    BY <1>1, <1>0 DEF RequestInv
  <1>3. OwnerInv'
    BY <1>1, <1>0 DEF OwnerInv, Stored, Own
  <1>4. PostedInv'
    BY <1>1, <1>0 DEF PostedInv, Stored, Own, Committed
  <1>5. UniqueInv'
    BY <1>1, <1>0 DEF UniqueInv, Stored
  <1>6. HolderMirrors'
    BY <1>1, <1>0 DEF HolderMirrors, Running, Committed, Stored
  <1>7. HolderAlone'
    BY <1>1, <1>0 DEF HolderAlone, Running, Holders
  <1>8. LinesInv'
    BY <1>1, <1>0 DEF LinesInv, Running, Stored, LinesBalanced
  <1>9. ReversalsMirrorOnce'
    BY <1>1, <1>0 DEF ReversalsMirrorOnce, Committed, Stored
  <1>10. AckedIsDurable'
    BY <1>1, <1>0 DEF AckedIsDurable, Committed, Stored
  <1> QED
    BY <1>2, <1>3, <1>4, <1>5, <1>6, <1>7, <1>8, <1>9, <1>10

-----------------------------------------------------------------------------
(* Every step is one of the shapes above.                                    *)
LEMMA NextInv == ASSUME TypeOK, IInv, [Next]_vars PROVE IInv'
  <1>1. ASSUME NEW s \in Sessions, BeginPost(s) PROVE IInv'
    <2>1. PICK k \in Keys, d \in Periods, raw \in RawVouchers :
             /\ Validates(Normalized(raw))
             /\ session' = [session EXCEPT ![s] =
                    [pc |-> "checking", key |-> k, date |-> d,
                     lines |-> Normalized(raw), target |-> None, batch |-> None]]
      BY <1>1 DEF BeginPost
    <2>2. /\ session'[s] = [pc |-> "checking", key |-> k, date |-> d,
                            lines |-> Normalized(raw), target |-> None, batch |-> None]
          /\ \A t \in Sessions : t # s => session'[t] = session[t]
      BY <2>1 DEF TypeOK
    <2>3. LinesBalanced(Normalized(raw))
      BY <2>1 DEF Validates, LinesBalanced
    <2>4. session[s].pc = "idle" /\ batches' = batches
      BY <1>1 DEF BeginPost
    <2> QED
      BY <2>2, <2>3, <2>4, PostInv
  <1>2. ASSUME NEW s \in Sessions, BeginReverse(s) PROVE IInv'
    <2>1. PICK b \in BatchIds, k \in Keys, d \in Periods :
             session' = [session EXCEPT ![s] =
                 [pc |-> "locking", key |-> k, date |-> d, lines |-> <<>>,
                  target |-> b, batch |-> None]]
      BY <1>2 DEF BeginReverse
    <2>2. /\ session'[s] = [pc |-> "locking", key |-> k, date |-> d, lines |-> <<>>,
                            target |-> b, batch |-> None]
          /\ \A t \in Sessions : t # s => session'[t] = session[t]
      BY <2>1 DEF TypeOK
    <2>3. session[s].pc = "idle" /\ batches' = batches
      BY <1>2 DEF BeginReverse
    <2> QED
      BY <2>2, <2>3, RequestReversalInv
  <1>f. ASSUME NEW s \in Sessions, session[s].pc # "posted", Fail(s), batches' = batches
        PROVE  IInv'
    <2>1. /\ session'[s] = Idle
          /\ \A t \in Sessions : t # s => session'[t] = session[t]
      BY <1>f DEF Fail, TypeOK
    <2> QED
      BY <1>f, <2>1, FailInv DEF Idle, Finished
  <1>a. ASSUME NEW s \in Sessions, NEW pc \in {"lookup", "inserting"}, batches' = batches,
               session[s].pc \in {"checking", "lookup"},
               session' = [session EXCEPT ![s].pc = pc]
        PROVE  IInv'
    <2>1. /\ session'[s] = [session[s] EXCEPT !.pc = pc]
          /\ \A t \in Sessions : t # s => session'[t] = session[t]
      BY <1>a DEF TypeOK
    <2>2. session[s] \in Session
      BY DEF TypeOK
    <2>3. /\ session'[s].pc = pc /\ session'[s].key = session[s].key
          /\ session'[s].date = session[s].date /\ session'[s].target = session[s].target
          /\ session'[s].lines = session[s].lines
      BY <2>1, <2>2 DEF Session
    <2> QED
      BY <1>a, <2>1, <2>3, AdvanceInv
  <1>3. ASSUME NEW s \in Sessions, LockBatch(s) PROVE IInv'
    <2> DEFINE r == session[s].target
    <2>1. CASE Fail(s)
      BY <1>3, <2>1, <1>f DEF LockBatch
    <2>2. CASE /\ Committed(r) /\ batches[r].status = "Posted"
               /\ session' = [session EXCEPT ![s].pc = "checking",
                                             ![s].lines = Swapped(batches[r].lines)]
      <3>1. /\ session'[s] = [session[s] EXCEPT !.pc = "checking",
                                                !.lines = Swapped(batches[r].lines)]
            /\ \A t \in Sessions : t # s => session'[t] = session[t]
            /\ session[s] \in Session
        BY <2>2 DEF TypeOK
      <3>2. /\ session'[s].pc = "checking" /\ session'[s].target = r
            /\ session'[s].key = session[s].key /\ session'[s].date = session[s].date
            /\ session'[s].lines = Swapped(batches[r].lines)
        BY <3>1 DEF Session
      <3>3. /\ session[s].pc = "locking" /\ Holders(r) = {} /\ batches' = batches
        BY <1>3 DEF LockBatch
      <3>4. r \in BatchIds
        BY <3>3 DEF IInv, RequestInv
      <3> QED
        BY <2>2, <3>1, <3>2, <3>3, <3>4, AcquireInv
    <2> QED
      BY <1>3, <2>1, <2>2 DEF LockBatch
  <1>4. ASSUME NEW s \in Sessions, CheckPeriod(s) PROVE IInv'
    BY <1>4, <1>f, <1>a DEF CheckPeriod
  <1>5. ASSUME NEW s \in Sessions, LookUp(s) PROVE IInv'
    <2>1. CASE Fail(s)
      BY <1>5, <2>1, <1>f DEF LookUp
    <2>2. CASE session' = [session EXCEPT ![s].pc = "inserting"]
      BY <1>5, <2>2, <1>a DEF LookUp
    <2>3. ASSUME NEW b \in BatchIds, Committed(b), batches[b].key = session[s].key,
                 session' = [session EXCEPT ![s].pc = "posted", ![s].batch = b]
          PROVE  IInv'
      <3>1. /\ session'[s] = [session[s] EXCEPT !.pc = "posted", !.batch = b]
            /\ \A t \in Sessions : t # s => session'[t] = session[t]
            /\ session[s] \in Session
        BY <2>3 DEF TypeOK
      <3>2. /\ session'[s].pc = "posted" /\ session'[s].batch = b
            /\ session'[s].key = session[s].key /\ session'[s].date = session[s].date
            /\ session'[s].target = session[s].target
            /\ session'[s].lines = session[s].lines
        BY <3>1 DEF Session
      <3>3. session[s].pc = "lookup" /\ batches' = batches
        BY <1>5 DEF LookUp
      <3> QED
        BY <2>3, <3>1, <3>2, <3>3, FoundInv
    <2> QED
      BY <1>5, <2>1, <2>2, <2>3 DEF LookUp, SameVoucher
  <1>6. ASSUME NEW s \in Sessions, Insert(s) PROVE IInv'
    <2>1. CASE Fail(s) /\ UNCHANGED batches
      BY <1>6, <2>1, <1>f DEF Insert
    <2>2. ASSUME SameVoucher(s) = {}, EntriesAccepted(session[s].lines),
                 NEW b \in BatchIds, ~Stored(b),
                 batches' = [batches EXCEPT ![b] =
                      [key |-> session[s].key, date |-> session[s].date,
                       lines |-> session[s].lines, status |-> "Posted",
                       reverses |-> session[s].target, owner |-> s]],
                 session' = [session EXCEPT ![s].pc = "posted", ![s].batch = b]
          PROVE  IInv'
      <3> DEFINE row == [key |-> session[s].key, date |-> session[s].date,
                         lines |-> session[s].lines, status |-> "Posted",
                         reverses |-> session[s].target, owner |-> s]
      <3>1. /\ session'[s] = [session[s] EXCEPT !.pc = "posted", !.batch = b]
            /\ \A t \in Sessions : t # s => session'[t] = session[t]
            /\ session[s] \in Session
        BY <2>2 DEF TypeOK
      <3>2. /\ session'[s].pc = "posted" /\ session'[s].batch = b
            /\ session'[s].key = session[s].key /\ session'[s].date = session[s].date
            /\ session'[s].target = session[s].target
            /\ session'[s].lines = session[s].lines
        BY <3>1 DEF Session
      <3>3. batches'[b] = row /\ \A c \in BatchIds : c # b => batches'[c] = batches[c]
        BY <2>2 DEF TypeOK
      <3>4. session[s].pc = "inserting"
        BY <1>6 DEF Insert
      <3>5. row \in Batch
        BY <3>1, <3>4 DEF Batch, Session, IInv, RequestInv
      <3>6. batches'[b] # None
        BY <3>3, <3>5, NoneAssumption
      <3>7. \A c \in BatchIds : Stored(c) => batches[c].key # session[s].key
        BY <2>2 DEF SameVoucher
      <3> QED
        <4>1. /\ batches'[b].owner = s /\ batches'[b].status = "Posted"
              /\ batches'[b].key = session[s].key /\ batches'[b].lines = session[s].lines
              /\ batches'[b].reverses = session[s].target
          BY <3>3
        <4> HIDE DEF row
        <4> QED
          BY <2>2, <3>1, <3>2, <3>3, <3>4, <3>6, <3>7, <4>1, InsertInv
    <2> QED
      BY <1>6, <2>1, <2>2 DEF Insert
  <1>7. ASSUME NEW s \in Sessions, Commit(s) PROVE IInv'
    <2>1. /\ session'[s] = Finished(session[s].key, session[s].batch)
          /\ \A t \in Sessions : t # s => session'[t] = session[t]
          /\ session[s].pc = "posted"
      BY <1>7 DEF Commit, TypeOK
    <2>2. /\ session'[s].pc = "idle" /\ session'[s].target = None
          /\ session'[s].key = session[s].key /\ session'[s].batch = session[s].batch
      BY <2>1 DEF Finished
    <2>3. \A b \in BatchIds : Stored(b) => batches[b] \in Batch
      BY DEF TypeOK, Stored
    <2>4. session[s].target \in BatchIds =>
             Stored(session[s].target) /\ ~Own(s, session[s].target)
      BY <2>1, NoneAssumption DEF IInv, HolderMirrors, Running, Committed, Own
    <2>5. \A b \in BatchIds :
             batches'[b] = IF Own(s, b) THEN [batches[b] EXCEPT !.owner = None]
                           ELSE IF b = session[s].target
                                THEN [batches[b] EXCEPT !.status = "Reversed"]
                                ELSE batches[b]
      BY <1>7 DEF Commit, AfterCommit
    <2>6. \A b \in BatchIds : Stored(b) <=> batches'[b] # None
      <3> TAKE b \in BatchIds
      <3>1. CASE Own(s, b)
        <4>1. Stored(b) /\ [batches[b] EXCEPT !.owner = None] \in Batch
          BY <2>3, <3>1 DEF Own, Batch
        <4> QED
          BY <2>5, <3>1, <4>1, NoneAssumption
      <3>2. CASE ~Own(s, b) /\ b = session[s].target
        <4>1. Stored(b) /\ [batches[b] EXCEPT !.status = "Reversed"] \in Batch
          BY <2>3, <2>4, <3>2 DEF Batch
        <4> QED
          BY <2>5, <3>2, <4>1, NoneAssumption
      <3>3. CASE ~Own(s, b) /\ b # session[s].target
        BY <2>5, <3>3 DEF Stored
      <3> QED
        BY <3>1, <3>2, <3>3
    <2>7. \A b \in BatchIds : Stored(b) =>
             /\ batches'[b].key = batches[b].key
             /\ batches'[b].lines = batches[b].lines
             /\ batches'[b].reverses = batches[b].reverses
             /\ Own(s, b) => batches'[b].owner = None
             /\ ~Own(s, b) => batches'[b].owner = batches[b].owner
      BY <2>3, <2>5 DEF Batch
    <2>8. session[s].target \in BatchIds => batches'[session[s].target].status = "Reversed"
      BY <2>3, <2>4, <2>5 DEF Batch
    <2>9. \A b \in BatchIds : b # session[s].target => batches'[b].status = batches[b].status
      BY <2>3, <2>5 DEF Batch, Own
    <2> QED
      BY <2>1, <2>2, <2>6, <2>7, <2>8, <2>9, CommitInv DEF Own
  <1>8. ASSUME NEW s \in Sessions, Rollback(s) PROVE IInv'
    <2>1. /\ session'[s] = Idle
          /\ \A t \in Sessions : t # s => session'[t] = session[t]
      BY <1>8 DEF Rollback, Fail, TypeOK
    <2>2. /\ \A b \in BatchIds : Own(s, b) => batches'[b] = None
          /\ \A b \in BatchIds : ~Own(s, b) => batches'[b] = batches[b]
      BY <1>8 DEF Rollback
    <2> QED
      BY <2>1, <2>2, RollbackInv DEF Idle, Finished
  <1>9. CASE UNCHANGED <<batches, session>>
    BY <1>9 DEF IInv, RequestInv, OwnerInv, PostedInv, UniqueInv, HolderMirrors,
         HolderAlone, LinesInv, ReversalsMirrorOnce, AckedIsDurable,
         Stored, Committed, Own, Running
  <1> QED
    BY <1>1, <1>2, <1>3, <1>4, <1>5, <1>6, <1>7, <1>8, <1>9
       DEF Next, Step, SetPeriod, vars

\* The invariant holds of an empty ledger.
LEMMA InitInv == ASSUME Init PROVE TypeOK /\ IInv
  <1>1. TypeOK
    BY IdleType DEF Init, TypeOK
  <1>2. /\ \A b \in BatchIds : ~Stored(b)
        /\ \A s \in Sessions : session[s].pc = "idle" /\ session[s].batch = None
    BY DEF Init, Stored, Idle, Finished
  <1>3. IInv
    BY <1>2 DEF IInv, RequestInv, OwnerInv, PostedInv, UniqueInv, HolderMirrors,
       HolderAlone, LinesInv, ReversalsMirrorOnce, AckedIsDurable, Committed, Running
  <1> QED
    BY <1>1, <1>3

\* Every step keeps the invariant.
THEOREM Inductive == Spec => [](TypeOK /\ IInv)
  <1>1. TypeOK /\ IInv /\ [Next]_vars => (TypeOK /\ IInv)'
    BY TypeStep, NextInv DEF IInv
  <1> QED
    BY <1>1, InitInv, PTL DEF Spec

-----------------------------------------------------------------------------
(* Rows and session records keep their types.                                *)
THEOREM TypeCorrect == Spec => []TypeOK
  BY Inductive, PTL

(* For any number of sessions racing on one voucher, one batch is committed. *)
THEOREM PostsOnce == Spec => []OneBatchPerVoucher
  <1>1. TypeOK /\ IInv => OneBatchPerVoucher
    BY DEF IInv, UniqueInv, OneBatchPerVoucher, Committed
  <1> QED
    BY <1>1, Inductive, PTL

(* Every committed batch, voucher or reversal, is balanced and its entries    *)
(* are one-sided and positive.                                               *)
THEOREM AlwaysBalanced == Spec => []LedgerBalanced
  <1>1. TypeOK /\ IInv => LedgerBalanced
    <2> SUFFICES ASSUME TypeOK, IInv, NEW b \in BatchIds, Committed(b)
                 PROVE  /\ DebitTotal(batches[b].lines) = CreditTotal(batches[b].lines)
                        /\ \A i \in DOMAIN batches[b].lines :
                              /\ batches[b].lines[i].debit >= 0
                              /\ batches[b].lines[i].credit >= 0
                              /\ (batches[b].lines[i].debit = 0) # (batches[b].lines[i].credit = 0)
      BY DEF LedgerBalanced
    <2>1. batches[b].lines \in Seq(RawLine)
      BY DEF TypeOK, Committed, Stored, Batch
    <2>2. \A i \in DOMAIN batches[b].lines : batches[b].lines[i] \in RawLine
      BY <2>1
    <2>3. LinesBalanced(batches[b].lines) /\ EntriesAccepted(batches[b].lines)
      BY DEF IInv, LinesInv, Committed
    <2> QED
      BY <2>2, <2>3 DEF LinesBalanced, EntriesAccepted, RawLine
  <1> QED
    BY <1>1, Inductive, PTL

(* A reversal mirrors the batch it names, and no batch is reversed twice.     *)
THEOREM ReversesOnce == Spec => []ReversalsMirrorOnce
  BY Inductive, PTL DEF IInv

(* An id handed to a caller stays the id of the voucher the caller posted.    *)
THEOREM AcknowledgedStays == Spec => []AckedIsDurable
  BY Inductive, PTL DEF IInv

(* The ledger is append-only: a committed batch keeps its voucher and lines    *)
(* and never returns from Reversed to Posted.                                *)
THEOREM AppendOnly == Spec => LedgerImmutable
  <1> DEFINE Kept(b) == /\ batches'[b] # None
                        /\ batches'[b].lines = batches[b].lines
                        /\ batches'[b].key = batches[b].key
                        /\ batches'[b].reverses = batches[b].reverses
                        /\ batches'[b].owner = None
                        /\ batches[b].status = "Reversed" => batches'[b].status = "Reversed"
  <1>1. TypeOK /\ IInv /\ [Next]_vars => CommittedStay
    <2> SUFFICES ASSUME TypeOK, IInv, [Next]_vars, NEW b \in BatchIds, Committed(b)
                 PROVE  Kept(b)
      BY DEF CommittedStay
    <2>0. \A s \in Sessions : ~Own(s, b)
      BY NoneAssumption DEF Own, Committed
    <2>1. CASE batches' = batches
      BY <2>1 DEF Committed, Stored
    <2>2. ASSUME NEW s \in Sessions, Insert(s) PROVE Kept(b)
      <3>1. batches'[b] = batches[b]
        BY <2>2 DEF Insert, TypeOK, Committed
      <3> QED
        BY <3>1 DEF Committed, Stored
    <2>3. ASSUME NEW s \in Sessions, Commit(s) PROVE Kept(b)
      <3>1. batches[b] \in Batch
        BY DEF TypeOK, Committed, Stored
      <3>2. \/ batches'[b] = batches[b]
            \/ batches'[b] = [batches[b] EXCEPT !.status = "Reversed"]
        BY <2>0, <2>3 DEF Commit, AfterCommit
      <3>3. [batches[b] EXCEPT !.status = "Reversed"] \in Batch
        BY <3>1 DEF Batch
      <3>4. batches'[b] # None
        BY <3>1, <3>2, <3>3, NoneAssumption
      <3> QED
        BY <3>1, <3>2, <3>4 DEF Batch, Committed
    <2>4. ASSUME NEW s \in Sessions, Rollback(s) PROVE Kept(b)
      BY <2>0, <2>4 DEF Rollback, Committed, Stored
    <2> QED
      BY <2>1, <2>2, <2>3, <2>4 DEF Next, Step, vars, BeginPost, BeginReverse, LockBatch,
         CheckPeriod, LookUp, SetPeriod
  <1> QED
    BY <1>1, Inductive, PTL DEF LedgerImmutable, Spec
=============================================================================
