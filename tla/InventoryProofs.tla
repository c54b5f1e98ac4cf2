---------------------------- MODULE InventoryProofs ----------------------------
(***************************************************************************)
(* Proofs about Inventory, for every set of bins, every valuation method,  *)
(* every list of lines, any number of events and of reversals.             *)
(*                                                                         *)
(* The invariant is stated of any tables w, for it holds of the committed  *)
(* ones and of those a transaction works on: what a posted line does to w  *)
(* is one lemma a part.  Of the transaction itself it says how far it is:  *)
(* the rows it added and the lines it has left make up what it reverses.   *)
(***************************************************************************)
EXTENDS Inventory, MoneyProofs

Bin == [qty : Int, value : Int, rate : Int]
Entry == [event : Nat, bin : Bins, qty : Int \ {0}, after : Int, unit : Int, rate : Int,
          change : Int, value : Int]
States == {"Posted", "Cancelled"}
Event == [state : States, reverses : Nat \cup {None}, forced : BOOLEAN]
Layer == [at : Nat, left : Nat, cost : Int]

\* The lines of a transaction: those of a caller, or of a reversal.
WorkLine == [bin : Bins, qty : Int \ {0}, cost : Int \cup {None}, extra : Int,
             forced : Int \cup {None}]

\* Numbers of the rows of a bin, and the sums of their fields.
Rows(ledger, b) == {k \in DOMAIN ledger : ledger[k].bin = b}
QtyIn(ledger, K) == SumFunctionOnSet([k \in DOMAIN ledger |-> ledger[k].qty], K)
ChangeIn(ledger, K) == SumFunctionOnSet([k \in DOMAIN ledger |-> ledger[k].change], K)

-----------------------------------------------------------------------------
(* FIFO layers.                                                             *)
Layered(lay) ==
    /\ IsFiniteSet(DOMAIN lay) /\ DOMAIN lay \subseteq Nat
    /\ lay \in [DOMAIN lay -> Layer]

\* Layer j is issued from before layer k.
Precedes(lay, j, k) == lay[j].at < lay[k].at \/ (lay[j].at = lay[k].at /\ j < k)

(* The layers before another one.                                           *)
LEMMA EarlierAre ==
  ASSUME NEW lay, Layered(lay), NEW k \in DOMAIN lay
  PROVE  /\ Earlier(lay, k) \subseteq DOMAIN lay
         /\ \A j \in DOMAIN lay : j \in Earlier(lay, k) <=> Precedes(lay, j, k)
         /\ k \notin Earlier(lay, k)
  BY DEF Layered, Layer, Earlier, Precedes

(* The order of the layers is total.                                        *)
LEMMA LayersOrdered ==
  ASSUME NEW lay, Layered(lay)
  PROVE  /\ \A j, k \in DOMAIN lay : j # k => Precedes(lay, j, k) \/ Precedes(lay, k, j)
         /\ \A i, j, k \in DOMAIN lay :
               Precedes(lay, i, j) /\ Precedes(lay, j, k) => Precedes(lay, i, k)
  <1>1. \A k \in DOMAIN lay : k \in Nat /\ lay[k].at \in Nat
    BY DEF Layered, Layer
  <1> QED
    BY <1>1 DEF Precedes

(* One of any layers comes last.                                            *)
LEMMA LastLayer ==
  ASSUME NEW lay, Layered(lay), NEW T \in SUBSET DOMAIN lay, T # {}
  PROVE  \E k \in T : \A j \in T \ {k} : Precedes(lay, j, k)
  <1> DEFINE HasLast(K) == K = {} \/ \E k \in K : \A j \in K \ {k} : Precedes(lay, j, k)
             C == {K \in SUBSET T : HasLast(K)}
  <1>1. {} \in C
    OBVIOUS
  <1>2. ASSUME NEW K \in C, NEW x \in T \ K PROVE K \cup {x} \in C
    <2>1. CASE K = {}
      BY <2>1
    <2>2. ASSUME NEW k \in K, \A j \in K \ {k} : Precedes(lay, j, k)
          PROVE  HasLast(K \cup {x})
      <3>1. CASE Precedes(lay, x, k)
        BY <2>2, <3>1
      <3>2. CASE Precedes(lay, k, x)
        <4>1. \A j \in K : Precedes(lay, j, x)
          BY <2>2, <3>2, LayersOrdered
        <4> QED
          BY <4>1
      <3> QED
        BY <2>2, <3>1, <3>2, LayersOrdered
    <2> QED
      BY <2>1, <2>2
  <1>3. IsFiniteSet(T)
    BY FS_Subset DEF Layered
  <1> HIDE DEF HasLast
  <1>4. T \in C
    <2> HIDE DEF C
    <2>1. C \in SUBSET SUBSET T
      BY DEF C
    <2> QED
      BY <1>1, <1>2, <1>3, <2>1, FiniteSetInduction
  <1> QED
    BY <1>4 DEF HasLast

(* What is left in some of the layers.                                      *)
LEMMA LeftIs ==
  ASSUME NEW lay, Layered(lay)
  PROVE  /\ \A K \in SUBSET DOMAIN lay : Left(lay, K) \in Nat /\ IsFiniteSet(K)
         /\ \A K \in SUBSET DOMAIN lay : \A k \in DOMAIN lay \ K :
               Left(lay, K \cup {k}) = Left(lay, K) + lay[k].left
         /\ \A K, M \in SUBSET DOMAIN lay : K \subseteq M => Left(lay, K) <= Left(lay, M)
         /\ Left(lay, {}) = 0
  <1> DEFINE f == [k \in DOMAIN lay |-> lay[k].left]
  <1>1. \A k \in DOMAIN lay : f[k] \in Nat /\ f[k] = lay[k].left
    BY DEF Layered, Layer
  <1>2. \A K : Left(lay, K) = SumFunctionOnSet(f, K)
    BY DEF Left
  <1> HIDE DEF f
  <1>3. \A K \in SUBSET DOMAIN lay : IsFiniteSet(K) /\ SumFunctionOnSet(f, K) \in Nat
    BY <1>1, FS_Subset, SumNat DEF Layered
  <1>4. ASSUME NEW K \in SUBSET DOMAIN lay, NEW k \in DOMAIN lay \ K
        PROVE  SumFunctionOnSet(f, K \cup {k}) = SumFunctionOnSet(f, K) + lay[k].left
    <2>1. \A j \in K \cup {k} : f[j] \in Int
      BY <1>1
    <2>2. SumFunctionOnSet(f, K \cup {k}) = f[k] + SumFunctionOnSet(f, K)
      BY <1>3, <2>1, SumAdd
    <2>3. SumFunctionOnSet(f, K) \in Int /\ f[k] = lay[k].left /\ f[k] \in Int
      BY <1>1, <1>3
    <2> QED
      BY <2>2, <2>3
  <1>5. ASSUME NEW K \in SUBSET DOMAIN lay, NEW M \in SUBSET DOMAIN lay, K \subseteq M
        PROVE  SumFunctionOnSet(f, K) <= SumFunctionOnSet(f, M)
    <2>1. IsFiniteSet(K) /\ IsFiniteSet(M \ K) /\ K \cap (M \ K) = {} /\ K \cup (M \ K) = M
      BY <1>3, <1>5
    <2>2. \A j \in K \cup (M \ K) : f[j] \in Int
      BY <1>1
    <2>3. SumFunctionOnSet(f, M) = SumFunctionOnSet(f, K) + SumFunctionOnSet(f, M \ K)
      BY <2>1, <2>2, SumUnion
    <2>4. SumFunctionOnSet(f, K) \in Nat /\ SumFunctionOnSet(f, M \ K) \in Nat
      BY <1>3
    <2> QED
      BY <2>3, <2>4
  <1> QED
    BY <1>2, <1>3, <1>4, <1>5, SumEmpty

(* An issue takes nothing from a layer that it need not, and no more than   *)
(* is left.                                                                 *)
LEMMA UsedIs ==
  ASSUME NEW lay, Layered(lay), NEW q \in Nat, NEW k \in DOMAIN lay
  PROVE  LET before == Left(lay, Earlier(lay, k))
         IN  /\ before \in Nat
             /\ Used(lay, k, q) \in 0..lay[k].left
             /\ Used(lay, k, q) = IF q <= before THEN 0
                                  ELSE IF q - before < lay[k].left THEN q - before
                                  ELSE lay[k].left
  <1> DEFINE before == Left(lay, Earlier(lay, k))
  <1>1. before \in Nat /\ lay[k].left \in Nat
    BY LeftIs, EarlierAre DEF Layered, Layer
  <1>2. Used(lay, k, q) = IF q - before <= 0 THEN 0
                          ELSE IF q - before < lay[k].left THEN q - before ELSE lay[k].left
    BY DEF Used
  <1> HIDE DEF before
  <1>3. /\ Used(lay, k, q) \in 0..lay[k].left
        /\ Used(lay, k, q) = IF q <= before THEN 0
                             ELSE IF q - before < lay[k].left THEN q - before ELSE lay[k].left
    BY <1>1, <1>2
  <1> QED
    BY <1>1, <1>3 DEF before

(* An issue takes what it needs from the layers, or all there is.           *)
LEMMA UsedUp ==
  ASSUME NEW lay, Layered(lay), NEW q \in Nat
  PROVE  LET taken == SumFunctionOnSet([k \in DOMAIN lay |-> Used(lay, k, q)], DOMAIN lay)
             all == Left(lay, DOMAIN lay)
         IN  taken = IF q <= all THEN q ELSE all
  <1> DEFINE u == [k \in DOMAIN lay |-> Used(lay, k, q)]
             Closed(T) == \A k \in T : Earlier(lay, k) \subseteq T
             Taken(T) == SumFunctionOnSet(u, T)
             Right(T) == Taken(T) = IF q <= Left(lay, T) THEN q ELSE Left(lay, T)
             N == {n \in Nat : \A T \in SUBSET DOMAIN lay :
                                  Cardinality(T) = n /\ Closed(T) => Right(T)}
  <1>1. \A T \in SUBSET DOMAIN lay : /\ IsFiniteSet(T) /\ Cardinality(T) \in Nat
                                     /\ Left(lay, T) \in Nat
    BY LeftIs, FS_CardinalityType
  <1>2. \A k \in DOMAIN lay : u[k] = Used(lay, k, q) /\ u[k] \in Nat /\ lay[k].left \in Nat
    BY UsedIs DEF Layered, Layer
  <1>3. 0 \in N
    <2>1. ASSUME NEW T \in SUBSET DOMAIN lay, Cardinality(T) = 0 PROVE Right(T)
      <3>1. T = {}
        BY <1>1, <2>1, FS_EmptySet
      <3>2. Taken({}) = 0 /\ Left(lay, {}) = 0
        BY SumEmpty, LeftIs
      <3> QED
        BY <3>1, <3>2
    <2> QED
      BY <2>1
  <1>4. ASSUME NEW n \in N PROVE n + 1 \in N
    <2>1. ASSUME NEW T \in SUBSET DOMAIN lay, Cardinality(T) = n + 1, Closed(T)
          PROVE  Right(T)
      <3>1. T # {}
        BY <2>1, FS_EmptySet
      <3>2. PICK k \in T : \A j \in T \ {k} : Precedes(lay, j, k)
        BY <3>1, LastLayer
      <3>3. Earlier(lay, k) = T \ {k}
        BY <2>1, <3>2, EarlierAre
      <3>12. PICK E : E = T \ {k}
        OBVIOUS
      <3>4. E \in SUBSET DOMAIN lay /\ k \in DOMAIN lay \ E /\ T = E \cup {k}
        BY <3>12
      <3>5. Cardinality(E) = n
        <4>1. Cardinality(E) = Cardinality(T) - 1
          BY <1>1, <3>2, <3>12, FS_RemoveElement
        <4> QED
          BY <2>1, <4>1
      <3>6. Closed(E)
        <4>1. ASSUME NEW j \in E, NEW i \in Earlier(lay, j) PROVE i \in E
          <5>1. i \in T /\ Precedes(lay, i, j) /\ Precedes(lay, j, k)
            BY <2>1, <3>2, <3>12, <4>1, EarlierAre
          <5>2. Precedes(lay, i, k)
            BY <3>4, <5>1, LayersOrdered
          <5>3. i # k
            BY <5>2 DEF Precedes, Layered, Layer
          <5> QED
            BY <3>12, <5>1, <5>3
        <4> QED
          BY <4>1
      <3>7. Right(E)
        BY <3>4, <3>5, <3>6
      <3>8. Taken(T) = Taken(E) + u[k]
        <4>1. \A j \in E \cup {k} : u[j] \in Int
          BY <1>2, <3>4
        <4>2. Taken(E \cup {k}) = u[k] + Taken(E)
          BY <1>1, <3>4, <4>1, SumAdd
        <4>3. Taken(E) \in Int /\ u[k] \in Int
          BY <1>1, <3>4, <4>1, SumInt
        <4>4. Taken(T) = Taken(E \cup {k})
          BY <3>4
        <4> HIDE DEF Taken
        <4> QED
          BY <4>2, <4>3, <4>4
      <3>9. Left(lay, T) = Left(lay, E) + lay[k].left /\ Left(lay, E) \in Nat
        <4>1. Left(lay, E \cup {k}) = Left(lay, E) + lay[k].left /\ Left(lay, E) \in Nat
          BY <3>4, LeftIs
        <4> QED
          BY <3>4, <4>1
      <3>10. u[k] = IF q <= Left(lay, E) THEN 0
                    ELSE IF q - Left(lay, E) < lay[k].left THEN q - Left(lay, E)
                    ELSE lay[k].left
        <4>1. Earlier(lay, k) = E /\ u[k] = Used(lay, k, q)
          BY <1>2, <3>3, <3>4, <3>12
        <4>2. LET before == Left(lay, Earlier(lay, k))
              IN  Used(lay, k, q) = IF q <= before THEN 0
                                    ELSE IF q - before < lay[k].left THEN q - before
                                    ELSE lay[k].left
          BY <3>4, UsedIs
        <4> HIDE DEF u
        <4> QED
          BY <4>1, <4>2
      <3>11. lay[k].left \in Nat
        BY <1>2
      <3> HIDE DEF u, Taken
      <3> QED
        BY <3>7, <3>8, <3>9, <3>10, <3>11
    <2> QED
      BY <2>1
  <1>5. N = Nat
    <2> HIDE DEF N
    <2>1. N \in SUBSET Nat
      BY DEF N
    <2> QED
      BY <1>3, <1>4, <2>1, NatSetInduction
  <1>6. Cardinality(DOMAIN lay) \in N /\ Closed(DOMAIN lay)
    BY <1>1, <1>5, EarlierAre
  <1>7. Right(DOMAIN lay)
    BY <1>6
  <1> QED
    BY <1>7

(* A receipt is a layer more.                                               *)
LEMMA ReceivedLayer ==
  ASSUME NEW lay, Layered(lay), NEW id \in Nat \ DOMAIN lay, NEW at \in Nat, NEW q \in Nat,
         NEW cost \in Int, NEW new,
         new = [k \in DOMAIN lay \cup {id} |->
                  IF k = id THEN [at |-> at, left |-> q, cost |-> cost] ELSE lay[k]]
  PROVE  /\ Layered(new) /\ DOMAIN new = DOMAIN lay \cup {id}
         /\ \A k \in DOMAIN lay : new[k] = lay[k]
         /\ new[id].at = at /\ new[id].left = q
         /\ Left(new, DOMAIN new) = Left(lay, DOMAIN lay) + q
  <1>1. /\ DOMAIN new = DOMAIN lay \cup {id} /\ \A k \in DOMAIN lay : new[k] = lay[k]
        /\ new[id] = [at |-> at, left |-> q, cost |-> cost]
    OBVIOUS
  <1>2. new[id] \in Layer /\ new[id].at = at /\ new[id].left = q
    BY <1>1 DEF Layer
  <1>3. Layered(new)
    <2>1. IsFiniteSet(DOMAIN new)
      BY <1>1, FS_AddElement DEF Layered
    <2>2. \A k \in DOMAIN new : new[k] \in Layer
      BY <1>1, <1>2 DEF Layered
    <2> QED
      BY <1>1, <2>1, <2>2 DEF Layered
  <1>4. Left(new, DOMAIN lay \cup {id}) = Left(new, DOMAIN lay) + new[id].left
    BY <1>1, <1>3, LeftIs
  <1>5. Left(new, DOMAIN lay) = Left(lay, DOMAIN lay)
    <2> DEFINE f == [k \in DOMAIN lay |-> lay[k].left]
               g == [k \in DOMAIN new |-> new[k].left]
    <2>1. \A k \in DOMAIN lay : f[k] \in Int /\ g[k] = f[k]
      BY <1>1 DEF Layered, Layer
    <2>2. Left(lay, DOMAIN lay) = SumFunctionOnSet(f, DOMAIN lay)
          /\ Left(new, DOMAIN lay) = SumFunctionOnSet(g, DOMAIN lay)
      BY DEF Left
    <2> HIDE DEF f, g
    <2> QED
      BY <2>1, <2>2, SumEqual DEF Layered
  <1> QED
    BY <1>1, <1>2, <1>3, <1>4, <1>5

\* The layers lay after q is issued from them are new.
Issued(lay, q, new) ==
    /\ Layered(new) /\ DOMAIN new = DOMAIN lay
    /\ \A k \in DOMAIN lay : /\ new[k].at = lay[k].at
                             /\ new[k].left = lay[k].left - Used(lay, k, q)
                             /\ new[k].left \in 0..lay[k].left
    /\ Left(new, DOMAIN new) >= Left(lay, DOMAIN lay) - q
    /\ Left(new, DOMAIN new) \in Nat

(* An issue takes no more out of the layers than it issues.                 *)
LEMMA ConsumedLayers ==
  ASSUME NEW lay, Layered(lay), NEW q \in Nat, NEW new, new = Consumed(lay, q)
  PROVE  Issued(lay, q, new)
  <1>1. DOMAIN new = DOMAIN lay
    BY DEF Consumed
  <1>2. ASSUME NEW k \in DOMAIN lay
        PROVE  /\ new[k] \in Layer /\ new[k].at = lay[k].at
               /\ new[k].left = lay[k].left - Used(lay, k, q)
               /\ new[k].left \in 0..lay[k].left
    <2>1. lay[k] \in Layer /\ Used(lay, k, q) \in 0..lay[k].left
      BY UsedIs DEF Layered
    <2>2. new[k] = [lay[k] EXCEPT !.left = lay[k].left - Used(lay, k, q)]
      BY DEF Consumed
    <2>3. lay[k].left - Used(lay, k, q) \in 0..lay[k].left /\ lay[k].left \in Nat
      BY <2>1 DEF Layer
    <2> QED
      BY <2>1, <2>2, <2>3 DEF Layer
  <1>3. Layered(new)
    <2>1. new = [k \in DOMAIN lay |-> new[k]]
      BY DEF Consumed
    <2> QED
      BY <1>1, <1>2, <2>1 DEF Layered
  <1>4. Left(new, DOMAIN new) = Left(lay, DOMAIN lay)
            - SumFunctionOnSet([k \in DOMAIN lay |-> Used(lay, k, q)], DOMAIN lay)
    <2> DEFINE u == [k \in DOMAIN lay |-> Used(lay, k, q)]
               f == [k \in DOMAIN lay |-> lay[k].left]
               g == [k \in DOMAIN new |-> new[k].left]
    <2>1. \A k \in DOMAIN lay : g[k] \in Int /\ u[k] \in Int /\ f[k] = g[k] + u[k]
      <3>1. ASSUME NEW k \in DOMAIN lay
            PROVE  g[k] \in Int /\ u[k] \in Int /\ f[k] = g[k] + u[k]
        <4>1. /\ lay[k].left \in Nat /\ Used(lay, k, q) \in 0..lay[k].left
              /\ new[k].left = lay[k].left - Used(lay, k, q)
          BY <1>2, UsedIs DEF Layered, Layer
        <4> QED
          BY <1>1, <4>1
      <3> QED
        BY <3>1
    <2>2. /\ Left(lay, DOMAIN lay) = SumFunctionOnSet(f, DOMAIN lay)
          /\ Left(new, DOMAIN new) = SumFunctionOnSet(g, DOMAIN lay)
      BY <1>1 DEF Left
    <2> HIDE DEF f, g, u
    <2>3. SumFunctionOnSet(f, DOMAIN lay)
              = SumFunctionOnSet(g, DOMAIN lay) + SumFunctionOnSet(u, DOMAIN lay)
      BY <2>1, SumPlus DEF Layered
    <2>4. SumFunctionOnSet(g, DOMAIN lay) \in Int /\ SumFunctionOnSet(u, DOMAIN lay) \in Int
      BY <2>1, SumInt DEF Layered
    <2> QED
      BY <2>2, <2>3, <2>4 DEF u
  <1>5. Left(lay, DOMAIN lay) \in Nat /\ Left(new, DOMAIN new) \in Nat
    BY <1>3, LeftIs
  <1>6. LET taken == SumFunctionOnSet([k \in DOMAIN lay |-> Used(lay, k, q)], DOMAIN lay)
            all == Left(lay, DOMAIN lay)
        IN  taken = IF q <= all THEN q ELSE all
    BY UsedUp
  <1>7. Left(new, DOMAIN new) >= Left(lay, DOMAIN lay) - q
    <2> DEFINE taken == SumFunctionOnSet([k \in DOMAIN lay |-> Used(lay, k, q)], DOMAIN lay)
    <2>1. Left(new, DOMAIN new) = Left(lay, DOMAIN lay) - taken
      BY <1>4
    <2>2. taken = IF q <= Left(lay, DOMAIN lay) THEN q ELSE Left(lay, DOMAIN lay)
      BY <1>6
    <2> HIDE DEF taken
    <2> QED
      BY <1>5, <2>1, <2>2
  <1> QED
    BY <1>1, <1>2, <1>3, <1>5, <1>7 DEF Issued

(* An issue that takes from a layer has emptied those before it.            *)
LEMMA OlderIsEmptied ==
  ASSUME NEW lay, Layered(lay), NEW q \in Nat, NEW j \in DOMAIN lay, NEW k \in DOMAIN lay,
         Precedes(lay, j, k), Used(lay, k, q) > 0
  PROVE  Used(lay, j, q) = lay[j].left
  <1>1. Earlier(lay, j) \cup {j} \subseteq Earlier(lay, k)
    BY EarlierAre, LayersOrdered
  <1>2. Left(lay, Earlier(lay, j) \cup {j}) = Left(lay, Earlier(lay, j)) + lay[j].left
    BY EarlierAre, LeftIs
  <1>3. Left(lay, Earlier(lay, j) \cup {j}) <= Left(lay, Earlier(lay, k))
    <2>1. Earlier(lay, j) \cup {j} \in SUBSET DOMAIN lay /\ Earlier(lay, k) \in SUBSET DOMAIN lay
      BY EarlierAre
    <2> QED
      BY <1>1, <2>1, LeftIs
  <1>4. LET before == Left(lay, Earlier(lay, k))
        IN  /\ before \in Nat
            /\ Used(lay, k, q) = IF q <= before THEN 0
                                 ELSE IF q - before < lay[k].left THEN q - before
                                 ELSE lay[k].left
    BY UsedIs
  <1>5. LET before == Left(lay, Earlier(lay, j))
        IN  /\ before \in Nat
            /\ Used(lay, j, q) = IF q <= before THEN 0
                                 ELSE IF q - before < lay[j].left THEN q - before
                                 ELSE lay[j].left
    BY UsedIs
  <1>6. lay[j].left \in Nat /\ lay[k].left \in Nat
    BY DEF Layered, Layer
  <1>7. q > Left(lay, Earlier(lay, k))
    BY <1>4, <1>6
  <1> QED
    BY <1>2, <1>3, <1>4, <1>5, <1>6, <1>7

-----------------------------------------------------------------------------
(* The tables.                                                              *)
LayersTyped(w) ==
    /\ DOMAIN w.layers = Bins
    /\ \A b \in Bins :
          /\ Layered(w.layers[b]) /\ DOMAIN w.layers[b] \subseteq Rows(w.ledger, b)
          /\ \A k \in DOMAIN w.layers[b] : w.layers[b][k].left <= w.ledger[k].qty

EventsTyped(w) ==
    /\ w.events \in Seq(Event)
    /\ \A k \in DOMAIN w.ledger : w.ledger[k].event \in DOMAIN w.events
    /\ \A e \in DOMAIN w.events : w.events[e].reverses \in 1..(e - 1) \cup {None}

Rebuilt(w) ==
    \A b \in Bins :
        /\ w.bins[b].qty = QtyIn(w.ledger, Rows(w.ledger, b))
        /\ w.bins[b].value = ChangeIn(w.ledger, Rows(w.ledger, b))
        /\ \A k \in Rows(w.ledger, b) :
              w.ledger[k].after = QtyIn(w.ledger, {j \in Rows(w.ledger, b) : j <= k})

Covered(w) ==
    \A b \in Bins : Method[b] = "FIFO" =>
        Left(w.layers[b], DOMAIN w.layers[b]) >= w.bins[b].qty

NonNegative(w) == \A b \in Bins \ AllowNegative : w.bins[b].qty >= 0

\* A layer that was touched was touched by an issue.
Touched(w) ==
    \A b \in Bins : \A k \in DOMAIN w.layers[b] :
        w.layers[b][k].left < w.ledger[k].qty =>
            \E i \in Rows(w.ledger, b) : k < i /\ w.ledger[i].qty < 0

OldestFirst(w) ==
    \A b \in Bins : \A j, k \in DOMAIN w.layers[b] :
        /\ Precedes(w.layers[b], j, k)
        /\ w.layers[b][j].left > 0 /\ w.layers[b][k].left < w.ledger[k].qty
        => \E i \in Rows(w.ledger, b) : k < i /\ i < j /\ w.ledger[i].qty < 0

\* A moving average is the value by the quantity, and the last row says so.
Averaged(w) ==
    \A b \in Bins :
        /\ Method[b] = "Moving Average" /\ w.bins[b].qty > 0 =>
              w.bins[b].rate = Ratio(w.bins[b].value, w.bins[b].qty)
        /\ \A k \in Rows(w.ledger, b) :
              (\A j \in Rows(w.ledger, b) : j <= k) => w.ledger[k].rate = w.bins[b].rate

Latest(K) == CHOOSE j \in K : \A i \in K : i <= j
Before(ledger, b, k) == {j \in Rows(ledger, b) : j < k}

\* Row x issued the whole stock of bin b at the rate of the row before it.
Emptied(ledger, b, k, x) ==
    LET before == Before(ledger, b, k)
    IN  /\ Method[b] = "Moving Average" /\ x.qty < 0 /\ x.after = 0
        /\ before # {} /\ x.unit = ledger[Latest(before)].rate

Rounded(x) ==
    /\ 2 * Scale * x.value <= Scale - x.qty
    /\ -2 * Scale * x.value <= Scale - x.qty

Residual(w) ==
    \A b \in Bins : \A k \in Rows(w.ledger, b) :
        Emptied(w.ledger, b, k, w.ledger[k]) => Rounded(w.ledger[k])

Shape(w) ==
    /\ w = [bins |-> w.bins, layers |-> w.layers, ledger |-> w.ledger, events |-> w.events]
    /\ w.bins \in [Bins -> Bin] /\ w.ledger \in Seq(Entry)
    /\ LayersTyped(w) /\ EventsTyped(w)

Tables(w) ==
    /\ Shape(w) /\ Rebuilt(w) /\ Covered(w) /\ NonNegative(w)
    /\ Touched(w) /\ OldestFirst(w) /\ Averaged(w) /\ Residual(w)

-----------------------------------------------------------------------------
(* What posting one line does to the tables.                                *)

\* The layers of its bin: the same, one more, or consumed in their order.
Moved(lay, new, id, at, qty) ==
    \/ new = lay
    \/ /\ qty > 0
       /\ \E cost \in Int :
             new = [k \in DOMAIN lay \cup {id} |->
                      IF k = id THEN [at |-> at, left |-> qty, cost |-> cost] ELSE lay[k]]
    \/ qty < 0 /\ new = Consumed(lay, -qty)

\* The row of its bin, and its ledger entry.
Balances(l, e, old, new, x) ==
    /\ new \in Bin /\ x \in Entry
    /\ x.event = e /\ x.bin = l.bin /\ x.qty = l.qty /\ x.after = new.qty
    /\ x.rate = new.rate /\ x.change = new.value - old.value /\ x.value = new.value
    /\ new.qty = old.qty + l.qty
    /\ new.qty >= 0 \/ l.bin \in AllowNegative
    /\ Method[l.bin] = "Moving Average" =>
          /\ new.qty > 0 => new.rate = Ratio(new.value, new.qty)
          /\ l.qty < 0 => new.value = old.value - Times(-l.qty, x.unit)

Posting(w, l, e, at, v, new, x, lay) ==
    /\ Balances(l, e, w.bins[l.bin], new, x)
    /\ Moved(w.layers[l.bin], lay, Len(w.ledger) + 1, at, l.qty)
    /\ Method[l.bin] = "FIFO" /\ l.qty > 0 => lay # w.layers[l.bin]
    /\ v = [bins |-> [w.bins EXCEPT ![l.bin] = new],
            layers |-> [w.layers EXCEPT ![l.bin] = lay],
            ledger |-> Append(w.ledger, x), events |-> w.events]

(* Decimal arithmetic stays among the decimals.                             *)
LEMMA Decimals ==
  /\ Scale \in Nat \ {0} /\ None \notin Int
  /\ \A a, b \in Int : Times(a, b) \in Int
  /\ \A a \in Int, b \in Nat \ {0} : Ratio(a, b) \in Int
  /\ \A a, b \in Int : a * b \in Int
  <1>1. Scale \in Nat \ {0} /\ None \notin Int
    BY InventoryAssumption
  <1>2. \A a, b \in Int : a * b \in Int
    OBVIOUS
  <1>3. \A a, b \in Int : Times(a, b) \in Int
    BY <1>1, <1>2, HalfEvenBounds DEF Times
  <1>4. \A a \in Int, b \in Nat \ {0} : Ratio(a, b) \in Int
    BY <1>1, <1>2, HalfEvenBounds DEF Ratio
  <1> QED
    BY <1>1, <1>2, <1>3, <1>4

(* What a FIFO issue is charged is an amount.                               *)
LEMMA FifoValueTyped ==
  ASSUME NEW lay, Layered(lay), NEW q \in Nat, NEW rate \in Int
  PROVE  FifoValue(lay, q, rate) \in Int
  <1> DEFINE f == [k \in DOMAIN lay |-> Used(lay, k, q) * lay[k].cost]
  <1>1. \A k \in DOMAIN lay : f[k] \in Int
    <2>1. ASSUME NEW k \in DOMAIN lay PROVE f[k] \in Int
      <3>1. Used(lay, k, q) \in Int /\ lay[k].cost \in Int
        BY UsedIs DEF Layered, Layer
      <3>2. Used(lay, k, q) * lay[k].cost \in Int
        BY <3>1, Decimals
      <3> QED
        BY <3>2
    <2> QED
      BY <2>1
  <1>2. DOMAIN f = DOMAIN lay
    OBVIOUS
  <1>3. FifoValue(lay, q, rate) = HalfEven(SumFunction(f) + Short(lay, q) * rate, Scale)
    BY DEF FifoValue
  <1> HIDE DEF f
  <1>4. SumFunction(f) \in Int
    BY <1>1, <1>2, SumInt DEF SumFunction, Layered
  <1>5. Short(lay, q) \in Int
    BY LeftIs DEF Short
  <1>6. SumFunction(f) + Short(lay, q) * rate \in Int
    BY <1>4, <1>5, Decimals
  <1> QED
    BY <1>3, <1>6, Decimals, HalfEvenBounds

(* A receipt is valued in amounts, a moving average by its quantity.        *)
LEMMA ReceiptValues ==
  ASSUME NEW b \in Bin, NEW lay, NEW l \in WorkLine, l.qty > 0, Accepts(b, lay, l)
  PROVE  /\ InRate(l) \in Int /\ InValue(b, l) \in Int /\ InAverage(b, l) \in Int
         /\ Method[l.bin] = "Moving Average" /\ NewQty(b, l) > 0 =>
               InAverage(b, l) = Ratio(InValue(b, l), NewQty(b, l))
  <1>1. /\ b.qty \in Int /\ b.value \in Int /\ b.rate \in Int
        /\ l.bin \in Bins /\ l.qty \in Int /\ l.extra \in Int /\ l.cost \in Int \cup {None}
    BY DEF Bin, WorkLine
  <1>2. StandardCost[l.bin] \in Int
    BY <1>1, InventoryAssumption
  <1>3. InRate(l) \in Int
    BY <1>1, <1>2 DEF Accepts, InRate
  <1>4. NewQty(b, l) \in Int
    BY <1>1 DEF NewQty
  <1>5. InValue(b, l) \in Int
    <2>1. Times(NewQty(b, l), StandardCost[l.bin]) \in Int
      BY <1>2, <1>4, Decimals
    <2>2. l.qty * InRate(l) + l.extra * Scale \in Int
      <3>3. Scale \in Int
        BY Decimals
      <3>4. l.qty \in Int /\ l.extra \in Int
        BY <1>1
      <3>1. PICK p, q, r, s \in Int : p = l.qty /\ q = InRate(l) /\ r = l.extra /\ s = Scale
        BY <1>3, <3>3, <3>4, Zenon
      <3>2. p * q + r * s \in Int
        OBVIOUS
      <3> QED
        BY <3>1, <3>2
    <2>3. HalfEven(l.qty * InRate(l) + l.extra * Scale, Scale) \in Int
      BY <2>2, Decimals, HalfEvenBounds
    <2>4. b.value + HalfEven(l.qty * InRate(l) + l.extra * Scale, Scale) \in Int
      BY <1>1, <2>3
    <2> QED
      BY <2>1, <2>4, Zenon DEF InValue
  <1>6. NewQty(b, l) > 0 => Ratio(InValue(b, l), NewQty(b, l)) \in Int
    BY <1>4, <1>5, Decimals
  <1>7. InAverage(b, l) \in Int
    BY <1>1, <1>2, <1>3, <1>6 DEF InAverage
  <1>8. Method[l.bin] = "Moving Average" /\ NewQty(b, l) > 0 =>
           InAverage(b, l) = Ratio(InValue(b, l), NewQty(b, l))
    BY DEF InAverage
  <1> QED
    BY <1>3, <1>5, <1>7, <1>8

(* So is an issue.                                                          *)
LEMMA IssueValues ==
  ASSUME NEW b \in Bin, NEW lay, Layered(lay), NEW l \in WorkLine, l.qty < 0
  PROVE  /\ OutRate(b, lay, l) \in Int /\ OutValue(b, lay, l) \in Int
         /\ OutAverage(b, lay, l) \in Int
         /\ Method[l.bin] = "Moving Average" =>
               /\ OutValue(b, lay, l) = b.value - Times(-l.qty, OutRate(b, lay, l))
               /\ NewQty(b, l) > 0 =>
                     OutAverage(b, lay, l) = Ratio(OutValue(b, lay, l), NewQty(b, l))
  <1>1. /\ b.qty \in Int /\ b.value \in Int /\ b.rate \in Int
        /\ l.bin \in Bins /\ l.qty \in Int /\ l.forced \in Int \cup {None}
    BY DEF Bin, WorkLine
  <1>2. StandardCost[l.bin] \in Int
    BY <1>1, InventoryAssumption
  <1>3. -l.qty \in Nat \ {0}
    BY <1>1
  <1>4. FifoValue(lay, -l.qty, b.rate) \in Int
    BY <1>1, <1>3, FifoValueTyped
  <1>5. Ratio(FifoValue(lay, -l.qty, b.rate), -l.qty) \in Int
    BY <1>3, <1>4, Decimals
  <1>6. OutRate(b, lay, l) \in Int
    BY <1>1, <1>2, <1>5 DEF OutRate
  <1>7. Times(-l.qty, OutRate(b, lay, l)) \in Int
    <2>1. -l.qty \in Int
      BY <1>3
    <2> QED
      BY <1>6, <2>1, Decimals, Zenon
  <1>8. OutValue(b, lay, l) \in Int
    BY <1>1, <1>4, <1>7 DEF OutValue
  <1>9. NewQty(b, l) \in Int
    BY <1>1 DEF NewQty
  <1>10. NewQty(b, l) > 0 => Ratio(OutValue(b, lay, l), NewQty(b, l)) \in Int
    BY <1>8, <1>9, Decimals
  <1>11. OutAverage(b, lay, l) \in Int
    BY <1>1, <1>10 DEF OutAverage
  <1>12. Method[l.bin] = "Moving Average" =>
            OutValue(b, lay, l) = b.value - Times(-l.qty, OutRate(b, lay, l))
    BY DEF OutValue
  <1>13. NewQty(b, l) > 0 => OutAverage(b, lay, l) = Ratio(OutValue(b, lay, l), NewQty(b, l))
    BY DEF OutAverage
  <1> QED
    BY <1>6, <1>8, <1>11, <1>12, <1>13

(* A line that is accepted is posted.                                       *)
LEMMA LinePosts ==
  ASSUME NEW w, Shape(w), NEW l \in WorkLine, NEW e \in Nat, NEW at \in Nat,
         Accepts(w.bins[l.bin], w.layers[l.bin], l)
  PROVE  \E new, x, lay : Posting(w, l, e, at, PostedLine(w, e, at, l), new, x, lay)
  <1>0. PICK b, lay, new, x, moved :
           /\ b = w.bins[l.bin] /\ lay = w.layers[l.bin] /\ new = NewBin(b, lay, l)
           /\ x = EntryOf(e, b, lay, l, new)
           /\ moved = NewLayers(b, lay, l, Len(w.ledger) + 1, at)
    OBVIOUS
  <1>1. /\ l.bin \in Bins /\ l.qty \in Int \ {0} /\ b \in Bin /\ Layered(lay)
        /\ Accepts(b, lay, l)
    BY <1>0 DEF Shape, LayersTyped, WorkLine
  <1>2. b.qty \in Int /\ b.value \in Int /\ NewQty(b, l) = b.qty + l.qty
    BY <1>1 DEF Bin, NewQty
  <1>3. PostedLine(w, e, at, l) =
           [bins |-> [w.bins EXCEPT ![l.bin] = new], layers |-> [w.layers EXCEPT ![l.bin] = moved],
            ledger |-> Append(w.ledger, x), events |-> w.events]
    BY <1>0 DEF PostedLine
  <1>4. PICK value, rate, unit \in Int :
           /\ new = [qty |-> NewQty(b, l), value |-> value, rate |-> rate]
           /\ unit = IF l.qty > 0 THEN InRate(l) ELSE OutRate(b, lay, l)
           /\ Method[l.bin] = "Moving Average" =>
                 /\ NewQty(b, l) > 0 => rate = Ratio(value, NewQty(b, l))
                 /\ l.qty < 0 => value = b.value - Times(-l.qty, unit)
    <2>1. CASE l.qty > 0
      <3>1. new = [qty |-> NewQty(b, l), value |-> InValue(b, l), rate |-> InAverage(b, l)]
        BY <1>0, <2>1 DEF NewBin
      <3>2. ~(l.qty < 0)
        BY <1>1, <2>1
      <3> QED
        BY <1>1, <2>1, <3>1, <3>2, ReceiptValues
    <2>2. CASE l.qty < 0
      <3>1. ~(l.qty > 0)
        BY <1>1, <2>2
      <3>2. new = [qty |-> NewQty(b, l), value |-> OutValue(b, lay, l),
                   rate |-> OutAverage(b, lay, l)]
        BY <1>0, <3>1 DEF NewBin
      <3> QED
        BY <1>1, <2>2, <3>1, <3>2, IssueValues
    <2>3. l.qty < 0 \/ l.qty > 0
      BY <1>1
    <2> QED
      BY <2>1, <2>2, <2>3, Zenon
  <1>20. /\ new = [qty |-> NewQty(b, l), value |-> value, rate |-> rate]
         /\ unit = IF l.qty > 0 THEN InRate(l) ELSE OutRate(b, lay, l)
    BY <1>4, Zenon
  <1>21. NewQty(b, l) \in Int
    BY <1>1, <1>2
  <1>5. new \in Bin /\ new.qty = b.qty + l.qty /\ new.value = value /\ new.rate = rate
    BY <1>2, <1>20, <1>21 DEF Bin
  <1>6. x = [event |-> e, bin |-> l.bin, qty |-> l.qty, after |-> new.qty, unit |-> unit,
             rate |-> new.rate, change |-> new.value - b.value, value |-> new.value]
    BY <1>0, <1>20 DEF EntryOf
  <1>7. x \in Entry
    <2>1. /\ new.qty \in Int /\ new.rate \in Int /\ new.value \in Int
          /\ new.value - b.value \in Int
      BY <1>2, <1>5 DEF Bin
    <2> QED
      BY <1>1, <1>6, <2>1 DEF Entry
  <1>8. new.qty >= 0 \/ l.bin \in AllowNegative
    BY <1>1, <1>2, <1>5 DEF Accepts
  <1>9. Balances(l, e, b, new, x)
    BY <1>2, <1>4, <1>5, <1>6, <1>7, <1>8 DEF Balances
  <1>10. Moved(lay, moved, Len(w.ledger) + 1, at, l.qty)
    <2>1. CASE Method[l.bin] = "FIFO" /\ l.qty > 0
      <3>1. InRate(l) \in Int
        BY <1>1, <2>1, ReceiptValues
      <3> QED
        BY <1>0, <2>1, <3>1 DEF Moved, NewLayers
    <2>2. CASE Method[l.bin] = "FIFO" /\ ~(l.qty > 0)
      <3>1. l.qty < 0
        BY <1>1, <2>2
      <3> QED
        BY <1>0, <2>2, <3>1 DEF Moved, NewLayers
    <2>3. CASE Method[l.bin] # "FIFO"
      BY <1>0, <2>3 DEF Moved, NewLayers
    <2> QED
      BY <2>1, <2>2, <2>3
  <1>11. Method[l.bin] = "FIFO" /\ l.qty > 0 => moved # lay
    <2>1. ASSUME Method[l.bin] = "FIFO", l.qty > 0 PROVE moved # lay
      <3>1. Len(w.ledger) + 1 \in DOMAIN moved
        BY <1>0, <2>1 DEF NewLayers
      <3>2. DOMAIN lay \subseteq Rows(w.ledger, l.bin) /\ w.ledger \in Seq(Entry)
        BY <1>0, <1>1 DEF Shape, LayersTyped
      <3>3. Len(w.ledger) + 1 \notin DOMAIN lay
        BY <3>2 DEF Rows
      <3> QED
        BY <3>1, <3>3
    <2> QED
      BY <2>1
  <1> QED
    BY <1>0, <1>3, <1>9, <1>10, <1>11 DEF Posting

\* What a ledger with one row more has in common with the one before.
Grown(ledger, x, new, id) ==
    /\ \A K \in SUBSET DOMAIN ledger :
          /\ QtyIn(ledger, K) \in Int /\ ChangeIn(ledger, K) \in Int
          /\ QtyIn(new, K) = QtyIn(ledger, K) /\ ChangeIn(new, K) = ChangeIn(ledger, K)
          /\ QtyIn(new, K \cup {id}) = QtyIn(ledger, K) + x.qty
          /\ ChangeIn(new, K \cup {id}) = ChangeIn(ledger, K) + x.change
    /\ new \in Seq(Entry) /\ DOMAIN new = DOMAIN ledger \cup {id}
    /\ \A k \in DOMAIN ledger : k < id /\ k \in Nat /\ new[k] = ledger[k]
    /\ id \in Nat /\ id \notin DOMAIN ledger /\ new[id] = x

(* Sums over the ledger, before and after a row is added.                   *)
LEMMA LedgerGrows ==
  ASSUME NEW ledger \in Seq(Entry), NEW x \in Entry
  PROVE  Grown(ledger, x, Append(ledger, x), Len(ledger) + 1)
  <1>0. PICK new, id : new = Append(ledger, x) /\ id = Len(ledger) + 1
    OBVIOUS
  <1>1. /\ new \in Seq(Entry) /\ DOMAIN new = DOMAIN ledger \cup {id}
        /\ \A k \in DOMAIN ledger : k < id /\ k \in Nat /\ new[k] = ledger[k]
        /\ id \in Nat /\ id \notin DOMAIN ledger /\ new[id] = x
        /\ DOMAIN ledger = 1..Len(ledger) /\ Len(ledger) \in Nat
    BY <1>0
  <1>2. \A k \in DOMAIN ledger : ledger[k].qty \in Int /\ ledger[k].change \in Int
    <2>1. \A k \in DOMAIN ledger : ledger[k] \in Entry
      BY <1>1
    <2> QED
      BY <2>1 DEF Entry
  <1>3. x.qty \in Int /\ x.change \in Int
    BY DEF Entry
  <1>4. ASSUME NEW K \in SUBSET DOMAIN ledger PROVE IsFiniteSet(K)
    BY SeqDomain, FS_Subset
  <1> DEFINE Adds(f, g, c, K) == /\ \A k \in DOMAIN ledger : f[k] \in Int /\ g[k] = f[k]
                                 /\ c \in Int /\ g[id] = c /\ K \in SUBSET DOMAIN ledger
  <1>5. ASSUME NEW f, NEW g, NEW c, NEW K, Adds(f, g, c, K)
        PROVE  /\ SumFunctionOnSet(f, K) \in Int
               /\ SumFunctionOnSet(g, K) = SumFunctionOnSet(f, K)
               /\ SumFunctionOnSet(g, K \cup {id}) = SumFunctionOnSet(f, K) + c
    <2>1. SumFunctionOnSet(f, K) \in Int
      BY <1>4, <1>5, SumInt
    <2>2. SumFunctionOnSet(g, K) = SumFunctionOnSet(f, K)
      BY <1>4, <1>5, SumEqual
    <2>3. SumFunctionOnSet(g, K \cup {id}) = g[id] + SumFunctionOnSet(g, K)
      BY <1>1, <1>4, <1>5, SumAdd
    <2> QED
      BY <1>5, <2>1, <2>2, <2>3
  <1> HIDE DEF Adds
  <1>6. ASSUME NEW K \in SUBSET DOMAIN ledger
        PROVE  /\ QtyIn(ledger, K) \in Int
               /\ QtyIn(new, K) = QtyIn(ledger, K)
               /\ QtyIn(new, K \cup {id}) = QtyIn(ledger, K) + x.qty
    <2> DEFINE f == [k \in DOMAIN ledger |-> ledger[k].qty]
               g == [k \in DOMAIN new |-> new[k].qty]
    <2>1. \A k \in DOMAIN ledger : f[k] \in Int /\ g[k] = f[k]
      BY <1>1, <1>2
    <2>2. g[id] = x.qty
      BY <1>1
    <2> HIDE DEF f, g
    <2>4. Adds(f, g, x.qty, K)
      BY <1>3, <2>1, <2>2 DEF Adds
    <2>3. /\ SumFunctionOnSet(f, K) \in Int
          /\ SumFunctionOnSet(g, K) = SumFunctionOnSet(f, K)
          /\ SumFunctionOnSet(g, K \cup {id}) = SumFunctionOnSet(f, K) + x.qty
      BY <1>5, <2>4
    <2> QED
      BY <2>3 DEF QtyIn, f, g
  <1>7. ASSUME NEW K \in SUBSET DOMAIN ledger
        PROVE  /\ ChangeIn(ledger, K) \in Int
               /\ ChangeIn(new, K) = ChangeIn(ledger, K)
               /\ ChangeIn(new, K \cup {id}) = ChangeIn(ledger, K) + x.change
    <2> DEFINE f == [k \in DOMAIN ledger |-> ledger[k].change]
               g == [k \in DOMAIN new |-> new[k].change]
    <2>1. \A k \in DOMAIN ledger : f[k] \in Int /\ g[k] = f[k]
      BY <1>1, <1>2
    <2>2. g[id] = x.change
      BY <1>1
    <2> HIDE DEF f, g
    <2>4. Adds(f, g, x.change, K)
      BY <1>3, <2>1, <2>2 DEF Adds
    <2>3. /\ SumFunctionOnSet(f, K) \in Int
          /\ SumFunctionOnSet(g, K) = SumFunctionOnSet(f, K)
          /\ SumFunctionOnSet(g, K \cup {id}) = SumFunctionOnSet(f, K) + x.change
      BY <1>5, <2>4
    <2> QED
      BY <2>3 DEF ChangeIn, f, g
  <1> QED
    BY <1>0, <1>1, <1>6, <1>7 DEF Grown

\* What is new in v, field by field; id is the number of the new row.
After(w, v, l, new, x, lay, id) ==
    /\ l.bin \in Bins /\ l.qty \in Int \ {0}
    /\ id \in Nat /\ id \notin DOMAIN w.ledger
    /\ \A k \in DOMAIN w.ledger : k < id /\ k \in Nat /\ w.ledger[k] \in Entry
                                  /\ v.ledger[k] = w.ledger[k]
    /\ DOMAIN v.ledger = DOMAIN w.ledger \cup {id} /\ v.ledger[id] = x
    /\ v.ledger \in Seq(Entry) /\ w.ledger \in Seq(Entry) /\ v.events = w.events
    /\ Rows(v.ledger, l.bin) = Rows(w.ledger, l.bin) \cup {id}
    /\ v.bins[l.bin] = new /\ v.layers[l.bin] = lay
    /\ \A b \in Bins \ {l.bin} :
          /\ v.bins[b] = w.bins[b] /\ v.layers[b] = w.layers[b]
          /\ Rows(v.ledger, b) = Rows(w.ledger, b)

(* The line adds one row and changes one bin.                               *)
LEMMA PostedTables ==
  ASSUME NEW w, Shape(w), NEW l \in WorkLine, NEW e, NEW at, NEW v, NEW new, NEW x, NEW lay,
         Posting(w, l, e, at, v, new, x, lay)
  PROVE  After(w, v, l, new, x, lay, Len(w.ledger) + 1)
  <1>1. /\ v = [bins |-> [w.bins EXCEPT ![l.bin] = new],
                layers |-> [w.layers EXCEPT ![l.bin] = lay],
                ledger |-> Append(w.ledger, x), events |-> w.events]
        /\ x \in Entry /\ x.bin = l.bin
    BY DEF Posting, Balances
  <1>2. /\ l.bin \in Bins /\ l.qty \in Int \ {0} /\ w.ledger \in Seq(Entry)
        /\ w.bins \in [Bins -> Bin] /\ DOMAIN w.layers = Bins
    BY DEF WorkLine, Shape, LayersTyped
  <1>3. PICK id : id = Len(w.ledger) + 1
    OBVIOUS
  <1>4. /\ v.ledger = Append(w.ledger, x) /\ v.events = w.events
        /\ v.bins = [w.bins EXCEPT ![l.bin] = new] /\ v.layers = [w.layers EXCEPT ![l.bin] = lay]
    BY <1>1
  <1>5. /\ v.ledger \in Seq(Entry) /\ DOMAIN v.ledger = DOMAIN w.ledger \cup {id}
        /\ \A k \in DOMAIN w.ledger : k < id /\ k \in Nat /\ v.ledger[k] = w.ledger[k]
        /\ id \in Nat /\ id \notin DOMAIN w.ledger /\ v.ledger[id] = x
    <2>1. Grown(w.ledger, x, v.ledger, id)
      BY <1>1, <1>2, <1>3, <1>4, LedgerGrows
    <2> QED
      BY <2>1 DEF Grown
  <1>6. \A k \in DOMAIN w.ledger : w.ledger[k] \in Entry
    BY <1>2
  <1>7. /\ v.bins[l.bin] = new /\ v.layers[l.bin] = lay
        /\ \A b \in Bins \ {l.bin} : v.bins[b] = w.bins[b] /\ v.layers[b] = w.layers[b]
    BY <1>2, <1>4
  <1>8. Rows(v.ledger, l.bin) = Rows(w.ledger, l.bin) \cup {id}
    BY <1>1, <1>5 DEF Rows
  <1>9. \A b \in Bins \ {l.bin} : Rows(v.ledger, b) = Rows(w.ledger, b)
    BY <1>1, <1>5 DEF Rows
  <1> QED
    BY <1>2, <1>3, <1>4, <1>5, <1>6, <1>7, <1>8, <1>9 DEF After

(* How the layers of the bin change, whichever way they do.                 *)
LEMMA MovedLayers ==
  ASSUME NEW old, Layered(old), NEW id \in Nat \ DOMAIN old, NEW at \in Nat,
         NEW qty \in Int \ {0}, NEW lay, Moved(old, lay, id, at, qty)
  PROVE  /\ Layered(lay) /\ DOMAIN lay \subseteq DOMAIN old \cup {id}
         /\ \A k \in DOMAIN lay \ {id} : /\ lay[k].at = old[k].at
                                         /\ lay[k].left <= old[k].left
                                         /\ qty > 0 => lay[k].left = old[k].left
         /\ id \in DOMAIN lay => qty > 0 /\ lay[id].left = qty
         /\ qty > 0 /\ lay # old => id \in DOMAIN lay
         /\ qty < 0 \/ id \in DOMAIN lay =>
               Left(lay, DOMAIN lay) >= Left(old, DOMAIN old) + qty
         /\ \A j, k \in DOMAIN lay \ {id} :
               Precedes(old, j, k) /\ lay[k].left < old[k].left => lay[j].left = 0
  <1>1. /\ \A k \in DOMAIN old : old[k].left \in Nat /\ old[k].at \in Nat
        /\ Left(old, DOMAIN old) \in Nat
    BY LeftIs DEF Layered, Layer
  <1>2. CASE lay = old
    BY <1>1, <1>2
  <1>3. ASSUME qty > 0, NEW cost \in Int,
               lay = [k \in DOMAIN old \cup {id} |->
                        IF k = id THEN [at |-> at, left |-> qty, cost |-> cost] ELSE old[k]]
        PROVE  /\ Layered(lay) /\ DOMAIN lay = DOMAIN old \cup {id}
               /\ \A k \in DOMAIN old : lay[k] = old[k]
               /\ lay[id].left = qty
               /\ Left(lay, DOMAIN lay) = Left(old, DOMAIN old) + qty
    <2>1. qty \in Nat
      BY <1>3
    <2>2. PICK N : N = [k \in DOMAIN old \cup {id} |->
                          IF k = id THEN [at |-> at, left |-> qty, cost |-> cost] ELSE old[k]]
      OBVIOUS
    <2>3. /\ Layered(N) /\ DOMAIN N = DOMAIN old \cup {id}
          /\ \A k \in DOMAIN old : N[k] = old[k]
          /\ N[id].at = at /\ N[id].left = qty
          /\ Left(N, DOMAIN N) = Left(old, DOMAIN old) + qty
      BY <1>3, <2>1, <2>2, ReceivedLayer
    <2>4. lay = N
      BY <1>3, <2>2
    <2> QED
      BY <2>3, <2>4
  <1>4. CASE qty > 0 /\ lay # old
    <2>1. /\ Layered(lay) /\ DOMAIN lay = DOMAIN old \cup {id}
          /\ \A k \in DOMAIN old : lay[k] = old[k]
          /\ lay[id].left = qty
          /\ Left(lay, DOMAIN lay) = Left(old, DOMAIN old) + qty
      BY <1>3, <1>4 DEF Moved
    <2> QED
      BY <1>1, <1>4, <2>1
  <1>5. CASE qty < 0 /\ lay # old
    <2>1. PICK q \in Nat : q = -qty /\ lay = Consumed(old, q)
      BY <1>5 DEF Moved
    <2>4. Issued(old, q, lay)
      BY <2>1, ConsumedLayers
    <2>2. /\ Layered(lay) /\ DOMAIN lay = DOMAIN old
          /\ \A k \in DOMAIN old : /\ lay[k].at = old[k].at
                                   /\ lay[k].left = old[k].left - Used(old, k, q)
                                   /\ lay[k].left \in 0..old[k].left
          /\ Left(lay, DOMAIN lay) >= Left(old, DOMAIN old) - q
          /\ Left(lay, DOMAIN lay) \in Nat
      BY <2>4 DEF Issued
    <2>3. ASSUME NEW j \in DOMAIN old, NEW k \in DOMAIN old, Precedes(old, j, k),
                 lay[k].left < old[k].left
          PROVE  lay[j].left = 0
      <3>1. Used(old, k, q) \in Nat /\ Used(old, j, q) \in Nat
        BY <2>1, UsedIs, <1>1
      <3>2. Used(old, k, q) > 0
        BY <1>1, <2>2, <2>3, <3>1
      <3>3. Used(old, j, q) = old[j].left
        BY <2>1, <2>3, <3>2, OlderIsEmptied
      <3> QED
        BY <1>1, <2>2, <3>3
    <2> QED
      BY <1>1, <1>5, <2>1, <2>2, <2>3
  <1> QED
    BY <1>2, <1>4, <1>5

(* The tables keep their shape.                                             *)
LEMMA ShapeKept ==
  ASSUME NEW w, Shape(w), NEW l \in WorkLine, NEW e \in DOMAIN w.events, NEW at \in Nat,
         NEW v, NEW new, NEW x, NEW lay, Posting(w, l, e, at, v, new, x, lay)
  PROVE  Shape(v)
  <1>0. PICK id : id = Len(w.ledger) + 1
    OBVIOUS
  <1>1. After(w, v, l, new, x, lay, id)
    BY <1>0, PostedTables
  <1>2. /\ v = [bins |-> [w.bins EXCEPT ![l.bin] = new],
                layers |-> [w.layers EXCEPT ![l.bin] = lay],
                ledger |-> Append(w.ledger, x), events |-> w.events]
        /\ Moved(w.layers[l.bin], lay, id, at, l.qty)
        /\ new \in Bin /\ x.event = e /\ x.qty = l.qty
    BY <1>0 DEF Posting, Balances
  <1>3. v = [bins |-> v.bins, layers |-> v.layers, ledger |-> v.ledger, events |-> v.events]
    BY <1>2
  <1>4. v.bins \in [Bins -> Bin] /\ DOMAIN v.layers = Bins
    BY <1>2 DEF Shape, LayersTyped
  <1>5. ASSUME NEW b \in Bins
        PROVE  /\ Layered(v.layers[b]) /\ DOMAIN v.layers[b] \subseteq Rows(v.ledger, b)
               /\ \A k \in DOMAIN v.layers[b] : v.layers[b][k].left <= v.ledger[k].qty
    <2>1. /\ Layered(w.layers[b]) /\ DOMAIN w.layers[b] \subseteq Rows(w.ledger, b)
          /\ Rows(w.ledger, b) \subseteq DOMAIN w.ledger
          /\ \A k \in DOMAIN w.layers[b] : w.layers[b][k].left <= w.ledger[k].qty
      BY DEF Shape, LayersTyped, Rows
    <2>2. CASE b # l.bin
      <3>1. /\ v.layers[b] = w.layers[b] /\ Rows(v.ledger, b) = Rows(w.ledger, b)
            /\ \A k \in DOMAIN w.ledger : v.ledger[k] = w.ledger[k]
        BY <1>1, <2>2 DEF After
      <3> QED
        BY <2>1, <3>1
    <2>3. CASE b = l.bin
      <3>1. /\ v.layers[b] = lay /\ Rows(v.ledger, b) = Rows(w.ledger, b) \cup {id}
            /\ \A k \in DOMAIN w.ledger : v.ledger[k] = w.ledger[k] /\ w.ledger[k] \in Entry
            /\ v.ledger[id] = x /\ id \in Nat /\ id \notin DOMAIN w.ledger
            /\ l.qty \in Int \ {0}
        BY <1>1, <2>3 DEF After
      <3>2. id \in Nat \ DOMAIN w.layers[b]
        BY <2>1, <3>1
      <3>3. Moved(w.layers[b], lay, id, at, l.qty)
        BY <1>2, <2>3
      <3>4. /\ Layered(lay) /\ DOMAIN lay \subseteq DOMAIN w.layers[b] \cup {id}
            /\ \A k \in DOMAIN lay \ {id} : lay[k].left <= w.layers[b][k].left
            /\ id \in DOMAIN lay => lay[id].left = l.qty
        BY <2>1, <3>1, <3>2, <3>3, MovedLayers
      <3>5. ASSUME NEW k \in DOMAIN lay PROVE lay[k].left <= v.ledger[k].qty
        <4>1. CASE k = id
          <5>1. lay[k].left = l.qty /\ v.ledger[k].qty = l.qty /\ l.qty \in Int
            BY <1>2, <3>1, <3>4, <4>1, Zenon
          <5> QED
            BY <5>1
        <4>2. CASE k # id
          <5>1. /\ k \in DOMAIN w.layers[b] /\ k \in DOMAIN w.ledger
                /\ lay[k].left <= w.layers[b][k].left
                /\ w.layers[b][k].left <= w.ledger[k].qty
            BY <2>1, <3>4, <4>2
          <5>2. lay[k].left \in Int /\ w.layers[b][k].left \in Int /\ w.ledger[k].qty \in Int
            BY <2>1, <3>1, <3>4, <5>1 DEF Layered, Layer, Entry
          <5> QED
            BY <3>1, <5>1, <5>2
        <4> QED
          BY <4>1, <4>2
      <3>6. DOMAIN lay \subseteq Rows(v.ledger, b)
        BY <2>1, <3>1, <3>4
      <3> QED
        BY <3>1, <3>4, <3>5, <3>6
    <2> QED
      BY <2>2, <2>3
  <1>6. EventsTyped(v)
    <2>1. /\ DOMAIN v.ledger = DOMAIN w.ledger \cup {id} /\ v.ledger[id] = x
          /\ \A k \in DOMAIN w.ledger : v.ledger[k] = w.ledger[k]
          /\ v.events = w.events
      BY <1>1 DEF After
    <2> QED
      BY <1>2, <2>1 DEF Shape, EventsTyped
  <1>7. LayersTyped(v) /\ v.ledger \in Seq(Entry)
    BY <1>1, <1>4, <1>5 DEF LayersTyped, After
  <1> QED
    BY <1>3, <1>4, <1>6, <1>7 DEF Shape

\* What the layers of the bin of line l keep when they become lay.
LayersPosted(w, l, x, old, lay, id) ==
    /\ Layered(old) /\ DOMAIN old \subseteq Rows(w.ledger, l.bin)
    /\ Rows(w.ledger, l.bin) \subseteq DOMAIN w.ledger
    /\ \A k \in DOMAIN old : old[k].left \in Nat /\ w.ledger[k].qty \in Int
    /\ id \in Nat /\ id \notin DOMAIN old /\ x.qty = l.qty
    /\ Layered(lay) /\ DOMAIN lay \subseteq DOMAIN old \cup {id}
    /\ \A k \in DOMAIN lay : lay[k].left \in Nat
    /\ \A k \in DOMAIN lay \ {id} : /\ lay[k].at = old[k].at
                                    /\ lay[k].left <= old[k].left
                                    /\ l.qty > 0 => lay[k].left = old[k].left
    /\ id \in DOMAIN lay => l.qty > 0 /\ lay[id].left = l.qty
    /\ l.qty > 0 /\ lay # old => id \in DOMAIN lay
    /\ l.qty < 0 \/ id \in DOMAIN lay =>
          Left(lay, DOMAIN lay) >= Left(old, DOMAIN old) + l.qty
    /\ \A j, k \in DOMAIN lay \ {id} :
          Precedes(old, j, k) /\ lay[k].left < old[k].left => lay[j].left = 0

(* The layers of the bin keep what a layer says, and the line is one of them. *)
LEMMA PostedLayers ==
  ASSUME NEW w, Shape(w), NEW l \in WorkLine, NEW e, NEW at \in Nat,
         NEW v, NEW new, NEW x, NEW lay, Posting(w, l, e, at, v, new, x, lay),
         NEW id, id = Len(w.ledger) + 1, NEW old, old = w.layers[l.bin]
  PROVE  LayersPosted(w, l, x, old, lay, id)
  <1>1. After(w, v, l, new, x, lay, id)
    BY PostedTables
  <1>2. /\ id \in Nat /\ id \notin DOMAIN w.ledger /\ l.qty \in Int \ {0} /\ l.bin \in Bins
        /\ \A k \in DOMAIN w.ledger : w.ledger[k] \in Entry
    BY <1>1 DEF After
  <1>3. /\ Layered(old) /\ DOMAIN old \subseteq Rows(w.ledger, l.bin)
        /\ Rows(w.ledger, l.bin) \subseteq DOMAIN w.ledger
    BY <1>2 DEF Shape, LayersTyped, Rows
  <1>4. Moved(old, lay, id, at, l.qty) /\ x.qty = l.qty
    BY DEF Posting, Balances
  <1>5. id \in Nat \ DOMAIN old
    BY <1>2, <1>3
  <1>6. \A k \in DOMAIN old : old[k].left \in Nat /\ w.ledger[k].qty \in Int
    BY <1>2, <1>3 DEF Layered, Layer, Entry
  <1>7. /\ Layered(lay) /\ DOMAIN lay \subseteq DOMAIN old \cup {id}
        /\ \A k \in DOMAIN lay \ {id} : /\ lay[k].at = old[k].at
                                        /\ lay[k].left <= old[k].left
                                        /\ l.qty > 0 => lay[k].left = old[k].left
        /\ id \in DOMAIN lay => l.qty > 0 /\ lay[id].left = l.qty
        /\ l.qty > 0 /\ lay # old => id \in DOMAIN lay
        /\ l.qty < 0 \/ id \in DOMAIN lay =>
              Left(lay, DOMAIN lay) >= Left(old, DOMAIN old) + l.qty
        /\ \A j, k \in DOMAIN lay \ {id} :
              Precedes(old, j, k) /\ lay[k].left < old[k].left => lay[j].left = 0
    BY <1>2, <1>3, <1>4, <1>5, MovedLayers
  <1>8. \A k \in DOMAIN lay : lay[k].left \in Nat
    BY <1>7 DEF Layered, Layer
  <1> QED
    BY <1>2, <1>3, <1>4, <1>5, <1>6, <1>7, <1>8 DEF LayersPosted

(* The ledger still adds up to the balances.                                *)
LEMMA RebuiltKept ==
  ASSUME NEW w, Shape(w), Rebuilt(w), NEW l \in WorkLine, NEW e, NEW at,
         NEW v, NEW new, NEW x, NEW lay, Posting(w, l, e, at, v, new, x, lay)
  PROVE  Rebuilt(v)
  <1>0. PICK id : id = Len(w.ledger) + 1
    OBVIOUS
  <1>1. After(w, v, l, new, x, lay, id)
    BY <1>0, PostedTables
  <1>2. /\ x \in Entry /\ x.qty = l.qty /\ x.after = new.qty
        /\ new.qty = w.bins[l.bin].qty + l.qty /\ x.change = new.value - w.bins[l.bin].value
        /\ v.ledger = Append(w.ledger, x) /\ w.ledger \in Seq(Entry)
    BY DEF Posting, Balances, Shape
  <1>3. \A K \in SUBSET DOMAIN w.ledger :
           /\ QtyIn(w.ledger, K) \in Int /\ ChangeIn(w.ledger, K) \in Int
           /\ QtyIn(v.ledger, K) = QtyIn(w.ledger, K)
           /\ ChangeIn(v.ledger, K) = ChangeIn(w.ledger, K)
           /\ QtyIn(v.ledger, K \cup {id}) = QtyIn(w.ledger, K) + x.qty
           /\ ChangeIn(v.ledger, K \cup {id}) = ChangeIn(w.ledger, K) + x.change
    <2>1. Grown(w.ledger, x, v.ledger, id)
      BY <1>0, <1>2, LedgerGrows
    <2> QED
      BY <2>1 DEF Grown
  <1>4. \A b \in Bins : Rows(w.ledger, b) \in SUBSET DOMAIN w.ledger
    BY DEF Rows
  <1>5. ASSUME NEW b \in Bins
        PROVE  /\ v.bins[b].qty = QtyIn(v.ledger, Rows(v.ledger, b))
               /\ v.bins[b].value = ChangeIn(v.ledger, Rows(v.ledger, b))
               /\ \A k \in Rows(v.ledger, b) :
                     v.ledger[k].after = QtyIn(v.ledger, {j \in Rows(v.ledger, b) : j <= k})
    <2>1. PICK R : R = Rows(w.ledger, b) /\ R \in SUBSET DOMAIN w.ledger
      BY <1>4
    <2>2. /\ w.bins[b].qty = QtyIn(w.ledger, R) /\ w.bins[b].value = ChangeIn(w.ledger, R)
          /\ \A k \in R : w.ledger[k].after = QtyIn(w.ledger, {j \in R : j <= k})
      BY <2>1 DEF Rebuilt
    <2>3. \A k \in R : k < id /\ k \in Nat /\ v.ledger[k] = w.ledger[k]
      BY <1>1, <2>1 DEF After
    <2>4. \A k \in R : v.ledger[k].after = QtyIn(v.ledger, {j \in R : j <= k})
      <3>1. ASSUME NEW k \in R
            PROVE  v.ledger[k].after = QtyIn(v.ledger, {j \in R : j <= k})
        <4>1. {j \in R : j <= k} \in SUBSET DOMAIN w.ledger
          BY <2>1
        <4> QED
          BY <1>3, <2>2, <2>3, <4>1
      <3> QED
        BY <3>1
    <2>5. CASE b # l.bin
      <3>1. v.bins[b] = w.bins[b] /\ Rows(v.ledger, b) = R
        BY <1>1, <2>1, <2>5 DEF After
      <3> QED
        BY <1>3, <2>1, <2>2, <2>4, <3>1
    <2>6. CASE b = l.bin
      <3>1. /\ v.bins[b] = new /\ Rows(v.ledger, b) = R \cup {id} /\ v.ledger[id] = x
            /\ id \in Nat
        BY <1>1, <2>1, <2>6 DEF After
      <3>2. new.qty = QtyIn(v.ledger, R \cup {id})
        BY <1>2, <1>3, <2>1, <2>2, <2>6
      <3>3. new.value = ChangeIn(v.ledger, R \cup {id})
        <4>1. /\ new.value \in Int /\ ChangeIn(w.ledger, R) \in Int
              /\ w.bins[l.bin].value = ChangeIn(w.ledger, R)
              /\ ChangeIn(v.ledger, R \cup {id}) = ChangeIn(w.ledger, R) + x.change
          BY <1>3, <2>1, <2>2, <2>6 DEF Posting, Balances, Bin
        <4> QED
          BY <1>2, <4>1
      <3>4. {j \in R \cup {id} : j <= id} = R \cup {id}
        BY <2>3, <3>1
      <3>5. \A k \in R : {j \in R \cup {id} : j <= k} = {j \in R : j <= k}
        BY <2>3, <3>1
      <3>6. \A k \in R \cup {id} :
               v.ledger[k].after = QtyIn(v.ledger, {j \in R \cup {id} : j <= k})
        <4>1. ASSUME NEW k \in R \cup {id}
              PROVE  v.ledger[k].after = QtyIn(v.ledger, {j \in R \cup {id} : j <= k})
          <5>1. CASE k = id
            BY <1>2, <3>1, <3>2, <3>4, <5>1
          <5>2. CASE k \in R
            BY <2>4, <3>5, <5>2
          <5> QED
            BY <5>1, <5>2
        <4> QED
          BY <4>1
      <3> QED
        BY <3>1, <3>2, <3>3, <3>6
    <2> QED
      BY <2>5, <2>6
  <1> QED
    BY <1>5 DEF Rebuilt

(* No bin becomes negative that may not, no layers fall short of their bin. *)
LEMMA StockKept ==
  ASSUME NEW w, Shape(w), Covered(w), NonNegative(w), NEW l \in WorkLine, NEW e,
         NEW at \in Nat, NEW v, NEW new, NEW x, NEW lay, Posting(w, l, e, at, v, new, x, lay)
  PROVE  Covered(v) /\ NonNegative(v)
  <1>0. PICK id, old : id = Len(w.ledger) + 1 /\ old = w.layers[l.bin]
    OBVIOUS
  <1>1. After(w, v, l, new, x, lay, id)
    BY <1>0, PostedTables
  <1>2. /\ new \in Bin /\ new.qty = w.bins[l.bin].qty + l.qty
        /\ new.qty >= 0 \/ l.bin \in AllowNegative
        /\ l.bin \in Bins /\ l.qty \in Int \ {0} /\ w.bins[l.bin] \in Bin
    BY <1>1 DEF Posting, Balances, After, Shape
  <1>3. NonNegative(v)
    BY <1>1, <1>2 DEF NonNegative, After
  <1>4. ASSUME NEW b \in Bins, Method[b] = "FIFO"
        PROVE  Left(v.layers[b], DOMAIN v.layers[b]) >= v.bins[b].qty
    <2>1. Left(w.layers[b], DOMAIN w.layers[b]) >= w.bins[b].qty
      BY <1>4 DEF Covered
    <2>2. CASE b # l.bin
      BY <1>1, <2>1, <2>2 DEF After
    <2>3. CASE b = l.bin
      <3>1. l.qty > 0 => lay # old
        BY <1>0, <1>4, <2>3 DEF Posting
      <3>2. /\ l.qty > 0 /\ lay # old => id \in DOMAIN lay
            /\ l.qty < 0 \/ id \in DOMAIN lay =>
                  Left(lay, DOMAIN lay) >= Left(old, DOMAIN old) + l.qty
            /\ Layered(lay) /\ Layered(old)
        <4>1. LayersPosted(w, l, x, old, lay, id)
          BY <1>0, PostedLayers
        <4> QED
          BY <4>1 DEF LayersPosted
      <3>3. Left(lay, DOMAIN lay) >= Left(old, DOMAIN old) + l.qty
        BY <1>2, <3>1, <3>2
      <3>4. Left(lay, DOMAIN lay) \in Int /\ Left(old, DOMAIN old) \in Int
        BY <3>2, LeftIs
      <3>5. Left(old, DOMAIN old) >= w.bins[b].qty /\ w.bins[b].qty \in Int
        BY <1>0, <1>2, <2>1, <2>3 DEF Bin
      <3>6. Left(lay, DOMAIN lay) >= new.qty
        BY <1>2, <2>3, <3>3, <3>4, <3>5
      <3>7. v.layers[b] = lay /\ v.bins[b] = new
        BY <1>1, <2>3 DEF After
      <3> QED
        BY <3>6, <3>7
    <2> QED
      BY <2>2, <2>3
  <1> QED
    BY <1>3, <1>4 DEF Covered

(* A layer is touched by issues only, the oldest one first.                 *)
LEMMA OrderKept ==
  ASSUME NEW w, Shape(w), Touched(w), OldestFirst(w), NEW l \in WorkLine, NEW e,
         NEW at \in Nat, NEW v, NEW new, NEW x, NEW lay, Posting(w, l, e, at, v, new, x, lay)
  PROVE  Touched(v) /\ OldestFirst(v)
  <1>0. PICK id, old : id = Len(w.ledger) + 1 /\ old = w.layers[l.bin]
    OBVIOUS
  <1>1. After(w, v, l, new, x, lay, id) /\ LayersPosted(w, l, x, old, lay, id)
    BY <1>0, PostedTables, PostedLayers
  <1>2. l.qty \in Int \ {0} /\ l.bin \in Bins /\ x.qty = l.qty /\ id \in Nat
    BY <1>1 DEF After, LayersPosted
  <1>3. /\ \A k \in DOMAIN w.ledger : k < id /\ k \in Nat /\ v.ledger[k] = w.ledger[k]
        /\ v.ledger[id] = x /\ id \notin DOMAIN w.ledger
    BY <1>1 DEF After
  <1>4. PICK R : R = Rows(w.ledger, l.bin) /\ R \subseteq DOMAIN w.ledger /\ DOMAIN old \subseteq R
    BY <1>1 DEF LayersPosted
  <1>5. /\ DOMAIN lay \subseteq DOMAIN old \cup {id} /\ id \notin DOMAIN old
        /\ \A k \in DOMAIN lay : lay[k].left \in Nat
        /\ \A k \in DOMAIN old : old[k].left \in Nat /\ w.ledger[k].qty \in Int
        /\ \A k \in DOMAIN lay \ {id} : /\ lay[k].at = old[k].at
                                        /\ lay[k].left <= old[k].left
                                        /\ l.qty > 0 => lay[k].left = old[k].left
        /\ id \in DOMAIN lay => l.qty > 0 /\ lay[id].left = l.qty
        /\ \A j, k \in DOMAIN lay \ {id} :
              Precedes(old, j, k) /\ lay[k].left < old[k].left => lay[j].left = 0
    BY <1>1 DEF LayersPosted
  <1>6. /\ \A k \in DOMAIN old : old[k].left < w.ledger[k].qty =>
              \E i \in R : k < i /\ w.ledger[i].qty < 0
        /\ \A j, k \in DOMAIN old :
              /\ Precedes(old, j, k) /\ old[j].left > 0 /\ old[k].left < w.ledger[k].qty
              => \E i \in R : k < i /\ i < j /\ w.ledger[i].qty < 0
    BY <1>0, <1>2, <1>4 DEF Touched, OldestFirst
  <1>7. \A i \in R : v.ledger[i] = w.ledger[i]
    BY <1>3, <1>4
  <1>8. ASSUME NEW k \in DOMAIN lay, lay[k].left < v.ledger[k].qty
        PROVE  k \in DOMAIN old /\ v.ledger[k] = w.ledger[k]
    <2>1. k # id
      <3>1. ASSUME k = id PROVE FALSE
        <4>1. lay[k].left = l.qty /\ v.ledger[k].qty = l.qty
          BY <1>2, <1>3, <1>5, <3>1, Zenon
        <4> QED
          BY <1>2, <1>8, <4>1
      <3> QED
        BY <3>1
    <2> QED
      BY <1>4, <1>5, <1>7, <2>1
  <1>9. ASSUME NEW k \in DOMAIN lay, lay[k].left < v.ledger[k].qty
        PROVE  \E i \in R \cup {id} : k < i /\ v.ledger[i].qty < 0
    <2>1. k \in DOMAIN old /\ v.ledger[k] = w.ledger[k] /\ k < id /\ k # id
      BY <1>3, <1>4, <1>5, <1>8, <1>9
    <2>2. CASE l.qty < 0
      BY <1>2, <1>3, <2>1, <2>2
    <2>3. CASE l.qty > 0
      <3>1. old[k].left < w.ledger[k].qty
        BY <1>5, <1>9, <2>1, <2>3
      <3>2. PICK i \in R : k < i /\ w.ledger[i].qty < 0
        BY <1>6, <2>1, <3>1
      <3> QED
        BY <1>7, <3>2
    <2> QED
      BY <1>2, <2>2, <2>3
  <1>10. ASSUME NEW j \in DOMAIN lay, NEW k \in DOMAIN lay, Precedes(lay, j, k),
                lay[j].left > 0, lay[k].left < v.ledger[k].qty
         PROVE  \E i \in R \cup {id} : k < i /\ i < j /\ v.ledger[i].qty < 0
    <2>1. k \in DOMAIN old /\ v.ledger[k] = w.ledger[k] /\ k < id /\ k # id
      BY <1>3, <1>4, <1>5, <1>8, <1>10
    <2>2. CASE j = id
      <3>1. old[k].left < w.ledger[k].qty
        BY <1>5, <1>10, <2>1, <2>2
      <3>2. PICK i \in R : k < i /\ w.ledger[i].qty < 0
        BY <1>6, <2>1, <3>1
      <3>3. i < id
        BY <1>3, <1>4
      <3> QED
        BY <1>7, <2>2, <3>2, <3>3
    <2>3. CASE j # id
      <3>1. j \in DOMAIN old /\ lay[j].at = old[j].at /\ lay[k].at = old[k].at
        BY <1>5, <2>1, <2>3
      <3>2. Precedes(old, j, k)
        BY <1>10, <3>1 DEF Precedes
      <3>3. ~(lay[k].left < old[k].left)
        <4>1. j \in DOMAIN lay \ {id} /\ k \in DOMAIN lay \ {id}
          BY <2>1, <2>3
        <4>2. lay[k].left < old[k].left => lay[j].left = 0
          BY <1>5, <3>2, <4>1
        <4> QED
          BY <1>10, <4>2
      <3>4. lay[k].left = old[k].left /\ lay[j].left <= old[j].left
        <4>1. lay[k].left <= old[k].left /\ lay[j].left <= old[j].left
          BY <1>5, <2>1, <2>3
        <4>2. lay[k].left \in Nat /\ old[k].left \in Nat
          BY <1>5, <2>1
        <4> QED
          BY <3>3, <4>1, <4>2
      <3>5. old[j].left > 0 /\ old[k].left < w.ledger[k].qty
        <4>1. old[j].left \in Nat /\ lay[j].left \in Nat
          BY <1>5, <3>1
        <4> QED
          BY <1>10, <2>1, <3>4, <4>1
      <3>6. PICK i \in R : k < i /\ i < j /\ w.ledger[i].qty < 0
        BY <1>6, <2>1, <3>1, <3>2, <3>5
      <3> QED
        BY <1>7, <3>6
    <2> QED
      BY <2>2, <2>3
  <1>11. v.layers[l.bin] = lay /\ Rows(v.ledger, l.bin) = R \cup {id}
    BY <1>1, <1>4 DEF After
  <1>12. ASSUME NEW b \in Bins \ {l.bin}
         PROVE  /\ v.layers[b] = w.layers[b] /\ Rows(v.ledger, b) = Rows(w.ledger, b)
                /\ DOMAIN w.layers[b] \subseteq Rows(w.ledger, b)
                /\ \A k \in Rows(w.ledger, b) : v.ledger[k] = w.ledger[k]
    BY <1>1 DEF After, Rows, Shape, LayersTyped
  <1>13. Touched(v)
    <2>1. ASSUME NEW b \in Bins, NEW k \in DOMAIN v.layers[b],
                 v.layers[b][k].left < v.ledger[k].qty
          PROVE  \E i \in Rows(v.ledger, b) : k < i /\ v.ledger[i].qty < 0
      <3>1. CASE b = l.bin
        BY <1>9, <1>11, <2>1, <3>1
      <3>2. CASE b # l.bin
        BY <1>12, <2>1, <3>2 DEF Touched
      <3> QED
        BY <3>1, <3>2
    <2> QED
      BY <2>1 DEF Touched
  <1>14. OldestFirst(v)
    <2>1. ASSUME NEW b \in Bins, NEW j \in DOMAIN v.layers[b], NEW k \in DOMAIN v.layers[b],
                 Precedes(v.layers[b], j, k), v.layers[b][j].left > 0,
                 v.layers[b][k].left < v.ledger[k].qty
          PROVE  \E i \in Rows(v.ledger, b) : k < i /\ i < j /\ v.ledger[i].qty < 0
      <3>1. CASE b = l.bin
        BY <1>10, <1>11, <2>1, <3>1
      <3>2. CASE b # l.bin
        BY <1>12, <2>1, <3>2 DEF OldestFirst
      <3> QED
        BY <3>1, <3>2
    <2> QED
      BY <2>1 DEF OldestFirst
  <1> QED
    BY <1>13, <1>14

(* The last row of a bin has its average rate.                              *)
LEMMA AveragedKept ==
  ASSUME NEW w, Shape(w), Averaged(w), NEW l \in WorkLine, NEW e, NEW at,
         NEW v, NEW new, NEW x, NEW lay, Posting(w, l, e, at, v, new, x, lay)
  PROVE  Averaged(v)
  <1>0. PICK id : id = Len(w.ledger) + 1
    OBVIOUS
  <1>1. After(w, v, l, new, x, lay, id)
    BY <1>0, PostedTables
  <1>2. /\ x.rate = new.rate
        /\ Method[l.bin] = "Moving Average" /\ new.qty > 0 =>
              new.rate = Ratio(new.value, new.qty)
    BY DEF Posting, Balances
  <1>3. ASSUME NEW b \in Bins
        PROVE  /\ Method[b] = "Moving Average" /\ v.bins[b].qty > 0 =>
                     v.bins[b].rate = Ratio(v.bins[b].value, v.bins[b].qty)
               /\ \A k \in Rows(v.ledger, b) :
                     (\A j \in Rows(v.ledger, b) : j <= k) => v.ledger[k].rate = v.bins[b].rate
    <2>1. CASE b # l.bin
      <3>1. /\ v.bins[b] = w.bins[b] /\ Rows(v.ledger, b) = Rows(w.ledger, b)
            /\ \A k \in Rows(w.ledger, b) : v.ledger[k] = w.ledger[k]
        BY <1>1, <2>1 DEF After, Rows
      <3> QED
        BY <3>1 DEF Averaged
    <2>2. CASE b = l.bin
      <3>1. /\ v.bins[b] = new /\ Rows(v.ledger, b) = Rows(w.ledger, b) \cup {id}
            /\ v.ledger[id] = x /\ id \in Nat
            /\ \A k \in Rows(w.ledger, b) : k < id /\ k \in Nat
        BY <1>1, <2>2 DEF After, Rows
      <3>2. ASSUME NEW k \in Rows(v.ledger, b), \A j \in Rows(v.ledger, b) : j <= k
            PROVE  k = id
        BY <3>1, <3>2
      <3>3. Method[b] = "Moving Average" /\ v.bins[b].qty > 0 =>
               v.bins[b].rate = Ratio(v.bins[b].value, v.bins[b].qty)
        BY <1>2, <2>2, <3>1
      <3> QED
        BY <1>2, <3>1, <3>2, <3>3
    <2> QED
      BY <2>1, <2>2
  <1> QED
    BY <1>3 DEF Averaged

(* Of any rows one is the latest.                                           *)
LEMMA LatestIs ==
  ASSUME NEW K, IsFiniteSet(K), K \subseteq Nat, K # {}
  PROVE  Latest(K) \in K /\ \A i \in K : i <= Latest(K)
  <1> DEFINE HasLatest(T) == T = {} \/ \E j \in T : \A i \in T : i <= j
             C == {T \in SUBSET K : HasLatest(T)}
  <1>1. {} \in C
    OBVIOUS
  <1>2. ASSUME NEW T \in C, NEW k \in K \ T PROVE T \cup {k} \in C
    <2>1. CASE T = {}
      BY <2>1
    <2>2. ASSUME NEW j \in T, \A i \in T : i <= j PROVE HasLatest(T \cup {k})
      <3>1. j \in Nat /\ k \in Nat /\ T \subseteq Nat
        BY <1>2, <2>2
      <3>2. CASE k <= j
        BY <2>2, <3>1, <3>2
      <3>3. CASE j <= k
        <4>1. \A i \in T \cup {k} : i <= k
          BY <2>2, <3>1, <3>3
        <4> QED
          BY <4>1
      <3> QED
        BY <3>1, <3>2, <3>3
    <2> QED
      BY <2>1, <2>2
  <1> HIDE DEF HasLatest
  <1>3. K \in C
    <2> HIDE DEF C
    <2>1. C \in SUBSET SUBSET K
      BY DEF C
    <2> QED
      BY <1>1, <1>2, <2>1, FiniteSetInduction
  <1>4. \E j \in K : \A i \in K : i <= j
    BY <1>3 DEF HasLatest
  <1> QED
    BY <1>4 DEF Latest

(* Issuing q at the rounded rate of q's value leaves a rounding.            *)
LEMMA ResidualRounds ==
  ASSUME NEW q \in Nat \ {0}, NEW value \in Int, NEW left \in Int,
         left = value - Times(q, Ratio(value, q))
  PROVE  2 * Scale * left <= Scale + q /\ -2 * Scale * left <= Scale + q
  <1>1. PICK s, r, t : /\ s \in Nat \ {0} /\ s = Scale /\ r = Ratio(value, q) /\ r \in Int
                       /\ t = Times(q, r) /\ t \in Int
    <2>1. Ratio(value, q) \in Int
      BY Decimals
    <2>2. Times(q, Ratio(value, q)) \in Int
      BY <2>1, Decimals
    <2> QED
      BY <2>1, <2>2, Decimals
  <1>2. /\ 2 * (value * s - q * r) <= q /\ -q <= 2 * (value * s - q * r)
    <2>1. value * s \in Int
      BY <1>1
    <2>2. r = HalfEven(value * s, q)
      BY <1>1 DEF Ratio
    <2> QED
      BY <2>1, <2>2, HalfEvenBounds
  <1>3. /\ 2 * (q * r - s * t) <= s /\ -s <= 2 * (q * r - s * t)
    <2>1. q * r \in Int
      BY <1>1
    <2>2. t = HalfEven(q * r, s)
      BY <1>1 DEF Times
    <2> QED
      BY <1>1, <2>1, <2>2, HalfEvenBounds
  <1>4. left = value - t
    BY <1>1
  <1>5. PICK a, c, d \in Int : a = value * s /\ c = q * r /\ d = s * t /\ a - d = s * left
    <2>1. s * (value - t) = s * value - s * t /\ s * value = value * s
      BY <1>1
    <2> QED
      BY <1>1, <1>4, <2>1
  <1>6. 2 * (a - d) <= s + q /\ -2 * (a - d) <= s + q
    BY <1>1, <1>2, <1>3, <1>5
  <1>7. 2 * s * left = 2 * (s * left) /\ -2 * s * left = -2 * (s * left)
    BY <1>1
  <1> QED
    BY <1>1, <1>5, <1>6, <1>7

(* Whoever empties a bin leaves no more than a rounding.                    *)
LEMMA ResidualKept ==
  ASSUME NEW w, Shape(w), Averaged(w), Residual(w), NEW l \in WorkLine, NEW e, NEW at,
         NEW v, NEW new, NEW x, NEW lay, Posting(w, l, e, at, v, new, x, lay)
  PROVE  Residual(v)
  <1>0. PICK id, old : id = Len(w.ledger) + 1 /\ old = w.bins[l.bin]
    OBVIOUS
  <1>1. After(w, v, l, new, x, lay, id)
    BY <1>0, PostedTables
  <1>2. /\ \A k \in DOMAIN w.ledger : k < id /\ k \in Nat /\ v.ledger[k] = w.ledger[k]
        /\ id \in Nat /\ id \notin DOMAIN w.ledger /\ v.ledger[id] = x
        /\ IsFiniteSet(DOMAIN w.ledger)
        /\ \A b \in Bins : Rows(w.ledger, b) \subseteq DOMAIN w.ledger
    BY <1>1, SeqDomain DEF After, Rows
  <1>3. ASSUME NEW b \in Bins, NEW k \in DOMAIN w.ledger
        PROVE  /\ Before(v.ledger, b, k) = Before(w.ledger, b, k)
               /\ Before(w.ledger, b, k) \subseteq DOMAIN w.ledger
    <2>1. Rows(v.ledger, b) = Rows(w.ledger, b) \/ Rows(v.ledger, b) = Rows(w.ledger, b) \cup {id}
      BY <1>1 DEF After
    <2> QED
      BY <1>2, <2>1 DEF Before
  <1>4. ASSUME NEW K, K \subseteq DOMAIN w.ledger, K # {}
        PROVE  Latest(K) \in DOMAIN w.ledger /\ Latest(K) \in K /\ \A i \in K : i <= Latest(K)
    <2>1. IsFiniteSet(K) /\ K \subseteq Nat
      BY <1>2, <1>4, FS_Subset
    <2> QED
      BY <1>4, <2>1, LatestIs
  <1>5. ASSUME NEW b \in Bins, NEW k \in Rows(w.ledger, b),
               Emptied(v.ledger, b, k, v.ledger[k])
        PROVE  Rounded(v.ledger[k])
    <2>1. k \in DOMAIN w.ledger /\ v.ledger[k] = w.ledger[k]
      BY <1>2
    <2>2. PICK K : K = Before(w.ledger, b, k) /\ K = Before(v.ledger, b, k)
      BY <1>3, <2>1
    <2>3. K # {} => v.ledger[Latest(K)] = w.ledger[Latest(K)]
      BY <1>2, <1>3, <1>4, <2>1, <2>2
    <2>4. Emptied(w.ledger, b, k, w.ledger[k])
      BY <1>5, <2>1, <2>2, <2>3 DEF Emptied
    <2> QED
      BY <2>1, <2>4 DEF Residual
  <1>6. ASSUME Emptied(v.ledger, l.bin, id, x) PROVE Rounded(x)
    <2>1. PICK R : R = Rows(w.ledger, l.bin) /\ R \subseteq DOMAIN w.ledger
      BY <1>1, <1>2 DEF After
    <2>2. Before(v.ledger, l.bin, id) = R
      <3>1. Rows(v.ledger, l.bin) = R \cup {id}
        BY <1>1, <2>1 DEF After
      <3> QED
        BY <1>2, <2>1, <3>1 DEF Before
    <2>3. R # {} /\ x.unit = v.ledger[Latest(R)].rate /\ x.qty < 0 /\ x.after = 0
      BY <1>6, <2>2 DEF Emptied
    <2>4. Latest(R) \in R /\ Latest(R) \in DOMAIN w.ledger /\ \A i \in R : i <= Latest(R)
      BY <1>4, <2>1, <2>3
    <2>5. x.unit = w.ledger[Latest(R)].rate
      BY <1>2, <2>3, <2>4
    <2>6. w.ledger[Latest(R)].rate = old.rate
      BY <1>0, <1>1, <2>1, <2>4 DEF Averaged, After
    <2>7. /\ old \in Bin /\ new \in Bin /\ new.qty = 0 /\ new.qty = old.qty + l.qty
          /\ l.qty = x.qty /\ x.qty \in Int /\ x.value = new.value
      BY <1>0, <1>1, <2>3 DEF Posting, Balances, Shape, After
    <2>8. /\ old.qty = -x.qty /\ old.qty \in Nat \ {0} /\ l.qty < 0
          /\ old.value \in Int /\ new.value \in Int
      BY <2>3, <2>7 DEF Bin
    <2>9. /\ old.rate = Ratio(old.value, old.qty)
          /\ new.value = old.value - Times(-l.qty, x.unit)
      <3>1. Method[l.bin] = "Moving Average"
        BY <1>6 DEF Emptied
      <3>2. l.bin \in Bins /\ old.qty > 0
        BY <1>1, <2>8 DEF After
      <3>3. old.rate = Ratio(old.value, old.qty)
        BY <1>0, <3>1, <3>2 DEF Averaged
      <3>4. new.value = old.value - Times(-l.qty, x.unit)
        BY <1>0, <2>8, <3>1 DEF Posting, Balances
      <3> QED
        BY <3>3, <3>4
    <2>10. new.value = old.value - Times(old.qty, Ratio(old.value, old.qty))
      BY <2>5, <2>6, <2>7, <2>8, <2>9
    <2>11. /\ 2 * Scale * new.value <= Scale + old.qty
           /\ -2 * Scale * new.value <= Scale + old.qty
      BY <2>8, <2>10, ResidualRounds
    <2>12. Scale + old.qty = Scale - x.qty
      BY <2>7, <2>8, Decimals
    <2> QED
      BY <2>7, <2>11, <2>12 DEF Rounded
  <1>7. ASSUME NEW b \in Bins, NEW k \in Rows(v.ledger, b),
               Emptied(v.ledger, b, k, v.ledger[k])
        PROVE  Rounded(v.ledger[k])
    <2>1. CASE k \in Rows(w.ledger, b)
      BY <1>5, <1>7, <2>1
    <2>2. CASE k \notin Rows(w.ledger, b)
      <3>1. b = l.bin /\ k = id /\ v.ledger[k] = x
        BY <1>1, <2>2 DEF After
      <3> QED
        BY <1>6, <1>7, <3>1
    <2> QED
      BY <2>1, <2>2
  <1> QED
    BY <1>7 DEF Residual

(* A line that is accepted keeps the tables sound.                          *)
LEMMA TablesKept ==
  ASSUME NEW w, Tables(w), NEW l \in WorkLine, NEW e \in DOMAIN w.events, NEW at \in Nat,
         Accepts(w.bins[l.bin], w.layers[l.bin], l)
  PROVE  Tables(PostedLine(w, e, at, l))
  <1>1. Shape(w) /\ e \in Nat
    BY DEF Tables, Shape, EventsTyped
  <1>2. PICK v, new, x, lay : /\ v = PostedLine(w, e, at, l)
                              /\ Posting(w, l, e, at, v, new, x, lay)
    BY <1>1, LinePosts
  <1>3. Shape(v)
    BY <1>1, <1>2, ShapeKept
  <1>4. Rebuilt(v)
    BY <1>1, <1>2, RebuiltKept DEF Tables
  <1>5. Covered(v) /\ NonNegative(v)
    BY <1>1, <1>2, StockKept DEF Tables
  <1>6. Touched(v) /\ OldestFirst(v)
    BY <1>1, <1>2, OrderKept DEF Tables
  <1>7. Averaged(v)
    BY <1>1, <1>2, AveragedKept DEF Tables
  <1>8. Residual(v)
    BY <1>1, <1>2, ResidualKept DEF Tables
  <1> QED
    BY <1>2, <1>3, <1>4, <1>5, <1>6, <1>7, <1>8 DEF Tables

-----------------------------------------------------------------------------
(* Transactions and reversals.                                              *)

\* The rows event e wrote in bin b; the quantity a line moves in it.
Own(ledger, e, b) == {k \in DOMAIN ledger : ledger[k].event = e /\ ledger[k].bin = b}
QtyAt(b) == [l \in WorkLine |-> IF l.bin = b THEN l.qty ELSE 0]

\* Reversal r undoes event e in the ledger, once the lines to come are posted.
Undone(ledger, r, e, lines) ==
    \A b \in Bins : QtyIn(ledger, Own(ledger, r, b)) + Over(QtyAt(b), lines)
                      + QtyIn(ledger, Own(ledger, e, b)) = 0

Reversed(w) ==
    \A r \in DOMAIN w.events : w.events[r].reverses # None =>
        LET e == w.events[r].reverses IN
        /\ w.events[e].state = "Cancelled"
        /\ Undone(w.ledger, r, e, <<>>)
        /\ \A s \in DOMAIN w.events : w.events[s].reverses = e => s = r

\* The transaction t has added an event and rows of it, no more.
Working(w, t) ==
    /\ t = [event |-> t.event, at |-> t.at, lines |-> t.lines, work |-> t.work]
    /\ t.event = Len(w.events) + 1 /\ t.at \in Nat /\ t.lines \in Seq(WorkLine)
    /\ Tables(t.work)
    /\ \A k \in DOMAIN w.ledger : k \in DOMAIN t.work.ledger /\ t.work.ledger[k] = w.ledger[k]
    /\ \A k \in DOMAIN t.work.ledger \ DOMAIN w.ledger : t.work.ledger[k].event = t.event

\* What the event it added reverses.
Reversing(w, t) ==
    \E new \in Event :
        /\ t.work.events = Append(w.events, new)
        /\ new.reverses # None =>
              /\ new.reverses \in DOMAIN w.events
              /\ w.events[new.reverses].state = "Posted"
              /\ Undone(t.work.ledger, t.event, new.reverses, t.lines)

Sound ==
    /\ Tables(db) /\ Reversed(db)
    /\ txn # None => Working(db, txn) /\ Reversing(db, txn)

(* A sum over a set is one over the numbers of its elements.                *)
LEMMA SumNumbered ==
  ASSUME NEW S, IsFiniteSet(S), NEW n, n = Cardinality(S), NEW own \in [1..n -> S],
         \A i, j \in 1..n : i < j => own[i] < own[j], S \subseteq Nat,
         NEW f, \A x \in S : f[x] \in Int, NEW g, \A i \in 1..n : g[i] = f[own[i]]
  PROVE  SumFunctionOnSet(g, 1..n) = SumFunctionOnSet(f, S)
  <1>1. n \in Nat /\ IsFiniteSet(1..n) /\ Cardinality(1..n) = n
    BY FS_CardinalityType, FS_Interval
  <1>2. \A i, j \in 1..n : own[i] = own[j] => i = j
    <2>1. ASSUME NEW i \in 1..n, NEW j \in 1..n, own[i] = own[j] PROVE i = j
      <3>1. own[i] \in Nat /\ own[j] \in Nat
        OBVIOUS
      <3>2. ~(own[i] < own[j]) /\ ~(own[j] < own[i])
        BY <2>1, <3>1
      <3>3. ~(i < j) /\ ~(j < i)
        BY <3>2
      <3> QED
        BY <1>1, <3>3
    <2> QED
      BY <2>1
  <1>3. own \in Injection(1..n, S)
    BY <1>2 DEF Injection, IsInjective
  <1>4. own \in Surjection(1..n, S)
    BY <1>1, <1>3, FS_Injection
  <1>5. \A x \in S : \E i \in 1..n : own[i] = x
    BY <1>4 DEF Surjection
  <1> DEFINE w == [i \in 1..n |-> 1]
             part == [x \in S |-> [i \in 1..n |-> IF own[i] = x THEN 1 ELSE 0]]
  <1>6. \A x \in S : SumFunctionOnSet(part[x], 1..n) = 1
    <2>1. ASSUME NEW x \in S PROVE SumFunctionOnSet(part[x], 1..n) = 1
      <3>1. PICK i \in 1..n : own[i] = x
        BY <1>5
      <3>2. PICK p : p = part[x]
        OBVIOUS
      <3>3. /\ p[i] = 1 /\ \A j \in 1..n : p[j] \in Int
            /\ \A j \in (1..n) \ {i} : p[j] = 0
        BY <1>2, <3>1, <3>2
      <3> HIDE DEF part
      <3>4. SumFunctionOnSet(p, 1..n) = SumFunctionOnSet(p, {i})
        BY <1>1, <3>3, SumPart
      <3>5. SumFunctionOnSet(p, {i}) = 1
        BY <3>3, SumOne
      <3> QED
        BY <3>2, <3>4, <3>5
    <2> QED
      BY <2>1
  <1>7. Grouped(S, 1..n, own, w, f, part, f, g)
    <2>1. \A y \in 1..n : own[y] \in S /\ w[y] \in Int /\ g[y] = f[own[y]] * w[y]
      <3>1. \A y \in 1..n : own[y] \in S /\ f[own[y]] \in Int /\ g[y] = f[own[y]] /\ w[y] = 1
        OBVIOUS
      <3> HIDE DEF w
      <3> QED
        BY <3>1
    <2>2. \A x \in S : f[x] \in Int /\ f[x] = f[x] * SumFunctionOnSet(part[x], 1..n)
      <3>1. \A x \in S : f[x] \in Int /\ f[x] = f[x] * 1
        OBVIOUS
      <3> HIDE DEF part
      <3> QED
        BY <1>6, <3>1
    <2>3. \A x \in S : \A y \in 1..n : part[x][y] = IF own[y] = x THEN w[y] ELSE 0
      OBVIOUS
    <2> HIDE DEF w, part
    <2> QED
      BY <2>1, <2>2, <2>3 DEF Grouped
  <1> QED
    <2> HIDE DEF w, part
    <2> QED
      BY <1>1, <1>7, SumGroup

(* The quantity of a row is an integer, and the rows of an event are rows.  *)
LEMMA OwnRows ==
  ASSUME NEW ledger \in Seq(Entry)
  PROVE  /\ \A e, b : Own(ledger, e, b) \subseteq DOMAIN ledger /\ IsFiniteSet(Own(ledger, e, b))
         /\ \A K \in SUBSET DOMAIN ledger : IsFiniteSet(K) /\ QtyIn(ledger, K) \in Int
         /\ \A k \in DOMAIN ledger : ledger[k] \in Entry /\ ledger[k].qty \in Int /\ k \in Nat
  <1>1. \A k \in DOMAIN ledger : ledger[k] \in Entry /\ k \in Nat
    OBVIOUS
  <1>2. \A k \in DOMAIN ledger : ledger[k].qty \in Int
    BY <1>1 DEF Entry
  <1>3. \A K \in SUBSET DOMAIN ledger : IsFiniteSet(K)
    BY SeqDomain, FS_Subset
  <1>4. ASSUME NEW K \in SUBSET DOMAIN ledger PROVE QtyIn(ledger, K) \in Int
    <2> DEFINE f == [k \in DOMAIN ledger |-> ledger[k].qty]
    <2>1. \A k \in K : f[k] \in Int
      BY <1>2
    <2>2. QtyIn(ledger, K) = SumFunctionOnSet(f, K)
      BY DEF QtyIn
    <2> HIDE DEF f
    <2> QED
      BY <1>3, <2>1, <2>2, SumInt
  <1>5. \A e, b : Own(ledger, e, b) \subseteq DOMAIN ledger
    BY DEF Own
  <1> QED
    BY <1>1, <1>2, <1>3, <1>4, <1>5

(* Ledgers that agree on some rows have the same quantity in them.          *)
LEMMA QtySame ==
  ASSUME NEW ledger \in Seq(Entry), NEW new, NEW K \in SUBSET DOMAIN ledger,
         \A k \in K : k \in DOMAIN new /\ new[k] = ledger[k]
  PROVE  QtyIn(new, K) = QtyIn(ledger, K)
  <1> DEFINE f == [k \in DOMAIN ledger |-> ledger[k].qty]
             g == [k \in DOMAIN new |-> new[k].qty]
  <1>1. \A k \in K : f[k] \in Int /\ g[k] = f[k]
    BY OwnRows
  <1>2. QtyIn(ledger, K) = SumFunctionOnSet(f, K) /\ QtyIn(new, K) = SumFunctionOnSet(g, K)
    BY DEF QtyIn
  <1> HIDE DEF f, g
  <1> QED
    BY <1>1, <1>2, OwnRows, SumEqual

(* The first line of a list and the others.                                 *)
LEMMA FirstLine ==
  ASSUME NEW lines \in Seq(WorkLine), lines # <<>>, NEW b
  PROVE  /\ Head(lines) \in WorkLine /\ Tail(lines) \in Seq(WorkLine)
         /\ Over(QtyAt(b), lines) = QtyAt(b)[Head(lines)] + Over(QtyAt(b), Tail(lines))
         /\ Over(QtyAt(b), Tail(lines)) \in Int /\ Over(QtyAt(b), lines) \in Int
         /\ Over(QtyAt(b), <<>>) = 0
  <1>1. PICK first, rest : first = Head(lines) /\ rest = Tail(lines)
    OBVIOUS
  <1>2. /\ first \in WorkLine /\ rest \in Seq(WorkLine) /\ lines = <<first>> \o rest
        /\ <<first>> \in Seq(WorkLine) /\ <<first>> = Append(<<>>, first)
        /\ <<>> \in Seq(WorkLine)
    BY <1>1
  <1>3. PICK f : f = QtyAt(b)
    OBVIOUS
  <1>4. f \in [WorkLine -> Int]
    BY <1>3 DEF QtyAt, WorkLine
  <1>5. Over(f, <<first>>) = Over(f, <<>>) + f[first] /\ Over(f, <<>>) = 0
    BY <1>2, <1>4, OverAppend, OverEmpty
  <1>6. Over(f, lines) = Over(f, <<first>>) + Over(f, rest)
    BY <1>2, <1>4, OverConcat
  <1>7. f[first] \in Int /\ Over(f, rest) \in Int /\ Over(f, lines) \in Int
    BY <1>2, <1>4, OverInt
  <1> QED
    BY <1>1, <1>2, <1>3, <1>5, <1>6, <1>7

(* The lines of a reversal put back what the event moved.                   *)
LEMMA ReversalMovesBack ==
  ASSUME NEW e, NEW n, n = Cardinality(Entries(e)), NEW own \in [1..n -> Entries(e)],
         db.ledger \in Seq(Entry), \A i, j \in 1..n : i < j => own[i] < own[j]
  PROVE  /\ ReversalLines(own) \in Seq(WorkLine)
         /\ \A b \in Bins : Over(QtyAt(b), ReversalLines(own))
                              = -QtyIn(db.ledger, Own(db.ledger, e, b))
  <1>1. PICK S, ledger, lines : /\ S = Entries(e) /\ ledger = db.ledger
                                /\ lines = ReversalLines(own)
    OBVIOUS
  <1>2. S \subseteq DOMAIN ledger /\ ledger \in Seq(Entry) /\ own \in [1..n -> S]
    BY <1>1 DEF Entries
  <1>3. IsFiniteSet(S) /\ S \subseteq Nat /\ n = Cardinality(S) /\ n \in Nat
    <2>1. IsFiniteSet(S) /\ S \subseteq Nat
      BY <1>2, OwnRows
    <2> QED
      BY <1>1, <2>1, FS_CardinalityType
  <1>4. lines = [i \in 1..n |-> Reversal(ledger[own[i]])]
    BY <1>1, <1>2 DEF ReversalLines
  <1>5. \A x \in Entry : Reversal(x) \in WorkLine
    <2>1. ASSUME NEW x \in Entry PROVE Reversal(x) \in WorkLine
      <3>1. /\ x.bin \in Bins /\ -x.qty \in Int \ {0} /\ x.rate \in Int
        BY DEF Entry
      <3> QED
        BY <3>1 DEF Reversal, WorkLine
    <2> QED
      BY <2>1
  <1>6. \A i \in 1..n : own[i] \in S /\ ledger[own[i]] \in Entry
    BY <1>2, OwnRows
  <1>7. lines \in Seq(WorkLine) /\ DOMAIN lines = 1..n
    <2>1. lines \in [1..n -> WorkLine]
      BY <1>4, <1>5, <1>6
    <2> QED
      BY <1>3, <2>1, FunctionIsSeq
  <1>8. ASSUME NEW b \in Bins
        PROVE  Over(QtyAt(b), lines) = -QtyIn(ledger, Own(ledger, e, b))
    <2> DEFINE f == [k \in DOMAIN ledger |-> IF ledger[k].bin = b THEN -ledger[k].qty ELSE 0]
               g == [i \in DOMAIN lines |-> QtyAt(b)[lines[i]]]
               q == [k \in DOMAIN ledger |-> ledger[k].qty]
    <2>1. \A k \in DOMAIN ledger : f[k] \in Int /\ q[k] \in Int
      BY <1>2, OwnRows
    <2>2. g \in Seq(Int) /\ DOMAIN g = 1..n
      <3>1. QtyAt(b) \in [WorkLine -> Int]
        BY DEF QtyAt, WorkLine
      <3>2. [i \in DOMAIN lines |-> QtyAt(b)[lines[i]]] \in Seq(Int)
        <4>1. PICK at, T : at = QtyAt(b) /\ T = WorkLine
          OBVIOUS
        <4>2. at \in [T -> Int] /\ lines \in Seq(T)
          BY <1>7, <3>1, <4>1
        <4>3. [i \in DOMAIN lines |-> at[lines[i]]] \in Seq(Int)
          BY <4>2, OverValues
        <4> QED
          BY <4>1, <4>3
      <3> QED
        BY <1>7, <3>2
    <2>3. \A i \in 1..n : g[i] = f[own[i]]
      <3>1. ASSUME NEW i \in 1..n PROVE g[i] = f[own[i]]
        <4>1. PICK x : x = ledger[own[i]] /\ x \in Entry /\ own[i] \in DOMAIN ledger
          BY <1>2, <1>6
        <4>2. g[i] = QtyAt(b)[Reversal(x)] /\ Reversal(x) \in WorkLine
          BY <1>4, <1>5, <1>7, <4>1
        <4>3. Reversal(x).bin = x.bin /\ Reversal(x).qty = -x.qty
          BY DEF Reversal
        <4>4. QtyAt(b)[Reversal(x)] = IF x.bin = b THEN -x.qty ELSE 0
          BY <4>2, <4>3 DEF QtyAt
        <4> QED
          BY <4>1, <4>2, <4>4
      <3> QED
        BY <3>1
    <2>4. Over(QtyAt(b), lines) = SumFunctionOnSet(g, 1..n)
      <3>1. Over(QtyAt(b), lines) = SeqSum(g)
        BY DEF Over
      <3> HIDE DEF g
      <3> QED
        BY <2>2, <3>1, SeqSumIsSum
    <2>5. PICK M : M = Own(ledger, e, b)
      OBVIOUS
    <2>6. M \in SUBSET S /\ IsFiniteSet(M) /\ M \subseteq DOMAIN ledger
      BY <1>1, <1>2, <2>5, OwnRows DEF Own, Entries
    <2>7. \A k \in S \ M : f[k] = 0
      BY <1>1, <1>2, <2>5 DEF Own, Entries
    <2>8. \A k \in M : q[k] \in Int /\ f[k] = (-1) * q[k]
      <3>1. \A k \in M : ledger[k].bin = b /\ ledger[k].qty \in Int /\ k \in DOMAIN ledger
        BY <1>2, <2>5, <2>6, OwnRows DEF Own
      <3> QED
        BY <3>1
    <2>9. QtyIn(ledger, M) = SumFunctionOnSet(q, M)
      BY DEF QtyIn
    <2> HIDE DEF f, g, q
    <2>10. SumFunctionOnSet(g, 1..n) = SumFunctionOnSet(f, S)
      <3>1. \A x \in S : f[x] \in Int
        BY <1>2, <2>1
      <3> QED
        BY <1>2, <1>3, <2>3, <3>1, SumNumbered
    <2>11. SumFunctionOnSet(f, S) = SumFunctionOnSet(f, M)
      BY <1>2, <1>3, <2>1, <2>6, <2>7, SumPart
    <2>12. SumFunctionOnSet(f, M) = (-1) * SumFunctionOnSet(q, M)
      BY <2>6, <2>8, SumScale
    <2>13. SumFunctionOnSet(q, M) \in Int
      BY <2>6, <2>8, SumInt
    <2> QED
      BY <2>4, <2>5, <2>9, <2>10, <2>11, <2>12, <2>13
  <1> QED
    BY <1>1, <1>7, <1>8

(* The tables but the events.                                               *)
LEMMA OtherEvents ==
  ASSUME NEW w, Tables(w), NEW events, NEW v,
         v = [bins |-> w.bins, layers |-> w.layers, ledger |-> w.ledger, events |-> events],
         EventsTyped(v)
  PROVE  Tables(v)
  <1>1. v.bins = w.bins /\ v.layers = w.layers /\ v.ledger = w.ledger /\ v.events = events
    OBVIOUS
  <1>2. v = [bins |-> v.bins, layers |-> v.layers, ledger |-> v.ledger, events |-> v.events]
    BY <1>1
  <1>3. Shape(v)
    BY <1>1, <1>2 DEF Tables, Shape, LayersTyped
  <1>4. Rebuilt(v) /\ Covered(v) /\ NonNegative(v)
    BY <1>1 DEF Tables, Rebuilt, Covered, NonNegative
  <1>5. Touched(v) /\ OldestFirst(v)
    BY <1>1 DEF Tables, Touched, OldestFirst
  <1>6. Averaged(v) /\ Residual(v)
    BY <1>1 DEF Tables, Averaged, Residual
  <1> QED
    BY <1>3, <1>4, <1>5, <1>6 DEF Tables

(* A new event has the reversed one before it, and no rows yet.             *)
LEMMA BegunWorks ==
  ASSUME Tables(db), NEW reverses \in Nat \cup {None}, NEW at \in Nat,
         NEW lines \in Seq(WorkLine), NEW t, t = Begun(reverses, at, lines),
         reverses # None =>
            /\ reverses \in DOMAIN db.events /\ db.events[reverses].state = "Posted"
            /\ \A b \in Bins : Over(QtyAt(b), lines)
                                 = -QtyIn(db.ledger, Own(db.ledger, reverses, b))
  PROVE  Working(db, t) /\ Reversing(db, t)
  <1>1. PICK forced \in BOOLEAN : forced = (\E i \in DOMAIN lines : lines[i].forced # None)
    OBVIOUS
  <1>2. PICK n, new, events : /\ n = Len(db.events) + 1 /\ events = Append(db.events, new)
                              /\ new = [state |-> "Posted", reverses |-> reverses,
                                        forced |-> forced]
    OBVIOUS
  <1>3. /\ t = [event |-> n, at |-> at, lines |-> lines,
                work |-> [bins |-> db.bins, layers |-> db.layers, ledger |-> db.ledger,
                          events |-> events]]
    BY <1>1, <1>2 DEF Begun
  <1>4. new \in Event /\ new.reverses = reverses
    BY <1>2 DEF Event, States
  <1>5. PICK w : w = t.work /\ w = [bins |-> db.bins, layers |-> db.layers,
                                    ledger |-> db.ledger, events |-> events]
    BY <1>3
  <1>6. /\ t.event = n /\ t.at = at /\ t.lines = lines /\ t.work = w
        /\ t = [event |-> t.event, at |-> t.at, lines |-> t.lines, work |-> t.work]
        /\ w.ledger = db.ledger /\ w.events = events
    BY <1>3, <1>5
  <1>7. /\ db.events \in Seq(Event) /\ db.ledger \in Seq(Entry)
        /\ \A k \in DOMAIN db.ledger : db.ledger[k].event \in DOMAIN db.events
        /\ \A e \in DOMAIN db.events : db.events[e].reverses \in 1..(e - 1) \cup {None}
    BY DEF Tables, Shape, EventsTyped
  <1>8. /\ events \in Seq(Event) /\ DOMAIN events = DOMAIN db.events \cup {n}
        /\ events[n] = new /\ \A e \in DOMAIN db.events : events[e] = db.events[e]
        /\ n \notin DOMAIN db.events /\ n \in Nat /\ \A e \in DOMAIN db.events : e \in 1..(n - 1)
    BY <1>2, <1>4, <1>7
  <1>9. EventsTyped(w)
    <2>1. \A k \in DOMAIN w.ledger : w.ledger[k].event \in DOMAIN events
      BY <1>6, <1>7, <1>8
    <2>2. \A e \in DOMAIN events : events[e].reverses \in 1..(e - 1) \cup {None}
      BY <1>4, <1>7, <1>8
    <2> QED
      BY <1>6, <1>8, <2>1, <2>2 DEF EventsTyped
  <1>10. Tables(w)
    BY <1>5, <1>9, OtherEvents
  <1>11. Working(db, t)
    BY <1>2, <1>6, <1>10 DEF Working
  <1>12. ASSUME reverses # None PROVE Undone(w.ledger, n, reverses, lines)
    <2>1. \A b \in Bins : Own(db.ledger, n, b) = {}
      BY <1>7, <1>8 DEF Own
    <2>2. QtyIn(db.ledger, {}) = 0
      BY SumEmpty DEF QtyIn
    <2>3. \A b \in Bins : QtyIn(db.ledger, Own(db.ledger, reverses, b)) \in Int
      BY <1>7, OwnRows
    <2>4. \A b \in Bins : Over(QtyAt(b), lines) = -QtyIn(db.ledger, Own(db.ledger, reverses, b))
      BY <1>12
    <2>5. ASSUME NEW b \in Bins
          PROVE  QtyIn(db.ledger, Own(db.ledger, n, b)) + Over(QtyAt(b), lines)
                   + QtyIn(db.ledger, Own(db.ledger, reverses, b)) = 0
      <3>1. PICK q \in Int : q = QtyIn(db.ledger, Own(db.ledger, reverses, b))
        BY <2>3
      <3>2. Over(QtyAt(b), lines) = -q /\ QtyIn(db.ledger, Own(db.ledger, n, b)) = 0
        BY <2>1, <2>2, <2>4, <3>1
      <3> QED
        BY <3>1, <3>2
    <2>6. w.ledger = db.ledger
      BY <1>6
    <2> QED
      BY <2>5, <2>6 DEF Undone
  <1>13. Reversing(db, t)
    BY <1>2, <1>4, <1>6, <1>12, Zenon DEF Reversing
  <1> QED
    BY <1>11, <1>13

\* The transaction after its next line.
Further(t) == [event |-> t.event, at |-> t.at, lines |-> Tail(t.lines),
               work |-> PostedLine(t.work, t.event, t.at, Head(t.lines))]

(* A line posted is one row more for the event and one line less to come.   *)
LEMMA LineWorks ==
  ASSUME NEW w, NEW t, w.events \in Seq(Event), Working(w, t), Reversing(w, t), t.lines # <<>>,
         NEW l, l = Head(t.lines),
         Accepts(t.work.bins[l.bin], t.work.layers[l.bin], l)
  PROVE  Working(w, Further(t)) /\ Reversing(w, Further(t))
  <1>1. PICK u, v : u = t.work /\ v = PostedLine(u, t.event, t.at, l)
    OBVIOUS
  <1>15. PICK s : s = Further(t)
    OBVIOUS
  <1>16. s = [event |-> t.event, at |-> t.at, lines |-> Tail(t.lines), work |-> v]
    BY <1>1, <1>15 DEF Further
  <1>2. /\ s = Further(t) /\ s.event = t.event /\ s.at = t.at /\ s.lines = Tail(t.lines)
        /\ s.work = v
        /\ s = [event |-> s.event, at |-> s.at, lines |-> s.lines, work |-> s.work]
    BY <1>15, <1>16
  <1>3. /\ t.event = Len(w.events) + 1 /\ t.at \in Nat /\ t.lines \in Seq(WorkLine)
        /\ Tables(u)
        /\ \A k \in DOMAIN w.ledger : k \in DOMAIN u.ledger /\ u.ledger[k] = w.ledger[k]
        /\ \A k \in DOMAIN u.ledger \ DOMAIN w.ledger : u.ledger[k].event = t.event
    BY <1>1 DEF Working
  <1>4. PICK new \in Event :
           /\ u.events = Append(w.events, new)
           /\ new.reverses # None =>
                 /\ new.reverses \in DOMAIN w.events
                 /\ w.events[new.reverses].state = "Posted"
                 /\ Undone(u.ledger, t.event, new.reverses, t.lines)
    BY <1>1 DEF Reversing
  <1>5. l \in WorkLine /\ Tail(t.lines) \in Seq(WorkLine) /\ t.event \in DOMAIN u.events
        /\ t.event \in Nat
    <2>1. l \in WorkLine /\ Tail(t.lines) \in Seq(WorkLine)
      BY <1>3
    <2>2. t.event \in DOMAIN u.events /\ t.event \in Nat
      <3>1. u.events = Append(w.events, new)
        BY <1>4
      <3> QED
        BY <1>3, <3>1
    <2> QED
      BY <2>1, <2>2
  <1>6. Accepts(u.bins[l.bin], u.layers[l.bin], l) /\ Shape(u)
    BY <1>1, <1>3 DEF Tables
  <1>7. Tables(v)
    BY <1>1, <1>3, <1>5, <1>6, TablesKept
  <1>8. PICK bin, x, lay, id : /\ Posting(u, l, t.event, t.at, v, bin, x, lay)
                               /\ id = Len(u.ledger) + 1
    BY <1>1, <1>3, <1>5, <1>6, LinePosts
  <1>9. After(u, v, l, bin, x, lay, id)
    BY <1>5, <1>6, <1>8, PostedTables
  <1>10. /\ id \in Nat /\ id \notin DOMAIN u.ledger
         /\ DOMAIN v.ledger = DOMAIN u.ledger \cup {id} /\ v.ledger[id] = x
         /\ \A k \in DOMAIN u.ledger : v.ledger[k] = u.ledger[k]
         /\ v.events = u.events /\ l.bin \in Bins /\ l.qty \in Int
         /\ u.ledger \in Seq(Entry)
    BY <1>9 DEF After
  <1>11. x.event = t.event /\ x.bin = l.bin /\ x.qty = l.qty /\ x \in Entry
         /\ v.ledger = Append(u.ledger, x)
    BY <1>8 DEF Posting, Balances
  <1>12. Working(w, s)
    <2>1. \A k \in DOMAIN w.ledger : k \in DOMAIN v.ledger /\ v.ledger[k] = w.ledger[k]
      BY <1>3, <1>10
    <2>2. \A k \in DOMAIN v.ledger \ DOMAIN w.ledger : v.ledger[k].event = t.event
      BY <1>3, <1>10, <1>11
    <2> QED
      BY <1>2, <1>3, <1>5, <1>7, <2>1, <2>2 DEF Working
  <1>13. ASSUME new.reverses # None PROVE Undone(v.ledger, t.event, new.reverses, Tail(t.lines))
    <2>1. PICK r : /\ r = new.reverses /\ r \in DOMAIN w.events
                   /\ Undone(u.ledger, t.event, r, t.lines)
      BY <1>4, <1>13
    <2>2. r # t.event
      BY <1>3, <2>1
    <2>3. Grown(u.ledger, x, v.ledger, id)
      BY <1>8, <1>10, <1>11, LedgerGrows
    <2>4. \A K \in SUBSET DOMAIN u.ledger :
             /\ QtyIn(u.ledger, K) \in Int
             /\ QtyIn(v.ledger, K) = QtyIn(u.ledger, K)
             /\ QtyIn(v.ledger, K \cup {id}) = QtyIn(u.ledger, K) + x.qty
      BY <2>3 DEF Grown
    <2>5. ASSUME NEW b \in Bins
          PROVE  QtyIn(v.ledger, Own(v.ledger, t.event, b)) + Over(QtyAt(b), Tail(t.lines))
                   + QtyIn(v.ledger, Own(v.ledger, r, b)) = 0
      <3>1. PICK A, B : A = Own(u.ledger, t.event, b) /\ B = Own(u.ledger, r, b)
        OBVIOUS
      <3>2. A \in SUBSET DOMAIN u.ledger /\ B \in SUBSET DOMAIN u.ledger
        BY <3>1 DEF Own
      <3>3. QtyIn(u.ledger, A) + Over(QtyAt(b), t.lines) + QtyIn(u.ledger, B) = 0
        BY <2>1, <3>1 DEF Undone
      <3>4. Own(v.ledger, r, b) = B
        BY <1>10, <1>11, <2>2, <3>1 DEF Own
      <3>5. Own(v.ledger, t.event, b) = IF b = l.bin THEN A \cup {id} ELSE A
        BY <1>10, <1>11, <3>1 DEF Own
      <3>6. /\ Over(QtyAt(b), t.lines) = QtyAt(b)[l] + Over(QtyAt(b), Tail(t.lines))
            /\ Over(QtyAt(b), Tail(t.lines)) \in Int
        BY <1>3, FirstLine
      <3>7. QtyAt(b)[l] = IF l.bin = b THEN l.qty ELSE 0
        BY <1>5 DEF QtyAt
      <3>8. QtyIn(v.ledger, Own(v.ledger, t.event, b)) = QtyIn(u.ledger, A) + QtyAt(b)[l]
        <4>1. QtyIn(u.ledger, A) \in Int
          BY <2>4, <3>2
        <4>2. CASE b = l.bin
          <5>1. QtyIn(v.ledger, A \cup {id}) = QtyIn(u.ledger, A) + x.qty
            BY <2>4, <3>2
          <5> QED
            BY <1>11, <3>5, <3>7, <4>2, <5>1
        <4>3. CASE b # l.bin
          <5>1. QtyIn(v.ledger, A) = QtyIn(u.ledger, A)
            BY <2>4, <3>2
          <5> QED
            BY <3>5, <3>7, <4>1, <4>3, <5>1
        <4> QED
          BY <4>2, <4>3
      <3>9. /\ QtyIn(v.ledger, Own(v.ledger, r, b)) = QtyIn(u.ledger, B)
            /\ QtyIn(u.ledger, A) \in Int /\ QtyIn(u.ledger, B) \in Int
        BY <2>4, <3>2, <3>4
      <3>10. QtyAt(b)[l] \in Int
        BY <1>10, <3>7
      <3> QED
        BY <3>3, <3>6, <3>8, <3>9, <3>10
    <2> QED
      BY <2>1, <2>5 DEF Undone
  <1>14. Reversing(w, s)
    <2>1. s.work.events = Append(w.events, new) /\ s.work.ledger = v.ledger
      BY <1>2, <1>4, <1>10
    <2> QED
      BY <1>2, <1>4, <1>13, <2>1, Zenon DEF Reversing
  <1> QED
    BY <1>2, <1>12, <1>14

\* Event c of tables w has state x, and nothing else is different.
Stamped(w, c, x, v) ==
    /\ Tables(v) /\ v.ledger = w.ledger /\ DOMAIN v.events = DOMAIN w.events
    /\ \A e \in DOMAIN w.events :
          /\ v.events[e].reverses = w.events[e].reverses
          /\ v.events[e].state = IF e = c THEN x ELSE w.events[e].state

(* A state of an event does not touch the rest.                             *)
LEMMA StampedTables ==
  ASSUME NEW w, Tables(w), NEW c \in DOMAIN w.events, NEW x \in States,
         NEW v, v = [w EXCEPT !.events[c].state = x]
  PROVE  Stamped(w, c, x, v)
  <1>1. /\ w = [bins |-> w.bins, layers |-> w.layers, ledger |-> w.ledger, events |-> w.events]
        /\ w.events \in Seq(Event)
        /\ \A k \in DOMAIN w.ledger : w.ledger[k].event \in DOMAIN w.events
        /\ \A e \in DOMAIN w.events : w.events[e].reverses \in 1..(e - 1) \cup {None}
    BY DEF Tables, Shape, EventsTyped
  <1>2. PICK events, new : /\ events = [w.events EXCEPT ![c] = new]
                           /\ new = [w.events[c] EXCEPT !.state = x]
    OBVIOUS
  <1>3. v = [bins |-> w.bins, layers |-> w.layers, ledger |-> w.ledger, events |-> events]
    BY <1>1, <1>2
  <1>4. new \in Event /\ new.reverses = w.events[c].reverses /\ new.state = x
    <2>1. w.events[c] \in Event
      BY <1>1
    <2> QED
      BY <1>2, <2>1 DEF Event
  <1>5. /\ events \in Seq(Event) /\ DOMAIN events = DOMAIN w.events
        /\ \A e \in DOMAIN w.events : events[e] = IF e = c THEN new ELSE w.events[e]
    BY <1>1, <1>2, <1>4
  <1>6. v.ledger = w.ledger /\ v.events = events
    BY <1>3
  <1>7. EventsTyped(v)
    <2>1. \A e \in DOMAIN events : events[e].reverses \in 1..(e - 1) \cup {None}
      BY <1>1, <1>4, <1>5
    <2> QED
      BY <1>1, <1>5, <1>6, <2>1 DEF EventsTyped
  <1>8. Tables(v)
    BY <1>3, <1>7, OtherEvents
  <1>9. \A e \in DOMAIN w.events :
           /\ v.events[e].reverses = w.events[e].reverses
           /\ v.events[e].state = IF e = c THEN x ELSE w.events[e].state
    BY <1>4, <1>5, <1>6
  <1> QED
    BY <1>5, <1>6, <1>8, <1>9 DEF Stamped

\* Tables v have the rows, events and cancelled events of w, and maybe more.
Extends(v, w) ==
    /\ \A e \in DOMAIN w.events : e \in DOMAIN v.events
    /\ \A e \in DOMAIN w.events :
          /\ v.events[e].reverses = w.events[e].reverses
          /\ w.events[e].state = "Cancelled" => v.events[e].state = "Cancelled"
          /\ \A b \in Bins : QtyIn(v.ledger, Own(v.ledger, e, b))
                               = QtyIn(w.ledger, Own(w.ledger, e, b))

(* Reversals stay reversals when no event reverses again what one did.      *)
LEMMA ReversalsStay ==
  ASSUME NEW w, Tables(w), Reversed(w), NEW v, Extends(v, w),
         NEW n, DOMAIN v.events \ {n} \subseteq DOMAIN w.events,
         n \in DOMAIN v.events \ DOMAIN w.events /\ v.events[n].reverses # None =>
            LET e == v.events[n].reverses IN
            /\ e \in DOMAIN w.events /\ w.events[e].state # "Cancelled"
            /\ v.events[e].state = "Cancelled" /\ Undone(v.ledger, n, e, <<>>)
  PROVE  Reversed(v)
  <1>1. \A e \in DOMAIN w.events : w.events[e].reverses # None =>
           w.events[e].reverses \in DOMAIN w.events
    <2>1. \A e \in DOMAIN w.events : w.events[e].reverses \in 1..(e - 1) \cup {None}
      BY DEF Tables, Shape, EventsTyped
    <2>2. w.events \in Seq(Event)
      BY DEF Tables, Shape, EventsTyped
    <2> QED
      BY <2>1, <2>2
  <1>2. ASSUME NEW r \in DOMAIN w.events, w.events[r].reverses # None, NEW e,
               e = w.events[r].reverses
        PROVE  /\ v.events[e].state = "Cancelled" /\ Undone(v.ledger, r, e, <<>>)
               /\ \A s \in DOMAIN v.events : v.events[s].reverses = e => s = r
    <2>1. /\ w.events[e].state = "Cancelled" /\ Undone(w.ledger, r, e, <<>>)
          /\ \A s \in DOMAIN w.events : w.events[s].reverses = e => s = r
          /\ e \in DOMAIN w.events
      BY <1>1, <1>2 DEF Reversed
    <2>2. v.events[e].state = "Cancelled"
      BY <2>1 DEF Extends
    <2>3. Undone(v.ledger, r, e, <<>>)
      BY <2>1 DEF Extends, Undone
    <2>4. ASSUME NEW s \in DOMAIN v.events, v.events[s].reverses = e PROVE s = r
      <3>1. CASE s \in DOMAIN w.events
        BY <2>1, <2>4, <3>1 DEF Extends
      <3>2. CASE s \notin DOMAIN w.events
        <4>1. s = n /\ n \in DOMAIN v.events \ DOMAIN w.events /\ v.events[n].reverses # None
          BY <1>2, <2>4, <3>2
        <4>2. w.events[v.events[n].reverses].state # "Cancelled"
          BY <4>1
        <4> QED
          BY <2>1, <2>4, <4>1, <4>2
      <3> QED
        BY <3>1, <3>2
    <2> QED
      BY <2>2, <2>3, <2>4
  <1>3. ASSUME NEW r \in DOMAIN v.events, v.events[r].reverses # None, NEW e,
               e = v.events[r].reverses
        PROVE  /\ v.events[e].state = "Cancelled" /\ Undone(v.ledger, r, e, <<>>)
               /\ \A s \in DOMAIN v.events : v.events[s].reverses = e => s = r
    <2>1. CASE r \in DOMAIN w.events
      <3>1. w.events[r].reverses = e /\ e # None
        BY <1>3, <2>1 DEF Extends
      <3> QED
        BY <1>2, <2>1, <3>1
    <2>2. CASE r \notin DOMAIN w.events
      <3>1. r = n /\ n \in DOMAIN v.events \ DOMAIN w.events
        BY <2>2
      <3>2. /\ e \in DOMAIN w.events /\ w.events[e].state # "Cancelled"
            /\ v.events[e].state = "Cancelled" /\ Undone(v.ledger, n, e, <<>>)
        BY <1>3, <3>1
      <3>3. ASSUME NEW s \in DOMAIN v.events, v.events[s].reverses = e PROVE s = r
        <4>1. CASE s \in DOMAIN w.events
          <5>1. w.events[s].reverses = e /\ e # None
            BY <1>3, <3>3, <4>1 DEF Extends
          <5>2. w.events[e].state = "Cancelled"
            BY <4>1, <5>1 DEF Reversed
          <5> QED
            BY <3>2, <5>2
        <4>2. CASE s \notin DOMAIN w.events
          BY <3>1, <4>2
        <4> QED
          BY <4>1, <4>2
      <3> QED
        BY <3>1, <3>2, <3>3
    <2> QED
      BY <2>1, <2>2
  <1> QED
    BY <1>3 DEF Reversed

(* What a transaction commits is sound.                                     *)
LEMMA CommitWorks ==
  ASSUME NEW w, Tables(w), Reversed(w), NEW t, Working(w, t), Reversing(w, t), t.lines = <<>>,
         NEW v, v = Final(t.work, t.event)
  PROVE  Tables(v) /\ Reversed(v)
  <1>1. PICK u, n : u = t.work /\ n = t.event
    OBVIOUS
  <1>2. /\ n = Len(w.events) + 1 /\ Tables(u)
        /\ \A k \in DOMAIN w.ledger : k \in DOMAIN u.ledger /\ u.ledger[k] = w.ledger[k]
        /\ \A k \in DOMAIN u.ledger \ DOMAIN w.ledger : u.ledger[k].event = n
    BY <1>1 DEF Working
  <1>3. PICK new \in Event :
           /\ u.events = Append(w.events, new)
           /\ new.reverses # None =>
                 /\ new.reverses \in DOMAIN w.events
                 /\ w.events[new.reverses].state = "Posted"
                 /\ Undone(u.ledger, n, new.reverses, <<>>)
    BY <1>1 DEF Reversing
  <1>4. /\ w.events \in Seq(Event) /\ w.ledger \in Seq(Entry)
        /\ \A k \in DOMAIN w.ledger : w.ledger[k].event \in DOMAIN w.events
    BY DEF Tables, Shape, EventsTyped
  <1>5. /\ DOMAIN u.events = DOMAIN w.events \cup {n} /\ n \notin DOMAIN w.events
        /\ u.events[n] = new /\ \A e \in DOMAIN w.events : u.events[e] = w.events[e]
    <2>1. u.events = Append(w.events, new)
      BY <1>3
    <2> QED
      BY <1>2, <1>4, <2>1
  <1>6. ASSUME NEW e \in DOMAIN w.events, NEW b \in Bins
        PROVE  QtyIn(u.ledger, Own(u.ledger, e, b)) = QtyIn(w.ledger, Own(w.ledger, e, b))
    <2>1. PICK K : K = Own(w.ledger, e, b)
      OBVIOUS
    <2>2. K \in SUBSET DOMAIN w.ledger
      BY <2>1 DEF Own
    <2>3. Own(u.ledger, e, b) = K
      BY <1>2, <1>5, <2>1 DEF Own
    <2>4. QtyIn(u.ledger, K) = QtyIn(w.ledger, K)
      BY <1>2, <1>4, <2>2, QtySame
    <2> QED
      BY <2>1, <2>3, <2>4
  <1>7. CASE new.reverses = None
    <2>1. v = u
      BY <1>1, <1>5, <1>7 DEF Final
    <2>2. Extends(u, w)
      BY <1>5, <1>6 DEF Extends
    <2>3. Reversed(u)
      BY <1>5, <1>7, <2>2, ReversalsStay
    <2> QED
      BY <1>2, <2>1, <2>3
  <1>8. CASE new.reverses # None
    <2>1. PICK c : /\ c = new.reverses /\ c \in DOMAIN w.events
                   /\ w.events[c].state = "Posted" /\ Undone(u.ledger, n, c, <<>>)
      BY <1>3, <1>8
    <2>2. v = [u EXCEPT !.events[c].state = "Cancelled"]
      BY <1>1, <1>5, <1>8, <2>1 DEF Final
    <2>3. c \in DOMAIN u.events /\ "Cancelled" \in States
      BY <1>5, <2>1 DEF States
    <2>4. Stamped(u, c, "Cancelled", v)
      BY <1>2, <2>2, <2>3, StampedTables
    <2>5. /\ Tables(v) /\ v.ledger = u.ledger /\ DOMAIN v.events = DOMAIN u.events
          /\ \A e \in DOMAIN u.events :
                /\ v.events[e].reverses = u.events[e].reverses
                /\ v.events[e].state = IF e = c THEN "Cancelled" ELSE u.events[e].state
      BY <2>4 DEF Stamped
    <2>6. Extends(v, w)
      BY <1>5, <1>6, <2>5 DEF Extends
    <2>7. /\ v.events[n].reverses = c /\ c \in DOMAIN w.events
          /\ w.events[c].state # "Cancelled" /\ v.events[c].state = "Cancelled"
          /\ Undone(v.ledger, n, c, <<>>)
      BY <1>5, <2>1, <2>3, <2>5
    <2>8. DOMAIN v.events \ {n} \subseteq DOMAIN w.events
      BY <1>5, <2>5
    <2>9. Reversed(v)
      BY <2>6, <2>7, <2>8, ReversalsStay
    <2> QED
      BY <2>5, <2>9
  <1> QED
    BY <1>7, <1>8

(* Cancelling an event that no reversal names leaves the reversals.         *)
LEMMA CancelKeeps ==
  ASSUME NEW w, Tables(w), Reversed(w), NEW c \in DOMAIN w.events,
         NEW v, v = [w EXCEPT !.events[c].state = "Cancelled"]
  PROVE  Tables(v) /\ Reversed(v)
  <1>1. "Cancelled" \in States
    BY DEF States
  <1>2. Stamped(w, c, "Cancelled", v)
    BY <1>1, StampedTables
  <1>3. /\ Tables(v) /\ v.ledger = w.ledger /\ DOMAIN v.events = DOMAIN w.events
        /\ \A e \in DOMAIN w.events :
              /\ v.events[e].reverses = w.events[e].reverses
              /\ v.events[e].state = IF e = c THEN "Cancelled" ELSE w.events[e].state
    BY <1>2 DEF Stamped
  <1>4. Extends(v, w)
    BY <1>3 DEF Extends
  <1>5. Reversed(v)
    BY <1>3, <1>4, ReversalsStay
  <1> QED
    BY <1>3, <1>5

-----------------------------------------------------------------------------
\* It holds of the empty tables.
LEMMA SoundInit == Init => Sound
  <1> SUFFICES ASSUME Init PROVE Sound
    OBVIOUS
  <1>1. PICK bins, layers :
           /\ bins = [b \in Bins |-> [qty |-> 0, value |-> 0, rate |-> 0]]
           /\ layers = [b \in Bins |-> NoLayers]
    OBVIOUS
  <1>2. db = [bins |-> bins, layers |-> layers, ledger |-> <<>>, events |-> <<>>] /\ txn = None
    BY <1>1 DEF Init
  <1>3. /\ db.bins = bins /\ db.layers = layers /\ db.ledger = <<>> /\ db.events = <<>>
        /\ db = [bins |-> db.bins, layers |-> db.layers, ledger |-> db.ledger,
                 events |-> db.events]
    BY <1>2
  <1>4. \A b \in Bins : /\ db.bins[b].qty = 0 /\ db.bins[b].value = 0 /\ db.bins[b] \in Bin
                        /\ db.layers[b] = NoLayers /\ Rows(db.ledger, b) = {}
    BY <1>1, <1>3 DEF Bin, Rows
  <1>5. DOMAIN NoLayers = {} /\ Layered(NoLayers)
    BY FS_EmptySet DEF NoLayers, Layered
  <1>6. Shape(db)
    <2>1. db.bins \in [Bins -> Bin] /\ DOMAIN db.layers = Bins
      BY <1>1, <1>3, <1>4
    <2>2. LayersTyped(db)
      BY <1>4, <1>5, <2>1 DEF LayersTyped
    <2>3. EventsTyped(db) /\ db.ledger \in Seq(Entry)
      BY <1>3 DEF EventsTyped
    <2> QED
      BY <1>3, <2>1, <2>2, <2>3 DEF Shape
  <1>7. Rebuilt(db)
    <2>1. QtyIn(db.ledger, {}) = 0 /\ ChangeIn(db.ledger, {}) = 0
      BY SumEmpty DEF QtyIn, ChangeIn
    <2> QED
      BY <1>4, <2>1 DEF Rebuilt
  <1>8. Covered(db) /\ NonNegative(db)
    <2>1. Left(NoLayers, {}) = 0
      BY <1>5, LeftIs
    <2> QED
      BY <1>4, <1>5, <2>1 DEF Covered, NonNegative
  <1>9. Touched(db) /\ OldestFirst(db)
    BY <1>4, <1>5 DEF Touched, OldestFirst
  <1>10. Averaged(db) /\ Residual(db)
    <2>1. ASSUME NEW b \in Bins
          PROVE  ~(db.bins[b].qty > 0) /\ ~(\E k \in Rows(db.ledger, b) : TRUE)
      BY <1>4
    <2>2. Averaged(db)
      BY <2>1 DEF Averaged
    <2>3. Residual(db)
      BY <2>1 DEF Residual
    <2> QED
      BY <2>2, <2>3
  <1>11. Reversed(db)
    BY <1>3 DEF Reversed
  <1> QED
    BY <1>2, <1>6, <1>7, <1>8, <1>9, <1>10, <1>11 DEF Sound, Tables

(* Every step of a transaction keeps it, and so do its end and its loss.    *)
LEMMA SoundStep == Sound /\ [Next]_vars => Sound'
  <1> SUFFICES ASSUME Sound, [Next]_vars PROVE Sound'
    OBVIOUS
  <1>1. Tables(db) /\ Reversed(db)
    BY DEF Sound
  <1>2. /\ db.events \in Seq(Event) /\ db.ledger \in Seq(Entry)
        /\ \A e \in DOMAIN db.events : e \in Nat /\ e # None
    <2>1. db.events \in Seq(Event) /\ db.ledger \in Seq(Entry)
      BY <1>1 DEF Tables, Shape, EventsTyped
    <2>2. None \notin Int
      BY InventoryAssumption
    <2>3. \A e \in DOMAIN db.events : e \in Nat
      BY <2>1
    <2> QED
      BY <2>1, <2>2, <2>3
  <1>3. LineLists \subseteq Seq(WorkLine) /\ Dates \subseteq Nat
    <2>1. LineLists \subseteq Seq(Line) /\ Dates \subseteq Nat
      BY InventoryAssumption
    <2>2. Line \subseteq WorkLine
      BY DEF Line, WorkLine
    <2> QED
      BY <2>1, <2>2
  <1>4. CASE PostEvent
    <2>1. PICK lines \in LineLists, at \in Dates : txn' = Begun(None, at, lines)
      BY <1>4 DEF PostEvent
    <2>2. Working(db, txn') /\ Reversing(db, txn')
      BY <1>1, <1>3, <2>1, BegunWorks
    <2> QED
      BY <1>1, <1>4, <2>2 DEF Sound, PostEvent
  <1>5. CASE RepostEvent
    BY <1>5 DEF RepostEvent, vars, Sound
  <1>6. CASE ReverseEvent
    <2>7. PICK e \in DOMAIN db.events, at \in Dates :
             /\ db.events[e].state = "Posted"
             /\ \E own \in [1..Cardinality(Entries(e)) -> Entries(e)] :
                   /\ \A i, j \in DOMAIN own : i < j => own[i] < own[j]
                   /\ txn' = Begun(e, at, ReversalLines(own))
      BY <1>6 DEF ReverseEvent
    <2>1. PICK own \in [1..Cardinality(Entries(e)) -> Entries(e)] :
             /\ \A i, j \in DOMAIN own : i < j => own[i] < own[j]
             /\ txn' = Begun(e, at, ReversalLines(own))
      BY <2>7
    <2>2. PICK n, lines : n = Cardinality(Entries(e)) /\ lines = ReversalLines(own)
      OBVIOUS
    <2>3. /\ own \in [1..n -> Entries(e)] /\ \A i, j \in 1..n : i < j => own[i] < own[j]
      BY <2>1, <2>2
    <2>4. /\ lines \in Seq(WorkLine)
          /\ \A b \in Bins : Over(QtyAt(b), lines) = -QtyIn(db.ledger, Own(db.ledger, e, b))
      BY <1>2, <2>2, <2>3, ReversalMovesBack
    <2>5. e \in Nat \cup {None} /\ at \in Nat
      BY <1>2, <1>3
    <2>6. Working(db, txn') /\ Reversing(db, txn')
      BY <1>1, <2>1, <2>2, <2>4, <2>5, <2>7, BegunWorks
    <2> QED
      BY <1>1, <1>6, <2>6 DEF Sound, ReverseEvent
  <1>7. CASE ReverseOntoPosted
    <2>1. PICK e \in DOMAIN db.events : db' = [db EXCEPT !.events[e].state = "Cancelled"]
      BY <1>7 DEF ReverseOntoPosted
    <2>2. Tables(db') /\ Reversed(db')
      BY <1>1, <2>1, CancelKeeps
    <2>3. txn' = None
      BY <1>7 DEF ReverseOntoPosted
    <2> QED
      BY <2>2, <2>3 DEF Sound
  <1>8. CASE PostLine
    <2>1. PICK l : /\ txn # None /\ txn.lines # <<>> /\ l = Head(txn.lines)
                   /\ Accepts(txn.work.bins[l.bin], txn.work.layers[l.bin], l)
                   /\ txn' = Further(txn) /\ db' = db
      BY <1>8 DEF PostLine, Further
    <2>2. Working(db, txn) /\ Reversing(db, txn)
      BY <2>1 DEF Sound
    <2>3. Working(db, txn') /\ Reversing(db, txn')
      BY <1>2, <2>1, <2>2, LineWorks
    <2> QED
      BY <1>1, <2>1, <2>3 DEF Sound
  <1>9. CASE Commit
    <2>1. /\ txn # None /\ txn.lines = <<>> /\ db' = Final(txn.work, txn.event) /\ txn' = None
      BY <1>9 DEF Commit
    <2>2. Working(db, txn) /\ Reversing(db, txn)
      BY <2>1 DEF Sound
    <2>3. Tables(db') /\ Reversed(db')
      BY <1>1, <2>1, <2>2, CommitWorks
    <2> QED
      BY <2>1, <2>3 DEF Sound
  <1>10. CASE Rollback
    BY <1>1, <1>10 DEF Rollback, Sound
  <1>11. CASE UNCHANGED vars
    BY <1>11 DEF vars, Sound
  <1> QED
    BY <1>4, <1>5, <1>6, <1>7, <1>8, <1>9, <1>10, <1>11 DEF Next

(* The tables stay sound, and an open transaction is on its way to tables   *)
(* that are: what it may still commit reverses what it should.              *)
THEOREM Soundness == Spec => []Sound
  BY SoundInit, SoundStep, PTL DEF Spec

\* The sums of the properties are those of the proofs.
LEMMA SameSums ==
  /\ \A b : BinEntries(b) = Rows(db.ledger, b)
  /\ \A K : QtyOf(K) = QtyIn(db.ledger, K) /\ ValueOf(K) = ChangeIn(db.ledger, K)
  BY DEF BinEntries, Rows, QtyOf, ValueOf, SumOf, QtyIn, ChangeIn

(* The tables keep their types: a layer is a receipt of its bin with no     *)
(* more left than was received, a ledger row points at an event, and an     *)
(* event reverses an earlier one.                                           *)
THEOREM TypeCorrect == Spec => []TypeOK
  <1>1. Sound => TypeOK
    <2> SUFFICES ASSUME Sound PROVE TypeOK
      OBVIOUS
    <2>1. Shape(db)
      BY DEF Sound, Tables
    <2>2. db.bins \in [Bins -> [qty : Int, value : Int, rate : Int]]
      BY <2>1 DEF Shape, Bin
    <2>3. ASSUME NEW b \in Bins, NEW k \in DOMAIN db.layers[b]
          PROVE  k \in BinEntries(b) /\ db.layers[b][k].left \in 0 .. db.ledger[k].qty
      <3>1. /\ Layered(db.layers[b]) /\ k \in Rows(db.ledger, b)
            /\ db.layers[b][k].left <= db.ledger[k].qty
        BY <2>1, <2>3 DEF Shape, LayersTyped
      <3>2. db.layers[b][k].left \in Nat
        BY <3>1 DEF Layered, Layer
      <3>3. db.ledger[k] \in Entry
        BY <2>1, <3>1 DEF Shape, Rows
      <3>4. db.ledger[k].qty \in Int
        BY <3>3 DEF Entry
      <3> QED
        BY <3>1, <3>2, <3>4, SameSums
    <2>4. /\ \A k \in DOMAIN db.ledger : db.ledger[k].event \in DOMAIN db.events
          /\ \A e \in DOMAIN db.events : db.events[e].reverses \in 1 .. (e - 1) \cup {None}
      BY <2>1 DEF Shape, EventsTyped
    <2> QED
      BY <2>2, <2>3, <2>4 DEF TypeOK
  <1> QED
    BY <1>1, Soundness, PTL

(* The balances can be rebuilt from the immutable ledger, row by row.       *)
THEOREM LedgerIsBalances == Spec => []LedgerRebuildsBalances
  <1>1. Sound => LedgerRebuildsBalances
    BY SameSums DEF Sound, Tables, Rebuilt, LedgerRebuildsBalances
  <1> QED
    BY <1>1, Soundness, PTL

(* The layers of a FIFO bin hold its stock: an issue the balance allows is  *)
(* never short of layers.                                                   *)
THEOREM LayersSuffice == Spec => []LayersCoverStock
  <1>1. Sound => LayersCoverStock
    BY DEF Sound, Tables, Covered, LayersCoverStock
  <1> QED
    BY <1>1, Soundness, PTL

(* Stock that may not be negative is not.                                   *)
THEOREM StockNonNegative == Spec => []NoNegativeStock
  <1>1. Sound => NoNegativeStock
    BY DEF Sound, Tables, NonNegative, NoNegativeStock
  <1> QED
    BY <1>1, Soundness, PTL

(* Issues take the oldest layers first.                                     *)
THEOREM OldestIssuedFirst == Spec => []OldestLayerFirst
  <1>1. Sound => OldestLayerFirst
    <2> SUFFICES ASSUME Sound PROVE OldestLayerFirst
      OBVIOUS
    <2>1. OldestFirst(db)
      BY DEF Sound, Tables
    <2> QED
      BY <2>1, SameSums DEF OldestFirst, OldestLayerFirst, Precedes
  <1> QED
    BY <1>1, Soundness, PTL

(* Issuing a whole moving-average stock at its average leaves a rounding.   *)
THEOREM ResidualRounding == Spec => []ResidualIsRounding
  <1>1. Sound => ResidualIsRounding
    <2> SUFFICES ASSUME Sound PROVE ResidualIsRounding
      OBVIOUS
    <2>1. Residual(db)
      BY DEF Sound, Tables
    <2> QED
      BY <2>1, SameSums
         DEF Residual, Emptied, Rounded, Latest, Before, ResidualIsRounding
  <1> QED
    BY <1>1, Soundness, PTL

(* A reversal puts back, bin by bin, the quantities its original moved,     *)
(* cancels it, and is the only one of it.                                   *)
THEOREM ReversalsBalance == Spec => []ReversalsBalanceQuantity
  <1>1. Sound => ReversalsBalanceQuantity
    <2> SUFFICES ASSUME Sound PROVE ReversalsBalanceQuantity
      OBVIOUS
    <2>1. Reversed(db) /\ Shape(db)
      BY DEF Sound, Tables
    <2>2. db.ledger \in Seq(Entry)
      BY <2>1 DEF Shape
    <2>3. ASSUME NEW r \in DOMAIN db.events, db.events[r].reverses # None, NEW e,
                 e = db.events[r].reverses
          PROVE  /\ db.events[e].state = "Cancelled"
                 /\ \A b \in Bins :
                       QtyOf({k \in Entries(e) \cup Entries(r) : db.ledger[k].bin = b}) = 0
                 /\ \A s \in DOMAIN db.events : db.events[s].reverses = e => s = r
      <3>1. /\ db.events[e].state = "Cancelled" /\ Undone(db.ledger, r, e, <<>>)
            /\ \A s \in DOMAIN db.events : db.events[s].reverses = e => s = r
        BY <2>1, <2>3 DEF Reversed
      <3>2. e # r
        <4>1. e \in 1..(r - 1) /\ r \in Nat
          BY <2>1, <2>3 DEF Shape, EventsTyped
        <4> QED
          BY <4>1
      <3>3. ASSUME NEW b \in Bins
            PROVE  QtyOf({k \in Entries(e) \cup Entries(r) : db.ledger[k].bin = b}) = 0
        <4>1. PICK A, B : A = Own(db.ledger, r, b) /\ B = Own(db.ledger, e, b)
          OBVIOUS
        <4>2. /\ {k \in Entries(e) \cup Entries(r) : db.ledger[k].bin = b} = A \cup B
              /\ A \cap B = {}
          BY <3>2, <4>1 DEF Own, Entries
        <4>3. /\ IsFiniteSet(A) /\ IsFiniteSet(B) /\ A \subseteq DOMAIN db.ledger
              /\ B \subseteq DOMAIN db.ledger
              /\ QtyIn(db.ledger, A) \in Int /\ QtyIn(db.ledger, B) \in Int
          BY <2>2, <4>1, OwnRows
        <4>4. QtyIn(db.ledger, A \cup B) = QtyIn(db.ledger, A) + QtyIn(db.ledger, B)
          <5> DEFINE f == [k \in DOMAIN db.ledger |-> db.ledger[k].qty]
          <5>1. \A k \in A \cup B : f[k] \in Int
            BY <2>2, <4>3, OwnRows
          <5>2. \A K : QtyIn(db.ledger, K) = SumFunctionOnSet(f, K)
            BY DEF QtyIn
          <5> HIDE DEF f
          <5> QED
            BY <4>2, <4>3, <5>1, <5>2, SumUnion
        <4>5. QtyIn(db.ledger, A) + Over(QtyAt(b), <<>>) + QtyIn(db.ledger, B) = 0
          BY <3>1, <4>1 DEF Undone
        <4>6. Over(QtyAt(b), <<>>) = 0
          BY OverEmpty
        <4>7. QtyIn(db.ledger, A) + QtyIn(db.ledger, B) = 0
          <5>1. QtyIn(db.ledger, A) + 0 + QtyIn(db.ledger, B) = 0
            BY <4>5, <4>6
          <5> QED
            BY <4>3, <5>1
        <4>8. QtyIn(db.ledger, A \cup B) = 0
          BY <4>4, <4>7
        <4> QED
          BY <4>2, <4>8, SameSums
      <3> QED
        BY <3>1, <3>3
    <2> QED
      BY <2>3 DEF ReversalsBalanceQuantity
  <1> QED
    BY <1>1, Soundness, PTL

-----------------------------------------------------------------------------
(* The value of a FIFO bin.  A receipt's additional cost enters the value   *)
(* of its bin but not the cost of its layer, so that the two agree only as  *)
(* long as FIFO goods are received without any; no service posts one.       *)

NoLandedCost ==
    \A lines \in LineLists : \A i \in DOMAIN lines :
        Method[lines[i].bin] = "FIFO" => lines[i].extra = 0

\* What is left in the layers, at their costs; what q issued from them costs.
LayerWorth(lay) == SumFunction([k \in DOMAIN lay |-> lay[k].left * lay[k].cost])
LayerCharge(lay, q) == SumFunction([k \in DOMAIN lay |-> Used(lay, k, q) * lay[k].cost])

\* The layers are the stock and the value, up to half a unit for each of n rows.
Backed(bin, lay, n) ==
    /\ Left(lay, DOMAIN lay) = bin.qty
    /\ 2 * (Scale * bin.value - LayerWorth(lay)) <= Scale * n
    /\ -2 * (Scale * bin.value - LayerWorth(lay)) <= Scale * n

Unforced(events) == \A e \in DOMAIN events : ~events[e].forced

Valued(w) ==
    Unforced(w.events) =>
        \A b \in Bins \ AllowNegative : Method[b] = "FIFO" =>
            Backed(w.bins[b], w.layers[b], Cardinality(Rows(w.ledger, b)))

\* The lines of an unforced event carry neither a forced nor a landed cost.
Costless(l) == l.forced = None /\ (Method[l.bin] = "FIFO" => l.extra = 0)
ToValue(t) == Unforced(t.work.events) => \A i \in DOMAIN t.lines : Costless(t.lines[i])

ValuedThroughout == Valued(db) /\ (txn # None => Valued(txn.work) /\ ToValue(txn))

(* One more amount, rounded, on each side.                                  *)
LEMMA GapMoves ==
  ASSUME NEW s \in Nat \ {0}, NEW v \in Int, NEW h \in Int, NEW x \in Int, NEW c \in Int,
         NEW n \in Nat, 2 * (s * v - x) <= s * n, -2 * (s * v - x) <= s * n,
         2 * (c - s * h) <= s, -s <= 2 * (c - s * h)
  PROVE  /\ 2 * (s * (v + h) - (x + c)) <= s * (n + 1)
         /\ -2 * (s * (v + h) - (x + c)) <= s * (n + 1)
         /\ 2 * (s * (v - h) - (x - c)) <= s * (n + 1)
         /\ -2 * (s * (v - h) - (x - c)) <= s * (n + 1)
  <1>1. PICK sv, sh, sn \in Int : sv = s * v /\ sh = s * h /\ sn = s * n
    OBVIOUS
  <1>2. s * (v + h) = sv + sh /\ s * (v - h) = sv - sh /\ s * (n + 1) = sn + s
    BY <1>1
  <1>3. /\ 2 * (sv - x) <= sn /\ -2 * (sv - x) <= sn
        /\ 2 * (c - sh) <= s /\ -s <= 2 * (c - sh)
    BY <1>1
  <1> HIDE <1>1
  <1> QED
    BY <1>2, <1>3

(* The terms of the two sums.                                               *)
LEMMA WorthIs ==
  ASSUME NEW lay, Layered(lay)
  PROVE  /\ LayerWorth(lay) \in Int
         /\ \A k \in DOMAIN lay : lay[k].left \in Nat /\ lay[k].cost \in Int
                                  /\ lay[k].left * lay[k].cost \in Int
         /\ \A q \in Nat : /\ LayerCharge(lay, q) \in Int
                           /\ \A k \in DOMAIN lay : Used(lay, k, q) \in Nat
                                                    /\ Used(lay, k, q) * lay[k].cost \in Int
  <1>1. \A k \in DOMAIN lay : lay[k].left \in Nat /\ lay[k].cost \in Int
    BY DEF Layered, Layer
  <1>2. ASSUME NEW k \in DOMAIN lay PROVE lay[k].left * lay[k].cost \in Int
    <2>1. PICK a, c \in Int : a = lay[k].left /\ c = lay[k].cost
      BY <1>1
    <2>2. a * c \in Int
      OBVIOUS
    <2> QED
      BY <2>1, <2>2
  <1>3. ASSUME NEW q \in Nat, NEW k \in DOMAIN lay
        PROVE  Used(lay, k, q) \in Nat /\ Used(lay, k, q) * lay[k].cost \in Int
    <2>1. Used(lay, k, q) \in Nat
      BY <1>1, UsedIs
    <2>2. PICK u, c \in Int : u = Used(lay, k, q) /\ c = lay[k].cost
      BY <1>1, <2>1
    <2>3. u * c \in Int
      OBVIOUS
    <2> QED
      BY <2>1, <2>2, <2>3
  <1>4. LayerWorth(lay) \in Int
    <2> DEFINE f == [k \in DOMAIN lay |-> lay[k].left * lay[k].cost]
    <2>1. \A k \in DOMAIN lay : f[k] \in Int
      BY <1>2
    <2>2. DOMAIN f = DOMAIN lay
      OBVIOUS
    <2> HIDE DEF f
    <2>3. SumFunctionOnSet(f, DOMAIN f) \in Int
      BY <2>1, <2>2, SumInt DEF Layered
    <2> QED
      BY <2>3 DEF f, LayerWorth, SumFunction
  <1>5. ASSUME NEW q \in Nat PROVE LayerCharge(lay, q) \in Int
    <2> DEFINE f == [k \in DOMAIN lay |-> Used(lay, k, q) * lay[k].cost]
    <2>1. \A k \in DOMAIN lay : f[k] \in Int
      BY <1>3
    <2>2. DOMAIN f = DOMAIN lay
      OBVIOUS
    <2> HIDE DEF f
    <2>3. SumFunctionOnSet(f, DOMAIN f) \in Int
      BY <2>1, <2>2, SumInt DEF Layered
    <2> QED
      BY <2>3 DEF f, LayerCharge, SumFunction
  <1> QED
    BY <1>1, <1>2, <1>3, <1>4, <1>5

\* The layers lay after a receipt are new.
Received(lay, new, id, at, q, cost) ==
    /\ Layered(lay) /\ id \in Nat \ DOMAIN lay /\ at \in Nat /\ q \in Nat /\ cost \in Int
    /\ new = [k \in DOMAIN lay \cup {id} |->
                IF k = id THEN [at |-> at, left |-> q, cost |-> cost] ELSE lay[k]]

(* A receipt adds its quantity at its cost.                                 *)
LEMMA WorthReceived ==
  ASSUME NEW lay, NEW new, NEW id, NEW at, NEW q, NEW cost, Received(lay, new, id, at, q, cost)
  PROVE  LayerWorth(new) = LayerWorth(lay) + q * cost
  <1>0. Layered(lay) /\ id \in Nat \ DOMAIN lay /\ q \in Nat /\ cost \in Int
    BY DEF Received
  <1> DEFINE f == [k \in DOMAIN lay |-> lay[k].left * lay[k].cost]
             g == [k \in DOMAIN new |-> new[k].left * new[k].cost]
  <1>1. /\ DOMAIN new = DOMAIN lay \cup {id} /\ \A k \in DOMAIN lay : new[k] = lay[k]
        /\ new[id].left = q /\ new[id].cost = cost
    BY <1>0 DEF Received
  <1>2. /\ \A k \in DOMAIN lay : f[k] \in Int /\ g[k] = f[k]
        /\ g[id] = q * cost /\ DOMAIN f = DOMAIN lay /\ DOMAIN g = DOMAIN lay \cup {id}
    BY <1>0, <1>1, WorthIs
  <1>3. q * cost \in Int
    <2>1. PICK a, c \in Int : a = q /\ c = cost
      BY <1>0
    <2>2. a * c \in Int
      OBVIOUS
    <2> QED
      BY <2>1, <2>2
  <1>4. LayerWorth(lay) = SumFunctionOnSet(f, DOMAIN f)
        /\ LayerWorth(new) = SumFunctionOnSet(g, DOMAIN g)
    BY DEF LayerWorth, SumFunction
  <1> HIDE DEF f, g
  <1>5. IsFiniteSet(DOMAIN lay) /\ id \notin DOMAIN lay
    BY <1>0 DEF Layered
  <1>6. \A k \in DOMAIN lay \cup {id} : g[k] \in Int
    BY <1>2, <1>3
  <1>7. SumFunctionOnSet(g, DOMAIN lay \cup {id}) = g[id] + SumFunctionOnSet(g, DOMAIN lay)
    BY <1>5, <1>6, SumAdd
  <1>8. SumFunctionOnSet(g, DOMAIN lay) = SumFunctionOnSet(f, DOMAIN lay)
        /\ SumFunctionOnSet(f, DOMAIN lay) \in Int
    BY <1>2, <1>5, SumEqual, SumInt
  <1>9. PICK c \in Int : c = q * cost
    BY <1>3
  <1> QED
    BY <1>2, <1>4, <1>7, <1>8, <1>9

(* An issue the layers suffice for takes its quantity at their costs.       *)
LEMMA WorthIssued ==
  ASSUME NEW lay, Layered(lay), NEW q \in Nat, q <= Left(lay, DOMAIN lay),
         NEW new, new = Consumed(lay, q)
  PROVE  /\ LayerWorth(new) = LayerWorth(lay) - LayerCharge(lay, q)
         /\ Left(new, DOMAIN new) = Left(lay, DOMAIN lay) - q
  <1>1. /\ DOMAIN new = DOMAIN lay /\ Layered(new)
        /\ \A k \in DOMAIN lay : new[k].left = lay[k].left - Used(lay, k, q)
    BY ConsumedLayers DEF Issued
  <1>2. \A k \in DOMAIN lay : new[k].cost = lay[k].cost
    BY DEF Consumed, Layered, Layer
  <1>3. IsFiniteSet(DOMAIN lay)
    BY DEF Layered
  <1>4. LayerWorth(new) = LayerWorth(lay) - LayerCharge(lay, q)
    <2> DEFINE f == [k \in DOMAIN lay |-> lay[k].left * lay[k].cost]
               g == [k \in DOMAIN lay |-> Used(lay, k, q) * lay[k].cost]
               h == [k \in DOMAIN new |-> new[k].left * new[k].cost]
    <2>1. ASSUME NEW k \in DOMAIN lay
          PROVE  f[k] \in Int /\ g[k] \in Int /\ h[k] \in Int /\ f[k] = g[k] + h[k]
      <3>1. PICK a, u, c \in Int : a = lay[k].left /\ u = Used(lay, k, q) /\ c = lay[k].cost
        BY WorthIs
      <3>2. f[k] = a * c /\ g[k] = u * c /\ h[k] = (a - u) * c
        BY <1>1, <1>2, <3>1
      <3>3. a * c = u * c + (a - u) * c /\ a * c \in Int /\ u * c \in Int /\ (a - u) * c \in Int
        OBVIOUS
      <3> QED
        BY <3>2, <3>3
    <2>2. DOMAIN f = DOMAIN lay /\ DOMAIN g = DOMAIN lay /\ DOMAIN h = DOMAIN lay
      BY <1>1
    <2>3. /\ LayerWorth(lay) = SumFunctionOnSet(f, DOMAIN f)
          /\ LayerCharge(lay, q) = SumFunctionOnSet(g, DOMAIN g)
          /\ LayerWorth(new) = SumFunctionOnSet(h, DOMAIN h)
      BY DEF LayerWorth, LayerCharge, SumFunction
    <2> HIDE DEF f, g, h
    <2>4. SumFunctionOnSet(f, DOMAIN lay)
            = SumFunctionOnSet(g, DOMAIN lay) + SumFunctionOnSet(h, DOMAIN lay)
      BY <1>3, <2>1, SumPlus
    <2>5. SumFunctionOnSet(g, DOMAIN lay) \in Int /\ SumFunctionOnSet(h, DOMAIN lay) \in Int
      BY <1>3, <2>1, SumInt
    <2> QED
      BY <2>2, <2>3, <2>4, <2>5
  <1>5. Left(new, DOMAIN new) = Left(lay, DOMAIN lay) - q
    <2> DEFINE f == [k \in DOMAIN lay |-> lay[k].left]
               g == [k \in DOMAIN lay |-> Used(lay, k, q)]
               h == [k \in DOMAIN new |-> new[k].left]
    <2>1. \A k \in DOMAIN lay : f[k] \in Int /\ g[k] \in Int /\ h[k] \in Int /\ f[k] = g[k] + h[k]
      BY <1>1, WorthIs
    <2>2. /\ Left(lay, DOMAIN lay) = SumFunctionOnSet(f, DOMAIN lay)
          /\ Left(new, DOMAIN new) = SumFunctionOnSet(h, DOMAIN lay)
      BY <1>1 DEF Left
    <2>3. SumFunctionOnSet(g, DOMAIN lay) = q
      BY UsedUp
    <2> HIDE DEF f, g, h
    <2>4. SumFunctionOnSet(f, DOMAIN lay)
            = SumFunctionOnSet(g, DOMAIN lay) + SumFunctionOnSet(h, DOMAIN lay)
      BY <1>3, <2>1, SumPlus
    <2>5. SumFunctionOnSet(h, DOMAIN lay) \in Int
      BY <1>3, <2>1, SumInt
    <2> QED
      BY <2>2, <2>3, <2>4, <2>5
  <1> QED
    BY <1>4, <1>5

(* The quantity and the worth of the layers after a receipt.                *)
LEMMA ReceivedWorth ==
  ASSUME NEW lay, NEW new, NEW id, NEW at, NEW q, NEW cost, Received(lay, new, id, at, q, cost)
  PROVE  /\ Left(new, DOMAIN new) = Left(lay, DOMAIN lay) + q
         /\ LayerWorth(new) = LayerWorth(lay) + q * cost /\ LayerWorth(lay) \in Int
  <1>1. /\ Layered(lay) /\ id \in Nat \ DOMAIN lay /\ at \in Nat /\ q \in Nat /\ cost \in Int
    BY DEF Received
  <1>2. PICK N : N = [k \in DOMAIN lay \cup {id} |->
                        IF k = id THEN [at |-> at, left |-> q, cost |-> cost] ELSE lay[k]]
    OBVIOUS
  <1>3. Left(N, DOMAIN N) = Left(lay, DOMAIN lay) + q
    BY <1>1, <1>2, ReceivedLayer
  <1>4. LayerWorth(new) = LayerWorth(lay) + q * cost
    BY WorthReceived
  <1>5. LayerWorth(lay) \in Int
    BY <1>1, WorthIs
  <1>6. N = new
    BY <1>2 DEF Received
  <1> QED
    BY <1>3, <1>4, <1>5, <1>6

(* A receipt keeps the layers worth the stock and the value.                *)
LEMMA BackedByReceipt ==
  ASSUME NEW bin \in Bin, NEW lay, Layered(lay), NEW n \in Nat, Backed(bin, lay, n),
         NEW id \in Nat \ DOMAIN lay, NEW at \in Nat, NEW q \in Nat, NEW cost \in Int, NEW new,
         new = [k \in DOMAIN lay \cup {id} |->
                  IF k = id THEN [at |-> at, left |-> q, cost |-> cost] ELSE lay[k]],
         NEW after, after.qty = bin.qty + q,
         after.value = bin.value + HalfEven(q * cost, Scale)
  PROVE  Backed(after, new, n + 1)
  <1>1. bin.qty \in Int /\ bin.value \in Int
    BY DEF Bin
  <1>10. Received(lay, new, id, at, q, cost)
    BY DEF Received
  <1>2. Left(new, DOMAIN new) = Left(lay, DOMAIN lay) + q
    BY <1>10, ReceivedWorth
  <1>3. LayerWorth(new) = LayerWorth(lay) + q * cost /\ LayerWorth(lay) \in Int
    BY <1>10, ReceivedWorth
  <1>4. PICK c \in Int : c = q * cost
    BY Decimals
  <1>5. PICK h \in Int : /\ h = HalfEven(q * cost, Scale)
                         /\ 2 * (c - Scale * h) <= Scale /\ -Scale <= 2 * (c - Scale * h)
    BY <1>4, HalfEvenBounds, Decimals
  <1>6. PICK x \in Int : x = LayerWorth(lay)
    BY <1>3
  <1>7. /\ 2 * (Scale * bin.value - x) <= Scale * n /\ -2 * (Scale * bin.value - x) <= Scale * n
        /\ Left(lay, DOMAIN lay) = bin.qty
    BY <1>6 DEF Backed
  <1>8. /\ 2 * (Scale * (bin.value + h) - (x + c)) <= Scale * (n + 1)
        /\ -2 * (Scale * (bin.value + h) - (x + c)) <= Scale * (n + 1)
    BY <1>1, <1>5, <1>7, GapMoves, Decimals
  <1>9. after.value = bin.value + h /\ LayerWorth(new) = x + c
    BY <1>3, <1>4, <1>5, <1>6
  <1> QED
    BY <1>2, <1>7, <1>8, <1>9 DEF Backed

(* So does an issue of what is there.                                       *)
LEMMA BackedByIssue ==
  ASSUME NEW bin \in Bin, NEW lay, Layered(lay), NEW n \in Nat, Backed(bin, lay, n),
         NEW q \in Nat, q <= bin.qty, NEW new, new = Consumed(lay, q),
         NEW after, after.qty = bin.qty - q,
         after.value = bin.value - HalfEven(LayerCharge(lay, q), Scale)
  PROVE  Backed(after, new, n + 1)
  <1>1. bin.qty \in Int /\ bin.value \in Int
    BY DEF Bin
  <1>2. PICK x, c \in Int : x = LayerWorth(lay) /\ c = LayerCharge(lay, q)
    BY WorthIs
  <1>3. /\ 2 * (Scale * bin.value - x) <= Scale * n /\ -2 * (Scale * bin.value - x) <= Scale * n
        /\ Left(lay, DOMAIN lay) = bin.qty
    BY <1>2 DEF Backed
  <1>4. LayerWorth(new) = x - c /\ Left(new, DOMAIN new) = Left(lay, DOMAIN lay) - q
    BY <1>2, <1>3, WorthIssued
  <1>5. PICK h \in Int : /\ h = HalfEven(c, Scale)
                         /\ 2 * (c - Scale * h) <= Scale /\ -Scale <= 2 * (c - Scale * h)
    BY HalfEvenBounds, Decimals
  <1>6. /\ 2 * (Scale * (bin.value - h) - (x - c)) <= Scale * (n + 1)
        /\ -2 * (Scale * (bin.value - h) - (x - c)) <= Scale * (n + 1)
    BY <1>1, <1>3, <1>5, GapMoves, Decimals
  <1>7. after.value = bin.value - h
    BY <1>2, <1>5
  <1> QED
    BY <1>3, <1>4, <1>6, <1>7 DEF Backed

\* Line l turns row b and layers lay of its bin into new and moved.
Revalued(b, lay, l, id, at, new, moved) ==
    /\ b \in Bin /\ Layered(lay) /\ l \in WorkLine /\ id \in Nat \ DOMAIN lay /\ at \in Nat
    /\ Accepts(b, lay, l) /\ Costless(l) /\ Method[l.bin] = "FIFO"
    /\ l.bin \in Bins \ AllowNegative
    /\ new = NewBin(b, lay, l) /\ moved = NewLayers(b, lay, l, id, at)

(* A costless line of a FIFO bin is one or the other.                       *)
LEMMA BackedByLine ==
  ASSUME NEW b, NEW lay, NEW l, NEW id, NEW at, NEW new, NEW moved,
         Revalued(b, lay, l, id, at, new, moved), NEW n \in Nat, Backed(b, lay, n)
  PROVE  Backed(new, moved, n + 1)
  <1>1. /\ b \in Bin /\ Layered(lay) /\ l \in WorkLine /\ id \in Nat \ DOMAIN lay /\ at \in Nat
        /\ Accepts(b, lay, l) /\ new = NewBin(b, lay, l) /\ moved = NewLayers(b, lay, l, id, at)
    BY DEF Revalued
  <1>2. /\ l.forced = None /\ l.extra = 0 /\ Method[l.bin] = "FIFO" /\ l.bin \notin AllowNegative
    BY DEF Revalued, Costless
  <1>3. /\ l.qty \in Int \ {0} /\ b.qty \in Int /\ b.value \in Int /\ b.rate \in Int
        /\ l.cost \in Int \cup {None}
    BY <1>1 DEF Bin, WorkLine
  <1>4. b.qty + l.qty >= 0
    BY <1>1, <1>2 DEF Accepts, NewQty
  <1>5. Method[l.bin] # "Standard Cost"
    BY <1>2
  <1>6. CASE l.qty > 0
    <2>1. InRate(l) = l.cost
      BY <1>5 DEF InRate
    <2>2. l.cost \in Int
      BY <1>1, <1>3, <1>6, <2>1 DEF Accepts
    <2>3. InValue(b, l) = b.value + HalfEven(l.qty * l.cost, Scale)
      <3>1. l.qty * l.cost + l.extra * Scale = l.qty * l.cost
        <4>3. Scale \in Int
          BY Decimals
        <4>1. PICK p, c, s \in Int : p = l.qty /\ c = l.cost /\ s = Scale
          BY <1>3, <2>2, <4>3
        <4>2. p * c + 0 * s = p * c
          OBVIOUS
        <4> QED
          BY <1>2, <4>1, <4>2
      <3> QED
        BY <1>5, <2>1, <3>1 DEF InValue
    <2>4. new = [qty |-> NewQty(b, l), value |-> InValue(b, l), rate |-> InAverage(b, l)]
      BY <1>1, <1>6 DEF NewBin
    <2>5. new.qty = b.qty + l.qty /\ new.value = b.value + HalfEven(l.qty * l.cost, Scale)
      BY <2>3, <2>4 DEF NewQty
    <2>6. moved = [k \in DOMAIN lay \cup {id} |->
                     IF k = id THEN [at |-> at, left |-> l.qty, cost |-> l.cost] ELSE lay[k]]
      BY <1>1, <1>2, <1>6, <2>1 DEF NewLayers
    <2>7. l.qty \in Nat
      BY <1>3, <1>6
    <2> QED
      BY <1>1, <2>2, <2>5, <2>6, <2>7, BackedByReceipt
  <1>7. CASE l.qty < 0
    <2>1. PICK q \in Nat \ {0} : q = -l.qty
      BY <1>3, <1>7
    <2>2. q <= b.qty /\ b.qty = Left(lay, DOMAIN lay)
      BY <1>3, <1>4, <2>1 DEF Backed
    <2>3. Short(lay, q) = 0
      BY <1>3, <2>2 DEF Short
    <2>4. FifoValue(lay, q, b.rate) = HalfEven(LayerCharge(lay, q), Scale)
      <3>1. LayerCharge(lay, q) \in Int
        BY <1>1, WorthIs
      <3>2. LayerCharge(lay, q) + 0 * b.rate = LayerCharge(lay, q)
        BY <1>3, <3>1
      <3> QED
        BY <2>3, <3>2 DEF FifoValue, LayerCharge
    <2>5. new = [qty |-> NewQty(b, l), value |-> OutValue(b, lay, l),
                 rate |-> OutAverage(b, lay, l)]
      BY <1>1, <1>3, <1>7 DEF NewBin
    <2>6. OutValue(b, lay, l) = b.value - FifoValue(lay, -l.qty, b.rate)
      BY <1>2 DEF OutValue
    <2>7. new.qty = b.qty - q /\ new.value = b.value - HalfEven(LayerCharge(lay, q), Scale)
      BY <1>3, <2>1, <2>4, <2>5, <2>6 DEF NewQty
    <2>8. moved = Consumed(lay, q)
      BY <1>1, <1>2, <1>3, <1>7, <2>1 DEF NewLayers
    <2> QED
      BY <1>1, <2>1, <2>2, <2>7, <2>8, BackedByIssue
  <1> QED
    BY <1>3, <1>6, <1>7

(* A costless line posted in tables that are valued leaves them so.         *)
LEMMA ValuedKept ==
  ASSUME NEW w, Tables(w), Valued(w), NEW l \in WorkLine, NEW e \in DOMAIN w.events,
         NEW at \in Nat, Accepts(w.bins[l.bin], w.layers[l.bin], l),
         Unforced(w.events) => Costless(l), NEW v, v = PostedLine(w, e, at, l)
  PROVE  Valued(v)
  <1>1. PICK id, b, lay, gained, moved :
           /\ id = Len(w.ledger) + 1 /\ b = w.bins[l.bin] /\ lay = w.layers[l.bin]
           /\ gained = NewBin(b, lay, l) /\ moved = NewLayers(b, lay, l, id, at)
    OBVIOUS
  <1>2. Shape(w) /\ e \in Nat
    BY DEF Tables, Shape, EventsTyped
  <1>3. PICK new, x, after : Posting(w, l, e, at, v, new, x, after)
    BY <1>2, LinePosts
  <1>4. After(w, v, l, new, x, after, id)
    BY <1>1, <1>2, <1>3, PostedTables
  <1>5. v.bins[l.bin] = gained /\ v.layers[l.bin] = moved
    <2>1. /\ v.bins = [w.bins EXCEPT ![l.bin] = gained]
          /\ v.layers = [w.layers EXCEPT ![l.bin] = moved]
      BY <1>1 DEF PostedLine
    <2>2. l.bin \in DOMAIN w.bins /\ l.bin \in DOMAIN w.layers
      BY <1>2 DEF WorkLine, Shape, LayersTyped
    <2> QED
      BY <2>1, <2>2
  <1>6. SUFFICES ASSUME Unforced(v.events), NEW c \in Bins \ AllowNegative, Method[c] = "FIFO"
                 PROVE  Backed(v.bins[c], v.layers[c], Cardinality(Rows(v.ledger, c)))
    BY DEF Valued
  <1>7. Unforced(w.events) /\ Backed(w.bins[c], w.layers[c], Cardinality(Rows(w.ledger, c)))
    BY <1>4, <1>6 DEF After, Valued
  <1>8. CASE c # l.bin
    BY <1>4, <1>7, <1>8 DEF After
  <1>9. CASE c = l.bin
    <2>1. PICK R : R = Rows(w.ledger, c)
      OBVIOUS
    <2>2. /\ Rows(v.ledger, c) = R \cup {id} /\ id \notin R /\ id \in Nat
          /\ R \subseteq DOMAIN w.ledger /\ w.ledger \in Seq(Entry) /\ id \notin DOMAIN w.ledger
      BY <1>4, <1>9, <2>1 DEF After, Rows
    <2>3. IsFiniteSet(R) /\ Cardinality(R) \in Nat
      BY <2>2, SeqDomain, FS_Subset, FS_CardinalityType
    <2>4. Cardinality(R \cup {id}) = Cardinality(R) + 1
      BY <2>2, <2>3, FS_AddElement
    <2>5. Revalued(b, lay, l, id, at, gained, moved)
      <3>1. b \in Bin /\ Layered(lay) /\ DOMAIN lay \subseteq Rows(w.ledger, c)
        BY <1>1, <1>2, <1>9 DEF Shape, LayersTyped
      <3>2. id \in Nat \ DOMAIN lay
        BY <2>1, <2>2, <3>1
      <3> QED
        BY <1>1, <1>6, <1>7, <1>9, <3>1, <3>2 DEF Revalued
    <2>6. Backed(b, lay, Cardinality(R))
      BY <1>1, <1>7, <1>9, <2>1
    <2>7. Backed(gained, moved, Cardinality(R) + 1)
      BY <2>3, <2>5, <2>6, BackedByLine
    <2> QED
      BY <1>5, <1>9, <2>2, <2>4, <2>7
  <1> QED
    BY <1>8, <1>9

(* A new event keeps it: if it is unforced, so are all and its lines.       *)
LEMMA ValuedBegun ==
  ASSUME Tables(db), Valued(db), NEW reverses, NEW at, NEW lines,
         \A i \in DOMAIN lines :
            lines[i].forced = None /\ Method[lines[i].bin] = "FIFO" => lines[i].extra = 0,
         NEW t, t = Begun(reverses, at, lines)
  PROVE  Valued(t.work) /\ ToValue(t)
  <1>1. PICK forced \in BOOLEAN : forced = (\E i \in DOMAIN lines : lines[i].forced # None)
    OBVIOUS
  <1>2. PICK n, new, events : /\ n = Len(db.events) + 1 /\ events = Append(db.events, new)
                              /\ new = [state |-> "Posted", reverses |-> reverses,
                                        forced |-> forced]
    OBVIOUS
  <1>3. t = [event |-> n, at |-> at, lines |-> lines,
             work |-> [bins |-> db.bins, layers |-> db.layers, ledger |-> db.ledger,
                       events |-> events]]
    BY <1>1, <1>2 DEF Begun
  <1>4. /\ t.lines = lines /\ t.work.bins = db.bins /\ t.work.layers = db.layers
        /\ t.work.ledger = db.ledger /\ t.work.events = events
    BY <1>3
  <1>5. db.events \in Seq(Event)
    BY DEF Tables, Shape, EventsTyped
  <1>6. /\ \A k \in DOMAIN db.events : k \in DOMAIN events /\ events[k] = db.events[k]
        /\ n \in DOMAIN events /\ events[n] = new /\ new.forced = forced
    BY <1>2, <1>5
  <1>7. Unforced(events) => Unforced(db.events) /\ ~forced
    BY <1>6 DEF Unforced
  <1>8. Valued(t.work)
    BY <1>4, <1>7 DEF Valued
  <1>9. ToValue(t)
    <2>1. ASSUME Unforced(events), NEW i \in DOMAIN lines PROVE Costless(lines[i])
      BY <1>1, <1>7, <2>1 DEF Costless
    <2> QED
      BY <1>4, <2>1 DEF ToValue
  <1> QED
    BY <1>8, <1>9

(* The state of an event has no bearing on it.                              *)
LEMMA ValuedStamped ==
  ASSUME NEW w, Tables(w), Valued(w), NEW c \in DOMAIN w.events, NEW x \in States,
         NEW v, v = [w EXCEPT !.events[c].state = x]
  PROVE  Valued(v)
  <1>1. /\ w = [bins |-> w.bins, layers |-> w.layers, ledger |-> w.ledger, events |-> w.events]
        /\ w.events \in Seq(Event)
    BY DEF Tables, Shape, EventsTyped
  <1>2. /\ v.bins = w.bins /\ v.layers = w.layers /\ v.ledger = w.ledger
        /\ v.events = [w.events EXCEPT ![c].state = x]
    BY <1>1
  <1>3. \A e \in DOMAIN w.events : e \in DOMAIN v.events /\ v.events[e].forced = w.events[e].forced
    BY <1>1, <1>2 DEF Event
  <1> QED
    BY <1>2, <1>3 DEF Valued, Unforced

(* Every step keeps it.                                                     *)
LEMMA ValuedStep ==
  ASSUME NoLandedCost, Sound, ValuedThroughout, [Next]_vars
  PROVE  ValuedThroughout'
  <1>1. Tables(db) /\ Valued(db) /\ (txn # None => Working(db, txn))
    BY DEF Sound, ValuedThroughout
  <1>2. CASE PostEvent
    <2>1. PICK lines \in LineLists, at \in Dates : txn' = Begun(None, at, lines)
      BY <1>2 DEF PostEvent
    <2>2. \A i \in DOMAIN lines :
             lines[i].forced = None /\ Method[lines[i].bin] = "FIFO" => lines[i].extra = 0
      BY DEF NoLandedCost
    <2>3. Valued(txn'.work) /\ ToValue(txn')
      BY <1>1, <2>1, <2>2, ValuedBegun
    <2> QED
      BY <1>1, <1>2, <2>3 DEF PostEvent, ValuedThroughout
  <1>3. CASE RepostEvent
    BY <1>3 DEF RepostEvent, vars, ValuedThroughout
  <1>4. CASE ReverseEvent
    <2>1. PICK e \in DOMAIN db.events, at \in Dates :
             \E own \in [1..Cardinality(Entries(e)) -> Entries(e)] :
                txn' = Begun(e, at, ReversalLines(own))
      BY <1>4 DEF ReverseEvent
    <2>2. PICK own \in [1..Cardinality(Entries(e)) -> Entries(e)] :
             txn' = Begun(e, at, ReversalLines(own))
      BY <2>1
    <2>3. ASSUME NEW i \in DOMAIN ReversalLines(own)
          PROVE  ReversalLines(own)[i].extra = 0
      BY DEF ReversalLines, Reversal
    <2>4. Valued(txn'.work) /\ ToValue(txn')
      BY <1>1, <2>2, <2>3, ValuedBegun
    <2> QED
      BY <1>1, <1>4, <2>4 DEF ReverseEvent, ValuedThroughout
  <1>5. CASE ReverseOntoPosted
    <2>1. PICK e \in DOMAIN db.events : db' = [db EXCEPT !.events[e].state = "Cancelled"]
      BY <1>5 DEF ReverseOntoPosted
    <2>2. Valued(db')
      BY <1>1, <2>1, ValuedStamped DEF States
    <2> QED
      BY <1>5, <2>2 DEF ReverseOntoPosted, ValuedThroughout
  <1>6. CASE PostLine
    <2>1. PICK l : /\ txn # None /\ txn.lines # <<>> /\ l = Head(txn.lines)
                   /\ Accepts(txn.work.bins[l.bin], txn.work.layers[l.bin], l)
                   /\ txn' = Further(txn) /\ db' = db
      BY <1>6 DEF PostLine, Further
    <2>2. /\ Tables(txn.work) /\ txn.event = Len(db.events) + 1 /\ txn.at \in Nat
          /\ txn.lines \in Seq(WorkLine) /\ Reversing(db, txn)
          /\ Valued(txn.work) /\ ToValue(txn)
      BY <1>1, <2>1 DEF Working, Sound, ValuedThroughout
    <2>3. txn.event \in DOMAIN txn.work.events
      <3>1. PICK new \in Event : txn.work.events = Append(db.events, new)
        BY <2>2 DEF Reversing
      <3>2. db.events \in Seq(Event)
        BY <1>1 DEF Tables, Shape, EventsTyped
      <3> QED
        BY <2>2, <3>1, <3>2
    <2>4. /\ l \in WorkLine /\ l = txn.lines[1] /\ 1 \in DOMAIN txn.lines
          /\ \A i \in DOMAIN Tail(txn.lines) :
                i + 1 \in DOMAIN txn.lines /\ Tail(txn.lines)[i] = txn.lines[i + 1]
      BY <2>1, <2>2
    <2>5. PICK w, e, at, v : /\ w = txn.work /\ e = txn.event /\ at = txn.at
                             /\ v = PostedLine(w, e, at, l)
      OBVIOUS
    <2>6. Unforced(w.events) => Costless(l)
      BY <2>2, <2>4, <2>5 DEF ToValue
    <2>7. Valued(v)
      BY <2>1, <2>2, <2>3, <2>4, <2>5, <2>6, ValuedKept
    <2>8. /\ Further(txn).work = v /\ Further(txn).lines = Tail(txn.lines)
          /\ v.events = txn.work.events
      BY <2>1, <2>5 DEF Further, PostedLine
    <2>9. ToValue(Further(txn))
      BY <2>2, <2>4, <2>8 DEF ToValue
    <2> QED
      BY <1>1, <2>1, <2>7, <2>8, <2>9 DEF ValuedThroughout
  <1>7. CASE Commit
    <2>1. /\ txn # None /\ db' = Final(txn.work, txn.event) /\ txn' = None
      BY <1>7 DEF Commit
    <2>2. Tables(txn.work) /\ Valued(txn.work) /\ Working(db, txn) /\ Reversing(db, txn)
      BY <2>1 DEF Sound, Working, ValuedThroughout
    <2>3. CASE txn.work.events[txn.event].reverses = None
      <3>1. db' = txn.work
        BY <2>1, <2>3 DEF Final
      <3> QED
        BY <2>1, <2>2, <3>1 DEF ValuedThroughout
    <2>4. CASE txn.work.events[txn.event].reverses # None
      <3>1. PICK c : c = txn.work.events[txn.event].reverses
        OBVIOUS
      <3>2. db' = [txn.work EXCEPT !.events[c].state = "Cancelled"]
        BY <2>1, <2>4, <3>1 DEF Final
      <3>3. c \in DOMAIN txn.work.events
        <4>1. PICK new \in Event : /\ txn.work.events = Append(db.events, new)
                                   /\ new.reverses # None => new.reverses \in DOMAIN db.events
          BY <2>2 DEF Reversing
        <4>2. db.events \in Seq(Event) /\ txn.event = Len(db.events) + 1
          BY <1>1, <2>2 DEF Tables, Shape, EventsTyped, Working
        <4>3. txn.work.events[txn.event] = new
          BY <4>1, <4>2
        <4> QED
          BY <2>4, <3>1, <4>1, <4>2, <4>3
      <3>4. Valued(db')
        BY <2>2, <3>2, <3>3, ValuedStamped DEF States
      <3> QED
        BY <2>1, <3>4 DEF ValuedThroughout
    <2> QED
      BY <2>3, <2>4
  <1>8. CASE Rollback
    BY <1>1, <1>8 DEF Rollback, ValuedThroughout
  <1>9. CASE UNCHANGED vars
    BY <1>9 DEF vars, ValuedThroughout
  <1> QED
    BY <1>2, <1>3, <1>4, <1>5, <1>6, <1>7, <1>8, <1>9 DEF Next

(* Where no FIFO receipt carries an additional cost, FIFO bins hold the     *)
(* stock and the value of their layers until an event forces a cost.        *)
THEOREM FifoLayersValue == NoLandedCost => (Spec => []FifoValueIsLayers)
  <1> SUFFICES ASSUME NoLandedCost PROVE Spec => []FifoValueIsLayers
    OBVIOUS
  <1>1. Init => ValuedThroughout
    <2>1. SUFFICES ASSUME Init PROVE ValuedThroughout
      OBVIOUS
    <2>2. /\ txn = None /\ db.ledger = <<>>
          /\ \A b \in Bins : db.bins[b].qty = 0 /\ db.bins[b].value = 0
                             /\ db.layers[b] = NoLayers
      BY <2>1 DEF Init
    <2>3. DOMAIN NoLayers = {} /\ Layered(NoLayers)
      BY FS_EmptySet DEF NoLayers, Layered
    <2>4. Left(NoLayers, DOMAIN NoLayers) = 0
      BY <2>3, LeftIs
    <2>5. LayerWorth(NoLayers) = 0
      <3> DEFINE f == [k \in DOMAIN NoLayers |-> NoLayers[k].left * NoLayers[k].cost]
      <3>1. LayerWorth(NoLayers) = SumFunctionOnSet(f, DOMAIN f) /\ DOMAIN f = {}
        BY <2>3 DEF LayerWorth, SumFunction
      <3> QED
        BY <3>1, SumEmpty
    <2>6. \A b \in Bins : Cardinality(Rows(db.ledger, b)) = 0
      <3>1. \A b \in Bins : Rows(db.ledger, b) = {}
        BY <2>2 DEF Rows
      <3> QED
        BY <3>1, FS_EmptySet
    <2>7. \A b \in Bins : Backed(db.bins[b], db.layers[b], Cardinality(Rows(db.ledger, b)))
      <3>1. PICK s \in Int : s = Scale
        BY Decimals
      <3>2. 2 * (s * 0 - 0) <= s * 0 /\ -2 * (s * 0 - 0) <= s * 0
        OBVIOUS
      <3> QED
        BY <2>2, <2>4, <2>5, <2>6, <3>1, <3>2 DEF Backed
    <2> QED
      BY <2>2, <2>7 DEF ValuedThroughout, Valued
  <1>2. Sound /\ ValuedThroughout /\ [Next]_vars => ValuedThroughout'
    BY ValuedStep
  <1>3. ValuedThroughout => FifoValueIsLayers
    BY SameSums DEF ValuedThroughout, Valued, Unforced, Backed, LayerWorth, FifoValueIsLayers
  <1> QED
    BY <1>1, <1>2, <1>3, Soundness, PTL DEF Spec

=============================================================================
