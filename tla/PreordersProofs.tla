---------------------------- MODULE PreordersProofs ----------------------------
(***************************************************************************)
(* Proofs about Preorders, for any forms, requests of lines, payloads and  *)
(* suppliers, and any number of documents.                                 *)
(*                                                                         *)
(* Sales and purchasing share no document, so the invariant is one for     *)
(* each side, stated of any documents rather than of the variables: an     *)
(* import that makes several documents in one transaction is then several  *)
(* small steps, each of which keeps it.                                    *)
(***************************************************************************)
EXTENDS Preorders, MoneyProofs

-----------------------------------------------------------------------------
(* Sums over the image of a set.                                            *)
LEMMA ImageIsFinite ==
  ASSUME NEW S, IsFiniteSet(S), NEW own
  PROVE  IsFiniteSet({own[x] : x \in S})
  <1> DEFINE Image(T) == {own[x] : x \in T}
             C == {T \in SUBSET S : IsFiniteSet(Image(T))}
  <1>1. {} \in C
    BY FS_EmptySet
  <1>2. ASSUME NEW T \in C, NEW x \in S \ T PROVE T \cup {x} \in C
    <2>1. Image(T \cup {x}) = Image(T) \cup {own[x]}
      OBVIOUS
    <2>2. IsFiniteSet(Image(T) \cup {own[x]})
      BY FS_AddElement
    <2> QED
      BY <2>1, <2>2
  <1>3. S \in C
    <2> HIDE DEF C
    <2>1. C \in SUBSET SUBSET S
      BY DEF C
    <2> QED
      BY <1>1, <1>2, <2>1, FiniteSetInduction
  <1> QED
    BY <1>3

(* Renaming the elements of a set does not change a sum over it.            *)
LEMMA SumRenamed ==
  ASSUME NEW S, IsFiniteSet(S), NEW own, \A x, y \in S : own[x] = own[y] => x = y,
         NEW f, NEW g, \A x \in S : f[x] \in Int /\ g[own[x]] = f[x]
  PROVE  SumFunctionOnSet(g, {own[x] : x \in S}) = SumFunctionOnSet(f, S)
  <1> DEFINE Image(T) == {own[x] : x \in T}
             C == {T \in SUBSET S : SumFunctionOnSet(g, Image(T)) = SumFunctionOnSet(f, T)}
  <1>1. {} \in C
    BY SumEmpty
  <1>2. ASSUME NEW T \in C, NEW x \in S \ T PROVE T \cup {x} \in C
    <2>1. Image(T \cup {x}) = Image(T) \cup {own[x]} /\ own[x] \notin Image(T)
      OBVIOUS
    <2>2. IsFiniteSet(T) /\ IsFiniteSet(Image(T))
      BY FS_Subset, ImageIsFinite
    <2>3. \A y \in T \cup {x} : f[y] \in Int
      OBVIOUS
    <2>4. \A y \in Image(T) \cup {own[x]} : g[y] \in Int
      BY <2>3
    <2>5. SumFunctionOnSet(f, T \cup {x}) = f[x] + SumFunctionOnSet(f, T)
      BY <2>2, <2>3, SumAdd
    <2>6. SumFunctionOnSet(g, Image(T) \cup {own[x]}) = g[own[x]] + SumFunctionOnSet(g, Image(T))
      <3> HIDE DEF Image
      <3> QED
        BY <2>1, <2>2, <2>4, SumAdd
    <2> QED
      BY <2>1, <2>5, <2>6
  <1>3. S \in C
    <2> HIDE DEF C
    <2>1. C \in SUBSET SUBSET S
      BY DEF C
    <2> QED
      BY <1>1, <1>2, <2>1, FiniteSetInduction
  <1> QED
    BY <1>3

-----------------------------------------------------------------------------
(* Replacing an element of a sequence.                                      *)
LEMMA ReplacedIs ==
  ASSUME NEW T, NEW list \in Seq(T), NEW i \in DOMAIN list, NEW v \in T,
         NEW new, new = [list EXCEPT ![i] = v]
  PROVE  /\ new \in Seq(T) /\ DOMAIN new = DOMAIN list /\ new[i] = v
         /\ \A j \in DOMAIN list \ {i} : new[j] = list[j]
  OBVIOUS

(* Appending an element.                                                   *)
LEMMA AppendedIs ==
  ASSUME NEW T, NEW list \in Seq(T), NEW v \in T,
         NEW new, new = Append(list, v), NEW n, n = Len(list) + 1
  PROVE  /\ new \in Seq(T) /\ DOMAIN new = DOMAIN list \cup {n} /\ new[n] = v
         /\ n \notin DOMAIN list /\ \A j \in DOMAIN list : new[j] = list[j]
  OBVIOUS

(* An element appended and then replaced is the other one appended.         *)
LEMMA AppendedChanged ==
  ASSUME NEW T, NEW list \in Seq(T), NEW v \in T, NEW w \in T,
         NEW new, new = Append(list, v), NEW n, n = Len(list) + 1
  PROVE  n \in DOMAIN new /\ new[n] = v /\ [new EXCEPT ![n] = w] = Append(list, w)
  <1>1. PICK rest, other : rest = [new EXCEPT ![n] = w] /\ other = Append(list, w)
    OBVIOUS
  <1>2. /\ new \in Seq(T) /\ DOMAIN new = DOMAIN list \cup {n} /\ new[n] = v
        /\ n \notin DOMAIN list /\ \A j \in DOMAIN list : new[j] = list[j]
    BY AppendedIs
  <1>3. /\ other \in Seq(T) /\ DOMAIN other = DOMAIN list \cup {n} /\ other[n] = w
        /\ \A j \in DOMAIN list : other[j] = list[j]
    BY <1>1, AppendedIs
  <1>4. /\ rest \in Seq(T) /\ DOMAIN rest = DOMAIN new /\ rest[n] = w
        /\ \A j \in DOMAIN new \ {n} : rest[j] = new[j]
    BY <1>1, <1>2, ReplacedIs
  <1>5. rest = other
    BY <1>2, <1>3, <1>4
  <1> QED
    BY <1>1, <1>2, <1>5

-----------------------------------------------------------------------------
(* Orders, and what they draw from a line.                                  *)
Taken == [at : Nat, qty : Nat \ {0}]

\* The order lines drawn from line i, and the quantity they come to.
Places(orders, made) == UNION {{d} \X (DOMAIN orders[d].lines) : d \in made}
Drawing(orders, made, i) == {x \in Places(orders, made) : orders[x[1]].lines[x[2]].at = i}
DrawnQty(orders, made, i) ==
    SumFunction([x \in Drawing(orders, made, i) |-> orders[x[1]].lines[x[2]].qty])

\* Orders are lists of lines taken, the ones made among them.
Listed(orders, made) ==
    /\ IsFiniteSet(made) /\ made \subseteq DOMAIN orders
    /\ \A d \in made : orders[d].lines \in Seq(Taken)

(* A place is an order and one of its lines.                                *)
LEMMA DrawingIs ==
  ASSUME NEW orders, NEW made, Listed(orders, made), NEW i
  PROVE  /\ IsFiniteSet(Drawing(orders, made, i))
         /\ \A x : x \in Drawing(orders, made, i) <=>
               \E d \in made : \E j \in DOMAIN orders[d].lines :
                  x = <<d, j>> /\ orders[d].lines[j].at = i
         /\ \A x \in Drawing(orders, made, i) :
               /\ x = <<x[1], x[2]>> /\ x[1] \in made /\ x[2] \in DOMAIN orders[x[1]].lines
               /\ orders[x[1]].lines[x[2]].at = i
               /\ orders[x[1]].lines[x[2]].qty \in Nat
  <1>1. IsFiniteSet(Places(orders, made))
    <2> DEFINE own == [d \in made |-> {d} \X (DOMAIN orders[d].lines)]
               parts == {own[d] : d \in made}
    <2>1. IsFiniteSet(parts)
      <3>1. IsFiniteSet(made)
        BY DEF Listed
      <3> HIDE DEF own
      <3> QED
        BY <3>1, ImageIsFinite
    <2>2. \A d \in made : IsFiniteSet(own[d])
      <3>1. ASSUME NEW d \in made PROVE IsFiniteSet({d} \X (DOMAIN orders[d].lines))
        <4>1. IsFiniteSet(DOMAIN orders[d].lines) /\ IsFiniteSet({d})
          BY SeqDomain, FS_Singleton DEF Listed
        <4> QED
          BY <4>1, FS_Product
      <3> QED
        BY <3>1
    <2>3. \A T \in parts : IsFiniteSet(T)
      BY <2>2
    <2>4. Places(orders, made) = UNION parts
      BY DEF Places
    <2> HIDE DEF parts
    <2> QED
      BY <2>1, <2>3, <2>4, FS_UNION
  <1>2. IsFiniteSet(Drawing(orders, made, i))
    BY <1>1, FS_Subset DEF Drawing
  <1>3. \A x : x \in Drawing(orders, made, i) <=>
           \E d \in made : \E j \in DOMAIN orders[d].lines :
              x = <<d, j>> /\ orders[d].lines[j].at = i
    BY DEF Drawing, Places
  <1>4. \A d \in made : \A j \in DOMAIN orders[d].lines : orders[d].lines[j].qty \in Nat
    <2>1. ASSUME NEW d \in made, NEW j \in DOMAIN orders[d].lines
          PROVE  orders[d].lines[j].qty \in Nat
      <3>1. orders[d].lines \in Seq(Taken)
        BY DEF Listed
      <3>2. orders[d].lines[j] \in Taken
        BY <3>1
      <3> QED
        BY <3>2 DEF Taken
    <2> QED
      BY <2>1
  <1> QED
    BY <1>2, <1>3, <1>4

(* What is drawn depends on the lines of the orders made only.              *)
LEMMA DrawnSame ==
  ASSUME NEW orders, NEW made, Listed(orders, made), NEW new, NEW i,
         \A d \in made : new[d].lines = orders[d].lines
  PROVE  DrawnQty(new, made, i) = DrawnQty(orders, made, i)
  <1>1. Drawing(new, made, i) = Drawing(orders, made, i)
    BY DEF Drawing, Places
  <1>2. \A x \in Drawing(orders, made, i) :
           new[x[1]].lines[x[2]].qty = orders[x[1]].lines[x[2]].qty
    BY DrawingIs
  <1> QED
    BY <1>1, <1>2 DEF DrawnQty

(* A further order draws what it asks of the line.                          *)
LEMMA DrawnMore ==
  ASSUME NEW orders, NEW made, NEW n, Listed(orders, made \cup {n}), n \notin made, NEW i
  PROVE  DrawnQty(orders, made \cup {n}, i)
           = DrawnQty(orders, made, i) + Asked(orders[n].lines, i)
  <1>1. PICK lines : lines = orders[n].lines
    OBVIOUS
  <1>2. lines \in Seq(Taken) /\ Listed(orders, made)
    <2>1. IsFiniteSet(made)
      BY FS_Subset DEF Listed
    <2> QED
      BY <1>1, <2>1 DEF Listed
  <1> DEFINE Old == Drawing(orders, made, i)
             J == {j \in DOMAIN lines : lines[j].at = i}
             own == [j \in J |-> <<n, j>>]
             New == {own[j] : j \in J}
             All == Drawing(orders, made \cup {n}, i)
             f == [x \in All |-> orders[x[1]].lines[x[2]].qty]
             g == [x \in Old |-> orders[x[1]].lines[x[2]].qty]
             h == [j \in DOMAIN lines |-> IF lines[j].at = i THEN lines[j].qty ELSE 0]
  <1>3. All = Old \cup New /\ Old \cap New = {}
    <2>1. \A x : x \in Old <=> \E d \in made : \E j \in DOMAIN orders[d].lines :
                                  x = <<d, j>> /\ orders[d].lines[j].at = i
      BY <1>2, DrawingIs
    <2>2. \A x : x \in All <=> \E d \in made \cup {n} : \E j \in DOMAIN orders[d].lines :
                                  x = <<d, j>> /\ orders[d].lines[j].at = i
      BY DrawingIs
    <2>3. \A x : x \in New <=> \E j \in DOMAIN lines : x = <<n, j>> /\ lines[j].at = i
      OBVIOUS
    <2> HIDE DEF Old, All, New
    <2>4. All = Old \cup New
      BY <1>1, <2>1, <2>2, <2>3
    <2>5. Old \cap New = {}
      <3>1. ASSUME NEW x \in Old, x \in New PROVE FALSE
        <4>1. PICK d, j : d \in made /\ x = <<d, j>>
          BY <2>1
        <4>2. PICK k : x = <<n, k>>
          BY <2>3, <3>1
        <4> QED
          BY <4>1, <4>2
      <3> QED
        BY <3>1
    <2> QED
      BY <2>4, <2>5
  <1>4. IsFiniteSet(DOMAIN lines) /\ IsFiniteSet(J) /\ IsFiniteSet(New) /\ IsFiniteSet(Old)
    <2>1. IsFiniteSet(DOMAIN lines)
      BY <1>2, SeqDomain
    <2>2. IsFiniteSet(J)
      BY <2>1, FS_Subset
    <2>3. IsFiniteSet(New)
      <3> HIDE DEF J, own
      <3> QED
        BY <2>2, ImageIsFinite
    <2>4. IsFiniteSet(Old)
      BY <1>2, DrawingIs
    <2> QED
      BY <2>1, <2>2, <2>3, <2>4
  <1>5. \A x \in All : f[x] \in Int
    BY DrawingIs
  <1>6. \A j \in DOMAIN lines : h[j] \in Int
    <2>1. \A j \in DOMAIN lines : lines[j] \in Taken
      BY <1>2
    <2>2. \A j \in DOMAIN lines : lines[j].qty \in Int
      BY <2>1 DEF Taken
    <2> QED
      BY <2>2
  <1>7. SumFunctionOnSet(f, All) = SumFunctionOnSet(f, Old) + SumFunctionOnSet(f, New)
    <2> HIDE DEF All, Old, New, f
    <2> QED
      BY <1>3, <1>4, <1>5, SumUnion
  <1>8. SumFunctionOnSet(f, Old) = SumFunctionOnSet(g, Old)
    <2>1. \A x \in Old : g[x] = f[x] /\ f[x] \in Int
      BY <1>3, <1>5
    <2> HIDE DEF Old, f, g
    <2> QED
      BY <1>4, <2>1, SumEqual
  <1>9. SumFunctionOnSet(f, New) = SumFunctionOnSet(h, J)
    <2>1. \A j \in J : own[j] \in All /\ own[j] = <<n, j>>
      BY <1>3
    <2>2. \A j \in J : f[own[j]] = h[j]
      BY <1>1, <2>1
    <2>3. \A j, k \in J : own[j] = own[k] => j = k
      OBVIOUS
    <2>4. \A j \in J : h[j] \in Int
      BY <1>6
    <2> HIDE DEF J, f, h, own
    <2> QED
      BY <1>4, <2>2, <2>3, <2>4, SumRenamed
  <1>10. SumFunctionOnSet(h, J) = SumFunctionOnSet(h, DOMAIN lines)
    <2>1. J \in SUBSET DOMAIN lines /\ \A j \in DOMAIN lines \ J : h[j] = 0
      OBVIOUS
    <2> HIDE DEF J, h
    <2> QED
      BY <1>4, <1>6, <2>1, SumPart
  <1>11. Asked(lines, i) = SumFunctionOnSet(h, DOMAIN lines)
    <2>1. Asked(lines, i) = SeqSum(h)
      BY DEF Asked, SumWhere
    <2>2. h \in Seq(Int) /\ DOMAIN h = DOMAIN lines
      <3>1. PICK m \in Nat : DOMAIN lines = 1..m
        BY <1>2
      <3>2. h \in [1..m -> Int]
        BY <1>6, <3>1
      <3> QED
        BY <3>1, <3>2, FunctionIsSeq
    <2> HIDE DEF h
    <2> QED
      BY <2>1, <2>2, SeqSumIsSum
  <1>12. DrawnQty(orders, made \cup {n}, i) = SumFunctionOnSet(f, All)
         /\ DrawnQty(orders, made, i) = SumFunctionOnSet(g, Old)
    BY DEF DrawnQty, SumFunction
  <1> QED
    BY <1>1, <1>7, <1>8, <1>9, <1>10, <1>11, <1>12

-----------------------------------------------------------------------------
(* Lines that are ordered from.                                             *)
Row == [qty : Nat \ {0}, ordered : Nat]

\* The lines name some of those they are taken from, for no more than these have.
Fits(lines, of) ==
    \A j \in DOMAIN lines : lines[j].at \in DOMAIN of /\ lines[j].qty <= of[lines[j].at].qty

\* Lines and status of a document say what the orders made from it took.
Traced(lines, status, orders, made) ==
    /\ \A i \in DOMAIN lines : lines[i].ordered = DrawnQty(orders, made, i)
    /\ status = "Ordered" <=> OrderStatus(lines) = "Ordered"

(* A new document has nothing ordered, so something left.                   *)
LEMMA UnorderedIs ==
  ASSUME NEW form \in Seq(Nat \ {0}), form # <<>>
  PROVE  /\ Unordered(form) \in Seq(Row) /\ OrderStatus(Unordered(form)) # "Ordered"
         /\ \A i \in DOMAIN Unordered(form) : Unordered(form)[i].ordered = 0
  <1>1. PICK n \in Nat : n = Len(form) /\ DOMAIN form = 1..n /\ 1 \in 1..n
    OBVIOUS
  <1>2. \A i \in 1..n : form[i] \in Nat \ {0}
    BY <1>1
  <1>3. PICK lines : lines = Unordered(form)
    OBVIOUS
  <1>4. /\ DOMAIN lines = 1..n
        /\ \A i \in 1..n : lines[i] = [qty |-> form[i], ordered |-> 0]
        /\ lines = [i \in 1..n |-> [qty |-> form[i], ordered |-> 0]]
    BY <1>1, <1>3 DEF Unordered
  <1>5. lines \in [1..n -> Row]
    BY <1>2, <1>4 DEF Row
  <1>6. lines \in Seq(Row)
    BY <1>5, FunctionIsSeq
  <1>7. OrderStatus(lines) = "Partly Ordered"
    <2>1. lines[1].ordered < lines[1].qty
      BY <1>1, <1>2, <1>4
    <2> QED
      BY <1>1, <1>4, <2>1 DEF OrderStatus
  <1>8. OrderStatus(lines) # "Ordered"
    BY <1>7
  <1>9. \A i \in DOMAIN lines : lines[i].ordered = 0
    BY <1>4
  <1> QED
    BY <1>3, <1>6, <1>8, <1>9

(* An order adds what it takes of each line.                                *)
LEMMA WithOrderedIs ==
  ASSUME NEW lines \in Seq(Row), NEW taken \in Seq(Taken)
  PROVE  LET rest == WithOrdered(lines, taken)
         IN  /\ rest \in Seq(Row) /\ DOMAIN rest = DOMAIN lines
             /\ \A i \in DOMAIN lines : /\ rest[i].qty = lines[i].qty
                                        /\ rest[i].ordered = lines[i].ordered + Asked(taken, i)
  <1>1. PICK n \in Nat : n = Len(lines) /\ DOMAIN lines = 1..n
    OBVIOUS
  <1>2. \A i \in 1..n : lines[i] \in Row /\ lines[i].qty \in Nat \ {0} /\ lines[i].ordered \in Nat
    <2>1. \A i \in 1..n : lines[i] \in Row
      BY <1>1
    <2> QED
      BY <2>1 DEF Row
  <1>3. PICK rest : rest = WithOrdered(lines, taken)
    OBVIOUS
  <1>4. /\ DOMAIN rest = 1..n
        /\ \A i \in 1..n : rest[i] = [lines[i] EXCEPT !.ordered = @ + Asked(taken, i)]
        /\ rest = [i \in 1..n |-> rest[i]]
    BY <1>1, <1>3 DEF WithOrdered
  <1>5. \A i : Asked(taken, i) \in Nat
    <2>1. \A j \in DOMAIN taken : taken[j] \in Taken
      OBVIOUS
    <2>2. \A j \in DOMAIN taken : taken[j].qty \in Nat
      BY <2>1 DEF Taken
    <2> QED
      BY <2>2, AskedNat
  <1>6. ASSUME NEW i \in 1..n
        PROVE  /\ rest[i] \in Row /\ rest[i].qty = lines[i].qty
               /\ rest[i].ordered = lines[i].ordered + Asked(taken, i)
    <2>1. lines[i].ordered + Asked(taken, i) \in Nat
      BY <1>2, <1>5
    <2> QED
      BY <1>2, <1>4, <2>1 DEF Row
  <1>7. rest \in [1..n -> Row]
    BY <1>4, <1>6
  <1>8. rest \in Seq(Row)
    BY <1>7, FunctionIsSeq
  <1> QED
    BY <1>1, <1>3, <1>4, <1>6, <1>8

(* Nothing is drawn from a new document.                                    *)
LEMMA TracedNew ==
  ASSUME NEW form \in Seq(Nat \ {0}), form # <<>>, NEW orders, NEW status, status # "Ordered"
  PROVE  Traced(Unordered(form), status, orders, {})
  <1>1. \A i : DrawnQty(orders, {}, i) = 0
    <2>1. ASSUME NEW i PROVE DrawnQty(orders, {}, i) = 0
      <3> DEFINE f == [x \in Drawing(orders, {}, i) |-> orders[x[1]].lines[x[2]].qty]
      <3>1. DOMAIN f = {}
        BY DEF Drawing, Places
      <3>2. DrawnQty(orders, {}, i) = SumFunctionOnSet(f, DOMAIN f)
        BY DEF DrawnQty, SumFunction
      <3> HIDE DEF f
      <3> QED
        BY <3>1, <3>2, SumEmpty
    <2> QED
      BY <2>1
  <1> QED
    BY <1>1, UnorderedIs DEF Traced

(* Documents that draw nothing more leave a document traced.                *)
LEMMA TracedSame ==
  ASSUME NEW lines, NEW status, NEW orders, NEW made, Traced(lines, status, orders, made),
         Listed(orders, made), NEW new, \A d \in made : new[d].lines = orders[d].lines,
         NEW stamp, stamp = "Ordered" <=> status = "Ordered"
  PROVE  Traced(lines, stamp, new, made)
  <1>1. \A i : DrawnQty(new, made, i) = DrawnQty(orders, made, i)
    BY DrawnSame
  <1> QED
    BY <1>1 DEF Traced

(* Neither does an order made from it and counted.                          *)
LEMMA TracedMore ==
  ASSUME NEW lines \in Seq(Row), NEW status, NEW orders, NEW made,
         Traced(lines, status, orders, made), Listed(orders, made),
         NEW new, \A d \in made : new[d].lines = orders[d].lines,
         NEW n, n \notin made, Listed(new, made \cup {n}),
         NEW rest, rest = WithOrdered(lines, new[n].lines)
  PROVE  Traced(rest, OrderStatus(rest), new, made \cup {n})
  <1>1. new[n].lines \in Seq(Taken)
    BY DEF Listed
  <1>2. \A i : /\ DrawnQty(new, made, i) = DrawnQty(orders, made, i)
               /\ DrawnQty(new, made \cup {n}, i)
                    = DrawnQty(new, made, i) + Asked(new[n].lines, i)
    BY DrawnSame, DrawnMore
  <1>3. /\ DOMAIN rest = DOMAIN lines
        /\ \A i \in DOMAIN lines : rest[i].ordered = lines[i].ordered + Asked(new[n].lines, i)
    BY <1>1, WithOrderedIs
  <1>4. \A i \in DOMAIN rest : rest[i].ordered = DrawnQty(new, made \cup {n}, i)
    <2>1. \A i \in DOMAIN lines : lines[i].ordered = DrawnQty(orders, made, i)
      BY DEF Traced
    <2> QED
      BY <1>2, <1>3, <2>1
  <1> QED
    BY <1>4 DEF Traced

-----------------------------------------------------------------------------
(* Sales: quotations and the orders made from them.                         *)
Quote ==
    [state : {"Draft", "Posted"}, status : {"Open", "Partly Ordered", "Ordered"},
     lines : Seq(Row)]
SalesOrder == [quote : Nat, lines : Seq(Taken)]

MadeFrom(orders, q) == {d \in DOMAIN orders : orders[d].quote = q}

Sales(book, orders) ==
    /\ book \in Seq(Quote) /\ orders \in Seq(SalesOrder)
    /\ \A q \in DOMAIN book :
          /\ book[q].state = "Draft" => book[q].status = "Open"
          /\ Traced(book[q].lines, book[q].status, orders, MadeFrom(orders, q))
    /\ \A d \in DOMAIN orders :
          orders[d].quote \in DOMAIN book /\ Fits(orders[d].lines, book[orders[d].quote].lines)

(* The orders made from a quotation are listed.                             *)
LEMMA SalesListed ==
  ASSUME NEW orders \in Seq(SalesOrder), NEW q
  PROVE  Listed(orders, MadeFrom(orders, q))
  <1>1. IsFiniteSet(MadeFrom(orders, q)) /\ MadeFrom(orders, q) \subseteq DOMAIN orders
    BY SeqDomain, FS_Subset DEF MadeFrom
  <1>2. \A d \in DOMAIN orders : orders[d] \in SalesOrder
    OBVIOUS
  <1>3. \A d \in DOMAIN orders : orders[d].lines \in Seq(Taken)
    BY <1>2 DEF SalesOrder
  <1> QED
    BY <1>1, <1>3 DEF Listed

(* A new quotation.                                                         *)
LEMMA SalesQuoted ==
  ASSUME NEW book, NEW orders, Sales(book, orders), NEW form \in Seq(Nat \ {0}), form # <<>>,
         NEW state \in {"Draft", "Posted"}
  PROVE  Sales(Append(book, NewQuote(form, state)), orders)
  <1>1. PICK x, new, n : x = NewQuote(form, state) /\ new = Append(book, x) /\ n = Len(book) + 1
    OBVIOUS
  <1>2. /\ x = [state |-> state, status |-> "Open", lines |-> Unordered(form)]
        /\ x.state = state /\ x.status = "Open" /\ x.lines = Unordered(form)
    BY <1>1 DEF NewQuote
  <1>3. x \in Quote
    BY <1>2, UnorderedIs DEF Quote
  <1>4. book \in Seq(Quote) /\ orders \in Seq(SalesOrder)
    BY DEF Sales
  <1>5. /\ new \in Seq(Quote) /\ DOMAIN new = DOMAIN book \cup {n} /\ new[n] = x
        /\ \A q \in DOMAIN book : new[q] = book[q]
        /\ n \notin DOMAIN book
    BY <1>1, <1>3, <1>4
  <1>6. MadeFrom(orders, n) = {}
    BY <1>5 DEF MadeFrom, Sales
  <1>7. Traced(x.lines, x.status, orders, {})
    <2>1. x.status # "Ordered"
      BY <1>2
    <2> QED
      BY <1>2, <2>1, TracedNew
  <1>8. \A q \in DOMAIN new : /\ new[q].state = "Draft" => new[q].status = "Open"
                              /\ Traced(new[q].lines, new[q].status, orders, MadeFrom(orders, q))
    BY <1>2, <1>5, <1>6, <1>7 DEF Sales
  <1>9. \A d \in DOMAIN orders : orders[d].quote \in DOMAIN new
                                 /\ Fits(orders[d].lines, new[orders[d].quote].lines)
    BY <1>5 DEF Sales
  <1> QED
    BY <1>1, <1>4, <1>5, <1>8, <1>9 DEF Sales

(* A quotation is posted.                                                   *)
LEMMA SalesPosted ==
  ASSUME NEW book, NEW orders, Sales(book, orders), NEW c \in DOMAIN book
  PROVE  Sales([book EXCEPT ![c].state = "Posted"], orders)
  <1>1. PICK new : new = [book EXCEPT ![c].state = "Posted"]
    OBVIOUS
  <1>2. book \in Seq(Quote) /\ orders \in Seq(SalesOrder)
    BY DEF Sales
  <1>3. /\ DOMAIN new = DOMAIN book /\ \A q \in DOMAIN book \ {c} : new[q] = book[q]
        /\ new[c] = [book[c] EXCEPT !.state = "Posted"]
    BY <1>1
  <1>4. book[c] \in Quote
    BY <1>2
  <1>5. /\ new[c] \in Quote /\ new[c].state = "Posted" /\ new[c].status = book[c].status
        /\ new[c].lines = book[c].lines
    BY <1>3, <1>4 DEF Quote
  <1>6. new \in Seq(Quote)
    BY <1>1, <1>2, <1>5
  <1>7. \A q \in DOMAIN new : /\ new[q].state = "Draft" => new[q].status = "Open"
                              /\ new[q].lines = book[q].lines /\ new[q].status = book[q].status
    BY <1>3, <1>5 DEF Sales
  <1> QED
    BY <1>1, <1>2, <1>3, <1>6, <1>7 DEF Sales

(* An order is made from one and counted in its lines.                      *)
LEMMA SalesConverted ==
  ASSUME NEW book, NEW orders, Sales(book, orders), NEW c \in DOMAIN book,
         book[c].state = "Posted", NEW taken \in Seq(Taken), Fits(taken, book[c].lines),
         NEW rest, rest = WithOrdered(book[c].lines, taken)
  PROVE  Sales([book EXCEPT ![c].lines = rest, ![c].status = OrderStatus(rest)],
               Append(orders, [quote |-> c, lines |-> taken]))
  <1>1. PICK x, more, new, n, status :
           /\ x = [quote |-> c, lines |-> taken] /\ more = Append(orders, x)
           /\ n = Len(orders) + 1 /\ status = OrderStatus(rest)
           /\ new = [book EXCEPT ![c].lines = rest, ![c].status = status]
    OBVIOUS
  <1>2. book \in Seq(Quote) /\ orders \in Seq(SalesOrder)
    BY DEF Sales
  <1>3. book[c] \in Quote /\ book[c].lines \in Seq(Row) /\ c \in Nat
    <2>1. book[c] \in Quote /\ c \in Nat
      BY <1>2
    <2> QED
      BY <2>1 DEF Quote
  <1>4. /\ rest \in Seq(Row) /\ DOMAIN rest = DOMAIN book[c].lines
        /\ \A i \in DOMAIN rest : rest[i].qty = book[c].lines[i].qty
    BY <1>3, WithOrderedIs
  <1>5. status \in {"Partly Ordered", "Ordered"}
    BY <1>1 DEF OrderStatus
  <1>6. /\ DOMAIN new = DOMAIN book /\ \A q \in DOMAIN book \ {c} : new[q] = book[q]
        /\ new[c] = [[book[c] EXCEPT !.lines = rest] EXCEPT !.status = status]
    BY <1>1
  <1>7. /\ new[c] \in Quote /\ new[c].state = "Posted" /\ new[c].status = status
        /\ new[c].lines = rest
    BY <1>3, <1>4, <1>5, <1>6 DEF Quote
  <1>8. new \in Seq(Quote)
    <2>1. PICK m \in Nat : DOMAIN book = 1..m
      BY <1>2
    <2>2. new \in [1..m -> Quote]
      <3>1. \A q \in 1..m : new[q] \in Quote
        BY <1>2, <1>6, <1>7, <2>1
      <3>2. new = [q \in 1..m |-> new[q]]
        BY <1>1, <2>1
      <3> QED
        BY <3>1, <3>2
    <2> QED
      BY <2>2, FunctionIsSeq
  <1>9. /\ more \in Seq(SalesOrder) /\ DOMAIN more = DOMAIN orders \cup {n} /\ more[n] = x
        /\ n \notin DOMAIN orders /\ \A d \in DOMAIN orders : more[d] = orders[d]
        /\ x.quote = c /\ x.lines = taken
    <2>1. x \in SalesOrder
      BY <1>1, <1>3 DEF SalesOrder
    <2> QED
      BY <1>1, <1>2, <2>1
  <1>10. ASSUME NEW q \in DOMAIN book
         PROVE  /\ new[q].state = "Draft" => new[q].status = "Open"
                /\ Traced(new[q].lines, new[q].status, more, MadeFrom(more, q))
    <2>1. PICK made : made = MadeFrom(orders, q)
      OBVIOUS
    <2>2. /\ Traced(book[q].lines, book[q].status, orders, made) /\ Listed(orders, made)
          /\ made \subseteq DOMAIN orders /\ Listed(more, MadeFrom(more, q))
      BY <1>2, <1>9, <2>1, SalesListed DEF Sales, Listed
    <2>3. \A d \in made : more[d].lines = orders[d].lines
      BY <1>9, <2>2
    <2>4. CASE q # c
      <3>1. MadeFrom(more, q) = made
        BY <1>9, <2>1, <2>4 DEF MadeFrom
      <3>2. Traced(book[q].lines, book[q].status, more, made)
        BY <2>2, <2>3, TracedSame
      <3> QED
        BY <1>6, <2>4, <3>1, <3>2 DEF Sales
    <2>5. CASE q = c
      <3>1. MadeFrom(more, q) = made \cup {n} /\ n \notin made
        BY <1>9, <2>1, <2>2, <2>5 DEF MadeFrom
      <3>2. rest = WithOrdered(book[q].lines, more[n].lines)
        BY <1>9, <2>5
      <3>3. Traced(rest, OrderStatus(rest), more, made \cup {n})
        BY <1>3, <2>2, <2>3, <2>5, <3>1, <3>2, TracedMore
      <3>4. new[q].state # "Draft"
        BY <1>7, <2>5
      <3> QED
        BY <1>1, <1>7, <2>5, <3>1, <3>3, <3>4
    <2> QED
      BY <2>4, <2>5
  <1>11. ASSUME NEW d \in DOMAIN more
         PROVE  more[d].quote \in DOMAIN new /\ Fits(more[d].lines, new[more[d].quote].lines)
    <2>1. \A q \in DOMAIN book : /\ DOMAIN new[q].lines = DOMAIN book[q].lines
                                 /\ \A i \in DOMAIN book[q].lines :
                                       new[q].lines[i].qty = book[q].lines[i].qty
      BY <1>4, <1>6, <1>7
    <2>2. more[d].quote \in DOMAIN book /\ Fits(more[d].lines, book[more[d].quote].lines)
      BY <1>9 DEF Sales
    <2> QED
      BY <1>6, <2>1, <2>2 DEF Fits
  <1> QED
    BY <1>1, <1>6, <1>8, <1>9, <1>10, <1>11 DEF Sales

-----------------------------------------------------------------------------
(* Purchasing: requests, requests for quote, quotations and their award.    *)
Request == [status : {"Open", "RFQ Created", "Partly Ordered", "Ordered"}, lines : Seq(Row)]
Rfq ==
    [request : Nat, status : {"Open", "Responses Received", "Awarded"},
     invited : SUBSET Suppliers, responded : SUBSET Suppliers, lines : Seq(Taken)]
Answer == [rfq : Nat, supplier : Suppliers, status : {"Open", "Ordered"}, lines : Seq(Taken)]
PurchaseOrder == [quotation : Nat, lines : Seq(Taken)]

\* The request behind quotation n, the orders made for request r and from quotation n.
Behind(rf, qn, n) == rf[qn[n].rfq].request
Through(rf, qn, po, r) == {d \in DOMAIN po : Behind(rf, qn, po[d].quotation) = r}
Awards(po, n) == {d \in DOMAIN po : po[d].quotation = n}

Typed(rq, rf, qn, po) ==
    rq \in Seq(Request) /\ rf \in Seq(Rfq) /\ qn \in Seq(Answer) /\ po \in Seq(PurchaseOrder)

\* Documents come from others and take lines of theirs.
Asking(rq, rf) ==
    \A f \in DOMAIN rf : /\ rf[f].request \in DOMAIN rq
                         /\ Fits(rf[f].lines, rq[rf[f].request].lines)
Invited(rf) == \A f \in DOMAIN rf : rf[f].responded \subseteq rf[f].invited
Answering(rf, qn) ==
    \A n \in DOMAIN qn : qn[n].rfq \in DOMAIN rf /\ Fits(qn[n].lines, rf[qn[n].rfq].lines)
Ordering(rq, rf, qn, po) ==
    \A d \in DOMAIN po : /\ po[d].quotation \in DOMAIN qn
                         /\ Fits(po[d].lines, rq[Behind(rf, qn, po[d].quotation)].lines)

\* Requests say what the orders took, and an answer becomes one order at most.
Counted(rq, rf, qn, po) ==
    \A r \in DOMAIN rq : Traced(rq[r].lines, rq[r].status, po, Through(rf, qn, po, r))
AwardedOnce(qn, po) ==
    \A n \in DOMAIN qn :
        Cardinality(Awards(po, n)) = IF qn[n].status = "Ordered" THEN 1 ELSE 0

Purchases(rq, rf, qn, po) ==
    /\ Typed(rq, rf, qn, po) /\ Asking(rq, rf) /\ Invited(rf) /\ Answering(rf, qn)
    /\ Ordering(rq, rf, qn, po) /\ Counted(rq, rf, qn, po) /\ AwardedOnce(qn, po)

(* The orders made for a request are listed, and their requests exist.      *)
LEMMA PurchasesListed ==
  ASSUME NEW rq, NEW rf, NEW qn, NEW po, Purchases(rq, rf, qn, po)
  PROVE  /\ \A r : Listed(po, Through(rf, qn, po, r))
         /\ \A d \in DOMAIN po : /\ po[d].quotation \in DOMAIN qn
                                 /\ qn[po[d].quotation].rfq \in DOMAIN rf
                                 /\ Behind(rf, qn, po[d].quotation) \in DOMAIN rq
  <1>1. po \in Seq(PurchaseOrder)
    BY DEF Purchases, Typed
  <1>2. \A d \in DOMAIN po : po[d].lines \in Seq(Taken)
    <2>1. \A d \in DOMAIN po : po[d] \in PurchaseOrder
      BY <1>1
    <2> QED
      BY <2>1 DEF PurchaseOrder
  <1>3. \A r : /\ IsFiniteSet(Through(rf, qn, po, r))
               /\ Through(rf, qn, po, r) \subseteq DOMAIN po
    BY <1>1, SeqDomain, FS_Subset DEF Through
  <1>4. \A r : Listed(po, Through(rf, qn, po, r))
    BY <1>2, <1>3 DEF Listed
  <1>5. \A d \in DOMAIN po : /\ po[d].quotation \in DOMAIN qn
                             /\ qn[po[d].quotation].rfq \in DOMAIN rf
    BY DEF Purchases, Ordering, Answering
  <1>6. \A d \in DOMAIN po : Behind(rf, qn, po[d].quotation) \in DOMAIN rq
    BY <1>5 DEF Purchases, Asking, Behind
  <1> QED
    BY <1>4, <1>5, <1>6

\* Requests grew, keeping the lines that others refer to.
Keeps(new, rq) ==
    \A r \in DOMAIN rq : /\ r \in DOMAIN new /\ DOMAIN new[r].lines = DOMAIN rq[r].lines
                         /\ \A i \in DOMAIN rq[r].lines :
                               new[r].lines[i].qty = rq[r].lines[i].qty

(* What refers to requests still does when they grow.                       *)
LEMMA LinksKept ==
  ASSUME NEW rq, NEW rf, NEW qn, NEW po, Purchases(rq, rf, qn, po), NEW new, Keeps(new, rq)
  PROVE  Asking(new, rf) /\ Ordering(new, rf, qn, po)
  <1>1. ASSUME NEW lines, NEW r \in DOMAIN rq, Fits(lines, rq[r].lines)
        PROVE  r \in DOMAIN new /\ Fits(lines, new[r].lines)
    BY <1>1 DEF Keeps, Fits
  <1>2. Asking(new, rf)
    <2>1. Asking(rq, rf)
      BY DEF Purchases
    <2> QED
      BY <1>1, <2>1 DEF Asking
  <1>3. Ordering(new, rf, qn, po)
    <2>1. Ordering(rq, rf, qn, po)
      BY DEF Purchases
    <2>2. ASSUME NEW d \in DOMAIN po
          PROVE  /\ po[d].quotation \in DOMAIN qn
                 /\ Fits(po[d].lines, new[Behind(rf, qn, po[d].quotation)].lines)
      <3>1. Behind(rf, qn, po[d].quotation) \in DOMAIN rq
        BY PurchasesListed
      <3>2. /\ po[d].quotation \in DOMAIN qn
            /\ Fits(po[d].lines, rq[Behind(rf, qn, po[d].quotation)].lines)
        BY <2>1 DEF Ordering
      <3> QED
        BY <1>1, <3>1, <3>2
    <2> QED
      BY <2>2 DEF Ordering
  <1> QED
    BY <1>2, <1>3

(* A new request.                                                           *)
LEMMA PurchasesRequested ==
  ASSUME NEW rq, NEW rf, NEW qn, NEW po, Purchases(rq, rf, qn, po),
         NEW form \in Seq(Nat \ {0}), form # <<>>
  PROVE  Purchases(Append(rq, NewRequest(form)), rf, qn, po)
  <1>1. PICK x, new, n : x = NewRequest(form) /\ new = Append(rq, x) /\ n = Len(rq) + 1
    OBVIOUS
  <1>2. x = [status |-> "Open", lines |-> Unordered(form)]
        /\ x.status = "Open" /\ x.lines = Unordered(form)
    BY <1>1 DEF NewRequest
  <1>3. x \in Request
    BY <1>2, UnorderedIs DEF Request
  <1>4. rq \in Seq(Request)
    BY DEF Purchases, Typed
  <1>5. /\ new \in Seq(Request) /\ DOMAIN new = DOMAIN rq \cup {n} /\ new[n] = x
        /\ \A r \in DOMAIN rq : new[r] = rq[r]
        /\ n \notin DOMAIN rq
    BY <1>1, <1>3, <1>4
  <1>6. Keeps(new, rq)
    BY <1>5 DEF Keeps
  <1>7. Through(rf, qn, po, n) = {}
    BY <1>5, PurchasesListed DEF Through
  <1>8. Traced(x.lines, x.status, po, {})
    <2>1. x.status # "Ordered"
      BY <1>2
    <2> QED
      BY <1>2, <2>1, TracedNew
  <1>9. Counted(new, rf, qn, po)
    BY <1>5, <1>7, <1>8 DEF Purchases, Counted
  <1>10. Typed(new, rf, qn, po)
    BY <1>5 DEF Purchases, Typed
  <1> QED
    BY <1>1, <1>6, <1>9, <1>10, LinksKept DEF Purchases

\* Requests for quote grew, keeping what others refer to.
Retains(new, rf) ==
    \A f \in DOMAIN rf : /\ f \in DOMAIN new /\ new[f].request = rf[f].request
                         /\ new[f].lines = rf[f].lines

(* What refers to requests for quote still does when they grow.             *)
LEMMA AnswersKept ==
  ASSUME NEW rq, NEW rf, NEW qn, NEW po, Purchases(rq, rf, qn, po), NEW new, Retains(new, rf)
  PROVE  /\ Answering(new, qn)
         /\ \A n \in DOMAIN qn : Behind(new, qn, n) = Behind(rf, qn, n)
         /\ \A r : Through(new, qn, po, r) = Through(rf, qn, po, r)
  <1>1. Answering(new, qn)
    BY DEF Purchases, Answering, Retains
  <1>2. \A n \in DOMAIN qn : Behind(new, qn, n) = Behind(rf, qn, n)
    BY DEF Purchases, Answering, Retains, Behind
  <1>3. \A d \in DOMAIN po : po[d].quotation \in DOMAIN qn
    BY PurchasesListed
  <1>4. \A r : Through(new, qn, po, r) = Through(rf, qn, po, r)
    BY <1>2, <1>3 DEF Through
  <1> QED
    BY <1>1, <1>2, <1>4

(* A request for quote of a request that has something left.                *)
LEMMA PurchasesAsked ==
  ASSUME NEW rq, NEW rf, NEW qn, NEW po, Purchases(rq, rf, qn, po), NEW r \in DOMAIN rq,
         NEW invited \in SUBSET Suppliers, NEW lines \in Seq(Taken), Fits(lines, rq[r].lines),
         OrderStatus(rq[r].lines) # "Ordered"
  PROVE  Purchases([rq EXCEPT ![r].status = "RFQ Created"],
                   Append(rf, NewRfq(r, invited, lines)), qn, po)
  <1>1. PICK x, more, new, n :
           /\ x = NewRfq(r, invited, lines) /\ more = Append(rf, x) /\ n = Len(rf) + 1
           /\ new = [rq EXCEPT ![r].status = "RFQ Created"]
    OBVIOUS
  <1>2. rq \in Seq(Request) /\ rf \in Seq(Rfq) /\ rq[r] \in Request /\ r \in Nat
    <2>1. rq \in Seq(Request) /\ rf \in Seq(Rfq)
      BY DEF Purchases, Typed
    <2> QED
      BY <2>1
  <1>3. /\ x \in Rfq /\ x.request = r /\ x.lines = lines /\ x.responded = {}
    BY <1>1, <1>2 DEF NewRfq, Rfq
  <1>4. /\ more \in Seq(Rfq) /\ DOMAIN more = DOMAIN rf \cup {n} /\ more[n] = x
        /\ \A f \in DOMAIN rf : more[f] = rf[f]
    <2>1. rf \in Seq(Rfq)
      BY <1>2
    <2>2. x \in Rfq
      BY <1>3
    <2>3. more = Append(rf, x) /\ n = Len(rf) + 1
      BY <1>1
    <2> QED
      BY <2>1, <2>2, <2>3, AppendedIs
  <1>5. /\ DOMAIN new = DOMAIN rq /\ \A q \in DOMAIN rq \ {r} : new[q] = rq[q]
        /\ new[r] = [rq[r] EXCEPT !.status = "RFQ Created"]
    BY <1>1, <1>2
  <1>6. /\ new[r] \in Request /\ new[r].status = "RFQ Created" /\ new[r].lines = rq[r].lines
    BY <1>2, <1>5 DEF Request
  <1>7. new \in Seq(Request)
    <2>1. new = [rq EXCEPT ![r] = new[r]]
      BY <1>1, <1>5
    <2>2. new[r] \in Request
      BY <1>6
    <2>3. rq \in Seq(Request)
      BY <1>2
    <2> QED
      BY <2>1, <2>2, <2>3, ReplacedIs
  <1>8. Keeps(new, rq) /\ Retains(more, rf)
    BY <1>4, <1>5, <1>6 DEF Keeps, Retains
  <1>9. Asking(new, more)
    <2>1. Asking(new, rf) /\ Fits(lines, new[r].lines)
      BY <1>6, <1>8, LinksKept
    <2> QED
      BY <1>3, <1>4, <1>5, <2>1 DEF Asking
  <1>10. Invited(more)
    BY <1>3, <1>4 DEF Purchases, Invited
  <1>11. Answering(more, qn) /\ Ordering(new, more, qn, po)
    <2>1. Ordering(new, rf, qn, po)
      BY <1>8, LinksKept
    <2> QED
      BY <1>8, <2>1, AnswersKept DEF Ordering
  <1>12. Counted(new, more, qn, po)
    <2>1. ASSUME NEW q \in DOMAIN rq
          PROVE  Traced(new[q].lines, new[q].status, po, Through(rf, qn, po, q))
      <3>1. Traced(rq[q].lines, rq[q].status, po, Through(rf, qn, po, q))
        BY DEF Purchases, Counted
      <3>2. CASE q # r
        BY <1>5, <3>1, <3>2
      <3>3. CASE q = r
        <4>1. new[q].status # "Ordered" /\ new[q].lines = rq[q].lines
          BY <1>6, <3>3
        <4> QED
          BY <3>1, <3>3, <4>1 DEF Traced
      <3> QED
        BY <3>2, <3>3
    <2>2. \A q : Through(more, qn, po, q) = Through(rf, qn, po, q)
      BY <1>8, AnswersKept
    <2> QED
      BY <1>5, <2>1, <2>2 DEF Counted
  <1>13. Typed(new, more, qn, po)
    BY <1>4, <1>7 DEF Purchases, Typed
  <1> QED
    BY <1>1, <1>9, <1>10, <1>11, <1>12, <1>13 DEF Purchases

(* A quotation of an invited supplier.                                      *)
LEMMA PurchasesAnswered ==
  ASSUME NEW rq, NEW rf, NEW qn, NEW po, Purchases(rq, rf, qn, po), NEW f \in DOMAIN rf,
         NEW supplier \in rf[f].invited, NEW lines \in Seq(Taken), Fits(lines, rf[f].lines)
  PROVE  Purchases(rq, [rf EXCEPT ![f] = Responded(@, supplier)],
                   Append(qn, NewQuotation(f, supplier, lines)), po)
  <1>1. PICK x, more, new, n :
           /\ x = NewQuotation(f, supplier, lines) /\ more = Append(qn, x) /\ n = Len(qn) + 1
           /\ new = [rf EXCEPT ![f] = Responded(@, supplier)]
    OBVIOUS
  <1>2. /\ rf \in Seq(Rfq) /\ qn \in Seq(Answer) /\ po \in Seq(PurchaseOrder)
        /\ rf[f] \in Rfq /\ f \in Nat
    <2>1. rf \in Seq(Rfq) /\ qn \in Seq(Answer) /\ po \in Seq(PurchaseOrder)
      BY DEF Purchases, Typed
    <2> QED
      BY <2>1
  <1>3. supplier \in Suppliers
    BY <1>2 DEF Rfq
  <1>4. x \in Answer /\ x.rfq = f /\ x.lines = lines /\ x.status = "Open"
    BY <1>1, <1>2, <1>3 DEF NewQuotation, Answer
  <1>5. /\ more \in Seq(Answer) /\ DOMAIN more = DOMAIN qn \cup {n} /\ more[n] = x
        /\ \A m \in DOMAIN qn : more[m] = qn[m]
        /\ n \notin DOMAIN qn
    BY <1>1, <1>2, <1>4
  <1>6. /\ DOMAIN new = DOMAIN rf /\ \A g \in DOMAIN rf \ {f} : new[g] = rf[g]
        /\ new[f] = Responded(rf[f], supplier)
    BY <1>1, <1>2
  <1>7. /\ new[f] \in Rfq /\ new[f].request = rf[f].request /\ new[f].lines = rf[f].lines
        /\ new[f].invited = rf[f].invited /\ new[f].responded = rf[f].responded \cup {supplier}
    <2>1. PICK old : old = rf[f]
      OBVIOUS
    <2>2. /\ old \in Rfq
          /\ new[f] = [[old EXCEPT !.status = "Responses Received"]
                            EXCEPT !.responded = old.responded \cup {supplier}]
      BY <1>2, <1>6, <2>1 DEF Responded, Rfq
    <2>3. old.responded \cup {supplier} \in SUBSET Suppliers
      BY <1>3, <2>2 DEF Rfq
    <2> QED
      BY <2>1, <2>2, <2>3 DEF Rfq
  <1>8. new \in Seq(Rfq)
    BY <1>1, <1>2, <1>6, <1>7
  <1>9. Retains(new, rf)
    BY <1>6, <1>7 DEF Retains
  <1>10. Asking(rq, new) /\ Invited(new)
    BY <1>6, <1>7 DEF Purchases, Asking, Invited
  <1>11. Answering(new, more)
    <2>1. Answering(new, qn)
      BY <1>9, AnswersKept
    <2> QED
      BY <1>4, <1>5, <1>6, <1>7, <2>1 DEF Answering
  <1>12. /\ \A d \in DOMAIN po : /\ po[d].quotation \in DOMAIN more
                                 /\ Behind(new, more, po[d].quotation)
                                      = Behind(rf, qn, po[d].quotation)
         /\ \A r : Through(new, more, po, r) = Through(rf, qn, po, r)
    <2>1. \A d \in DOMAIN po : /\ po[d].quotation \in DOMAIN qn
                               /\ Behind(new, qn, po[d].quotation)
                                    = Behind(rf, qn, po[d].quotation)
      BY <1>9, AnswersKept, PurchasesListed
    <2>2. \A m \in DOMAIN qn : m \in DOMAIN more /\ Behind(new, more, m) = Behind(new, qn, m)
      BY <1>5 DEF Behind
    <2>3. \A d \in DOMAIN po : /\ po[d].quotation \in DOMAIN more
                               /\ Behind(new, more, po[d].quotation)
                                    = Behind(rf, qn, po[d].quotation)
      BY <2>1, <2>2
    <2> QED
      BY <2>3 DEF Through
  <1>13. Ordering(rq, new, more, po)
    BY <1>12 DEF Purchases, Ordering
  <1>14. Counted(rq, new, more, po)
    BY <1>12 DEF Purchases, Counted
  <1>15. AwardedOnce(more, po)
    <2>1. Cardinality(Awards(po, n)) = 0
      <3>1. Awards(po, n) = {}
        BY <1>5, PurchasesListed DEF Awards
      <3> QED
        BY <3>1, FS_EmptySet
    <2>2. Cardinality(Awards(po, n)) = IF more[n].status = "Ordered" THEN 1 ELSE 0
      BY <1>4, <1>5, <2>1
    <2> QED
      BY <1>5, <2>2 DEF Purchases, AwardedOnce
  <1>16. Typed(rq, new, more, po)
    BY <1>5, <1>8 DEF Purchases, Typed
  <1> QED
    BY <1>1, <1>10, <1>11, <1>13, <1>14, <1>15, <1>16 DEF Purchases

(* An open quotation becomes an order of its lines.                         *)
LEMMA PurchasesAwarded ==
  ASSUME NEW rq, NEW rf, NEW qn, NEW po, Purchases(rq, rf, qn, po), NEW n \in DOMAIN qn,
         qn[n].status = "Open", NEW f, f = qn[n].rfq, NEW r, r = rf[f].request,
         NEW taken \in Seq(Taken), Fits(taken, rq[r].lines),
         NEW rest, rest = WithOrdered(rq[r].lines, taken)
  PROVE  Purchases([rq EXCEPT ![r] = [status |-> OrderStatus(rest), lines |-> rest]],
                   [rf EXCEPT ![f].status = "Awarded"], [qn EXCEPT ![n].status = "Ordered"],
                   Append(po, [quotation |-> n, lines |-> taken]))
  <1>1. PICK x, more, d, status, rqs, rfs, qns :
           /\ x = [quotation |-> n, lines |-> taken] /\ more = Append(po, x)
           /\ d = Len(po) + 1 /\ status = OrderStatus(rest)
           /\ rqs = [rq EXCEPT ![r] = [status |-> status, lines |-> rest]]
           /\ rfs = [rf EXCEPT ![f].status = "Awarded"]
           /\ qns = [qn EXCEPT ![n].status = "Ordered"]
    OBVIOUS
  <1>2. /\ rq \in Seq(Request) /\ rf \in Seq(Rfq)
        /\ qn \in Seq(Answer) /\ po \in Seq(PurchaseOrder)
    BY DEF Purchases, Typed
  <1>3. f \in DOMAIN rf /\ r \in DOMAIN rq /\ Behind(rf, qn, n) = r
    BY DEF Purchases, Asking, Answering, Behind
  <1>4. rq[r] \in Request /\ rf[f] \in Rfq /\ qn[n] \in Answer /\ n \in Nat
    BY <1>2, <1>3
  <1>5. rq[r].lines \in Seq(Row)
    BY <1>4 DEF Request
  <1>6. /\ rest \in Seq(Row) /\ DOMAIN rest = DOMAIN rq[r].lines
        /\ \A i \in DOMAIN rest : rest[i].qty = rq[r].lines[i].qty
    <2>1. PICK lines : lines = rq[r].lines
      OBVIOUS
    <2>2. lines \in Seq(Row) /\ rest = WithOrdered(lines, taken)
      BY <1>5, <2>1
    <2>3. /\ rest \in Seq(Row) /\ DOMAIN rest = DOMAIN lines
          /\ \A i \in DOMAIN lines : rest[i].qty = lines[i].qty
      BY <2>2, WithOrderedIs
    <2> QED
      BY <2>1, <2>3
  <1>7. status \in {"Partly Ordered", "Ordered"}
    BY <1>1 DEF OrderStatus
  <1>8. /\ DOMAIN rqs = DOMAIN rq /\ \A q \in DOMAIN rq \ {r} : rqs[q] = rq[q]
        /\ rqs[r] = [status |-> status, lines |-> rest]
        /\ rqs[r].status = status /\ rqs[r].lines = rest
    BY <1>1, <1>2, <1>3
  <1>9. rqs[r] \in Request
    BY <1>6, <1>7, <1>8 DEF Request
  <1>10. rqs \in Seq(Request)
    <2>1. rqs = [rq EXCEPT ![r] = rqs[r]]
      BY <1>1, <1>8
    <2> QED
      BY <1>2, <1>3, <1>9, <2>1, ReplacedIs
  <1>11. /\ DOMAIN rfs = DOMAIN rf /\ \A g \in DOMAIN rf \ {f} : rfs[g] = rf[g]
         /\ rfs[f] = [rf[f] EXCEPT !.status = "Awarded"]
    BY <1>1, <1>2, <1>3
  <1>12. /\ rfs[f] \in Rfq /\ rfs[f].request = rf[f].request /\ rfs[f].lines = rf[f].lines
         /\ rfs[f].invited = rf[f].invited /\ rfs[f].responded = rf[f].responded
    BY <1>4, <1>11 DEF Rfq
  <1>13. rfs \in Seq(Rfq)
    <2>1. rfs = [rf EXCEPT ![f] = rfs[f]]
      BY <1>1, <1>11
    <2> QED
      BY <1>2, <1>3, <1>12, <2>1, ReplacedIs
  <1>14. /\ DOMAIN qns = DOMAIN qn /\ \A m \in DOMAIN qn \ {n} : qns[m] = qn[m]
         /\ qns[n] = [qn[n] EXCEPT !.status = "Ordered"]
    BY <1>1, <1>2
  <1>15. /\ qns[n] \in Answer /\ qns[n].rfq = qn[n].rfq /\ qns[n].lines = qn[n].lines
         /\ qns[n].status = "Ordered"
    BY <1>4, <1>14 DEF Answer
  <1>16. qns \in Seq(Answer)
    BY <1>1, <1>2, <1>14, <1>15
  <1>17. /\ more \in Seq(PurchaseOrder) /\ DOMAIN more = DOMAIN po \cup {d} /\ more[d] = x
         /\ d \notin DOMAIN po /\ \A e \in DOMAIN po : more[e] = po[e]
         /\ x.quotation = n /\ x.lines = taken
    <2>1. x \in PurchaseOrder
      BY <1>1, <1>4 DEF PurchaseOrder
    <2> QED
      BY <1>1, <1>2, <2>1
  <1>18. Keeps(rqs, rq) /\ Retains(rfs, rf)
    <2>1. \A q \in DOMAIN rq : /\ DOMAIN rqs[q].lines = DOMAIN rq[q].lines
                               /\ \A i \in DOMAIN rq[q].lines :
                                     rqs[q].lines[i].qty = rq[q].lines[i].qty
      <3>1. ASSUME NEW q \in DOMAIN rq, q # r PROVE rqs[q] = rq[q]
        BY <1>8, <3>1
      <3>2. rqs[r].lines = rest
        BY <1>8
      <3> QED
        BY <1>6, <3>1, <3>2
    <2>2. \A g \in DOMAIN rf : rfs[g].request = rf[g].request /\ rfs[g].lines = rf[g].lines
      BY <1>11, <1>12
    <2> QED
      BY <1>8, <1>11, <2>1, <2>2 DEF Keeps, Retains
  <1>19. \A m \in DOMAIN qn : Behind(rfs, qns, m) = Behind(rf, qn, m)
    <2>1. \A m \in DOMAIN qn : qns[m].rfq = qn[m].rfq
      BY <1>14, <1>15
    <2>2. \A m \in DOMAIN qn : Behind(rfs, qn, m) = Behind(rf, qn, m)
      BY <1>18, AnswersKept
    <2> QED
      BY <2>1, <2>2 DEF Behind
  <1>20. Asking(rqs, rfs) /\ Invited(rfs)
    <2>1. Asking(rqs, rf)
      BY <1>18, LinksKept
    <2>2. \A g \in DOMAIN rf : rfs[g].request = rf[g].request /\ rfs[g].lines = rf[g].lines
      BY <1>18 DEF Retains
    <2>3. Asking(rqs, rfs)
      BY <1>11, <2>1, <2>2 DEF Asking
    <2>4. Invited(rfs)
      BY <1>11, <1>12 DEF Purchases, Invited
    <2> QED
      BY <2>3, <2>4
  <1>21. Answering(rfs, qns)
    <2>1. Answering(rfs, qn)
      BY <1>18, AnswersKept
    <2> QED
      BY <1>14, <1>15, <2>1 DEF Answering
  <1>22. Ordering(rqs, rfs, qns, more)
    <2>1. Ordering(rqs, rf, qn, po)
      BY <1>18, LinksKept
    <2>2. Fits(taken, rqs[r].lines)
      BY <1>3, <1>18 DEF Keeps, Fits
    <2>3. ASSUME NEW e \in DOMAIN po
          PROVE  /\ more[e].quotation \in DOMAIN qns
                 /\ Fits(more[e].lines, rqs[Behind(rfs, qns, more[e].quotation)].lines)
      BY <1>14, <1>17, <1>19, <2>1 DEF Ordering
    <2>4. /\ more[d].quotation \in DOMAIN qns
          /\ Fits(more[d].lines, rqs[Behind(rfs, qns, more[d].quotation)].lines)
      BY <1>3, <1>14, <1>17, <1>19, <2>2
    <2> QED
      BY <1>17, <2>3, <2>4 DEF Ordering
  <1>23. ASSUME NEW q \in DOMAIN rq
         PROVE  Traced(rqs[q].lines, rqs[q].status, more, Through(rfs, qns, more, q))
    <2>1. PICK made : made = Through(rf, qn, po, q)
      OBVIOUS
    <2>2. Traced(rq[q].lines, rq[q].status, po, made) /\ Listed(po, made) /\ made \subseteq DOMAIN po
      BY <2>1, PurchasesListed DEF Purchases, Counted, Listed
    <2>3. \A e \in made : more[e].lines = po[e].lines
      BY <1>17, <2>2
    <2>4. \A e \in DOMAIN po : Behind(rfs, qns, more[e].quotation) = Behind(rf, qn, po[e].quotation)
      BY <1>17, <1>19, PurchasesListed
    <2>5. Behind(rfs, qns, more[d].quotation) = r
      BY <1>3, <1>17, <1>19
    <2>6. CASE q # r
      <3>1. Through(rfs, qns, more, q) = made
        BY <1>17, <2>1, <2>4, <2>5, <2>6 DEF Through
      <3>2. Traced(rq[q].lines, rq[q].status, more, made)
        BY <2>2, <2>3, TracedSame
      <3> QED
        BY <1>8, <2>6, <3>1, <3>2
    <2>7. CASE q = r
      <3>1. Through(rfs, qns, more, q) = made \cup {d} /\ d \notin made
        BY <1>17, <2>1, <2>2, <2>4, <2>5, <2>7 DEF Through
      <3>2. Listed(more, made \cup {d})
        <4>1. IsFiniteSet(made \cup {d})
          BY <2>2, FS_AddElement DEF Listed
        <4>2. more[d].lines \in Seq(Taken) /\ \A e \in made : more[e].lines \in Seq(Taken)
          BY <1>17, <2>2, <2>3 DEF Listed
        <4> QED
          BY <1>17, <2>2, <4>1, <4>2 DEF Listed
      <3>3. rest = WithOrdered(rq[q].lines, more[d].lines)
        BY <1>17, <2>7
      <3>4. Traced(rest, OrderStatus(rest), more, made \cup {d})
        BY <1>5, <2>2, <2>3, <2>7, <3>1, <3>2, <3>3, TracedMore
      <3> QED
        BY <1>1, <1>8, <2>7, <3>1, <3>4
    <2> QED
      BY <2>6, <2>7
  <1>24. Counted(rqs, rfs, qns, more)
    BY <1>8, <1>23 DEF Counted
  <1>25. AwardedOnce(qns, more)
    <2>1. ASSUME NEW m \in DOMAIN qn
          PROVE  Cardinality(Awards(more, m)) = IF qns[m].status = "Ordered" THEN 1 ELSE 0
      <3>1. Cardinality(Awards(po, m)) = IF qn[m].status = "Ordered" THEN 1 ELSE 0
        BY DEF Purchases, AwardedOnce
      <3>2. CASE m # n
        <4>1. Awards(more, m) = Awards(po, m)
          BY <1>17, <3>2 DEF Awards
        <4> QED
          BY <1>14, <3>1, <3>2, <4>1
      <3>3. CASE m = n
        <4>1. Awards(more, m) = Awards(po, m) \cup {d} /\ d \notin Awards(po, m)
          BY <1>17, <3>3 DEF Awards
        <4>2. IsFiniteSet(Awards(po, m))
          BY <1>2, SeqDomain, FS_Subset DEF Awards
        <4>3. Cardinality(Awards(po, m)) = 0
          BY <3>1, <3>3
        <4>4. Cardinality(Awards(more, m)) = 1
          <5>1. Cardinality(Awards(po, m) \cup {d}) = Cardinality(Awards(po, m)) + 1
            BY <4>1, <4>2, FS_AddElement
          <5> QED
            BY <4>1, <4>3, <5>1
        <4> QED
          BY <1>15, <3>3, <4>4
      <3> QED
        BY <3>2, <3>3
    <2> QED
      BY <1>14, <2>1 DEF AwardedOnce
  <1>26. Typed(rqs, rfs, qns, more)
    BY <1>10, <1>13, <1>16, <1>17 DEF Typed
  <1> QED
    BY <1>1, <1>20, <1>21, <1>22, <1>24, <1>25, <1>26 DEF Purchases

-----------------------------------------------------------------------------
(* What callers and imports name.                                           *)
LEMMA AsksAre ==
  ASSUME NEW lines, NEW taken \in AsksOf(lines)
  PROVE  /\ taken \in Seq(Taken) /\ taken # <<>>
         /\ \A j \in DOMAIN taken : /\ taken[j].at \in DOMAIN lines
                                    /\ taken[j].qty \in Nat \ {0}
  <1>1. taken \in Seq(Taken) /\ taken # <<>> /\ \A j \in DOMAIN taken : taken[j].at \in DOMAIN lines
    BY PreorderAssumption DEF AsksOf, Taken
  <1>2. \A j \in DOMAIN taken : taken[j] \in Taken
    BY <1>1
  <1>3. \A j \in DOMAIN taken : taken[j].qty \in Nat \ {0}
    BY <1>2 DEF Taken
  <1> QED
    BY <1>1, <1>3

Entry == [base : Nat, qty : Nat \ {0}]

(* A payload has lines, of positive quantities.                             *)
LEMMA PayloadsAre ==
  ASSUME NEW payload \in Payloads
  PROVE  \E n \in Nat \ {0} : /\ DOMAIN payload = 1..n
                             /\ \A i \in 1..n : payload[i].qty \in Nat \ {0}
  <1>1. payload \in Seq(Entry) /\ payload # <<>>
    BY PreorderAssumption DEF Entry
  <1>2. PICK n \in Nat \ {0} : DOMAIN payload = 1..n
    BY <1>1
  <1>3. \A i \in 1..n : payload[i] \in Entry
    BY <1>1, <1>2
  <1>4. \A i \in 1..n : payload[i].qty \in Nat \ {0}
    BY <1>3 DEF Entry
  <1> QED
    BY <1>2, <1>4

(* So have the forms of new documents, those made of payloads among them.   *)
LEMMA FormsAre ==
  /\ Forms \subseteq Seq(Nat \ {0}) /\ <<>> \notin Forms
  /\ \A payload \in Payloads : Form(payload) \in Seq(Nat \ {0}) /\ Form(payload) # <<>>
  <1>1. ASSUME NEW payload \in Payloads
        PROVE  Form(payload) \in Seq(Nat \ {0}) /\ Form(payload) # <<>>
    <2>1. PICK n \in Nat \ {0} : /\ DOMAIN payload = 1..n
                                /\ \A i \in 1..n : payload[i].qty \in Nat \ {0}
      BY PayloadsAre
    <2>2. Form(payload) \in [1..n -> Nat \ {0}]
      BY <2>1 DEF Form
    <2>3. Form(payload) \in Seq(Nat \ {0}) /\ Len(Form(payload)) = n
      BY <2>2, FunctionIsSeq
    <2> QED
      BY <2>3
  <1> QED
    BY <1>1, PreorderAssumption

(* A payload is cut to the lines it refers to.                              *)
LEMMA CutIs ==
  ASSUME NEW lines, NEW m \in Nat, DOMAIN lines = 1..m,
         \A i \in DOMAIN lines : lines[i].qty \in Nat \ {0},
         NEW payload \in Payloads, Resolved(lines, payload)
  PROVE  Cut(lines, payload) \in Seq(Taken) /\ Cut(lines, payload) # <<>>
         /\ Fits(Cut(lines, payload), lines)
  <1>1. PICK n \in Nat \ {0} : /\ DOMAIN payload = 1..n
                              /\ \A i \in 1..n : payload[i].qty \in Nat \ {0}
    BY PayloadsAre
  <1>2. PICK cut : cut = Cut(lines, payload)
    OBVIOUS
  <1>3. /\ DOMAIN cut = 1..n
        /\ \A i \in 1..n :
              cut[i] = [at |-> Source(lines, payload, i),
                        qty |-> Smaller(payload[i].qty, lines[Source(lines, payload, i)].qty)]
        /\ cut = [i \in 1..n |-> cut[i]]
    BY <1>1, <1>2 DEF Cut
  <1>4. ASSUME NEW i \in 1..n
        PROVE  /\ cut[i] \in Taken /\ cut[i].at \in DOMAIN lines
               /\ cut[i].qty <= lines[cut[i].at].qty
    <2>1. PICK at, a, b : /\ at = Source(lines, payload, i) /\ a = payload[i].qty
                          /\ b = lines[at].qty
      OBVIOUS
    <2>2. at \in DOMAIN lines /\ a \in Nat \ {0} /\ b \in Nat \ {0}
      BY <1>1, <2>1 DEF Resolved
    <2>3. Smaller(a, b) \in Nat \ {0} /\ Smaller(a, b) <= b
      BY <2>2 DEF Smaller
    <2>4. cut[i] = [at |-> at, qty |-> Smaller(a, b)]
      BY <1>3, <2>1
    <2> QED
      BY <2>1, <2>2, <2>3, <2>4 DEF Taken
  <1>5. cut \in [1..n -> Taken]
    BY <1>3, <1>4
  <1>6. cut \in Seq(Taken) /\ Len(cut) = n
    BY <1>5, FunctionIsSeq
  <1>7. Fits(cut, lines)
    BY <1>3, <1>4 DEF Fits
  <1> QED
    BY <1>1, <1>2, <1>6, <1>7

(* Sequences of rows, and of lines taken, have quantities.                  *)
LEMMA LinesAre ==
  ASSUME NEW lines, lines \in Seq(Row) \/ lines \in Seq(Taken)
  PROVE  /\ \E m \in Nat : DOMAIN lines = 1..m
         /\ \A i \in DOMAIN lines : lines[i].qty \in Nat \ {0}
  <1>1. CASE lines \in Seq(Row)
    <2>1. \A i \in DOMAIN lines : lines[i] \in Row
      BY <1>1
    <2>2. \A i \in DOMAIN lines : lines[i].qty \in Nat \ {0}
      BY <2>1 DEF Row
    <2> QED
      BY <1>1, <2>2
  <1>2. CASE lines \in Seq(Taken)
    <2>1. \A i \in DOMAIN lines : lines[i] \in Taken
      BY <1>2
    <2>2. \A i \in DOMAIN lines : lines[i].qty \in Nat \ {0}
      BY <2>1 DEF Taken
    <2> QED
      BY <1>2, <2>2
  <1> QED
    BY <1>1, <1>2

(* A request for quote that is allowed takes of lines that have some left.  *)
LEMMA AllowedLeaves ==
  ASSUME NEW request, request.lines \in Seq(Row), NEW taken \in Seq(Taken), taken # <<>>,
         \A j \in DOMAIN taken : taken[j].at \in DOMAIN request.lines,
         RfqAllowed(request, taken)
  PROVE  Fits(taken, request.lines) /\ OrderStatus(request.lines) # "Ordered"
  <1>1. PICK lines : lines = request.lines
    OBVIOUS
  <1>2. \A i \in DOMAIN lines : lines[i].qty \in Nat \ {0} /\ lines[i].ordered \in Nat
    <2>1. \A i \in DOMAIN lines : lines[i] \in Row
      BY <1>1
    <2> QED
      BY <2>1 DEF Row
  <1>3. \A j \in DOMAIN taken : taken[j].qty \in Nat \ {0}
    BY LinesAre
  <1>4. \A j \in DOMAIN taken :
           /\ taken[j].at \in DOMAIN lines
           /\ taken[j].qty <= lines[taken[j].at].qty - lines[taken[j].at].ordered
    BY <1>1 DEF RfqAllowed
  <1>5. \A j \in DOMAIN taken : /\ taken[j].qty <= lines[taken[j].at].qty
                                /\ lines[taken[j].at].ordered < lines[taken[j].at].qty
    BY <1>2, <1>3, <1>4
  <1>6. Fits(taken, lines)
    BY <1>4, <1>5 DEF Fits
  <1>7. \E i \in DOMAIN lines : lines[i].ordered < lines[i].qty
    <2>1. 1 \in DOMAIN taken
      OBVIOUS
    <2> QED
      BY <1>4, <1>5, <2>1
  <1>8. OrderStatus(lines) = "Partly Ordered"
    BY <1>7 DEF OrderStatus
  <1>9. OrderStatus(lines) # "Ordered"
    BY <1>8
  <1> QED
    BY <1>1, <1>6, <1>9

-----------------------------------------------------------------------------
(* The invariant, and the sales steps.                                      *)
Selling == Sales(quotes, salesOrders)
Buying == Purchases(requests, rfqs, quotations, purchaseOrders)
Sound == Selling /\ Buying

(* A conversion checks every line it takes.                                 *)
LEMMA ConvertSelling ==
  ASSUME Selling, NEW q \in DOMAIN quotes, ConvertSalesQuote(q)
  PROVE  Selling'
  <1>1. PICK taken \in AsksOf(quotes[q].lines) :
           /\ \A i \in DOMAIN taken :
                 quotes[q].lines[taken[i].at].ordered + taken[i].qty
                    <= quotes[q].lines[taken[i].at].qty
           /\ salesOrders' = Append(salesOrders, [quote |-> q, lines |-> taken])
           /\ quotes' = [quotes EXCEPT
                            ![q].lines = WithOrdered(quotes[q].lines, taken),
                            ![q].status = OrderStatus(WithOrdered(quotes[q].lines, taken))]
    BY DEF ConvertSalesQuote
  <1>2. PICK lines, rest : lines = quotes[q].lines /\ rest = WithOrdered(lines, taken)
    OBVIOUS
  <1>3. taken \in Seq(Taken) /\ \A i \in DOMAIN taken : /\ taken[i].at \in DOMAIN lines
                                                        /\ taken[i].qty \in Nat \ {0}
    BY <1>2, AsksAre
  <1>4. quotes[q] \in Quote
    BY DEF Selling, Sales
  <1>5. lines \in Seq(Row)
    BY <1>2, <1>4 DEF Quote
  <1>6. \A i \in DOMAIN lines : lines[i].qty \in Nat /\ lines[i].ordered \in Nat
    <2>1. \A i \in DOMAIN lines : lines[i] \in Row
      BY <1>5
    <2> QED
      BY <2>1 DEF Row
  <1>7. Fits(taken, lines)
    <2>1. \A i \in DOMAIN taken : lines[taken[i].at].ordered + taken[i].qty <= lines[taken[i].at].qty
      BY <1>1, <1>2
    <2>2. \A i \in DOMAIN taken : taken[i].qty <= lines[taken[i].at].qty
      BY <1>3, <1>6, <2>1
    <2> QED
      BY <1>3, <2>2 DEF Fits
  <1>8. quotes[q].state = "Posted"
    BY DEF ConvertSalesQuote, Convertible
  <1>9. Sales([quotes EXCEPT ![q].lines = rest, ![q].status = OrderStatus(rest)],
              Append(salesOrders, [quote |-> q, lines |-> taken]))
    BY <1>2, <1>3, <1>7, <1>8, SalesConverted DEF Selling
  <1> QED
    BY <1>1, <1>2, <1>9 DEF Selling

(* Every step keeps the sales side.                                         *)
LEMMA StepSelling ==
  ASSUME Selling, [Next]_vars
  PROVE  Selling'
  <1>1. CASE CreateSalesQuote
    <2>1. PICK form \in Forms : quotes' = Append(quotes, NewQuote(form, "Draft"))
      BY <1>1 DEF CreateSalesQuote
    <2>2. form \in Seq(Nat \ {0}) /\ form # <<>>
      BY FormsAre
    <2>3. Sales(quotes', salesOrders)
      BY <2>1, <2>2, SalesQuoted DEF Selling
    <2> QED
      BY <1>1, <2>3 DEF CreateSalesQuote, Selling
  <1>2. CASE ImportSalesQuote
    <2>1. PICK payload \in Payloads : quotes' = Append(quotes, NewQuote(Form(payload), "Posted"))
      BY <1>2 DEF ImportSalesQuote
    <2>2. Form(payload) \in Seq(Nat \ {0}) /\ Form(payload) # <<>>
      BY FormsAre
    <2>3. Sales(quotes', salesOrders)
      BY <2>1, <2>2, SalesQuoted DEF Selling
    <2> QED
      BY <1>2, <2>3 DEF ImportSalesQuote, Selling
  <1>3. ASSUME NEW q \in DOMAIN quotes, PostSalesQuote(q) PROVE Selling'
    BY <1>3, SalesPosted DEF PostSalesQuote, Selling
  <1>4. ASSUME NEW q \in DOMAIN quotes, ConvertSalesQuote(q) PROVE Selling'
    BY <1>4, ConvertSelling
  <1>5. CASE UNCHANGED <<quotes, salesOrders>>
    BY <1>5 DEF Selling
  <1> QED
    BY <1>1, <1>2, <1>3, <1>4, <1>5
       DEF Next, vars, CreatePurchaseRequest, ImportPurchaseRequest, ImportRfq, CreateRfq,
           RecordSupplierQuote, ImportSupplierQuote, ImportUnaskedQuote, AwardSupplierQuote

-----------------------------------------------------------------------------
(* The purchasing steps.                                                    *)
(* Requests and requests for quote have lines.                              *)
LEMMA BuyingLines ==
  ASSUME NEW rq, NEW rf, NEW qn, NEW po, Purchases(rq, rf, qn, po)
  PROVE  /\ \A r \in DOMAIN rq : rq[r].lines \in Seq(Row)
         /\ \A f \in DOMAIN rf : rf[f].lines \in Seq(Taken) /\ rf[f].invited \subseteq Suppliers
         /\ \A n \in DOMAIN qn : qn[n].lines \in Seq(Taken)
  <1>1. \A r \in DOMAIN rq : rq[r] \in Request
    BY DEF Purchases, Typed
  <1>2. \A f \in DOMAIN rf : rf[f] \in Rfq
    BY DEF Purchases, Typed
  <1>3. \A n \in DOMAIN qn : qn[n] \in Answer
    BY DEF Purchases, Typed
  <1>4. \A r \in DOMAIN rq : rq[r].lines \in Seq(Row)
    BY <1>1 DEF Request
  <1>5. \A f \in DOMAIN rf : rf[f].lines \in Seq(Taken) /\ rf[f].invited \subseteq Suppliers
    BY <1>2 DEF Rfq
  <1>6. \A n \in DOMAIN qn : qn[n].lines \in Seq(Taken)
    BY <1>3 DEF Answer
  <1> QED
    BY <1>4, <1>5, <1>6

(* A request for quote is made by hand.                                     *)
LEMMA CreateRfqBuying ==
  ASSUME Buying, NEW r \in DOMAIN requests, CreateRfq(r)
  PROVE  Buying'
  <1>1. PICK invited \in SUBSET Suppliers \ {{}}, lines \in AsksOf(requests[r].lines) :
           /\ RfqAllowed(requests[r], lines)
           /\ rfqs' = Append(rfqs, NewRfq(r, invited, lines))
    BY DEF CreateRfq
  <1>2. /\ lines \in Seq(Taken) /\ lines # <<>>
        /\ \A j \in DOMAIN lines : lines[j].at \in DOMAIN requests[r].lines
    BY AsksAre
  <1>3. requests[r].lines \in Seq(Row)
    BY BuyingLines DEF Buying
  <1>4. Fits(lines, requests[r].lines) /\ OrderStatus(requests[r].lines) # "Ordered"
    BY <1>1, <1>2, <1>3, AllowedLeaves
  <1>5. Purchases([requests EXCEPT ![r].status = "RFQ Created"],
                  Append(rfqs, NewRfq(r, invited, lines)), quotations, purchaseOrders)
    BY <1>2, <1>4, PurchasesAsked DEF Buying
  <1> QED
    BY <1>1, <1>5 DEF CreateRfq, Buying

(* So it is by an import, which may have to make the request first.         *)
LEMMA ImportedBuying ==
  ASSUME Buying, NEW payload \in Payloads, NEW r \in 1..(Len(requests) + 1),
         NEW invited \in SUBSET Suppliers, NEW book, ImportedRfq(r, payload, invited, book),
         NEW lines, lines = Cut(book[r].lines, payload)
  PROVE  /\ Purchases(requests', Append(rfqs, NewRfq(r, invited, lines)),
                      quotations, purchaseOrders)
         /\ lines \in Seq(Taken)
  <1>1. Purchases(book, rfqs, quotations, purchaseOrders) /\ r \in DOMAIN book
    <2>1. requests \in Seq(Request)
      BY DEF Buying, Purchases, Typed
    <2>2. book = RequestsFor(r, payload)
      BY DEF ImportedRfq
    <2>3. CASE r \in DOMAIN requests
      BY <2>2, <2>3 DEF RequestsFor, Buying
    <2>4. CASE r \notin DOMAIN requests
      <3>1. book = Append(requests, NewRequest(Form(payload)))
        BY <2>2, <2>4 DEF RequestsFor
      <3>2. Purchases(book, rfqs, quotations, purchaseOrders)
        BY <3>1, FormsAre, PurchasesRequested DEF Buying
      <3>3. r = Len(requests) + 1
        BY <2>1, <2>4
      <3>4. book \in Seq(Request) /\ Len(book) = Len(requests) + 1
        <4>1. book \in Seq(Request)
          BY <3>2 DEF Purchases, Typed
        <4> QED
          BY <2>1, <3>1, <4>1
      <3> QED
        BY <2>1, <3>2, <3>3, <3>4
    <2> QED
      BY <2>3, <2>4
  <1>2. book[r].lines \in Seq(Row)
    BY <1>1, BuyingLines
  <1>3. Resolved(book[r].lines, payload) /\ RfqAllowed(book[r], lines)
        /\ requests' = [book EXCEPT ![r].status = "RFQ Created"]
    BY DEF ImportedRfq
  <1>4. lines \in Seq(Taken) /\ lines # <<>> /\ Fits(lines, book[r].lines)
    BY <1>2, <1>3, CutIs, LinesAre
  <1>5. \A j \in DOMAIN lines : lines[j].at \in DOMAIN book[r].lines
    BY <1>4 DEF Fits
  <1>6. OrderStatus(book[r].lines) # "Ordered"
    BY <1>2, <1>3, <1>4, <1>5, AllowedLeaves
  <1>7. Purchases([book EXCEPT ![r].status = "RFQ Created"],
                  Append(rfqs, NewRfq(r, invited, lines)), quotations, purchaseOrders)
    BY <1>1, <1>4, <1>6, PurchasesAsked
  <1> QED
    BY <1>3, <1>4, <1>7

(* An import of a request for quote.                                        *)
LEMMA ImportRfqBuying ==
  ASSUME Buying, ImportRfq
  PROVE  Buying'
  <1>1. PICK payload, r, invited, book :
           /\ payload \in Payloads /\ r \in 1..(Len(requests) + 1)
           /\ invited \in SUBSET Suppliers
           /\ ImportedRfq(r, payload, invited, book)
           /\ rfqs' = Append(rfqs, NewRfq(r, invited, Cut(book[r].lines, payload)))
    BY DEF ImportRfq
  <1>2. PICK lines : lines = Cut(book[r].lines, payload)
    OBVIOUS
  <1>3. Purchases(requests', Append(rfqs, NewRfq(r, invited, lines)), quotations, purchaseOrders)
    BY <1>1, <1>2, ImportedBuying
  <1>4. UNCHANGED <<quotations, purchaseOrders>>
    BY DEF ImportRfq
  <1> QED
    BY <1>1, <1>2, <1>3, <1>4 DEF Buying

(* A supplier quotation recorded by hand.                                   *)
LEMMA RecordBuying ==
  ASSUME Buying, NEW f \in DOMAIN rfqs, NEW s \in Suppliers, RecordSupplierQuote(f, s)
  PROVE  Buying'
  <1>1. PICK lines \in AsksOf(rfqs[f].lines) :
           /\ QuotationAllowed(rfqs[f], s, lines)
           /\ quotations' = Append(quotations, NewQuotation(f, s, lines))
    BY DEF RecordSupplierQuote
  <1>2. /\ lines \in Seq(Taken)
        /\ \A j \in DOMAIN lines : lines[j].at \in DOMAIN rfqs[f].lines
    BY AsksAre
  <1>3. Fits(lines, rfqs[f].lines) /\ s \in rfqs[f].invited
    BY <1>1, <1>2 DEF QuotationAllowed, Fits
  <1>4. Purchases(requests, [rfqs EXCEPT ![f] = Responded(@, s)],
                  Append(quotations, NewQuotation(f, s, lines)), purchaseOrders)
    BY <1>2, <1>3, PurchasesAnswered DEF Buying
  <1> QED
    BY <1>1, <1>4 DEF RecordSupplierQuote, Buying

(* A supplier quotation imported for a request for quote its lines name.    *)
LEMMA ImportQuoteBuying ==
  ASSUME Buying, NEW f \in DOMAIN rfqs, NEW s \in Suppliers, ImportSupplierQuote(f, s)
  PROVE  Buying'
  <1>1. PICK payload, lines :
           /\ payload \in Payloads
           /\ lines = Cut(rfqs[f].lines, payload) /\ Resolved(rfqs[f].lines, payload)
           /\ QuotationAllowed(rfqs[f], s, lines)
           /\ quotations' = Append(quotations, NewQuotation(f, s, lines))
    BY DEF ImportSupplierQuote
  <1>2. rfqs[f].lines \in Seq(Taken)
    BY BuyingLines DEF Buying
  <1>3. lines \in Seq(Taken) /\ Fits(lines, rfqs[f].lines)
    BY <1>1, <1>2, CutIs, LinesAre
  <1>4. s \in rfqs[f].invited
    BY <1>1 DEF QuotationAllowed
  <1>5. Purchases(requests, [rfqs EXCEPT ![f] = Responded(@, s)],
                  Append(quotations, NewQuotation(f, s, lines)), purchaseOrders)
    BY <1>3, <1>4, PurchasesAnswered DEF Buying
  <1> QED
    BY <1>1, <1>5 DEF ImportSupplierQuote, Buying

(* One imported unasked, with its request for quote made on the way.        *)
LEMMA UnaskedBuying ==
  ASSUME Buying, NEW s \in Suppliers, ImportUnaskedQuote(s)
  PROVE  Buying'
  <1>1. PICK payload, r, book, rfq :
           /\ payload \in Payloads /\ r \in 1..(Len(requests) + 1)
           /\ rfq = NewRfq(r, {s}, Cut(book[r].lines, payload))
           /\ ImportedRfq(r, payload, {s}, book)
           /\ Resolved(rfq.lines, payload)
           /\ rfqs' = Append(rfqs, Responded(rfq, s))
           /\ quotations' = Append(quotations,
                  NewQuotation(Len(rfqs) + 1, s, Cut(rfq.lines, payload)))
    BY DEF ImportUnaskedQuote
  <1>2. PICK lines, asked, f, new, cut :
           /\ lines = Cut(book[r].lines, payload) /\ asked = Append(rfqs, rfq)
           /\ f = Len(rfqs) + 1 /\ cut = Cut(rfq.lines, payload)
           /\ new = [asked EXCEPT ![f] = Responded(@, s)]
    OBVIOUS
  <1>3. Purchases(requests', asked, quotations, purchaseOrders) /\ lines \in Seq(Taken)
    <2>1. {s} \in SUBSET Suppliers
      OBVIOUS
    <2> QED
      BY <1>1, <1>2, <2>1, ImportedBuying
  <1>4. rfq.lines = lines /\ rfq.invited = {s}
    BY <1>1, <1>2 DEF NewRfq
  <1>5. asked[f] = rfq /\ f \in DOMAIN asked /\ new = Append(rfqs, Responded(rfq, s))
    <2>1. rfqs \in Seq(Rfq) /\ r \in Nat
      <3>1. rfqs \in Seq(Rfq) /\ requests \in Seq(Request)
        BY DEF Buying, Purchases, Typed
      <3>2. r \in 1..(Len(requests) + 1)
        BY <1>1
      <3>3. Len(requests) \in Nat
        BY <3>1
      <3> QED
        BY <3>1, <3>2, <3>3
    <2>2. rfq \in Rfq
      BY <1>1, <1>2, <1>3, <2>1 DEF NewRfq, Rfq
    <2>3. PICK answered : answered = Responded(rfq, s)
      OBVIOUS
    <2>4. answered \in Rfq
      <3>1. answered = [[rfq EXCEPT !.status = "Responses Received"]
                            EXCEPT !.responded = rfq.responded \cup {s}]
        BY <2>2, <2>3 DEF Responded, Rfq
      <3>2. rfq.responded \cup {s} \in SUBSET Suppliers
        BY <2>2 DEF Rfq
      <3> QED
        BY <2>2, <3>1, <3>2 DEF Rfq
    <2>5. /\ f \in DOMAIN asked /\ asked[f] = rfq
          /\ [asked EXCEPT ![f] = answered] = Append(rfqs, answered)
      <3>1. asked = Append(rfqs, rfq) /\ f = Len(rfqs) + 1
        BY <1>2
      <3> QED
        BY <2>1, <2>2, <2>4, <3>1, AppendedChanged
    <2>6. new = [asked EXCEPT ![f] = answered]
      BY <1>2, <2>3, <2>5
    <2> QED
      BY <2>3, <2>5, <2>6
  <1>6. cut \in Seq(Taken) /\ Fits(cut, asked[f].lines)
    <2>1. cut = Cut(lines, payload) /\ Resolved(lines, payload)
      BY <1>1, <1>2, <1>4
    <2>2. payload \in Payloads
      BY <1>1
    <2>3. cut \in Seq(Taken) /\ Fits(cut, lines)
      BY <1>3, <2>1, <2>2, CutIs, LinesAre
    <2> QED
      BY <1>4, <1>5, <2>3
  <1>7. s \in asked[f].invited
    BY <1>4, <1>5
  <1>8. Purchases(requests', new, Append(quotations, NewQuotation(f, s, cut)), purchaseOrders)
    <2>1. Purchases(requests', [asked EXCEPT ![f] = Responded(@, s)],
                    Append(quotations, NewQuotation(f, s, cut)), purchaseOrders)
      BY <1>3, <1>5, <1>6, <1>7, PurchasesAnswered
    <2> QED
      BY <1>2, <2>1
  <1>9. rfqs' = new /\ quotations' = Append(quotations, NewQuotation(f, s, cut))
        /\ UNCHANGED purchaseOrders
    BY <1>1, <1>2, <1>5 DEF ImportUnaskedQuote
  <1> QED
    BY <1>8, <1>9 DEF Buying

(* An award takes no more than the quotation, so no more than the request.  *)
LEMMA AwardBuying ==
  ASSUME Buying, NEW n \in DOMAIN quotations, AwardSupplierQuote(n)
  PROVE  Buying'
  <1>1. PICK answer, f, r, taken, rest :
           /\ answer = quotations[n] /\ f = answer.rfq /\ r = rfqs[f].request
           /\ taken = TakenOf(answer) /\ rest = WithOrdered(requests[r].lines, taken)
    OBVIOUS
  <1>2. f \in DOMAIN rfqs /\ r \in DOMAIN requests
    BY <1>1 DEF Buying, Purchases, Asking, Answering
  <1>3. /\ requests[r].lines \in Seq(Row) /\ rfqs[f].lines \in Seq(Taken)
        /\ answer.lines \in Seq(Taken)
    BY <1>1, <1>2, BuyingLines DEF Buying
  <1>4. Fits(answer.lines, rfqs[f].lines) /\ Fits(rfqs[f].lines, requests[r].lines)
    BY <1>1, <1>2 DEF Buying, Purchases, Asking, Answering
  <1>5. taken \in Seq(Taken) /\ Fits(taken, requests[r].lines)
    <2>1. PICK m \in Nat : DOMAIN answer.lines = 1..m
      BY <1>3
    <2>2. /\ taken = [i \in 1..m |-> [at |-> rfqs[f].lines[answer.lines[i].at].at,
                                      qty |-> answer.lines[i].qty]]
          /\ DOMAIN taken = 1..m
      BY <1>1, <2>1 DEF TakenOf
    <2>3. ASSUME NEW i \in 1..m
          PROVE  /\ taken[i] \in Taken /\ taken[i].at \in DOMAIN requests[r].lines
                 /\ taken[i].qty <= requests[r].lines[taken[i].at].qty
      <3>1. PICK at, to, qty : /\ at = answer.lines[i].at /\ to = rfqs[f].lines[at].at
                               /\ qty = answer.lines[i].qty
        OBVIOUS
      <3>2. at \in DOMAIN rfqs[f].lines /\ qty <= rfqs[f].lines[at].qty
        BY <1>4, <2>1, <3>1 DEF Fits
      <3>3. to \in DOMAIN requests[r].lines /\ rfqs[f].lines[at].qty <= requests[r].lines[to].qty
        BY <1>4, <3>1, <3>2 DEF Fits
      <3>4. rfqs[f].lines[at].qty \in Nat /\ qty \in Nat \ {0} /\ requests[r].lines[to].qty \in Nat
        BY <1>3, <2>1, <3>1, <3>2, <3>3, LinesAre
      <3>5. to \in Nat
        BY <1>3, <3>3
      <3>6. taken[i] = [at |-> to, qty |-> qty]
        BY <2>2, <3>1
      <3> QED
        BY <3>2, <3>3, <3>4, <3>5, <3>6 DEF Taken
    <2>4. taken \in [1..m -> Taken]
      BY <2>2, <2>3
    <2>5. taken \in Seq(Taken)
      BY <2>4, FunctionIsSeq
    <2>6. Fits(taken, requests[r].lines)
      BY <2>2, <2>3 DEF Fits
    <2> QED
      BY <2>5, <2>6
  <1>6. answer.status = "Open"
    <2>1. answer \in Answer
      BY <1>1 DEF Buying, Purchases, Typed
    <2>2. answer.status \in {"Open", "Ordered"}
      BY <2>1 DEF Answer
    <2>3. answer.status \in {"Open", "Accepted"}
      BY <1>1 DEF AwardSupplierQuote, Awardable
    <2> QED
      BY <2>2, <2>3
  <1>7. Purchases([requests EXCEPT ![r] = [status |-> OrderStatus(rest), lines |-> rest]],
                  [rfqs EXCEPT ![f].status = "Awarded"],
                  [quotations EXCEPT ![n].status = "Ordered"],
                  Append(purchaseOrders, [quotation |-> n, lines |-> taken]))
    BY <1>1, <1>5, <1>6, PurchasesAwarded DEF Buying
  <1> QED
    BY <1>1, <1>7 DEF AwardSupplierQuote, Buying

(* Every step keeps the purchasing side.                                    *)
LEMMA StepBuying ==
  ASSUME Buying, [Next]_vars
  PROVE  Buying'
  <1>1. CASE CreatePurchaseRequest
    <2>1. PICK form \in Forms : requests' = Append(requests, NewRequest(form))
      BY <1>1 DEF CreatePurchaseRequest
    <2>2. form \in Seq(Nat \ {0}) /\ form # <<>>
      BY FormsAre
    <2>3. Purchases(requests', rfqs, quotations, purchaseOrders)
      BY <2>1, <2>2, PurchasesRequested DEF Buying
    <2> QED
      BY <1>1, <2>3 DEF CreatePurchaseRequest, Buying
  <1>2. CASE ImportPurchaseRequest
    <2>1. PICK payload \in Payloads : requests' = Append(requests, NewRequest(Form(payload)))
      BY <1>2 DEF ImportPurchaseRequest
    <2>2. Form(payload) \in Seq(Nat \ {0}) /\ Form(payload) # <<>>
      BY FormsAre
    <2>3. Purchases(requests', rfqs, quotations, purchaseOrders)
      BY <2>1, <2>2, PurchasesRequested DEF Buying
    <2> QED
      BY <1>2, <2>3 DEF ImportPurchaseRequest, Buying
  <1>3. CASE UNCHANGED <<requests, rfqs, quotations, purchaseOrders>>
    BY <1>3 DEF Buying
  <1> QED
    BY <1>1, <1>2, <1>3, CreateRfqBuying, ImportRfqBuying, RecordBuying, ImportQuoteBuying,
       UnaskedBuying, AwardBuying
       DEF Next, vars, CreateSalesQuote, ImportSalesQuote, PostSalesQuote, ConvertSalesQuote

(* Nothing is made at first.                                                *)
LEMMA InitSound == Init => Sound
  <1> SUFFICES ASSUME Init PROVE Sound
    OBVIOUS
  <1>1. Selling
    BY DEF Init, Selling, Sales
  <1>2. Buying
    BY DEF Init, Buying, Purchases, Typed, Asking, Invited, Answering, Ordering, Counted,
           AwardedOnce
  <1> QED
    BY <1>1, <1>2 DEF Sound

(* In every reachable state both sides keep their documents.                *)
THEOREM SoundAlways == Spec => []Sound
  <1>1. Sound /\ [Next]_vars => Sound'
    BY StepSelling, StepBuying DEF Sound
  <1> QED
    BY InitSound, <1>1, PTL DEF Spec

-----------------------------------------------------------------------------
(* The documents keep their shape (TypeOK of Preorders).                    *)
LEMMA TypesHold == Sound => TypeOK
  <1> SUFFICES ASSUME Sound PROVE TypeOK
    OBVIOUS
  <1>1. ASSUME NEW q \in DOMAIN quotes
        PROVE  /\ quotes[q] \in [state : {"Draft", "Posted"}, lines : Seq(Row),
                                 status : {"Open", "Partly Ordered", "Ordered"}]
               /\ quotes[q].state = "Draft" => quotes[q].status = "Open"
    <2>1. quotes[q] \in Quote
      BY DEF Sound, Selling, Sales
    <2> QED
      BY <2>1 DEF Quote, Sound, Selling, Sales
  <1>2. Purchases(requests, rfqs, quotations, purchaseOrders)
    BY DEF Sound, Buying
  <1>3. ASSUME NEW r \in DOMAIN requests
        PROVE  requests[r] \in Request
    BY <1>2 DEF Purchases, Typed
  <1>4. ASSUME NEW list \in Seq(Taken), NEW of, of \in Seq(Row) \/ of \in Seq(Taken),
               Fits(list, of)
        PROVE  list \in Seq([at : 1..Len(of), qty : Nat \ {0}])
    <2>1. DOMAIN of = 1..Len(of)
      BY <1>4
    <2>2. PICK m \in Nat : DOMAIN list = 1..m /\ list = [i \in 1..m |-> list[i]]
      OBVIOUS
    <2>3. \A i \in 1..m : list[i] \in [at : 1..Len(of), qty : Nat \ {0}]
      <3>1. \A i \in 1..m : list[i] \in Taken
        BY <2>2
      <3>2. \A i \in 1..m : list[i].at \in 1..Len(of)
        BY <1>4, <2>1, <2>2 DEF Fits
      <3> QED
        BY <3>1, <3>2 DEF Taken
    <2>4. list \in [1..m -> [at : 1..Len(of), qty : Nat \ {0}]]
      BY <2>2, <2>3
    <2> QED
      BY <2>4, FunctionIsSeq
  <1>5. ASSUME NEW f \in DOMAIN rfqs
        PROVE  /\ rfqs[f] \in [request : DOMAIN requests, invited : SUBSET Suppliers,
                     status : {"Open", "Responses Received", "Awarded"},
                     responded : SUBSET Suppliers,
                     lines : Seq([at : 1..Len(requests[rfqs[f].request].lines), qty : Nat \ {0}])]
               /\ rfqs[f].responded \subseteq rfqs[f].invited
    <2>1. rfqs[f] \in Rfq
      BY <1>2 DEF Purchases, Typed
    <2>2. /\ rfqs[f].request \in DOMAIN requests /\ rfqs[f].responded \subseteq rfqs[f].invited
          /\ Fits(rfqs[f].lines, requests[rfqs[f].request].lines)
      BY <1>2 DEF Purchases, Asking, Invited
    <2>3. rfqs[f].lines \in Seq([at : 1..Len(requests[rfqs[f].request].lines), qty : Nat \ {0}])
      BY <1>2, <1>4, <2>2, BuyingLines
    <2> QED
      BY <2>1, <2>2, <2>3 DEF Rfq
  <1>6. ASSUME NEW n \in DOMAIN quotations
        PROVE  quotations[n] \in
                 [rfq : DOMAIN rfqs, supplier : Suppliers, status : {"Open", "Ordered"},
                  lines : Seq([at : 1..Len(rfqs[quotations[n].rfq].lines), qty : Nat \ {0}])]
    <2>1. quotations[n] \in Answer
      BY <1>2 DEF Purchases, Typed
    <2>2. /\ quotations[n].rfq \in DOMAIN rfqs
          /\ Fits(quotations[n].lines, rfqs[quotations[n].rfq].lines)
      BY <1>2 DEF Purchases, Answering
    <2>3. quotations[n].lines \in Seq([at : 1..Len(rfqs[quotations[n].rfq].lines), qty : Nat \ {0}])
      BY <1>2, <1>4, <2>2, BuyingLines
    <2> QED
      BY <2>1, <2>2, <2>3 DEF Answer
  <1>7. \A d \in DOMAIN salesOrders : salesOrders[d].quote \in DOMAIN quotes
    BY DEF Sound, Selling, Sales
  <1>8. \A d \in DOMAIN purchaseOrders : purchaseOrders[d].quotation \in DOMAIN quotations
    BY <1>2, PurchasesListed
  <1> QED
    BY <1>1, <1>3, <1>5, <1>6, <1>7, <1>8 DEF TypeOK, Row, Request

(* Type correctness of Preorders: documents keep their shape and refer to   *)
(* documents and lines that exist, through orders and imports alike.        *)
THEOREM TypeCorrect == Spec => []TypeOK
  BY SoundAlways, TypesHold, PTL

(* A line whose document is traced accounts for its orders.                 *)
LEMMA AccountedIs ==
  ASSUME NEW lines, NEW status, NEW orders, NEW made, Traced(lines, status, orders, made),
         Listed(orders, made), \A d \in made : Fits(orders[d].lines, lines),
         NEW i \in DOMAIN lines
  PROVE  Accounted(lines[i], i, orders, made)
  <1>1. lines[i].ordered = DrawnQty(orders, made, i)
    BY DEF Traced
  <1>2. \A x \in Drawing(orders, made, i) : orders[x[1]].lines[x[2]].qty <= lines[i].qty
    BY DrawingIs DEF Fits
  <1> QED
    BY <1>1, <1>2 DEF Accounted, DrawnQty, Drawing, Places

(* Documents that are traced are what OrdersAreTraced says.                 *)
LEMMA TracesHold == Sound => OrdersAreTraced
  <1> SUFFICES ASSUME Sound PROVE OrdersAreTraced
    OBVIOUS
  <1>1. ASSUME NEW q \in DOMAIN quotes
        PROVE  /\ \A i \in DOMAIN quotes[q].lines :
                     Accounted(quotes[q].lines[i], i, salesOrders, FromQuote(q))
               /\ quotes[q].status = "Ordered" <=> OrderStatus(quotes[q].lines) = "Ordered"
    <2>1. salesOrders \in Seq(SalesOrder)
      BY DEF Sound, Selling, Sales
    <2>2. FromQuote(q) = MadeFrom(salesOrders, q)
      BY DEF FromQuote, MadeFrom
    <2>3. Traced(quotes[q].lines, quotes[q].status, salesOrders, FromQuote(q))
      BY <2>2 DEF Sound, Selling, Sales
    <2>4. Listed(salesOrders, FromQuote(q))
      BY <2>1, <2>2, SalesListed
    <2>5. \A d \in FromQuote(q) : Fits(salesOrders[d].lines, quotes[q].lines)
      BY DEF Sound, Selling, Sales, FromQuote
    <2>6. \A i \in DOMAIN quotes[q].lines :
             Accounted(quotes[q].lines[i], i, salesOrders, FromQuote(q))
      BY <2>3, <2>4, <2>5, AccountedIs
    <2> QED
      BY <2>3, <2>6 DEF Traced
  <1>2. Purchases(requests, rfqs, quotations, purchaseOrders)
    BY DEF Sound, Buying
  <1>3. ASSUME NEW r \in DOMAIN requests
        PROVE  /\ \A i \in DOMAIN requests[r].lines :
                     Accounted(requests[r].lines[i], i, purchaseOrders, FromRequest(r))
               /\ requests[r].status = "Ordered" <=> OrderStatus(requests[r].lines) = "Ordered"
    <2>1. FromRequest(r) = Through(rfqs, quotations, purchaseOrders, r)
      BY DEF FromRequest, Through, Behind
    <2>2. Traced(requests[r].lines, requests[r].status, purchaseOrders, FromRequest(r))
      BY <1>2, <2>1 DEF Purchases, Counted
    <2>3. Listed(purchaseOrders, FromRequest(r))
      BY <1>2, <2>1, PurchasesListed
    <2>4. \A d \in FromRequest(r) : Fits(purchaseOrders[d].lines, requests[r].lines)
      BY <1>2, <2>1 DEF Purchases, Ordering, Through
    <2>5. \A i \in DOMAIN requests[r].lines :
             Accounted(requests[r].lines[i], i, purchaseOrders, FromRequest(r))
      BY <2>2, <2>3, <2>4, AccountedIs
    <2> QED
      BY <2>2, <2>5 DEF Traced
  <1>4. \A n \in DOMAIN quotations :
           Cardinality({d \in DOMAIN purchaseOrders : purchaseOrders[d].quotation = n})
             = IF quotations[n].status = "Ordered" THEN 1 ELSE 0
    BY <1>2 DEF Purchases, AwardedOnce, Awards
  <1> QED
    BY <1>1, <1>3, <1>4 DEF OrdersAreTraced

(* Ordered quantities are the orders made, a quotation becomes one order at *)
(* most and what is Ordered is ordered in full, for any documents.          *)
THEOREM OrdersTraced == Spec => []OrdersAreTraced
  BY SoundAlways, TracesHold, PTL

=============================================================================
