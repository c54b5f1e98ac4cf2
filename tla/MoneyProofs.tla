------------------------------ MODULE MoneyProofs ------------------------------
(* Facts about the arithmetic of Money, for sums of any number of terms.     *)
(* The library's induction theorems take an operator and cannot be           *)
(* instantiated here; its theorem that a set of natural numbers has a least  *)
(* element takes sets only, and gives induction in a form that can.          *)
EXTENDS Money, FiniteSetTheorems, SequenceTheorems, WellFoundedInduction, TLAPS

-----------------------------------------------------------------------------
(* Induction over the natural numbers, stated with a set of numbers: the     *)
(* least number outside the set is a counterexample to one of the premises.  *)
LEMMA NatSetInduction ==
  ASSUME NEW N \in SUBSET Nat, 0 \in N, \A n \in N : n + 1 \in N
  PROVE  N = Nat
  <1>1. ASSUME Nat \ N # {} PROVE FALSE
    <2>1. PICK n \in Nat \ N : \A m \in Nat \ N : <<m, n>> \notin OpToRel(<, Nat)
      BY <1>1, WFMin, NatLessThanWellFounded
    <2>2. n # 0 /\ n - 1 \in Nat /\ n - 1 < n
      OBVIOUS
    <2>3. n - 1 \notin N
      BY <2>2
    <2>4. <<n - 1, n>> \in OpToRel(<, Nat)
      BY <2>2 DEF OpToRel
    <2> QED
      BY <2>1, <2>2, <2>3, <2>4
  <1> QED
    BY <1>1

(* Induction over a finite set, stated with a set of its subsets.            *)
LEMMA FiniteSetInduction ==
  ASSUME NEW S, IsFiniteSet(S), NEW C \in SUBSET SUBSET S, {} \in C,
         \A T \in C : \A x \in S \ T : T \cup {x} \in C
  PROVE  S \in C
  <1> DEFINE N == {n \in Nat : \A T \in SUBSET S : Cardinality(T) = n => T \in C}
  <1>1. \A T \in SUBSET S : IsFiniteSet(T) /\ Cardinality(T) \in Nat
    BY FS_Subset, FS_CardinalityType
  <1>2. 0 \in N
    BY <1>1, FS_EmptySet
  <1>3. ASSUME NEW n \in N PROVE n + 1 \in N
    <2>1. SUFFICES ASSUME NEW T \in SUBSET S, Cardinality(T) = n + 1 PROVE T \in C
      OBVIOUS
    <2>2. T # {}
      <3>1. n \in Nat /\ Cardinality({}) = 0
        BY FS_EmptySet
      <3> QED
        BY <2>1, <3>1
    <2>3. PICK x \in T : TRUE
      BY <2>2
    <2>4. Cardinality(T \ {x}) = n
      BY <1>1, <2>1, FS_RemoveElement
    <2>5. T \ {x} \in C
      BY <2>4
    <2>6. x \in S \ (T \ {x}) /\ (T \ {x}) \cup {x} = T
      OBVIOUS
    <2> QED
      BY <2>5, <2>6
  <1>4. N = Nat
    <2> HIDE DEF N
    <2>1. N \in SUBSET Nat
      BY DEF N
    <2> QED
      BY <1>2, <1>3, <2>1, NatSetInduction
  <1> QED
    BY <1>1, <1>4

-----------------------------------------------------------------------------
(* The recursion behind SumFunctionOnSet.                                    *)
Pick(s) == CHOOSE x \in s : TRUE
IsIter(g, f, D) ==
    g = [s \in D |-> IF s = {} THEN 0 ELSE f[Pick(s)] + g[s \ {Pick(s)}]]
Iter(f, S) == CHOOSE g : IsIter(g, f, SUBSET S)

\* The community module's sum is the iteration above, run to the whole set.
LEMMA SumIsIter == ASSUME NEW f, NEW S PROVE SumFunctionOnSet(f, S) = Iter(f, S)[S]
  BY DEF SumFunctionOnSet, FoldFunctionOnSet, MapThenFoldSet, Iter, IsIter, Pick

\* The element picked from a set is one of its own.
LEMMA PickIn == ASSUME NEW s, s # {} PROVE Pick(s) \in s
  BY DEF Pick

\* An iteration over a finite set exists.
LEMMA IterExists ==
  ASSUME NEW S, IsFiniteSet(S), NEW f
  PROVE  IsIter(Iter(f, S), f, SUBSET S)
  <1> DEFINE Small(n) == {s \in SUBSET S : Cardinality(s) <= n}
             N == {n \in Nat : \E g : IsIter(g, f, Small(n))}
  <1>1. \A s \in SUBSET S : IsFiniteSet(s) /\ Cardinality(s) \in Nat
                            /\ Cardinality(s) <= Cardinality(S)
    BY FS_Subset, FS_CardinalityType
  <1>2. \A s \in SUBSET S : s # {} =>
            /\ s \ {Pick(s)} \in SUBSET S
            /\ Cardinality(s \ {Pick(s)}) = Cardinality(s) - 1
    BY <1>1, PickIn, FS_RemoveElement
  <1>3. 0 \in N
    <2>1. Small(0) = {{}}
      BY <1>1, FS_EmptySet
    <2>2. IsIter([s \in Small(0) |-> 0], f, Small(0))
      BY <2>1 DEF IsIter
    <2> QED
      BY <2>2
  <1>4. ASSUME NEW n \in N PROVE n + 1 \in N
    <2>1. PICK g : IsIter(g, f, Small(n))
      OBVIOUS
    <2> DEFINE h == [s \in Small(n + 1) |->
                       IF s = {} THEN 0 ELSE f[Pick(s)] + g[s \ {Pick(s)}]]
    <2>2. ASSUME NEW s \in Small(n + 1), s # {}
          PROVE  h[s \ {Pick(s)}] = g[s \ {Pick(s)}]
      <3> DEFINE t == s \ {Pick(s)}
      <3>1. t \in Small(n) /\ t \in Small(n + 1)
        BY <1>1, <1>2, <2>2
      <3>2. g[t] = IF t = {} THEN 0 ELSE f[Pick(t)] + g[t \ {Pick(t)}]
        BY <2>1, <3>1 DEF IsIter
      <3>3. h[t] = IF t = {} THEN 0 ELSE f[Pick(t)] + g[t \ {Pick(t)}]
        BY <3>1
      <3> QED
        BY <3>2, <3>3
    <2>3. h = [s \in Small(n + 1) |->
                 IF s = {} THEN 0 ELSE f[Pick(s)] + h[s \ {Pick(s)}]]
      BY <2>2
    <2>4. n + 1 \in Nat
      OBVIOUS
    <2> HIDE DEF h, Small
    <2>5. IsIter(h, f, Small(n + 1))
      BY <2>3 DEF IsIter
    <2> QED
      BY <2>4, <2>5
  <1>5. N = Nat
    <2>1. N \in SUBSET Nat
      OBVIOUS
    <2> HIDE DEF N
    <2> QED
      BY <1>3, <1>4, <2>1, NatSetInduction
  <1>6. Cardinality(S) \in N /\ Small(Cardinality(S)) = SUBSET S
    BY <1>1, <1>5
  <1>7. \E g : IsIter(g, f, SUBSET S)
    BY <1>6
  <1> QED
    BY <1>7 DEF Iter


\* It adds one element after the other.
LEMMA IterAt ==
  ASSUME NEW S, IsFiniteSet(S), NEW f, NEW s \in SUBSET S
  PROVE  Iter(f, S)[s] = IF s = {} THEN 0 ELSE f[Pick(s)] + Iter(f, S)[s \ {Pick(s)}]
  <1> DEFINE g == Iter(f, S)
  <1>1. g = [u \in SUBSET S |-> IF u = {} THEN 0 ELSE f[Pick(u)] + g[u \ {Pick(u)}]]
    BY IterExists DEF IsIter
  <1> HIDE DEF g
  <1>2. g[s] = IF s = {} THEN 0 ELSE f[Pick(s)] + g[s \ {Pick(s)}]
    BY <1>1, Zenon
  <1> QED
    BY <1>2 DEF g

\* The value at a subset does not depend on the set the recursion started from.
LEMMA IterIsSum ==
  ASSUME NEW S, IsFiniteSet(S), NEW f, NEW t \in SUBSET S
  PROVE  Iter(f, S)[t] = SumFunctionOnSet(f, t)
  <1> DEFINE N == {n \in Nat : \A s \in SUBSET t : Cardinality(s) <= n =>
                      Iter(f, S)[s] = Iter(f, t)[s]}
  <1>1. IsFiniteSet(t) /\ \A s \in SUBSET t : IsFiniteSet(s) /\ Cardinality(s) \in Nat
    BY FS_Subset, FS_CardinalityType
  <1>2. \A s \in SUBSET t : s # {} =>
            /\ s \ {Pick(s)} \in SUBSET t
            /\ Cardinality(s \ {Pick(s)}) = Cardinality(s) - 1
    BY <1>1, PickIn, FS_RemoveElement
  <1>4. \A s \in SUBSET t :
            /\ Iter(f, S)[s] = IF s = {} THEN 0 ELSE f[Pick(s)] + Iter(f, S)[s \ {Pick(s)}]
            /\ Iter(f, t)[s] = IF s = {} THEN 0 ELSE f[Pick(s)] + Iter(f, t)[s \ {Pick(s)}]
    BY <1>1, IterAt
  <1>5. 0 \in N
    <2>1. \A s \in SUBSET t : Cardinality(s) <= 0 => s = {}
      BY <1>1, FS_EmptySet
    <2> QED
      BY <1>4, <2>1
  <1>6. ASSUME NEW n \in N PROVE n + 1 \in N
    <2>1. ASSUME NEW s \in SUBSET t, Cardinality(s) <= n + 1, s # {}
          PROVE  Iter(f, S)[s \ {Pick(s)}] = Iter(f, t)[s \ {Pick(s)}]
      BY <1>1, <1>2, <2>1
    <2>2. \A s \in SUBSET t : Cardinality(s) <= n + 1 => Iter(f, S)[s] = Iter(f, t)[s]
      BY <1>4, <2>1
    <2> QED
      BY <2>2
  <1>7. N = Nat
    <2>1. N \in SUBSET Nat
      OBVIOUS
    <2> HIDE DEF N
    <2> QED
      BY <1>5, <1>6, <2>1, NatSetInduction
  <1>8. Iter(f, S)[t] = Iter(f, t)[t]
    BY <1>1, <1>7
  <1> QED
    BY <1>8, SumIsIter

\* The sum over nothing is zero.
LEMMA SumEmpty == ASSUME NEW f PROVE SumFunctionOnSet(f, {}) = 0
  BY SumIsIter, IterAt, FS_EmptySet

\* A sum is one element's term and the sum over the others.
LEMMA SumStep ==
  ASSUME NEW f, NEW S, IsFiniteSet(S), S # {}
  PROVE  /\ Pick(S) \in S
         /\ SumFunctionOnSet(f, S) = f[Pick(S)] + SumFunctionOnSet(f, S \ {Pick(S)})
  <1>1. Iter(f, S)[S] = f[Pick(S)] + Iter(f, S)[S \ {Pick(S)}]
    BY IterAt
  <1>2. Iter(f, S)[S \ {Pick(S)}] = SumFunctionOnSet(f, S \ {Pick(S)})
    BY IterIsSum
  <1> QED
    BY <1>1, <1>2, SumIsIter, PickIn

-----------------------------------------------------------------------------
(* A sum of integers is an integer, and it does not matter in which order    *)
(* they are added: any element can be taken out.                             *)
LEMMA SumInt ==
  ASSUME NEW S, IsFiniteSet(S), NEW f, \A x \in S : f[x] \in Int
  PROVE  SumFunctionOnSet(f, S) \in Int
  <1> DEFINE N == {n \in Nat : \A T \in SUBSET S : Cardinality(T) <= n =>
                      SumFunctionOnSet(f, T) \in Int}
  <1>1. \A T \in SUBSET S : IsFiniteSet(T) /\ Cardinality(T) \in Nat
    BY FS_Subset, FS_CardinalityType
  <1>2. 0 \in N
    BY <1>1, FS_EmptySet, SumEmpty
  <1>3. ASSUME NEW n \in N PROVE n + 1 \in N
    <2>1. SUFFICES ASSUME NEW T \in SUBSET S, Cardinality(T) <= n + 1
                   PROVE  SumFunctionOnSet(f, T) \in Int
      OBVIOUS
    <2>2. CASE T = {}
      BY <2>2, SumEmpty
    <2>3. CASE T # {}
      <3>1. /\ Pick(T) \in T
            /\ SumFunctionOnSet(f, T) = f[Pick(T)] + SumFunctionOnSet(f, T \ {Pick(T)})
        BY <1>1, <2>3, SumStep
      <3>2. Cardinality(T \ {Pick(T)}) = Cardinality(T) - 1
        BY <1>1, <3>1, FS_RemoveElement
      <3>3. SumFunctionOnSet(f, T \ {Pick(T)}) \in Int
        BY <1>1, <2>1, <3>2
      <3> QED
        BY <3>1, <3>3
    <2> QED
      BY <2>2, <2>3
  <1>4. N = Nat
    <2>1. N \in SUBSET Nat
      OBVIOUS
    <2> HIDE DEF N
    <2> QED
      BY <1>2, <1>3, <2>1, NatSetInduction
  <1> QED
    BY <1>1, <1>4

\* Whichever element comes in adds its term: the order of the sum is no matter.
LEMMA SumAdd ==
  ASSUME NEW S, IsFiniteSet(S), NEW f, NEW x, x \notin S, \A y \in S \cup {x} : f[y] \in Int
  PROVE  SumFunctionOnSet(f, S \cup {x}) = f[x] + SumFunctionOnSet(f, S)
  <1> DEFINE N == {n \in Nat : \A T \in SUBSET (S \cup {x}) : \A z \in T :
                      Cardinality(T) <= n =>
                      SumFunctionOnSet(f, T) = f[z] + SumFunctionOnSet(f, T \ {z})}
  <1>1. IsFiniteSet(S \cup {x})
    BY FS_AddElement
  <1>2. \A T \in SUBSET (S \cup {x}) : IsFiniteSet(T) /\ Cardinality(T) \in Nat
    BY <1>1, FS_Subset, FS_CardinalityType
  <1>3. \A T \in SUBSET (S \cup {x}) : SumFunctionOnSet(f, T) \in Int
    BY <1>2, SumInt
  <1>4. 0 \in N
    BY <1>2, FS_EmptySet
  <1>5. ASSUME NEW n \in N PROVE n + 1 \in N
    <2>1. SUFFICES ASSUME NEW T \in SUBSET (S \cup {x}), NEW z \in T, Cardinality(T) <= n + 1
                   PROVE  SumFunctionOnSet(f, T) = f[z] + SumFunctionOnSet(f, T \ {z})
      OBVIOUS
    <2> DEFINE p == Pick(T)
               U == T \ {p, z}
    <2>2. p \in T /\ SumFunctionOnSet(f, T) = f[p] + SumFunctionOnSet(f, T \ {p})
      BY <1>2, SumStep
    <2>3. CASE p = z
      BY <2>2, <2>3
    <2>4. CASE p # z
      <3>1. /\ z \in T \ {p} /\ (T \ {p}) \ {z} = U
            /\ p \in T \ {z} /\ (T \ {z}) \ {p} = U
        BY <2>2, <2>4
      <3>2. Cardinality(T \ {p}) <= n /\ Cardinality(T \ {z}) <= n
        BY <1>2, <2>1, <2>2, FS_RemoveElement
      <3>3. SumFunctionOnSet(f, T \ {p}) = f[z] + SumFunctionOnSet(f, U)
        BY <3>1, <3>2
      <3>4. SumFunctionOnSet(f, T \ {z}) = f[p] + SumFunctionOnSet(f, U)
        BY <3>1, <3>2
      <3>5. f[p] \in Int /\ f[z] \in Int /\ SumFunctionOnSet(f, U) \in Int
        BY <1>3, <2>2
      <3> HIDE DEF U, p
      <3> QED
        BY <2>2, <3>3, <3>4, <3>5
    <2> QED
      BY <2>3, <2>4
  <1>6. N = Nat
    <2>1. N \in SUBSET Nat
      OBVIOUS
    <2> HIDE DEF N
    <2> QED
      BY <1>4, <1>5, <2>1, NatSetInduction
  <1>7. Cardinality(S \cup {x}) \in N
    BY <1>2, <1>6
  <1>8. SumFunctionOnSet(f, S \cup {x}) = f[x] + SumFunctionOnSet(f, (S \cup {x}) \ {x})
    BY <1>2, <1>7
  <1>9. (S \cup {x}) \ {x} = S
    OBVIOUS
  <1> QED
    BY <1>8, <1>9

-----------------------------------------------------------------------------
(* What the proofs about sums of documents use.                              *)
LEMMA SumPlus ==
  ASSUME NEW S, IsFiniteSet(S), NEW f, NEW g, NEW h,
         \A x \in S : f[x] \in Int /\ g[x] \in Int /\ h[x] = f[x] + g[x]
  PROVE  SumFunctionOnSet(h, S) = SumFunctionOnSet(f, S) + SumFunctionOnSet(g, S)
  <1> DEFINE Equal(T) ==
               SumFunctionOnSet(h, T) = SumFunctionOnSet(f, T) + SumFunctionOnSet(g, T)
             C == {T \in SUBSET S : Equal(T)}
  <1>1. {} \in C
    BY SumEmpty
  <1>2. ASSUME NEW T \in C, NEW x \in S \ T PROVE T \cup {x} \in C
    <2>1. IsFiniteSet(T) /\ T \cup {x} \in SUBSET S
      BY FS_Subset
    <2>2. /\ \A y \in T \cup {x} : f[y] \in Int /\ g[y] \in Int /\ h[y] \in Int
          /\ h[x] = f[x] + g[x]
      OBVIOUS
    <2>3. /\ SumFunctionOnSet(f, T \cup {x}) = f[x] + SumFunctionOnSet(f, T)
          /\ SumFunctionOnSet(g, T \cup {x}) = g[x] + SumFunctionOnSet(g, T)
          /\ SumFunctionOnSet(h, T \cup {x}) = h[x] + SumFunctionOnSet(h, T)
      BY <2>1, <2>2, SumAdd
    <2>4. SumFunctionOnSet(f, T) \in Int /\ SumFunctionOnSet(g, T) \in Int
      BY <2>1, <2>2, SumInt
    <2>5. Equal(T)
      OBVIOUS
    <2> QED
      BY <2>1, <2>2, <2>3, <2>4, <2>5
  <1>3. S \in C
    <2>1. C \in SUBSET SUBSET S
      OBVIOUS
    <2> HIDE DEF C
    <2> QED
      BY <1>1, <1>2, <2>1, FiniteSetInduction
  <1> QED
    BY <1>3

\* A sum of zeros is zero.
LEMMA SumZero ==
  ASSUME NEW S, IsFiniteSet(S), NEW f, \A x \in S : f[x] = 0
  PROVE  SumFunctionOnSet(f, S) = 0
  <1>1. SumFunctionOnSet(f, S) = SumFunctionOnSet(f, S) + SumFunctionOnSet(f, S)
    BY SumPlus
  <1>2. SumFunctionOnSet(f, S) \in Int
    BY SumInt
  <1>3. \A n \in Int : n = n + n => n = 0
    OBVIOUS
  <1> QED
    BY <1>1, <1>2, <1>3

\* Functions that agree on a set have the same sum over it.
LEMMA SumEqual ==
  ASSUME NEW S, IsFiniteSet(S), NEW f, NEW g, \A x \in S : f[x] \in Int /\ g[x] = f[x]
  PROVE  SumFunctionOnSet(g, S) = SumFunctionOnSet(f, S)
  <1> DEFINE z == [x \in S |-> 0]
  <1>1. SumFunctionOnSet(g, S) = SumFunctionOnSet(f, S) + SumFunctionOnSet(z, S)
    BY SumPlus
  <1>2. SumFunctionOnSet(z, S) = 0
    BY SumZero
  <1>3. SumFunctionOnSet(f, S) \in Int
    BY SumInt
  <1> QED
    BY <1>1, <1>2, <1>3

\* A sum of naturals is one.
LEMMA SumNat ==
  ASSUME NEW S, IsFiniteSet(S), NEW f, \A x \in S : f[x] \in Nat
  PROVE  SumFunctionOnSet(f, S) \in Nat
  <1> DEFINE C == {T \in SUBSET S : SumFunctionOnSet(f, T) \in Nat}
  <1>1. {} \in C
    BY SumEmpty
  <1>2. ASSUME NEW T \in C, NEW x \in S \ T PROVE T \cup {x} \in C
    <2>1. IsFiniteSet(T) /\ T \cup {x} \in SUBSET S
      BY FS_Subset
    <2>2. \A y \in T \cup {x} : f[y] \in Int
      BY <2>1
    <2>3. SumFunctionOnSet(f, T \cup {x}) = f[x] + SumFunctionOnSet(f, T)
      BY <2>1, <2>2, SumAdd
    <2> QED
      BY <2>1, <2>3
  <1>3. S \in C
    <2>1. C \in SUBSET SUBSET S
      OBVIOUS
    <2> HIDE DEF C
    <2> QED
      BY <1>1, <1>2, <2>1, FiniteSetInduction
  <1> QED
    BY <1>3

\* A sum of smaller terms is smaller.
LEMMA SumMonotone ==
  ASSUME NEW S, IsFiniteSet(S), NEW f, NEW g,
         \A x \in S : f[x] \in Int /\ g[x] \in Int /\ f[x] <= g[x]
  PROVE  SumFunctionOnSet(f, S) <= SumFunctionOnSet(g, S)
  <1> DEFINE d == [x \in S |-> g[x] - f[x]]
  <1>1. SumFunctionOnSet(g, S) = SumFunctionOnSet(f, S) + SumFunctionOnSet(d, S)
    BY SumPlus
  <1>2. SumFunctionOnSet(d, S) \in Nat
    BY SumNat
  <1>3. SumFunctionOnSet(f, S) \in Int
    BY SumInt
  <1> QED
    BY <1>1, <1>2, <1>3

\* The sum over two disjoint sets is the sum of the sums.
LEMMA SumUnion ==
  ASSUME NEW S, IsFiniteSet(S), NEW R, IsFiniteSet(R), S \cap R = {}, NEW f,
         \A x \in S \cup R : f[x] \in Int
  PROVE  SumFunctionOnSet(f, S \cup R) = SumFunctionOnSet(f, S) + SumFunctionOnSet(f, R)
  <1> DEFINE Equal(T) ==
               SumFunctionOnSet(f, S \cup T) = SumFunctionOnSet(f, S) + SumFunctionOnSet(f, T)
             C == {T \in SUBSET R : IsFiniteSet(S \cup T) /\ Equal(T)}
  <1>1. SumFunctionOnSet(f, S) \in Int
    BY SumInt
  <1>2. {} \in C
    <2>1. S \cup {} = S
      OBVIOUS
    <2> QED
      BY <1>1, <2>1, SumEmpty
  <1>3. ASSUME NEW T \in C, NEW x \in R \ T PROVE T \cup {x} \in C
    <2>1. IsFiniteSet(T) /\ T \cup {x} \in SUBSET R
      BY FS_Subset
    <2>2. S \cup (T \cup {x}) = (S \cup T) \cup {x} /\ x \notin S \cup T
      OBVIOUS
    <2>3. IsFiniteSet(S \cup T) /\ IsFiniteSet((S \cup T) \cup {x})
      BY FS_AddElement
    <2>4. SumFunctionOnSet(f, (S \cup T) \cup {x}) = f[x] + SumFunctionOnSet(f, S \cup T)
      BY <2>2, <2>3, SumAdd
    <2>5. SumFunctionOnSet(f, T \cup {x}) = f[x] + SumFunctionOnSet(f, T)
      BY <2>1, SumAdd
    <2>6. f[x] \in Int /\ SumFunctionOnSet(f, T) \in Int
      BY <2>1, SumInt
    <2>7. Equal(T)
      OBVIOUS
    <2>8. Equal(T \cup {x})
      <3>1. SumFunctionOnSet(f, S \cup (T \cup {x})) = f[x] + SumFunctionOnSet(f, S \cup T)
        BY <2>2, <2>4
      <3> QED
        BY <1>1, <2>5, <2>6, <2>7, <3>1
    <2> QED
      BY <2>1, <2>2, <2>3, <2>8
  <1>4. R \in C
    <2>1. C \in SUBSET SUBSET R
      OBVIOUS
    <2> HIDE DEF C
    <2> QED
      BY <1>2, <1>3, <2>1, FiniteSetInduction
  <1> QED
    BY <1>4

\* Terms that are zero do not count.
LEMMA SumPart ==
  ASSUME NEW S, IsFiniteSet(S), NEW T \in SUBSET S, NEW f,
         \A x \in S : f[x] \in Int, \A x \in S \ T : f[x] = 0
  PROVE  SumFunctionOnSet(f, S) = SumFunctionOnSet(f, T)
  <1>1. IsFiniteSet(T) /\ IsFiniteSet(S \ T)
    BY FS_Subset
  <1>2. T \cup (S \ T) = S /\ T \cap (S \ T) = {}
    OBVIOUS
  <1>3. SumFunctionOnSet(f, S) = SumFunctionOnSet(f, T) + SumFunctionOnSet(f, S \ T)
    BY <1>1, <1>2, SumUnion
  <1>4. SumFunctionOnSet(f, S \ T) = 0 /\ SumFunctionOnSet(f, T) \in Int
    BY <1>1, SumZero, SumInt
  <1> QED
    BY <1>3, <1>4

\* Taking one term out, whichever it is.
LEMMA SumRemove ==
  ASSUME NEW S, IsFiniteSet(S), NEW x \in S, NEW f, \A y \in S : f[y] \in Int
  PROVE  SumFunctionOnSet(f, S) = f[x] + SumFunctionOnSet(f, S \ {x})
  <1>1. IsFiniteSet(S \ {x}) /\ (S \ {x}) \cup {x} = S /\ x \notin S \ {x}
    BY FS_RemoveElement
  <1> QED
    BY <1>1, SumAdd

\* One term of nonnegative ones is at most the sum.
LEMMA SumTerm ==
  ASSUME NEW S, IsFiniteSet(S), NEW x \in S, NEW f, \A y \in S : f[y] \in Nat
  PROVE  f[x] <= SumFunctionOnSet(f, S)
  <1>1. IsFiniteSet(S \ {x})
    BY FS_RemoveElement
  <1>2. SumFunctionOnSet(f, S \ {x}) \in Nat
    BY <1>1, SumNat
  <1>3. SumFunctionOnSet(f, S) = f[x] + SumFunctionOnSet(f, S \ {x})
    BY SumRemove
  <1> QED
    BY <1>2, <1>3

\* The sum over one element is its term.
LEMMA SumOne ==
  ASSUME NEW x, NEW f, f[x] \in Int
  PROVE  SumFunctionOnSet(f, {x}) = f[x]
  <1>1. IsFiniteSet({}) /\ {} \cup {x} = {x}
    BY FS_EmptySet
  <1>2. SumFunctionOnSet(f, {x}) = f[x] + SumFunctionOnSet(f, {})
    BY <1>1, SumAdd
  <1> QED
    BY <1>2, SumEmpty

\* Taking one term of another value.
LEMMA SumChange ==
  ASSUME NEW S, IsFiniteSet(S), NEW x \in S, NEW f, NEW g,
         \A y \in S : f[y] \in Int /\ g[y] \in Int,
         \A y \in S \ {x} : g[y] = f[y]
  PROVE  SumFunctionOnSet(g, S) = SumFunctionOnSet(f, S) + g[x] - f[x]
  <1>1. IsFiniteSet(S \ {x})
    BY FS_RemoveElement
  <1>2. /\ SumFunctionOnSet(f, S) = f[x] + SumFunctionOnSet(f, S \ {x})
        /\ SumFunctionOnSet(g, S) = g[x] + SumFunctionOnSet(g, S \ {x})
    BY SumRemove
  <1>3. SumFunctionOnSet(g, S \ {x}) = SumFunctionOnSet(f, S \ {x})
    BY <1>1, SumEqual
  <1>4. SumFunctionOnSet(f, S \ {x}) \in Int
    BY <1>1, SumInt
  <1> QED
    BY <1>2, <1>3, <1>4

\* A sum of sums may be taken in either order.
LEMMA SumExchange ==
  ASSUME NEW S, IsFiniteSet(S), NEW R, IsFiniteSet(R), NEW F,
         \A x \in S, y \in R : F[x][y] \in Int
  PROVE  SumFunctionOnSet([x \in S |-> SumFunctionOnSet(F[x], R)], S)
           = SumFunctionOnSet([y \in R |-> SumFunctionOnSet([x \in S |-> F[x][y]], S)], R)
  <1> DEFINE row == [x \in S |-> SumFunctionOnSet(F[x], R)]
             col(T) == [y \in R |-> SumFunctionOnSet([x \in S |-> F[x][y]], T)]
             Equal(T) == SumFunctionOnSet(row, T) = SumFunctionOnSet(col(T), R)
             C == {T \in SUBSET S : Equal(T)}
  <1>1. \A x \in S : row[x] \in Int
    BY SumInt
  <1>2. {} \in C
    <2>1. \A y \in R : col({})[y] = 0
      BY SumEmpty
    <2>2. SumFunctionOnSet(col({}), R) = 0
      BY <2>1, SumZero
    <2> QED
      BY <2>2, SumEmpty
  <1>3. ASSUME NEW T \in C, NEW x \in S \ T PROVE T \cup {x} \in C
    <2>1. IsFiniteSet(T) /\ T \cup {x} \in SUBSET S /\ IsFiniteSet(T \cup {x})
      BY FS_Subset
    <2>2. SumFunctionOnSet(row, T \cup {x}) = row[x] + SumFunctionOnSet(row, T)
      BY <1>1, <2>1, SumAdd
    <2> DEFINE new == F[x]
    <2>3. ASSUME NEW y \in R
          PROVE  col(T)[y] \in Int /\ new[y] \in Int /\ col(T \cup {x})[y] = new[y] + col(T)[y]
      <3> DEFINE f == [z \in S |-> F[z][y]]
      <3>1. \A z \in T \cup {x} : f[z] \in Int
        BY <2>1
      <3>2. SumFunctionOnSet(f, T \cup {x}) = f[x] + SumFunctionOnSet(f, T)
        BY <2>1, <3>1, SumAdd
      <3>3. SumFunctionOnSet(f, T) \in Int
        BY <2>1, <3>1, SumInt
      <3> QED
        BY <3>2, <3>3
    <2>4. SumFunctionOnSet(col(T \cup {x}), R)
            = SumFunctionOnSet(new, R) + SumFunctionOnSet(col(T), R)
      <3> HIDE DEF col, new
      <3> QED
        BY <2>3, SumPlus
    <2>5. SumFunctionOnSet(new, R) = row[x]
      OBVIOUS
    <2>6. Equal(T)
      OBVIOUS
    <2>7. Equal(T \cup {x})
      <3> HIDE DEF col, row, new
      <3> QED
        BY <2>2, <2>4, <2>5, <2>6
    <2> QED
      BY <2>1, <2>7
  <1>4. S \in C
    <2>1. C \in SUBSET SUBSET S
      OBVIOUS
    <2> HIDE DEF C
    <2> QED
      BY <1>2, <1>3, <2>1, FiniteSetInduction
  <1> QED
    BY <1>4

\* A constant factor may be taken out of a sum.
LEMMA SumScale ==
  ASSUME NEW S, IsFiniteSet(S), NEW f, NEW g, NEW c \in Int,
         \A x \in S : f[x] \in Int /\ g[x] = c * f[x]
  PROVE  SumFunctionOnSet(g, S) = c * SumFunctionOnSet(f, S)
  <1> DEFINE Equal(T) == SumFunctionOnSet(g, T) = c * SumFunctionOnSet(f, T)
             C == {T \in SUBSET S : Equal(T)}
  <1>1. {} \in C
    BY SumEmpty
  <1>2. ASSUME NEW T \in C, NEW x \in S \ T PROVE T \cup {x} \in C
    <2>1. IsFiniteSet(T) /\ T \cup {x} \in SUBSET S
      BY FS_Subset
    <2>2. \A y \in T \cup {x} : f[y] \in Int /\ g[y] \in Int
      OBVIOUS
    <2>3. /\ SumFunctionOnSet(f, T \cup {x}) = f[x] + SumFunctionOnSet(f, T)
          /\ SumFunctionOnSet(g, T \cup {x}) = g[x] + SumFunctionOnSet(g, T)
      BY <2>1, <2>2, SumAdd
    <2>4. SumFunctionOnSet(f, T) \in Int /\ f[x] \in Int /\ g[x] = c * f[x] /\ Equal(T)
      BY <2>1, <2>2, SumInt
    <2>5. \A a, b \in Int : c * a + c * b = c * (a + b)
      OBVIOUS
    <2>6. Equal(T \cup {x})
      BY <2>3, <2>4, <2>5
    <2> QED
      BY <2>1, <2>6
  <1>3. S \in C
    <2>1. C \in SUBSET SUBSET S
      OBVIOUS
    <2> HIDE DEF C
    <2> QED
      BY <1>1, <1>2, <2>1, FiniteSetInduction
  <1> QED
    BY <1>3

\* Amounts w of the elements of R, added up for the element of S each is at,
\* and counted c times there.  A name for the premises lets the provers match them.
Grouped(S, R, at, w, c, part, f, g) ==
    /\ \A y \in R : at[y] \in S /\ w[y] \in Int /\ g[y] = c[at[y]] * w[y]
    /\ \A x \in S : c[x] \in Int /\ f[x] = c[x] * SumFunctionOnSet(part[x], R)
    /\ \A x \in S : \A y \in R : part[x][y] = IF at[y] = x THEN w[y] ELSE 0

\* A sum may be taken group by group.
LEMMA SumGroup ==
  ASSUME NEW S, IsFiniteSet(S), NEW R, IsFiniteSet(R),
         NEW at, NEW w, NEW c, NEW part, NEW f, NEW g, Grouped(S, R, at, w, c, part, f, g)
  PROVE  SumFunctionOnSet(f, S) = SumFunctionOnSet(g, R)
  <1> USE DEF Grouped
  <1> DEFINE F == [x \in S |-> [y \in R |-> IF at[y] = x THEN c[x] * w[y] ELSE 0]]
             row == [x \in S |-> SumFunctionOnSet(F[x], R)]
             col == [y \in R |-> SumFunctionOnSet([x \in S |-> F[x][y]], S)]
  <1>0. /\ \A x \in S, y \in R : c[x] \in Int /\ w[y] \in Int /\ c[x] * w[y] \in Int
        /\ \A x \in S : c[x] * 0 = 0
    <2>1. \A a, b \in Int : a * b \in Int /\ a * 0 = 0
      OBVIOUS
    <2> QED
      BY <2>1
  <1>1. \A x \in S, y \in R : F[x][y] \in Int
    BY <1>0
  <1>2. ASSUME NEW x \in S PROVE row[x] = f[x] /\ row[x] \in Int
    <2>1. \A y \in R : part[x][y] \in Int /\ F[x][y] = c[x] * part[x][y]
      BY <1>0
    <2>2. SumFunctionOnSet(F[x], R) = c[x] * SumFunctionOnSet(part[x], R)
      <3> HIDE DEF F
      <3> QED
        BY <2>1, SumScale
    <2>3. SumFunctionOnSet(F[x], R) \in Int
      BY <1>1, SumInt
    <2> QED
      BY <2>2, <2>3
  <1>3. ASSUME NEW y \in R PROVE col[y] = g[y] /\ col[y] \in Int
    <2> DEFINE h == [x \in S |-> F[x][y]]
    <2>1. /\ \A x \in S : h[x] \in Int
          /\ \A x \in S \ {at[y]} : h[x] = 0
          /\ at[y] \in S /\ h[at[y]] = g[y]
      BY <1>0
    <2>2. SumFunctionOnSet(h, S) = SumFunctionOnSet(h, {at[y]})
      <3> HIDE DEF h
      <3> QED
        BY <2>1, SumPart
    <2>3. SumFunctionOnSet(h, {at[y]}) = g[y]
      <3> HIDE DEF h
      <3> QED
        BY <2>1, SumOne
    <2> QED
      BY <2>1, <2>2, <2>3
  <1>4. SumFunctionOnSet(row, S) = SumFunctionOnSet(col, R)
    <2> HIDE DEF F
    <2> QED
      BY <1>1, SumExchange
  <1>5. SumFunctionOnSet(f, S) = SumFunctionOnSet(row, S)
    <2> HIDE DEF row
    <2> QED
      BY <1>2, SumEqual
  <1>6. SumFunctionOnSet(col, R) = SumFunctionOnSet(g, R)
    <2> HIDE DEF col
    <2> QED
      BY <1>3, SumEqual
  <1> QED
    BY <1>4, <1>5, <1>6

-----------------------------------------------------------------------------
(* Sums over sequences.                                                      *)
LEMMA SeqSumIsSum ==
  ASSUME NEW v \in Seq(Int)
  PROVE  SeqSum(v) = SumFunctionOnSet(v, DOMAIN v)
  <1> DEFINE n == Len(v)
             IsUpTo(g) == g = [m \in 0..n |-> IF m = 0 THEN 0 ELSE g[m - 1] + v[m]]
             upTo == CHOOSE g : IsUpTo(g)
             sum == [m \in 0..n |-> SumFunctionOnSet(v, 1..m)]
             N == {m \in Nat : m <= n => upTo[m] = sum[m]}
  <1>1. n \in Nat /\ DOMAIN v = 1..n /\ \A m \in 1..n : v[m] \in Int
    OBVIOUS
  <1>2. sum[0] = 0
    <2>1. 1..0 = {}
      OBVIOUS
    <2> QED
      BY <1>1, <2>1, SumEmpty
  <1>3. ASSUME NEW m \in 1..n PROVE sum[m] = sum[m - 1] + v[m] /\ sum[m] \in Int
    <2>1. /\ 1..m = (1..(m - 1)) \cup {m} /\ m \notin 1..(m - 1)
          /\ \A i \in 1..m : v[i] \in Int
          /\ m \in 0..n /\ m - 1 \in 0..n
      BY <1>1
    <2>2. IsFiniteSet(1..(m - 1)) /\ IsFiniteSet(1..m)
      BY <1>1, FS_Interval
    <2>3. SumFunctionOnSet(v, 1..m) = v[m] + SumFunctionOnSet(v, 1..(m - 1))
      BY <2>1, <2>2, SumAdd
    <2>4. /\ SumFunctionOnSet(v, 1..(m - 1)) \in Int /\ SumFunctionOnSet(v, 1..m) \in Int
          /\ v[m] \in Int
      BY <2>1, <2>2, SumInt
    <2> QED
      BY <2>1, <2>3, <2>4
  <1>4. IsUpTo(sum)
    <2>1. \A m \in 0..n : sum[m] = IF m = 0 THEN 0 ELSE sum[m - 1] + v[m]
      BY <1>1, <1>2, <1>3
    <2> DEFINE rec == [m \in 0..n |-> IF m = 0 THEN 0 ELSE sum[m - 1] + v[m]]
    <2>2. \A m \in 0..n : sum[m] = rec[m]
      BY <2>1
    <2>3. sum = rec
      <3>1. sum = [m \in 0..n |-> sum[m]] /\ rec = [m \in 0..n |-> rec[m]]
        OBVIOUS
      <3> HIDE DEF sum, rec
      <3> QED
        BY <2>2, <3>1
    <2> QED
      BY <2>3
  <1>5. IsUpTo(upTo)
    <2> HIDE DEF sum
    <2> QED
      BY <1>4
  <1>6. \A m \in 0..n : upTo[m] = IF m = 0 THEN 0 ELSE upTo[m - 1] + v[m]
    <2> HIDE DEF upTo
    <2>1. upTo = [m \in 0..n |-> IF m = 0 THEN 0 ELSE upTo[m - 1] + v[m]]
      BY <1>5
    <2> HIDE DEF IsUpTo, n
    <2> QED
      BY <2>1, Zenon
  <1>7. N = Nat
    <2> HIDE DEF upTo, sum, n
    <2>1. 0 \in N
      BY <1>1, <1>2, <1>6
    <2>2. ASSUME NEW m \in N PROVE m + 1 \in N
      <3>1. SUFFICES ASSUME m + 1 <= n PROVE upTo[m + 1] = sum[m + 1]
        OBVIOUS
      <3>2. m + 1 \in 1..n /\ m + 1 \in 0..n /\ m + 1 # 0 /\ (m + 1) - 1 = m /\ m <= n
        BY <1>1, <3>1
      <3>3. upTo[m + 1] = upTo[m] + v[m + 1] /\ sum[m + 1] = sum[m] + v[m + 1]
        BY <1>3, <1>6, <3>2
      <3>4. upTo[m] = sum[m]
        BY <3>2
      <3> QED
        BY <3>3, <3>4
    <2>3. N \in SUBSET Nat
      OBVIOUS
    <2> HIDE DEF N
    <2> QED
      BY <2>1, <2>2, <2>3, NatSetInduction
  <1>8. upTo[n] = sum[n]
    <2> HIDE DEF upTo, sum, n
    <2> QED
      BY <1>1, <1>7
  <1>9. sum[n] = SumFunctionOnSet(v, DOMAIN v)
    BY <1>1
  <1>10. SeqSum(v) = upTo[n]
    BY DEF SeqSum
  <1> QED
    BY <1>8, <1>9, <1>10

\* A sequence has finitely many positions.
LEMMA SeqDomain == ASSUME NEW v, NEW S, v \in Seq(S) PROVE IsFiniteSet(DOMAIN v)
  <1>1. DOMAIN v = 1..Len(v) /\ Len(v) \in Nat
    OBVIOUS
  <1> QED
    BY <1>1, FS_Interval

\* The sum of a sequence of integers is one.
LEMMA SeqSumInt == ASSUME NEW v \in Seq(Int) PROVE SeqSum(v) \in Int
  <1>1. \A i \in DOMAIN v : v[i] \in Int
    OBVIOUS
  <1> QED
    BY <1>1, SeqSumIsSum, SumInt, SeqDomain

\* The sum of a sequence of naturals is one.
LEMMA SeqSumNat == ASSUME NEW v \in Seq(Nat) PROVE SeqSum(v) \in Nat
  <1>1. v \in Seq(Int) /\ \A i \in DOMAIN v : v[i] \in Nat
    OBVIOUS
  <1> QED
    BY <1>1, SeqSumIsSum, SumNat, SeqDomain

\* The sum of two sequences in a row.
LEMMA SeqSumConcat ==
  ASSUME NEW v \in Seq(Int), NEW w \in Seq(Int)
  PROVE  SeqSum(v \o w) = SeqSum(v) + SeqSum(w)
  <1> DEFINE n == Len(v)
             m == Len(w)
             u == v \o w
             first == 1..n
             rest == (n + 1)..(n + m)
  <1>1. /\ n \in Nat /\ m \in Nat /\ DOMAIN v = 1..n /\ DOMAIN w = 1..m
        /\ u \in Seq(Int) /\ Len(u) = n + m /\ DOMAIN u = 1..(n + m)
        /\ \A i \in 1..n : u[i] = v[i] /\ v[i] \in Int
        /\ \A i \in 1..m : u[n + i] = w[i] /\ w[i] \in Int
        /\ \A i \in 1..(n + m) : u[i] \in Int
    OBVIOUS
  <1>2. first \cup rest = DOMAIN u /\ first \cap rest = {}
    BY <1>1
  <1>3. IsFiniteSet(first) /\ IsFiniteSet(rest) /\ IsFiniteSet(1..m)
    BY <1>1, FS_Interval
  <1>4. SumFunctionOnSet(u, DOMAIN u)
          = SumFunctionOnSet(u, first) + SumFunctionOnSet(u, rest)
    <2>1. \A i \in first \cup rest : u[i] \in Int
      BY <1>1, <1>2
    <2> HIDE DEF u, first, rest
    <2> QED
      BY <1>2, <1>3, <2>1, SumUnion
  <1>5. SumFunctionOnSet(u, first) = SumFunctionOnSet(v, first)
    <2>1. \A i \in first : v[i] \in Int /\ u[i] = v[i]
      BY <1>1
    <2> HIDE DEF u, first
    <2> QED
      BY <1>3, <2>1, SumEqual
  <1>6. SumFunctionOnSet(u, rest) = SumFunctionOnSet(w, 1..m)
    <2> DEFINE N == {k \in Nat : k <= m =>
                        SumFunctionOnSet(u, (n + 1)..(n + k)) = SumFunctionOnSet(w, 1..k)}
    <2> HIDE DEF u, n, m
    <2>1. 0 \in N
      <3>1. (n + 1)..(n + 0) = {} /\ 1..0 = {}
        BY <1>1
      <3> QED
        BY <3>1, SumEmpty
    <2>2. ASSUME NEW k \in N PROVE k + 1 \in N
      <3>1. SUFFICES ASSUME k + 1 <= m
                     PROVE  SumFunctionOnSet(u, (n + 1)..(n + (k + 1)))
                              = SumFunctionOnSet(w, 1..(k + 1))
        OBVIOUS
      <3> DEFINE A == (n + 1)..(n + k)
                 B == 1..k
      <3>0. k \in Nat
        OBVIOUS
      <3>2. /\ (n + 1)..(n + (k + 1)) = A \cup {n + (k + 1)} /\ n + (k + 1) \notin A
            /\ 1..(k + 1) = B \cup {k + 1} /\ k + 1 \notin B
            /\ u[n + (k + 1)] = w[k + 1]
            /\ \A i \in A \cup {n + (k + 1)} : u[i] \in Int
            /\ \A i \in B \cup {k + 1} : w[i] \in Int
        <4>1. n \in Nat /\ m \in Nat /\ k + 1 \in 1..m
          BY <1>1, <3>0, <3>1
        <4>2. /\ (n + 1)..(n + (k + 1)) = A \cup {n + (k + 1)} /\ n + (k + 1) \notin A
              /\ 1..(k + 1) = B \cup {k + 1} /\ k + 1 \notin B
          BY <3>0, <4>1
        <4>3. \A i \in A \cup {n + (k + 1)} : i \in 1..(n + m)
          BY <3>0, <4>1
        <4>4. \A i \in B \cup {k + 1} : i \in 1..m
          BY <3>0, <4>1
        <4> HIDE DEF A, B
        <4> QED
          BY <1>1, <4>1, <4>2, <4>3, <4>4
      <3>3. IsFiniteSet(A) /\ IsFiniteSet(B)
        <4>1. n + 1 \in Int /\ n + k \in Int
          BY <1>1, <3>0
        <4> QED
          BY <3>0, <4>1, FS_Interval
      <3>4. SumFunctionOnSet(u, A) = SumFunctionOnSet(w, B)
        BY <1>1, <3>1
      <3> HIDE DEF A, B, u
      <3>5. SumFunctionOnSet(u, A \cup {n + (k + 1)})
              = u[n + (k + 1)] + SumFunctionOnSet(u, A)
        BY <3>2, <3>3, SumAdd
      <3>6. SumFunctionOnSet(w, B \cup {k + 1}) = w[k + 1] + SumFunctionOnSet(w, B)
        BY <3>2, <3>3, SumAdd
      <3> QED
        BY <3>2, <3>4, <3>5, <3>6
    <2>3. N = Nat
      <3>1. N \in SUBSET Nat
        OBVIOUS
      <3> HIDE DEF N
      <3> QED
        BY <2>1, <2>2, <3>1, NatSetInduction
    <2>4. m \in N /\ m <= m
      BY <1>1, <2>3
    <2> QED
      BY <2>4
  <1>7. SeqSum(u) = SumFunctionOnSet(u, DOMAIN u)
    <2> HIDE DEF u
    <2> QED
      BY <1>1, SeqSumIsSum
  <1> QED
    BY <1>1, <1>4, <1>5, <1>6, <1>7, SeqSumIsSum

\* The sum of no terms.
LEMMA SeqSumEmpty == SeqSum(<<>>) = 0
  <1>1. <<>> \in Seq(Int) /\ DOMAIN <<>> = {}
    OBVIOUS
  <1> QED
    BY <1>1, SeqSumIsSum, SumEmpty

\* A term appended is a term added.
LEMMA SeqSumAppend ==
  ASSUME NEW v \in Seq(Int), NEW x \in Int
  PROVE  SeqSum(Append(v, x)) = SeqSum(v) + x
  <1>1. <<x>> \in Seq(Int) /\ Append(v, x) = v \o <<x>>
    OBVIOUS
  <1>2. DOMAIN <<x>> = {1} /\ <<x>>[1] = x
    OBVIOUS
  <1>3. SumFunctionOnSet(<<x>>, {1}) = x
    BY <1>2, SumOne
  <1>4. SeqSum(<<x>>) = x
    BY <1>1, <1>2, <1>3, SeqSumIsSum
  <1> QED
    BY <1>1, <1>4, SeqSumConcat

\* Two sequences are added place by place.
LEMMA SeqSumPlus ==
  ASSUME NEW u \in Seq(Int), NEW v \in Seq(Int), NEW w \in Seq(Int),
         DOMAIN u = DOMAIN v, DOMAIN u = DOMAIN w, \A i \in DOMAIN u : u[i] = v[i] + w[i]
  PROVE  SeqSum(u) = SeqSum(v) + SeqSum(w)
  <1>1. \A i \in DOMAIN u : v[i] \in Int /\ w[i] \in Int
    <2>1. \A s \in Seq(Int) : \A i \in DOMAIN s : s[i] \in Int
      OBVIOUS
    <2> QED
      BY <2>1
  <1>2. SumFunctionOnSet(u, DOMAIN u)
          = SumFunctionOnSet(v, DOMAIN u) + SumFunctionOnSet(w, DOMAIN u)
    BY <1>1, SeqDomain, SumPlus
  <1> QED
    BY <1>2, SeqSumIsSum

\* A sequence of zeros sums to zero.
LEMMA SeqSumZero ==
  ASSUME NEW v \in Seq(Int), \A i \in DOMAIN v : v[i] = 0
  PROVE  SeqSum(v) = 0
  BY SeqDomain, SumZero, SeqSumIsSum

\* Sequences that agree at every place have one sum.
LEMMA SeqSumEqual ==
  ASSUME NEW u \in Seq(Int), NEW v \in Seq(Int), DOMAIN u = DOMAIN v,
         \A i \in DOMAIN u : u[i] = v[i]
  PROVE  SeqSum(u) = SeqSum(v)
  <1>1. \A i \in DOMAIN u : v[i] \in Int
    OBVIOUS
  <1>2. SumFunctionOnSet(u, DOMAIN u) = SumFunctionOnSet(v, DOMAIN u)
    BY <1>1, SeqDomain, SumEqual
  <1> QED
    BY <1>2, SeqSumIsSum

\* Smaller terms have a smaller sum.
LEMMA SeqSumMonotone ==
  ASSUME NEW u \in Seq(Int), NEW v \in Seq(Int), DOMAIN u = DOMAIN v,
         \A i \in DOMAIN u : u[i] <= v[i]
  PROVE  SeqSum(u) <= SeqSum(v)
  <1>1. \A i \in DOMAIN u : u[i] \in Int /\ v[i] \in Int
    OBVIOUS
  <1>2. SumFunctionOnSet(u, DOMAIN u) <= SumFunctionOnSet(v, DOMAIN u)
    BY <1>1, SeqDomain, SumMonotone
  <1> QED
    BY <1>2, SeqSumIsSum

\* One term changed changes the sum by the difference.
LEMMA SeqSumChange ==
  ASSUME NEW u \in Seq(Int), NEW v \in Seq(Int), DOMAIN u = DOMAIN v, NEW k \in DOMAIN u,
         \A i \in DOMAIN u \ {k} : v[i] = u[i]
  PROVE  SeqSum(v) = SeqSum(u) + v[k] - u[k]
  <1>1. \A i \in DOMAIN u : u[i] \in Int /\ v[i] \in Int
    OBVIOUS
  <1>2. SumFunctionOnSet(v, DOMAIN u) = SumFunctionOnSet(u, DOMAIN u) + v[k] - u[k]
    BY <1>1, SeqDomain, SumChange
  <1> QED
    BY <1>2, SeqSumIsSum

\* No term of naturals is above their sum.
LEMMA SeqSumTerm ==
  ASSUME NEW v \in Seq(Nat), NEW k \in DOMAIN v
  PROVE  v[k] <= SeqSum(v)
  <1>1. v \in Seq(Int) /\ \A i \in DOMAIN v : v[i] \in Nat
    OBVIOUS
  <1> QED
    BY <1>1, SeqDomain, SumTerm, SeqSumIsSum

SeqGrouped(at, w, c, part, u, v) ==
    /\ DOMAIN v = DOMAIN w
    /\ \A i \in DOMAIN w : at[i] \in DOMAIN u /\ v[i] = c[at[i]] * w[i]
    /\ \A k \in DOMAIN u :
          /\ part[k] \in Seq(Int) /\ DOMAIN part[k] = DOMAIN w
          /\ c[k] \in Int /\ u[k] = c[k] * SeqSum(part[k])
          /\ \A i \in DOMAIN w : part[k][i] = IF at[i] = k THEN w[i] ELSE 0

\* The sum of a sequence may be taken group by group.
LEMMA SeqSumGroup ==
  ASSUME NEW u \in Seq(Int), NEW v \in Seq(Int), NEW w \in Seq(Int), NEW at, NEW c, NEW part,
         SeqGrouped(at, w, c, part, u, v)
  PROVE  SeqSum(u) = SeqSum(v)
  <1>1. \A i \in DOMAIN w : w[i] \in Int
    OBVIOUS
  <1>2. ASSUME NEW k \in DOMAIN u
        PROVE  u[k] = c[k] * SumFunctionOnSet(part[k], DOMAIN w)
    <2>1. SeqSum(part[k]) = SumFunctionOnSet(part[k], DOMAIN part[k])
      BY SeqSumIsSum DEF SeqGrouped
    <2> QED
      BY <2>1 DEF SeqGrouped
  <1>3. IsFiniteSet(DOMAIN u) /\ IsFiniteSet(DOMAIN w) /\ DOMAIN v = DOMAIN w
    BY SeqDomain DEF SeqGrouped
  <1>4. Grouped(DOMAIN u, DOMAIN w, at, w, c, part, u, v)
    BY <1>1, <1>2 DEF Grouped, SeqGrouped
  <1>5. SumFunctionOnSet(u, DOMAIN u) = SumFunctionOnSet(v, DOMAIN w)
    BY <1>3, <1>4, SumGroup
  <1> QED
    BY <1>3, <1>5, SeqSumIsSum

-----------------------------------------------------------------------------
(* Sequences of rows and requests.                                           *)

(* A function on 1..n is a sequence. *)
LEMMA FunctionIsSeq ==
  ASSUME NEW T, NEW n \in Nat, NEW f \in [1..n -> T]
  PROVE  f \in Seq(T) /\ DOMAIN f = 1..n /\ Len(f) = n
  OBVIOUS

(* Requests are sequences over the set they are made from. *)
LEMMA RequestsAreSequences ==
  ASSUME NEW S, NEW n \in Nat, NEW request \in Requests(S, n)
  PROVE  request \in Seq(S)
  <1> DEFINE orders(q) == {[i \in DOMAIN q |-> q[p[i]]] : p \in Bijection(DOMAIN q, DOMAIN q)}
  <1>1. PICK m \in 1..n : \E q \in [1..m -> S] : request = CHOOSE r \in orders(q) : TRUE
    BY DEF Requests
  <1>2. PICK q \in [1..m -> S] : request = CHOOSE r \in orders(q) : TRUE
    BY <1>1
  <1>3. DOMAIN q = 1..m /\ m \in Nat
    OBVIOUS
  <1>4. [i \in 1..m |-> i] \in Bijection(1..m, 1..m)
    BY DEF Bijection, Injection, Surjection, IsInjective
  <1>5. orders(q) # {}
    BY <1>3, <1>4
  <1>6. orders(q) \subseteq [1..m -> S]
    <2>1. SUFFICES ASSUME NEW p \in Bijection(1..m, 1..m)
                   PROVE  [i \in 1..m |-> q[p[i]]] \in [1..m -> S]
      BY <1>3
    <2>2. \A i \in 1..m : p[i] \in 1..m
      BY DEF Bijection, Injection
    <2> QED
      BY <2>2
  <1> HIDE DEF orders
  <1>7. request \in [1..m -> S]
    BY <1>2, <1>5, <1>6
  <1> QED
    BY <1>3, <1>7, FunctionIsSeq

(* The sum of f over the rows of a sequence. *)
Over(f, s) == SeqSum([i \in DOMAIN s |-> f[s[i]]])

(* The values summed are a sequence of integers. *)
LEMMA OverValues ==
  ASSUME NEW T, NEW f \in [T -> Int], NEW s \in Seq(T)
  PROVE  /\ [i \in DOMAIN s |-> f[s[i]]] \in Seq(Int)
         /\ Len([i \in DOMAIN s |-> f[s[i]]]) = Len(s)
  <1>1. DOMAIN s = 1..Len(s) /\ Len(s) \in Nat /\ \A i \in DOMAIN s : s[i] \in T
    OBVIOUS
  <1>2. [i \in DOMAIN s |-> f[s[i]]] \in [1..Len(s) -> Int]
    BY <1>1
  <1> QED
    BY <1>1, <1>2, FunctionIsSeq

(* A sum over rows is an integer, and a natural number when no row is negative. *)
LEMMA OverInt ==
  ASSUME NEW T, NEW f \in [T -> Int], NEW s \in Seq(T)
  PROVE  Over(f, s) \in Int
  BY OverValues, SeqSumInt DEF Over

\* Natural terms have a natural sum over any sequence of rows.
LEMMA OverNat ==
  ASSUME NEW T, NEW f \in [T -> Nat], NEW s \in Seq(T)
  PROVE  Over(f, s) \in Nat
  <1>1. DOMAIN s = 1..Len(s) /\ Len(s) \in Nat /\ \A i \in DOMAIN s : s[i] \in T
    OBVIOUS
  <1>2. [i \in DOMAIN s |-> f[s[i]]] \in [1..Len(s) -> Nat]
    BY <1>1
  <1> QED
    BY <1>1, <1>2, FunctionIsSeq, SeqSumNat DEF Over

(* No rows sum to nothing. *)
LEMMA OverEmpty == ASSUME NEW f PROVE Over(f, <<>>) = 0
  <1>1. [i \in DOMAIN <<>> |-> f[<<>>[i]]] = <<>>
    OBVIOUS
  <1> QED
    BY <1>1, SeqSumEmpty DEF Over

(* Rows added at the end add their sum. *)
LEMMA OverConcat ==
  ASSUME NEW T, NEW f \in [T -> Int], NEW s \in Seq(T), NEW t \in Seq(T)
  PROVE  Over(f, s \o t) = Over(f, s) + Over(f, t)
  <1> DEFINE u == [i \in DOMAIN s |-> f[s[i]]]
             v == [i \in DOMAIN t |-> f[t[i]]]
             w == [i \in DOMAIN (s \o t) |-> f[(s \o t)[i]]]
  <1>1. /\ u \in Seq(Int) /\ DOMAIN u = DOMAIN s
        /\ v \in Seq(Int) /\ DOMAIN v = DOMAIN t
    BY OverValues
  <1>2. s \o t \in Seq(T)
    OBVIOUS
  <1>3. w \in Seq(Int) /\ DOMAIN w = DOMAIN (s \o t)
    BY <1>2, OverValues
  <1>4. /\ Len(u) = Len(s) /\ Len(v) = Len(t) /\ Len(w) = Len(s) + Len(t)
        /\ Len(s) \in Nat /\ Len(t) \in Nat /\ DOMAIN s = 1..Len(s) /\ DOMAIN t = 1..Len(t)
        /\ DOMAIN (s \o t) = 1..(Len(s) + Len(t))
    <2>1. Len(u) = Len(s) /\ Len(v) = Len(t) /\ Len(w) = Len(s \o t)
      BY <1>2, OverValues
    <2>2. Len(s \o t) = Len(s) + Len(t)
      OBVIOUS
    <2>3. \A q \in Seq(T) : Len(q) \in Nat /\ DOMAIN q = 1..Len(q)
      OBVIOUS
    <2> HIDE DEF u, v, w
    <2> QED
      BY <1>2, <2>1, <2>2, <2>3
  <1>5. \A i \in DOMAIN s : (s \o t)[i] = s[i]
    OBVIOUS
  <1>6. \A i \in DOMAIN t : (s \o t)[Len(s) + i] = t[i]
    OBVIOUS
  <1>7. \A i \in 1..Len(s) : w[i] = u[i]
    BY <1>4, <1>5
  <1>8. \A i \in 1..Len(t) : w[Len(s) + i] = v[i]
    BY <1>4, <1>6
  <1> HIDE DEF u, v, w
  <1>9. w = u \o v
    <2>1. Len(u \o v) = Len(w) /\ u \o v \in Seq(Int)
      <3>1. Len(u \o v) = Len(u) + Len(v) /\ u \o v \in Seq(Int)
        BY <1>1
      <3> QED
        BY <3>1, <1>4
    <2>2. ASSUME NEW i \in 1..Len(w) PROVE (u \o v)[i] = w[i]
      <3>1. CASE i <= Len(s)
        BY <3>1, <1>1, <1>4, <1>7
      <3>2. CASE i > Len(s)
        <4>1. i - Len(s) \in 1..Len(t) /\ Len(s) + (i - Len(s)) = i
          BY <3>2, <1>4
        <4>2. w[i] = v[i - Len(s)]
          BY <4>1, <1>8
        <4>3. (u \o v)[Len(u) + (i - Len(s))] = v[i - Len(s)]
          <5>1. \A j \in 1..Len(v) : (u \o v)[Len(u) + j] = v[j]
            BY <1>1
          <5> QED
            BY <4>1, <5>1, <1>4
        <4> QED
          BY <4>1, <4>2, <4>3, <1>4
      <3> QED
        BY <3>1, <3>2, <1>4
    <2> QED
      BY <2>1, <2>2, <1>3, SeqEqual
  <1>10. SeqSum(w) = SeqSum(u) + SeqSum(v)
    BY <1>1, <1>9, SeqSumConcat
  <1> QED
    BY <1>10 DEF Over, u, v, w

\* A row appended adds its term.
LEMMA OverAppend ==
  ASSUME NEW T, NEW f \in [T -> Int], NEW s \in Seq(T), NEW x \in T
  PROVE  Over(f, Append(s, x)) = Over(f, s) + f[x]
  <1>1. <<x>> \in Seq(T) /\ Append(s, x) = s \o <<x>>
    OBVIOUS
  <1>2. Over(f, <<x>>) = f[x]
    <2>1. [i \in DOMAIN <<x>> |-> f[<<x>>[i]]] = <<f[x]>>
      OBVIOUS
    <2>2. <<>> \in Seq(Int) /\ f[x] \in Int /\ Append(<<>>, f[x]) = <<f[x]>>
      OBVIOUS
    <2>3. SeqSum(<<f[x]>>) = 0 + f[x]
      BY <2>2, SeqSumAppend, SeqSumEmpty
    <2> QED
      BY <2>1, <2>2, <2>3 DEF Over
  <1>3. Over(f, s \o <<x>>) = Over(f, s) + Over(f, <<x>>)
    BY <1>1, OverConcat
  <1> QED
    BY <1>1, <1>2, <1>3

(* Rows that count the same sum to the same. *)
Alike(f, s, g, t) == DOMAIN s = DOMAIN t /\ \A i \in DOMAIN s : f[s[i]] = g[t[i]]

\* Rows that are worth the same add up to the same.
LEMMA OverEqual ==
  ASSUME NEW f, NEW g, NEW s, NEW t, Alike(f, s, g, t)
  PROVE  Over(f, s) = Over(g, t)
  <1>1. [i \in DOMAIN s |-> f[s[i]]] = [i \in DOMAIN t |-> g[t[i]]]
    BY DEF Alike
  <1> QED
    BY <1>1 DEF Over

Replaced(s, t, k) == DOMAIN s = DOMAIN t /\ \A i \in DOMAIN s \ {k} : t[i] = s[i]

(* One row replaced changes the sum by the difference. *)
LEMMA OverChange ==
  ASSUME NEW T, NEW f \in [T -> Int], NEW s \in Seq(T), NEW t \in Seq(T),
         NEW k \in DOMAIN s, Replaced(s, t, k)
  PROVE  Over(f, t) = Over(f, s) + f[t[k]] - f[s[k]]
  <1> DEFINE u == [i \in DOMAIN s |-> f[s[i]]]
             v == [i \in DOMAIN t |-> f[t[i]]]
  <1>0. DOMAIN s = DOMAIN t /\ \A i \in DOMAIN s \ {k} : t[i] = s[i]
    BY DEF Replaced
  <1>1. u \in Seq(Int) /\ v \in Seq(Int)
    <2>1. u \in Seq(Int)
      BY OverValues
    <2>2. [i \in DOMAIN t |-> f[t[i]]] \in Seq(Int)
      BY OverValues
    <2> QED
      BY <2>1, <2>2
  <1>2. DOMAIN u = DOMAIN v /\ k \in DOMAIN u /\ \A i \in DOMAIN u \ {k} : v[i] = u[i]
    BY <1>0
  <1>3. u[k] = f[s[k]] /\ v[k] = f[t[k]]
    BY <1>0
  <1> HIDE DEF u, v
  <1>4. SeqSum(v) = SeqSum(u) + v[k] - u[k]
    BY <1>1, <1>2, SeqSumChange
  <1> QED
    BY <1>3, <1>4 DEF Over, u, v

(* Rows that change by different amounts change the sum by their sum. *)
Shifted(T, f, s, t, d) ==
    /\ f \in [T -> Int] /\ s \in Seq(T) /\ t \in Seq(T) /\ DOMAIN s = DOMAIN t
    /\ \A i \in DOMAIN s : d[i] \in Int /\ f[t[i]] = f[s[i]] + d[i]

\* Rows that are each worth more by a difference add up to the differences more.
LEMMA OverAdd ==
  ASSUME NEW T, NEW f, NEW s, NEW t, NEW d, Shifted(T, f, s, t, d)
  PROVE  Over(f, t) = Over(f, s) + SeqSum([i \in DOMAIN s |-> d[i]])
  <1> DEFINE u == [i \in DOMAIN s |-> f[s[i]]]
             v == [i \in DOMAIN t |-> f[t[i]]]
             w == [i \in DOMAIN s |-> d[i]]
  <1>0. f \in [T -> Int] /\ s \in Seq(T) /\ t \in Seq(T) /\ DOMAIN s = DOMAIN t
    BY DEF Shifted
  <1>1. u \in Seq(Int) /\ v \in Seq(Int)
    <2>1. u \in Seq(Int)
      BY <1>0, OverValues
    <2>2. [i \in DOMAIN t |-> f[t[i]]] \in Seq(Int)
      BY <1>0, OverValues
    <2> QED
      BY <2>1, <2>2
  <1>2. DOMAIN s = 1..Len(s) /\ Len(s) \in Nat
    BY <1>0
  <1>3. w \in [1..Len(s) -> Int]
    BY <1>2 DEF Shifted
  <1>4. w \in Seq(Int)
    BY <1>2, <1>3, FunctionIsSeq
  <1>5. DOMAIN v = DOMAIN u /\ DOMAIN v = DOMAIN w /\ \A i \in DOMAIN v : v[i] = u[i] + w[i]
    BY DEF Shifted
  <1> HIDE DEF u, v, w
  <1>6. SeqSum(v) = SeqSum(u) + SeqSum(w)
    BY <1>1, <1>4, <1>5, SeqSumPlus
  <1> QED
    BY <1>6 DEF Over, u, v, w

(* Rows that count nothing sum to nothing; rows none of which is negative to no less. *)
LEMMA OverZero ==
  ASSUME NEW T, NEW f \in [T -> Int], NEW s \in Seq(T), \A i \in DOMAIN s : f[s[i]] = 0
  PROVE  Over(f, s) = 0
  <1> DEFINE v == [i \in DOMAIN s |-> f[s[i]]]
  <1>1. v \in Seq(Int)
    BY OverValues
  <1>2. \A i \in DOMAIN v : v[i] = 0
    OBVIOUS
  <1> HIDE DEF v
  <1> QED
    BY <1>1, <1>2, SeqSumZero DEF Over, v

\* Rows worth nothing negative add up to nothing negative.
LEMMA OverPositive ==
  ASSUME NEW T, NEW f \in [T -> Int], NEW s \in Seq(T), \A i \in DOMAIN s : f[s[i]] >= 0
  PROVE  Over(f, s) >= 0
  <1>1. DOMAIN s = 1..Len(s) /\ Len(s) \in Nat /\ \A i \in DOMAIN s : s[i] \in T
    OBVIOUS
  <1>2. [i \in DOMAIN s |-> f[s[i]]] \in [1..Len(s) -> Nat]
    BY <1>1
  <1>3. SeqSum([i \in DOMAIN s |-> f[s[i]]]) \in Nat
    BY <1>1, <1>2, FunctionIsSeq, SeqSumNat
  <1> QED
    BY <1>3 DEF Over

(* A row that counts no more everywhere sums to no more. *)
LEMMA OverMonotone ==
  ASSUME NEW T, NEW f \in [T -> Int], NEW g \in [T -> Int], NEW s \in Seq(T),
         \A i \in DOMAIN s : f[s[i]] <= g[s[i]]
  PROVE  Over(f, s) <= Over(g, s)
  <1> DEFINE u == [i \in DOMAIN s |-> f[s[i]]]
             v == [i \in DOMAIN s |-> g[s[i]]]
  <1>1. u \in Seq(Int)
    BY OverValues
  <1>2. v \in Seq(Int)
    BY OverValues
  <1>3. DOMAIN u = DOMAIN v /\ \A i \in DOMAIN u : u[i] <= v[i]
    OBVIOUS
  <1> HIDE DEF u, v
  <1> QED
    BY <1>1, <1>2, <1>3, SeqSumMonotone DEF Over, u, v

(* What a request asks of a line it does not name is nothing. *)
LEMMA AskedNat ==
  ASSUME NEW T, NEW request \in Seq(T), \A i \in DOMAIN request : request[i].qty \in Nat, NEW l
  PROVE  /\ Asked(request, l) \in Nat
         /\ (\A i \in DOMAIN request : request[i].at # l) => Asked(request, l) = 0
  <1> DEFINE w == [i \in DOMAIN request |-> IF request[i].at = l THEN request[i].qty ELSE 0]
  <1>1. DOMAIN request = 1..Len(request) /\ Len(request) \in Nat
    OBVIOUS
  <1>2. w \in [1..Len(request) -> Nat]
    BY <1>1
  <1>3. w \in Seq(Nat) /\ w \in Seq(Int)
    BY <1>1, <1>2, FunctionIsSeq, SeqMonotonic
  <1>4. Asked(request, l) = SeqSum(w)
    BY DEF Asked, SumWhere
  <1>5. (\A i \in DOMAIN request : request[i].at # l) => \A i \in DOMAIN w : w[i] = 0
    OBVIOUS
  <1> HIDE DEF w
  <1> QED
    BY <1>3, <1>4, <1>5, SeqSumNat, SeqSumZero

(* What is asked of the lines, each weighed with c, is what the request asks, *)
(* each weighed with c of its line.                                           *)
LEMMA AskedGroup ==
  ASSUME NEW T, NEW request \in Seq(T), NEW S, NEW n \in Nat, NEW c \in [1..n -> Int],
         \A i \in DOMAIN request : request[i].qty \in Nat /\ request[i].at \in 1..n
  PROVE  SeqSum([k \in 1..n |-> c[k] * Asked(request, k)])
           = SeqSum([i \in DOMAIN request |-> c[request[i].at] * request[i].qty])
  <1> DEFINE part == [k \in 1..n |-> [i \in DOMAIN request |->
                         IF request[i].at = k THEN request[i].qty ELSE 0]]
             u == [k \in 1..n |-> c[k] * Asked(request, k)]
             w == [i \in DOMAIN request |-> request[i].qty]
             v == [i \in DOMAIN request |-> c[request[i].at] * request[i].qty]
             at == [i \in DOMAIN request |-> request[i].at]
  <1>1. DOMAIN request = 1..Len(request) /\ Len(request) \in Nat
    OBVIOUS
  <1>2. \A x, y \in Int : x * y \in Int
    OBVIOUS
  <1>3. \A k : Asked(request, k) \in Nat
    BY AskedNat
  <1>4. u \in Seq(Int) /\ DOMAIN u = 1..n
    <2>1. u \in [1..n -> Int]
      BY <1>2, <1>3
    <2> QED
      BY <2>1, FunctionIsSeq
  <1>5. v \in Seq(Int) /\ DOMAIN v = DOMAIN request
    <2>1. v \in [1..Len(request) -> Int]
      BY <1>1, <1>2
    <2> QED
      BY <1>1, <2>1, FunctionIsSeq
  <1>6. w \in Seq(Int) /\ DOMAIN w = DOMAIN request
    <2>1. w \in [1..Len(request) -> Int]
      BY <1>1
    <2> QED
      BY <1>1, <2>1, FunctionIsSeq
  <1>7. \A k \in 1..n : part[k] \in Seq(Int) /\ DOMAIN part[k] = DOMAIN request
    <2>1. ASSUME NEW k \in 1..n PROVE part[k] \in [1..Len(request) -> Int]
      BY <1>1
    <2> QED
      BY <1>1, <2>1, FunctionIsSeq
  <1>8. \A k \in 1..n : SeqSum(part[k]) = Asked(request, k)
    BY DEF Asked, SumWhere
  <1>9. \A k \in 1..n : u[k] = c[k] * SeqSum(part[k])
    BY <1>8
  <1>10. \A k \in 1..n : \A i \in DOMAIN request :
            part[k][i] = IF at[i] = k THEN w[i] ELSE 0
    OBVIOUS
  <1>11. \A i \in DOMAIN request : at[i] \in 1..n /\ v[i] = c[at[i]] * w[i]
    OBVIOUS
  <1>12. \A k \in 1..n : c[k] \in Int
    OBVIOUS
  <1> HIDE DEF u, v, w, at, part
  <1>13. SeqGrouped(at, w, c, part, u, v)
    BY <1>4, <1>5, <1>6, <1>7, <1>9, <1>10, <1>11, <1>12 DEF SeqGrouped
  <1>14. SeqSum(u) = SeqSum(v)
    BY <1>4, <1>5, <1>6, <1>13, SeqSumGroup
  <1> QED
    BY <1>14 DEF u, v

(* A sum all of whose terms but one are zero. *)
LEMMA SeqSumOnly ==
  ASSUME NEW v \in Seq(Int), NEW k \in DOMAIN v, \A i \in DOMAIN v \ {k} : v[i] = 0
  PROVE  SeqSum(v) = v[k]
  <1> DEFINE z == [i \in DOMAIN v |-> 0]
  <1>1. DOMAIN v = 1..Len(v) /\ Len(v) \in Nat /\ v[k] \in Int
    OBVIOUS
  <1>2. z \in [1..Len(v) -> Int]
    BY <1>1
  <1>3. z \in Seq(Int) /\ DOMAIN z = DOMAIN v
    BY <1>1, <1>2, FunctionIsSeq
  <1>4. \A i \in DOMAIN v : z[i] = 0
    OBVIOUS
  <1> HIDE DEF z
  <1>5. SeqSum(z) = 0
    BY <1>3, <1>4, SeqSumZero
  <1>6. SeqSum(v) = SeqSum(z) + v[k] - z[k]
    BY <1>3, <1>4, SeqSumChange
  <1> QED
    BY <1>1, <1>4, <1>5, <1>6

(* What is asked of a line a request names once. *)
LEMMA AskedOnce ==
  ASSUME NEW T, NEW request \in Seq(T), \A i \in DOMAIN request : request[i].qty \in Nat,
         NEW k \in DOMAIN request,
         \A i \in DOMAIN request : request[i].at = request[k].at => i = k
  PROVE  Asked(request, request[k].at) = request[k].qty
  <1> DEFINE v == [i \in DOMAIN request |->
                     IF request[i].at = request[k].at THEN request[i].qty ELSE 0]
  <1>1. DOMAIN request = 1..Len(request) /\ Len(request) \in Nat
    OBVIOUS
  <1>2. v \in [1..Len(request) -> Int]
    BY <1>1
  <1>3. v \in Seq(Int) /\ DOMAIN v = DOMAIN request
    BY <1>1, <1>2, FunctionIsSeq
  <1>4. v[k] = request[k].qty /\ \A i \in DOMAIN v \ {k} : v[i] = 0
    OBVIOUS
  <1>5. Asked(request, request[k].at) = SeqSum(v)
    BY DEF Asked, SumWhere
  <1> HIDE DEF v
  <1> QED
    BY <1>3, <1>4, <1>5, SeqSumOnly

(* A sum of equal terms. *)
LEMMA SeqSumConst ==
  ASSUME NEW c \in Int, NEW n \in Nat
  PROVE  SeqSum([i \in 1..n |-> c]) = c * n
  <1> DEFINE N == {m \in Nat : SeqSum([i \in 1..m |-> c]) = c * m}
  <1>1. 0 \in N
    <2>1. [i \in 1..0 |-> c] = <<>> /\ c * 0 = 0
      OBVIOUS
    <2> QED
      BY <2>1, SeqSumEmpty
  <1>2. ASSUME NEW m \in N PROVE m + 1 \in N
    <2> DEFINE v == [i \in 1..m |-> c]
    <2>1. v \in Seq(Int) /\ m \in Nat /\ SeqSum(v) = c * m
      OBVIOUS
    <2>2. [i \in 1..(m + 1) |-> c] = Append(v, c)
      BY <2>1
    <2> HIDE DEF v
    <2>3. SeqSum(Append(v, c)) = SeqSum(v) + c
      BY <2>1, SeqSumAppend
    <2>4. c * m + c = c * (m + 1)
      BY <2>1
    <2>5. SeqSum([i \in 1..(m + 1) |-> c]) = c * (m + 1)
      BY <2>1, <2>2, <2>3, <2>4
    <2> QED
      BY <2>1, <2>5
  <1>3. N = Nat
    <2>1. N \in SUBSET Nat
      OBVIOUS
    <2> HIDE DEF N
    <2> QED
      BY <1>1, <1>2, <2>1, NatSetInduction
  <1> QED
    BY <1>3

(* A multiple of a sum is the sum of the multiples. *)
LEMMA SeqSumScale ==
  ASSUME NEW v \in Seq(Int), NEW c \in Int
  PROVE  /\ [i \in DOMAIN v |-> c * v[i]] \in Seq(Int)
         /\ SeqSum([i \in DOMAIN v |-> c * v[i]]) = c * SeqSum(v)
  <1> DEFINE w == [i \in DOMAIN v |-> c * v[i]]
  <1>1. DOMAIN v = 1..Len(v) /\ Len(v) \in Nat /\ \A i \in DOMAIN v : v[i] \in Int
    OBVIOUS
  <1>2. w \in [1..Len(v) -> Int]
    BY <1>1
  <1>3. w \in Seq(Int) /\ DOMAIN w = DOMAIN v
    BY <1>1, <1>2, FunctionIsSeq
  <1>4. \A i \in DOMAIN v : w[i] = c * v[i]
    OBVIOUS
  <1> HIDE DEF w
  <1>5. SumFunctionOnSet(w, DOMAIN v) = c * SumFunctionOnSet(v, DOMAIN v)
    BY <1>1, <1>4, SeqDomain, SumScale
  <1> QED
    BY <1>3, <1>5, SeqSumIsSum DEF w

(* Sums of terms bounded one by one are bounded by the sums of their bounds. *)
LEMMA SeqSumBound ==
  ASSUME NEW u \in Seq(Int), NEW v \in Seq(Int), NEW w \in Seq(Int),
         DOMAIN u = DOMAIN v, DOMAIN w = DOMAIN u, NEW a \in Int, NEW b \in Int,
         \A i \in DOMAIN u : a * u[i] <= b * v[i] + w[i]
  PROVE  a * SeqSum(u) <= b * SeqSum(v) + SeqSum(w)
  <1> DEFINE au == [i \in DOMAIN u |-> a * u[i]]
             bv == [i \in DOMAIN v |-> b * v[i]]
             sum == [i \in DOMAIN u |-> bv[i] + w[i]]
  <1>1. /\ DOMAIN u = 1..Len(u) /\ Len(u) \in Nat
        /\ \A i \in DOMAIN u : u[i] \in Int /\ v[i] \in Int /\ w[i] \in Int
    OBVIOUS
  <1>2. /\ au \in Seq(Int) /\ SeqSum(au) = a * SeqSum(u) /\ DOMAIN au = DOMAIN u
        /\ bv \in Seq(Int) /\ SeqSum(bv) = b * SeqSum(v) /\ DOMAIN bv = DOMAIN u
    BY SeqSumScale
  <1>3. \A i \in DOMAIN u : au[i] = a * u[i] /\ bv[i] = b * v[i] /\ bv[i] \in Int
    BY <1>1, <1>2
  <1> HIDE DEF au, bv
  <1>4. sum \in [1..Len(u) -> Int]
    BY <1>1, <1>3
  <1>5. sum \in Seq(Int) /\ DOMAIN sum = DOMAIN u
    BY <1>1, <1>4, FunctionIsSeq
  <1>6. \A i \in DOMAIN u : sum[i] = bv[i] + w[i]
    OBVIOUS
  <1> HIDE DEF sum
  <1>7. SeqSum(sum) = SeqSum(bv) + SeqSum(w)
    BY <1>2, <1>5, <1>6, SeqSumPlus
  <1>8. \A i \in DOMAIN au : au[i] <= sum[i]
    BY <1>2, <1>3, <1>6
  <1>9. SeqSum(au) <= SeqSum(sum)
    BY <1>2, <1>5, <1>8, SeqSumMonotone
  <1> QED
    BY <1>2, <1>7, <1>9

(* Sums of terms that stay within c of each other stay within c for each term. *)
LEMMA SeqSumWithin ==
  ASSUME NEW u \in Seq(Int), NEW v \in Seq(Int), DOMAIN u = DOMAIN v,
         NEW a \in Int, NEW b \in Int, NEW c \in Int,
         \A i \in DOMAIN u : a * u[i] <= b * v[i] + c
  PROVE  a * SeqSum(u) <= b * SeqSum(v) + c * Len(u)
  <1> DEFINE w == [i \in 1..Len(u) |-> c]
  <1>1. DOMAIN u = 1..Len(u) /\ Len(u) \in Nat
    OBVIOUS
  <1>2. SeqSum(w) = c * Len(u)
    BY <1>1, SeqSumConst
  <1>3. w \in Seq(Int) /\ DOMAIN w = DOMAIN u
    <2>1. w \in [1..Len(u) -> Int]
      OBVIOUS
    <2> QED
      BY <1>1, <2>1, FunctionIsSeq
  <1>4. \A i \in DOMAIN u : a * u[i] <= b * v[i] + w[i]
    BY <1>1
  <1> HIDE DEF w
  <1> QED
    BY <1>2, <1>3, <1>4, SeqSumBound

-----------------------------------------------------------------------------
(* Rounding.                                                                 *)
LEMMA HalfEvenBounds ==
  ASSUME NEW n \in Int, NEW d \in Nat \ {0}
  PROVE  /\ HalfEven(n, d) \in Int
         /\ 2 * (n - d * HalfEven(n, d)) <= d
         /\ -d <= 2 * (n - d * HalfEven(n, d))
  <1> DEFINE q == n \div d
             r == n % d
  <1>1. q \in Int /\ r \in 0..(d - 1) /\ n = d * q + r
    OBVIOUS
  <1>2. CASE 2 * r > d \/ (2 * r = d /\ q % 2 = 1)
    <2>1. HalfEven(n, d) = q + 1
      BY <1>2 DEF HalfEven
    <2>2. d * (q + 1) = d * q + d
      BY <1>1
    <2> HIDE DEF q, r
    <2> QED
      BY <1>1, <1>2, <2>1, <2>2
  <1>3. CASE ~(2 * r > d \/ (2 * r = d /\ q % 2 = 1))
    <2>1. HalfEven(n, d) = q
      BY <1>3 DEF HalfEven
    <2> HIDE DEF q, r
    <2>2. 2 * r <= d
      BY <1>1, <1>3
    <2> QED
      BY <1>1, <2>1, <2>2
  <1> QED
    BY <1>2, <1>3

\* Rounding half to even takes naturals to naturals.
LEMMA HalfEvenNat ==
  ASSUME NEW n \in Nat, NEW d \in Nat \ {0}
  PROVE  HalfEven(n, d) \in Nat
  <1> DEFINE h == HalfEven(n, d)
  <1>1. h \in Int /\ 2 * (n - d * h) <= d
    BY HalfEvenBounds
  <1> HIDE DEF h
  <1>2. ASSUME h <= -1 PROVE FALSE
    <2>1. d * h <= -d
      BY <1>1, <1>2
    <2> QED
      BY <1>1, <2>1
  <1> QED
    BY <1>1, <1>2 DEF h

\* It leaves what is a whole multiple already.
LEMMA HalfEvenExact ==
  ASSUME NEW m \in Int, NEW d \in Nat \ {0}
  PROVE  HalfEven(d * m, d) = m
  <1> DEFINE h == HalfEven(d * m, d)
  <1>1. d * m \in Int
    OBVIOUS
  <1>2. h \in Int /\ 2 * (d * m - d * h) <= d /\ -d <= 2 * (d * m - d * h)
    BY <1>1, HalfEvenBounds
  <1> HIDE DEF h
  <1>3. d * m - d * h = d * (m - h)
    BY <1>2
  <1>4. ASSUME m - h >= 1 PROVE FALSE
    <2>1. d * (m - h) >= d
      BY <1>2, <1>4
    <2> QED
      BY <1>2, <1>3, <2>1
  <1>5. ASSUME m - h <= -1 PROVE FALSE
    <2>1. d * (m - h) <= -d
      BY <1>2, <1>5
    <2> QED
      BY <1>2, <1>3, <2>1
  <1> QED
    BY <1>2, <1>4, <1>5 DEF h

-----------------------------------------------------------------------------
\* Products stay among the naturals and the integers.
LEMMA Products ==
  /\ \A x, y \in Nat : x * y \in Nat
  /\ \A x, y \in Int : x * y \in Int
  <1>1. \A x, y \in Int : x * y \in Int
    OBVIOUS
  <1>2. ASSUME NEW x \in Nat, NEW y \in Nat PROVE x * y \in Nat
    OBVIOUS
  <1> QED
    BY <1>1, <1>2

(* Amounts that agree but for roundings: s times a is b, up to s/2 for each of r. *)

Near(s, a, b, r) == 2 * (s * a - b) <= s * r /\ -(s * r) <= 2 * (s * a - b)

\* Such amounts, added up or taken back.
LEMMA NearAdds ==
  ASSUME NEW s \in Int, NEW a \in Int, NEW b \in Int, NEW r \in Int,
         NEW x \in Int, NEW y \in Int, NEW z \in Int, Near(s, a, b, r), Near(s, x, y, z)
  PROVE  Near(s, a + x, b + y, r + z) /\ Near(s, a - x, b - y, r + z)
  <1>1. /\ s * (a + x) = s * a + s * x /\ s * (a - x) = s * a - s * x
        /\ s * (r + z) = s * r + s * z
    OBVIOUS
  <1>2. s * a \in Int /\ s * x \in Int /\ s * r \in Int /\ s * z \in Int
    BY Products
  <1>3. \A sa, sx, p, q, sr, sz \in Int :
           /\ 2 * (sa - p) <= sr /\ -sr <= 2 * (sa - p)
           /\ 2 * (sx - q) <= sz /\ -sz <= 2 * (sx - q)
           => /\ 2 * ((sa + sx) - (p + q)) <= sr + sz
              /\ -(sr + sz) <= 2 * ((sa + sx) - (p + q))
              /\ 2 * ((sa - sx) - (p - q)) <= sr + sz
              /\ -(sr + sz) <= 2 * ((sa - sx) - (p - q))
    OBVIOUS
  <1> QED
    BY <1>1, <1>2, <1>3 DEF Near

\* Rounding half even is one rounding.
LEMMA HalfEvenNear ==
  ASSUME NEW n \in Int, NEW d \in Nat \ {0}
  PROVE  HalfEven(n, d) \in Int /\ Near(d, HalfEven(n, d), n, 1)
  <1> DEFINE h == HalfEven(n, d)
  <1>1. h \in Int /\ 2 * (n - d * h) <= d /\ -d <= 2 * (n - d * h)
    BY HalfEvenBounds
  <1> HIDE DEF h
  <1>2. d * h \in Int /\ d * 1 = d
    BY <1>1, Products
  <1>3. \A dh, m, s \in Int : 2 * (m - dh) <= s /\ -s <= 2 * (m - dh)
                               => 2 * (dh - m) <= s /\ -s <= 2 * (dh - m)
    OBVIOUS
  <1>4. Near(d, h, n, 1)
    BY <1>1, <1>2, <1>3 DEF Near
  <1> QED
    BY <1>1, <1>4 DEF h

\* Amounts that agree row by row agree as sums.
LEMMA NearSum ==
  ASSUME NEW s \in Int, NEW u \in Seq(Int), NEW v \in Seq(Int), NEW w \in Seq(Int),
         DOMAIN u = DOMAIN v, DOMAIN u = DOMAIN w,
         \A i \in DOMAIN u : Near(s, u[i], v[i], w[i])
  PROVE  Near(s, SeqSum(u), SeqSum(v), SeqSum(w))
  <1> DEFINE sw == [i \in DOMAIN w |-> s * w[i]]
             a == 2 * s
  <1>1. sw \in Seq(Int) /\ SeqSum(sw) = s * SeqSum(w)
    BY SeqSumScale
  <1>2. \A i \in DOMAIN u : /\ u[i] \in Int /\ v[i] \in Int /\ w[i] \in Int
                            /\ sw[i] = s * w[i]
    <2>1. \A t \in Seq(Int) : \A i \in DOMAIN t : t[i] \in Int
      OBVIOUS
    <2>2. \A i \in DOMAIN w : sw[i] = s * w[i]
      OBVIOUS
    <2> QED
      BY <2>1, <2>2
  <1>3. SeqSum(u) \in Int /\ SeqSum(v) \in Int /\ SeqSum(w) \in Int
    BY SeqSumInt
  <1>4. DOMAIN sw = DOMAIN u
    OBVIOUS
  <1> HIDE DEF sw
  <1>5. ASSUME NEW i \in DOMAIN u
        PROVE  a * u[i] <= 2 * v[i] + sw[i] /\ 2 * v[i] <= a * u[i] + sw[i]
    <2>1. /\ 2 * (s * u[i] - v[i]) <= s * w[i] /\ -(s * w[i]) <= 2 * (s * u[i] - v[i])
      BY DEF Near
    <2>2. s * u[i] \in Int /\ s * w[i] \in Int /\ a * u[i] = 2 * (s * u[i])
      <3>1. u[i] \in Int /\ w[i] \in Int /\ s \in Int
        BY <1>2
      <3>2. s * u[i] \in Int /\ s * w[i] \in Int
        BY <3>1, Products
      <3>3. \A x \in Int : (2 * s) * x = 2 * (s * x)
        BY <3>1
      <3> QED
        BY <3>1, <3>2, <3>3 DEF a
    <2>3. \A su, p, sr \in Int : 2 * (su - p) <= sr /\ -sr <= 2 * (su - p)
             => 2 * su <= 2 * p + sr /\ 2 * p <= 2 * su + sr
      OBVIOUS
    <2> HIDE DEF a
    <2> QED
      BY <1>2, <2>1, <2>2, <2>3
  <1>6. a \in Int /\ 2 \in Int
    OBVIOUS
  <1> HIDE DEF a
  <1>7. a * SeqSum(u) <= 2 * SeqSum(v) + SeqSum(sw)
    BY <1>1, <1>4, <1>5, <1>6, SeqSumBound
  <1>8. 2 * SeqSum(v) <= a * SeqSum(u) + SeqSum(sw)
    BY <1>1, <1>4, <1>5, <1>6, SeqSumBound
  <1> DEFINE x == SeqSum(u)
             y == SeqSum(v)
             z == SeqSum(w)
  <1>9. a * x <= 2 * y + s * z /\ 2 * y <= a * x + s * z
    BY <1>1, <1>7, <1>8
  <1>10. x \in Int /\ y \in Int /\ z \in Int
    BY <1>3
  <1> HIDE DEF x, y, z
  <1>11. a * x = 2 * (s * x) /\ s * x \in Int /\ s * z \in Int
    BY <1>10, Products DEF a
  <1>12. \A sx, p, sz \in Int : 2 * sx <= 2 * p + sz /\ 2 * p <= 2 * sx + sz
            => 2 * (sx - p) <= sz /\ -sz <= 2 * (sx - p)
    OBVIOUS
  <1>13. Near(s, x, y, z)
    BY <1>9, <1>10, <1>11, <1>12 DEF Near
  <1> QED
    BY <1>13 DEF x, y, z
=============================================================================
