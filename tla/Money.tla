--------------------------------- MODULE Money ---------------------------------
(***************************************************************************)
(* Arithmetic the document modules share: rounded amounts, sums over       *)
(* records, and the requests callers make.                                 *)
(***************************************************************************)
EXTENDS Integers, Sequences, FiniteSets, Functions

\* amount(x): n / d rounded half to even (n may be negative, d is positive).
HalfEven(n, d) ==
    LET q == n \div d
        r == 2 * (n % d)
    IN  IF r > d \/ (r = d /\ q % 2 = 1) THEN q + 1 ELSE q

\* The sum of a sequence of integers.
SeqSum(v) ==
    LET upTo[n \in 0..Len(v)] == IF n = 0 THEN 0 ELSE upTo[n - 1] + v[n]
    IN  upTo[Len(v)]

\* The sum of a field over a sequence of records.
Total(s, field) == SeqSum([i \in DOMAIN s |-> s[i][field]])

\* The sum of f over the elements of a sequence that satisfy P.
SumWhere(s, P(_), f(_)) == SeqSum([i \in DOMAIN s |-> IF P(s[i]) THEN f(s[i]) ELSE 0])

\* The quantity a request asks of one line.
Asked(request, l) == SumWhere(request, LAMBDA x : x.at = l, LAMBDA x : x.qty)

\* Requests of one to n lines, a line named several times included.  Lines come in
\* one order of many: what a handler does to its document does not depend on it.
Requests(S, n) ==
    LET orders(q) == {[i \in DOMAIN q |-> q[p[i]]] : p \in Bijection(DOMAIN q, DOMAIN q)}
    IN  {CHOOSE request \in orders(q) : TRUE : q \in UNION {[1..i -> S] : i \in 1..n}}

Smaller(a, b) == IF a < b THEN a ELSE b

Always(x) == TRUE
=============================================================================
