---------------------------- MODULE MCAccounting ----------------------------
(* Accounting on two sessions and three batch ids: a voucher, its reversal  *)
(* and the reversal of that.  Amounts are in halves of the ledger unit      *)
(* (Scale = 2), so that rounding half to even matters.                      *)
EXTENDS Accounting

Line(a, d, c) == [account |-> a, debit |-> d, credit |-> c]

\* 1: plain.  2: balanced before rounding, not after.  3: balanced after
\* rounding only.  4: balanced, but with a negative credit.
MCRawVouchers ==
    { << Line("cash", 4, 0), Line("sales", 0, 4) >>,
      << Line("cash", 5, 0), Line("sales", 0, 3), Line("tax", 0, 2) >>,
      << Line("cash", 3, 0), Line("sales", 0, 4) >>,
      << Line("cash", 4, -4), Line("sales", 0, 8) >> }
=============================================================================
