----------------------------- MODULE MCMigrationRun -----------------------------
(* MigrationRun on a source of four orders in two pages and a note that has  *)
(* no handler.  The second order refers to the first and has a payload that  *)
(* is rejected, the third is cancelled, the fourth closed and old.           *)
EXTENDS MigrationRun, TLC

CONSTANTS s1, s2

MCObjects == <<"orders", "notes">>
MCContent == [o \in {"orders", "notes"} |-> IF o = "orders" THEN <<"o1", "o2", "o3", "o4">> ELSE <<"n1">>]
MCNeeds == [k \in {"o1", "o2", "o3", "o4", "n1"} |-> IF k = "o2" THEN {"o1"} ELSE {}]
MCControls == {{}, {"stock", "ledger"}}
MCInvalid == {<<"o2", 2>>}
Symmetry == Permutations(Sessions)
=============================================================================
