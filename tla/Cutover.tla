--------------------------------- MODULE Cutover ---------------------------------
(***************************************************************************)
(* What a migration promises, whatever crashes, is retried or runs twice:  *)
(* a source record becomes at most one document of the target, after the   *)
(* documents it refers to; a run posts each of its opening balances at     *)
(* most once; neither is taken back.                                       *)
(***************************************************************************)
EXTENDS Naturals, FiniteSets

CONSTANTS
    Records,   \* records of the source system
    Needs,     \* Needs[k]: the records record k refers to
    Excused,   \* records that end in the archive and become no document
    Runs       \* migration runs of the source

VARIABLES
    imported,  \* imported[k]: documents of the target made from record k
    openings   \* openings[r]: opening vouchers of run r

vars == <<imported, openings>>

Init ==
    /\ imported = [k \in Records |-> 0]
    /\ openings = [r \in Runs |-> [stock |-> 0, ledger |-> 0]]

Import(k) ==
    /\ imported[k] = 0
    /\ \A n \in Needs[k] \ Excused : imported[n] = 1
    /\ imported' = [imported EXCEPT ![k] = 1]
    /\ UNCHANGED openings

Open(r, part) ==
    /\ openings[r][part] = 0
    /\ openings' = [openings EXCEPT ![r][part] = 1]
    /\ UNCHANGED imported

Next ==
    \/ \E k \in Records : Import(k)
    \/ \E r \in Runs, part \in {"stock", "ledger"} : Open(r, part)

Spec == Init /\ [][Next]_vars
=============================================================================
