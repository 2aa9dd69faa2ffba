-------------------------- MODULE MCReconciliation --------------------------
(* A small instance of Reconciliation for TLC.                             *)
EXTENDS Reconciliation, FiniteSetsExt, TLC

CONSTANTS m1, m2, r1, r2

NetPayouts == m1 :> 3 @@ m2 :> 2

(* TotalCents is the sum of the net payouts.                               *)
ASSUME TotalIsSum == \A jobs \in SUBSET Maturities :
    TotalCents(jobs) = MapThenSumSet(LAMBDA m : Net[m], jobs)

RequestSymmetry == Permutations({r1, r2})
=============================================================================
