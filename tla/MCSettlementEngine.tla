------------------------- MODULE MCSettlementEngine -------------------------
(* Small instances of SettlementEngine for TLC.                            *)
EXTENDS SettlementEngine, TLC

CONSTANTS m1, m2    \* maturities

(* m1 needs three attempts, m2 never succeeds.                             *)
RetryAndTerminal == m1 :> "transient_then_success" @@ m2 :> "terminal_failure"

(* m1 needs three attempts, the others one.                                *)
RetryFirst == [m \in Maturities |-> IF m = m1 THEN "transient_then_success"
                                              ELSE "success"]

(* Every maturity pays at the first attempt.                               *)
AllClean == [m \in Maturities |-> "success"]

(* The processes of one kind are interchangeable.                          *)
ProcessSymmetry == Permutations(Workers) \union Permutations(Schedulers)
                     \union Permutations(Admins)
=============================================================================
