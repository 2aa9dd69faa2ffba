---------------------------- MODULE MCAuditTrail ----------------------------
(* A small instance of AuditTrail for TLC.                                 *)
EXTENDS AuditTrail, TLC

CONSTANT m1     \* a maturity

(* m1 needs three attempts, the others one.                                *)
RetryFirst == [m \in Maturities |-> IF m = m1 THEN "transient_then_success"
                                               ELSE "success"]

(* The processes of one kind are interchangeable.                          *)
ProcessSymmetry == Permutations(Workers) \union Permutations(Schedulers)
                     \union Permutations(Admins)
=============================================================================
