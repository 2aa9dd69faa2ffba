--------------------------- MODULE MCRetryBackoff ---------------------------
(* A small instance of RetryBackoff for TLC.                               *)
EXTENDS RetryBackoff, TLC

(* Jobs are interchangeable, and so are workers.                           *)
Symmetry == Permutations(Jobs) \union Permutations(Workers)
=============================================================================
