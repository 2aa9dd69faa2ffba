---------------------------- MODULE MCCursorPages ----------------------------
(* A small instance of CursorPages for TLC.                                *)
EXTENDS CursorPages, TLC

CONSTANTS w1, w2

WriterSymmetry == Permutations({w1, w2})
=============================================================================
