------------------------- MODULE MCSettlementAmounts -------------------------
(* Small instances of SettlementAmounts for TLC.                           *)
EXTENDS SettlementAmounts

(* Cents, days and rates around the roundings; the last rate is one the    *)
(* schema admits and the calculator does not.                              *)
SmallTerms == [principal : {1, 2, 7, 49, 50, 51, 99, 100, 200},
               rate : {0, 1, 365, 800, 5000, 9999, 10000, 12000},
               days : {1, 30, 182, 365}, currency : {"code"}]
                 \union [principal : {100}, rate : {800}, days : {365},
                         currency : {"short"}]
=============================================================================
