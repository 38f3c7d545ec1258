----------------------------- MODULE MCMonthPass -----------------------------
(* Small instances of MonthPass.                                             *)
EXTENDS MonthPass, TLC
CONSTANTS o1, o2
=============================================================================
