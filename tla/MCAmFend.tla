----------------------------- MODULE MCAmFend -----------------------------
(* Small instances of AmFend for TLC.                                      *)
EXTENDS AmFend

CONSTANTS c1, c2, p1, p2, last, s1
=============================================================================
