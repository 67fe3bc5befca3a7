------------------------------ MODULE MCAmDmx ------------------------------
(* Small instances of AmDmx for TLC.                                       *)
EXTENDS AmDmx

CONSTANTS c1, c2
=============================================================================
