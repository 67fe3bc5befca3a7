------------------------------ MODULE MCAmEpg ------------------------------
(* Small instances of AmEpg for TLC: two tables that are requested again and *)
(* one that is timed, in the order the source handles them.                  *)
EXTENDS AmEpg

MCDoneOrder == <<"cat", "sdt", "eit">>
MCModeOrder == <<"eit", "cat", "sdt">>
MCDoneOrder2 == <<"sdt", "tot">>
MCModeOrder2 == <<"tot", "sdt">>
=============================================================================
