----------------------------- MODULE MCAmTfile -----------------------------
(* Small instances of AmTfile for TLC.                                       *)
EXTENDS AmTfile
=============================================================================
