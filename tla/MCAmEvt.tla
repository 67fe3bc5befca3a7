------------------------------ MODULE MCAmEvt ------------------------------
(* Small instances of AmEvt for TLC.                                       *)
EXTENDS AmEvt

CONSTANTS m1, m2, d1, d2, cbEpg, cbScan

\* An EPG monitor and a scanner on one frontend: two callback functions.
TwoKinds == [m \in {m1, m2} |-> IF m = m1 THEN cbEpg ELSE cbScan]

=============================================================================
