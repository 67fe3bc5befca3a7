------------------------------ MODULE MCAmRec ------------------------------
(* Small instances of AmRec for TLC.                                         *)
EXTENDS AmRec, TLC
CONSTANTS r1, r2, r3, a1, a2
(* Both applications on one recorder that can do everything, or each on a    *)
(* recorder of its own that records into files.                              *)
TogetherOrApart == {a1 :> r1 @@ a2 :> r1, a1 :> r2 @@ a2 :> r3}
============================================================================
