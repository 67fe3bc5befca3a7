----------------------------- MODULE MCAmCaman -----------------------------
EXTENDS AmCaman
CONSTANTS s1, s2, Budget
MCServices == {s1, s2}
MCSymmetry == Permutations(MCServices)
MCCaSeq == <<"ci", "soft">>
MCIds == [t \in Tables |-> [v \in Versions |-> IF v = 1 THEN "b" ELSE "a"]]
MCAccepts == [c \in Cas |-> {"a"}]
(* What happens to the manager is at most Budget things: calls, changes of   *)
(* tables, events of the frontend, messages of the CAM, rounds of watching   *)
(* and mishaps together.  A behaviour is not followed beyond an event that is*)
(* lost in a race or a table that timed out.                                 *)
Followed ==
    /\ spent.calls + spent.changes + spent.fend + spent.msgs + spent.rounds
          + Cardinality(mishaps) <= Budget
    /\ mishaps \cap {"raced", "timeout"} = {}
=============================================================================
