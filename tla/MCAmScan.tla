------------------------------ MODULE MCAmScan ------------------------------
EXTENDS AmScan

Plan(m, source, freqs, nit, progs, status) ==
    [mode |-> m, source |-> source, freqs |-> freqs, nit |-> nit, progs |-> progs,
     status |-> status]

(* A plan of each kind, each with what is particular to it.                  *)
EachPlan == {Plan("auto", "cable", 2, 1, 0, 2), Plan("auto", "satellite", 1, 1, 0, 1),
             Plan("allband", "cable", 1, 0, 2, 1), Plan("allband", "terrestrial", 2, 0, 0, 1),
             Plan("blind", "satellite", 0, 0, 1, 1)}
OneSlot == <<"pmt1">>
TwoSlots == <<"pmt1", "pmt2">>
=============================================================================
