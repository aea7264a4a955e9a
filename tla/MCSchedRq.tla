------------------------------ MODULE MCSchedRq ------------------------------
EXTENDS SchedRq

\* nice 0 has the reference weight, a nicer task half of it.
MCWeightOf == [n \in Nices |-> IF n = 0 THEN 2 ELSE 1]
=============================================================================
