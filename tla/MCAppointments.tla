--------------------------- MODULE MCAppointments ---------------------------
EXTENDS Appointments, TLC

MCRanges == {[start |-> 1, end |-> 3], [start |-> 1, end |-> 2],
             [start |-> 2, end |-> 4]}

Symmetry == Permutations(Txns) \cup Permutations(Appts) \cup Permutations(Calls)
=============================================================================
