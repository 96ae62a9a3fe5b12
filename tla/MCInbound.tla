----------------------------- MODULE MCInbound -----------------------------
(* Small instances of Inbound. *)
EXTENDS Inbound, TLC

(* One stretch to book, two to move to, the second outside the policy. *)
MCOneRange == {[start |-> 1, end |-> 3]}
MCOpen     == {[start |-> 1, end |-> 3], [start |-> 3, end |-> 5]}
MCEdits    == {[start |-> 3, end |-> 5], [start |-> 4, end |-> 6]}

(* Two stretches side by side, and one that overlaps both. *)
MCTwoRanges == {[start |-> 1, end |-> 3], [start |-> 3, end |-> 5]}
MCMoves     == {[start |-> 2, end |-> 4], [start |-> 3, end |-> 5]}

Symmetry == Permutations(Txns) \cup Permutations(Appts) \cup Permutations(Calls)
              \cup Permutations(Pollers)
=============================================================================
