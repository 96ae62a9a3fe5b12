--------------------------- MODULE MCProjection ---------------------------
(* Small instances of Projection. *)
EXTENDS Projection, TLC

(* Two stretches that overlap. *)
MCRanges == {[start |-> 1, end |-> 3], [start |-> 2, end |-> 4]}

(* Three stretches of which two, merged by column, make an empty one. *)
MCMergingRanges == {[start |-> 1, end |-> 3], [start |-> 1, end |-> 2],
                    [start |-> 2, end |-> 4]}

(* One stretch: bookings that race always want the same time. *)
MCOneRange == {[start |-> 1, end |-> 2]}

Symmetry == Permutations(Txns) \cup Permutations(Appts) \cup Permutations(Calls)
=============================================================================
