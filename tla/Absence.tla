------------------------------ MODULE Absence ------------------------------
(* The value of a column, a field or a variable that holds nothing.        *)
CONSTANT None
=============================================================================
