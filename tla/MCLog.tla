------------------------------- MODULE MCLog -------------------------------
(* Model values for TLC: vehicles a and b, an intersection leader l.        *)
EXTENDS LogAnalysis, TLC

CONSTANTS a, b, l

Symmetry == Permutations(Vehicles)
=============================================================================
