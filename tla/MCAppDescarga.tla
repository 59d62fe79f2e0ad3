--------------------------- MODULE MCAppDescarga ---------------------------
(* Model values and a symmetry for TLC: app node a, vehicles v and w.       *)
EXTENDS AppDescarga, TLC

CONSTANTS a, v, w

\* The vehicles that are not app nodes are interchangeable.
Symmetry == Permutations(Nodes \ AppNodes)
=============================================================================
