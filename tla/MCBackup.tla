------------------------------ MODULE MCBackup ------------------------------
(* Model values for TLC: vehicle u stays in region A, w starts in region C,  *)
(* where no Hellos begin, and drives on to B and A.                          *)
EXTENDS VnBackup

CONSTANTS u, w, A, B, C

HomeOf == [x \in Vehicles |-> IF x = w THEN C ELSE A]

\* From C to B to A and no way back.
OneWay == {<<C, B>>, <<B, A>>}
=============================================================================
