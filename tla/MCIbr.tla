-------------------------------- MODULE MCIbr --------------------------------
(* A way segment for TLC: intersections 0 and 4, the three regions of the   *)
(* shipped scenarios between them.                                         *)
EXTENDS IbrPingPong

CONSTANTS g, h

Member(region, level, ws, prev, next) ==
    [region |-> region, level |-> level, ws |-> ws, prev |-> prev, next |-> next]

Street == << Member(0, 1, 0, None, 1), Member(1, 2, 0, 0, 2), Member(2, 3, 0, 1, 3),
             Member(3, 2, 0, 2, 4), Member(4, 1, 0, 3, None) >>
=============================================================================
