----------------------------- MODULE MCLedsPage -----------------------------
(* LedsPage with three ports of different length in rows of eight elements.    *)
EXTENDS LedsPage, TLC

ThreeLengths == (0 :> 6) @@ (1 :> 2) @@ (2 :> 4)
=============================================================================
