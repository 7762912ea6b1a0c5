--------------------------- MODULE MCPromoterRestart ---------------------------
(* One burst, one drain loop.                                              *)
EXTENDS PromoterRestart

CONSTANTS k1

KeyOfOne == [i \in Ids |-> k1]
================================================================================
