----------------------------- MODULE MCMedianRPC -----------------------------
(***************************************************************************)
(* MedianRPC for TLC.  Values of both signs (the sign-magnitude wire form  *)
(* differs from the native one only for negatives); the Observer and      *)
(* Round values at and just above uint8; digests one byte short, exact and *)
(* one byte long.                                                          *)
(***************************************************************************)
EXTENDS MedianRPC

MCVals == {-2, 3}
MCObservers == {3, 255}
MCWireObservers == {255, 256}
MCLens == {0, 7}
MCDigestLens == {31, 32, 33}
MCRounds == {0, 255}
MCWireRounds == {255, 256}

====
