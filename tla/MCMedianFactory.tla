--------------------------- MODULE MCMedianFactory ---------------------------
(***************************************************************************)
(* Two constructions on one broker.  They share StopCh (each gets fresh  *)
(* IDs from the multiplexer's atomic counter and its own resources), so   *)
(* a stop, or one build's deadline, falls at any point of the other.      *)
(* The builds are interchangeable: symmetry.                              *)
(***************************************************************************)
EXTENDS MedianFactory, TLC

CONSTANTS b1, b2

MCBuilds == {b1, b2}

BuildSymmetry == Permutations(MCBuilds)

=============================================================================
