------------------------ MODULE MCOnchainConfigCodec ------------------------
(***************************************************************************)
(* One-byte words: every signed value, and both values one past the range, *)
(* as Min and Max; and every string of 2, 3 or 4 bytes over bytes that     *)
(* sit at the sign and version boundaries as foreign config bytes.         *)
(***************************************************************************)
EXTENDS OnchainConfigCodec, TLC

MCVals == -(Half(1) + 1)..Half(1)

EdgeBytes == {0, 1, 127, 128, 255}

MCBuffers == UNION {[1..n -> EdgeBytes] : n \in 2..4}

=============================================================================
