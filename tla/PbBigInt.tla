------------------------------ MODULE PbBigInt ------------------------------
(***************************************************************************)
(* The sign-magnitude integer of the wire messages (pb.BigInt, in         *)
(* pkg/loop/internal/pb; not among the sources under src/, modelled from   *)
(* spec.md 3, "BigInt").                                                   *)
(***************************************************************************)
EXTENDS Integers

\* pb.NewBigIntFromInt: the sign and the magnitude of x.
NewBigIntFromInt(x) == [Negative |-> x < 0, Value |-> IF x < 0 THEN -x ELSE x]

\* Fault variant of BigIntInt: the sign is dropped.
BigIntMagnitude(w) == w.Value

\* (*pb.BigInt).Int: the integer a sign-magnitude message stands for.
BigIntInt(w) == IF w.Negative THEN -w.Value ELSE w.Value

=============================================================================
