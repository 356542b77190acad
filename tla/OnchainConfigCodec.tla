------------------------- MODULE OnchainConfigCodec -------------------------
(***************************************************************************)
(* The on-chain config codec and the RPC pair that carries it across the  *)
(* plugin boundary:                                                        *)
(*   onchainConfigCodecClient.Encode / Decode    (loop/internal/median.go) *)
(*   onchainConfigCodecServer.Encode / Decode    (loop/internal/median.go) *)
(*   StandardOnchainConfigCodec.Encode / Decode  (mercury/onchain_config.go)*)
(*                                                                         *)
(* The encoding is <version><min><max>, three words of WordBytes bytes,   *)
(* each the fixed-width big-endian two's complement of                     *)
(* bigbigendian.SerializeSigned.  The code uses 32-byte words; the model   *)
(* keeps the word width as a constant so that every value of a narrower   *)
(* word, and both of its overflow neighbours, can be enumerated.          *)
(*                                                                         *)
(* The state is one config written through Encode into the contract's     *)
(* storage (or bytes put there by anyone else) and read back with Decode. *)
(***************************************************************************)
EXTENDS Integers, Sequences, SequencesExt, PbBigInt

CONSTANTS
  WordBytes,   \* bytes per word (32 in the code)
  Vals,        \* the Min and Max values tried
  Buffers,     \* byte strings someone else may store as the config
  NoConfig, NoBytes, NotRead   \* nothing written, stored, or read yet

ASSUME WordBytes \in Nat \ {0}

Byte == 0..255

\* onchainConfigVersion and onchainConfigEncodedLength (lines 11-15).
onchainConfigVersion == 1
onchainConfigEncodedLength == 3 * WordBytes

Err == [ok |-> FALSE]
Ok(v) == [ok |-> TRUE, val |-> v]

-----------------------------------------------------------------------------
(***************************************************************************)
(* Conversions the code calls (not under src/; modelled from spec.md 3):   *)
(* bigbigendian's fixed-width signed words (pb.BigInt is in PbBigInt).    *)
(***************************************************************************)

Half(n) == 2 ^ (8 * n - 1)

\* The unsigned value of a big-endian byte string.
Unsigned(bs) == FoldLeft(LAMBDA acc, x : acc * 256 + x, 0, bs)

\* SerializeSigned(n, x): n bytes of two's complement, an error when x
\* does not fit.
SerializeSigned(n, x) ==
  IF x < -Half(n) \/ x >= Half(n) THEN Err
  ELSE LET u == IF x < 0 THEN x + 2 * Half(n) ELSE x
       IN  Ok([i \in 1..n |-> (u \div 2 ^ (8 * (n - i))) % 256])

\* Fault variant of DeserializeSigned: the word is read as unsigned.
DeserializeUnsigned(n, bs) ==
  IF Len(bs) # n THEN Err ELSE Ok(Unsigned(bs))

\* DeserializeSigned(n, b): an error unless b has n bytes.
DeserializeSigned(n, bs) ==
  IF Len(bs) # n THEN Err
  ELSE LET u == Unsigned(bs)
       IN  Ok(IF u >= Half(n) THEN u - 2 * Half(n) ELSE u)


-----------------------------------------------------------------------------
(***************************************************************************)
(* StandardOnchainConfigCodec (onchain_config.go).                          *)
(***************************************************************************)

Word(bs, i) == SubSeq(bs, (i - 1) * WordBytes + 1, i * WordBytes)

\* Fault variant of Decode: the version word is not compared with 1.
DecodeAnyVersion(bs) ==
  IF Len(bs) # onchainConfigEncodedLength THEN Err
  ELSE LET min == DeserializeSigned(WordBytes, Word(bs, 2))
           max == DeserializeSigned(WordBytes, Word(bs, 3))
       IN  CASE ~min.ok \/ ~max.ok                 -> Err
             [] ~(min.val <= max.val)              -> Err
             [] OTHER -> Ok([Min |-> min.val, Max |-> max.val])

\* Decode (lines 34-61): length, version, the two values, min <= max.
Decode(bs) ==
  IF Len(bs) # onchainConfigEncodedLength THEN Err
  ELSE LET v == DeserializeSigned(WordBytes, Word(bs, 1))
           min == DeserializeSigned(WordBytes, Word(bs, 2))
           max == DeserializeSigned(WordBytes, Word(bs, 3))
       IN  CASE ~v.ok                              -> Err
             [] v.val # onchainConfigVersion       -> Err
             [] ~min.ok \/ ~max.ok                 -> Err
             [] ~(min.val <= max.val)              -> Err
             [] OTHER -> Ok([Min |-> min.val, Max |-> max.val])

\* Fault variant of Encode: Max is appended before Min.
EncodeSwapped(c) ==
  LET ver == SerializeSigned(WordBytes, onchainConfigVersion)
      min == SerializeSigned(WordBytes, c.Min)
      max == SerializeSigned(WordBytes, c.Max)
  IN  IF ver.ok /\ min.ok /\ max.ok THEN Ok(ver.val \o max.val \o min.val) ELSE Err

\* Encode (lines 63-81): the three words appended; Min <= Max is not checked.
Encode(c) ==
  LET ver == SerializeSigned(WordBytes, onchainConfigVersion)
      min == SerializeSigned(WordBytes, c.Min)
      max == SerializeSigned(WordBytes, c.Max)
  IN  IF ver.ok /\ min.ok /\ max.ok THEN Ok(ver.val \o min.val \o max.val) ELSE Err

-----------------------------------------------------------------------------
(***************************************************************************)
(* The RPC pair around the codec and the contract storage it is used with.*)
(***************************************************************************)

VARIABLES
  written,   \* the config last passed to Encode, or NoConfig
  onchain,   \* the config bytes the contract stores, or NoBytes
  decoded    \* the result of the last Decode of onchain, or NotRead

vars == <<written, onchain, decoded>>

Configs == [Min : Vals, Max : Vals]

\* Nothing has been stored yet.
Empty == written = NoConfig /\ onchain = NoBytes

Init ==
  /\ written = NoConfig
  /\ onchain = NoBytes
  /\ decoded = NotRead

\* onchainConfigCodecServer.Encode (median.go 427-434): the config from
\* the request's two pb.BigInt, encoded by the codec.
ServerEncode(req) ==
  Encode([Min |-> BigIntInt(req.Min), Max |-> BigIntInt(req.Max)])

\* onchainConfigCodecServer.Decode (median.go 436-445): the codec's result
\* as two pb.BigInt.
ServerDecode(bs) ==
  LET dec == Decode(bs)
  IN  IF dec.ok
      THEN Ok([Min |-> NewBigIntFromInt(dec.val.Min), Max |-> NewBigIntFromInt(dec.val.Max)])
      ELSE Err

\* onchainConfigCodecClient.Encode (median.go 392-405): the request carries
\* c as two pb.BigInt; the bytes returned are what gets stored, an error
\* stores nothing.
EncodeCall(c) ==
  LET enc == ServerEncode([Min |-> NewBigIntFromInt(c.Min), Max |-> NewBigIntFromInt(c.Max)])
  IN  /\ Empty
      /\ written' = c
      /\ onchain' = IF enc.ok THEN enc.val ELSE NoBytes
      /\ UNCHANGED decoded

\* Bytes stored by someone other than this codec.
StoreBytes(bs) ==
  /\ Empty
  /\ onchain' = bs
  /\ UNCHANGED <<written, decoded>>

\* onchainConfigCodecClient.Decode (median.go 407-418): the stored bytes
\* are decoded by the server and the two pb.BigInt of the reply converted
\* back.
DecodeCall ==
  LET reply == ServerDecode(onchain)
  IN  /\ onchain # NoBytes /\ decoded = NotRead
      /\ decoded' = IF reply.ok
                    THEN Ok([Min |-> BigIntInt(reply.val.Min), Max |-> BigIntInt(reply.val.Max)])
                    ELSE Err
      /\ UNCHANGED <<written, onchain>>

Next ==
  \/ /\ Empty
     /\ \/ \E c \in Configs : EncodeCall(c)
        \/ \E bs \in Buffers : StoreBytes(bs)
  \/ DecodeCall

Spec == Init /\ [][Next]_vars

-----------------------------------------------------------------------------
(***************************************************************************)
(* Properties, against reference definitions of the layout.               *)
(***************************************************************************)

Signed == -Half(WordBytes)..(Half(WordBytes) - 1)

\* The signed value of a word, by its sign bit.
RefSigned(w) == Unsigned(w) - (IF w[1] >= 128 THEN 2 * Half(WordBytes) ELSE 0)

\* What a decoder of the layout must accept: three words, version 1 and
\* min <= max.
RefValid(bs) ==
  /\ Len(bs) = onchainConfigEncodedLength
  /\ RefSigned(Word(bs, 1)) = onchainConfigVersion
  /\ RefSigned(Word(bs, 2)) <= RefSigned(Word(bs, 3))

\* Types; a decoded value is a signed word.
TypeOK ==
  /\ written \in Configs \cup {NoConfig}
  /\ onchain \in Seq(Byte) \cup {NoBytes}
  /\ decoded \in {NotRead, Err} \/ decoded.val \in [Min : Signed, Max : Signed]

\* Round trip (spec.md 8.1) and the asymmetry spec.md 9 asks to document:
\* Encode accepts every config whose values fit a word, in either order,
\* and stores exactly onchainConfigEncodedLength bytes; reading them back
\* gives the config itself when Min <= Max, and an error when Min > Max.
RoundTrip ==
  written # NoConfig =>
    /\ (written.Min \in Signed /\ written.Max \in Signed) = (onchain # NoBytes)
    /\ onchain # NoBytes => Len(onchain) = onchainConfigEncodedLength
    /\ decoded # NotRead /\ onchain # NoBytes =>
         decoded = IF written.Min <= written.Max THEN Ok(written) ELSE Err

\* Decode accepts exactly the valid layouts (spec.md 8.2) and returns the
\* values the words hold, whoever stored the bytes.
DecodeValidates ==
  decoded # NotRead =>
    IF RefValid(onchain)
    THEN decoded = Ok([Min |-> RefSigned(Word(onchain, 2)),
                       Max |-> RefSigned(Word(onchain, 3))])
    ELSE decoded = Err

=============================================================================
