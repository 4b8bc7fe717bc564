------------------------------- MODULE Base64 -------------------------------
(***************************************************************************)
(* protocol/TBase64Utils.cpp: the unpadded base 64 that the protocol uses  *)
(* for binary fields.                                                      *)
(*                                                                         *)
(* A character of the 64 letter alphabet is its number in                  *)
(* kBase64EncodeTable, which kBase64DecodeTable inverts; every other       *)
(* character is NotBase64, for which the decode table has 0xff.  The loops *)
(* over groups of 3 bytes or 4 characters become functions of the index.   *)
(***************************************************************************)
EXTENDS Integers, Sequences

Bytes == 0 .. 255
NotBase64 == 64
Chars == 0 .. NotBase64

-----------------------------------------------------------------------------
(* Mutated forms of the definitions below: plausible slips in this code. *)

\* a remainder of two bytes gets two characters
ShortEncodedSize(n) == 4 * (n \div 3) + (IF n % 3 = 0 THEN 0 ELSE 2)

-----------------------------------------------------------------------------
(* Encoding *)

\* out_size of base64EncodeString, with kEncodeRemainderSize.
EncodedSize(n) ==
  4 * (n \div 3) + (IF n % 3 = 0 THEN 0 ELSE IF n % 3 = 1 THEN 2 ELSE 3)

\* Byte i of the input; the bytes a short group lacks count as zero.
ByteAt(in, i) == IF i <= Len(in) THEN in[i] ELSE 0

\* base64_encode: character j of group g.
base64_encode(in, g, j) ==
  IF j = 0 THEN ByteAt(in, 3 * g + 1) \div 4
  ELSE IF j = 1 THEN (ByteAt(in, 3 * g + 1) % 4) * 16 + ByteAt(in, 3 * g + 2) \div 16
  ELSE IF j = 2 THEN (ByteAt(in, 3 * g + 2) % 16) * 4 + ByteAt(in, 3 * g + 3) \div 64
  ELSE ByteAt(in, 3 * g + 3) % 64

base64EncodeString(in) ==
  [k \in 1 .. EncodedSize(Len(in)) |-> base64_encode(in, (k - 1) \div 4, (k - 1) % 4)]

-----------------------------------------------------------------------------
(* Decoding *)

\* out_size of base64DecodeString, with kDecodeRemainderSize.
DecodedSize(n) ==
  3 * (n \div 4) + (IF n % 4 = 2 THEN 1 ELSE IF n % 4 = 3 THEN 2 ELSE 0)

\* kBase64DecodeTable.
Table(c) == IF c = NotBase64 THEN 255 ELSE c

\* hi | lo, where hi has its low bits clear: lo either fits into them or, for a
\* character that is not base 64, is all ones.
Or(hi, lo, room) == IF lo < room THEN hi + lo ELSE (hi \div (lo + 1)) * (lo + 1) + lo

\* base64_decode: byte j of group g.
base64_decode(in, g, j) ==
  IF j = 0 THEN Or((Table(in[4 * g + 1]) * 4) % 256, Table(in[4 * g + 2]) \div 16, 4)
  ELSE IF j = 1 THEN Or((Table(in[4 * g + 2]) * 16) % 256, Table(in[4 * g + 3]) \div 4, 16)
  ELSE Or((Table(in[4 * g + 3]) * 64) % 256, Table(in[4 * g + 4]), 64)

\* base64DecodeString returns false for these.
Undecodable(in) == Len(in) % 4 = 1

base64DecodeString(in) ==
  [k \in 1 .. DecodedSize(Len(in)) |-> base64_decode(in, (k - 1) \div 3, (k - 1) % 3)]
=============================================================================
