----------------------------- MODULE Utf16Units -----------------------------
(***************************************************************************)
(* The code units of UTF-16BE and UTF-16LE, what one or two of them say,   *)
(* and the bytes of a scalar value                                         *)
(* (src/include/beman/transcode/detail/utf16.hpp).                         *)
(***************************************************************************)
EXTENDS Integers, Sequences

CONSTANT BigEndian

ASSUME BigEndianAssumption == BigEndian \in BOOLEAN

Byte == 0 .. 255

\* utf16_code_unit, and the two bytes of a unit.
Unit(first, second) == IF BigEndian THEN first * 256 + second ELSE second * 256 + first

Bytes(u) == IF BigEndian THEN <<u \div 256, u % 256>> ELSE <<u % 256, u \div 256>>

High(u) == u \in 55296 .. 56319
Low(u)  == u \in 56320 .. 57343

\* U+FEFF, which is discarded at the start of a text.
Mark == 65279

Scalar(cp) == <<"scalar", cp>>
Lone       == <<"error", "surrogate_code_point">>
Truncated  == <<"error", "truncated_sequence">>

Results == ({"scalar"} \X Nat) \cup {Lone, Truncated}

\* Mutant: the offset of the supplementary planes is missing.
SupplementaryNoOffset(high, low) == (high - 55296) * 1024 + (low - 56320)

Supplementary(high, low) == 65536 + (high - 55296) * 1024 + (low - 56320)

\* A unit that is not half of a pair.
UnitResult(u) == IF High(u) \/ Low(u) THEN Lone ELSE Scalar(u)

\* utf16be_encode_one and utf16le_encode_one, for a scalar value.
Encode(cp) ==
  IF cp <= 65535 THEN Bytes(cp)
  ELSE Bytes(55296 + ((cp - 65536) \div 1024)) \o Bytes(56320 + ((cp - 65536) % 1024))
=============================================================================
