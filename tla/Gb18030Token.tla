---------------------------- MODULE Gb18030Token ----------------------------
(***************************************************************************)
(* What detail::gb18030_decode_one(current, end) makes of the bytes in     *)
(* front of it: one character or one error, how many bytes it reads, and   *)
(* how many of the last ones it read it hands back to be decoded again     *)
(* (src/include/beman/transcode/detail/gb18030.hpp).                       *)
(*                                                                         *)
(* Which code point a character is, the tables say; what can go wrong here *)
(* is which bytes a character is made of, so a character is known by them. *)
(***************************************************************************)
EXTENDS Integers, Sequences

Byte == 0 .. 255

Results == {"character", "invalid_byte", "truncated_sequence"}

LeadByte(b)  == b \in 129 .. 254
Digit(b)     == b \in 48 .. 57
TrailByte(b) == b \in 64 .. 254 /\ b # 127

\* The linear pointer of a four-byte sequence, and whether gb18030_ranges_decode
\* has a code point for it.
Pointer(s) == ((s[1] - 129) * 10 + (s[2] - 48)) * 1260 + (s[3] - 129) * 10 + (s[4] - 48)

InRanges(p) == ~(p > 39419 /\ p < 189000) /\ p <= 1237575

Outcome(r, n, back) == [result |-> r, read |-> n, back |-> back]

\* A byte that can be followed by a digit or a trail byte, and what follows it.
FourByteToken(s) ==
  CASE Len(s) = 2       -> Outcome("truncated_sequence", 2, 0)
    [] Len(s) > 2 /\ ~LeadByte(s[3]) -> Outcome("invalid_byte", 2, 1)
    [] Len(s) = 3 /\ LeadByte(s[3])  -> Outcome("truncated_sequence", 3, 0)
    [] Len(s) > 3 /\ LeadByte(s[3])  ->
         IF ~Digit(s[4]) THEN Outcome("invalid_byte", 3, 2)
         ELSE Outcome(IF InRanges(Pointer(s)) THEN "character" ELSE "invalid_byte", 4, 0)

TwoByteToken(s) ==
  IF TrailByte(s[2]) THEN Outcome("character", 2, 0)
  ELSE Outcome("invalid_byte", IF s[2] >= 128 THEN 2 ELSE 1, 0)

\* The token at the front of s, which is not empty.
Token(s) ==
  CASE s[1] <= 128                        -> Outcome("character", 1, 0)
    [] s[1] = 255                         -> Outcome("invalid_byte", 1, 0)
    [] LeadByte(s[1]) /\ Len(s) = 1       -> Outcome("truncated_sequence", 1, 0)
    [] LeadByte(s[1]) /\ Len(s) > 1       ->
         IF Digit(s[2]) THEN FourByteToken(s) ELSE TwoByteToken(s)
=============================================================================
