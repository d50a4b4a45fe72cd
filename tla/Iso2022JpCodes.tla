--------------------------- MODULE Iso2022JpCodes ---------------------------
(***************************************************************************)
(* What the ISO-2022-JP codec and the stream it promises to decode have in *)
(* common (src/include/beman/transcode/detail/iso2022jp.hpp): the numbers  *)
(* of the machine's states, the bytes the machine tells apart, and what a  *)
(* byte means in a mode.                                                   *)
(*                                                                         *)
(* A result is <<"scalar", code point>> or <<"error", whatwg::error>>.     *)
(***************************************************************************)
EXTENDS Integers, Sequences

CONSTANT
  \* tables::shift_jis on the 94 x 94 plane: pointer to code point, 0 if none.
  Jis0208

Pointers == 0 .. 94 * 94 - 1

ASSUME Jis0208Assumption == Jis0208 \in [Pointers -> Nat]

Byte == 0 .. 255

\* The `state` and `output_state` of iso2022jp_decode_state.
ASCII       == 0
Roman       == 1
Katakana    == 2
LeadByte    == 3
TrailByte   == 4
EscapeStart == 5
Escape      == 6

Modes == ASCII .. LeadByte

\* The bytes that mean something to the machine.
SO         == 14
SI         == 15
ESC        == 27
Dollar     == 36
LeftParen  == 40
CommercialAt == 64
LetterB    == 66
LetterI    == 73
LetterJ    == 74
Backslash  == 92
Tilde      == 126

Yen      == 165
Overline == 8254

\* What decode_one reports for the bytes it has read.
Scalar(cp) == <<"scalar", cp>>
Invalid    == <<"error", "invalid_byte">>
Truncated  == <<"error", "truncated_sequence">>

Results == ({"scalar"} \X Nat) \cup {Invalid, Truncated}

\* ESC, intermediate byte i, final byte f switches the stream to mode m.
Designates(i, f, m) ==
  \/ i = LeftParen /\ f = LetterB /\ m = ASCII
  \/ i = LeftParen /\ f = LetterJ /\ m = Roman
  \/ i = LeftParen /\ f = LetterI /\ m = Katakana
  \/ i = Dollar /\ f \in {CommercialAt, LetterB} /\ m = LeadByte

\* A byte that can be either half of a JIS X 0208 pair.
JisByte(b) == b \in 33 .. 126

\* What a byte other than ESC says in one of the three single-byte modes.
PlainResult(m, b) ==
  IF b \in {SO, SI} THEN Invalid
  ELSE CASE m = ASCII    -> IF b <= 127 THEN Scalar(b) ELSE Invalid
         [] m = Roman    -> IF b = Backslash THEN Scalar(Yen)
                            ELSE IF b = Tilde THEN Scalar(Overline)
                            ELSE IF b <= 127 THEN Scalar(b) ELSE Invalid
         [] m = Katakana -> IF b \in 33 .. 95 THEN Scalar(65377 + b - 33)
                            ELSE Invalid

\* What a lead byte and a trail byte other than ESC say together.
PairPointer(l, t) == (l - 33) * 94 + (t - 33)

PairResult(l, t) ==
  IF JisByte(t) /\ Jis0208[PairPointer(l, t)] # 0
  THEN Scalar(Jis0208[PairPointer(l, t)])
  ELSE Invalid
=============================================================================
