-------------------------------- MODULE Utf8 --------------------------------
(***************************************************************************)
(* utf8_decode_one and utf8_encode_one (detail/utf8.hpp and                *)
(* detail/utf8_encode.hpp).                                                *)
(***************************************************************************)
EXTENDS Integers, Sequences

Utf8Error == -1

\* How many continuation bytes a lead byte has; none if it is no lead byte.
Extra(byte) ==
  IF byte \in 194 .. 223 THEN 1
  ELSE IF byte \in 224 .. 239 THEN 2
  ELSE IF byte \in 240 .. 244 THEN 3
  ELSE 0

\* The bits of the lead byte that count.
LeadBits(byte) ==
  IF Extra(byte) = 1 THEN byte % 32 ELSE IF Extra(byte) = 2 THEN byte % 16 ELSE byte % 8

\* Mutant: a surrogate is only refused when it is complete.
ContinuesBeforeSurrogate(byte, i, cont) ==
  /\ cont \in 128 .. 191
  /\ i = 1 /\ byte = 224 => cont >= 160
  /\ i = 1 /\ byte = 240 => cont >= 144
  /\ i = 1 /\ byte = 244 => cont <= 143

\* What the i-th continuation byte may be; the first is bounded by its lead, for
\* overlong forms, surrogates and what is above U+10FFFF.
Continues(byte, i, cont) ==
  /\ cont \in 128 .. 191
  /\ i = 1 /\ byte = 224 => cont >= 160
  /\ i = 1 /\ byte = 237 => cont <= 159
  /\ i = 1 /\ byte = 240 => cont >= 144
  /\ i = 1 /\ byte = 244 => cont <= 143

\* The loop takes continuation bytes up to the first that is missing or wrong.
Good(b) == {k \in 0 .. Extra(b[1]) :
              k < Len(b) /\ \A i \in 1 .. k : Continues(b[1], i, b[i + 1])}

Taken(b) == CHOOSE k \in Good(b) : \A j \in Good(b) : j <= k

Shift(bits, cont) == bits * 64 + (cont % 64)

CodePoint(b) ==
  IF Extra(b[1]) = 1 THEN Shift(LeadBits(b[1]), b[2])
  ELSE IF Extra(b[1]) = 2 THEN Shift(Shift(LeadBits(b[1]), b[2]), b[3])
  ELSE Shift(Shift(Shift(LeadBits(b[1]), b[2]), b[3]), b[4])

IsSurrogate(cp) == 55296 <= cp /\ cp <= 57343

Utf8Result(cp, used) == [code_point |-> cp, used |-> used]

Utf8Decode(b) ==
  IF b[1] < 128 THEN Utf8Result(b[1], 1)
  ELSE IF Extra(b[1]) = 0 THEN Utf8Result(Utf8Error, 1)
  ELSE IF Taken(b) < Extra(b[1]) THEN Utf8Result(Utf8Error, 1 + Taken(b))
  ELSE IF IsSurrogate(CodePoint(b)) \/ CodePoint(b) > 1114111
       THEN Utf8Result(Utf8Error, 1 + Taken(b))
  ELSE Utf8Result(CodePoint(b), 1 + Taken(b))

Continuation(bits) == 128 + (bits % 64)

Utf8Encode(cp) ==
  IF cp < 128 THEN <<cp>>
  ELSE IF cp < 2048 THEN <<192 + (cp \div 64), Continuation(cp)>>
  ELSE IF cp < 65536 THEN <<224 + (cp \div 4096), Continuation(cp \div 64), Continuation(cp)>>
  ELSE <<240 + (cp \div 262144), Continuation(cp \div 4096),
         Continuation(cp \div 64), Continuation(cp)>>
=============================================================================
