---------------------------- MODULE TableCodecs ----------------------------
(***************************************************************************)
(* The codecs that read an index by its pointers: EUC-KR, EUC-JP,          *)
(* Shift_JIS, Big5, GBK and the single-byte ones                           *)
(* (src/include/beman/transcode/detail/).                                  *)
(*                                                                         *)
(* b is what is left of the input, at least one byte.  A decoder returns   *)
(* the code point and how many bytes it has taken; an encoder returns the  *)
(* bytes, and none for an error.                                           *)
(***************************************************************************)
EXTENDS Index, Sequences

Error == -1       \* of whatever kind; the views put U+FFFD

Decoded(cp, used) == [code_point |-> cp, code_point2 |-> 0, used |-> used]
Failed(used)      == Decoded(Error, used)

AtPointer(index, pointer, used) ==
  Decoded(IF At(index, pointer) = 0 THEN Error ELSE At(index, pointer), used)

NoBytes == <<>>

Gb18030 == INSTANCE Gb18030Token

-----------------------------------------------------------------------------
EucKrPointer(lead, trail) == (lead - 129) * 190 + (trail - 65)

EucKrDecode(index, b) ==
  IF b[1] < 128 THEN Decoded(b[1], 1)
  ELSE IF b[1] \in {128, 255} \/ Len(b) = 1 THEN Failed(1)
  ELSE IF b[2] \notin 65 .. 254 THEN Failed(2)
  ELSE AtPointer(index, EucKrPointer(b[1], b[2]), 2)

EucKrBytes(pointer) == <<pointer \div 190 + 129, (pointer % 190) + 65>>

EucKrEncode(pointer, cp) ==
  IF cp < 128 THEN <<cp>> ELSE IF pointer >= 0 THEN EucKrBytes(pointer) ELSE NoBytes

-----------------------------------------------------------------------------
Trail94 == 161 .. 254
Pointer94(row, cell) == (row - 161) * 94 + (cell - 161)

EucJpDecode(jis0208, jis0212, b) ==
  IF b[1] < 128 THEN Decoded(b[1], 1)
  ELSE IF b[1] \notin {142, 143} \cup Trail94 \/ Len(b) = 1 THEN Failed(1)
  ELSE IF b[1] = 142 THEN
    IF b[2] \notin 161 .. 223 THEN Failed(2) ELSE Decoded(65377 + (b[2] - 161), 2)
  ELSE IF b[2] \notin Trail94 THEN Failed(2)
  ELSE IF b[1] # 143 THEN AtPointer(jis0208, Pointer94(b[1], b[2]), 2)
  ELSE IF Len(b) = 2 THEN Failed(2)
  ELSE IF b[3] \notin Trail94 THEN Failed(3)
  ELSE AtPointer(jis0212, Pointer94(b[2], b[3]), 3)

Halfwidth == 65377 .. 65439
Bytes94(pointer) == <<pointer \div 94 + 161, (pointer % 94) + 161>>

\* The pointers are those of index jis0208 and of index jis0212.
EucJpEncode(p0208, p0212, cp) ==
  IF cp < 128 THEN <<cp>>
  ELSE IF cp = 165 THEN <<92>>
  ELSE IF cp = 8254 THEN <<126>>
  ELSE IF cp \in Halfwidth THEN <<142, 161 + (cp - 65377)>>
  ELSE IF p0208 >= 0 THEN Bytes94(p0208)
  ELSE IF p0212 >= 0 THEN <<143>> \o Bytes94(p0212)
  ELSE NoBytes

-----------------------------------------------------------------------------
ShiftJisPointer(lead, trail) ==
  (IF lead <= 159 THEN lead - 129 ELSE lead - 193) * 188
    + (IF trail < 127 THEN trail - 64 ELSE trail - 65)

ShiftJisDecode(jis0208, b) ==
  IF b[1] < 128 THEN Decoded(b[1], 1)
  ELSE IF b[1] \in 161 .. 223 THEN Decoded(65377 + (b[1] - 161), 1)
  ELSE IF b[1] \in {128, 160, 253, 254, 255} \/ Len(b) = 1 THEN Failed(1)
  ELSE IF b[2] \notin (64 .. 126) \cup (128 .. 252) THEN Failed(2)
  ELSE AtPointer(jis0208, ShiftJisPointer(b[1], b[2]), 2)

\* Mutant: the half-width katakana are not skipped between the lead bytes.
ShiftJisBytesOneRun(pointer) ==
  <<pointer \div 188 + 129,
    IF (pointer % 188) < 63 THEN (pointer % 188) + 64 ELSE (pointer % 188) + 65>>

ShiftJisBytes(pointer) ==
  <<IF pointer \div 188 < 31 THEN pointer \div 188 + 129 ELSE pointer \div 188 + 193,
    IF (pointer % 188) < 63 THEN (pointer % 188) + 64 ELSE (pointer % 188) + 65>>

ShiftJisEncode(pointer, cp) ==
  IF cp < 128 THEN <<cp>>
  ELSE IF cp = 165 THEN <<92>>
  ELSE IF cp = 8254 THEN <<126>>
  ELSE IF cp \in Halfwidth THEN <<161 + (cp - 65377)>>
  ELSE IF pointer >= 0 THEN ShiftJisBytes(pointer) ELSE NoBytes

-----------------------------------------------------------------------------
Big5Trail == (64 .. 126) \cup (161 .. 254)
Big5Offset(trail) == IF trail <= 126 THEN trail - 64 ELSE trail - 98

\* The pointers with two code points.
TwoCodePoints ==
  [p \in {1133, 1135, 1164, 1165} |->
     <<IF p < 1164 THEN 202 ELSE 234, IF p \in {1133, 1164} THEN 772 ELSE 780>>]

\* Mutant: an ASCII trail byte of a pair that is in the index nowhere is lost.
Big5FailedSwallows(trail) == Failed(2)

\* The trail byte of an error comes after it if it is ASCII.
Big5Failed(trail) == [Failed(2) EXCEPT !.code_point2 = IF trail < 128 THEN trail ELSE 0]

Big5Pair(index, pointer, trail) ==
  IF pointer \in DOMAIN TwoCodePoints
  THEN [Decoded(TwoCodePoints[pointer][1], 2) EXCEPT !.code_point2 = TwoCodePoints[pointer][2]]
  ELSE IF At(index, pointer) = 0 THEN Big5Failed(trail)
  ELSE Decoded(At(index, pointer), 2)

Big5Decode(index, b) ==
  IF b[1] < 128 THEN Decoded(b[1], 1)
  ELSE IF b[1] \in {128, 255} \/ Len(b) = 1 THEN Failed(1)
  ELSE IF b[2] \notin Big5Trail THEN Big5Failed(b[2])
  ELSE Big5Pair(index, (b[1] - 129) * 157 + Big5Offset(b[2]), b[2])

\* Code points that take their last pointer; the others take the one found.
LastPointerOf == {9552, 9566, 9569, 9578, 21313, 21317}

Big5Excluded == [first |-> 0, last |-> 5023]     \* what the Hong Kong supplement has

Big5Candidates(index, cp) == {p \in DOMAIN index : p >= 5024 /\ p <= 19781 /\ index[p] = cp}

Big5LastPointer(index, cp) ==
  IF Big5Candidates(index, cp) = {} THEN -1
  ELSE CHOOSE p \in Big5Candidates(index, cp) : \A q \in Big5Candidates(index, cp) : q <= p

Big5Pointer(index, found, cp) ==
  IF cp \in LastPointerOf THEN Big5LastPointer(index, cp) ELSE found

Big5Bytes(pointer) ==
  <<pointer \div 157 + 129,
    IF (pointer % 157) < 63 THEN (pointer % 157) + 64 ELSE (pointer % 157) + 98>>

Big5Encode(index, found, cp) ==
  IF cp < 128 THEN <<cp>>
  ELSE IF Big5Pointer(index, found, cp) >= 0 THEN Big5Bytes(Big5Pointer(index, found, cp))
  ELSE NoBytes

-----------------------------------------------------------------------------
GbkPointer(lead, trail) ==
  (lead - 129) * 190 + (trail - 64) - (IF trail > 127 THEN 1 ELSE 0)

\* Which one it is, Gb18030Codec says.
FourByteCharacter == -2

\* gb18030_decode_one, which is what decodes GBK as well.  The bytes it hands back
\* are left in front of it; Gb18030Decoder says what becomes of them.
GbkDecode(index, b) ==
  LET token == Gb18030!Token(b)
  IN  CASE token.result # "character" -> Failed(token.read - token.back)
        [] token = Gb18030!Outcome("character", 1, 0) ->
             Decoded(IF b[1] = 128 THEN 8364 ELSE b[1], 1)
        [] token = Gb18030!Outcome("character", 2, 0) ->
             AtPointer(index, GbkPointer(b[1], b[2]), 2)
        [] token = Gb18030!Outcome("character", 4, 0) -> Decoded(FourByteCharacter, 4)

GbkBytes(pointer) ==
  <<pointer \div 190 + 129,
    IF (pointer % 190) + 64 >= 127 THEN (pointer % 190) + 65 ELSE (pointer % 190) + 64>>

GbkEncode(pointer, cp) ==
  IF cp < 128 THEN <<cp>>
  ELSE IF cp = 8364 THEN <<128>>
  ELSE IF pointer >= 0 THEN GbkBytes(pointer) ELSE NoBytes

-----------------------------------------------------------------------------
\* A single-byte index has 128 pointers, for the bytes from 0x80.
SingleByteDecode(index, byte) ==
  IF byte < 128 THEN Decoded(byte, 1) ELSE AtPointer(index, byte - 128, 1)

SingleByteEncode(pointer, cp) ==
  IF cp < 128 THEN <<cp>> ELSE IF pointer >= 0 THEN <<128 + pointer>> ELSE NoBytes

XUserDefinedDecode(byte) == Decoded(IF byte < 128 THEN byte ELSE 63360 + (byte - 128), 1)

\* Mutant: a byte that the index lacks is read as U+0000.
DecodeByteUnchecked(index, byte) == IF byte < 128 THEN byte ELSE At(index, byte - 128)

\* What the views that are random access call for one byte: U+FFFD is the error.
DecodeByte(index, byte) ==
  IF byte < 128 THEN byte
  ELSE IF At(index, byte - 128) = 0 THEN 65533 ELSE At(index, byte - 128)

XUserDefinedByte(byte) == XUserDefinedDecode(byte).code_point
=============================================================================
