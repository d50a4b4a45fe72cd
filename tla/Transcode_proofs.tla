-------------------------- MODULE Transcode_proofs --------------------------
(***************************************************************************)
(* First, what the codecs encode is what they decode, for every code       *)
(* point, every index and whatever bytes come after: the arithmetic of     *)
(* lead and trail bytes (TableCodecs) and of UTF-8 sequences (Utf8).       *)
(*                                                                         *)
(* Then what a transcoding does with every source, every set of tables and *)
(* every order of decoding and encoding: what a reverse index finds, which *)
(* bytes a code point comes from, that what cannot be returned at once is  *)
(* not lost, and that what is written is read back.                        *)
(*                                                                         *)
(* The strengthenings: BuildingInv says of the index that is built what    *)
(* its passes know of the pointers they have come to, and MadeInv of those *)
(* that are done what they find.  DecodingInv says of every element that a *)
(* view has yielded which call of the decoder it comes from, or that the   *)
(* one before it has kept it.  KnownInv says that the code points are      *)
(* among those that the indexes were made for, and EncodingInv that the    *)
(* bytes written so far are read back in front of any others.              *)
(***************************************************************************)
EXTENDS Transcode, SequenceTheorems, WellFoundedInduction, TLAPS

-----------------------------------------------------------------------------
Byte == 0 .. 255

\* An index that has nothing from size on.
IsIndex(idx, size) == DOMAIN idx \subseteq {ptr \in Nat : ptr < size}

\* b begins with these bytes.
BeginsWith2(b, x, y) == Len(b) \in Nat /\ Len(b) >= 2 /\ b[1] = x /\ b[2] = y

LEMMA TwoBytes ==
  ASSUME NEW x \in Nat, NEW y \in Nat, NEW rest \in Seq(Byte)
  PROVE  BeginsWith2(<<x, y>> \o rest, x, y)
  BY DEF BeginsWith2

\* The pointer that is found has the code point.
LEMMA FoundPointer ==
  ASSUME NEW idx, NEW size \in Nat, IsIndex(idx, size), NEW cp \in Nat, cp >= 128,
         NEW excluded, NEW ptr \in Nat, IsFirstPointer(idx, excluded, cp, ptr)
  PROVE  At(idx, ptr) = cp /\ ptr < size
<1>1. ptr \in PointersOf(idx, excluded, cp)
  BY DEF IsFirstPointer
<1> QED
  BY <1>1 DEF PointersOf, At, IsIndex

-----------------------------------------------------------------------------
EucKrValid(x, y) == x \in 129 .. 254 /\ y \in 65 .. 254

LEMMA EucKrPair ==
  ASSUME NEW idx, NEW b, NEW x, NEW y, EucKrValid(x, y), BeginsWith2(b, x, y)
  PROVE  EucKrDecode(idx, b) = AtPointer(idx, EucKrPointer(x, y), 2)
  BY DEF EucKrDecode, BeginsWith2, EucKrValid

LEMMA EucKrPairOf ==
  ASSUME NEW ptr \in Nat, ptr < 23940
  PROVE  \E x, y \in Nat : EucKrBytes(ptr) = <<x, y>> /\ EucKrValid(x, y) /\ EucKrPointer(x, y) = ptr
<1>1. ptr \div 190 + 129 \in 129 .. 254 /\ (ptr % 190) + 65 \in 65 .. 254
  OBVIOUS
<1>2. EucKrPointer(ptr \div 190 + 129, (ptr % 190) + 65) = ptr
  BY DEF EucKrPointer
<1>3. EucKrBytes(ptr) = <<ptr \div 190 + 129, (ptr % 190) + 65>>
  BY DEF EucKrBytes
<1>4. EucKrValid(ptr \div 190 + 129, (ptr % 190) + 65)
  BY <1>1 DEF EucKrValid
<1> WITNESS ptr \div 190 + 129 \in Nat, (ptr % 190) + 65 \in Nat
<1> QED
  BY <1>2, <1>3, <1>4

\* A code point encoded as EUC-KR decodes to itself, whatever the index and
\* whatever follows (euc_kr_encode_one, euc_kr_decode_one).
THEOREM EucKrRoundTrip ==
  ASSUME NEW idx, IsIndex(idx, 23940), NEW cp \in Nat, cp >= 128,
         NEW ptr \in Nat, IsFirstPointer(idx, NoPointers, cp, ptr), NEW rest \in Seq(Byte)
  PROVE  EucKrDecode(idx, EucKrEncode(ptr, cp) \o rest) = Decoded(cp, 2)
<1>1. At(idx, ptr) = cp /\ ptr < 23940
  BY FoundPointer
<1>2. PICK x, y \in Nat :
        EucKrBytes(ptr) = <<x, y>> /\ EucKrValid(x, y) /\ EucKrPointer(x, y) = ptr
  BY <1>1, EucKrPairOf
<1>3. EucKrEncode(ptr, cp) = <<x, y>>
  BY <1>2 DEF EucKrEncode
<1>4. BeginsWith2(<<x, y>> \o rest, x, y)
  BY TwoBytes
<1>5. EucKrDecode(idx, <<x, y>> \o rest) = AtPointer(idx, ptr, 2)
  BY <1>2, <1>4, EucKrPair
<1> QED
  BY <1>1, <1>3, <1>5 DEF AtPointer
-----------------------------------------------------------------------------
ShiftJisValid(x, y) == x \in (129 .. 159) \cup (224 .. 252) /\ y \in (64 .. 126) \cup (128 .. 252)

LEMMA ShiftJisPair ==
  ASSUME NEW idx, NEW b, NEW x, NEW y, ShiftJisValid(x, y), BeginsWith2(b, x, y)
  PROVE  ShiftJisDecode(idx, b) = AtPointer(idx, ShiftJisPointer(x, y), 2)
  BY DEF ShiftJisDecode, BeginsWith2, ShiftJisValid

LEMMA ShiftJisPairOf ==
  ASSUME NEW ptr \in Nat, ptr < 11280
  PROVE  \E x, y \in Nat : ShiftJisBytes(ptr) = <<x, y>> /\ ShiftJisValid(x, y) /\ ShiftJisPointer(x, y) = ptr
<1> DEFINE row == ptr \div 188  cell == ptr % 188
<1>1. row \in Nat /\ cell \in 0 .. 187 /\ row < 60 /\ row * 188 + cell = ptr
  OBVIOUS
<1>2. ShiftJisBytes(ptr) = <<IF row < 31 THEN row + 129 ELSE row + 193, IF cell < 63 THEN cell + 64 ELSE cell + 65>>
  BY DEF ShiftJisBytes
<1> HIDE DEF row, cell
<1> DEFINE x == IF row < 31 THEN row + 129 ELSE row + 193
           y == IF cell < 63 THEN cell + 64 ELSE cell + 65
<1>3. x \in Nat /\ y \in Nat /\ ShiftJisValid(x, y)
  BY <1>1 DEF ShiftJisValid
<1>4. ShiftJisPointer(x, y) = ptr
  BY <1>1 DEF ShiftJisPointer
<1> USE <1>3
<1> WITNESS x \in Nat, y \in Nat
<1> QED
  BY <1>2, <1>3, <1>4

\* A code point that has a pointer in index jis0208, encoded as Shift_JIS, decodes
\* to itself: the bytes skipped between lead and between trail bytes are the same
\* both ways (shift_jis_encode_one, shift_jis_decode_one).
THEOREM ShiftJisRoundTrip ==
  ASSUME NEW jis0208, IsIndex(jis0208, 11280),
         NEW cp \in Nat, cp >= 128, cp \notin {165, 8254} \cup Halfwidth,
         NEW excluded, NEW ptr \in Nat, IsFirstPointer(jis0208, excluded, cp, ptr),
         NEW rest \in Seq(Byte)
  PROVE  ShiftJisDecode(jis0208, ShiftJisEncode(ptr, cp) \o rest) = Decoded(cp, 2)
<1>1. At(jis0208, ptr) = cp /\ ptr < 11280
  BY FoundPointer
<1>2. PICK x, y \in Nat :
        ShiftJisBytes(ptr) = <<x, y>> /\ ShiftJisValid(x, y) /\ ShiftJisPointer(x, y) = ptr
  BY <1>1, ShiftJisPairOf
<1>3. ShiftJisEncode(ptr, cp) = <<x, y>>
  BY <1>2 DEF ShiftJisEncode
<1>4. BeginsWith2(<<x, y>> \o rest, x, y)
  BY TwoBytes
<1>5. ShiftJisDecode(jis0208, <<x, y>> \o rest) = AtPointer(jis0208, ptr, 2)
  BY <1>2, <1>4, ShiftJisPair
<1> QED
  BY <1>1, <1>3, <1>5 DEF AtPointer

-----------------------------------------------------------------------------
GbkValid(x, y) == x \in 129 .. 254 /\ y \in (64 .. 126) \cup (128 .. 254)

LEMMA GbkCharacter ==
  ASSUME NEW idx, NEW b, NEW token, token = Gb18030!Token(b)
  PROVE  /\ token = Gb18030!Outcome("character", 1, 0) =>
              GbkDecode(idx, b) = Decoded(IF b[1] = 128 THEN 8364 ELSE b[1], 1)
         /\ token = Gb18030!Outcome("character", 2, 0) =>
              GbkDecode(idx, b) = AtPointer(idx, GbkPointer(b[1], b[2]), 2)
         /\ token = Gb18030!Outcome("character", 4, 0) =>
              GbkDecode(idx, b) = Decoded(FourByteCharacter, 4)
         /\ token.result # "character" => GbkDecode(idx, b) = Failed(token.read - token.back)
<1>1. \A n, m : Gb18030!Outcome("character", n, 0) = Gb18030!Outcome("character", m, 0) => n = m
  BY DEF Gb18030!Outcome
<1>2. \A n : Gb18030!Outcome("character", n, 0).result = "character"
  BY DEF Gb18030!Outcome
<1>3. GbkDecode(idx, b) =
        CASE token.result # "character" -> Failed(token.read - token.back)
          [] token = Gb18030!Outcome("character", 1, 0) ->
               Decoded(IF b[1] = 128 THEN 8364 ELSE b[1], 1)
          [] token = Gb18030!Outcome("character", 2, 0) ->
               AtPointer(idx, GbkPointer(b[1], b[2]), 2)
          [] token = Gb18030!Outcome("character", 4, 0) -> Decoded(FourByteCharacter, 4)
  BY DEF GbkDecode
<1>4. token = Gb18030!Outcome("character", 1, 0) =>
        GbkDecode(idx, b) = Decoded(IF b[1] = 128 THEN 8364 ELSE b[1], 1)
  BY <1>1, <1>2, <1>3
<1>5. token = Gb18030!Outcome("character", 2, 0) =>
        GbkDecode(idx, b) = AtPointer(idx, GbkPointer(b[1], b[2]), 2)
  BY <1>1, <1>2, <1>3
<1>6. token = Gb18030!Outcome("character", 4, 0) => GbkDecode(idx, b) = Decoded(FourByteCharacter, 4)
  BY <1>1, <1>2, <1>3
<1>7. token.result # "character" => GbkDecode(idx, b) = Failed(token.read - token.back)
  BY <1>2, <1>3
<1> QED
  BY <1>4, <1>5, <1>6, <1>7

LEMMA GbkPair ==
  ASSUME NEW idx, NEW b, NEW x, NEW y, GbkValid(x, y), BeginsWith2(b, x, y)
  PROVE  GbkDecode(idx, b) = AtPointer(idx, GbkPointer(x, y), 2)
<1>1. b[1] = x /\ b[2] = y /\ Len(b) \in Nat /\ Len(b) > 1
  BY DEF BeginsWith2
<1>2. Gb18030!LeadByte(x) /\ ~(x <= 128) /\ x # 255
  BY DEF GbkValid, Gb18030!LeadByte
<1>3. Gb18030!TrailByte(y) /\ ~Gb18030!Digit(y)
  BY SMTT(30) DEF GbkValid, Gb18030!TrailByte, Gb18030!Digit
<1>4. Gb18030!Token(b) = Gb18030!Outcome("character", 2, 0)
  BY <1>1, <1>2, <1>3 DEF Gb18030!Token, Gb18030!TwoByteToken
<1> QED
  BY <1>1, <1>4, GbkCharacter

LEMMA GbkAscii ==
  ASSUME NEW idx, NEW b, b[1] \in Nat, b[1] <= 128
  PROVE  GbkDecode(idx, b) = Decoded(IF b[1] = 128 THEN 8364 ELSE b[1], 1)
<1>1. ~(b[1] \in 129 .. 254) /\ b[1] # 255
  OBVIOUS
<1>2. Gb18030!Token(b) = Gb18030!Outcome("character", 1, 0)
  BY <1>1 DEF Gb18030!Token, Gb18030!LeadByte
<1> QED
  BY <1>2, GbkCharacter

LEMMA GbkPairOf ==
  ASSUME NEW ptr \in Nat, ptr < 23940
  PROVE  \E x, y \in Nat : GbkBytes(ptr) = <<x, y>> /\ GbkValid(x, y) /\ GbkPointer(x, y) = ptr
<1> DEFINE row == ptr \div 190  cell == ptr % 190
<1>1. row \in Nat /\ cell \in 0 .. 189 /\ row < 126 /\ row * 190 + cell = ptr
  OBVIOUS
<1>2. GbkBytes(ptr) = <<row + 129, IF cell + 64 >= 127 THEN cell + 65 ELSE cell + 64>>
  BY DEF GbkBytes
<1> HIDE DEF row, cell
<1> DEFINE x == row + 129
           y == IF cell + 64 >= 127 THEN cell + 65 ELSE cell + 64
<1>3. x \in Nat /\ y \in Nat /\ GbkValid(x, y)
  BY <1>1 DEF GbkValid
<1>4. GbkPointer(x, y) = ptr
  BY <1>1 DEF GbkPointer
<1> USE <1>3
<1> WITNESS x \in Nat, y \in Nat
<1> QED
  BY <1>2, <1>3, <1>4

\* A code point encoded as GBK decodes to itself: 0x7F is skipped between trail
\* bytes both ways (gbk_encode_one, gb18030_decode_one).
THEOREM GbkRoundTrip ==
  ASSUME NEW idx, IsIndex(idx, 23940), NEW cp \in Nat, cp >= 128, cp # 8364,
         NEW excluded, NEW ptr \in Nat, IsFirstPointer(idx, excluded, cp, ptr),
         NEW rest \in Seq(Byte)
  PROVE  GbkDecode(idx, GbkEncode(ptr, cp) \o rest) = Decoded(cp, 2)
<1>1. At(idx, ptr) = cp /\ ptr < 23940
  BY FoundPointer
<1>2. PICK x, y \in Nat : GbkBytes(ptr) = <<x, y>> /\ GbkValid(x, y) /\ GbkPointer(x, y) = ptr
  BY <1>1, GbkPairOf
<1>3. GbkEncode(ptr, cp) = <<x, y>>
  BY <1>2 DEF GbkEncode
<1>4. BeginsWith2(<<x, y>> \o rest, x, y)
  BY TwoBytes
<1>5. GbkDecode(idx, <<x, y>> \o rest) = AtPointer(idx, ptr, 2)
  BY <1>2, <1>4, GbkPair
<1> QED
  BY <1>1, <1>3, <1>5 DEF AtPointer

-----------------------------------------------------------------------------
Valid94(x, y) == x \in 161 .. 254 /\ y \in 161 .. 254

LEMMA PairOf94 ==
  ASSUME NEW ptr \in Nat, ptr < 8836
  PROVE  \E x, y \in Nat : Bytes94(ptr) = <<x, y>> /\ Valid94(x, y) /\ Pointer94(x, y) = ptr
<1> DEFINE row == ptr \div 94  cell == ptr % 94
<1>1. row \in Nat /\ cell \in 0 .. 93 /\ row < 94 /\ row * 94 + cell = ptr
  OBVIOUS
<1>2. Bytes94(ptr) = <<row + 161, cell + 161>>
  BY DEF Bytes94
<1> HIDE DEF row, cell
<1> DEFINE x == row + 161
           y == cell + 161
<1>3. x \in Nat /\ y \in Nat /\ Valid94(x, y)
  BY <1>1 DEF Valid94
<1>4. Pointer94(x, y) = ptr
  BY <1>1 DEF Pointer94
<1> USE <1>3
<1> WITNESS x \in Nat, y \in Nat
<1> QED
  BY <1>2, <1>3, <1>4

LEMMA EucJpPair ==
  ASSUME NEW jis0208, NEW jis0212, NEW b, NEW x, NEW y, Valid94(x, y), BeginsWith2(b, x, y)
  PROVE  EucJpDecode(jis0208, jis0212, b) = AtPointer(jis0208, Pointer94(x, y), 2)
  BY DEF EucJpDecode, BeginsWith2, Valid94, Trail94

LEMMA EucJpTriple ==
  ASSUME NEW jis0208, NEW jis0212, NEW b, NEW x, NEW y, Valid94(x, y),
         BeginsWith2(b, 143, x), Len(b) >= 3, b[3] = y
  PROVE  EucJpDecode(jis0208, jis0212, b) = AtPointer(jis0212, Pointer94(x, y), 3)
  BY DEF EucJpDecode, BeginsWith2, Valid94, Trail94

\* A code point encoded as EUC-JP decodes to itself, from index jis0208 if it is
\* there, in three bytes from index jis0212 if it is only there, and in two as a
\* half-width katakana (euc_jp_encode_one, euc_jp_decode_one).  Index jis0208 has
\* pointers that two bytes of EUC-JP do not reach, none of them a first one.
THEOREM EucJpRoundTrip ==
  ASSUME NEW jis0208, IsIndex(jis0208, 11280), NEW jis0212, IsIndex(jis0212, 8836),
         NEW cp \in Nat, cp >= 128, cp \notin {165, 8254}, NEW excluded,
         NEW p0208 \in Int, p0208 < 8836,
         p0208 >= 0 => IsFirstPointer(jis0208, excluded, cp, p0208),
         NEW p0212 \in Int, p0212 >= 0 => IsFirstPointer(jis0212, excluded, cp, p0212),
         p0208 >= 0 \/ p0212 >= 0 \/ cp \in Halfwidth, NEW rest \in Seq(Byte)
  PROVE  LET bytes == EucJpEncode(p0208, p0212, cp)
         IN  EucJpDecode(jis0208, jis0212, bytes \o rest) = Decoded(cp, Len(bytes))
<1>1. CASE cp \in Halfwidth
  <2>1. EucJpEncode(p0208, p0212, cp) = <<142, 161 + (cp - 65377)>>
    BY <1>1 DEF EucJpEncode
  <2>2. PICK y \in 161 .. 223 : y = 161 + (cp - 65377)
    BY <1>1 DEF Halfwidth
  <2>3. BeginsWith2(<<142, y>> \o rest, 142, y)
    BY TwoBytes, SMTT(30)
  <2>4. EucJpDecode(jis0208, jis0212, <<142, y>> \o rest) = Decoded(65377 + (y - 161), 2)
    BY <2>3 DEF EucJpDecode, BeginsWith2
  <2>5. 65377 + (y - 161) = cp
    BY <2>2
  <2> QED
    BY <2>1, <2>2, <2>4, <2>5
<1>2. CASE cp \notin Halfwidth /\ p0208 >= 0
  <2>1. At(jis0208, p0208) = cp /\ p0208 \in Nat /\ p0208 < 8836
    BY <1>2, FoundPointer
  <2>2. PICK x, y \in Nat : Bytes94(p0208) = <<x, y>> /\ Valid94(x, y) /\ Pointer94(x, y) = p0208
    BY <2>1, PairOf94
  <2>3. EucJpEncode(p0208, p0212, cp) = <<x, y>>
    BY <1>2, <2>2 DEF EucJpEncode
  <2>4. BeginsWith2(<<x, y>> \o rest, x, y)
    BY TwoBytes
  <2>5. EucJpDecode(jis0208, jis0212, <<x, y>> \o rest) = AtPointer(jis0208, p0208, 2)
    BY <2>2, <2>4, EucJpPair
  <2> QED
    BY <2>1, <2>3, <2>5 DEF AtPointer
<1>3. CASE cp \notin Halfwidth /\ ~(p0208 >= 0)
  <2>1. p0212 >= 0 /\ IsFirstPointer(jis0212, excluded, cp, p0212)
    BY <1>3
  <2>2. At(jis0212, p0212) = cp /\ p0212 \in Nat /\ p0212 < 8836
    BY <2>1, FoundPointer
  <2>3. PICK x, y \in Nat : Bytes94(p0212) = <<x, y>> /\ Valid94(x, y) /\ Pointer94(x, y) = p0212
    BY <2>2, PairOf94
  <2>4. EucJpEncode(p0208, p0212, cp) = <<143>> \o <<x, y>>
    BY <1>3, <2>1, <2>3, SMTT(30) DEF EucJpEncode
  <2> DEFINE bytes == <<143>> \o <<x, y>>
             b     == bytes \o rest
  <2>5. Len(bytes) = 3 /\ Len(b) \in Nat /\ Len(b) >= 3
    OBVIOUS
  <2>6. b[1] = 143 /\ b[2] = x /\ b[3] = y
    BY SMTT(30)
  <2> HIDE DEF bytes, b
  <2>7. EucJpDecode(jis0208, jis0212, b) = AtPointer(jis0212, p0212, 3)
    BY <2>3, <2>5, <2>6, EucJpTriple, SMTT(30) DEF BeginsWith2
  <2> QED
    BY <2>2, <2>4, <2>5, <2>7 DEF AtPointer, b, bytes
<1> QED
  BY <1>1, <1>2, <1>3

-----------------------------------------------------------------------------
\* A set of pointers has a last one.
LEMMA LastOfSet ==
  ASSUME NEW T, T # {}, \E top \in Nat : T \subseteq 0 .. top
  PROVE  \E ptr \in T : \A q \in T : q <= ptr
<1> PICK top \in Nat : T \subseteq 0 .. top
  OBVIOUS
<1> DEFINE R == OpToRel(<, Nat)
           U == {top - q : q \in T}
<1>1. IsWellFoundedOn(R, Nat)
  BY NatLessThanWellFounded
<1>2. \A q \in T : top - q \in Nat
  OBVIOUS
<1>3. U \subseteq Nat
  BY <1>2
<1>4. U # {}
  OBVIOUS
<1>5. \A x, y \in Nat : y < x => <<y, x>> \in R
  BY DEF OpToRel
<1> HIDE DEF R
<1>6. PICK x \in U : \A y \in U : ~(<<y, x>> \in R)
  <2> HIDE DEF U
  <2> QED
    BY <1>1, <1>3, <1>4, WFMin
<1>7. PICK ptr \in T : x = top - ptr
  OBVIOUS
<1>8. ASSUME NEW q \in T PROVE q <= ptr
  <2>1. ~(top - q < top - ptr)
    BY <1>3, <1>5, <1>6, <1>7
  <2>2. ptr \in Int /\ q \in Int
    OBVIOUS
  <2> QED
    BY <2>1, <2>2
<1> QED
  BY <1>8

Big5Valid(x, y) == x \in 129 .. 254 /\ y \in Big5Trail
Big5PointerAt(x, y) == (x - 129) * 157 + Big5Offset(y)

LEMMA Big5PairAt ==
  ASSUME NEW idx, NEW b, NEW x, NEW y, Big5Valid(x, y), BeginsWith2(b, x, y)
  PROVE  Big5Decode(idx, b) = Big5Pair(idx, Big5PointerAt(x, y), y)
  BY DEF Big5Decode, BeginsWith2, Big5Valid, Big5Trail, Big5PointerAt

LEMMA Big5PairOf ==
  ASSUME NEW ptr \in Nat, ptr < 19782
  PROVE  \E x, y \in Nat : Big5Bytes(ptr) = <<x, y>> /\ Big5Valid(x, y) /\ Big5PointerAt(x, y) = ptr
<1> DEFINE row == ptr \div 157  cell == ptr % 157
<1>1. row \in Nat /\ cell \in 0 .. 156 /\ row < 126 /\ row * 157 + cell = ptr
  OBVIOUS
<1>2. Big5Bytes(ptr) = <<row + 129, IF cell < 63 THEN cell + 64 ELSE cell + 98>>
  BY DEF Big5Bytes
<1> HIDE DEF row, cell
<1> DEFINE x == row + 129
           y == IF cell < 63 THEN cell + 64 ELSE cell + 98
<1>3. x \in Nat /\ y \in Nat /\ Big5Valid(x, y)
  BY <1>1 DEF Big5Valid, Big5Trail
<1>4. Big5PointerAt(x, y) = ptr
  BY <1>1 DEF Big5PointerAt, Big5Offset
<1>5. Big5Bytes(ptr) = <<x, y>>
  BY <1>2
<1> HIDE DEF x, y
<1> QED
  BY <1>3, <1>4, <1>5

LEMMA ChosenLast ==
  ASSUME NEW T, T # {}, NEW top \in Nat, T \subseteq 0 .. top
  PROVE  (CHOOSE ptr \in T : \A q \in T : q <= ptr) \in T
<1>1. \E ptr \in T : \A q \in T : q <= ptr
  BY LastOfSet
<1> QED
  BY <1>1

LEMMA Big5Candidate ==
  ASSUME NEW idx, IsIndex(idx, 19782), NEW cp, NEW ptr
  PROVE  ptr \in Big5Candidates(idx, cp) <=>
           ptr \in DOMAIN idx /\ idx[ptr] = cp /\ ptr \in Nat /\ ptr >= 5024 /\ ptr < 19782
<1>1. ptr \in DOMAIN idx => ptr \in Nat /\ ptr < 19782
  BY DEF IsIndex
<1>2. ptr \in Nat => (ptr <= 19781 <=> ptr < 19782)
  OBVIOUS
<1>3. ptr \in Big5Candidates(idx, cp) <=>
        ptr \in DOMAIN idx /\ ptr >= 5024 /\ ptr <= 19781 /\ idx[ptr] = cp
  BY DEF Big5Candidates
<1> QED
  BY <1>1, <1>2, <1>3

\* The pointer an encoder takes, the first or for six code points the last, has
\* the code point and is none of those with two.
LEMMA Big5PointerHas ==
  ASSUME NEW idx, IsIndex(idx, 19782), NEW cp \in Nat, cp >= 128,
         NEW found \in Int, IsFirstPointer(idx, Big5Excluded, cp, found), found >= 0
  PROVE  Big5Pointer(idx, found, cp) \in Big5Candidates(idx, cp)
<1>1. found \in PointersOf(idx, Big5Excluded, cp)
  BY DEF IsFirstPointer
<1>2. found \in DOMAIN idx /\ idx[found] = cp /\ ~Contains(Big5Excluded, found)
  BY <1>1 DEF PointersOf
<1>3. found >= 5024
  BY <1>2 DEF Contains, Big5Excluded
<1>4. found \in Nat /\ found < 19782
  BY <1>2 DEF IsIndex
<1>5. found \in Big5Candidates(idx, cp)
  BY <1>2, <1>3, <1>4, Big5Candidate
<1>6. CASE cp \in LastPointerOf
  <2>1. \A q \in Big5Candidates(idx, cp) : q \in Nat /\ q < 19782
    BY Big5Candidate
  <2> DEFINE top == 19781
  <2>2. top \in Nat /\ \A q \in Big5Candidates(idx, cp) : q \in Nat /\ q <= top
    BY <2>1
  <2> HIDE DEF top
  <2>3. Big5Candidates(idx, cp) \subseteq 0 .. top
    BY <2>2
  <2>4. Big5LastPointer(idx, cp) \in Big5Candidates(idx, cp)
    <3>1. Big5LastPointer(idx, cp) =
            CHOOSE ptr \in Big5Candidates(idx, cp) : \A q \in Big5Candidates(idx, cp) : q <= ptr
      BY <1>5 DEF Big5LastPointer
    <3> QED
      BY <1>5, <2>2, <2>3, <3>1, ChosenLast
  <2> QED
    BY <1>6, <2>4 DEF Big5Pointer
<1>7. CASE cp \notin LastPointerOf
  BY <1>5, <1>7 DEF Big5Pointer
<1> QED
  BY <1>6, <1>7

\* A code point encoded as Big5 decodes to itself, with no second code point
\* kept, whether its pointer is the first or the last (big5_encode_one,
\* big5_decode_one).
THEOREM Big5RoundTrip ==
  ASSUME NEW idx, IsIndex(idx, 19782), NEW cp \in Nat, cp >= 128,
         NEW found \in Int, IsFirstPointer(idx, Big5Excluded, cp, found), found >= 0,
         NEW rest \in Seq(Byte)
  PROVE  Big5Decode(idx, Big5Encode(idx, found, cp) \o rest) = Decoded(cp, 2)
<1> DEFINE ptr == Big5Pointer(idx, found, cp)
<1>1. ptr \in DOMAIN idx /\ idx[ptr] = cp /\ ptr \in Nat /\ ptr >= 5024 /\ ptr < 19782
  BY Big5PointerHas, Big5Candidate
<1> HIDE DEF ptr
<1>2. ptr \in Nat /\ ptr < 19782 /\ At(idx, ptr) = cp /\ ptr \notin {1133, 1135, 1164, 1165}
  BY <1>1 DEF At
<1>3. PICK x, y \in Nat :
        Big5Bytes(ptr) = <<x, y>> /\ Big5Valid(x, y) /\ Big5PointerAt(x, y) = ptr
  BY <1>2, Big5PairOf
<1>4. Big5Encode(idx, found, cp) = <<x, y>>
  BY <1>2, <1>3 DEF Big5Encode, ptr
<1>5. BeginsWith2(<<x, y>> \o rest, x, y)
  BY TwoBytes
<1>6. Big5Decode(idx, <<x, y>> \o rest) = Big5Pair(idx, ptr, y)
  BY <1>3, <1>5, Big5PairAt
<1>7. DOMAIN TwoCodePoints = {1133, 1135, 1164, 1165}
  BY DEF TwoCodePoints
<1> QED
  BY <1>2, <1>4, <1>6, <1>7 DEF Big5Pair

-----------------------------------------------------------------------------
\* The bits of a code point by six: what the bytes of its sequence have.
LEMMA SixBits ==
  ASSUME NEW cp \in Nat
  PROVE  \E a, d, e, f \in Nat :
           /\ d < 64 /\ e < 64 /\ f < 64
           /\ cp = ((a * 64 + d) * 64 + e) * 64 + f
           /\ cp \div 262144 = a
           /\ cp \div 4096 = a * 64 + d
           /\ cp \div 64 = (a * 64 + d) * 64 + e
           /\ (cp \div 4096) % 64 = d /\ (cp \div 64) % 64 = e /\ cp % 64 = f
<1> DEFINE a == cp \div 262144
           d == (cp \div 4096) % 64
           e == (cp \div 64) % 64
           f == cp % 64
<1>1. /\ a \in Nat /\ d \in Nat /\ e \in Nat /\ f \in Nat
      /\ d < 64 /\ e < 64 /\ f < 64
  OBVIOUS
<1>2. cp = ((a * 64 + d) * 64 + e) * 64 + f
  OBVIOUS
<1>3. cp \div 4096 = a * 64 + d
  OBVIOUS
<1>4. cp \div 64 = (a * 64 + d) * 64 + e
  OBVIOUS
<1> QED
  BY <1>1, <1>2, <1>3, <1>4

\* All the continuation bytes are taken if each may follow the lead byte.
LEMMA TakenAll ==
  ASSUME NEW b, NEW n \in Nat, Extra(b[1]) = n, Len(b) \in Nat, n < Len(b),
         \A i \in 1 .. n : Continues(b[1], i, b[i + 1])
  PROVE  Taken(b) = n
<1>1. n \in Good(b)
  BY DEF Good
<1>2. \A j \in Good(b) : j \in Nat /\ j <= n
  BY DEF Good
<1>3. Taken(b) \in Good(b) /\ n <= Taken(b)
  BY <1>1, <1>2 DEF Taken
<1> QED
  BY <1>2, <1>3

LEMMA ContinuationBits ==
  ASSUME NEW byte \in 128 .. 191
  PROVE  byte % 64 = byte - 128
  BY SMTT(30)

\* The bytes of a well-formed sequence: the lead byte, the continuation bytes it
\* allows, and the code point they stand for.
TwoByteForm(b, cp, x, y) ==
  /\ x \in 194 .. 223 /\ y \in 128 .. 191
  /\ BeginsWith2(b, x, y)
  /\ cp \in Nat /\ cp = (x - 192) * 64 + (y - 128)

ThreeByteForm(b, cp, x, y, z) ==
  /\ x \in 224 .. 239 /\ y \in 128 .. 191 /\ z \in 128 .. 191
  /\ x = 224 => y >= 160
  /\ x = 237 => y <= 159
  /\ BeginsWith2(b, x, y) /\ Len(b) >= 3 /\ b[3] = z
  /\ cp \in Nat /\ cp = ((x - 224) * 64 + (y - 128)) * 64 + (z - 128)

FourByteForm(b, cp, x, y, z, w) ==
  /\ x \in 240 .. 244 /\ y \in 128 .. 191 /\ z \in 128 .. 191 /\ w \in 128 .. 191
  /\ x = 240 => y >= 144
  /\ x = 244 => y <= 143
  /\ BeginsWith2(b, x, y) /\ Len(b) >= 4 /\ b[3] = z /\ b[4] = w
  /\ cp \in Nat /\ cp = (((x - 240) * 64 + (y - 128)) * 64 + (z - 128)) * 64 + (w - 128)

LEMMA Utf8Two ==
  ASSUME NEW b, NEW cp, NEW x, NEW y, TwoByteForm(b, cp, x, y)
  PROVE  Utf8Decode(b) = Utf8Result(cp, 2)
<1> USE DEF TwoByteForm
<1>1. Extra(b[1]) = 1 /\ Len(b) \in Nat /\ 1 < Len(b) /\ b[1] = x /\ b[2] = y
  BY DEF Extra, BeginsWith2
<1>2. \A i \in 1 .. 1 : Continues(b[1], i, b[i + 1])
  <2>1. Continues(x, 1, y)
    BY DEF Continues
  <2>2. 1 + 1 = 2 /\ \A i \in 1 .. 1 : i = 1
    OBVIOUS
  <2> QED
    BY <1>1, <2>1, <2>2
<1>3. Taken(b) = 1
  BY <1>1, <1>2, TakenAll
<1>4. CodePoint(b) = cp
  BY <1>1 DEF CodePoint, Shift, LeadBits
<1> QED
  BY <1>1, <1>3, <1>4 DEF Utf8Decode, IsSurrogate

LEMMA Utf8Three ==
  ASSUME NEW b, NEW cp, NEW x, NEW y, NEW z, ThreeByteForm(b, cp, x, y, z)
  PROVE  Utf8Decode(b) = Utf8Result(cp, 3)
<1> USE DEF ThreeByteForm
<1>1. Extra(b[1]) = 2 /\ Len(b) \in Nat /\ 2 < Len(b) /\ b[1] = x /\ b[2] = y /\ b[3] = z
  BY DEF Extra, BeginsWith2
<1>2. \A i \in 1 .. 2 : Continues(b[1], i, b[i + 1])
  <2>1. Continues(x, 1, y)
    BY DEF Continues
  <2>2. Continues(x, 2, z)
    BY DEF Continues
  <2>3. 1 + 1 = 2 /\ 2 + 1 = 3 /\ \A i \in 1 .. 2 : i = 1 \/ i = 2
    OBVIOUS
  <2> QED
    BY <1>1, <2>1, <2>2, <2>3
<1>3. Taken(b) = 2
  BY <1>1, <1>2, TakenAll, SMTT(30)
<1>4. CodePoint(b) = cp
  <2>1. CodePoint(b) = Shift(Shift(LeadBits(x), y), z)
    BY <1>1 DEF CodePoint
  <2>2. LeadBits(x) = x - 224
    BY DEF LeadBits, Extra
  <2>3. y % 64 = y - 128 /\ z % 64 = z - 128
    BY ContinuationBits
  <2> QED
    BY <2>1, <2>2, <2>3 DEF Shift
<1>5. ~IsSurrogate(CodePoint(b)) /\ ~(CodePoint(b) > 1114111)
  BY <1>4 DEF IsSurrogate
<1> QED
  BY <1>1, <1>3, <1>4, <1>5 DEF Utf8Decode

LEMMA Utf8Four ==
  ASSUME NEW b, NEW cp, NEW x, NEW y, NEW z, NEW w, FourByteForm(b, cp, x, y, z, w)
  PROVE  Utf8Decode(b) = Utf8Result(cp, 4)
<1>0. /\ x \in 240 .. 244 /\ y \in 128 .. 191 /\ z \in 128 .. 191 /\ w \in 128 .. 191
      /\ (x = 240 => y >= 144) /\ (x = 244 => y <= 143)
      /\ cp \in Nat /\ cp = (((x - 240) * 64 + (y - 128)) * 64 + (z - 128)) * 64 + (w - 128)
  BY DEF FourByteForm
<1>1. /\ Extra(b[1]) = 3 /\ Len(b) \in Nat /\ 3 < Len(b)
      /\ b[1] = x /\ b[2] = y /\ b[3] = z /\ b[4] = w
  <2>1. Len(b) \in Nat /\ 3 < Len(b) /\ b[1] = x /\ b[2] = y /\ b[3] = z /\ b[4] = w
    BY DEF FourByteForm, BeginsWith2
  <2>2. Extra(x) = 3
    BY <1>0 DEF Extra
  <2> QED
    BY <2>1, <2>2
<1>2. \A i \in 1 .. 3 : Continues(b[1], i, b[i + 1])
  <2>1. Continues(x, 1, y)
    BY <1>0 DEF Continues
  <2>2. Continues(x, 2, z) /\ Continues(x, 3, w)
    BY <1>0 DEF Continues
  <2>3. 1 + 1 = 2 /\ 2 + 1 = 3 /\ 3 + 1 = 4 /\ \A i \in 1 .. 3 : i = 1 \/ i = 2 \/ i = 3
    OBVIOUS
  <2> QED
    BY <1>1, <2>1, <2>2, <2>3
<1>3. Taken(b) = 3
  BY <1>1, <1>2, TakenAll, SMTT(30)
<1>4. CodePoint(b) = cp
  <2>1. CodePoint(b) = Shift(Shift(Shift(LeadBits(x), y), z), w)
    BY <1>1 DEF CodePoint
  <2>2. LeadBits(x) = x - 240
    BY <1>0 DEF LeadBits, Extra
  <2>3. y % 64 = y - 128 /\ z % 64 = z - 128 /\ w % 64 = w - 128
    BY <1>0, ContinuationBits
  <2> QED
    BY <1>0, <2>1, <2>2, <2>3 DEF Shift
<1>5. ~IsSurrogate(CodePoint(b)) /\ ~(CodePoint(b) > 1114111)
  BY <1>0, <1>4, SMTT(30) DEF IsSurrogate
<1> QED
  BY <1>0, <1>1, <1>3, <1>4, <1>5 DEF Utf8Decode

\* utf8_decode_one reads back what utf8_encode_one writes for every code point
\* that is not a surrogate, whatever bytes follow, and takes exactly those bytes.
THEOREM Utf8RoundTrip ==
  ASSUME NEW cp \in Nat, cp <= 1114111, ~IsSurrogate(cp), NEW rest \in Seq(Byte)
  PROVE  Utf8Decode(Utf8Encode(cp) \o rest) = Utf8Result(cp, Len(Utf8Encode(cp)))
<1>1. PICK a, d, e, f \in Nat :
        /\ d < 64 /\ e < 64 /\ f < 64
        /\ cp = ((a * 64 + d) * 64 + e) * 64 + f
        /\ cp \div 262144 = a
        /\ cp \div 4096 = a * 64 + d
        /\ cp \div 64 = (a * 64 + d) * 64 + e
        /\ (cp \div 4096) % 64 = d /\ (cp \div 64) % 64 = e /\ cp % 64 = f
  BY SixBits
<1> DEFINE x2 == 192 + (d * 64 + e)
           x3 == 224 + d
           x4 == 240 + a
           y == 128 + d
           z == 128 + e
           w == 128 + f
<1>2. y \in 128 .. 191 /\ z \in 128 .. 191 /\ w \in 128 .. 191
  BY <1>1
<1>3. CASE cp < 128
  <2>1. Utf8Encode(cp) = <<cp>>
    BY <1>3 DEF Utf8Encode
  <2>2. (<<cp>> \o rest)[1] = cp /\ Len(<<cp>>) = 1
    OBVIOUS
  <2> QED
    BY <1>3, <2>1, <2>2 DEF Utf8Decode
<1>4. CASE cp >= 128 /\ cp < 2048
  <2>1. a = 0 /\ x2 \in 194 .. 223 /\ cp = (x2 - 192) * 64 + (w - 128)
    <3>1. a = 0 /\ d < 32
      BY <1>1, <1>4
    <3> QED
      BY <1>1, <1>4, <3>1
  <2>2. Utf8Encode(cp) = <<x2, w>>
    <3>1. 192 + (cp \div 64) = x2 /\ 128 + (cp % 64) = w
      BY <1>1, <2>1
    <3> QED
      BY <1>4, <3>1 DEF Utf8Encode, Continuation
  <2> DEFINE b == <<x2, w>> \o rest
  <2> HIDE DEF x2, w
  <2>3. BeginsWith2(b, x2, w)
    BY <1>2, <2>1, TwoBytes
  <2> HIDE DEF b
  <2>4. Utf8Decode(b) = Utf8Result(cp, 2)
    <3>1. TwoByteForm(b, cp, x2, w)
      BY <1>2, <2>1, <2>3 DEF TwoByteForm
    <3> QED
      BY <3>1, Utf8Two
  <2>5. Len(<<x2, w>>) = 2
    OBVIOUS
  <2> QED
    BY <2>2, <2>4, <2>5 DEF b
<1>5. CASE cp >= 2048 /\ cp < 65536
  <2>1. a * 64 + d < 16
    BY <1>1, <1>5
  <2>2. a = 0 /\ d < 16 /\ cp = (d * 64 + e) * 64 + f
    BY <1>1, <2>1
  <2>3. x3 \in 224 .. 239 /\ cp = ((x3 - 224) * 64 + (z - 128)) * 64 + (w - 128)
    BY <2>2, <1>1
  <2>4. x3 = 224 => z >= 160
    BY <1>1, <1>5, <2>2
  <2>5. x3 = 237 => z <= 159
    BY <1>1, <1>5, <2>2 DEF IsSurrogate
  <2>6. Utf8Encode(cp) = <<x3, z, w>>
    <3>1. 224 + (cp \div 4096) = x3 /\ 128 + ((cp \div 64) % 64) = z /\ 128 + (cp % 64) = w
      BY <1>1, <2>2
    <3> QED
      BY <1>5, <3>1 DEF Utf8Encode, Continuation
  <2> DEFINE b == <<x3, z, w>> \o rest
  <2> HIDE DEF x3, z, w
  <2>7. BeginsWith2(b, x3, z) /\ Len(b) >= 3 /\ b[3] = w
    BY <1>2, <2>3 DEF BeginsWith2
  <2> HIDE DEF b
  <2>8. Utf8Decode(b) = Utf8Result(cp, 3)
    <3>1. ThreeByteForm(b, cp, x3, z, w)
      BY <1>2, <2>3, <2>4, <2>5, <2>7 DEF ThreeByteForm
    <3> QED
      BY <3>1, Utf8Three
  <2>9. Len(<<x3, z, w>>) = 3
    OBVIOUS
  <2> QED
    BY <2>6, <2>8, <2>9 DEF b
<1>6. CASE cp >= 65536
  <2>1. a <= 4
    BY <1>1, <1>6
  <2>2. x4 \in 240 .. 244
        /\ cp = (((x4 - 240) * 64 + (y - 128)) * 64 + (z - 128)) * 64 + (w - 128)
    BY <2>1, <1>1
  <2>3. x4 = 240 => y >= 144
    BY <1>1, <1>6
  <2>4. x4 = 244 => y <= 143
    BY <1>1
  <2>5. Utf8Encode(cp) = <<x4, y, z, w>>
    <3>1. /\ 240 + (cp \div 262144) = x4 /\ 128 + ((cp \div 4096) % 64) = y
          /\ 128 + ((cp \div 64) % 64) = z /\ 128 + (cp % 64) = w
      BY <1>1
    <3> QED
      BY <1>6, <3>1, SMTT(30) DEF Utf8Encode, Continuation
  <2> DEFINE b == <<x4, y, z, w>> \o rest
  <2> HIDE DEF x4, y, z, w
  <2>6. BeginsWith2(b, x4, y) /\ Len(b) >= 4 /\ b[3] = z /\ b[4] = w
    BY <1>2, <2>2 DEF BeginsWith2
  <2> HIDE DEF b
  <2>7. Utf8Decode(b) = Utf8Result(cp, 4)
    <3>1. FourByteForm(b, cp, x4, y, z, w)
      BY <1>2, <2>2, <2>3, <2>4, <2>6 DEF FourByteForm
    <3> QED
      BY <3>1, Utf8Four
  <2>8. Len(<<x4, y, z, w>>) = 4
    OBVIOUS
  <2> QED
    BY <2>5, <2>7, <2>8 DEF b
<1> QED
  BY <1>3, <1>4, <1>5, <1>6

-----------------------------------------------------------------------------
\* A pointer that is not left out and has the code point.
IsOf(t, e, q, cp) == t[q] = cp /\ ~Reverse(t, e)!Contains(e, q)

FirstBelow(t, e, n, cp, r) ==
  \/ r = -1 /\ \A q \in DOMAIN t : q < n => ~IsOf(t, e, q, cp)
  \/ r \in DOMAIN t /\ r < n /\ IsOf(t, e, r, cp) /\ \A q \in DOMAIN t : IsOf(t, e, q, cp) => r <= q

IndexTyped(t, e) ==
  /\ pass \in {"shape", "fill", "built"}
  /\ p \in Nat /\ highest \in Nat /\ page_count \in Nat /\ next_page \in Nat

\* What the first pass knows of the pointers it has come to.
Measured(t, e) ==
  pass = "shape" =>
    /\ seen # {} => page_count > 0
    /\ next_page = 0 /\ DOMAIN pages = {}
    /\ \A q \in DOMAIN t :
         q < p /\ ~Reverse(t, e)!Contains(e, q) => t[q] <= highest /\ page_count > 0

\* Every code point that will have an entry has a page.
HasPages(t, e) ==
  pass # "shape" =>
    \A q \in DOMAIN t : ~Reverse(t, e)!Contains(e, q) => Reverse(t, e)!Page(t[q]) \in DOMAIN page_of

\* No page number wraps, two pages never share one, and what has no number yet
\* has no entry.
Numbered(t, e) ==
  pass # "shape" =>
    /\ page_of = [h \in DOMAIN page_of |-> page_of[h]]
    /\ next_page <= p /\ p <= Reverse(t, e)!Word - 2
    /\ \A h \in DOMAIN page_of :
         page_of[h] = Reverse(t, e)!NoPage \/ (page_of[h] \in Nat /\ page_of[h] < next_page)
    /\ \A h, g \in DOMAIN page_of :
         page_of[h] = page_of[g] /\ page_of[h] # Reverse(t, e)!NoPage => h = g
    /\ \A a \in DOMAIN pages : pages[a] \in Nat /\ pages[a] > 0
    /\ \A n, slot : n >= next_page /\ n \in Nat => <<n, slot>> \notin DOMAIN pages

Entries(t, e) ==
  pass # "shape" => \A cp \in Nat : FirstBelow(t, e, p, cp, Reverse(t, e)!Find(page_of, pages, cp))

BuiltAll(t, e) == pass = "built" => Reverse(t, e)!AtEnd

IndexInv(t, e) ==
  /\ IndexTyped(t, e) /\ Measured(t, e) /\ HasPages(t, e)
  /\ Numbered(t, e) /\ Entries(t, e) /\ BuiltAll(t, e)

-----------------------------------------------------------------------------
LEMMA PageOf ==
  ASSUME NEW t, NEW e, NEW a \in Nat, NEW b \in Nat
  PROVE  /\ Reverse(t, e)!Page(a) \in Nat
         /\ a <= b => Reverse(t, e)!Page(a) <= Reverse(t, e)!Page(b)
         /\ (/\ Reverse(t, e)!Page(a) = Reverse(t, e)!Page(b)
             /\ Reverse(t, e)!Slot(a) = Reverse(t, e)!Slot(b)) => a = b
<1>1. a = 256 * (a \div 256) + (a % 256) /\ b = 256 * (b \div 256) + (b % 256)
  OBVIOUS
<1>2. a \div 256 \in Nat /\ b \div 256 \in Nat /\ a % 256 \in 0 .. 255 /\ b % 256 \in 0 .. 255
  OBVIOUS
<1>3. a <= b => a \div 256 <= b \div 256
  BY <1>1, <1>2
<1> QED
  BY <1>1, <1>2, <1>3 DEF Reverse!Page, Reverse!Slot, Reverse!PageSize

LEMMA PointersTyped ==
  ASSUME NEW t, NEW e, Reverse(t, e)!TableAssumption
  PROVE  \A q \in DOMAIN t : q \in Nat /\ q <= Reverse(t, e)!Word - 3 /\ t[q] \in Nat
  BY DEF Reverse!TableAssumption

\* The pointers below the one after q are those below p, and q.
LEMMA ComesTo ==
  ASSUME NEW t, NEW e, Reverse(t, e)!TableAssumption, p \in Nat,
         NEW q \in DOMAIN t, Reverse(t, e)!Comes(q)
  PROVE  /\ q \in Nat /\ p' = q + 1 /\ p' <= Reverse(t, e)!Word - 2 /\ p <= q
         /\ \A r \in DOMAIN t : r \in Nat /\ (r < p' <=> r < p \/ r = q)
<1>1. \A r \in DOMAIN t : r \in Nat /\ r <= Reverse(t, e)!Word - 3
  BY PointersTyped
<1> QED
  BY <1>1 DEF Reverse!Comes, Reverse!Word

LEMMA IndexStarts ==
  ASSUME NEW t, NEW e, Reverse(t, e)!TableAssumption
  PROVE  Reverse(t, e)!Init => IndexInv(t, e)
<1> SUFFICES ASSUME Reverse(t, e)!Init PROVE IndexInv(t, e)
  OBVIOUS
<1>1. \A q \in DOMAIN t : q \in Nat
  BY PointersTyped
<1>2. DOMAIN pages = {}
  BY DEF Reverse!Init
<1> QED
  BY <1>1, <1>2
  DEF Reverse!Init, IndexInv, IndexTyped, Measured, HasPages, Numbered, Entries, BuiltAll

LEMMA IndexStartsAgain ==
  ASSUME NEW t, NEW e, Reverse(t, e)!TableAssumption, Reverse(t, e)!Init'
  PROVE  IndexInv(t, e)'
<1>1. \A q \in DOMAIN t : q \in Nat
  BY PointersTyped
<1>2. DOMAIN pages' = {}
  BY DEF Reverse!Init
<1> QED
  BY <1>1, <1>2
  DEF Reverse!Init, IndexInv, IndexTyped, Measured, HasPages, Numbered, Entries, BuiltAll

-----------------------------------------------------------------------------
LEMMA SkipKeepsIndex ==
  ASSUME NEW t, NEW e, Reverse(t, e)!TableAssumption, IndexInv(t, e), Reverse(t, e)!Skip
  PROVE  IndexInv(t, e)'
<1>1. PICK q \in DOMAIN t : Reverse(t, e)!Comes(q) /\ Reverse(t, e)!Contains(e, q)
  BY DEF Reverse!Skip
<1>2. /\ q \in Nat /\ p' = q + 1 /\ p' <= Reverse(t, e)!Word - 2 /\ p <= q
      /\ \A r \in DOMAIN t : r \in Nat /\ (r < p' <=> r < p \/ r = q)
  BY <1>1, ComesTo DEF IndexInv, IndexTyped
<1>3. UNCHANGED <<pass, highest, seen, page_count, page_of, pages, next_page>>
  BY DEF Reverse!Skip
<1>4. IndexTyped(t, e)' /\ Measured(t, e)' /\ HasPages(t, e)'
  BY <1>1, <1>2, <1>3 DEF IndexInv, IndexTyped, Measured, HasPages
<1>5. Numbered(t, e)'
  BY <1>2, <1>3 DEF IndexInv, IndexTyped, Numbered
<1>6. Entries(t, e)'
  <2>1. ASSUME NEW cp \in Nat, NEW r, FirstBelow(t, e, p, cp, r)
        PROVE  FirstBelow(t, e, p', cp, r)
    BY <1>1, <1>2, <2>1 DEF FirstBelow, IsOf
  <2>2. ASSUME NEW cp
        PROVE  Reverse(t, e)!Find(page_of', pages', cp) = Reverse(t, e)!Find(page_of, pages, cp)
    BY <1>3
  <2> QED
    BY <1>3, <2>1, <2>2 DEF IndexInv, Entries
<1>7. BuiltAll(t, e)'
  BY <1>3 DEF Reverse!Skip, BuiltAll
<1> QED
  BY <1>4, <1>5, <1>6, <1>7 DEF IndexInv

LEMMA MeasureKeepsIndex ==
  ASSUME NEW t, NEW e, Reverse(t, e)!TableAssumption, IndexInv(t, e), Reverse(t, e)!Measure
  PROVE  IndexInv(t, e)'
<1>1. PICK q \in DOMAIN t :
        /\ Reverse(t, e)!Comes(q)
        /\ ~Reverse(t, e)!Contains(e, q)
        /\ highest' = IF t[q] > highest THEN t[q] ELSE highest
        /\ seen' = seen \cup {Reverse(t, e)!Page(t[q])}
        /\ page_count' = IF Reverse(t, e)!Page(t[q]) \in seen THEN page_count ELSE page_count + 1
  BY DEF Reverse!Measure
<1>2. /\ q \in Nat /\ p' = q + 1
      /\ \A r \in DOMAIN t : r \in Nat /\ (r < p' <=> r < p \/ r = q)
  BY <1>1, ComesTo DEF IndexInv, IndexTyped
<1>3. \A r \in DOMAIN t : t[r] \in Nat
  BY PointersTyped
<1>4. pass = "shape" /\ UNCHANGED <<pass, page_of, pages, next_page>>
  BY DEF Reverse!Measure
<1>5. page_count' > 0 /\ page_count' \in Nat
  BY <1>1, <1>4 DEF IndexInv, IndexTyped, Measured
<1>6. highest' \in Nat /\ highest' >= highest /\ highest' >= t[q]
  BY <1>1, <1>3 DEF IndexInv, IndexTyped
<1>7. \A r \in DOMAIN t : r < p' /\ ~Reverse(t, e)!Contains(e, r) => t[r] <= highest'
  BY <1>2, <1>3, <1>4, <1>6 DEF IndexInv, IndexTyped, Measured
<1> QED
  BY <1>2, <1>4, <1>5, <1>6, <1>7
     DEF IndexInv, IndexTyped, Measured, HasPages, Numbered, Entries, BuiltAll

LEMMA AllocateKeepsIndex ==
  ASSUME NEW t, NEW e, Reverse(t, e)!TableAssumption, IndexInv(t, e), Reverse(t, e)!Allocate
  PROVE  IndexInv(t, e)'
<1>1. /\ pass = "shape" /\ Reverse(t, e)!AtEnd /\ pass' = "fill" /\ p' = 0
      /\ page_of' = [hi \in 0 .. Reverse(t, e)!PageSlots - 1 |-> Reverse(t, e)!NoPage]
      /\ UNCHANGED <<highest, seen, page_count, pages, next_page>>
  BY DEF Reverse!Allocate
<1>2. \A q \in DOMAIN t : q \in Nat /\ t[q] \in Nat
  BY PointersTyped
<1>3. next_page = 0 /\ DOMAIN pages = {}
  BY <1>1 DEF IndexInv, Measured
<1>4. HasPages(t, e)'
  <2> SUFFICES ASSUME NEW q \in DOMAIN t, ~Reverse(t, e)!Contains(e, q)
               PROVE  Reverse(t, e)!Page(t[q]) \in 0 .. Reverse(t, e)!PageSlots - 1
    BY <1>1 DEF HasPages
  <2>1. t[q] <= highest /\ page_count > 0
    BY <1>1, <1>2 DEF IndexInv, Measured, Reverse!AtEnd
  <2>2. /\ Reverse(t, e)!Page(t[q]) \in Nat /\ Reverse(t, e)!Page(highest) \in Nat
        /\ Reverse(t, e)!Page(t[q]) <= Reverse(t, e)!Page(highest)
    BY <1>2, <2>1, PageOf DEF IndexInv, IndexTyped
  <2> QED
    BY <2>1, <2>2 DEF Reverse!PageSlots
<1>5. Numbered(t, e)'
  BY <1>1, <1>3 DEF Numbered, Reverse!Word
<1>6. Entries(t, e)'
  <2> SUFFICES ASSUME NEW cp \in Nat
               PROVE  FirstBelow(t, e, 0, cp, Reverse(t, e)!Find(page_of', pages', cp))
    BY <1>1 DEF Entries
  <2>1. Reverse(t, e)!Find(page_of', pages', cp) = -1
    BY <1>1 DEF Reverse!Find
  <2> QED
    BY <1>2, <2>1 DEF FirstBelow
<1> QED
  BY <1>1, <1>4, <1>5, <1>6 DEF IndexInv, IndexTyped, Measured, BuiltAll

-----------------------------------------------------------------------------
LEMMA FillKeepsIndex ==
  ASSUME NEW t, NEW e, Reverse(t, e)!TableAssumption, IndexInv(t, e), Reverse(t, e)!Fill
  PROVE  IndexInv(t, e)'
<1>1. PICK q \in DOMAIN t :
        /\ Reverse(t, e)!Comes(q)
        /\ ~Reverse(t, e)!Contains(e, q)
        /\ Reverse(t, e)!NumberPage(t[q])
        /\ LET entry == <<Reverse(t, e)!PageNumber(t[q]), Reverse(t, e)!Slot(t[q])>>
           IN  IF entry \in DOMAIN pages THEN UNCHANGED pages ELSE Reverse(t, e)!Put(entry, q)
  BY DEF Reverse!Fill
<1>2. /\ q \in Nat /\ p' = q + 1 /\ p' <= Reverse(t, e)!Word - 2 /\ p <= q
      /\ \A r \in DOMAIN t : r \in Nat /\ (r < p' <=> r < p \/ r = q)
  BY <1>1, ComesTo DEF IndexInv, IndexTyped
<1>3. pass = "fill" /\ UNCHANGED <<pass, highest, seen, page_count>>
  BY DEF Reverse!Fill
<1> DEFINE c == t[q]
           h == Reverse(t, e)!Page(c)
           n == Reverse(t, e)!PageNumber(c)
           entry == <<n, Reverse(t, e)!Slot(c)>>
<1>4. c \in Nat /\ h \in DOMAIN page_of
  BY <1>1, <1>3, PointersTyped DEF IndexInv, HasPages
<1>5. /\ page_of = [g \in DOMAIN page_of |-> page_of[g]]
      /\ next_page \in Nat /\ next_page <= q /\ q <= Reverse(t, e)!Word - 3
      /\ next_page < Reverse(t, e)!NoPage
  BY <1>2, <1>3 DEF IndexInv, IndexTyped, Numbered, Reverse!Word, Reverse!NoPage
<1>6. /\ page_of' = [page_of EXCEPT ![h] = n]
      /\ next_page' = IF page_of[h] = Reverse(t, e)!NoPage THEN next_page + 1 ELSE next_page
  <2>1. (next_page + 1) % 65536 = next_page + 1
    BY <1>5 DEF Reverse!NoPage, Reverse!Word
  <2> QED
    BY <1>1, <2>1 DEF Reverse!NumberPage, Reverse!Word
<1>7. /\ n \in Nat /\ n < next_page' /\ n # Reverse(t, e)!NoPage
      /\ n = IF page_of[h] = Reverse(t, e)!NoPage THEN next_page ELSE page_of[h]
  BY <1>3, <1>4, <1>5, <1>6 DEF Reverse!PageNumber, IndexInv, Numbered
<1>8. IF entry \in DOMAIN pages THEN pages' = pages
      ELSE pages' = [a \in DOMAIN pages \cup {entry} |-> IF a = entry THEN q + 1 ELSE pages[a]]
  <2>1. (q + 1) % Reverse(t, e)!Word = q + 1
    BY <1>2, <1>5 DEF Reverse!Word
  <2> QED
    BY <1>1, <2>1 DEF Reverse!Put
<1> HIDE DEF c, h, n, entry
<1>9. IndexTyped(t, e)' /\ Measured(t, e)' /\ HasPages(t, e)' /\ BuiltAll(t, e)'
  BY <1>2, <1>3, <1>5, <1>6 DEF IndexInv, IndexTyped, Measured, HasPages, BuiltAll
\* A new number is a page's that had none, and no entry has it yet.
<1>10. \A g \in DOMAIN page_of :
         page_of[g] = Reverse(t, e)!NoPage \/ (page_of[g] \in Nat /\ page_of[g] < next_page)
  BY <1>3 DEF IndexInv, Numbered
<1>11. \A g \in DOMAIN page_of : g # h => page_of[g] # n
  BY <1>3, <1>4, <1>5, <1>7, <1>10 DEF IndexInv, Numbered
<1>12. Numbered(t, e)'
  <2>1. \A g \in DOMAIN page_of' :
          page_of'[g] = Reverse(t, e)!NoPage \/ (page_of'[g] \in Nat /\ page_of'[g] < next_page')
    BY <1>5, <1>6, <1>7, <1>10
  <2>2. \A g, k \in DOMAIN page_of' :
          page_of'[g] = page_of'[k] /\ page_of'[g] # Reverse(t, e)!NoPage => g = k
    BY <1>3, <1>6, <1>11 DEF IndexInv, Numbered
  <2>3. \A m, slot : m >= next_page' /\ m \in Nat => <<m, slot>> \notin DOMAIN pages'
    BY <1>3, <1>5, <1>6, <1>7, <1>8 DEF IndexInv, Numbered, entry
  <2>4. page_of' = [g \in DOMAIN page_of' |-> page_of'[g]]
    BY <1>5, <1>6
  <2>5. next_page' <= p'
    BY <1>2, <1>5, <1>6
  <2>6. \A a \in DOMAIN pages' : pages'[a] \in Nat /\ pages'[a] > 0
    BY <1>2, <1>3, <1>8 DEF IndexInv, Numbered
  <2> QED
    BY <1>2, <2>1, <2>2, <2>3, <2>4, <2>5, <2>6 DEF Numbered
<1>13. Entries(t, e)'
  <2> SUFFICES ASSUME NEW cp \in Nat
               PROVE  FirstBelow(t, e, p', cp, Reverse(t, e)!Find(page_of', pages', cp))
    BY DEF Entries
  <2>1. FirstBelow(t, e, p, cp, Reverse(t, e)!Find(page_of, pages, cp))
    BY <1>3 DEF IndexInv, Entries
  <2>2. CASE cp = c
    <3>1. page_of'[h] = n /\ h \in DOMAIN page_of' /\ entry \in DOMAIN pages'
      BY <1>4, <1>6, <1>8
    <3>2. Reverse(t, e)!Find(page_of', pages', cp) = pages'[entry] - 1
      BY <2>2, <3>1, <1>7 DEF Reverse!Find, h, entry
    <3>3. CASE entry \in DOMAIN pages
      <4>1. page_of[h] = n
        BY <1>3, <1>5, <1>7, <3>3 DEF IndexInv, Numbered, entry
      <4>2. Reverse(t, e)!Find(page_of, pages, cp) = pages[entry] - 1
        BY <1>4, <1>7, <2>2, <3>3, <4>1 DEF Reverse!Find, h, entry
      <4>3. Reverse(t, e)!Find(page_of', pages', cp) = Reverse(t, e)!Find(page_of, pages, cp)
        BY <1>8, <3>2, <3>3, <4>2
      <4>4. /\ Reverse(t, e)!Find(page_of', pages', cp) \in Int
            /\ Reverse(t, e)!Find(page_of', pages', cp) # -1
        BY <1>3, <3>3, <4>2, <4>3 DEF IndexInv, Numbered
      <4> QED
        BY <1>2, <2>1, <4>3, <4>4 DEF FirstBelow
    <3>4. CASE entry \notin DOMAIN pages
      <4>1. Reverse(t, e)!Find(page_of, pages, cp) = -1
        BY <1>4, <1>7, <2>2, <3>4 DEF Reverse!Find, h, entry
      <4>2. Reverse(t, e)!Find(page_of', pages', cp) = q
        BY <1>2, <1>8, <3>2, <3>4
      <4>3. \A r \in DOMAIN t : r < p => ~IsOf(t, e, r, cp)
        BY <1>2, <2>1, <4>1 DEF FirstBelow
      <4>4. IsOf(t, e, q, cp) /\ q < p'
        BY <1>1, <1>2, <2>2 DEF IsOf, c
      <4>5. \A r \in DOMAIN t : IsOf(t, e, r, cp) => q <= r
        BY <1>1, <1>2, <4>3 DEF Reverse!Comes, IndexInv, IndexTyped
      <4> QED
        BY <4>2, <4>4, <4>5 DEF FirstBelow
    <3> QED
      BY <3>3, <3>4
  <2>3. CASE cp # c
    <3>1. Reverse(t, e)!Find(page_of', pages', cp) = Reverse(t, e)!Find(page_of, pages, cp)
      <4>1. CASE Reverse(t, e)!Page(cp) = h
        <5>1. Reverse(t, e)!Slot(cp) # Reverse(t, e)!Slot(c)
          BY <1>4, <2>3, <4>1, PageOf DEF h
        <5>2. entry # <<n, Reverse(t, e)!Slot(cp)>>
          BY <5>1 DEF entry
        <5>3. page_of'[h] = n /\ h \in DOMAIN page_of' /\ h \in DOMAIN page_of
          BY <1>4, <1>6
        <5>4. /\ <<n, Reverse(t, e)!Slot(cp)>> \in DOMAIN pages'
                   <=> <<n, Reverse(t, e)!Slot(cp)>> \in DOMAIN pages
              /\ <<n, Reverse(t, e)!Slot(cp)>> \in DOMAIN pages =>
                   pages'[<<n, Reverse(t, e)!Slot(cp)>>] = pages[<<n, Reverse(t, e)!Slot(cp)>>]
          BY <1>8, <5>2
        <5>5. page_of[h] = Reverse(t, e)!NoPage => <<n, Reverse(t, e)!Slot(cp)>> \notin DOMAIN pages
          BY <1>3, <1>5, <1>7 DEF IndexInv, Numbered
        <5> QED
          BY <1>7, <4>1, <5>3, <5>4, <5>5 DEF Reverse!Find
      <4>2. CASE Reverse(t, e)!Page(cp) # h
        <5> DEFINE k == Reverse(t, e)!Page(cp)
        <5> HIDE DEF k
        <5>1. /\ k \in DOMAIN page_of <=> k \in DOMAIN page_of'
              /\ k \in DOMAIN page_of => page_of'[k] = page_of[k]
          BY <1>6, <4>2 DEF k
        <5>2. k \in DOMAIN page_of => entry # <<page_of[k], Reverse(t, e)!Slot(cp)>>
          BY <1>11, <4>2 DEF entry, k
        <5>3. k \in DOMAIN page_of /\ <<page_of[k], Reverse(t, e)!Slot(cp)>> \in DOMAIN pages =>
                pages'[<<page_of[k], Reverse(t, e)!Slot(cp)>>] = pages[<<page_of[k], Reverse(t, e)!Slot(cp)>>]
          BY <1>8, <5>2
        <5>4. k \in DOMAIN page_of =>
                (<<page_of[k], Reverse(t, e)!Slot(cp)>> \in DOMAIN pages'
                   <=> <<page_of[k], Reverse(t, e)!Slot(cp)>> \in DOMAIN pages)
          BY <1>8, <5>2
        <5> QED
          BY <5>1, <5>3, <5>4 DEF Reverse!Find, k
      <4> QED
        BY <4>1, <4>2
    <3> QED
      BY <1>1, <1>2, <2>1, <2>3, <3>1 DEF FirstBelow, IsOf, c
  <2> QED
    BY <2>2, <2>3
<1> QED
  BY <1>9, <1>12, <1>13 DEF IndexInv

LEMMA BuiltKeepsIndex ==
  ASSUME NEW t, NEW e, Reverse(t, e)!TableAssumption, IndexInv(t, e), Reverse(t, e)!Built
  PROVE  IndexInv(t, e)'
<1>1. /\ pass = "fill" /\ pass' = "built" /\ Reverse(t, e)!AtEnd
      /\ UNCHANGED <<p, highest, seen, page_count, page_of, pages, next_page>>
  BY DEF Reverse!Built
<1>2. \A cp : Reverse(t, e)!Find(page_of', pages', cp) = Reverse(t, e)!Find(page_of, pages, cp)
  BY <1>1
<1>3. Reverse(t, e)!AtEnd'
  BY <1>1 DEF Reverse!AtEnd
<1> QED
  BY <1>1, <1>2, <1>3 DEF IndexInv, IndexTyped, Measured, HasPages, Numbered, Entries, BuiltAll

LEMMA StutterKeepsIndex ==
  ASSUME NEW t, NEW e, IndexInv(t, e),
         UNCHANGED <<pass, p, highest, seen, page_count, page_of, pages, next_page>>
  PROVE  IndexInv(t, e)'
<1>1. \A cp : Reverse(t, e)!Find(page_of', pages', cp) = Reverse(t, e)!Find(page_of, pages, cp)
  OBVIOUS
<1>2. Reverse(t, e)!AtEnd' <=> Reverse(t, e)!AtEnd
  BY DEF Reverse!AtEnd
<1> QED
  BY <1>1, <1>2 DEF IndexInv, IndexTyped, Measured, HasPages, Numbered, Entries, BuiltAll

LEMMA NextKeepsIndex ==
  ASSUME NEW t, NEW e, Reverse(t, e)!TableAssumption
  PROVE  IndexInv(t, e) /\ Reverse(t, e)!Next => IndexInv(t, e)'
  BY SkipKeepsIndex, MeasureKeepsIndex, AllocateKeepsIndex, FillKeepsIndex, BuiltKeepsIndex DEF Reverse!Next


\* A built index finds the first pointer of every code point that has one that is
\* not left out, and none for any other.
LEMMA BuiltFinds ==
  ASSUME NEW t, NEW e, Reverse(t, e)!TableAssumption, IndexInv(t, e), pass = "built",
         NEW cp \in CodePoints
  PROVE  IsFirstPointer(t, e, cp, Reverse(t, e)!Find(page_of, pages, cp))
<1> DEFINE found == Reverse(t, e)!Find(page_of, pages, cp)
<1>1. cp \in Nat
  BY DEF Reverse!TableAssumption
<1>2. FirstBelow(t, e, p, cp, found)
  BY <1>1 DEF IndexInv, Entries
<1>3. \A q \in DOMAIN t : q < p
  BY DEF IndexInv, BuiltAll, Reverse!AtEnd
<1>4. \A q : q \in PointersOf(t, e, cp) <=> q \in DOMAIN t /\ IsOf(t, e, q, cp)
  BY DEF PointersOf, IsOf, Contains, Reverse!Contains
<1> HIDE DEF found
<1>5. found = -1 /\ (\A q \in DOMAIN t : ~IsOf(t, e, q, cp)) => IsFirstPointer(t, e, cp, found)
  BY <1>4 DEF IsFirstPointer
<1>6. /\ found \in DOMAIN t /\ IsOf(t, e, found, cp)
      /\ \A q \in DOMAIN t : IsOf(t, e, q, cp) => found <= q
      => IsFirstPointer(t, e, cp, found)
  BY <1>4 DEF IsFirstPointer
<1>7. IsFirstPointer(t, e, cp, found)
  BY <1>2, <1>3, <1>5, <1>6 DEF FirstBelow
<1> QED
  BY <1>7 DEF found

\* It makes no difference which index the passes begin with.
LEMMA StartsAnew ==
  ASSUME NEW t, NEW e, NEW u, NEW f
  PROVE  /\ Reverse(t, e)!Init => Reverse(u, f)!Init
         /\ Reverse(t, e)!Forget => Reverse(u, f)!Init'
  BY DEF Reverse!Init, Reverse!Forget

-----------------------------------------------------------------------------
\* The index that is being built, if any.
BuildingInv ==
  \A i \in 1 .. Len(Indexes) :
    Building(i) => IndexInv(Indexes[i].table, Indexes[i].excluded)

\* What the indexes made find.
MadeInv ==
  /\ made \in Seq([CodePoints -> Int]) /\ Len(made) <= Len(Indexes)
  /\ phase # "build" => Len(made) = Len(Indexes)
  /\ \A i \in 1 .. Len(made) : \A cp \in CodePoints :
       IsFirstPointer(Indexes[i].table, Indexes[i].excluded, cp, made[i][cp])

\* What is found is a number.
LEMMA FoundIsInt ==
  ASSUME NEW t, NEW e, Reverse(t, e)!TableAssumption, NEW cp, NEW q,
         IsFirstPointer(t, e, cp, q)
  PROVE  q \in Int
  BY DEF IsFirstPointer, PointersOf, Reverse!TableAssumption

LEMMA MadeStarts ==
  ASSUME Init
  PROVE  BuildingInv /\ MadeInv
<1>1. ASSUME NEW i \in 1 .. Len(Indexes)
      PROVE  IndexInv(Indexes[i].table, Indexes[i].excluded)
  <2>1. PICK t, e : t = Indexes[i].table /\ e = Indexes[i].excluded
    OBVIOUS
  <2>2. Reverse(t, e)!TableAssumption
    BY <2>1, IndexesAssumption
  <2>3. Reverse(t, e)!Init
    BY StartsAnew DEF Init
  <2> QED
    BY <2>1, <2>2, <2>3, IndexStarts
<1>2. made = <<>> /\ phase = "build"
  BY DEF Init
<1> QED
  BY <1>1, <1>2, IndexesAssumption DEF BuildingInv, MadeInv

LEMMA MadeKept ==
  ASSUME BuildingInv, MadeInv, [Next]_vars
  PROVE  BuildingInv' /\ MadeInv'
<1>1. CASE Build
  <2>1. PICK i \in 1 .. Len(Indexes) :
          Building(i) /\ Reverse(Indexes[i].table, Indexes[i].excluded)!Next
    BY <1>1 DEF Build
  <2>2. UNCHANGED <<made, phase>>
    BY <1>1 DEF Build
  <2>3. PICK t, e : t = Indexes[i].table /\ e = Indexes[i].excluded
    OBVIOUS
  <2>4. Reverse(t, e)!TableAssumption /\ IndexInv(t, e)
    BY <2>1, <2>3, IndexesAssumption DEF BuildingInv
  <2>5. IndexInv(t, e)'
    BY <2>1, <2>3, <2>4, NextKeepsIndex
  <2>6. BuildingInv'
    BY <2>1, <2>2, <2>3, <2>5 DEF BuildingInv, Building
  <2>7. MadeInv'
    BY <2>2 DEF MadeInv
  <2> QED
    BY <2>6, <2>7
<1>2. CASE Keep
  <2>1. PICK i \in 1 .. Len(Indexes) :
          /\ Building(i)
          /\ pass = "built"
          /\ made' = Append(made, [cp \in CodePoints |->
                       Reverse(Indexes[i].table, Indexes[i].excluded)!Find(page_of, pages, cp)])
          /\ Reverse(Indexes[i].table, Indexes[i].excluded)!Forget
    BY <1>2 DEF Keep
  <2>2. phase' = phase /\ phase = "build" /\ i = Len(made) + 1
    BY <1>2, <2>1 DEF Keep, Building
  <2>3. PICK t, e : t = Indexes[i].table /\ e = Indexes[i].excluded
    OBVIOUS
  <2>4. Reverse(t, e)!TableAssumption /\ IndexInv(t, e)
    BY <2>1, <2>3, IndexesAssumption DEF BuildingInv
  <2>5. PICK f : f = [cp \in CodePoints |-> Reverse(t, e)!Find(page_of, pages, cp)]
    OBVIOUS
  <2>6. \A cp \in CodePoints : IsFirstPointer(t, e, cp, f[cp])
    BY <2>1, <2>4, <2>5, BuiltFinds
  <2>7. f \in [CodePoints -> Int]
    BY <2>4, <2>5, <2>6, FoundIsInt
  <2>8. made' = Append(made, f) /\ Len(made) \in Nat /\ Len(made') = i
    BY <2>1, <2>2, <2>3, <2>5 DEF MadeInv
  <2>9. MadeInv'
    <3>1. made' \in Seq([CodePoints -> Int]) /\ Len(made') <= Len(Indexes)
      BY <2>7, <2>8, IndexesAssumption DEF MadeInv
    <3>2. ASSUME NEW k \in 1 .. Len(made')
          PROVE  \A cp \in CodePoints :
                   IsFirstPointer(Indexes[k].table, Indexes[k].excluded, cp, made'[k][cp])
      <4>1. CASE k = i
        BY <2>2, <2>3, <2>6, <2>8, <4>1 DEF MadeInv
      <4>2. CASE k # i
        <5>1. k \in 1 .. Len(made) /\ made'[k] = made[k]
          BY <2>2, <2>8, <4>2 DEF MadeInv
        <5> QED
          BY <5>1 DEF MadeInv
      <4> QED
        BY <4>1, <4>2
    <3> QED
      BY <2>2, <3>1, <3>2 DEF MadeInv
  <2>10. ASSUME NEW k \in 1 .. Len(Indexes)
         PROVE  IndexInv(Indexes[k].table, Indexes[k].excluded)'
    <3>1. PICK u, g : u = Indexes[k].table /\ g = Indexes[k].excluded
      OBVIOUS
    <3>2. Reverse(u, g)!TableAssumption
      BY <3>1, IndexesAssumption
    <3>5. Reverse(t, e)!Forget
      BY <2>1, <2>3
    <3>3. Reverse(u, g)!Init'
      BY <3>5, StartsAnew
    <3>4. IndexInv(u, g)'
      BY <3>2, <3>3, IndexStartsAgain
    <3> QED
      BY <3>1, <3>4
  <2> QED
    BY <2>9, <2>10 DEF BuildingInv
<1>3. ASSUME UNCHANGED <<index, made>>, phase' = phase \/ (phase' # "build" /\ Len(made) = Len(Indexes))
      PROVE  BuildingInv' /\ MadeInv'
  <2>1. UNCHANGED <<pass, p, highest, seen, page_count, page_of, pages, next_page, made>>
    BY <1>3 DEF index
  <2>2. MadeInv'
    BY <1>3, <2>1 DEF MadeInv
  <2>3. ASSUME NEW i \in 1 .. Len(Indexes), Building(i)'
        PROVE  IndexInv(Indexes[i].table, Indexes[i].excluded)'
    <3>1. Building(i)
      BY <1>3, <2>1, <2>3 DEF Building
    <3>2. PICK t, e : t = Indexes[i].table /\ e = Indexes[i].excluded
      OBVIOUS
    <3>3. IndexInv(t, e)
      BY <3>1, <3>2 DEF BuildingInv
    <3>4. IndexInv(t, e)'
      BY <2>1, <3>3, StutterKeepsIndex
    <3> QED
      BY <3>2, <3>4
  <2> QED
    BY <2>2, <2>3 DEF BuildingInv
<1>4. CASE Start
  BY <1>3, <1>4 DEF Start, HasEncoder
<1>5. CASE DecodeFirst \/ DecodeNext \/ DecodePending \/ DecodeAt \/ Encode
  BY <1>3, <1>5 DEF DecodeFirst, DecodeNext, DecodePending, DecodeAt, Encode
<1>6. CASE Finish
  <2>1. phase' = "done" /\ phase = "decode" /\ UNCHANGED <<index, made>>
    BY <1>6 DEF Finish
  <2> QED
    BY <1>3, <2>1 DEF MadeInv
<1>7. CASE UNCHANGED vars
  BY <1>3, <1>7 DEF vars
<1> QED
  BY <1>1, <1>2, <1>4, <1>5, <1>6, <1>7 DEF Next

\* Every reverse index that is built finds the first pointer of every code point
\* that has one that is not left out, and none for any other: no page number
\* wraps, and the entries of one page are never read as another's
\* (make_reverse_index, reverse_index::find).
THEOREM FindsFirstPointer == Spec => []FindIsFirstPointer
<1>1. BuildingInv /\ MadeInv => FindIsFirstPointer
  <2> SUFFICES ASSUME BuildingInv, NEW i \in 1 .. Len(Indexes), Building(i)
               PROVE  Reverse(Indexes[i].table, Indexes[i].excluded)!FindIsFirstPointer
    BY DEF FindIsFirstPointer
  <2>1. PICK t, e : t = Indexes[i].table /\ e = Indexes[i].excluded
    OBVIOUS
  <2>2. Reverse(t, e)!TableAssumption /\ IndexInv(t, e)
    BY <2>1, IndexesAssumption DEF BuildingInv
  <2>3. \A cp, q : Reverse(t, e)!IsFirstPointer(t, e, cp, q) <=> IsFirstPointer(t, e, cp, q)
    BY DEF IsFirstPointer, PointersOf, Contains, Reverse!IsFirstPointer, Reverse!PointersOf,
           Reverse!Contains
  <2>4. Reverse(t, e)!FindIsFirstPointer
    BY <2>2, <2>3, BuiltFinds DEF Reverse!FindIsFirstPointer
  <2> QED
    BY <2>1, <2>4
<1> QED
  BY <1>1, MadeStarts, MadeKept, PTL DEF Spec

-----------------------------------------------------------------------------
\* A lead byte has one row of Table 3-7, as long as its sequence, which allows
\* the continuation bytes the decoder does.
RowOf(x, row) ==
  /\ x \in row[1]
  /\ Len(row) = Extra(x) + 1
  /\ \A i \in 2 .. Len(row) : \A y \in Byte : y \in row[i] <=> Continues(x, i - 1, y)

LEMMA OneRow ==
  ASSUME NEW x \in Byte, NEW A, x \in A, A \subseteq 0 .. 127
  PROVE  RowOf(x, <<A>>)
<1>1. Len(<<A>>) = 1 /\ <<A>>[1] = A /\ 2 .. 1 = {} /\ Extra(x) = 0
  BY DEF Extra
<1> QED
  BY <1>1 DEF RowOf

LEMMA TwoRow ==
  ASSUME NEW x \in Byte, NEW A, NEW B, x \in A, Extra(x) = 1,
         \A y \in Byte : y \in B <=> Continues(x, 1, y)
  PROVE  RowOf(x, <<A, B>>)
<1>1. Len(<<A, B>>) = 2 /\ <<A, B>>[1] = A /\ <<A, B>>[2] = B
  OBVIOUS
<1>2. \A i \in 2 .. 2 : i = 2 /\ i - 1 = 1
  OBVIOUS
<1> QED
  BY <1>1, <1>2 DEF RowOf

LEMMA ThreeRow ==
  ASSUME NEW x \in Byte, NEW A, NEW B, NEW D, x \in A, Extra(x) = 2,
         \A y \in Byte : y \in B <=> Continues(x, 1, y),
         \A y \in Byte : y \in D <=> Continues(x, 2, y)
  PROVE  RowOf(x, <<A, B, D>>)
<1>1. Len(<<A, B, D>>) = 3 /\ <<A, B, D>>[1] = A /\ <<A, B, D>>[2] = B /\ <<A, B, D>>[3] = D
  OBVIOUS
<1>2. \A i \in 2 .. 3 : (i = 2 /\ i - 1 = 1) \/ (i = 3 /\ i - 1 = 2)
  OBVIOUS
<1> QED
  BY <1>1, <1>2 DEF RowOf

LEMMA FourRow ==
  ASSUME NEW x \in Byte, NEW A, NEW B, NEW D, NEW E, x \in A, Extra(x) = 3,
         \A y \in Byte : y \in B <=> Continues(x, 1, y),
         \A y \in Byte : y \in D <=> Continues(x, 2, y),
         \A y \in Byte : y \in E <=> Continues(x, 3, y)
  PROVE  RowOf(x, <<A, B, D, E>>)
<1>1. /\ Len(<<A, B, D, E>>) = 4 /\ <<A, B, D, E>>[1] = A /\ <<A, B, D, E>>[2] = B
      /\ <<A, B, D, E>>[3] = D /\ <<A, B, D, E>>[4] = E
  OBVIOUS
<1>2. \A i \in 2 .. 4 : (i = 2 /\ i - 1 = 1) \/ (i = 3 /\ i - 1 = 2) \/ (i = 4 /\ i - 1 = 3)
  OBVIOUS
<1> QED
  BY <1>1, <1>2 DEF RowOf

LEMMA LaterByte ==
  ASSUME NEW x \in Byte, NEW i \in {2, 3}
  PROVE  \A y \in Byte : y \in C <=> Continues(x, i, y)
  BY DEF Continues, C

LEMMA Rows ==
  ASSUME NEW x \in Byte, NEW row \in WellFormed, x \in row[1]
  PROVE  RowOf(x, row) /\ (x < 128 \/ Extra(x) > 0)
<1>1. CASE row = <<0 .. 127>>
  <2>1. x \in 0 .. 127
    BY <1>1
  <2> QED
    BY <1>1, <2>1, OneRow
<1>2. CASE row = <<194 .. 223, C>>
  <2>1. x \in 194 .. 223 /\ Extra(x) = 1
    BY <1>2 DEF Extra
  <2>2. \A y \in Byte : y \in C <=> Continues(x, 1, y)
    BY <2>1 DEF Continues, C
  <2> QED
    BY <1>2, <2>1, <2>2, TwoRow
<1>3. CASE row = <<{224}, 160 .. 191, C>>
  <2>1. x \in {224} /\ Extra(x) = 2
    BY <1>3 DEF Extra
  <2>2. \A y \in Byte : y \in 160 .. 191 <=> Continues(x, 1, y)
    BY <2>1 DEF Continues
  <2> QED
    BY <1>3, <2>1, <2>2, LaterByte, ThreeRow
<1>4. CASE row = <<225 .. 236, C, C>>
  <2>1. x \in 225 .. 236 /\ Extra(x) = 2
    BY <1>4 DEF Extra
  <2>2. \A y \in Byte : y \in C <=> Continues(x, 1, y)
    BY <2>1 DEF Continues, C
  <2> QED
    BY <1>4, <2>1, <2>2, LaterByte, ThreeRow
<1>5. CASE row = <<{237}, 128 .. 159, C>>
  <2>1. x \in {237} /\ Extra(x) = 2
    BY <1>5 DEF Extra
  <2>2. \A y \in Byte : y \in 128 .. 159 <=> Continues(x, 1, y)
    BY <2>1 DEF Continues
  <2> QED
    BY <1>5, <2>1, <2>2, LaterByte, ThreeRow
<1>6. CASE row = <<238 .. 239, C, C>>
  <2>1. x \in 238 .. 239 /\ Extra(x) = 2
    BY <1>6 DEF Extra
  <2>2. \A y \in Byte : y \in C <=> Continues(x, 1, y)
    BY <2>1 DEF Continues, C
  <2> QED
    BY <1>6, <2>1, <2>2, LaterByte, ThreeRow
<1>7. CASE row = <<{240}, 144 .. 191, C, C>>
  <2>1. x \in {240} /\ Extra(x) = 3
    BY <1>7 DEF Extra
  <2>2. \A y \in Byte : y \in 144 .. 191 <=> Continues(x, 1, y)
    BY <2>1 DEF Continues
  <2> QED
    BY <1>7, <2>1, <2>2, LaterByte, FourRow
<1>8. CASE row = <<241 .. 243, C, C, C>>
  <2>1. x \in 241 .. 243 /\ Extra(x) = 3
    BY <1>8 DEF Extra
  <2>2. \A y \in Byte : y \in C <=> Continues(x, 1, y)
    BY <2>1 DEF Continues, C
  <2> QED
    BY <1>8, <2>1, <2>2, LaterByte, FourRow
<1>9. CASE row = <<{244}, 128 .. 143, C, C>>
  <2>1. x \in {244} /\ Extra(x) = 3
    BY <1>9 DEF Extra
  <2>2. \A y \in Byte : y \in 128 .. 143 <=> Continues(x, 1, y)
    BY <2>1 DEF Continues
  <2> QED
    BY <1>9, <2>1, <2>2, LaterByte, FourRow
<1> QED
  BY <1>1, <1>2, <1>3, <1>4, <1>5, <1>6, <1>7, <1>8, <1>9 DEF WellFormed

LEMMA SomeRow ==
  ASSUME NEW x \in Byte, x < 128 \/ Extra(x) > 0
  PROVE  \E row \in WellFormed : x \in row[1]
<1>1. x < 128 \/ x \in 194 .. 244
  BY DEF Extra
<1>2. CASE x < 128
  <2>1. x \in 0 .. 127
    BY <1>2 DEF Byte
  <2>2. <<0 .. 127>> \in WellFormed
    BY DEF WellFormed
  <2>3. x \in <<0 .. 127>>[1]
    BY <2>1
  <2> QED
    BY <2>2, <2>3
<1>3. CASE x \in 194 .. 223
  <2>1. x \in <<194 .. 223, C>>[1] /\ <<194 .. 223, C>> \in WellFormed
    BY <1>3 DEF WellFormed
  <2> QED
    BY <2>1
<1>4. CASE x \in 224 .. 239
  <2>1. x = 224 \/ x \in 225 .. 236 \/ x = 237 \/ x \in 238 .. 239
    BY <1>4
  <2>2. /\ x = 224 => x \in <<{224}, 160 .. 191, C>>[1]
        /\ x \in 225 .. 236 => x \in <<225 .. 236, C, C>>[1]
        /\ x = 237 => x \in <<{237}, 128 .. 159, C>>[1]
        /\ x \in 238 .. 239 => x \in <<238 .. 239, C, C>>[1]
    OBVIOUS
  <2> QED
    BY <2>1, <2>2 DEF WellFormed
<1>5. CASE x \in 240 .. 244
  <2>1. x = 240 \/ x \in 241 .. 243 \/ x = 244
    BY <1>5
  <2>2. /\ x = 240 => x \in <<{240}, 144 .. 191, C, C>>[1]
        /\ x \in 241 .. 243 => x \in <<241 .. 243, C, C, C>>[1]
        /\ x = 244 => x \in <<{244}, 128 .. 143, C, C>>[1]
    OBVIOUS
  <2> QED
    BY <2>1, <2>2 DEF WellFormed
<1> QED
  BY <1>1, <1>2, <1>3, <1>4, <1>5

\* A sequence fits some row as far as its continuation bytes may follow.
Follow(b, k) == \A i \in 1 .. k : Continues(b[1], i, b[i + 1])

LEMMA FitsRow ==
  ASSUME NEW b \in Seq(Byte), NEW k \in Nat, k >= 1, k <= Len(b), NEW row \in WellFormed
  PROVE  Fits(b, k, row) <=> b[1] \in row[1] /\ k <= Extra(b[1]) + 1 /\ Follow(b, k - 1)
<1>1. b[1] \in Byte /\ 1 \in 1 .. k
  OBVIOUS
<1>2. Fits(b, k, row) => b[1] \in row[1]
  BY <1>1 DEF Fits
<1>3. ASSUME b[1] \in row[1]
      PROVE  Fits(b, k, row) <=> k <= Extra(b[1]) + 1 /\ Follow(b, k - 1)
  <2>1. RowOf(b[1], row)
    BY <1>1, <1>3, Rows
  <2>2. Len(row) = Extra(b[1]) + 1 /\ Extra(b[1]) \in Nat
    BY <2>1 DEF RowOf, Extra
  <2>3. ASSUME k <= Len(row), NEW i \in 2 .. k
        PROVE  b[i] \in row[i] <=> Continues(b[1], i - 1, b[i])
    <3>1. b[i] \in Byte /\ i \in 2 .. Len(row)
      BY <2>2, <2>3
    <3> QED
      BY <2>1, <3>1 DEF RowOf
  <2>4. Follow(b, k - 1) <=> \A i \in 2 .. k : Continues(b[1], i - 1, b[i])
    <3>1. ASSUME Follow(b, k - 1), NEW i \in 2 .. k PROVE Continues(b[1], i - 1, b[i])
      <4>1. i - 1 \in 1 .. (k - 1) /\ (i - 1) + 1 = i
        OBVIOUS
      <4> QED
        BY <3>1, <4>1 DEF Follow
    <3>2. ASSUME \A i \in 2 .. k : Continues(b[1], i - 1, b[i]), NEW i \in 1 .. (k - 1)
          PROVE  Continues(b[1], i, b[i + 1])
      <4>1. i + 1 \in 2 .. k /\ (i + 1) - 1 = i
        OBVIOUS
      <4> QED
        BY <3>2, <4>1
    <3> QED
      BY <3>1, <3>2 DEF Follow
  <2>5. \A i \in 1 .. k : i = 1 \/ i \in 2 .. k
    OBVIOUS
  <2>6. \A i \in 2 .. k : i \in 1 .. k
    OBVIOUS
  <2>7. k <= Len(row) => (Fits(b, k, row) <=> Follow(b, k - 1))
    BY <1>3, <2>3, <2>4, <2>5, <2>6 DEF Fits
  <2> QED
    BY <2>2, <2>7 DEF Fits
<1> QED
  BY <1>2, <1>3

LEMMA FitsSome ==
  ASSUME NEW b \in Seq(Byte), NEW k \in Nat, k >= 2, k <= Len(b)
  PROVE  (\E row \in WellFormed : Fits(b, k, row)) <=> k <= Extra(b[1]) + 1 /\ Follow(b, k - 1)
<1>1. b[1] \in Byte /\ Extra(b[1]) \in Nat
  BY DEF Extra
<1>2. k <= Extra(b[1]) + 1 => \E row \in WellFormed : b[1] \in row[1]
  BY <1>1, SomeRow
<1> QED
  BY <1>2, FitsRow

\* The loop of utf8_decode_one.
LEMMA TakenIs ==
  ASSUME NEW b \in Seq(Byte), Len(b) >= 1
  PROVE  /\ Taken(b) \in Nat /\ Taken(b) <= Extra(b[1]) /\ Taken(b) < Len(b) /\ Follow(b, Taken(b))
         /\ \A k \in Nat : k <= Extra(b[1]) /\ k < Len(b) /\ Follow(b, k) => k <= Taken(b)
<1>1. b[1] \in Byte /\ Extra(b[1]) \in {0, 1, 2, 3} /\ Len(b) \in Nat
  BY DEF Extra
<1>2. \A k : k \in Good(b) <=> k \in Nat /\ k <= Extra(b[1]) /\ k < Len(b) /\ Follow(b, k)
  BY <1>1 DEF Good, Follow
<1>3. 0 \in Good(b)
  <2>1. Follow(b, 0)
    BY DEF Follow
  <2> QED
    BY <1>1, <1>2, <2>1
<1>4. \E k \in Good(b) : \A j \in Good(b) : j <= k
  <2>1. \A k \in Good(b) : k \in 0 .. 3
    BY <1>1, <1>2
  <2> QED
    BY <1>3, <2>1, LastOfSet
<1>5. Taken(b) \in Good(b) /\ \A j \in Good(b) : j <= Taken(b)
  BY <1>4 DEF Taken
<1> QED
  BY <1>2, <1>5

LEMMA MaximalIs ==
  ASSUME NEW b \in Seq(Byte), Len(b) >= 1
  PROVE  MaximalSubpart(b) = 1 + Taken(b)
<1> DEFINE P(k) == /\ k = 1 \/ \E row \in WellFormed : Fits(b, k, row)
                   /\ \A m \in (k + 1) .. 4 : \A row \in WellFormed : ~Fits(b, m, row)
           n == 1 + Taken(b)
<1>1. b[1] \in Byte /\ Extra(b[1]) \in {0, 1, 2, 3} /\ Len(b) \in Nat
  BY DEF Extra
<1>2. /\ Taken(b) \in Nat /\ Taken(b) <= Extra(b[1]) /\ Taken(b) < Len(b) /\ Follow(b, Taken(b))
      /\ \A k \in Nat : k <= Extra(b[1]) /\ k < Len(b) /\ Follow(b, k) => k <= Taken(b)
  BY TakenIs
<1>3. n \in 1 .. 4 /\ n <= Len(b) /\ n - 1 = Taken(b)
  BY <1>1, <1>2
<1>4. n # 1 => \E row \in WellFormed : Fits(b, n, row)
  <2> HIDE DEF n
  <2>1. n \in Nat /\ n <= Extra(b[1]) + 1 /\ Follow(b, n - 1)
    BY <1>1, <1>2, <1>3 DEF n
  <2>2. n # 1 => n >= 2
    BY <1>3
  <2> QED
    BY <1>3, <2>1, <2>2, FitsSome
<1>5. ASSUME NEW m \in 2 .. 4, \E row \in WellFormed : Fits(b, m, row) PROVE m <= n
  <2>1. m <= Len(b) /\ m \in Nat /\ m >= 2 /\ m - 1 \in Nat
    BY <1>5 DEF Fits
  <2>2. m <= Extra(b[1]) + 1 /\ Follow(b, m - 1)
    BY <1>5, <2>1, FitsSome
  <2>3. m - 1 <= Taken(b)
    BY <1>1, <1>2, <2>1, <2>2
  <2> QED
    BY <1>2, <2>1, <2>3
<1> HIDE DEF n
<1>6. P(n)
  <2>1. \A m \in (n + 1) .. 4 : m \in 2 .. 4 /\ ~(m <= n)
    BY <1>3
  <2> QED
    BY <1>4, <1>5, <2>1
<1>7. ASSUME NEW k \in 1 .. 4, P(k) PROVE k = n
  <2>1. ~(k > n)
    BY <1>3, <1>5, <1>7
  <2>2. ~(k < n)
    <3>1. k < n => n \in (k + 1) .. 4 /\ n # 1
      BY <1>3
    <3> QED
      BY <1>4, <1>7, <3>1
  <2> QED
    BY <1>3, <2>1, <2>2
<1>8. MaximalSubpart(b) = CHOOSE k \in 1 .. 4 : P(k)
  BY DEF MaximalSubpart
<1> HIDE DEF P
<1> QED
  BY <1>3, <1>6, <1>7, <1>8 DEF n

-----------------------------------------------------------------------------
\* What utf8_encode_one writes for the code point of a sequence is the sequence.
LEMMA DigitOf ==
  ASSUME NEW n \in Nat, NEW a \in Nat, NEW d \in Nat, d < 64, n = a * 64 + d
  PROVE  n \div 64 = a /\ n % 64 = d
<1>1. n = (n \div 64) * 64 + (n % 64) /\ n % 64 \in 0 .. 63 /\ n \div 64 \in Nat
  OBVIOUS
<1> QED
  BY <1>1

LEMMA DigitsOf ==
  ASSUME NEW cp \in Nat, NEW a \in Nat, NEW d \in Nat, NEW e \in Nat, NEW f \in Nat,
         d < 64, e < 64, f < 64, cp = ((a * 64 + d) * 64 + e) * 64 + f
  PROVE  /\ cp \div 262144 = a
         /\ cp \div 4096 = a * 64 + d
         /\ cp \div 64 = (a * 64 + d) * 64 + e
         /\ (cp \div 4096) % 64 = d /\ (cp \div 64) % 64 = e /\ cp % 64 = f
<1>1. PICK a2, d2, e2, f2 \in Nat :
        /\ d2 < 64 /\ e2 < 64 /\ f2 < 64
        /\ cp = ((a2 * 64 + d2) * 64 + e2) * 64 + f2
        /\ cp \div 262144 = a2
        /\ cp \div 4096 = a2 * 64 + d2
        /\ cp \div 64 = (a2 * 64 + d2) * 64 + e2
        /\ (cp \div 4096) % 64 = d2 /\ (cp \div 64) % 64 = e2 /\ cp % 64 = f2
  BY SixBits
<1>2. f2 = f /\ (a2 * 64 + d2) * 64 + e2 = (a * 64 + d) * 64 + e
  BY <1>1
<1>3. e2 = e /\ a2 * 64 + d2 = a * 64 + d
  BY <1>1, <1>2
<1>4. d2 = d /\ a2 = a
  BY <1>1, <1>3
<1> QED
  BY <1>1, <1>2, <1>3, <1>4

LEMMA TwoIsEncoded ==
  ASSUME NEW b, NEW cp, NEW x, NEW y, TwoByteForm(b, cp, x, y)
  PROVE  Utf8Encode(cp) = <<x, y>> /\ IsScalar(cp)
<1> DEFINE d == x - 192
           f == y - 128
<1>1. d \in Nat /\ f \in Nat /\ d < 32 /\ f < 64 /\ d >= 2 /\ cp \in Nat /\ cp = d * 64 + f
      /\ x = 192 + d /\ y = 128 + f
  BY DEF TwoByteForm
<1> HIDE DEF d, f
<1>2. cp \div 64 = d /\ cp % 64 = f
  BY <1>1, DigitOf
<1>3. ~(cp < 128) /\ cp < 2048
  BY <1>1
<1>4. Utf8Encode(cp) = <<192 + d, 128 + f>>
  BY <1>2, <1>3 DEF Utf8Encode, Continuation
<1>5. IsScalar(cp)
  BY <1>1, <1>3 DEF IsScalar, IsSurrogate
<1> QED
  BY <1>1, <1>4, <1>5

LEMMA ThreeIsEncoded ==
  ASSUME NEW b, NEW cp, NEW x, NEW y, NEW z, ThreeByteForm(b, cp, x, y, z)
  PROVE  Utf8Encode(cp) = <<x, y, z>> /\ IsScalar(cp)
<1> DEFINE d == x - 224
           e == y - 128
           f == z - 128
<1>1. /\ d \in Nat /\ e \in Nat /\ f \in Nat /\ d < 16 /\ e < 64 /\ f < 64
      /\ cp \in Nat /\ cp = (d * 64 + e) * 64 + f
      /\ x = 224 + d /\ y = 128 + e /\ z = 128 + f
      /\ (d = 0 => e >= 32) /\ (d = 13 => e <= 31)
  BY DEF ThreeByteForm
<1> HIDE DEF d, e, f
<1>2. cp = ((0 * 64 + d) * 64 + e) * 64 + f /\ 0 \in Nat /\ d < 64
  BY <1>1
<1>3. cp \div 4096 = 0 * 64 + d /\ (cp \div 64) % 64 = e /\ cp % 64 = f
  BY <1>1, <1>2, DigitsOf
<1>4. ~(cp < 128) /\ ~(cp < 2048) /\ cp < 65536
  BY <1>1
<1>5. Utf8Encode(cp) = <<224 + d, 128 + e, 128 + f>>
  BY <1>1, <1>3, <1>4 DEF Utf8Encode, Continuation
<1>6. IsScalar(cp)
  BY <1>1, <1>4 DEF IsScalar, IsSurrogate
<1> QED
  BY <1>1, <1>5, <1>6

LEMMA FourIsEncoded ==
  ASSUME NEW b, NEW cp, NEW x, NEW y, NEW z, NEW w, FourByteForm(b, cp, x, y, z, w)
  PROVE  Utf8Encode(cp) = <<x, y, z, w>> /\ IsScalar(cp)
<1> DEFINE a == x - 240
           d == y - 128
           e == z - 128
           f == w - 128
<1>1. /\ a \in Nat /\ d \in Nat /\ e \in Nat /\ f \in Nat
      /\ a <= 4 /\ d < 64 /\ e < 64 /\ f < 64
      /\ cp \in Nat /\ cp = ((a * 64 + d) * 64 + e) * 64 + f
      /\ x = 240 + a /\ y = 128 + d /\ z = 128 + e /\ w = 128 + f
      /\ (a = 0 => d >= 16) /\ (a = 4 => d <= 15)
  BY DEF FourByteForm
<1> HIDE DEF a, d, e, f
<1>2. cp \div 262144 = a /\ (cp \div 4096) % 64 = d /\ (cp \div 64) % 64 = e /\ cp % 64 = f
  BY <1>1, DigitsOf
<1>3. cp >= 65536 /\ cp <= 1114111
  BY <1>1
<1>4. Utf8Encode(cp) = <<240 + a, 128 + d, 128 + e, 128 + f>>
  BY <1>1, <1>2, <1>3 DEF Utf8Encode, Continuation
<1>5. IsScalar(cp)
  BY <1>1, <1>3 DEF IsScalar, IsSurrogate
<1> QED
  BY <1>1, <1>4, <1>5

LEMMA ByteIs == ASSUME NEW x \in Byte PROVE x \in Nat /\ x < 256
  BY DEF Byte

LEMMA AsciiByte == ASSUME NEW x \in Nat, x < 128 PROVE Extra(x) = 0
<1>1. x \notin 194 .. 223 /\ x \notin 224 .. 239 /\ x \notin 240 .. 244
  OBVIOUS
<1> QED
  BY <1>1 DEF Extra

LEMMA LeadByte ==
  ASSUME NEW x \in Nat
  PROVE  /\ Extra(x) = 1 => 194 <= x /\ x <= 223
         /\ Extra(x) = 2 => 224 <= x /\ x <= 239
         /\ Extra(x) = 3 => 240 <= x /\ x <= 244
  BY DEF Extra

LEMMA ContinuationByte ==
  ASSUME NEW x, NEW i, NEW y \in Nat, Continues(x, i, y)
  PROVE  /\ 128 <= y /\ y <= 191
         /\ i = 1 => /\ x = 224 => y >= 160
                     /\ x = 237 => y <= 159
                     /\ x = 240 => y >= 144
                     /\ x = 244 => y <= 143
  BY DEF Continues

\* The first bytes of b, by what each of them is.
LEMMA FirstBytes ==
  ASSUME NEW b \in Seq(Byte), NEW t \in Seq(Byte), Len(t) <= Len(b),
         \A i \in 1 .. Len(t) : t[i] = b[i]
  PROVE  SubSeq(b, 1, Len(t)) = t
<1>1. Len(t) \in Nat /\ \A i \in 1 .. Len(t) : b[i] \in Byte
  OBVIOUS
<1>2. /\ SubSeq(b, 1, Len(t)) \in Seq(Byte)
      /\ Len(SubSeq(b, 1, Len(t))) = IF 1 <= Len(t) THEN Len(t) - 1 + 1 ELSE 0
      /\ \A i \in 1 .. Len(t) - 1 + 1 : SubSeq(b, 1, Len(t))[i] = b[1 + i - 1]
  BY <1>1, SubSeqProperties
<1>3. Len(SubSeq(b, 1, Len(t))) = Len(t)
  BY <1>1, <1>2
<1>4. \A i \in 1 .. Len(t) : SubSeq(b, 1, Len(t))[i] = t[i]
  <2> SUFFICES ASSUME NEW i \in 1 .. Len(t) PROVE SubSeq(b, 1, Len(t))[i] = b[i]
    OBVIOUS
  <2>1. i \in 1 .. Len(t) - 1 + 1 /\ 1 + i - 1 = i
    BY <1>1
  <2> QED
    BY <1>2, <2>1
<1> QED
  BY <1>2, <1>3, <1>4, SeqEqual

LEMMA TwoForm ==
  ASSUME NEW b, NEW x \in Nat, 194 <= x, x <= 223, NEW y \in Nat, 128 <= y, y <= 191,
         BeginsWith2(b, x, y)
  PROVE  \E cp : TwoByteForm(b, cp, x, y)
<1>1. (x - 192) * 64 + (y - 128) \in Nat
  OBVIOUS
<1> QED
  BY <1>1 DEF TwoByteForm

LEMMA ThreeForm ==
  ASSUME NEW b, NEW x \in Nat, 224 <= x, x <= 239, NEW y \in Nat, 128 <= y, y <= 191,
         NEW z \in Nat, 128 <= z, z <= 191,
         x = 224 => y >= 160, x = 237 => y <= 159,
         BeginsWith2(b, x, y), Len(b) >= 3, b[3] = z
  PROVE  \E cp : ThreeByteForm(b, cp, x, y, z)
<1>1. ((x - 224) * 64 + (y - 128)) * 64 + (z - 128) \in Nat
  OBVIOUS
<1> QED
  BY <1>1 DEF ThreeByteForm

LEMMA FourForm ==
  ASSUME NEW b, NEW x \in Nat, 240 <= x, x <= 244, NEW y \in Nat, 128 <= y, y <= 191,
         NEW z \in Nat, 128 <= z, z <= 191, NEW w \in Nat, 128 <= w, w <= 191,
         x = 240 => y >= 144, x = 244 => y <= 143,
         BeginsWith2(b, x, y), Len(b) >= 4, b[3] = z, b[4] = w
  PROVE  \E cp : FourByteForm(b, cp, x, y, z, w)
<1>1. (((x - 240) * 64 + (y - 128)) * 64 + (z - 128)) * 64 + (w - 128) \in Nat
  OBVIOUS
<1> QED
  BY <1>1 DEF FourByteForm

\* A sequence that is complete is decoded to the code point that has it.
WholeAt(b, n) ==
  \E cp : /\ Utf8Decode(b) = Utf8Result(cp, n)
          /\ IsScalar(cp) /\ Utf8Encode(cp) = SubSeq(b, 1, n)

LEMMA AsciiDecodes ==
  ASSUME NEW b \in Seq(Byte), Len(b) >= 1, b[1] < 128
  PROVE  WholeAt(b, 1) /\ Extra(b[1]) = 0
<1>1. PICK x \in Byte : x = b[1]
  OBVIOUS
<1>2. x \in Nat /\ x < 128 /\ Extra(x) = 0
  BY <1>1, ByteIs, AsciiByte
<1>3. Utf8Decode(b) = Utf8Result(x, 1)
  BY <1>1, <1>2 DEF Utf8Decode
<1>4. IsScalar(x) /\ Utf8Encode(x) = <<x>>
  BY <1>2 DEF IsScalar, IsSurrogate, Utf8Encode
<1>5. <<x>> \in Seq(Byte) /\ Len(<<x>>) = 1 /\ \A i \in 1 .. 1 : <<x>>[i] = b[i]
  BY <1>1
<1>6. SubSeq(b, 1, 1) = <<x>>
  BY <1>5, FirstBytes
<1> QED
  BY <1>1, <1>2, <1>3, <1>4, <1>6 DEF WholeAt

LEMMA TwoDecodes ==
  ASSUME NEW b \in Seq(Byte), Len(b) >= 2, NEW x \in Byte, NEW y \in Byte, x = b[1], y = b[2],
         Extra(x) = 1, Continues(x, 1, y)
  PROVE  WholeAt(b, 2)
<1>1. x \in Nat /\ 194 <= x /\ x <= 223 /\ y \in Nat /\ 128 <= y /\ y <= 191
  BY ByteIs, LeadByte, ContinuationByte
<1>2. BeginsWith2(b, x, y)
  BY DEF BeginsWith2
<1>4. PICK cp : TwoByteForm(b, cp, x, y)
  BY <1>1, <1>2, TwoForm
<1>5. Utf8Decode(b) = Utf8Result(cp, 2) /\ Utf8Encode(cp) = <<x, y>> /\ IsScalar(cp)
  BY <1>4, Utf8Two, TwoIsEncoded
<1>6. /\ <<x, y>> \in Seq(Byte) /\ Len(<<x, y>>) = 2
      /\ \A i \in 1 .. 2 : <<x, y>>[i] = b[i]
  OBVIOUS
<1>7. SubSeq(b, 1, 2) = <<x, y>>
  BY <1>6, FirstBytes
<1> QED
  BY <1>5, <1>7 DEF WholeAt

LEMMA ThreeDecodes ==
  ASSUME NEW b \in Seq(Byte), Len(b) >= 3,
         NEW x \in Byte, NEW y \in Byte, NEW z \in Byte, x = b[1], y = b[2], z = b[3],
         Extra(x) = 2, Continues(x, 1, y), Continues(x, 2, z)
  PROVE  WholeAt(b, 3)
<1>1. /\ x \in Nat /\ 224 <= x /\ x <= 239 /\ y \in Nat /\ 128 <= y /\ y <= 191
      /\ z \in Nat /\ 128 <= z /\ z <= 191
      /\ (x = 224 => y >= 160) /\ (x = 237 => y <= 159)
  BY ByteIs, LeadByte, ContinuationByte, SMTT(30)
<1>2. BeginsWith2(b, x, y) /\ Len(b) >= 3 /\ b[3] = z
  BY DEF BeginsWith2
<1>4. PICK cp : ThreeByteForm(b, cp, x, y, z)
  BY <1>1, <1>2, ThreeForm, SMTT(30)
<1>5. Utf8Decode(b) = Utf8Result(cp, 3) /\ Utf8Encode(cp) = <<x, y, z>> /\ IsScalar(cp)
  BY <1>4, Utf8Three, ThreeIsEncoded
<1>6. /\ <<x, y, z>> \in Seq(Byte) /\ Len(<<x, y, z>>) = 3
      /\ \A i \in 1 .. 3 : <<x, y, z>>[i] = b[i]
  OBVIOUS
<1>7. SubSeq(b, 1, 3) = <<x, y, z>>
  BY <1>6, FirstBytes
<1> QED
  BY <1>5, <1>7 DEF WholeAt

LEMMA FourDecodes ==
  ASSUME NEW b \in Seq(Byte), Len(b) >= 4,
         NEW x \in Byte, NEW y \in Byte, NEW z \in Byte, NEW w \in Byte,
         x = b[1], y = b[2], z = b[3], w = b[4],
         Extra(x) = 3, Continues(x, 1, y), Continues(x, 2, z), Continues(x, 3, w)
  PROVE  WholeAt(b, 4)
<1>1. /\ x \in Nat /\ 240 <= x /\ x <= 244 /\ y \in Nat /\ 128 <= y /\ y <= 191
      /\ z \in Nat /\ 128 <= z /\ z <= 191 /\ w \in Nat /\ 128 <= w /\ w <= 191
      /\ (x = 240 => y >= 144) /\ (x = 244 => y <= 143)
  BY ByteIs, LeadByte, ContinuationByte, SMTT(30)
<1>2. BeginsWith2(b, x, y) /\ Len(b) >= 4 /\ b[3] = z /\ b[4] = w
  BY DEF BeginsWith2
<1>4. PICK cp : FourByteForm(b, cp, x, y, z, w)
  BY <1>1, <1>2, FourForm, SMTT(30)
<1>5. Utf8Decode(b) = Utf8Result(cp, 4) /\ Utf8Encode(cp) = <<x, y, z, w>> /\ IsScalar(cp)
  BY <1>4, Utf8Four, FourIsEncoded
<1>6. /\ <<x, y, z, w>> \in Seq(Byte) /\ Len(<<x, y, z, w>>) = 4
      /\ \A i \in 1 .. 4 : <<x, y, z, w>>[i] = b[i]
  OBVIOUS
<1>7. SubSeq(b, 1, 4) = <<x, y, z, w>>
  BY <1>6, FirstBytes
<1> QED
  BY <1>5, <1>7 DEF WholeAt

LEMMA WholeDecodes ==
  ASSUME NEW b \in Seq(Byte), Len(b) >= 1, Taken(b) = Extra(b[1]), b[1] < 128 \/ Extra(b[1]) > 0
  PROVE  WholeAt(b, 1 + Taken(b))
<1>1. b[1] \in Byte /\ Extra(b[1]) \in {0, 1, 2, 3} /\ Len(b) \in Nat
  BY DEF Extra
<1>2. Taken(b) < Len(b) /\ \A i \in 1 .. Taken(b) : Continues(b[1], i, b[i + 1])
  BY TakenIs DEF Follow
<1>3. CASE b[1] < 128
  BY <1>3, AsciiDecodes
<1>4. CASE Extra(b[1]) = 1
  <2>1. 1 \in 1 .. 1 /\ 1 + 1 = 2
    OBVIOUS
  <2>2. Continues(b[1], 1, b[2]) /\ Len(b) >= 2
    BY <1>1, <1>2, <1>4, <2>1
  <2> QED
    BY <1>1, <1>4, <2>2, TwoDecodes
<1>5. CASE Extra(b[1]) = 2
  <2>1. 1 \in 1 .. 2 /\ 1 + 1 = 2 /\ 2 \in 1 .. 2 /\ 2 + 1 = 3
    OBVIOUS
  <2>2. Continues(b[1], 1, b[2]) /\ Continues(b[1], 2, b[3]) /\ Len(b) >= 3
    BY <1>1, <1>2, <1>5, <2>1
  <2> QED
    BY <1>1, <1>5, <2>2, ThreeDecodes
<1>6. CASE Extra(b[1]) = 3
  <2>1. 1 \in 1 .. 3 /\ 1 + 1 = 2 /\ 2 \in 1 .. 3 /\ 2 + 1 = 3 /\ 3 \in 1 .. 3 /\ 3 + 1 = 4
    OBVIOUS
  <2>2. /\ Continues(b[1], 1, b[2]) /\ Continues(b[1], 2, b[3]) /\ Continues(b[1], 3, b[4])
        /\ Len(b) >= 4
    BY <1>1, <1>2, <1>6, <2>1
  <2> QED
    BY <1>1, <1>6, <2>2, FourDecodes
<1> QED
  BY <1>1, <1>3, <1>4, <1>5, <1>6

\* utf8_decode_one takes a maximal subpart, or a well-formed sequence, which is
\* that of the code point it returns.
LEMMA Utf8Subpart ==
  ASSUME NEW b \in Seq(Byte), Len(b) >= 1, NEW r, r = Utf8Decode(b)
  PROVE  /\ r.used = MaximalSubpart(b) /\ r.used \in 1 .. Len(b)
         /\ Whole(SubSeq(b, 1, r.used)) =>
              IsScalar(r.code_point) /\ Utf8Encode(r.code_point) = SubSeq(b, 1, r.used)
         /\ ~Whole(SubSeq(b, 1, r.used)) => r.code_point = Error
<1>1. b[1] \in Byte /\ Extra(b[1]) \in {0, 1, 2, 3} /\ Len(b) \in Nat
  BY DEF Extra
<1>2. PICK n \in Nat : n = Taken(b)
  BY TakenIs
<1>3. n <= Extra(b[1]) /\ n < Len(b) /\ Follow(b, n)
  BY <1>2, TakenIs
<1> DEFINE s == SubSeq(b, 1, 1 + n)
<1>4. s \in Seq(Byte) /\ Len(s) = 1 + n /\ \A i \in 1 .. (1 + n) : s[i] = b[i]
  <2>1. 1 + n \in Int /\ \A i \in 1 .. (1 + n) : b[i] \in Byte
    BY <1>1, <1>3
  <2>2. /\ s \in Seq(Byte) /\ Len(s) = IF 1 <= 1 + n THEN 1 + n - 1 + 1 ELSE 0
        /\ \A i \in 1 .. 1 + n - 1 + 1 : s[i] = b[1 + i - 1]
    BY <2>1, SubSeqProperties
  <2>3. \A i \in 1 .. (1 + n) : i \in 1 .. 1 + n - 1 + 1 /\ 1 + i - 1 = i
    OBVIOUS
  <2> QED
    BY <2>2, <2>3
<1>5. s[1] = b[1]
  <2>1. 1 \in 1 .. (1 + n)
    OBVIOUS
  <2> QED
    BY <1>4, <2>1
<1> HIDE DEF s
<1>6. CASE n = Extra(b[1]) /\ (b[1] < 128 \/ Extra(b[1]) > 0)
  <2>1. WholeAt(b, 1 + n)
    BY <1>2, <1>6, WholeDecodes
  <2>2. r.used = 1 + n /\ IsScalar(r.code_point) /\ Utf8Encode(r.code_point) = s
    BY <2>1 DEF WholeAt, Utf8Result, s
  <2>3. Whole(s)
    <3>1. PICK row \in WellFormed : b[1] \in row[1]
      BY <1>1, <1>6, SomeRow
    <3>2. Len(row) = Extra(b[1]) + 1
      BY <1>1, <3>1, Rows DEF RowOf
    <3>3. Follow(s, n)
      <4>1. \A i \in 1 .. n : i + 1 \in 1 .. (1 + n)
        OBVIOUS
      <4> QED
        BY <1>3, <1>4, <1>5, <4>1 DEF Follow
    <3>4. 1 + n \in Nat /\ 1 + n >= 1 /\ 1 + n <= Len(s) /\ (1 + n) - 1 = n /\ 1 + n <= Extra(s[1]) + 1
      BY <1>1, <1>4, <1>5, <1>6
    <3>5. Fits(s, 1 + n, row)
      BY <1>4, <1>5, <3>1, <3>3, <3>4, FitsRow
    <3>6. Len(row) = Len(s)
      BY <1>1, <1>4, <1>6, <3>2
    <3> QED
      BY <1>4, <3>5, <3>6 DEF Whole
  <2>4. r.used = MaximalSubpart(b) /\ r.used \in 1 .. Len(b)
    BY <1>1, <1>2, <1>3, <2>2, MaximalIs
  <2>5. SubSeq(b, 1, r.used) = s
    BY <2>2 DEF s
  <2> QED
    BY <2>2, <2>3, <2>4, <2>5
<1>7. CASE ~(n = Extra(b[1]) /\ (b[1] < 128 \/ Extra(b[1]) > 0))
  <2>1. b[1] \in Nat /\ ~(b[1] < 128)
    <3>1. b[1] < 128 => Extra(b[1]) = 0
      BY <1>1, AsciiDecodes
    <3>2. ~(b[1] < 128)
      BY <1>3, <1>7, <3>1
    <3> QED
      BY <1>1, <3>2, ByteIs
  <2>2. r.used = 1 + n /\ r.code_point = Error
    <3>1. Extra(b[1]) = 0 \/ n < Extra(b[1])
      BY <1>1, <1>3, <1>7
    <3>2. CASE Extra(b[1]) = 0
      <4>1. Utf8Decode(b) = Utf8Result(Utf8Error, 1) /\ n = 0
        BY <1>3, <2>1, <3>2 DEF Utf8Decode
      <4> QED
        BY <4>1 DEF Utf8Result, Utf8Error, Error
    <3>3. CASE Extra(b[1]) # 0 /\ n < Extra(b[1])
      <4>1. Utf8Decode(b) = Utf8Result(Utf8Error, 1 + n)
        BY <1>2, <2>1, <3>3 DEF Utf8Decode
      <4> QED
        BY <4>1 DEF Utf8Result, Utf8Error, Error
    <3> QED
      BY <3>1, <3>2, <3>3
  <2>3. ~Whole(s)
    <3> SUFFICES ASSUME NEW row \in WellFormed, Len(row) = Len(s), Fits(s, Len(s), row)
                 PROVE  FALSE
      BY DEF Whole
    <3>1. Len(s) \in Nat /\ Len(s) >= 1
      BY <1>4
    <3>2. b[1] \in row[1]
      BY <1>4, <1>5, <3>1, FitsRow
    <3>3. Len(row) = Extra(b[1]) + 1 /\ (b[1] < 128 \/ Extra(b[1]) > 0)
      BY <1>1, <3>2, Rows DEF RowOf
    <3> QED
      BY <1>1, <1>4, <1>7, <3>3
  <2>4. r.used = MaximalSubpart(b) /\ r.used \in 1 .. Len(b)
    BY <1>1, <1>2, <1>3, <2>2, MaximalIs
  <2>5. SubSeq(b, 1, r.used) = s
    BY <2>2 DEF s
  <2> QED
    BY <2>2, <2>3, <2>4, <2>5
<1> QED
  BY <1>6, <1>7

-----------------------------------------------------------------------------
\* The byte order mark, as a code point and as bom_sniff finds it.
LEMMA Mark == Utf8Encode(65279) = <<239, 187, 191>>
<1>1. 65279 \div 4096 = 15 /\ (65279 \div 64) % 64 = 59 /\ 65279 % 64 = 63
  OBVIOUS
<1> QED
  BY <1>1 DEF Utf8Encode, Continuation

BeginsWithMark(b) == Len(b) >= 3 /\ SubSeq(b, 1, 3) = <<239, 187, 191>>

LEMMA FirstIs ==
  ASSUME NEW b \in Seq(Byte), NEW n \in Nat, n >= 1, n <= Len(b), NEW s, s = SubSeq(b, 1, n)
  PROVE  Len(s) = n /\ \A k \in 1 .. n : s[k] = b[k]
<1>1. \A k \in 1 .. n : b[k] \in Byte
  OBVIOUS
<1>2. /\ Len(s) = IF 1 <= n THEN n - 1 + 1 ELSE 0
      /\ \A k \in 1 .. n - 1 + 1 : s[k] = b[1 + k - 1]
  BY <1>1, SubSeqProperties
<1>3. \A k \in 1 .. n : k \in 1 .. n - 1 + 1 /\ 1 + k - 1 = k
  OBVIOUS
<1> QED
  BY <1>2, <1>3

LEMMA SniffsMark ==
  ASSUME NEW b \in Seq(Byte)
  PROVE  BomSniff(b) = "utf_8" <=> BeginsWithMark(b)
<1> DEFINE S(mark) == Len(b) >= Len(mark) /\ SubSeq(b, 1, Len(mark)) = mark
<1>1. BomSniff(b) = CASE S(<<239, 187, 191>>) -> "utf_8"
                      [] S(<<254, 255>>)      -> "utf_16be"
                      [] S(<<255, 254>>)      -> "utf_16le"
                      [] OTHER                -> "nullopt"
  BY DEF BomSniff
<1>2. S(<<239, 187, 191>>) <=> BeginsWithMark(b)
  <2>1. Len(<<239, 187, 191>>) = 3
    OBVIOUS
  <2> QED
    BY <2>1, Zenon DEF BeginsWithMark
<1>3. S(<<239, 187, 191>>) => b[1] = 239
  <2> SUFFICES ASSUME BeginsWithMark(b) PROVE b[1] = 239
    BY <1>2
  <2>1. PICK s : s = SubSeq(b, 1, 3)
    OBVIOUS
  <2>2. s = <<239, 187, 191>> /\ Len(b) >= 3 /\ Len(b) \in Nat
    BY <2>1 DEF BeginsWithMark
  <2>3. s[1] = b[1]
    BY <2>1, <2>2, FirstIs
  <2> QED
    BY <2>2, <2>3
<1>4. ASSUME NEW x, NEW y, S(<<x, y>>) PROVE b[1] = x
  <2>1. PICK s : s = SubSeq(b, 1, 2)
    OBVIOUS
  <2>2. Len(<<x, y>>) = 2
    OBVIOUS
  <2>3. s = <<x, y>> /\ Len(b) >= 2 /\ Len(b) \in Nat
    BY <1>4, <2>1, <2>2
  <2>4. s[1] = b[1]
    BY <2>1, <2>3, FirstIs
  <2> QED
    BY <2>3, <2>4
<1>5. ~(S(<<239, 187, 191>>) /\ S(<<254, 255>>)) /\ ~(S(<<239, 187, 191>>) /\ S(<<255, 254>>))
  <2>1. 239 # 254 /\ 239 # 255
    OBVIOUS
  <2> HIDE DEF S
  <2> QED
    BY <1>3, <1>4, <2>1
<1> HIDE DEF S
<1>6. "utf_8" # "utf_16be" /\ "utf_8" # "utf_16le" /\ "utf_8" # "nullopt"
  OBVIOUS
<1> QED
  BY <1>1, <1>2, <1>5, <1>6

LEMMA ByteOrderMark ==
  ASSUME NEW b \in Seq(Byte), Len(b) >= 1, NEW r, r = Utf8Decode(b)
  PROVE  /\ r.code_point = 65279 <=> BomSniff(b) = "utf_8"
         /\ r.code_point = 65279 => r.used = 3
<1>1. BomSniff(b) = "utf_8" <=> BeginsWithMark(b)
  BY SniffsMark
<1>2. ASSUME r.code_point = 65279 PROVE r.used = 3 /\ BeginsWithMark(b)
  <2>1. Whole(SubSeq(b, 1, r.used)) /\ r.used \in 1 .. Len(b)
    BY <1>2, Utf8Subpart DEF Error
  <2>2. PICK s : s = SubSeq(b, 1, r.used)
    OBVIOUS
  <2>3. Utf8Encode(r.code_point) = s
    BY <2>1, <2>2, Utf8Subpart, SMT
  <2>4. Utf8Encode(65279) = s
    BY <1>2, <2>3, SMT
  <2>5. s = <<239, 187, 191>>
    BY <2>4, Mark, SMT
  <2>6. Len(s) = r.used
    BY <2>1, <2>2
  <2>7. r.used = 3
    BY <2>5, <2>6
  <2>8. Len(b) >= 3
    BY <2>1, <2>7
  <2>9. SubSeq(b, 1, 3) = <<239, 187, 191>>
    BY <2>2, <2>5, <2>7
  <2> QED
    BY <2>7, <2>8, <2>9 DEF BeginsWithMark
<1>3. ASSUME BeginsWithMark(b) PROVE r.code_point = 65279
  <2>1. PICK s : s = SubSeq(b, 1, 3)
    OBVIOUS
  <2>2. s = <<239, 187, 191>> /\ Len(b) >= 3 /\ Len(b) \in Nat
    BY <1>3, <2>1 DEF BeginsWithMark
  <2>3. \A k \in 1 .. 3 : s[k] = b[k]
    BY <2>1, <2>2, FirstIs
  <2>4. b[1] = 239 /\ b[2] = 187 /\ b[3] = 191
    BY <2>2, <2>3
  <2>5. ThreeByteForm(b, 65279, 239, 187, 191)
    BY <2>2, <2>4 DEF ThreeByteForm, BeginsWith2
  <2>6. Utf8Decode(b) = Utf8Result(65279, 3)
    BY <2>5, Utf8Three
  <2> QED
    BY <2>6 DEF Utf8Result
<1> QED
  BY <1>1, <1>2, <1>3

-----------------------------------------------------------------------------
\* What a decoder may return: some of the bytes are taken, and the code point is
\* one that can be encoded, or an error.
Takes(b, r) ==
  r.used \in 1 .. Len(b) /\ (r.code_point = Error \/ IsScalar(r.code_point))

OfScalars(t) == \A q \in DOMAIN t : IsScalar(t[q])

LEMMA TakesAt ==
  ASSUME NEW b \in Seq(Byte), NEW t, OfScalars(t), NEW q, NEW n \in 1 .. Len(b)
  PROVE  Takes(b, AtPointer(t, q, n))
<1>1. At(t, q) = 0 \/ IsScalar(At(t, q))
  BY DEF At, OfScalars
<1> QED
  BY <1>1 DEF Takes, AtPointer, Decoded

LEMMA TakesFailed ==
  ASSUME NEW b \in Seq(Byte), NEW n \in 1 .. Len(b)
  PROVE  Takes(b, Failed(n))
  BY DEF Takes, Failed, Decoded

LEMMA TakesDecoded ==
  ASSUME NEW b \in Seq(Byte), NEW n \in 1 .. Len(b), NEW cp \in Nat,
         cp < 55296 \/ (cp > 57343 /\ cp <= 1114111)
  PROVE  Takes(b, Decoded(cp, n))
<1>1. IsScalar(cp)
  BY DEF IsScalar, IsSurrogate
<1> QED
  BY <1>1 DEF Takes, Decoded

LEMMA TakesHalfwidth ==
  ASSUME NEW b \in Seq(Byte), NEW n \in 1 .. Len(b), NEW y \in Nat, y >= 161, y < 256
  PROVE  Takes(b, Decoded(65377 + (y - 161), n))
<1>1. PICK cp : cp = 65377 + (y - 161)
  OBVIOUS
<1>2. cp \in Nat /\ cp > 57343 /\ cp <= 1114111
  BY <1>1
<1> QED
  BY <1>1, <1>2, TakesDecoded

LEMMA UpTo ==
  ASSUME NEW n \in Nat, n >= 1
  PROVE  1 \in 1 .. n /\ (n # 1 => 2 \in 1 .. n) /\ (n # 1 /\ n # 2 => 3 \in 1 .. n)
  OBVIOUS

LEMMA Ones ==
  ASSUME NEW b \in Seq(Byte), Len(b) >= 1
  PROVE  /\ Len(b) \in Nat /\ 1 \in 1 .. Len(b) /\ b[1] \in Nat /\ b[1] < 256
         /\ Len(b) # 1 => 2 \in 1 .. Len(b) /\ b[2] \in Nat /\ b[2] < 256
         /\ Len(b) # 1 /\ Len(b) # 2 => 3 \in 1 .. Len(b)
<1>1. \A k \in 1 .. Len(b) : b[k] \in Byte
  OBVIOUS
<1>2. \A k \in 1 .. Len(b) : b[k] \in Nat /\ b[k] < 256
  BY <1>1, ByteIs
<1>3. Len(b) \in Nat
  OBVIOUS
<1>4. /\ 1 \in 1 .. Len(b)
      /\ Len(b) # 1 => 2 \in 1 .. Len(b)
      /\ Len(b) # 1 /\ Len(b) # 2 => 3 \in 1 .. Len(b)
  BY <1>3, UpTo
<1> QED
  BY <1>2, <1>3, <1>4

\* What each decoder comes to, and on how many bytes.
LEMMA EucKrIs ==
  ASSUME NEW t, NEW b, NEW r, r = EucKrDecode(t, b)
  PROVE  \/ b[1] < 128 /\ r = Decoded(b[1], 1)
         \/ r = Failed(1)
         \/ Len(b) # 1 /\ r \in {Failed(2), AtPointer(t, EucKrPointer(b[1], b[2]), 2)}
  BY SMT DEF EucKrDecode

LEMMA EucJpIs ==
  ASSUME NEW t, NEW u, NEW b, NEW r, r = EucJpDecode(t, u, b)
  PROVE  \/ b[1] < 128 /\ r = Decoded(b[1], 1)
         \/ r = Failed(1)
         \/ Len(b) # 1 /\ r \in {Failed(2), AtPointer(t, Pointer94(b[1], b[2]), 2)}
         \/ Len(b) # 1 /\ b[2] >= 161 /\ r = Decoded(65377 + (b[2] - 161), 2)
         \/ Len(b) # 1 /\ Len(b) # 2 /\ r \in {Failed(3), AtPointer(u, Pointer94(b[2], b[3]), 3)}
  BY SMT DEF EucJpDecode

LEMMA ShiftJisIs ==
  ASSUME NEW t, NEW b, NEW r, r = ShiftJisDecode(t, b)
  PROVE  \/ b[1] < 128 /\ r = Decoded(b[1], 1)
         \/ r = Failed(1)
         \/ b[1] >= 161 /\ r = Decoded(65377 + (b[1] - 161), 1)
         \/ Len(b) # 1 /\ r \in {Failed(2), AtPointer(t, ShiftJisPointer(b[1], b[2]), 2)}
  BY SMT DEF ShiftJisDecode

LEMMA Big5Is ==
  ASSUME NEW t, NEW b, NEW r, r = Big5Decode(t, b)
  PROVE  \/ b[1] < 128 /\ r = Decoded(b[1], 1)
         \/ ~(b[1] < 128) /\ r = Failed(1)
         \/ /\ ~(b[1] < 128) /\ b[1] # 128 /\ b[1] # 255 /\ Len(b) # 1
            /\ \/ b[2] \notin Big5Trail /\ r = Big5Failed(b[2])
               \/ /\ b[2] \in Big5Trail
                  /\ r = Big5Pair(t, (b[1] - 129) * 157 + Big5Offset(b[2]), b[2])
  BY SMT DEF Big5Decode

\* The results that leave bytes and code points as they should be.
LEMMA TakesResults ==
  ASSUME NEW b \in Seq(Byte), Len(b) >= 1, NEW t, OfScalars(t), NEW q
  PROVE  /\ Takes(b, Failed(1)) /\ (b[1] < 128 => Takes(b, Decoded(b[1], 1)))
         /\ Len(b) # 1 => Takes(b, Failed(2)) /\ Takes(b, AtPointer(t, q, 2))
         /\ Len(b) # 1 /\ Len(b) # 2 => Takes(b, Failed(3)) /\ Takes(b, AtPointer(t, q, 3))
<1>1. /\ Len(b) \in Nat /\ 1 \in 1 .. Len(b) /\ b[1] \in Nat /\ b[1] < 256
      /\ Len(b) # 1 => 2 \in 1 .. Len(b)
      /\ Len(b) # 1 /\ Len(b) # 2 => 3 \in 1 .. Len(b)
  BY Ones
<1>2. Takes(b, Failed(1)) /\ (b[1] < 128 => Takes(b, Decoded(b[1], 1)))
  BY <1>1, TakesFailed, TakesDecoded
<1>3. Len(b) # 1 => Takes(b, Failed(2)) /\ Takes(b, AtPointer(t, q, 2))
  BY <1>1, TakesFailed, TakesAt
<1>4. Len(b) # 1 /\ Len(b) # 2 => Takes(b, Failed(3)) /\ Takes(b, AtPointer(t, q, 3))
  BY <1>1, TakesFailed, TakesAt
<1> QED
  BY <1>2, <1>3, <1>4

LEMMA TakesKatakana ==
  ASSUME NEW b \in Seq(Byte), Len(b) >= 1
  PROVE  /\ b[1] >= 161 => Takes(b, Decoded(65377 + (b[1] - 161), 1))
         /\ Len(b) # 1 /\ b[2] >= 161 => Takes(b, Decoded(65377 + (b[2] - 161), 2))
<1>1. /\ 1 \in 1 .. Len(b) /\ b[1] \in Nat /\ b[1] < 256
      /\ Len(b) # 1 => 2 \in 1 .. Len(b) /\ b[2] \in Nat /\ b[2] < 256
  BY Ones
<1> QED
  BY <1>1, TakesHalfwidth

LEMMA MultiByteTakes ==
  ASSUME NEW b \in Seq(Byte), Len(b) >= 1, NEW t, OfScalars(t), NEW u, OfScalars(u)
  PROVE  /\ Takes(b, EucKrDecode(t, b)) /\ Takes(b, EucJpDecode(t, u, b))
         /\ Takes(b, ShiftJisDecode(t, b))
<1>1. \A q : /\ Takes(b, Failed(1)) /\ (b[1] < 128 => Takes(b, Decoded(b[1], 1)))
             /\ Len(b) # 1 => /\ Takes(b, Failed(2))
                              /\ Takes(b, AtPointer(t, q, 2)) /\ Takes(b, AtPointer(u, q, 2))
             /\ Len(b) # 1 /\ Len(b) # 2 => Takes(b, Failed(3)) /\ Takes(b, AtPointer(u, q, 3))
  BY TakesResults
<1>2. /\ b[1] >= 161 => Takes(b, Decoded(65377 + (b[1] - 161), 1))
      /\ Len(b) # 1 /\ b[2] >= 161 => Takes(b, Decoded(65377 + (b[2] - 161), 2))
  BY TakesKatakana
<1>3. Takes(b, EucKrDecode(t, b))
  BY <1>1, EucKrIs
<1>4. Takes(b, EucJpDecode(t, u, b))
  BY <1>1, <1>2, EucJpIs
<1>5. Takes(b, ShiftJisDecode(t, b))
  BY <1>1, <1>2, ShiftJisIs
<1> QED
  BY <1>3, <1>4, <1>5

LEMMA SingleByteTakes ==
  ASSUME NEW b \in Seq(Byte), Len(b) >= 1, NEW t, OfScalars(t)
  PROVE  Takes(b, SingleByteDecode(t, b[1])) /\ Takes(b, XUserDefinedDecode(b[1]))
<1>1. (b[1] < 128 => Takes(b, Decoded(b[1], 1))) /\ Takes(b, AtPointer(t, b[1] - 128, 1))
  BY Ones, TakesDecoded, TakesAt
<1>2. ~(b[1] < 128) => Takes(b, Decoded(63360 + (b[1] - 128), 1))
  <2> SUFFICES ASSUME ~(b[1] < 128) PROVE Takes(b, Decoded(63360 + (b[1] - 128), 1))
    OBVIOUS
  <2>1. /\ 63360 + (b[1] - 128) \in Nat /\ 63360 + (b[1] - 128) > 57343
        /\ 63360 + (b[1] - 128) <= 1114111
    BY Ones
  <2> QED
    BY <2>1, Ones, TakesDecoded
<1> QED
  BY <1>1, <1>2 DEF SingleByteDecode, XUserDefinedDecode

\* big5_decode_one: the byte that an error would take comes after it, and so does
\* the second code point of a pair.
Big5Keeps(b, r) ==
  /\ r.code_point2 \in Nat /\ IsScalar(r.code_point2) /\ r.code_point2 # Replacement
  /\ r.code_point # Replacement
  /\ r.code_point = Error =>
       \A k \in 1 .. r.used : b[k] < 128 => b[k] = r.code_point2
  /\ SubSeq(b, 1, r.used) \in {<<136, 98>>, <<136, 163>>} => r.code_point2 = 772
  /\ SubSeq(b, 1, r.used) \in {<<136, 100>>, <<136, 164>>} => r.code_point2 = 780

LEMMA LenOne ==
  ASSUME NEW s, Len(s) = 1
  PROVE  \A x, y : s # <<x, y>>
<1>1. \A x, y : Len(<<x, y>>) = 2
  OBVIOUS
<1> QED
  BY <1>1

LEMMA FailedIs == \A n : Failed(n) = Decoded(Error, n) /\ Error # Replacement
  BY DEF Failed, Error, Replacement

LEMMA Big5One ==
  ASSUME NEW b \in Seq(Byte), Len(b) >= 1, NEW cp, cp # Replacement,
         cp # Error \/ ~(b[1] < 128)
  PROVE  Big5Keeps(b, Decoded(cp, 1))
<1>1. PICK r : r = Decoded(cp, 1)
  OBVIOUS
<1>2. r.code_point = cp /\ r.code_point2 = 0 /\ r.used = 1
  BY <1>1 DEF Decoded
<1>3. PICK s : s = SubSeq(b, 1, r.used)
  OBVIOUS
<1>4. Len(s) = 1
  BY <1>2, <1>3, FirstIs
<1>5. /\ s # <<136, 98>> /\ s # <<136, 163>>
      /\ s # <<136, 100>> /\ s # <<136, 164>>
  <2>1. \A x, y : s # <<x, y>>
    BY <1>4, LenOne
  <2> QED
    BY <2>1, Zenon
<1>6. IsScalar(0) /\ \A k \in 1 .. 1 : k = 1
  BY DEF IsScalar, IsSurrogate
<1>7. 0 # Replacement /\ 0 \in Nat
  BY DEF Replacement
<1>8. r.code_point = Error => ~(b[1] < 128)
  BY <1>2
<1>9. r.code_point = Error => \A k \in 1 .. r.used : b[k] < 128 => b[k] = r.code_point2
  BY <1>2, <1>6, <1>8
<1>10. /\ SubSeq(b, 1, r.used) \notin {<<136, 98>>, <<136, 163>>}
       /\ SubSeq(b, 1, r.used) \notin {<<136, 100>>, <<136, 164>>}
  BY <1>3, <1>5, SMT
<1>11. /\ r.code_point2 \in Nat /\ IsScalar(r.code_point2) /\ r.code_point2 # Replacement
       /\ r.code_point # Replacement
  BY <1>2, <1>6, <1>7, SMT
<1>12. Big5Keeps(b, r)
  BY <1>9, <1>10, <1>11, SMT DEF Big5Keeps
<1> QED
  BY <1>1, <1>12

\* The trail bytes of a pair.
LEMMA OffsetIs ==
  ASSUME NEW y \in Nat, y \in Big5Trail
  PROVE  /\ Big5Offset(y) \in Nat /\ Big5Offset(y) < 157
         /\ (y = 98 <=> Big5Offset(y) = 34) /\ (y = 163 <=> Big5Offset(y) = 65)
         /\ (y = 100 <=> Big5Offset(y) = 36) /\ (y = 164 <=> Big5Offset(y) = 66)
<1>1. (y >= 64 /\ y <= 126) \/ (y >= 161 /\ y <= 254)
  BY DEF Big5Trail
<1> QED
  BY <1>1 DEF Big5Offset

LEMMA PairTrails == 98 \in Big5Trail /\ 163 \in Big5Trail /\ 100 \in Big5Trail /\ 164 \in Big5Trail
  BY DEF Big5Trail

Big5At(x, y) == (x - 129) * 157 + Big5Offset(y)

LEMMA PairPointer ==
  ASSUME NEW x \in Nat, x >= 129, NEW y \in Nat, y \in Big5Trail
  PROVE  /\ Big5At(x, y) = 1133 <=> x = 136 /\ y = 98
         /\ Big5At(x, y) = 1135 <=> x = 136 /\ y = 100
         /\ Big5At(x, y) = 1164 <=> x = 136 /\ y = 163
         /\ Big5At(x, y) = 1165 <=> x = 136 /\ y = 164
<1>1. PICK k \in Nat : k = Big5Offset(y) /\ k < 157
  BY OffsetIs
<1>2. PICK q : q = Big5At(x, y)
  OBVIOUS
<1>3. q = (x - 129) * 157 + k
  BY <1>1, <1>2 DEF Big5At
<1>4. /\ (y = 98 <=> k = 34) /\ (y = 163 <=> k = 65)
      /\ (y = 100 <=> k = 36) /\ (y = 164 <=> k = 66)
  BY <1>1, OffsetIs
<1>5. /\ q = 1133 <=> x = 136 /\ k = 34
      /\ q = 1135 <=> x = 136 /\ k = 36
      /\ q = 1164 <=> x = 136 /\ k = 65
      /\ q = 1165 <=> x = 136 /\ k = 66
  BY <1>1, <1>3
<1> QED
  BY <1>2, <1>4, <1>5

LEMMA Big5Two ==
  ASSUME NEW b \in Seq(Byte), Len(b) >= 2, NEW t, OfScalars(t),
         \A q \in DOMAIN t : t[q] # Replacement, b[1] >= 129, b[1] < 255
  PROVE  /\ b[2] \notin Big5Trail => Takes(b, Big5Failed(b[2])) /\ Big5Keeps(b, Big5Failed(b[2]))
         /\ b[2] \in Big5Trail =>
              LET r == Big5Pair(t, (b[1] - 129) * 157 + Big5Offset(b[2]), b[2])
              IN  Takes(b, r) /\ Big5Keeps(b, r)
<1>0. /\ Len(b) \in Nat /\ 2 \in 1 .. Len(b) /\ b[1] \in Nat /\ b[2] \in Nat /\ b[2] < 256
      /\ \A k \in 1 .. 2 : k = 1 \/ k = 2
  BY Ones
<1>1. PICK s : s = SubSeq(b, 1, 2)
  OBVIOUS
<1>2. s[1] = b[1] /\ s[2] = b[2] /\ Len(s) = 2
  BY <1>0, <1>1
<1>3. /\ s \in {<<136, 98>>, <<136, 163>>} => b[1] = 136 /\ b[2] \in {98, 163}
      /\ s \in {<<136, 100>>, <<136, 164>>} => b[1] = 136 /\ b[2] \in {100, 164}
  BY <1>2
<1>4. IsScalar(0) /\ IsScalar(772) /\ IsScalar(780) /\ IsScalar(202) /\ IsScalar(234)
  BY DEF IsScalar, IsSurrogate
<1>5. b[2] < 128 => IsScalar(b[2])
  BY <1>0 DEF IsScalar, IsSurrogate
<1> DEFINE f == Big5Failed(b[2])
<1>6. f.code_point = Error /\ f.used = 2 /\ f.code_point2 = IF b[2] < 128 THEN b[2] ELSE 0
  BY DEF Big5Failed, Failed, Decoded
<1> HIDE DEF f
<1>7. ASSUME b[1] # 136 \/ b[2] \notin {98, 163, 100, 164} PROVE Takes(b, f) /\ Big5Keeps(b, f)
  <2>1. /\ f.code_point2 \in Nat /\ IsScalar(f.code_point2) /\ f.code_point2 # Replacement
        /\ f.code_point # Replacement
    BY <1>0, <1>4, <1>5, <1>6 DEF Error, Replacement
  <2>2. \A k \in 1 .. 2 : b[k] < 128 => b[k] = f.code_point2
    BY <1>0, <1>6
  <2>3. s \notin {<<136, 98>>, <<136, 163>>} /\ s \notin {<<136, 100>>, <<136, 164>>}
    BY <1>3, <1>7
  <2> QED
    BY <1>0, <1>1, <1>6, <2>1, <2>2, <2>3 DEF Takes, Big5Keeps
<1>8. CASE b[2] \notin Big5Trail
  <2>1. b[2] \notin {98, 163, 100, 164}
    BY <1>8, PairTrails
  <2> QED
    BY <1>7, <1>8, <2>1 DEF f
<1>9. CASE b[2] \in Big5Trail
  <2> DEFINE q == (b[1] - 129) * 157 + Big5Offset(b[2])
             r == Big5Pair(t, q, b[2])
  <2>1. /\ q = 1133 <=> b[1] = 136 /\ b[2] = 98
        /\ q = 1135 <=> b[1] = 136 /\ b[2] = 100
        /\ q = 1164 <=> b[1] = 136 /\ b[2] = 163
        /\ q = 1165 <=> b[1] = 136 /\ b[2] = 164
    <3>1. b[1] \in Nat /\ b[1] >= 129 /\ b[2] \in Nat /\ b[2] \in Big5Trail
      BY <1>0, <1>9
    <3>2. q = Big5At(b[1], b[2])
      BY DEF Big5At
    <3> HIDE DEF q
    <3> QED
      BY <3>1, <3>2, PairPointer, SMT, SMTT(30)
  <2> HIDE DEF q
  <2>5. DOMAIN TwoCodePoints = {1133, 1135, 1164, 1165}
    BY DEF TwoCodePoints
  <2>6. CASE q \in {1133, 1135, 1164, 1165}
    <3>1. PICK x, y : TwoCodePoints[q] = <<x, y>> /\ x \in {202, 234}
                      /\ y = IF q \in {1133, 1164} THEN 772 ELSE 780
      BY <2>6 DEF TwoCodePoints
    <3>2. r = [Decoded(x, 2) EXCEPT !.code_point2 = y]
      BY <2>5, <2>6, <3>1 DEF Big5Pair
    <3>3. r.code_point = x /\ r.code_point2 = y /\ r.used = 2 /\ x # Error
      BY <3>1, <3>2 DEF Decoded, Error
    <3> HIDE DEF r
    <3>4. /\ y \in {772, 780} /\ y \in Nat /\ y # Replacement /\ x # Replacement
          /\ IsScalar(x) /\ IsScalar(y)
      BY <1>4, <3>1 DEF Replacement
    <3>5. b[1] = 136 /\ b[2] \in {98, 163} => q \in {1133, 1164}
      BY <1>0, <2>1, <2>6
    <3>6. b[1] = 136 /\ b[2] \in {100, 164} => q \in {1135, 1165}
      BY <1>0, <2>1, <2>6
    <3>7. Takes(b, r) /\ Big5Keeps(b, r)
      BY <1>0, <1>1, <1>3, <3>1, <3>3, <3>4, <3>5, <3>6 DEF Takes, Big5Keeps
    <3> QED
      BY <1>9, <3>7 DEF r, q
  <2>7. CASE q \notin {1133, 1135, 1164, 1165} /\ At(t, q) = 0
    <3>1. r = f
      BY <2>5, <2>7 DEF Big5Pair, f
    <3>2. Takes(b, r) /\ Big5Keeps(b, r)
      BY <1>7, <2>1, <2>7, <3>1
    <3> QED
      BY <1>9, <3>2 DEF q
  <2>8. CASE q \notin {1133, 1135, 1164, 1165} /\ At(t, q) # 0
    <3>1. r = Decoded(At(t, q), 2) /\ IsScalar(At(t, q)) /\ At(t, q) # Replacement
      BY <2>5, <2>8 DEF Big5Pair, At, OfScalars
    <3>2. r.code_point = At(t, q) /\ r.code_point # Error /\ r.code_point2 = 0 /\ r.used = 2
      BY <3>1 DEF Decoded, Error, IsScalar
    <3>3. r.code_point # Replacement /\ 0 # Replacement /\ 0 \in Nat
      BY <3>1, <3>2 DEF Replacement
    <3> HIDE DEF r
    <3>4. s \notin {<<136, 98>>, <<136, 163>>} /\ s \notin {<<136, 100>>, <<136, 164>>}
      BY <1>3, <2>1, <2>8
    <3>5. Takes(b, r) /\ Big5Keeps(b, r)
      BY <1>0, <1>1, <1>4, <3>1, <3>2, <3>3, <3>4, SMTT(30) DEF Takes, Big5Keeps
    <3> QED
      BY <1>9, <3>5 DEF r, q
  <2> QED
    BY <2>6, <2>7, <2>8
<1> QED
  BY <1>8, <1>9

LEMMA Big5Takes ==
  ASSUME NEW b \in Seq(Byte), Len(b) >= 1, NEW t, OfScalars(t),
         \A q \in DOMAIN t : t[q] # Replacement
  PROVE  Takes(b, Big5Decode(t, b)) /\ Big5Keeps(b, Big5Decode(t, b))
<1>1. PICK r : r = Big5Decode(t, b)
  OBVIOUS
<1>2. CASE b[1] < 128 /\ r = Decoded(b[1], 1)
  <2>1. b[1] # Error /\ b[1] # Replacement
    BY Ones DEF Error, Replacement
  <2>2. Takes(b, Decoded(b[1], 1)) /\ Big5Keeps(b, Decoded(b[1], 1))
    BY <1>2, <2>1, TakesResults, Big5One
  <2> QED
    BY <1>1, <1>2, <2>2
<1>3. CASE ~(b[1] < 128) /\ r = Failed(1)
  <2>1. Takes(b, Failed(1)) /\ Big5Keeps(b, Failed(1))
    BY <1>3, TakesResults, Big5One, FailedIs
  <2> QED
    BY <1>1, <1>3, <2>1
<1>4. CASE /\ ~(b[1] < 128) /\ b[1] # 128 /\ b[1] # 255 /\ Len(b) # 1
           /\ \/ b[2] \notin Big5Trail /\ r = Big5Failed(b[2])
              \/ /\ b[2] \in Big5Trail
                 /\ r = Big5Pair(t, (b[1] - 129) * 157 + Big5Offset(b[2]), b[2])
  <2>1. Len(b) >= 2 /\ b[1] >= 129 /\ b[1] < 255
    BY <1>4, Ones
  <2> QED
    BY <1>1, <1>4, <2>1, Big5Two
<1> QED
  BY <1>1, <1>2, <1>3, <1>4, Big5Is

-----------------------------------------------------------------------------
\* What the decoder of each encoding comes to.
LEMMA TablesOf ==
  /\ \A name \in SingleByte : OfScalars(Table(name))
  /\ \A name \in {"jis0208", "jis0212", "big5", "euc_kr", "gbk"} : OfScalars(Table(name))
  /\ \A q \in DOMAIN Table("big5") : Table("big5")[q] # Replacement
<1>1. \A name, size, excluded : IsTable(name, size, excluded) =>
        OfScalars(Table(name)) /\ \A q \in DOMAIN Table(name) : Table(name)[q] # Replacement
  BY DEF IsTable, OfScalars
<1> QED
  BY <1>1, TablesAssumption, SMT

LEMMA DecoderOf ==
  ASSUME NEW b
  PROVE  /\ DecodeOne("utf_8", b) = Utf8Decode(b)
         /\ DecodeOne("x_user_defined", b) = XUserDefinedDecode(b[1])
         /\ DecodeOne("replacement", b) = Failed(Len(b))
         /\ \A name \in SingleByte : DecodeOne(name, b) = SingleByteDecode(Table(name), b[1])
         /\ DecodeOne("big5", b) = Big5Decode(Table("big5"), b)
         /\ DecodeOne("shift_jis", b) = ShiftJisDecode(Table("jis0208"), b)
         /\ DecodeOne("euc_jp", b) = EucJpDecode(Table("jis0208"), Table("jis0212"), b)
         /\ DecodeOne("euc_kr", b) = EucKrDecode(Table("euc_kr"), b)
         /\ DecodeOne("gbk", b) = GbkDecode(Table("gbk"), b)
<1>1. /\ "utf_8" \notin SingleByte /\ "x_user_defined" \notin SingleByte
      /\ "replacement" \notin SingleByte /\ "big5" \notin SingleByte
      /\ "shift_jis" \notin SingleByte /\ "euc_jp" \notin SingleByte
      /\ "euc_kr" \notin SingleByte /\ "gbk" \notin SingleByte
  BY JobsAssumption DEF Others, Legacy
<1>2. DecodeOne("utf_8", b) = Utf8Decode(b)
  BY <1>1 DEF DecodeOne
<1>3. DecodeOne("x_user_defined", b) = XUserDefinedDecode(b[1])
  BY <1>1 DEF DecodeOne
<1>4. DecodeOne("replacement", b) = Failed(Len(b))
  BY <1>1 DEF DecodeOne
<1>5. ASSUME NEW name \in SingleByte
      PROVE  DecodeOne(name, b) = SingleByteDecode(Table(name), b[1])
  BY <1>1 DEF DecodeOne
<1>6. DecodeOne("big5", b) = Big5Decode(Table("big5"), b)
  BY <1>1 DEF DecodeOne
<1>7. DecodeOne("shift_jis", b) = ShiftJisDecode(Table("jis0208"), b)
  BY <1>1 DEF DecodeOne
<1>8. DecodeOne("euc_jp", b) = EucJpDecode(Table("jis0208"), Table("jis0212"), b)
  BY <1>1 DEF DecodeOne
<1>9. DecodeOne("euc_kr", b) = EucKrDecode(Table("euc_kr"), b)
  BY <1>1 DEF DecodeOne
<1>10. DecodeOne("gbk", b) = GbkDecode(Table("gbk"), b)
  BY <1>1 DEF DecodeOne
<1> QED
  BY <1>2, <1>3, <1>4, <1>5, <1>6, <1>7, <1>8, <1>9, <1>10

LEMMA Utf8Takes ==
  ASSUME NEW b \in Seq(Byte), Len(b) >= 1
  PROVE  Takes(b, Utf8Decode(b))
  BY Utf8Subpart DEF Takes

LEMMA DecoderTakes ==
  ASSUME NEW from \in SingleByte \cup Others, from # "gbk", NEW b \in Seq(Byte), Len(b) >= 1
  PROVE  /\ Takes(b, DecodeOne(from, b))
         /\ from = "big5" => Big5Keeps(b, DecodeOne(from, b))
<1>1. CASE from \in SingleByte
  <2>1. Takes(b, DecodeOne(from, b))
    BY <1>1, TablesOf, DecoderOf, SingleByteTakes
  <2>2. from # "big5"
    BY <1>1, JobsAssumption DEF Others, Legacy
  <2> QED
    BY <2>1, <2>2
<1>2. Takes(b, DecodeOne("utf_8", b))
  BY DecoderOf, Utf8Takes
<1>3. Takes(b, DecodeOne("x_user_defined", b))
  <2>1. OfScalars(Table("gbk"))
    BY TablesOf
  <2> QED
    BY <2>1, DecoderOf, SingleByteTakes
<1>4. Takes(b, DecodeOne("replacement", b))
  <2>1. Len(b) \in 1 .. Len(b)
    OBVIOUS
  <2> QED
    BY <2>1, DecoderOf, TakesFailed
<1>5. Takes(b, DecodeOne("big5", b)) /\ Big5Keeps(b, DecodeOne("big5", b))
  <2>1. OfScalars(Table("big5")) /\ \A q \in DOMAIN Table("big5") : Table("big5")[q] # Replacement
    BY TablesOf
  <2> QED
    BY <2>1, DecoderOf, Big5Takes
<1>6. /\ Takes(b, DecodeOne("euc_kr", b))
      /\ Takes(b, DecodeOne("shift_jis", b)) /\ Takes(b, DecodeOne("euc_jp", b))
  <2>1. /\ OfScalars(Table("euc_kr"))
        /\ OfScalars(Table("jis0208")) /\ OfScalars(Table("jis0212"))
    BY TablesOf
  <2> QED
    BY <2>1, DecoderOf, MultiByteTakes
<1> QED
  BY <1>1, <1>2, <1>3, <1>4, <1>5, <1>6 DEF Others, Legacy

\* No error takes an ASCII byte.
LEMMA Utf8Leaves ==
  ASSUME NEW b \in Seq(Byte), Len(b) >= 1, NEW r, r = Utf8Decode(b),
         r.code_point \in {Error, Replacement}
  PROVE  \A k \in 1 .. r.used : ~(b[k] < 128)
<1>1. /\ Taken(b) \in Nat /\ Taken(b) <= Extra(b[1]) /\ Taken(b) < Len(b) /\ Follow(b, Taken(b))
      /\ r.used = 1 + Taken(b)
  BY TakenIs, Utf8Subpart, MaximalIs
<1>2. PICK n \in Nat : n = Taken(b)
  BY <1>1
<1>3. \A k \in 1 .. n : Continues(b[1], k, b[k + 1])
  BY <1>1, <1>2 DEF Follow
<1>4. \A k \in 1 .. r.used : k \in 1 .. Len(b) /\ (k = 1 \/ (k - 1 \in 1 .. n /\ (k - 1) + 1 = k))
  BY <1>1, <1>2
<1>5. \A k \in 1 .. Len(b) : b[k] \in Nat
  <2>1. \A k \in 1 .. Len(b) : b[k] \in Byte
    OBVIOUS
  <2> QED
    BY <2>1, ByteIs
<1>6. ~(b[1] < 128)
  <2> SUFFICES ASSUME b[1] < 128 PROVE FALSE
    OBVIOUS
  <2>1. r.code_point = b[1]
    BY DEF Utf8Decode, Utf8Result
  <2> QED
    BY <2>1, Ones DEF Error, Replacement
<1> SUFFICES ASSUME NEW k \in 1 .. r.used, k # 1 PROVE ~(b[k] < 128)
  BY <1>6
<1>7. Continues(b[1], k - 1, b[k]) /\ b[k] \in Nat
  BY <1>3, <1>4, <1>5
<1>8. 128 <= b[k]
  BY <1>7, ContinuationByte
<1> QED
  BY <1>7, <1>8

-----------------------------------------------------------------------------
\* Where each code point comes from: a call of the decoder at the bytes that
\* follow the one before, or what such a call has kept; at random, one byte.
Shown(cp) == IF cp = Error THEN Replacement ELSE cp

FromDecoder(i) ==
  LET r == DecodeOne(job.from, Unread(Begins(i)))
  IN  /\ Begins(i) < Len(job.src)
      /\ text[i] = Shown(r.code_point)
      /\ ends[i] = Begins(i) + r.used
      /\ job.from = "big5" /\ r.code_point2 # 0 =>
           IF i = Len(text) THEN pending = r.code_point2
           ELSE text[i + 1] = r.code_point2 /\ ends[i + 1] = ends[i]

WasKept(i) == job.from = "big5" /\ i > 1 /\ ends[i] = Begins(i) /\ text[i] # Replacement

FromByte(i) == ends[i] = i /\ text[i] = Shown(ByteAt(job.src[i]))

WorkTyped ==
  /\ phase \in {"build", "decode", "done", "refused"}
  /\ at \in Nat /\ pending \in Nat /\ IsScalar(pending)
  /\ text \in Seq(Nat) /\ ends \in Seq(Nat) /\ Len(ends) = Len(text)
  /\ \A i \in 1 .. Len(text) : IsScalar(text[i])

JobGiven ==
  /\ phase = "build" =>
       job = NoJob /\ at = 0 /\ pending = 0 /\ text = <<>> /\ ends = <<>> /\ read = 0 /\ out = <<>>
  /\ phase # "build" => job \in Jobs /\ at <= Len(job.src)
  /\ phase \in {"decode", "done"} => HasEncoder(job)

Reached ==
  /\ Len(text) > 0 => at > 0 /\ at = ends[Len(text)]
  /\ Len(text) = 0 => phase = "build" \/ at = 0 \/ at = Len(job.src)
  /\ pending # 0 => job.from = "big5" /\ Len(text) > 0 /\ pending # Replacement

Elements ==
  \A i \in 1 .. Len(text) : IF AtRandom THEN FromByte(i) ELSE FromDecoder(i) \/ WasKept(i)

DecodingInv == WorkTyped /\ JobGiven /\ Reached /\ Elements

-----------------------------------------------------------------------------
LEMMA AppendIs ==
  ASSUME NEW S, NEW s \in Seq(S), NEW x \in S, NEW t, t = Append(s, x)
  PROVE  /\ t \in Seq(S) /\ Len(s) \in Nat /\ Len(t) = Len(s) + 1
         /\ t[Len(s) + 1] = x /\ \A i \in 1 .. Len(s) : t[i] = s[i]
  OBVIOUS

\* A code point more, with where it comes from, and with what is kept.
LEMMA Yields ==
  ASSUME DecodingInv, NEW cp, NEW n \in Nat, Yield(cp, n),
         cp = Error \/ IsScalar(cp), n > 0, n <= Len(job.src), phase = "decode",
         UNCHANGED <<job, phase>>,
         pending' \in Nat, IsScalar(pending'),
         pending' # 0 => job.from = "big5" /\ pending' # Replacement,
         pending # 0 => Shown(cp) = pending /\ n = at,
         NEW CONSTANT k, k = Len(text) + 1,
         IF AtRandom THEN FromByte(k)' ELSE FromDecoder(k)' \/ WasKept(k)'
  PROVE  DecodingInv'
<1>1. Shown(cp) \in Nat /\ IsScalar(Shown(cp))
  BY DEF Shown, Replacement, IsScalar, IsSurrogate
<1>2. text' = Append(text, Shown(cp)) /\ ends' = Append(ends, n) /\ at' = n
  BY DEF Yield, Shown
<1>3. text \in Seq(Nat) /\ ends \in Seq(Nat) /\ Len(ends) = Len(text)
  BY DEF DecodingInv, WorkTyped
<1>4. /\ text' \in Seq(Nat) /\ Len(text) \in Nat /\ Len(text') = Len(text) + 1
      /\ text'[Len(text) + 1] = Shown(cp) /\ \A i \in 1 .. Len(text) : text'[i] = text[i]
  BY <1>1, <1>2, <1>3, AppendIs
<1>5. /\ ends' \in Seq(Nat) /\ Len(ends') = Len(text) + 1
      /\ ends'[Len(text) + 1] = n /\ \A i \in 1 .. Len(text) : ends'[i] = ends[i]
  BY <1>2, <1>3, AppendIs
<1>6. \A i \in 1 .. Len(text') : i = Len(text) + 1 \/ i \in 1 .. Len(text)
  BY <1>4
<1>7. WorkTyped'
  <2>1. \A i \in 1 .. Len(text') : IsScalar(text'[i])
    BY <1>1, <1>4, <1>6 DEF DecodingInv, WorkTyped
  <2> QED
    BY <1>2, <1>4, <1>5, <2>1 DEF DecodingInv, WorkTyped
<1>8. JobGiven'
  BY <1>2 DEF DecodingInv, JobGiven
<1>9. Reached'
  BY <1>2, <1>4, <1>5 DEF Reached
<1>10. ASSUME NEW i \in 1 .. Len(text) PROVE Begins(i)' = Begins(i)
  <2>1. i = 1 \/ i - 1 \in 1 .. Len(text)
    BY <1>4
  <2> QED
    BY <1>5, <2>1 DEF Begins, BomLength
<1>11. ASSUME NEW i \in 1 .. Len(text), ~AtRandom, FromDecoder(i) PROVE FromDecoder(i)'
  <2> DEFINE r == DecodeOne(job.from, Unread(Begins(i)))
  <2>1. r' = r
    BY <1>10 DEF Unread
  <2> HIDE DEF r
  <2>2. /\ Begins(i) < Len(job.src) /\ text[i] = Shown(r.code_point) /\ ends[i] = Begins(i) + r.used
        /\ job.from = "big5" /\ r.code_point2 # 0 =>
             IF i = Len(text) THEN pending = r.code_point2
             ELSE text[i + 1] = r.code_point2 /\ ends[i + 1] = ends[i]
    BY <1>11 DEF FromDecoder, r
  <2>3. i # Len(text') /\ (i = Len(text) \/ i + 1 \in 1 .. Len(text))
    BY <1>4
  <2>4. i = Len(text) => at = ends[i]
    BY <1>4 DEF DecodingInv, Reached
  <2>5. job.from = "big5" /\ r.code_point2 # 0 =>
          text'[i + 1] = r.code_point2 /\ ends'[i + 1] = ends'[i]
    BY <1>4, <1>5, <2>2, <2>3, <2>4
  <2>6. /\ Begins(i)' < Len(job'.src) /\ text'[i] = Shown(r'.code_point)
        /\ ends'[i] = Begins(i)' + r'.used
    BY <1>4, <1>5, <1>10, <2>1, <2>2
  <2>7. /\ Begins(i)' < Len(job'.src) /\ text'[i] = Shown(r'.code_point)
        /\ ends'[i] = Begins(i)' + r'.used
        /\ job'.from = "big5" /\ r'.code_point2 # 0 =>
             IF i = Len(text') THEN pending' = r'.code_point2
             ELSE text'[i + 1] = r'.code_point2 /\ ends'[i + 1] = ends'[i]
    BY <2>1, <2>3, <2>5, <2>6
  <2> QED
    BY <2>7 DEF FromDecoder, r
<1>12. ASSUME NEW i \in 1 .. Len(text), WasKept(i) PROVE WasKept(i)'
  BY <1>4, <1>5, <1>10, <1>12 DEF WasKept
<1>13. ASSUME NEW i \in 1 .. Len(text), FromByte(i) PROVE FromByte(i)'
  BY <1>4, <1>5, <1>13 DEF FromByte, ByteAt, RandomAccessAt, SingleByteAt
<1>14. AtRandom' <=> AtRandom
  BY DEF AtRandom
<1>15. Elements'
  <2> SUFFICES ASSUME NEW i \in 1 .. Len(text')
               PROVE  (IF AtRandom THEN FromByte(i) ELSE FromDecoder(i) \/ WasKept(i))'
    BY DEF Elements
  <2>1. CASE i \in 1 .. Len(text)
    <3>1. IF AtRandom THEN FromByte(i) ELSE FromDecoder(i) \/ WasKept(i)
      BY <2>1 DEF DecodingInv, Elements
    <3> QED
      BY <1>11, <1>12, <1>13, <1>14, <2>1, <3>1
  <2>2. CASE i = k
    BY <1>14, <2>2
  <2> QED
    BY <1>6, <2>1, <2>2
<1> QED
  BY <1>7, <1>8, <1>9, <1>15 DEF DecodingInv

LEMMA JobIs ==
  ASSUME NEW j \in Jobs
  PROVE  /\ j.src \in Seq(Byte) /\ Len(j.src) \in Nat
         /\ j.from \in SingleByte \cup Others /\ j.from # "gbk"
         /\ j.how \in {"forward", "random_access", "single_byte_view"}
<1>1. 0 .. 255 = Byte
  BY DEF Byte
<1>2. j.src \in Seq(0 .. 255)
  BY JobsAssumption
<1>3. j.src \in Seq(Byte)
  BY <1>1, <1>2, Zenon
<1>4. Len(j.src) \in Nat
  BY <1>3, LenProperties
<1>5. j.from \in SingleByte \cup Others /\ j.from # "gbk" /\ j.how \in {"forward", "random_access", "single_byte_view"}
  BY JobsAssumption
<1> QED
  BY <1>3, <1>4, <1>5

\* The bytes that are left.
LEMMA RestIs ==
  ASSUME NEW s \in Seq(Byte), NEW n \in Nat, n < Len(s), NEW b, b = SubSeq(s, n + 1, Len(s))
  PROVE  /\ b \in Seq(Byte) /\ Len(b) = Len(s) - n /\ Len(b) >= 1
         /\ \A k \in 1 .. Len(b) : b[k] = s[n + k]
         /\ n = 0 => b = s
<1>1. Len(s) \in Nat /\ Len(s) - (n + 1) + 1 = Len(s) - n /\ n + 1 <= Len(s)
  BY LenProperties
<1>2. \A k \in n + 1 .. Len(s) : s[k] \in Byte
  BY <1>1, ElementOfSeq
<1>3. /\ b \in Seq(Byte) /\ Len(b) = IF n + 1 <= Len(s) THEN Len(s) - (n + 1) + 1 ELSE 0
      /\ \A k \in 1 .. Len(s) - (n + 1) + 1 : b[k] = s[n + 1 + k - 1]
  BY <1>1, <1>2, SubSeqProperties
<1>4. Len(b) = Len(s) - n /\ Len(b) >= 1
  BY <1>1, <1>3
<1>5. \A k \in 1 .. Len(b) : n + 1 + k - 1 = n + k /\ k \in 1 .. Len(s) - (n + 1) + 1
  BY <1>1, <1>4
<1>6. \A k \in 1 .. Len(b) : b[k] = s[n + k]
  BY <1>3, <1>5
<1>7. ASSUME n = 0 PROVE b = s
  <2>1. Len(b) = Len(s) /\ \A k \in 1 .. Len(b) : b[k] = s[k]
    BY <1>1, <1>4, <1>6, <1>7
  <2> QED
    BY <1>3, <2>1, SeqEqual
<1> QED
  BY <1>3, <1>4, <1>6, <1>7

\* A call of the decoder where there are bytes.
LEMMA Calls ==
  ASSUME NEW j \in Jobs, NEW n \in Nat, n < Len(j.src),
         NEW r, r = DecodeOne(j.from, SubSeq(j.src, n + 1, Len(j.src)))
  PROVE  /\ r.used \in Nat /\ r.used > 0 /\ n + r.used <= Len(j.src)
         /\ r.code_point = Error \/ IsScalar(r.code_point)
         /\ j.from = "big5" => Big5Keeps(SubSeq(j.src, n + 1, Len(j.src)), r)
<1>1. PICK b : b = SubSeq(j.src, n + 1, Len(j.src))
  OBVIOUS
<1>2. /\ j.src \in Seq(Byte) /\ Len(j.src) \in Nat
      /\ j.from \in SingleByte \cup Others /\ j.from # "gbk"
  BY JobIs
<1>3. b \in Seq(Byte) /\ Len(b) = Len(j.src) - n /\ Len(b) >= 1
  BY <1>1, <1>2, RestIs
<1>4. Takes(b, r) /\ (j.from = "big5" => Big5Keeps(b, r))
  BY <1>1, <1>2, <1>3, DecoderTakes
<1>5. /\ r.used \in 1 .. Len(b) /\ (r.code_point = Error \/ IsScalar(r.code_point))
  BY <1>4 DEF Takes
<1>6. r.used \in Nat /\ r.used > 0 /\ n + r.used <= Len(j.src)
  BY <1>2, <1>3, <1>5
<1> QED
  BY <1>1, <1>4, <1>5, <1>6

LEMMA DecodingStarts == Init => DecodingInv
<1> SUFFICES ASSUME Init PROVE DecodingInv
  OBVIOUS
<1>1. /\ phase = "build" /\ job = NoJob /\ at = 0 /\ pending = 0 /\ text = <<>> /\ ends = <<>>
      /\ read = 0 /\ out = <<>>
  BY DEF Init
<1>2. Len(text) = 0 /\ Len(ends) = 0 /\ text \in Seq(Nat) /\ ends \in Seq(Nat) /\ 1 .. 0 = {}
  BY <1>1
<1>3. IsScalar(0)
  BY DEF IsScalar, IsSurrogate
<1> QED
  BY <1>1, <1>2, <1>3 DEF DecodingInv, WorkTyped, JobGiven, Reached, Elements

\* What the steps that decode have in common.
LEMMA Wants ==
  ASSUME DecodingInv, Wanted
  PROVE  /\ phase = "decode" /\ job \in Jobs /\ at \in Nat /\ at <= Len(job.src)
         /\ pending = 0 => at < Len(job.src)
         /\ pending = 0 /\ Len(text) = 0 => at = 0
         /\ Len(text) \in Nat
<1>1. phase = "decode" /\ ~(at = Len(job.src) /\ pending = 0)
  BY DEF Wanted, AtEnd
<1>2. job \in Jobs /\ at <= Len(job.src) /\ at \in Nat /\ text \in Seq(Nat)
  BY <1>1 DEF DecodingInv, JobGiven, WorkTyped
<1>3. Len(text) = 0 => at = 0 \/ at = Len(job.src)
  BY <1>1 DEF DecodingInv, Reached
<1>4. Len(job.src) \in Nat /\ Len(text) \in Nat
  BY <1>2, JobIs, LenProperties
<1> QED
  BY <1>1, <1>2, <1>3, <1>4

\* An element that the decoder has just returned.
LEMMA Returned ==
  ASSUME DecodingInv, NEW n \in Nat, n < Len(job.src), NEW k, k = Len(text) + 1,
         NEW r, r = DecodeOne(job.from, Unread(n)), Yield(r.code_point, n + r.used),
         UNCHANGED job, Begins(k)' = n,
         r.used \in Nat,
         job.from = "big5" => pending' = r.code_point2
  PROVE  FromDecoder(k)'
<1>1. text \in Seq(Nat) /\ ends \in Seq(Nat) /\ Len(ends) = Len(text)
  BY DEF DecodingInv, WorkTyped
<1>2. text' = Append(text, Shown(r.code_point)) /\ ends' = Append(ends, n + r.used)
  BY DEF Yield, Shown
<1>3. text'[k] = Shown(r.code_point) /\ ends'[k] = n + r.used /\ k = Len(text')
  BY <1>1, <1>2, SMTT(30)
<1>4. DecodeOne(job.from, Unread(Begins(k)))' = r
  BY DEF Unread
<1>5. /\ Begins(k)' < Len(job'.src) /\ text'[k] = Shown(r.code_point)
      /\ ends'[k] = Begins(k)' + r.used
      /\ job'.from = "big5" /\ r.code_point2 # 0 =>
           IF k = Len(text') THEN pending' = r.code_point2
           ELSE text'[k + 1] = r.code_point2 /\ ends'[k + 1] = ends'[k]
  BY <1>3
<1> QED
  BY <1>4, <1>5 DEF FromDecoder

\* An element begins where the one before ends.
LEMMA GoesOn ==
  ASSUME DecodingInv, Len(text) > 0, NEW cp, NEW n \in Nat, Yield(cp, n), UNCHANGED job,
         NEW k, k = Len(text) + 1
  PROVE  Begins(k)' = at
<1>1. at = ends[Len(text)] /\ ends \in Seq(Nat) /\ Len(ends) = Len(text)
  BY DEF DecodingInv, Reached, WorkTyped
<1>2. ends' = Append(ends, n)
  BY DEF Yield
<1>3. k # 1 /\ k - 1 = Len(text) /\ Len(text) \in 1 .. Len(ends)
  BY <1>1, LenProperties
<1>4. ends'[Len(text)] = at
  BY <1>1, <1>2, <1>3, AppendIs
<1> QED
  BY <1>3, <1>4 DEF Begins

LEMMA NextKeeps ==
  ASSUME DecodingInv, DecodeNext
  PROVE  DecodingInv'
<1>1. /\ phase = "decode" /\ job \in Jobs /\ at \in Nat /\ at < Len(job.src)
      /\ Len(text) = 0 => at = 0
      /\ Len(text) \in Nat /\ ~AtRandom
  BY Wants DEF DecodeNext
<1>2. PICK r : r = DecodeOne(job.from, Unread(at))
  OBVIOUS
<1>3. /\ Yield(r.code_point, at + r.used)
      /\ pending' = IF job.from = "big5" THEN r.code_point2 ELSE 0
      /\ pending = 0 /\ UNCHANGED <<job, phase>> /\ (job.from = "utf_8" => at > 0)
  BY <1>2 DEF DecodeNext
<1>4. /\ r.used \in Nat /\ r.used > 0 /\ at + r.used <= Len(job.src)
      /\ r.code_point = Error \/ IsScalar(r.code_point)
      /\ job.from = "big5" => Big5Keeps(SubSeq(job.src, at + 1, Len(job.src)), r)
  BY <1>1, <1>2, Calls DEF Unread
<1>5. IsScalar(0) /\ 0 \in Nat
  BY DEF IsScalar, IsSurrogate
<1>6. /\ pending' \in Nat /\ IsScalar(pending')
      /\ pending' # 0 => job.from = "big5" /\ pending' # Replacement
  BY <1>3, <1>4, <1>5 DEF Big5Keeps
<1>7. PICK k \in Nat : k = Len(text) + 1
  BY <1>1
<1>8. Begins(k)' = at
  <2>1. CASE Len(text) = 0
    BY <1>1, <1>3, <1>7, <2>1 DEF Begins, BomLength
  <2>2. CASE Len(text) > 0
    <3>1. at + r.used \in Nat
      BY <1>1, <1>4
    <3> QED
      BY <1>3, <1>7, <2>2, <3>1, GoesOn
  <2> QED
    BY <1>1, <2>1, <2>2
<1>9. FromDecoder(k)'
  BY <1>1, <1>2, <1>3, <1>4, <1>7, <1>8, Returned
<1>10. at + r.used \in Nat /\ at + r.used > 0
  BY <1>1, <1>4
<1> QED
  BY <1>1, <1>3, <1>4, <1>6, <1>7, <1>9, <1>10, Yields

LEMMA PendingKeeps ==
  ASSUME DecodingInv, DecodePending
  PROVE  DecodingInv'
<1>1. /\ phase = "decode" /\ job \in Jobs /\ at \in Nat /\ at <= Len(job.src)
      /\ Len(text) \in Nat /\ ~AtRandom
  BY Wants DEF DecodePending
<1>2. /\ pending # 0 /\ Yield(pending, at) /\ pending' = 0 /\ UNCHANGED <<job, phase>>
  BY DEF DecodePending
<1>3. job.from = "big5" /\ Len(text) > 0 /\ pending # Replacement /\ at > 0
  BY <1>2 DEF DecodingInv, Reached
<1>4. /\ pending \in Nat /\ IsScalar(pending)
      /\ text \in Seq(Nat) /\ ends \in Seq(Nat) /\ Len(ends) = Len(text)
  BY DEF DecodingInv, WorkTyped
<1>5. Shown(pending) = pending
  BY <1>4 DEF Shown, Error
<1>6. IsScalar(0) /\ 0 \in Nat
  BY DEF IsScalar, IsSurrogate
<1>7. PICK k \in Nat : k = Len(text) + 1
  BY <1>1
<1>8. Begins(k)' = at
  BY <1>1, <1>2, <1>3, <1>7, GoesOn
<1>9. text'[k] = pending /\ ends'[k] = at
  <2>1. text' = Append(text, pending) /\ ends' = Append(ends, at)
    BY <1>2, <1>5 DEF Yield, Shown
  <2> QED
    BY <1>1, <1>4, <1>7, <2>1, AppendIs
<1>10. WasKept(k)'
  BY <1>1, <1>2, <1>3, <1>7, <1>8, <1>9 DEF WasKept
<1> QED
  BY <1>1, <1>2, <1>3, <1>4, <1>5, <1>6, <1>7, <1>10, Yields

\* A byte read at random.
\* The byte's code point, as decode_byte or decode_single_byte_at has it.
ByteOf(byte) ==
  IF job.from \in SingleByte THEN DecodeByte(Table(job.from), byte)
  ELSE IF job.how = "random_access" THEN XUserDefinedByte(byte)
  ELSE byte

LEMMA AtRandomIs ==
  ASSUME AtRandom
  PROVE  \/ job.from \in SingleByte /\ job.from \notin NoTable
         \/ job.from = "x_user_defined" /\ job.how = "random_access" /\ job.from \notin SingleByte
         \/ job.from \in NoTable /\ job.how = "single_byte_view" /\ job.from \notin SingleByte
<1>1. \A name \in NoTable : name \notin SingleByte
  BY JobsAssumption DEF NoTable, Others
<1> QED
  BY <1>1 DEF AtRandom, IsByteByByte, IsSingleByte, NoTable

LEMMA ByByteNames == AtRandom => job.from \notin Others \/ job.from \in NoTable
  BY AtRandomIs, JobsAssumption DEF NoTable

LEMMA ByteAtOf ==
  ASSUME AtRandom, NEW byte
  PROVE  \/ ByteAt(byte) = ByteOf(byte)
         \/ ByteAt(byte) = Error /\ ByteOf(byte) = Replacement
<1>1. CASE job.from \in SingleByte /\ job.from \notin NoTable
  <2>1. job.from # "x_user_defined"
    BY <1>1 DEF NoTable
  <2> QED
    BY <1>1, <2>1 DEF ByteAt, ByteOf, RandomAccessAt, SingleByteAt
<1>2. CASE job.from = "x_user_defined" /\ job.how = "random_access" /\ job.from \notin SingleByte
  BY <1>2 DEF ByteAt, ByteOf, RandomAccessAt
<1>3. CASE job.from \in NoTable /\ job.how = "single_byte_view" /\ job.from \notin SingleByte
  BY <1>3 DEF ByteAt, ByteOf, SingleByteAt
<1> QED
  BY <1>1, <1>2, <1>3, AtRandomIs

LEMMA ByteOfIs ==
  ASSUME AtRandom, NEW byte \in Byte
  PROVE  IsScalar(ByteOf(byte))
<1>1. byte \in Nat /\ byte < 256
  BY ByteIs
<1>2. byte < 256 => IsScalar(byte)
  BY <1>1 DEF IsScalar, IsSurrogate
<1>3. CASE job.from \in SingleByte
  <2>1. ByteOf(byte) = DecodeByte(Table(job.from), byte)
    BY <1>3 DEF ByteOf
  <2>2. At(Table(job.from), byte - 128) = 0 \/ IsScalar(At(Table(job.from), byte - 128))
    BY <1>3, TablesOf DEF At, OfScalars
  <2>3. IsScalar(65533)
    BY DEF IsScalar, IsSurrogate
  <2> QED
    BY <1>1, <1>2, <2>1, <2>2, <2>3 DEF DecodeByte
<1>4. CASE job.from \notin SingleByte
  <2>1. ~(byte < 128) => IsScalar(63360 + (byte - 128))
    BY <1>1 DEF IsScalar, IsSurrogate
  <2>2. IsScalar(XUserDefinedByte(byte))
    BY <1>1, <1>2, <2>1 DEF XUserDefinedByte, XUserDefinedDecode, Decoded
  <2> QED
    BY <1>1, <1>2, <1>4, <2>2 DEF ByteOf
<1> QED
  BY <1>3, <1>4

LEMMA AtKeeps ==
  ASSUME DecodingInv, DecodeAt
  PROVE  DecodingInv'
<1>1. /\ phase = "decode" /\ job \in Jobs /\ at \in Nat /\ at <= Len(job.src)
      /\ pending = 0 => at < Len(job.src)
      /\ pending = 0 /\ Len(text) = 0 => at = 0
      /\ Len(text) \in Nat /\ AtRandom
  BY Wants DEF DecodeAt
<1>2. pending = 0
  <2>1. job.from # "big5"
    BY <1>1, ByByteNames DEF Others, Legacy, NoTable
  <2> QED
    BY <2>1 DEF DecodingInv, Reached
<1>3. at = Len(text)
  <2>1. CASE Len(text) = 0
    BY <1>1, <1>2, <2>1
  <2>2. CASE Len(text) > 0
    <3>1. Len(text) \in 1 .. Len(text)
      BY <1>1, <2>2
    <3>2. FromByte(Len(text))
      BY <1>1, <3>1 DEF DecodingInv, Elements
    <3> QED
      BY <2>2, <3>2 DEF DecodingInv, Reached, FromByte
  <2> QED
    BY <1>1, <2>1, <2>2
<1>4. PICK k \in Nat : k = at + 1
  BY <1>1
<1>5. job.src \in Seq(Byte) /\ k \in 1 .. Len(job.src)
  BY <1>1, <1>2, <1>4, JobIs
<1>6. job.src[k] \in Byte
  BY <1>5, ElementOfSeq
<1>7. PICK cp : cp = ByteAt(job.src[k])
  OBVIOUS
<1>8. cp = Error \/ IsScalar(cp)
  BY <1>1, <1>6, <1>7, ByteAtOf, ByteOfIs
<1>9. Yield(cp, k) /\ UNCHANGED <<job, phase, pending>>
  BY <1>4, <1>7 DEF DecodeAt
<1>10. Shown(cp) \in Nat
  BY <1>8 DEF Shown, IsScalar, Replacement
<1>11. text'[k] = Shown(cp) /\ ends'[k] = k
  <2>1. text' = Append(text, Shown(cp)) /\ ends' = Append(ends, k)
    BY <1>9 DEF Yield, Shown
  <2>2. text \in Seq(Nat) /\ ends \in Seq(Nat) /\ Len(ends) = Len(text)
    BY DEF DecodingInv, WorkTyped
  <2> QED
    BY <1>3, <1>4, <1>10, <2>1, <2>2, AppendIs
<1>12. FromByte(k)'
  BY <1>7, <1>9, <1>11 DEF FromByte, ByteAt, RandomAccessAt, SingleByteAt
<1>13. IsScalar(0) /\ 0 \in Nat
  BY DEF IsScalar, IsSurrogate
<1>14. k > 0 /\ k <= Len(job.src) /\ k = Len(text) + 1
  BY <1>1, <1>2, <1>3, <1>4
<1> QED
  BY <1>1, <1>2, <1>8, <1>9, <1>12, <1>13, <1>14, Yields

LEMMA SniffsUtf8 ==
  ASSUME job \in Jobs, job.from = "utf_8", 0 < Len(job.src), NEW r, r = DecodeOne(job.from, job.src)
  PROVE  /\ BomLength = IF r.code_point = 65279 THEN r.used ELSE 0
         /\ r.used \in Nat /\ r.used > 0 /\ r.used <= Len(job.src)
         /\ r.code_point = Error \/ IsScalar(r.code_point)
<1>1. job.src \in Seq(Byte) /\ Len(job.src) \in Nat /\ Len(job.src) >= 1
  BY JobIs
<1>2. r = Utf8Decode(job.src)
  BY DecoderOf
<1>3. /\ r.code_point = 65279 <=> BomSniff(job.src) = "utf_8"
      /\ r.code_point = 65279 => r.used = 3
  BY <1>1, <1>2, ByteOrderMark
<1>4. r.used \in 1 .. Len(job.src) /\ (r.code_point = Error \/ IsScalar(r.code_point))
  BY <1>1, <1>2, Utf8Takes DEF Takes
<1> QED
  BY <1>1, <1>3, <1>4 DEF BomLength

LEMMA FirstKeeps ==
  ASSUME DecodingInv, DecodeFirst
  PROVE  DecodingInv'
<1>1. /\ phase = "decode" /\ job \in Jobs /\ at = 0 /\ job.from = "utf_8" /\ ~AtRandom
      /\ pending = 0 => at < Len(job.src)
      /\ Len(text) \in Nat
  BY Wants DEF DecodeFirst
<1>2. pending = 0 /\ text \in Seq(Nat) /\ ends \in Seq(Nat) /\ Len(text) = 0
  BY <1>1 DEF DecodingInv, Reached, WorkTyped
<1>3. 0 < Len(job.src) /\ job.src \in Seq(Byte) /\ Len(job.src) \in Nat
  BY <1>1, <1>2, JobIs
<1>4. PICK r : r = DecodeOne(job.from, job.src)
  OBVIOUS
<1>5. PICK next : next = DecodeOne(job.from, Unread(r.used))
  OBVIOUS
<1>6. /\ BomLength = IF r.code_point = 65279 THEN r.used ELSE 0
      /\ r.used \in Nat /\ r.used > 0 /\ r.used <= Len(job.src)
      /\ r.code_point = Error \/ IsScalar(r.code_point)
  BY <1>1, <1>3, <1>4, SniffsUtf8
<1>7. /\ \/ r.code_point # 65279 /\ Yield(r.code_point, r.used)
         \/ /\ r.code_point = 65279 /\ r.used < Len(job.src)
            /\ Yield(next.code_point, r.used + next.used)
         \/ /\ r.code_point = 65279 /\ r.used = Len(job.src)
            /\ at' = r.used
            /\ UNCHANGED <<text, ends>>
      /\ UNCHANGED <<index, made, job, phase, pending, read, out>>
  BY <1>4, <1>5 DEF DecodeFirst
<1>8. UNCHANGED <<job, phase, pending>>
  BY <1>7
<1>9. IsScalar(0) /\ 0 \in Nat
  BY DEF IsScalar, IsSurrogate
<1>10. Begins(1)' = BomLength
  BY <1>8 DEF Begins, BomLength
<1>11. CASE r.code_point # 65279 /\ Yield(r.code_point, r.used)
  <2>1. Unread(0) = job.src
    BY <1>3, RestIs DEF Unread
  <2>2. r = DecodeOne(job.from, Unread(0)) /\ Begins(1)' = 0 /\ 0 + r.used = r.used
    BY <1>4, <1>6, <1>10, <1>11, <2>1
  <2>3. FromDecoder(1)'
    BY <1>1, <1>2, <1>3, <1>6, <1>8, <1>11, <2>2, Returned
  <2> QED
    BY <1>1, <1>2, <1>6, <1>8, <1>9, <1>11, <2>3, Yields
<1>12. CASE /\ r.code_point = 65279 /\ r.used < Len(job.src)
            /\ Yield(next.code_point, r.used + next.used)
  <2>1. /\ next.used \in Nat /\ next.used > 0 /\ r.used + next.used <= Len(job.src)
        /\ next.code_point = Error \/ IsScalar(next.code_point)
    BY <1>1, <1>5, <1>6, <1>12, Calls DEF Unread
  <2>2. Begins(1)' = r.used
    BY <1>6, <1>10, <1>12
  <2>3. FromDecoder(1)'
    BY <1>1, <1>2, <1>3, <1>5, <1>6, <1>8, <1>12, <2>1, <2>2, Returned
  <2>4. r.used + next.used \in Nat /\ r.used + next.used > 0
    BY <1>6, <2>1
  <2> QED
    BY <1>1, <1>2, <1>8, <1>9, <1>12, <2>1, <2>3, <2>4, Yields
<1>13. CASE at' = Len(job.src) /\ UNCHANGED <<text, ends>>
  <2>1. 1 .. Len(text) = {}
    BY <1>2
  <2> QED
    BY <1>1, <1>2, <1>3, <1>8, <1>13, <2>1
    DEF DecodingInv, WorkTyped, JobGiven, Reached, Elements
<1> QED
  BY <1>7, <1>11, <1>12, <1>13

\* The steps that decode nothing.
LEMMA SameWork ==
  ASSUME DecodingInv, UNCHANGED <<job, at, pending, text, ends>>,
         \/ UNCHANGED <<phase, read, out>>
         \/ phase = "decode" /\ phase' \in {"decode", "done"}
  PROVE  DecodingInv'
<1>1. WorkTyped'
  BY DEF DecodingInv, WorkTyped
<1>2. JobGiven'
  BY DEF DecodingInv, JobGiven
<1>3. Reached'
  BY DEF DecodingInv, Reached
<1>4. ASSUME NEW i PROVE /\ FromDecoder(i)' <=> FromDecoder(i)
                         /\ WasKept(i)' <=> WasKept(i)
                         /\ FromByte(i)' <=> FromByte(i)
  <2>1. Begins(i)' = Begins(i)
    BY DEF Begins, BomLength
  <2>2. FromDecoder(i)' <=> FromDecoder(i)
    BY <2>1 DEF FromDecoder, Unread
  <2>3. WasKept(i)' <=> WasKept(i)
    BY <2>1 DEF WasKept
  <2>4. FromByte(i)' <=> FromByte(i)
    BY DEF FromByte, ByteAt, RandomAccessAt, SingleByteAt
  <2> QED
    BY <2>2, <2>3, <2>4
<1>5. AtRandom' <=> AtRandom
  BY DEF AtRandom
<1>6. Elements'
  BY <1>4, <1>5 DEF DecodingInv, Elements
<1> QED
  BY <1>1, <1>2, <1>3, <1>6 DEF DecodingInv

LEMMA StartKeeps ==
  ASSUME DecodingInv, Start
  PROVE  DecodingInv'
<1>1. phase = "build" /\ UNCHANGED work
  BY DEF Start
<1>2. /\ job' \in Jobs /\ phase' = IF HasEncoder(job') THEN "decode" ELSE "refused"
  BY DEF Start, HasEncoder
<1>3. at = 0 /\ pending = 0 /\ text = <<>> /\ ends = <<>>
  BY <1>1 DEF DecodingInv, JobGiven
<1>4. UNCHANGED <<at, pending, text, ends>>
  BY <1>1 DEF work
<1>5. Len(text) = 0 /\ 1 .. 0 = {} /\ Len(job'.src) \in Nat
  BY <1>2, <1>3, JobIs
<1>6. WorkTyped'
  BY <1>2, <1>4 DEF DecodingInv, WorkTyped
<1>7. JobGiven'
  BY <1>2, <1>3, <1>4, <1>5 DEF JobGiven
<1> QED
  BY <1>3, <1>4, <1>5, <1>6, <1>7 DEF DecodingInv, Reached, Elements

LEMMA DecodingSteps == DecodingInv /\ [Next]_vars => DecodingInv'
<1> SUFFICES ASSUME DecodingInv, [Next]_vars PROVE DecodingInv'
  OBVIOUS
<1>1. CASE Build \/ Keep
  <2>1. UNCHANGED <<job, phase, at, pending, text, ends, read, out>>
    BY <1>1 DEF Build, Keep, work
  <2> QED
    BY <2>1, SameWork
<1>2. CASE Start
  BY <1>2, StartKeeps
<1>3. CASE DecodeFirst
  BY <1>3, FirstKeeps
<1>4. CASE DecodeNext
  BY <1>4, NextKeeps
<1>5. CASE DecodePending
  BY <1>5, PendingKeeps
<1>6. CASE DecodeAt
  BY <1>6, AtKeeps
<1>7. CASE Encode
  BY <1>7, SameWork DEF Encode
<1>8. CASE Finish
  BY <1>8, SameWork DEF Finish, work
<1>9. CASE UNCHANGED vars
  BY <1>9, SameWork DEF vars, work
<1> QED
  BY <1>1, <1>2, <1>3, <1>4, <1>5, <1>6, <1>7, <1>8, <1>9 DEF Next

\* Every element that has been decoded is accounted for: in a random-access view
\* it is what the view computes from its byte, in any other it is what a call of
\* the decoder returned at the bytes that follow the element before it, or the
\* code point that call kept (decode_view::load, the decode_one functions).
THEOREM Decoding == Spec => []DecodingInv
  BY DecodingStarts, DecodingSteps, PTL DEF Spec

Rest(s, n) == SubSeq(s, n + 1, Len(s))

Between(s, n, u) == SubSeq(s, n + 1, n + u)

\* The bytes a call has taken, of those that were left.
LEMMA TakenBytes ==
  ASSUME NEW s \in Seq(Byte), NEW n \in Nat, n < Len(s), NEW u \in Nat, u > 0, n + u <= Len(s),
         NEW b, b = Rest(s, n)
  PROVE  /\ Between(s, n, u) = SubSeq(b, 1, u) /\ Len(Between(s, n, u)) = u
         /\ u \in 1 .. Len(b)
<1>1. b \in Seq(Byte) /\ Len(b) = Len(s) - n /\ \A k \in 1 .. Len(b) : b[k] = s[n + k]
  BY RestIs DEF Rest
<1>2. Len(s) \in Nat /\ u <= Len(b) /\ n + u - (n + 1) + 1 = u /\ u - 1 + 1 = u /\ n + 1 <= n + u
  BY <1>1, LenProperties
<1>3. \A k \in n + 1 .. n + u : s[k] \in Byte
  <2>1. \A k \in n + 1 .. n + u : k \in 1 .. Len(s)
    BY <1>2
  <2> QED
    BY <2>1, ElementOfSeq
<1>4. \A k \in 1 .. u : b[k] \in Byte
  <2>1. \A k \in 1 .. u : k \in 1 .. Len(b)
    BY <1>1, <1>2
  <2> QED
    BY <1>1, <2>1, ElementOfSeq
<1>5. PICK x : x = SubSeq(s, n + 1, n + u)
  OBVIOUS
<1>6. PICK y : y = SubSeq(b, 1, u)
  OBVIOUS
<1>7. /\ x \in Seq(Byte) /\ Len(x) = IF n + 1 <= n + u THEN n + u - (n + 1) + 1 ELSE 0
      /\ \A k \in 1 .. n + u - (n + 1) + 1 : x[k] = s[n + 1 + k - 1]
  BY <1>2, <1>3, <1>5, SubSeqProperties, SMTT(30)
<1>8. /\ y \in Seq(Byte) /\ Len(y) = IF 1 <= u THEN u - 1 + 1 ELSE 0
      /\ \A k \in 1 .. u - 1 + 1 : y[k] = b[1 + k - 1]
  BY <1>2, <1>4, <1>6, SubSeqProperties
<1>9. Len(x) = u /\ Len(y) = u
  BY <1>2, <1>7, <1>8
<1>10. ASSUME NEW k \in 1 .. u
       PROVE  /\ k \in 1 .. n + u - (n + 1) + 1 /\ k \in 1 .. u - 1 + 1 /\ k \in 1 .. Len(b)
              /\ n + 1 + k - 1 = n + k /\ 1 + k - 1 = k
  <2>1. PICK m \in Nat : m = Len(b)
    BY <1>1, LenProperties
  <2>2. u <= m
    BY <1>2, <2>1
  <2>3. k \in 1 .. m
    BY <2>2
  <2> QED
    BY <1>2, <2>1, <2>3
<1>11. ASSUME NEW k \in 1 .. u PROVE x[k] = y[k]
  <2>1. x[k] = s[n + k]
    BY <1>7, <1>10
  <2>2. y[k] = b[k]
    BY <1>8, <1>10
  <2>3. b[k] = s[n + k]
    BY <1>1, <1>10
  <2> QED
    BY <2>1, <2>2, <2>3
<1>12. x = y
  BY <1>7, <1>8, <1>9, <1>11, SeqEqual
<1>13. u \in 1 .. Len(b)
  <2>1. PICK m \in Nat : m = Len(b)
    BY <1>1, LenProperties
  <2> QED
    BY <1>2, <2>1
<1> QED
  BY <1>5, <1>6, <1>9, <1>12, <1>13 DEF Between

\* An element that the decoder has returned, by the call that returned it.
LEMMA ElementIs ==
  ASSUME DecodingInv, ~AtRandom, NEW i \in 1 .. Len(text), ~WasKept(i)
  PROVE  /\ job \in Jobs /\ Begins(i) \in Nat /\ Begins(i) < Len(job.src)
         /\ FromDecoder(i)
         /\ \E b \in Seq(Byte) : \E r :
              /\ b = Unread(Begins(i)) /\ Len(b) >= 1 /\ r = DecodeOne(job.from, b)
              /\ r.used \in 1 .. Len(b) /\ r.used > 0 /\ BytesOf(i) = SubSeq(b, 1, r.used)
              /\ Len(BytesOf(i)) = r.used
              /\ \A k \in 1 .. Len(b) : b[k] = job.src[Begins(i) + k]
              /\ text[i] = Shown(r.code_point) /\ ends[i] = Begins(i) + r.used
              /\ r.code_point = Error \/ IsScalar(r.code_point)
              /\ job.from = "big5" => Big5Keeps(b, r)
<1>1. text \in Seq(Nat) /\ ends \in Seq(Nat) /\ Len(ends) = Len(text)
  BY DEF DecodingInv, WorkTyped
<1>2. text # <<>> /\ Len(text) \in Nat
  BY <1>1
<1>3. job \in Jobs
  BY <1>2 DEF DecodingInv, JobGiven
<1>4. Begins(i) \in Nat
  <2>1. i # 1 => i - 1 \in 1 .. Len(ends)
    BY <1>1, <1>2
  <2>2. i # 1 => ends[i - 1] \in Nat
    BY <1>1, <2>1, ElementOfSeq
  <2>3. BomLength \in Nat
    BY DEF BomLength
  <2> QED
    BY <2>2, <2>3 DEF Begins
<1>5. FromDecoder(i)
  BY DEF DecodingInv, Elements
<1>6. Begins(i) < Len(job.src)
  BY <1>5 DEF FromDecoder
<1>7. PICK n \in Nat : n = Begins(i)
  BY <1>4
<1>8. PICK b : b = SubSeq(job.src, n + 1, Len(job.src))
  OBVIOUS
<1>9. PICK r : r = DecodeOne(job.from, b)
  OBVIOUS
<1>10. b = Unread(Begins(i))
  BY <1>7, <1>8 DEF Unread
<1>11. text[i] = Shown(r.code_point) /\ ends[i] = n + r.used
  BY <1>5, <1>7, <1>9, <1>10 DEF FromDecoder
<1>12. /\ r.used \in Nat /\ r.used > 0 /\ n + r.used <= Len(job.src)
       /\ r.code_point = Error \/ IsScalar(r.code_point)
       /\ job.from = "big5" => Big5Keeps(b, r)
  BY <1>3, <1>6, <1>7, <1>8, <1>9, Calls
<1>13. PICK s \in Seq(Byte) : s = job.src /\ Len(s) \in Nat
  BY <1>3, JobIs
<1>14. /\ b \in Seq(Byte) /\ Len(b) = Len(job.src) - n /\ Len(b) >= 1
       /\ \A k \in 1 .. Len(b) : b[k] = job.src[n + k]
  <2>1. n < Len(s) /\ b = SubSeq(s, n + 1, Len(s))
    BY <1>6, <1>7, <1>8, <1>13
  <2>2. /\ b \in Seq(Byte) /\ Len(b) = Len(s) - n /\ Len(b) >= 1
        /\ \A k \in 1 .. Len(b) : b[k] = s[n + k]
    BY <2>1, RestIs, SMTT(30)
  <2> QED
    BY <1>13, <2>2
<1>15. BytesOf(i) = SubSeq(b, 1, r.used) /\ Len(BytesOf(i)) = r.used /\ r.used \in 1 .. Len(b)
  <2>1. BytesOf(i) = Between(s, n, r.used)
    BY <1>7, <1>11, <1>13 DEF BytesOf, Between
  <2>2. n < Len(s) /\ b = Rest(s, n)
    BY <1>6, <1>7, <1>8, <1>13 DEF Rest
  <2>3. PICK u \in Nat : u = r.used /\ u > 0 /\ n + u <= Len(s)
    BY <1>12, <1>13
  <2>4. /\ Between(s, n, u) = SubSeq(b, 1, u) /\ Len(Between(s, n, u)) = u
        /\ u \in 1 .. Len(b)
    BY <2>2, <2>3, TakenBytes, SMTT(30)
  <2> QED
    BY <2>1, <2>3, <2>4
<1> QED
  BY <1>3, <1>4, <1>5, <1>6, <1>7, <1>9, <1>10, <1>11, <1>12, <1>13, <1>14, <1>15

LEMMA SubpartsAre == DecodingInv => Utf8MaximalSubparts
<1> SUFFICES ASSUME DecodingInv, job.from = "utf_8", NEW i \in 1 .. Len(text)
             PROVE  /\ Len(BytesOf(i)) = MaximalSubpart(Unread(Begins(i)))
                    /\ IF Whole(BytesOf(i)) THEN Utf8Encode(text[i]) = BytesOf(i)
                       ELSE text[i] = Replacement
  BY DEF Utf8MaximalSubparts
<1>1. ~AtRandom /\ ~WasKept(i)
  BY ByByteNames DEF Others, NoTable, WasKept
<1>2. PICK b, r :
        /\ b \in Seq(Byte)
        /\ b = Unread(Begins(i)) /\ Len(b) >= 1 /\ r = DecodeOne(job.from, b)
        /\ BytesOf(i) = SubSeq(b, 1, r.used) /\ Len(BytesOf(i)) = r.used
        /\ text[i] = Shown(r.code_point)
  BY <1>1, ElementIs, SMTT(30)
<1>3. r = Utf8Decode(b)
  BY <1>2, DecoderOf
<1>4. /\ r.used = MaximalSubpart(b)
      /\ Whole(SubSeq(b, 1, r.used)) =>
           IsScalar(r.code_point) /\ Utf8Encode(r.code_point) = SubSeq(b, 1, r.used)
      /\ ~Whole(SubSeq(b, 1, r.used)) => r.code_point = Error
  BY <1>2, <1>3, Utf8Subpart
<1>5. IsScalar(r.code_point) => Shown(r.code_point) = r.code_point
  BY DEF Shown, Error, IsScalar
<1> QED
  BY <1>2, <1>4, <1>5 DEF Shown

\* An ASCII byte among those that an error has taken.
LEMMA OwedByte ==
  ASSUME DecodingInv, job.from \in {"utf_8", "big5"}, ~AtRandom, NEW i \in 1 .. Len(text),
         text[i] = Replacement, NEW cp, cp \in Owed(i), cp # 0
  PROVE  /\ job.from = "big5" /\ ~WasKept(i)
         /\ DecodeOne(job.from, Unread(Begins(i))).code_point2 = cp
<1>1. ~WasKept(i)
  BY DEF WasKept
<1>2. PICK b, r :
        /\ b \in Seq(Byte)
        /\ Begins(i) \in Nat
        /\ b = Unread(Begins(i)) /\ Len(b) >= 1 /\ r = DecodeOne(job.from, b)
        /\ r.used \in 1 .. Len(b)
        /\ \A k \in 1 .. Len(b) : b[k] = job.src[Begins(i) + k]
        /\ text[i] = Shown(r.code_point) /\ ends[i] = Begins(i) + r.used
        /\ job.from = "big5" => Big5Keeps(b, r)
  BY <1>1, ElementIs
<1>3. r.code_point \in {Error, Replacement}
  BY <1>2 DEF Shown
<1>4. PICK m \in (Begins(i) + 1) .. ends[i] : job.src[m] < 128 /\ cp = job.src[m]
  BY DEF Owed
<1>5. PICK k \in 1 .. r.used : m = Begins(i) + k
  <2>1. Len(b) \in Nat /\ r.used \in Nat
    BY <1>2, LenProperties
  <2>2. PICK n \in Nat : n = Begins(i)
    BY <1>2
  <2>3. m \in n + 1 .. n + r.used
    BY <1>2, <1>4, <2>2
  <2>4. m - n \in 1 .. r.used /\ m = n + (m - n)
    BY <2>1, <2>2, <2>3, SMTT(30)
  <2> QED
    BY <2>2, <2>4
<1>6. b[k] < 128 /\ b[k] = cp
  <2>1. Len(b) \in Nat
    BY <1>2, LenProperties
  <2>2. k \in 1 .. Len(b)
    BY <1>2, <1>5, <2>1
  <2> QED
    BY <1>2, <1>4, <1>5, <2>2
<1>7. job.from = "big5"
  <2> SUFFICES ASSUME job.from = "utf_8" PROVE FALSE
    OBVIOUS
  <2>1. r = Utf8Decode(b)
    BY <1>2, DecoderOf
  <2> QED
    BY <1>2, <1>3, <1>5, <1>6, <2>1, Utf8Leaves
<1>8. r.code_point = Error
  BY <1>2, <1>3, <1>7 DEF Big5Keeps
<1>9. r.code_point2 = cp
  BY <1>2, <1>5, <1>6, <1>7, <1>8, SMTT(30) DEF Big5Keeps
<1> QED
  BY <1>1, <1>2, <1>7, <1>9

\* The second of two code points.
LEMMA OwedPair ==
  ASSUME DecodingInv, ~AtRandom, NEW i \in 1 .. Len(text),
         text[i] # Replacement, NEW cp, cp \in Owed(i), job.from = "big5"
  PROVE  ~WasKept(i) /\ DecodeOne(job.from, Unread(Begins(i))).code_point2 = cp
<1>1. \/ cp = 772 /\ BytesOf(i) \in {<<136, 98>>, <<136, 163>>}
      \/ cp = 780 /\ BytesOf(i) \in {<<136, 100>>, <<136, 164>>}
  BY DEF Owed
<1>2. ~WasKept(i)
  <2> SUFFICES ASSUME WasKept(i) PROVE FALSE
    OBVIOUS
  <2>1. text \in Seq(Nat) /\ ends \in Seq(Nat) /\ Len(ends) = Len(text)
    BY DEF DecodingInv, WorkTyped
  <2>2. PICK n \in Nat : n = ends[i]
    BY <2>1, ElementOfSeq
  <2>3. BytesOf(i) = SubSeq(job.src, n + 1, n)
    BY <2>2 DEF BytesOf, WasKept
  <2>4. BytesOf(i) = <<>>
    BY <2>2, <2>3, SubSeqEmpty
  <2> QED
    BY <1>1, <2>4
<1>3. PICK b, r :
        /\ b \in Seq(Byte)
        /\ b = Unread(Begins(i)) /\ r = DecodeOne(job.from, b)
        /\ BytesOf(i) = SubSeq(b, 1, r.used)
        /\ job.from = "big5" => Big5Keeps(b, r)
  BY <1>2, ElementIs
<1>4. Big5Keeps(b, r)
  BY <1>3
<1>5. r.code_point2 = cp
  BY <1>1, <1>3, <1>4, SMTT(30) DEF Big5Keeps
<1> QED
  BY <1>2, <1>3, <1>5

LEMMA NothingSwallowed == DecodingInv => NothingIsSwallowed
<1> SUFFICES ASSUME DecodingInv, job.from \in PushesBack, NEW i \in 1 .. Len(text),
                    NEW cp \in Owed(i) \ {0}
             PROVE  IF i = Len(text) THEN pending = cp
                    ELSE text[i + 1] = cp /\ ends[i + 1] = ends[i]
  BY DEF NothingIsSwallowed
<1>1. job.from \in {"utf_8", "big5"}
  BY JobsAssumption
<1>2. ~AtRandom
  BY <1>1, ByByteNames DEF Others, Legacy, NoTable
<1> DEFINE second == DecodeOne(job.from, Unread(Begins(i))).code_point2
<1>3. job.from = "big5" /\ ~WasKept(i) /\ second = cp
  <2>1. CASE text[i] = Replacement
    BY <1>1, <1>2, <2>1, OwedByte
  <2>2. CASE text[i] # Replacement
    <3>1. job.from = "big5"
      BY <2>2 DEF Owed
    <3> QED
      BY <1>2, <2>2, <3>1, OwedPair
  <2> QED
    BY <2>1, <2>2
<1>4. FromDecoder(i)
  BY <1>2, <1>3 DEF DecodingInv, Elements
<1> QED
  BY <1>3, <1>4 DEF FromDecoder

LEMMA RandomAgrees == DecodingInv => RandomAccessAgrees
<1> SUFFICES ASSUME DecodingInv, phase \in {"decode", "done"}, AtRandom,
                    NEW i \in 1 .. Len(text)
             PROVE  LET cp == DecodeOne(job.from, <<job.src[i]>>).code_point
                    IN  /\ ends[i] = i
                        /\ text[i] =
                             IF job.how = "single_byte_view" /\ job.from \in NoTable THEN job.src[i]
                             ELSE IF cp = Error THEN Replacement
                             ELSE cp
  BY DEF RandomAccessAgrees
<1>1. FromByte(i) /\ job \in Jobs /\ i \in 1 .. Len(job.src)
  <2>1. job \in Jobs /\ at <= Len(job.src) /\ at \in Nat /\ Len(text) \in Nat
    BY DEF DecodingInv, JobGiven, WorkTyped
  <2>2. FromByte(i) /\ FromByte(Len(text))
    BY <2>1 DEF DecodingInv, Elements
  <2>3. at = Len(text)
    BY <2>1, <2>2 DEF DecodingInv, Reached, FromByte
  <2>4. Len(job.src) \in Nat
    BY <2>1, JobIs
  <2> QED
    BY <2>1, <2>2, <2>3, <2>4
<1>2. PICK x : x = job.src[i]
  OBVIOUS
<1> DEFINE cp == DecodeOne(job.from, <<job.src[i]>>).code_point
<1>3. <<x>>[1] = x
  OBVIOUS
<1>4. x \in Byte /\ x # Error
  <2>1. x \in Byte
    BY <1>1, <1>2, JobIs, ElementOfSeq
  <2> QED
    BY <2>1, ByteIs DEF Error
<1>5. text[i] = ByteOf(x) /\ ends[i] = i
  <2>1. ByteOf(x) # Error
    BY <1>4, ByteOfIs DEF IsScalar, Error
  <2> QED
    BY <1>1, <1>2, <2>1, ByteAtOf DEF FromByte, Shown
<1>6. CASE job.from \in SingleByte /\ job.from \notin NoTable
  <2>1. ByteOf(x) = DecodeByte(Table(job.from), x)
    BY <1>6 DEF ByteOf
  <2>2. cp = SingleByteDecode(Table(job.from), x).code_point
    BY <1>2, <1>3, <1>6, DecoderOf, SMTT(30)
  <2>3. ByteOf(x) = Shown(cp)
    <3>1. CASE x < 128
      BY <1>4, <2>1, <2>2, <3>1 DEF DecodeByte, SingleByteDecode, Decoded, Shown
    <3>2. CASE ~(x < 128)
      <4>1. PICK y : y = At(Table(job.from), x - 128)
        OBVIOUS
      <4>2. ByteOf(x) = IF y = 0 THEN 65533 ELSE y
        BY <2>1, <3>2, <4>1 DEF DecodeByte
      <4>3. cp = IF y = 0 THEN Error ELSE y
        BY <2>2, <3>2, <4>1 DEF SingleByteDecode, AtPointer, Decoded
      <4>4. ByteOf(x) # Error
        BY <1>4, ByteOfIs DEF IsScalar, Error
      <4> QED
        BY <4>2, <4>3, <4>4 DEF Shown, Replacement, Error
    <3> QED
      BY <3>1, <3>2
  <2> QED
    BY <1>2, <1>5, <1>6, <2>3 DEF Shown
<1>7. CASE job.from = "x_user_defined" /\ job.how = "random_access" /\ job.from \notin SingleByte
  <2>1. ByteOf(x) = XUserDefinedByte(x)
    BY <1>7 DEF ByteOf
  <2>2. cp = XUserDefinedDecode(x).code_point
    BY <1>2, <1>3, <1>7, DecoderOf, SMTT(30)
  <2>3. cp = ByteOf(x) /\ cp # Error
    BY <1>4, <2>1, <2>2, ByteOfIs DEF XUserDefinedByte, IsScalar, Error
  <2> QED
    BY <1>5, <1>7, <2>3
<1>8. CASE job.from \in NoTable /\ job.how = "single_byte_view" /\ job.from \notin SingleByte
  <2>1. ByteOf(x) = x
    BY <1>8 DEF ByteOf
  <2> QED
    BY <1>2, <1>5, <1>8, <2>1
<1> QED
  BY <1>6, <1>7, <1>8, AtRandomIs

\* For every text in UTF-8, and whatever the view it is read through, each element
\* is the code point of a well-formed sequence or U+FFFD for a maximal subpart of
\* an ill-formed one, and each begins where the one before it ends
\* (utf8_decode_one, decode_first, decode_view).
THEOREM Utf8Subparts == Spec => []Utf8MaximalSubparts
  BY Decoding, SubpartsAre, PTL

\* For every text in UTF-8 or Big5, the encodings whose errors take no ASCII
\* byte with them: the ASCII byte an error was found at, and the second code point of a
\* Big5 sequence that has two, is the next element, or still pending when the
\* text ends there
\* (decoder<big5>::decode_one and flush, the decode_one of the two-byte decoders).
THEOREM NothingIsLost == Spec => []NothingIsSwallowed
  BY Decoding, NothingSwallowed, PTL

\* For every table of a single-byte encoding and every text: operator* of the
\* random-access views gives for each byte what the decoder gives for it when
\* the text is read forward, and single_byte_decode of an encoding without a
\* table the byte itself (decode_byte, decode_single_byte_at).
THEOREM RandomIsForward == Spec => []RandomAccessAgrees
  BY Decoding, RandomAgrees, PTL

-----------------------------------------------------------------------------
\* The bytes of a sequence read back: from n on, one call of the decoder after
\* another.
Call(to, b, n)       == ReadOne(to, Rest(b, n))
FromThere(to, b, n, g) ==
  IF n = Len(b) THEN <<>> ELSE <<Call(to, b, n).code_point>> \o g[n + Call(to, b, n).used]

ReadsFrom(to, b, g, m) ==
  /\ g = [k \in 0 .. Len(b) |-> g[k]]
  /\ \A k \in 0 .. Len(b) : m <= k => g[k] = FromThere(to, b, k, g)

Readable(to) == to \in SingleByte \cup Others

LEMMA LeadIs ==
  ASSUME NEW x \in Nat, x < 256
  PROVE  /\ x <= 128 => ~(x \in 129 .. 254) /\ x # 255
         /\ x = 255 => ~(x \in 129 .. 254) /\ ~(x <= 128)
         /\ x \in 129 .. 254 => ~(x <= 128) /\ x # 255
         /\ x <= 128 \/ x = 255 \/ x \in 129 .. 254
  OBVIOUS

LEMMA LengthIs ==
  ASSUME NEW n \in Nat, n >= 2
  PROVE  \/ n = 2
         \/ n = 3 /\ n > 2
         \/ n > 3 /\ n > 2
  OBVIOUS

\* A token takes one byte at least and none behind the end, whatever it hands back.
LEMMA GbkTokens ==
  ASSUME NEW b \in Seq(Byte), Len(b) >= 1, NEW t, t = Gb18030!Token(b)
  PROVE  /\ t.read \in 1 .. Len(b) /\ t.back \in 0 .. (t.read - 1)
         /\ t.result = "character" =>
              \/ t = Gb18030!Outcome("character", 1, 0)
              \/ t = Gb18030!Outcome("character", 2, 0)
              \/ t = Gb18030!Outcome("character", 4, 0)
<1> DEFINE IsGood(u) ==
      /\ u.read \in 1 .. Len(b) /\ u.back \in 0 .. (u.read - 1)
      /\ u.result = "character" =>
           \/ u = Gb18030!Outcome("character", 1, 0)
           \/ u = Gb18030!Outcome("character", 2, 0)
           \/ u = Gb18030!Outcome("character", 4, 0)
<1>1. Len(b) \in Nat /\ b[1] \in Nat /\ b[1] < 256
  BY Ones
<1>2. /\ IsGood(Gb18030!Outcome("invalid_byte", 1, 0))
      /\ IsGood(Gb18030!Outcome("truncated_sequence", 1, 0))
      /\ IsGood(Gb18030!Outcome("character", 1, 0))
  BY <1>1 DEF Gb18030!Outcome
<1>3. Len(b) >= 2 => /\ IsGood(Gb18030!Outcome("invalid_byte", 2, 0))
                     /\ IsGood(Gb18030!Outcome("truncated_sequence", 2, 0))
                     /\ IsGood(Gb18030!Outcome("character", 2, 0))
  BY <1>1 DEF Gb18030!Outcome
<1>4. Len(b) >= 3 => /\ IsGood(Gb18030!Outcome("invalid_byte", 2, 1))
                     /\ IsGood(Gb18030!Outcome("invalid_byte", 3, 2))
                     /\ IsGood(Gb18030!Outcome("truncated_sequence", 3, 0))
  BY <1>1 DEF Gb18030!Outcome
<1>5. Len(b) >= 4 => /\ IsGood(Gb18030!Outcome("invalid_byte", 4, 0))
                     /\ IsGood(Gb18030!Outcome("character", 4, 0))
  BY <1>1 DEF Gb18030!Outcome
<1> HIDE DEF IsGood
<1>6. PICK u : u = Gb18030!FourByteToken(b)
  OBVIOUS
<1>7. ASSUME Len(b) >= 2 PROVE IsGood(u)
  <2>1. CASE Len(b) = 2
    <3>1. u = Gb18030!Outcome("truncated_sequence", 2, 0)
      BY <1>6, <2>1 DEF Gb18030!FourByteToken
    <3> QED
      BY <1>3, <1>7, <3>1
  <2>2. CASE Len(b) > 2 /\ ~Gb18030!LeadByte(b[3])
    <3>1. u = Gb18030!Outcome("invalid_byte", 2, 1)
      BY <1>1, <1>6, <2>2 DEF Gb18030!FourByteToken
    <3>2. Len(b) >= 3
      BY <1>1, <2>2
    <3> QED
      BY <1>4, <3>1, <3>2
  <2>3. CASE Len(b) = 3 /\ Gb18030!LeadByte(b[3])
    <3>1. u = Gb18030!Outcome("truncated_sequence", 3, 0)
      BY <1>6, <2>3 DEF Gb18030!FourByteToken
    <3>2. Len(b) >= 3
      BY <2>3
    <3> QED
      BY <1>4, <3>1, <3>2
  <2>4. CASE Len(b) > 3 /\ Gb18030!LeadByte(b[3])
    <3>1. \/ u = Gb18030!Outcome("invalid_byte", 3, 2)
          \/ u = Gb18030!Outcome("character", 4, 0)
          \/ u = Gb18030!Outcome("invalid_byte", 4, 0)
      BY <1>1, <1>6, <2>4 DEF Gb18030!FourByteToken
    <3>2. Len(b) >= 3 /\ Len(b) >= 4
      BY <1>1, <2>4
    <3> QED
      BY <1>4, <1>5, <3>1, <3>2
  <2>5. \/ Len(b) = 2
        \/ Len(b) = 3 /\ Len(b) > 2
        \/ Len(b) > 3 /\ Len(b) > 2
    BY <1>1, <1>7, LengthIs
  <2> QED
    BY <2>1, <2>2, <2>3, <2>4, <2>5, Zenon
<1>8. PICK v : v = Gb18030!TwoByteToken(b)
  OBVIOUS
<1>9. ASSUME Len(b) >= 2 PROVE IsGood(v)
  <2>1. \/ v = Gb18030!Outcome("character", 2, 0)
        \/ v = Gb18030!Outcome("invalid_byte", 2, 0)
        \/ v = Gb18030!Outcome("invalid_byte", 1, 0)
    BY <1>8 DEF Gb18030!TwoByteToken
  <2> QED
    BY <1>2, <1>3, <1>9, <2>1
<1>10. IsGood(t)
  <2>1. CASE b[1] <= 128
    <3>1. ~(b[1] \in 129 .. 254) /\ b[1] # 255
      BY <1>1, <2>1, LeadIs
    <3>2. t = Gb18030!Outcome("character", 1, 0)
      BY <2>1, <3>1 DEF Gb18030!Token, Gb18030!LeadByte
    <3> QED
      BY <1>2, <3>2
  <2>2. CASE b[1] = 255
    <3>1. ~(b[1] \in 129 .. 254) /\ ~(b[1] <= 128)
      BY <1>1, <2>2, LeadIs
    <3>2. t = Gb18030!Outcome("invalid_byte", 1, 0)
      BY <2>2, <3>1 DEF Gb18030!Token, Gb18030!LeadByte
    <3> QED
      BY <1>2, <3>2
  <2>3. CASE b[1] \in 129 .. 254
    <3>1. ~(b[1] <= 128) /\ b[1] # 255
      BY <1>1, <2>3, LeadIs
    <3>2. CASE Len(b) = 1
      <4>1. t = Gb18030!Outcome("truncated_sequence", 1, 0)
        BY <2>3, <3>1, <3>2 DEF Gb18030!Token, Gb18030!LeadByte
      <4> QED
        BY <1>2, <4>1
    <3>3. CASE Len(b) >= 2
      <4>1. t = u \/ t = v
        BY <1>1, <1>6, <1>8, <2>3, <3>1, <3>3 DEF Gb18030!Token, Gb18030!LeadByte
      <4> QED
        BY <1>7, <1>9, <3>3, <4>1
    <3>4. Len(b) = 1 \/ Len(b) >= 2
      BY <1>1
    <3> QED
      BY <3>2, <3>3, <3>4, Zenon
  <2>4. b[1] <= 128 \/ b[1] = 255 \/ b[1] \in 129 .. 254
    BY <1>1, LeadIs
  <2> QED
    BY <2>1, <2>2, <2>3, <2>4, Zenon
<1> QED
  BY <1>10 DEF IsGood

LEMMA GbkTakes ==
  ASSUME NEW b \in Seq(Byte), Len(b) >= 1, NEW r, r = GbkDecode(Table("gbk"), b)
  PROVE  r.used \in 1 .. Len(b) /\ r.code_point \in Int
<1>1. PICK t : t = Gb18030!Token(b)
  OBVIOUS
<1>2. /\ t.read \in 1 .. Len(b) /\ t.back \in 0 .. (t.read - 1)
      /\ t.result = "character" =>
           \/ t = Gb18030!Outcome("character", 1, 0)
           \/ t = Gb18030!Outcome("character", 2, 0)
           \/ t = Gb18030!Outcome("character", 4, 0)
  BY <1>1, GbkTokens
<1>3. Len(b) \in Nat /\ b[1] \in Nat
  BY Ones
<1> DEFINE idx == Table("gbk")
<1>4. /\ t = Gb18030!Outcome("character", 1, 0) =>
           r = Decoded(IF b[1] = 128 THEN 8364 ELSE b[1], 1)
      /\ t = Gb18030!Outcome("character", 2, 0) => r = AtPointer(idx, GbkPointer(b[1], b[2]), 2)
      /\ t = Gb18030!Outcome("character", 4, 0) => r = Decoded(FourByteCharacter, 4)
      /\ t.result # "character" => r = Failed(t.read - t.back)
  <2> HIDE DEF idx
  <2>1. r = GbkDecode(idx, b)
    BY DEF idx
  <2> QED
    BY <1>1, <2>1, GbkCharacter
<1>5. CASE t.result # "character"
  <2>1. r = Failed(t.read - t.back)
    BY <1>4, <1>5
  <2>2. PICK n : n = t.read - t.back
    OBVIOUS
  <2>3. n \in 1 .. Len(b)
    BY <1>2, <1>3, <2>2
  <2>4. r.used = n /\ r.code_point = Error
    BY <2>1, <2>2 DEF Failed, Decoded
  <2> QED
    BY <2>3, <2>4 DEF Error
<1>6. CASE t = Gb18030!Outcome("character", 1, 0)
  <2>1. r = Decoded(IF b[1] = 128 THEN 8364 ELSE b[1], 1)
    BY <1>4, <1>6
  <2> QED
    BY <1>3, <2>1 DEF Decoded
<1>7. CASE t = Gb18030!Outcome("character", 2, 0)
  <2>1. r = AtPointer(idx, GbkPointer(b[1], b[2]), 2)
    BY <1>4, <1>7
  <2>2. 2 \in 1 .. Len(b)
    BY <1>2, <1>7 DEF Gb18030!Outcome
  <2>3. Takes(b, r)
    BY <2>1, <2>2, TablesOf, TakesAt
  <2> QED
    BY <2>3 DEF Takes, IsScalar, Error
<1>8. CASE t = Gb18030!Outcome("character", 4, 0)
  <2>1. r = Decoded(FourByteCharacter, 4)
    BY <1>4, <1>8
  <2>2. 4 \in 1 .. Len(b)
    BY <1>2, <1>8 DEF Gb18030!Outcome
  <2> QED
    BY <2>1, <2>2 DEF Decoded, FourByteCharacter
<1> QED
  BY <1>2, <1>5, <1>6, <1>7, <1>8

LEMMA ReadOneTakes ==
  ASSUME NEW to, Readable(to), NEW b \in Seq(Byte), Len(b) >= 1, NEW r, r = ReadOne(to, b)
  PROVE  r.used \in 1 .. Len(b) /\ r.code_point \in Int
<1>1. CASE to \in NoTable
  <2>1. r = Decoded(b[1], 1) /\ Len(b) \in Nat /\ b[1] \in Nat
    BY <1>1, Ones DEF ReadOne
  <2> QED
    BY <2>1 DEF Decoded
<1>2. CASE to = "gbk"
  <2>1. r = GbkDecode(Table("gbk"), b)
    BY <1>2, DecoderOf DEF ReadOne, NoTable
  <2> QED
    BY <2>1, GbkTakes
<1>3. CASE to \notin NoTable /\ to # "gbk"
  <2>1. Takes(b, r)
    BY <1>3, DecoderTakes DEF ReadOne, Readable
  <2> QED
    BY <2>1 DEF Takes, IsScalar, Error
<1> QED
  BY <1>1, <1>2, <1>3

LEMMA CallIs ==
  ASSUME NEW to, Readable(to), NEW b \in Seq(Byte), NEW n \in Nat, n < Len(b)
  PROVE  /\ Call(to, b, n).used \in Nat /\ Call(to, b, n).used > 0
         /\ n + Call(to, b, n).used <= Len(b)
         /\ Call(to, b, n).code_point \in Int
<1>1. PICK c : c = Rest(b, n)
  OBVIOUS
<1>2. c \in Seq(Byte) /\ Len(c) = Len(b) - n /\ Len(c) >= 1
  BY <1>1, RestIs DEF Rest
<1>3. PICK r : r = ReadOne(to, c)
  OBVIOUS
<1>4. r.used \in 1 .. Len(c) /\ r.code_point \in Int
  BY <1>2, <1>3, ReadOneTakes
<1>5. Len(b) \in Nat
  BY LenProperties
<1> QED
  BY <1>1, <1>2, <1>3, <1>4, <1>5 DEF Call

LEMMA ReadsEarlier ==
  ASSUME NEW to, Readable(to), NEW b \in Seq(Byte), NEW m \in Nat, m < Len(b),
         NEW g, ReadsFrom(to, b, g, m + 1)
  PROVE  \E f : ReadsFrom(to, b, f, m)
<1>1. Len(b) \in Nat /\ m \in 0 .. Len(b)
  BY LenProperties
<1>2. PICK c : c = Call(to, b, m)
  OBVIOUS
<1>3. c.used \in Nat /\ c.used > 0 /\ m + c.used <= Len(b)
  BY <1>2, CallIs
<1>4. PICK x : x = <<c.code_point>> \o g[m + c.used]
  OBVIOUS
<1>5. PICK f : f = [k \in 0 .. Len(b) |-> IF k = m THEN x ELSE g[k]]
  OBVIOUS
<1>6. \A k \in 0 .. Len(b) : f[k] = IF k = m THEN x ELSE g[k]
  BY <1>5
<1>7. f = [k \in 0 .. Len(b) |-> f[k]]
  BY <1>5, <1>6
<1>8. ASSUME NEW k \in 0 .. Len(b), m <= k PROVE f[k] = FromThere(to, b, k, f)
  <2>1. CASE k = m
    <3>1. f[m] = x /\ m # Len(b)
      BY <1>1, <1>6
    <3>2. m + c.used \in 0 .. Len(b) /\ m + c.used # m
      BY <1>1, <1>3
    <3>3. f[m + c.used] = g[m + c.used]
      BY <1>6, <3>2
    <3> QED
      BY <1>2, <1>4, <2>1, <3>1, <3>3 DEF FromThere
  <2>2. CASE k # m
    <3>1. m + 1 <= k
      BY <1>1, <1>8, <2>2
    <3>2. f[k] = g[k] /\ g[k] = FromThere(to, b, k, g)
      BY <1>6, <2>2, <3>1 DEF ReadsFrom
    <3>3. CASE k = Len(b)
      BY <3>2, <3>3 DEF FromThere
    <3>4. CASE k # Len(b)
      <4>1. PICK d : d = Call(to, b, k)
        OBVIOUS
      <4>2. k \in Nat /\ k < Len(b)
        BY <1>1, <3>4
      <4>3. d.used \in Nat /\ d.used > 0 /\ k + d.used <= Len(b)
        BY <4>1, <4>2, CallIs
      <4>4. k + d.used \in 0 .. Len(b) /\ k + d.used # m
        BY <1>1, <3>1, <4>2, <4>3
      <4>5. f[k + d.used] = g[k + d.used]
        BY <1>6, <4>4
      <4> QED
        BY <3>2, <4>1, <4>5 DEF FromThere
    <3> QED
      BY <3>3, <3>4
  <2> QED
    BY <2>1, <2>2
<1> QED
  BY <1>7, <1>8 DEF ReadsFrom

LEMMA ReadsExists ==
  ASSUME NEW to, Readable(to), NEW b \in Seq(Byte)
  PROVE  \E f : ReadsFrom(to, b, f, 0)
<1> DEFINE Bad == {m \in 0 .. Len(b) : ~ \E f : ReadsFrom(to, b, f, m)}
<1>1. Len(b) \in Nat /\ 0 \in 0 .. Len(b)
  BY LenProperties
<1>2. SUFFICES ASSUME Bad # {} PROVE FALSE
  BY <1>1
<1>3. PICK m \in Bad : \A q \in Bad : q <= m
  <2>1. Bad \subseteq 0 .. Len(b)
    OBVIOUS
  <2> HIDE DEF Bad
  <2> QED
    BY <1>1, <1>2, <2>1, LastOfSet
<1>4. m \in Nat /\ m <= Len(b) /\ ~ \E f : ReadsFrom(to, b, f, m)
  BY <1>1
<1>5. m # Len(b)
  <2> DEFINE f == [k \in 0 .. Len(b) |-> <<>>]
  <2>1. f = [k \in 0 .. Len(b) |-> f[k]]
    OBVIOUS
  <2>2. \A k \in 0 .. Len(b) : Len(b) <= k => k = Len(b) /\ f[k] = <<>>
    BY <1>1
  <2>3. ReadsFrom(to, b, f, Len(b))
    <3> HIDE DEF f
    <3> QED
      BY <2>1, <2>2 DEF ReadsFrom, FromThere
  <2> QED
    BY <1>4, <2>3
<1>6. m + 1 \in 0 .. Len(b) /\ ~(m + 1 <= m) /\ m < Len(b)
  BY <1>1, <1>4, <1>5
<1>7. m + 1 \notin Bad
  BY <1>3, <1>6
<1>8. PICK g : ReadsFrom(to, b, g, m + 1)
  BY <1>6, <1>7
<1> QED
  BY <1>4, <1>6, <1>8, ReadsEarlier

LEMMA ReadBackIs ==
  ASSUME NEW to, Readable(to), NEW b \in Seq(Byte)
  PROVE  \E f : ReadsFrom(to, b, f, 0) /\ ReadBack(to, b) = f[0]
<1> DEFINE Equation(g) ==
      g = [n \in 0 .. Len(b) |->
            IF n = Len(b) THEN <<>>
            ELSE LET r == ReadOne(to, SubSeq(b, n + 1, Len(b)))
                 IN  <<r.code_point>> \o g[n + r.used]]
<1>1. PICK f : f = CHOOSE g : Equation(g)
  OBVIOUS
<1>2. PICK h : ReadsFrom(to, b, h, 0)
  BY ReadsExists
<1>3. Equation(h)
  <2>1. h = [n \in 0 .. Len(b) |-> h[n]]
    BY <1>2 DEF ReadsFrom
  <2>2. \A n \in 0 .. Len(b) : 0 <= n
    OBVIOUS
  <2>3. \A n \in 0 .. Len(b) : h[n] =
            IF n = Len(b) THEN <<>>
            ELSE LET r == ReadOne(to, SubSeq(b, n + 1, Len(b)))
                 IN  <<r.code_point>> \o h[n + r.used]
    BY <1>2, <2>2 DEF ReadsFrom, FromThere, Call, Rest
  <2> QED
    BY <2>1, <2>3
<1>4. Equation(f)
  <2> HIDE DEF Equation
  <2> QED
    BY <1>1, <1>3
<1>5. ReadsFrom(to, b, f, 0)
  <2>1. \A n \in 0 .. Len(b) : f[n] =
            IF n = Len(b) THEN <<>>
            ELSE LET r == ReadOne(to, SubSeq(b, n + 1, Len(b)))
                 IN  <<r.code_point>> \o f[n + r.used]
    BY <1>4
  <2>2. f = [n \in 0 .. Len(b) |-> f[n]]
    BY <1>4
  <2> HIDE DEF Equation
  <2> QED
    BY <2>1, <2>2 DEF ReadsFrom, FromThere, Call, Rest
<1>6. ReadBack(to, b) = f[0]
  BY <1>1 DEF ReadBack
<1> QED
  BY <1>5, <1>6

LEMMA ReadsTyped ==
  ASSUME NEW to, Readable(to), NEW b \in Seq(Byte), NEW f, ReadsFrom(to, b, f, 0)
  PROVE  \A n \in 0 .. Len(b) : f[n] \in Seq(Int)
<1> DEFINE Bad == {n \in 0 .. Len(b) : f[n] \notin Seq(Int)}
<1>1. SUFFICES ASSUME Bad # {} PROVE FALSE
  OBVIOUS
<1>2. Len(b) \in Nat
  BY LenProperties
<1>3. PICK n \in Bad : \A q \in Bad : q <= n
  <2>1. Bad \subseteq 0 .. Len(b)
    OBVIOUS
  <2> HIDE DEF Bad
  <2> QED
    BY <1>1, <1>2, <2>1, LastOfSet
<1>4. n \in 0 .. Len(b) /\ f[n] \notin Seq(Int)
  OBVIOUS
<1>5. f[n] = FromThere(to, b, n, f)
  BY <1>4 DEF ReadsFrom
<1>6. n # Len(b)
  <2>1. <<>> \in Seq(Int)
    OBVIOUS
  <2> QED
    BY <1>4, <1>5, <2>1 DEF FromThere
<1>7. PICK c : c = Call(to, b, n)
  OBVIOUS
<1>8. n \in Nat /\ n < Len(b)
  BY <1>2, <1>4, <1>6
<1>9. c.used \in Nat /\ c.used > 0 /\ n + c.used <= Len(b) /\ c.code_point \in Int
  BY <1>7, <1>8, CallIs
<1>10. n + c.used \in 0 .. Len(b) /\ ~(n + c.used <= n)
  BY <1>2, <1>8, <1>9
<1>11. f[n + c.used] \in Seq(Int)
  BY <1>3, <1>10
<1>12. <<c.code_point>> \o f[n + c.used] \in Seq(Int)
  <2>1. <<c.code_point>> \in Seq(Int)
    BY <1>9
  <2> QED
    BY <1>11, <2>1, ConcatProperties
<1> QED
  BY <1>4, <1>5, <1>6, <1>7, <1>12 DEF FromThere

LEMMA ReadBackTyped ==
  ASSUME NEW to, Readable(to), NEW b \in Seq(Byte)
  PROVE  ReadBack(to, b) \in Seq(Int)
<1>1. PICK f : ReadsFrom(to, b, f, 0) /\ ReadBack(to, b) = f[0]
  BY ReadBackIs
<1>2. 0 \in 0 .. Len(b)
  BY LenProperties
<1> QED
  BY <1>1, <1>2, ReadsTyped

LEMMA ReadBackNothing ==
  ASSUME NEW to, Readable(to)
  PROVE  ReadBack(to, <<>>) = <<>>
<1>1. <<>> \in Seq(Byte) /\ Len(<<>>) = 0
  OBVIOUS
<1>2. PICK f : ReadsFrom(to, <<>>, f, 0) /\ ReadBack(to, <<>>) = f[0]
  BY <1>1, ReadBackIs
<1>3. 0 \in 0 .. Len(<<>>) /\ 0 <= 0
  BY <1>1
<1>4. f[0] = FromThere(to, <<>>, 0, f)
  BY <1>2, <1>3 DEF ReadsFrom
<1> QED
  BY <1>1, <1>2, <1>4 DEF FromThere

\* The bytes that are left of those that are left.
LEMMA RestOfRest ==
  ASSUME NEW b \in Seq(Byte), NEW u \in Nat, u <= Len(b), NEW n \in Nat, n < Len(b) - u,
         NEW c, c = Rest(b, u)
  PROVE  Rest(c, n) = Rest(b, u + n)
<1>1. Len(b) \in Nat
  BY LenProperties
<1>2. u < Len(b) /\ u + n \in Nat /\ u + n < Len(b)
  BY <1>1
<1>3. c \in Seq(Byte) /\ Len(c) = Len(b) - u /\ \A k \in 1 .. Len(c) : c[k] = b[u + k]
  BY <1>2, RestIs DEF Rest
<1>4. PICK x : x = Rest(c, n)
  OBVIOUS
<1>5. PICK y : y = Rest(b, u + n)
  OBVIOUS
<1>6. n < Len(c)
  BY <1>3
<1>7. x \in Seq(Byte) /\ Len(x) = Len(c) - n /\ \A k \in 1 .. Len(x) : x[k] = c[n + k]
  BY <1>3, <1>4, <1>6, RestIs DEF Rest
<1>8. y \in Seq(Byte) /\ Len(y) = Len(b) - (u + n) /\ \A k \in 1 .. Len(y) : y[k] = b[(u + n) + k]
  <2>1. PICK v \in Nat : v = u + n
    BY <1>2
  <2>2. y \in Seq(Byte) /\ Len(y) = Len(b) - v /\ \A k \in 1 .. Len(y) : y[k] = b[v + k]
    BY <1>2, <1>5, <2>1, RestIs DEF Rest
  <2> QED
    BY <2>1, <2>2
<1>9. Len(x) = Len(y)
  BY <1>1, <1>3, <1>7, <1>8
<1>10. ASSUME NEW k \in 1 .. Len(x) PROVE x[k] = y[k]
  <2>1. k \in 1 .. Len(y) /\ n + k \in 1 .. Len(c) /\ u + (n + k) = (u + n) + k
    BY <1>1, <1>3, <1>7, <1>9
  <2>2. x[k] = c[n + k] /\ y[k] = b[(u + n) + k]
    BY <1>7, <1>8, <2>1
  <2>3. c[n + k] = b[u + (n + k)]
    BY <1>3, <2>1, SMTT(30)
  <2> QED
    BY <2>1, <2>2, <2>3
<1> QED
  BY <1>4, <1>5, <1>7, <1>8, <1>9, <1>10, SeqEqual

\* Reading what is left is reading on.
LEMMA ReadsOn ==
  ASSUME NEW to, Readable(to), NEW b \in Seq(Byte), NEW u \in Nat, u < Len(b),
         NEW c, c = Rest(b, u),
         NEW f, ReadsFrom(to, b, f, 0), NEW g, ReadsFrom(to, c, g, 0)
  PROVE  g[0] = f[u]
<1>1. Len(b) \in Nat
  BY LenProperties
<1>2. c \in Seq(Byte) /\ Len(c) = Len(b) - u
  BY RestIs DEF Rest
<1> DEFINE Bad == {n \in 0 .. Len(c) : g[n] # f[u + n]}
<1>3. 0 \in 0 .. Len(c) /\ u + 0 = u
  BY <1>1, <1>2
<1>4. SUFFICES ASSUME Bad # {} PROVE FALSE
  BY <1>3
<1>5. PICK n \in Bad : \A q \in Bad : q <= n
  <2>1. Bad \subseteq 0 .. Len(c) /\ Len(c) \in Nat
    BY <1>1, <1>2
  <2> HIDE DEF Bad
  <2> QED
    BY <1>4, <2>1, LastOfSet
<1>6. n \in Nat /\ n \in 0 .. Len(c) /\ u + n \in 0 .. Len(b) /\ g[n] # f[u + n]
  BY <1>1, <1>2
<1>7. g[n] = FromThere(to, c, n, g) /\ f[u + n] = FromThere(to, b, u + n, f)
  <2>1. 0 <= n /\ 0 <= u + n
    BY <1>6
  <2> QED
    BY <1>6, <2>1 DEF ReadsFrom
<1>8. n = Len(c) <=> u + n = Len(b)
  BY <1>1, <1>2, <1>6
<1>9. n # Len(c)
  BY <1>6, <1>7, <1>8 DEF FromThere
<1>10. n < Len(c) /\ n < Len(b) - u
  BY <1>1, <1>2, <1>6, <1>9
<1>11. PICK d : d = Call(to, c, n)
  OBVIOUS
<1>12. d = Call(to, b, u + n)
  <2>1. Rest(c, n) = Rest(b, u + n)
    BY <1>6, <1>10, RestOfRest
  <2> QED
    BY <1>11, <2>1 DEF Call
<1>13. d.used \in Nat /\ d.used > 0 /\ n + d.used <= Len(c)
  BY <1>2, <1>6, <1>10, <1>11, CallIs
<1>14. n + d.used \in 0 .. Len(c) /\ ~(n + d.used <= n) /\ (u + n) + d.used = u + (n + d.used)
  BY <1>1, <1>2, <1>6, <1>13, SMTT(30)
<1>15. g[n + d.used] = f[u + (n + d.used)]
  BY <1>5, <1>14
<1>16. g[n] = <<d.code_point>> \o g[n + d.used]
  BY <1>7, <1>9, <1>11 DEF FromThere
<1>17. f[u + n] = <<d.code_point>> \o f[(u + n) + d.used]
  BY <1>7, <1>8, <1>9, <1>12 DEF FromThere
<1> QED
  BY <1>6, <1>14, <1>15, <1>16, <1>17

\* Bytes that one call of the decoder takes, and what follows them.
LEMMA ReadBackAfter ==
  ASSUME NEW to, Readable(to), NEW s \in Seq(Byte), Len(s) >= 1, NEW rest \in Seq(Byte),
         NEW r, r = ReadOne(to, s \o rest), r.used = Len(s)
  PROVE  ReadBack(to, s \o rest) = <<r.code_point>> \o ReadBack(to, rest)
<1>1. PICK b : b = s \o rest
  OBVIOUS
<1>2. /\ b \in Seq(Byte) /\ Len(b) = Len(s) + Len(rest)
      /\ \A k \in 1 .. Len(s) + Len(rest) : b[k] = IF k <= Len(s) THEN s[k] ELSE rest[k - Len(s)]
  BY <1>1, ConcatProperties
<1>3. Len(s) \in Nat /\ Len(rest) \in Nat /\ Len(b) \in Nat /\ 0 < Len(b)
  BY <1>2, LenProperties
<1>4. PICK f : ReadsFrom(to, b, f, 0) /\ ReadBack(to, b) = f[0]
  BY <1>2, ReadBackIs
<1>5. Call(to, b, 0) = r
  <2>1. Rest(b, 0) = b
    BY <1>2, <1>3, RestIs DEF Rest
  <2> QED
    BY <1>1, <2>1 DEF Call
<1>6. f[0] = <<r.code_point>> \o f[Len(s)]
  <2>1. 0 \in 0 .. Len(b) /\ 0 <= 0 /\ 0 # Len(b) /\ 0 + Len(s) = Len(s)
    BY <1>3
  <2>2. f[0] = FromThere(to, b, 0, f)
    BY <1>4, <2>1 DEF ReadsFrom
  <2> QED
    BY <1>5, <2>1, <2>2 DEF FromThere
<1>7. f[Len(s)] = ReadBack(to, rest)
  <2>1. CASE Len(rest) = 0
    <3>1. rest = <<>> /\ Len(s) = Len(b) /\ Len(s) \in 0 .. Len(b) /\ 0 <= Len(s)
      BY <1>2, <1>3, <2>1, EmptySeq
    <3>2. f[Len(s)] = FromThere(to, b, Len(s), f)
      BY <1>4, <3>1 DEF ReadsFrom
    <3>3. f[Len(s)] = <<>>
      BY <3>1, <3>2 DEF FromThere
    <3> QED
      BY <3>1, <3>3, ReadBackNothing
  <2>2. CASE Len(rest) # 0
    <3>1. Len(s) < Len(b)
      BY <1>2, <1>3, <2>2
    <3>2. PICK c : c = Rest(b, Len(s))
      OBVIOUS
    <3>3. c \in Seq(Byte) /\ Len(c) = Len(b) - Len(s) /\ \A k \in 1 .. Len(c) : c[k] = b[Len(s) + k]
      BY <1>2, <1>3, <3>1, <3>2, RestIs DEF Rest
    <3>4. Len(c) = Len(rest)
      BY <1>2, <1>3, <3>3
    <3>5. ASSUME NEW k \in 1 .. Len(c) PROVE c[k] = rest[k]
      <4>1. Len(s) + k \in 1 .. Len(s) + Len(rest) /\ ~(Len(s) + k <= Len(s)) /\ (Len(s) + k) - Len(s) = k
        BY <1>3, <3>4
      <4> QED
        BY <1>2, <3>3, <4>1
    <3>6. c = rest
      BY <3>3, <3>4, <3>5, SeqEqual
    <3>7. PICK g : ReadsFrom(to, rest, g, 0) /\ ReadBack(to, rest) = g[0]
      BY ReadBackIs
    <3>8. PICK u \in Nat : u = Len(s)
      BY <1>3
    <3>9. u < Len(b) /\ rest = Rest(b, u)
      BY <3>1, <3>2, <3>6, <3>8
    <3>10. g[0] = f[u]
      BY <1>2, <1>4, <3>7, <3>8, <3>9, ReadsOn, SMTT(30)
    <3> QED
      BY <3>7, <3>8, <3>10
  <2> QED
    BY <2>1, <2>2
<1> QED
  BY <1>1, <1>4, <1>6, <1>7

-----------------------------------------------------------------------------
\* Bytes that one call of the decoder takes, whatever follows them, for cp.
IsRead(to, s, cp) ==
  /\ s \in Seq(Byte) /\ Len(s) >= 1
  /\ \A rest \in Seq(Byte) :
       ReadOne(to, s \o rest).code_point = cp /\ ReadOne(to, s \o rest).used = Len(s)

LEMMA ReadNext ==
  ASSUME NEW to, Readable(to), NEW s, NEW cp, IsRead(to, s, cp), NEW rest \in Seq(Byte)
  PROVE  ReadBack(to, s \o rest) = <<cp>> \o ReadBack(to, rest)
<1>1. PICK r : r = ReadOne(to, s \o rest)
  OBVIOUS
<1>2. s \in Seq(Byte) /\ Len(s) >= 1 /\ r.code_point = cp /\ r.used = Len(s)
  BY <1>1 DEF IsRead
<1> QED
  BY <1>1, <1>2, ReadBackAfter

\* An ASCII byte is what it is in every encoding.
LEMMA AsciiIsRead ==
  ASSUME NEW to, Readable(to), NEW x \in Nat, x < 128
  PROVE  IsRead(to, <<x>>, x)
<1>1. <<x>> \in Seq(Byte) /\ Len(<<x>>) = 1
  <2>1. x \in Byte
    BY DEF Byte
  <2> QED
    BY <2>1
<1> SUFFICES ASSUME NEW rest \in Seq(Byte)
             PROVE  ReadOne(to, <<x>> \o rest).code_point = x /\ ReadOne(to, <<x>> \o rest).used = 1
  BY <1>1 DEF IsRead
<1>2. PICK b : b = <<x>> \o rest
  OBVIOUS
<1>3. b[1] = x
  BY <1>2
<1>4. PICK r : r = ReadOne(to, b)
  OBVIOUS
<1>5. to \notin NoTable => r = DecodeOne(to, b)
  BY <1>4 DEF ReadOne
<1>6. r.code_point = x /\ r.used = 1
  <2>1. CASE to = "utf_8"
    BY <1>3, <1>5, <2>1, DecoderOf DEF Utf8Decode, Utf8Result, NoTable
  <2>2. CASE to \in SingleByte
    <3>1. to \notin NoTable
      BY <2>2, JobsAssumption DEF NoTable, Others
    <3> QED
      BY <1>3, <1>5, <2>2, <3>1, DecoderOf DEF SingleByteDecode, Decoded
  <2>3. CASE to = "gbk"
    <3>1. GbkDecode(Table("gbk"), b) = Decoded(x, 1)
      BY <1>3, GbkAscii
    <3> QED
      BY <1>5, <2>3, <3>1, DecoderOf DEF Decoded, NoTable
  <2>4. CASE to = "big5"
    BY <1>3, <1>5, <2>4, DecoderOf DEF Big5Decode, Decoded, NoTable
  <2>5. CASE to = "shift_jis"
    BY <1>3, <1>5, <2>5, DecoderOf DEF ShiftJisDecode, Decoded, NoTable
  <2>6. CASE to = "euc_jp"
    BY <1>3, <1>5, <2>6, DecoderOf DEF EucJpDecode, Decoded, NoTable
  <2>7. CASE to = "euc_kr"
    BY <1>3, <1>5, <2>7, DecoderOf DEF EucKrDecode, Decoded, NoTable
  <2>8. CASE to \in NoTable
    BY <1>3, <1>4, <2>8 DEF ReadOne, Decoded
  <2> QED
    BY <2>1, <2>2, <2>3, <2>4, <2>5, <2>6, <2>7, <2>8 DEF Readable, Others, Legacy, NoTable
<1> QED
  BY <1>2, <1>4, <1>6

\* What a reverse index that is made finds.
LEMMA Found ==
  ASSUME MadeInv, phase # "build", NEW name, NEW size \in Nat, NEW ex, IsTable(name, size, ex),
         NEW cp \in CodePoints, NEW found, found = Find(name, cp)
  PROVE  /\ found \in Int /\ IsFirstPointer(Table(name), ex, cp, found)
         /\ IsIndex(Table(name), size)
<1>1. PICK i \in 1 .. Len(Indexes) : i = Named(name) /\ Indexes[i].name = name
  BY DEF IsTable, Named
<1>2. Table(name) = Indexes[i].table /\ found = made[i][cp] /\ Indexes[i].excluded = ex
  BY <1>1 DEF Table, Find, IsTable
<1>3. i \in 1 .. Len(made)
  BY <1>1 DEF MadeInv
<1>4. IsFirstPointer(Indexes[i].table, Indexes[i].excluded, cp, made[i][cp])
  BY <1>3 DEF MadeInv
<1>5. PICK t : t = Table(name)
  OBVIOUS
<1>6. Reverse(t, ex)!TableAssumption
  BY <1>1, <1>2, <1>5, IndexesAssumption
<1>7. found \in Int
  BY <1>2, <1>4, <1>5, <1>6, FoundIsInt
<1>8. IsIndex(t, size)
  BY <1>5, <1>6 DEF IsIndex, IsTable, Reverse!TableAssumption
<1> QED
  BY <1>2, <1>4, <1>5, <1>7, <1>8

\* What a pointer that is found says, and what it says that none is.
LEMMA FoundSays ==
  ASSUME NEW t, NEW size \in Nat, IsIndex(t, size), NEW cp \in Nat, cp >= 128,
         NEW ex, NEW found \in Int, IsFirstPointer(t, ex, cp, found)
  PROVE  /\ found >= 0 => /\ found \in Nat /\ found < size
                          /\ found \in DOMAIN t /\ t[found] = cp /\ At(t, found) = cp
                          /\ ~Contains(ex, found)
                          /\ \A q \in DOMAIN t : t[q] = cp /\ ~Contains(ex, q) => found <= q
         /\ ~(found >= 0) => \A q \in DOMAIN t : t[q] = cp => Contains(ex, q)
<1>1. CASE PointersOf(t, ex, cp) = {}
  <2>1. found = -1
    BY <1>1 DEF IsFirstPointer
  <2>2. \A q \in DOMAIN t : t[q] = cp => Contains(ex, q)
    BY <1>1 DEF PointersOf
  <2> QED
    BY <2>1, <2>2
<1>2. CASE PointersOf(t, ex, cp) # {}
  <2>1. found \in PointersOf(t, ex, cp) /\ \A q \in PointersOf(t, ex, cp) : found <= q
    BY <1>2 DEF IsFirstPointer
  <2>2. found \in DOMAIN t /\ t[found] = cp /\ ~Contains(ex, found)
    BY <2>1 DEF PointersOf
  <2>3. found \in Nat /\ found < size
    BY <2>2 DEF IsIndex
  <2>4. At(t, found) = cp
    BY <2>2 DEF At
  <2>5. \A q \in DOMAIN t : t[q] = cp /\ ~Contains(ex, q) => found <= q
    BY <2>1 DEF PointersOf
  <2> QED
    BY <2>2, <2>3, <2>4, <2>5
<1> QED
  BY <1>1, <1>2

LEMMA NoneLeftOut == ASSUME NEW q \in Nat PROVE ~Contains(NoPointers, q)
  BY DEF Contains, NoPointers

LEMMA ExpectedIs ==
  ASSUME NEW to, NEW cp
  PROVE  /\ CanEncode(to, cp) /\ ~(to \in {"shift_jis", "euc_jp"} /\ cp \in {165, 8254}) =>
              Expected(to, cp) = cp
         /\ ~CanEncode(to, cp) =>
              Expected(to, cp) = IF to \in {"shift_jis", "euc_jp"} /\ cp = 165 THEN 92
                                 ELSE IF to \in {"shift_jis", "euc_jp"} /\ cp = 8254 THEN 126
                                 ELSE 63
<1>1. CASE CanEncode(to, cp) /\ ~(to \in {"shift_jis", "euc_jp"} /\ cp \in {165, 8254})
  BY <1>1, SMT DEF Expected
<1>2. CASE ~CanEncode(to, cp)
  <2>1. CASE to \in {"shift_jis", "euc_jp"} /\ cp = 165
    BY <1>2, <2>1, SMT DEF Expected
  <2>2. CASE to \in {"shift_jis", "euc_jp"} /\ cp = 8254
    BY <1>2, <2>2, SMT DEF Expected
  <2>3. CASE ~(to \in {"shift_jis", "euc_jp"} /\ cp \in {165, 8254})
    BY <1>2, <2>3, SMT DEF Expected
  <2> QED
    BY <1>2, <2>1, <2>2, <2>3, SMT
<1> QED
  BY <1>1, <1>2, SMT

LEMMA OneIsRead ==
  ASSUME NEW to, to \notin NoTable, NEW x \in Nat, x < 256, NEW cp,
         \A b : b[1] = x => DecodeOne(to, b).code_point = cp /\ DecodeOne(to, b).used = 1
  PROVE  IsRead(to, <<x>>, cp)
<1>1. <<x>> \in Seq(Byte) /\ Len(<<x>>) = 1
  <2>1. x \in Byte
    BY DEF Byte
  <2> QED
    BY <2>1
<1>2. \A b : ReadOne(to, b) = DecodeOne(to, b)
  BY DEF ReadOne
<1>3. ASSUME NEW rest \in Seq(Byte)
      PROVE  ReadOne(to, <<x>> \o rest).code_point = cp /\ ReadOne(to, <<x>> \o rest).used = 1
  <2>1. PICK b : b = <<x>> \o rest
    OBVIOUS
  <2>2. b[1] = x
    BY <2>1
  <2>3. DecodeOne(to, b).code_point = cp /\ DecodeOne(to, b).used = 1
    BY <2>2, Zenon
  <2>4. ReadOne(to, b).code_point = cp /\ ReadOne(to, b).used = 1
    BY <1>2, <2>3
  <2> QED
    BY <2>1, <2>4, Zenon
<1> QED
  BY <1>1, <1>3 DEF IsRead

LEMMA PairIsRead ==
  ASSUME NEW to, to \notin NoTable, NEW x \in Nat, x < 256, NEW y \in Nat, y < 256, NEW cp,
         \A b : BeginsWith2(b, x, y) =>
                  DecodeOne(to, b).code_point = cp /\ DecodeOne(to, b).used = 2
  PROVE  IsRead(to, <<x, y>>, cp)
<1>1. <<x, y>> \in Seq(Byte) /\ Len(<<x, y>>) = 2
  <2>1. x \in Byte /\ y \in Byte
    BY DEF Byte
  <2> QED
    BY <2>1
<1>2. \A b : ReadOne(to, b) = DecodeOne(to, b)
  BY DEF ReadOne
<1>3. ASSUME NEW rest \in Seq(Byte)
      PROVE  ReadOne(to, <<x, y>> \o rest).code_point = cp
             /\ ReadOne(to, <<x, y>> \o rest).used = 2
  <2>1. BeginsWith2(<<x, y>> \o rest, x, y)
    BY TwoBytes
  <2> QED
    BY <1>2, <2>1, Zenon
<1> QED
  BY <1>1, <1>3 DEF IsRead

\* The bytes an encoder returns, or a question mark.
Written(bytes) == IF bytes = NoBytes THEN <<63>> ELSE bytes

LEMMA QuestionMarkIsRead ==
  ASSUME NEW to, Readable(to), NEW cp, Expected(to, cp) = 63
  PROVE  IsRead(to, Written(NoBytes), Expected(to, cp))
<1>1. IsRead(to, <<63>>, 63)
  BY AsciiIsRead
<1> QED
  BY <1>1 DEF Written

LEMMA EucKrWrites ==
  ASSUME MadeInv, phase # "build", NEW cp \in CodePoints, cp \in Nat, cp >= 128
  PROVE  IsRead("euc_kr", Written(EucKrEncode(Find("euc_kr", cp), cp)), Expected("euc_kr", cp))
<1>1. PICK found : found = Find("euc_kr", cp)
  OBVIOUS
<1>2. PICK t : t = Table("euc_kr")
  OBVIOUS
<1>3. found \in Int /\ IsFirstPointer(t, NoPointers, cp, found) /\ IsIndex(t, 23940)
  BY <1>1, <1>2, Found, TablesAssumption
<1>4. Readable("euc_kr")
  BY DEF Readable, Others, Legacy, NoTable
<1>5. CASE found >= 0
  <2>1. found \in Nat /\ found < 23940 /\ found \in DOMAIN t /\ t[found] = cp /\ At(t, found) = cp
    BY <1>3, <1>5, FoundSays
  <2>2. CanEncode("euc_kr", cp)
    BY <1>2, <2>1 DEF CanEncode, Has
  <2>3. PICK x, y \in Nat : EucKrBytes(found) = <<x, y>> /\ EucKrValid(x, y) /\ EucKrPointer(x, y) = found
    BY <2>1, EucKrPairOf
  <2>4. x < 256 /\ y < 256
    BY <2>3 DEF EucKrValid
  <2>5. Written(EucKrEncode(found, cp)) = <<x, y>>
    BY <1>5, <2>3 DEF EucKrEncode, Written, NoBytes
  <2>6. ASSUME NEW b, BeginsWith2(b, x, y)
        PROVE  DecodeOne("euc_kr", b).code_point = cp /\ DecodeOne("euc_kr", b).used = 2
    <3>1. EucKrDecode(t, b) = AtPointer(t, found, 2)
      BY <2>3, <2>6, EucKrPair
    <3> QED
      BY <1>2, <2>1, <3>1, DecoderOf DEF AtPointer, Decoded
  <2>7. IsRead("euc_kr", <<x, y>>, cp)
    BY <2>4, <2>6, PairIsRead DEF NoTable
  <2> QED
    BY <1>1, <2>2, <2>5, <2>7, ExpectedIs
<1>6. CASE ~(found >= 0)
  <2>1. \A q \in DOMAIN t : t[q] # cp
    BY <1>3, <1>6, FoundSays, NoneLeftOut DEF IsIndex
  <2>2. ~CanEncode("euc_kr", cp)
    BY <1>2, <2>1 DEF CanEncode, Has
  <2>3. EucKrEncode(found, cp) = NoBytes
    BY <1>6 DEF EucKrEncode
  <2> QED
    BY <1>1, <1>4, <2>2, <2>3, ExpectedIs, QuestionMarkIsRead
<1> QED
  BY <1>5, <1>6

LEMMA GbkWrites ==
  ASSUME MadeInv, phase # "build", NEW cp \in CodePoints, cp \in Nat, cp >= 128
  PROVE  IsRead("gbk", Written(GbkEncode(Find("gbk", cp), cp)), Expected("gbk", cp))
<1>1. PICK found : found = Find("gbk", cp)
  OBVIOUS
<1>2. PICK t : t = Table("gbk")
  OBVIOUS
<1>3. found \in Int /\ IsFirstPointer(t, NoPointers, cp, found) /\ IsIndex(t, 23940)
  BY <1>1, <1>2, Found, TablesAssumption
<1>4. Readable("gbk")
  BY DEF Readable, Others, Legacy, NoTable
<1>5. CASE cp # 8364 /\ found >= 0
  <2>1. found \in Nat /\ found < 23940 /\ found \in DOMAIN t /\ t[found] = cp /\ At(t, found) = cp
    BY <1>3, <1>5, FoundSays
  <2>2. CanEncode("gbk", cp)
    BY <1>2, <2>1 DEF CanEncode, Has
  <2>3. PICK x, y \in Nat : GbkBytes(found) = <<x, y>> /\ GbkValid(x, y) /\ GbkPointer(x, y) = found
    BY <2>1, GbkPairOf
  <2>4. x < 256 /\ y < 256
    BY <2>3 DEF GbkValid
  <2>5. Written(GbkEncode(found, cp)) = <<x, y>>
    BY <1>5, <2>3 DEF GbkEncode, Written, NoBytes
  <2>6. ASSUME NEW b, BeginsWith2(b, x, y)
        PROVE  DecodeOne("gbk", b).code_point = cp /\ DecodeOne("gbk", b).used = 2
    <3>1. GbkDecode(t, b) = AtPointer(t, found, 2)
      BY <2>3, <2>6, GbkPair
    <3> QED
      BY <1>2, <2>1, <3>1, DecoderOf DEF AtPointer, Decoded
  <2>7. IsRead("gbk", <<x, y>>, cp)
    BY <2>4, <2>6, PairIsRead DEF NoTable
  <2> QED
    BY <1>1, <2>2, <2>5, <2>7, ExpectedIs
<1>6. CASE cp # 8364 /\ ~(found >= 0)
  <2>1. \A q \in DOMAIN t : t[q] # cp
    BY <1>3, <1>6, FoundSays, NoneLeftOut DEF IsIndex
  <2>2. ~CanEncode("gbk", cp)
    BY <1>2, <1>6, <2>1 DEF CanEncode, Has
  <2>3. GbkEncode(found, cp) = NoBytes
    BY <1>6 DEF GbkEncode
  <2> QED
    BY <1>1, <1>4, <2>2, <2>3, ExpectedIs, QuestionMarkIsRead
<1>7. CASE cp = 8364
  <2>1. CanEncode("gbk", cp)
    BY <1>7 DEF CanEncode
  <2>2. Written(GbkEncode(found, cp)) = <<128>>
    BY <1>7 DEF GbkEncode, Written, NoBytes
  <2>3. ASSUME NEW b, b[1] = 128
        PROVE  DecodeOne("gbk", b).code_point = cp /\ DecodeOne("gbk", b).used = 1
    <3>1. GbkDecode(t, b) = Decoded(cp, 1)
      BY <1>7, <2>3, GbkAscii
    <3> QED
      BY <1>2, <3>1, DecoderOf DEF Decoded
  <2>4. IsRead("gbk", <<128>>, cp)
    BY <2>3, OneIsRead, SMT DEF NoTable
  <2> QED
    BY <1>1, <2>1, <2>2, <2>4, ExpectedIs
<1> QED
  BY <1>5, <1>6, <1>7

LEMMA SingleByteWrites ==
  ASSUME MadeInv, phase # "build", NEW cp \in CodePoints, cp \in Nat, cp >= 128,
         NEW to \in SingleByte
  PROVE  IsRead(to, Written(SingleByteEncode(Find(to, cp), cp)), Expected(to, cp))
<1>1. PICK found : found = Find(to, cp)
  OBVIOUS
<1>2. PICK t : t = Table(to)
  OBVIOUS
<1>3. found \in Int /\ IsFirstPointer(t, NoPointers, cp, found) /\ IsIndex(t, 128)
  BY <1>1, <1>2, Found, TablesAssumption
<1>4. Readable(to)
  BY DEF Readable
<1>5. to \notin {"utf_8", "gbk", "big5", "shift_jis", "euc_jp", "euc_kr"} /\ to \notin NoTable
  BY JobsAssumption DEF Others, Legacy, NoTable
<1>6. CASE found >= 0
  <2>1. found \in Nat /\ found < 128 /\ found \in DOMAIN t /\ t[found] = cp /\ At(t, found) = cp
    BY <1>3, <1>6, FoundSays
  <2>2. CanEncode(to, cp)
    BY <1>2, <2>1 DEF CanEncode, Has
  <2>3. PICK x \in Nat : x = 128 + found
    BY <2>1
  <2>4. x < 256 /\ ~(x < 128) /\ x - 128 = found
    BY <2>1, <2>3
  <2>5. Written(SingleByteEncode(found, cp)) = <<x>>
    BY <1>6, <2>3 DEF SingleByteEncode, Written, NoBytes
  <2>6. ASSUME NEW b, b[1] = x
        PROVE  DecodeOne(to, b).code_point = cp /\ DecodeOne(to, b).used = 1
    BY <1>2, <2>1, <2>4, <2>6, DecoderOf DEF SingleByteDecode, AtPointer, Decoded
  <2>7. IsRead(to, <<x>>, cp)
    BY <1>5, <2>4, <2>6, OneIsRead
  <2> QED
    BY <1>1, <1>5, <2>2, <2>5, <2>7, ExpectedIs
<1>7. CASE ~(found >= 0)
  <2>1. \A q \in DOMAIN t : t[q] # cp
    BY <1>3, <1>7, FoundSays, NoneLeftOut DEF IsIndex
  <2>2. ~CanEncode(to, cp)
    BY <1>2, <1>5, <2>1 DEF CanEncode, Has
  <2>3. SingleByteEncode(found, cp) = NoBytes
    BY <1>7 DEF SingleByteEncode
  <2>4. Expected(to, cp) = 63
    BY <1>5, <2>2, ExpectedIs
  <2> QED
    BY <1>1, <1>4, <2>3, <2>4, QuestionMarkIsRead
<1> QED
  BY <1>6, <1>7

LEMMA Utf8Writes ==
  ASSUME NEW cp, IsScalar(cp), NEW s, s = Utf8Encode(cp)
  PROVE  IsRead("utf_8", Written(s), Expected("utf_8", cp))
<1>1. cp \in Nat /\ cp <= 1114111 /\ ~IsSurrogate(cp)
  BY DEF IsScalar
<1>2. s \in Seq(Byte) /\ Len(s) >= 1
  <2>1. CASE cp < 128
    <3>1. s = <<cp>> /\ cp \in Byte
      BY <1>1, <2>1 DEF Utf8Encode, Byte
    <3> QED
      BY <3>1
  <2>2. CASE cp >= 128 /\ cp < 2048
    <3>1. PICK x, y \in Int : x = 192 + (cp \div 64) /\ y = Continuation(cp)
      BY <1>1 DEF Continuation
    <3>2. x \in Byte /\ y \in Byte
      BY <1>1, <2>2, <3>1 DEF Byte, Continuation
    <3>3. s = <<x, y>>
      BY <2>2, <3>1, <1>1 DEF Utf8Encode
    <3> QED
      BY <3>2, <3>3
  <2>3. CASE cp >= 2048 /\ cp < 65536
    <3>1. PICK x, y, z \in Int :
            x = 224 + (cp \div 4096) /\ y = Continuation(cp \div 64) /\ z = Continuation(cp)
      BY <1>1 DEF Continuation
    <3>2. x \in Byte /\ y \in Byte /\ z \in Byte
      BY <1>1, <2>3, <3>1 DEF Byte, Continuation
    <3>3. s = <<x, y, z>>
      BY <2>3, <3>1, <1>1 DEF Utf8Encode
    <3> QED
      BY <3>2, <3>3
  <2>4. CASE cp >= 65536
    <3>1. PICK x, y, z, w \in Int :
            /\ x = 240 + (cp \div 262144) /\ y = Continuation(cp \div 4096)
            /\ z = Continuation(cp \div 64) /\ w = Continuation(cp)
      BY <1>1 DEF Continuation
    <3>2. x \in Byte /\ y \in Byte /\ z \in Byte /\ w \in Byte
      BY <1>1, <2>4, <3>1 DEF Byte, Continuation
    <3>3. s = <<x, y, z, w>>
      BY <2>4, <3>1, <1>1 DEF Utf8Encode
    <3> QED
      BY <3>2, <3>3
  <2> QED
    BY <1>1, <2>1, <2>2, <2>3, <2>4
<1>3. Written(s) = s
  BY <1>2 DEF Written, NoBytes
<1>4. Expected("utf_8", cp) = cp
  BY ExpectedIs DEF CanEncode
<1>5. ASSUME NEW rest \in Seq(Byte)
      PROVE  /\ ReadOne("utf_8", s \o rest).code_point = cp
             /\ ReadOne("utf_8", s \o rest).used = Len(s)
  <2>1. Utf8Decode(s \o rest) = Utf8Result(cp, Len(s))
    BY <1>1, Utf8RoundTrip
  <2> QED
    BY <2>1, DecoderOf DEF Utf8Result, ReadOne, NoTable
<1> QED
  BY <1>2, <1>3, <1>4, <1>5 DEF IsRead

LEMMA Big5Writes ==
  ASSUME MadeInv, phase # "build", NEW cp \in CodePoints, cp \in Nat, cp >= 128
  PROVE  IsRead("big5", Written(Big5Encode(Table("big5"), Find("big5", cp), cp)), Expected("big5", cp))
<1>1. PICK found : found = Find("big5", cp)
  OBVIOUS
<1>2. PICK t : t = Table("big5")
  OBVIOUS
<1>3. found \in Int /\ IsFirstPointer(t, Big5Excluded, cp, found) /\ IsIndex(t, 19782)
  BY <1>1, <1>2, Found, TablesAssumption
<1>4. Readable("big5") /\ "big5" \notin SingleByte
  BY JobsAssumption DEF Readable, Others, Legacy, NoTable
<1>5. CASE found >= 0
  <2>1. found \in DOMAIN t /\ t[found] = cp /\ found \in Nat /\ ~Contains(Big5Excluded, found)
    BY <1>3, <1>5, FoundSays
  <2>2. found >= 5024
    BY <2>1 DEF Contains, Big5Excluded
  <2>3. CanEncode("big5", cp)
    BY <1>2, <2>1, <2>2 DEF CanEncode
  <2>4. PICK ptr : ptr = Big5Pointer(t, found, cp)
    OBVIOUS
  <2>5. ptr \in DOMAIN t /\ t[ptr] = cp /\ ptr \in Nat /\ ptr >= 5024 /\ ptr < 19782
    BY <1>3, <1>5, <2>4, Big5PointerHas, Big5Candidate
  <2>6. PICK x, y \in Nat : Big5Bytes(ptr) = <<x, y>> /\ Big5Valid(x, y) /\ Big5PointerAt(x, y) = ptr
    BY <2>5, Big5PairOf
  <2>7. x < 256 /\ y < 256
    BY <2>6 DEF Big5Valid, Big5Trail
  <2>8. Written(Big5Encode(t, found, cp)) = <<x, y>>
    BY <2>4, <2>5, <2>6 DEF Big5Encode, Written, NoBytes
  <2>9. At(t, ptr) = cp /\ ptr \notin DOMAIN TwoCodePoints
    BY <2>5 DEF At, TwoCodePoints
  <2>10. ASSUME NEW b, BeginsWith2(b, x, y)
         PROVE  DecodeOne("big5", b).code_point = cp /\ DecodeOne("big5", b).used = 2
    <3>1. Big5Decode(t, b) = Big5Pair(t, ptr, y)
      BY <2>6, <2>10, Big5PairAt
    <3> QED
      BY <1>2, <2>9, <3>1, DecoderOf DEF Big5Pair, Decoded
  <2>11. IsRead("big5", <<x, y>>, cp)
    BY <2>7, <2>10, PairIsRead DEF NoTable
  <2> QED
    BY <1>1, <1>2, <2>3, <2>8, <2>11, ExpectedIs
<1>6. CASE ~(found >= 0)
  <2>1. \A q \in DOMAIN t : t[q] = cp => ~(q >= 5024)
    BY <1>3, <1>6, FoundSays DEF IsIndex, Contains, Big5Excluded
  <2>2. ~CanEncode("big5", cp)
    BY <1>2, <1>4, <2>1 DEF CanEncode
  <2>3. Big5Encode(t, found, cp) = NoBytes
    <3>1. Big5Candidates(t, cp) = {}
      BY <2>1 DEF Big5Candidates
    <3>2. ~(Big5Pointer(t, found, cp) >= 0)
      BY <1>6, <3>1 DEF Big5Pointer, Big5LastPointer
    <3> QED
      BY <3>2 DEF Big5Encode
  <2>4. Expected("big5", cp) = 63
    BY <2>2, ExpectedIs
  <2> QED
    BY <1>1, <1>2, <1>4, <2>3, <2>4, QuestionMarkIsRead
<1> QED
  BY <1>5, <1>6

\* The two ASCII code points that bytes of the Japanese encodings stand for.
LEMMA JapaneseAscii ==
  ASSUME NEW to \in {"shift_jis", "euc_jp"}, NEW cp \in {165, 8254}, NEW x,
         x = IF cp = 165 THEN 92 ELSE 126
  PROVE  IsRead(to, Written(<<x>>), Expected(to, cp))
<1>1. Readable(to) /\ to \notin SingleByte
  BY JobsAssumption DEF Readable, Others, Legacy, NoTable
<1>2. ~(cp < 128) /\ cp \notin Halfwidth
  BY DEF Halfwidth
<1>3. /\ \A q \in DOMAIN Table("jis0208") : Table("jis0208")[q] # cp
      /\ \A q \in DOMAIN Table("jis0212") : Table("jis0212")[q] # cp
  BY TablesAssumption
<1>4. ~CanEncode(to, cp)
  BY <1>1, <1>2, <1>3 DEF CanEncode, Has
<1>5. Expected(to, cp) = x
  BY <1>4, ExpectedIs
<1>6. IsRead(to, <<x>>, x)
  BY <1>1, AsciiIsRead
<1> QED
  BY <1>5, <1>6 DEF Written, NoBytes

LEMMA HalfwidthByte ==
  ASSUME NEW cp \in Halfwidth
  PROVE  \E y \in Nat : y = 161 + (cp - 65377) /\ y >= 161 /\ y <= 223 /\ 65377 + (y - 161) = cp
<1>1. cp \in Nat /\ cp >= 65377 /\ cp <= 65439
  BY DEF Halfwidth
<1>2. PICK y \in Nat : y = 161 + (cp - 65377)
  BY <1>1
<1>3. y >= 161 /\ y <= 223 /\ 65377 + (y - 161) = cp
  BY <1>1, <1>2
<1> QED
  BY <1>2, <1>3

\* What the encoder leaves out of index jis0208.
ShiftJisExcluded == [first |-> 8272, last |-> 8835]

LEMMA ShiftJisWrites ==
  ASSUME MadeInv, phase # "build", NEW cp \in CodePoints, cp \in Nat, cp >= 128
  PROVE  IsRead("shift_jis", Written(ShiftJisEncode(Find("shift_jis", cp), cp)),
                Expected("shift_jis", cp))
<1>1. PICK found : found = Find("shift_jis", cp)
  OBVIOUS
<1>2. PICK t : t = Table("jis0208")
  OBVIOUS
<1>3. PICK ex : ex = ShiftJisExcluded
  OBVIOUS
<1>4. found \in Int /\ IsFirstPointer(t, ex, cp, found) /\ IsIndex(t, 11280)
  <2>1. IsTable("shift_jis", 11280, ex) /\ t = Table("shift_jis")
    BY <1>2, <1>3, TablesAssumption DEF ShiftJisExcluded
  <2> QED
    BY <1>1, <2>1, Found
<1>5. Readable("shift_jis") /\ "shift_jis" \notin SingleByte
  BY JobsAssumption DEF Readable, Others, Legacy, NoTable
<1>6. \A q \in Nat : Contains(ex, q) <=> q \in 8272 .. 8835
  BY <1>3 DEF Contains, ShiftJisExcluded
<1>7. CASE cp \in {165, 8254}
  <2>1. PICK x : x = IF cp = 165 THEN 92 ELSE 126
    OBVIOUS
  <2>2. ShiftJisEncode(found, cp) = <<x>>
    BY <1>7, <2>1 DEF ShiftJisEncode
  <2>3. IsRead("shift_jis", Written(<<x>>), Expected("shift_jis", cp))
    BY <1>7, <2>1, JapaneseAscii
  <2> QED
    BY <1>1, <2>2, <2>3
<1>8. CASE cp \notin {165, 8254} /\ cp \in Halfwidth
  <2>1. PICK y \in Nat : y = 161 + (cp - 65377) /\ y >= 161 /\ y <= 223 /\ 65377 + (y - 161) = cp
    BY <1>8, HalfwidthByte
  <2>2. ShiftJisEncode(found, cp) = <<y>>
    BY <1>8, <2>1 DEF ShiftJisEncode
  <2>3. ASSUME NEW b, b[1] = y
        PROVE  DecodeOne("shift_jis", b).code_point = cp /\ DecodeOne("shift_jis", b).used = 1
    <3>1. ShiftJisDecode(t, b) = Decoded(cp, 1)
      BY <2>1, <2>3 DEF ShiftJisDecode
    <3> QED
      BY <1>2, <3>1, DecoderOf DEF Decoded
  <2>4. IsRead("shift_jis", <<y>>, cp)
    BY <2>1, <2>3, OneIsRead DEF NoTable
  <2>5. Expected("shift_jis", cp) = cp
    <3>1. CanEncode("shift_jis", cp)
      BY <1>8 DEF CanEncode
    <3> QED
      BY <1>8, <3>1, ExpectedIs
  <2> QED
    BY <1>1, <2>2, <2>4, <2>5 DEF Written, NoBytes
<1>9. CASE cp \notin {165, 8254} \cup Halfwidth /\ found >= 0
  <2>1. /\ found \in Nat /\ found < 11280 /\ found \in DOMAIN t /\ t[found] = cp
        /\ At(t, found) = cp /\ ~Contains(ex, found)
    BY <1>4, <1>9, FoundSays
  <2>2. CanEncode("shift_jis", cp)
    BY <1>2, <1>6, <2>1, SMTT(30) DEF CanEncode
  <2>3. PICK x, y \in Nat : /\ ShiftJisBytes(found) = <<x, y>> /\ ShiftJisValid(x, y)
                            /\ ShiftJisPointer(x, y) = found
    BY <2>1, ShiftJisPairOf
  <2>4. x < 256 /\ y < 256
    BY <2>3 DEF ShiftJisValid
  <2>5. ShiftJisEncode(found, cp) = <<x, y>>
    BY <1>9, <2>3 DEF ShiftJisEncode
  <2>6. ASSUME NEW b, BeginsWith2(b, x, y)
        PROVE  DecodeOne("shift_jis", b).code_point = cp /\ DecodeOne("shift_jis", b).used = 2
    <3>1. ShiftJisDecode(t, b) = AtPointer(t, found, 2)
      BY <2>3, <2>6, ShiftJisPair
    <3> QED
      BY <1>2, <2>1, <3>1, DecoderOf DEF AtPointer, Decoded
  <2>7. IsRead("shift_jis", <<x, y>>, cp)
    BY <2>4, <2>6, PairIsRead DEF NoTable
  <2>8. Expected("shift_jis", cp) = cp
    BY <1>9, <2>2, ExpectedIs
  <2> QED
    BY <1>1, <2>5, <2>7, <2>8 DEF Written, NoBytes
<1>10. CASE cp \notin {165, 8254} \cup Halfwidth /\ ~(found >= 0)
  <2>1. \A q \in DOMAIN t : t[q] = cp => q \in 8272 .. 8835
    <3>1. \A q \in DOMAIN t : t[q] = cp => Contains(ex, q)
      BY <1>4, <1>10, FoundSays
    <3>2. \A q \in DOMAIN t : q \in Nat
      BY <1>4 DEF IsIndex
    <3> QED
      BY <1>6, <3>1, <3>2, SMTT(30)
  <2>2. ~CanEncode("shift_jis", cp)
    BY <1>2, <1>5, <1>10, <2>1 DEF CanEncode
  <2>3. ShiftJisEncode(found, cp) = NoBytes
    BY <1>10 DEF ShiftJisEncode
  <2>4. Expected("shift_jis", cp) = 63
    BY <1>10, <2>2, ExpectedIs
  <2> QED
    BY <1>1, <1>5, <2>3, <2>4, QuestionMarkIsRead
<1> QED
  BY <1>7, <1>8, <1>9, <1>10

\* A first pointer of index jis0208 is one that two bytes of EUC-JP reach.
LEMMA ReachedBy94 ==
  ASSUME NEW t, t = Table("jis0208"), IsIndex(t, 11280), NEW cp \in Nat, cp >= 128,
         NEW found \in Int, IsFirstPointer(t, NoPointers, cp, found), found >= 0
  PROVE  found < 8836
<1>1. /\ found \in DOMAIN t /\ t[found] = cp
      /\ \A q \in DOMAIN t : t[q] = cp /\ ~Contains(NoPointers, q) => found <= q
  BY FoundSays
<1>2. PICK r \in DOMAIN t : r < 8836 /\ t[r] = t[found]
  BY <1>1, TablesAssumption
<1>3. r \in Nat
  BY <1>2 DEF IsIndex
<1>4. found <= r
  BY <1>1, <1>2, <1>3, NoneLeftOut
<1> QED
  BY <1>2, <1>3, <1>4

LEMMA ThreeOf ==
  ASSUME NEW x \in Nat, NEW y \in Nat, NEW z \in Nat
  PROVE  <<x>> \o <<y, z>> = <<x, y, z>>
<1>1. PICK s : s = <<x>> \o <<y, z>>
  OBVIOUS
<1>2. PICK t : t = <<x, y, z>>
  OBVIOUS
<1>3. s \in Seq(Nat) /\ Len(s) = 3 /\ s[1] = x /\ s[2] = y /\ s[3] = z
  BY <1>1
<1>4. t \in Seq(Nat) /\ Len(t) = 3 /\ t[1] = x /\ t[2] = y /\ t[3] = z
  BY <1>2
<1>5. \A k \in 1 .. Len(s) : k = 1 \/ k = 2 \/ k = 3
  BY <1>3
<1>6. \A k \in 1 .. Len(s) : s[k] = t[k]
  BY <1>3, <1>4, <1>5
<1> QED
  BY <1>1, <1>2, <1>3, <1>4, <1>6, SeqEqual

LEMMA TripleIsRead ==
  ASSUME NEW x \in Nat, NEW y \in Nat, Valid94(x, y), NEW cp,
         AtPointer(Table("jis0212"), Pointer94(x, y), 3) = Decoded(cp, 3)
  PROVE  IsRead("euc_jp", <<143, x, y>>, cp)
<1>1. <<143, x, y>> \in Seq(Byte) /\ Len(<<143, x, y>>) = 3
  <2>1. x \in Byte /\ y \in Byte /\ 143 \in Byte
    BY DEF Byte, Valid94
  <2> QED
    BY <2>1
<1>2. ASSUME NEW rest \in Seq(Byte)
      PROVE  /\ ReadOne("euc_jp", <<143, x, y>> \o rest).code_point = cp
             /\ ReadOne("euc_jp", <<143, x, y>> \o rest).used = 3
  <2>1. PICK b : b = <<143, x, y>> \o rest
    OBVIOUS
  <2>2. Len(b) \in Nat /\ Len(b) >= 3 /\ b[1] = 143 /\ b[2] = x /\ b[3] = y
    <3>1. Len(rest) \in Nat /\ Len(b) = 3 + Len(rest)
      BY <2>1
    <3> QED
      BY <2>1, <3>1
  <2>3. BeginsWith2(b, 143, x)
    BY <2>2 DEF BeginsWith2
  <2>4. EucJpDecode(Table("jis0208"), Table("jis0212"), b) = Decoded(cp, 3)
    BY <2>2, <2>3, EucJpTriple
  <2>5. ReadOne("euc_jp", b) = Decoded(cp, 3)
    BY <2>4, DecoderOf DEF ReadOne, NoTable
  <2> QED
    BY <2>1, <2>5, SMTT(30) DEF Decoded
<1> QED
  BY <1>1, <1>2 DEF IsRead

LEMMA EucJpWrites ==
  ASSUME MadeInv, phase # "build", NEW cp \in CodePoints, cp \in Nat, cp >= 128
  PROVE  IsRead("euc_jp", Written(EucJpEncode(Find("jis0208", cp), Find("jis0212", cp), cp)),
                Expected("euc_jp", cp))
<1>1. PICK ptr, q : ptr = Find("jis0208", cp) /\ q = Find("jis0212", cp)
  OBVIOUS
<1>2. PICK t, u : t = Table("jis0208") /\ u = Table("jis0212")
  OBVIOUS
<1>3. ptr \in Int /\ IsFirstPointer(t, NoPointers, cp, ptr) /\ IsIndex(t, 11280)
  BY <1>1, <1>2, Found, TablesAssumption
<1>4. q \in Int /\ IsFirstPointer(u, NoPointers, cp, q) /\ IsIndex(u, 8836)
  BY <1>1, <1>2, Found, TablesAssumption
<1>5. Readable("euc_jp") /\ "euc_jp" \notin SingleByte
  BY JobsAssumption DEF Readable, Others, Legacy, NoTable
<1>6. CASE cp \in {165, 8254}
  <2>1. PICK x : x = IF cp = 165 THEN 92 ELSE 126
    OBVIOUS
  <2>2. EucJpEncode(ptr, q, cp) = <<x>>
    BY <1>6, <2>1 DEF EucJpEncode
  <2>3. IsRead("euc_jp", Written(<<x>>), Expected("euc_jp", cp))
    BY <1>6, <2>1, JapaneseAscii
  <2> QED
    BY <1>1, <2>2, <2>3
<1>7. CASE cp \notin {165, 8254} /\ cp \in Halfwidth
  <2>1. PICK y \in Nat : y = 161 + (cp - 65377) /\ y >= 161 /\ y <= 223 /\ 65377 + (y - 161) = cp
    BY <1>7, HalfwidthByte
  <2>2. EucJpEncode(ptr, q, cp) = <<142, y>>
    BY <1>7, <2>1 DEF EucJpEncode
  <2>3. ASSUME NEW b, BeginsWith2(b, 142, y)
        PROVE  DecodeOne("euc_jp", b).code_point = cp /\ DecodeOne("euc_jp", b).used = 2
    <3>1. EucJpDecode(t, u, b) = Decoded(cp, 2)
      BY <2>1, <2>3 DEF EucJpDecode, BeginsWith2
    <3> QED
      BY <1>2, <3>1, DecoderOf DEF Decoded
  <2>4. IsRead("euc_jp", <<142, y>>, cp)
    <3>1. PICK x \in Nat : x = 142
      BY SMT
    <3> QED
      BY <2>1, <2>3, <3>1, PairIsRead, SMT DEF NoTable
  <2>5. Expected("euc_jp", cp) = cp
    <3>1. CanEncode("euc_jp", cp)
      BY <1>7 DEF CanEncode
    <3> QED
      BY <1>7, <3>1, ExpectedIs
  <2> QED
    BY <1>1, <2>2, <2>4, <2>5 DEF Written, NoBytes
<1>8. CASE cp \notin {165, 8254} \cup Halfwidth /\ ptr >= 0
  <2>1. ptr \in Nat /\ ptr \in DOMAIN t /\ t[ptr] = cp /\ At(t, ptr) = cp /\ ptr < 8836
    BY <1>2, <1>3, <1>8, FoundSays, ReachedBy94
  <2>2. CanEncode("euc_jp", cp)
    BY <1>2, <2>1 DEF CanEncode, Has
  <2>3. PICK x, y \in Nat : Bytes94(ptr) = <<x, y>> /\ Valid94(x, y) /\ Pointer94(x, y) = ptr
    BY <2>1, PairOf94
  <2>4. x < 256 /\ y < 256
    BY <2>3 DEF Valid94
  <2>5. EucJpEncode(ptr, q, cp) = <<x, y>>
    BY <1>8, <2>3 DEF EucJpEncode
  <2>6. ASSUME NEW b, BeginsWith2(b, x, y)
        PROVE  DecodeOne("euc_jp", b).code_point = cp /\ DecodeOne("euc_jp", b).used = 2
    <3>1. EucJpDecode(t, u, b) = AtPointer(t, ptr, 2)
      BY <2>3, <2>6, EucJpPair
    <3> QED
      BY <1>2, <2>1, <3>1, DecoderOf DEF AtPointer, Decoded
  <2>7. IsRead("euc_jp", <<x, y>>, cp)
    BY <2>4, <2>6, PairIsRead DEF NoTable
  <2>8. Expected("euc_jp", cp) = cp
    BY <1>8, <2>2, ExpectedIs
  <2> QED
    BY <1>1, <2>5, <2>7, <2>8 DEF Written, NoBytes
<1>9. CASE cp \notin {165, 8254} \cup Halfwidth /\ ~(ptr >= 0) /\ q >= 0
  <2>1. q \in Nat /\ q \in DOMAIN u /\ u[q] = cp /\ At(u, q) = cp /\ q < 8836
    BY <1>4, <1>9, FoundSays
  <2>2. CanEncode("euc_jp", cp)
    BY <1>2, <2>1 DEF CanEncode, Has
  <2>3. PICK x, y \in Nat : Bytes94(q) = <<x, y>> /\ Valid94(x, y) /\ Pointer94(x, y) = q
    BY <2>1, PairOf94
  <2>4. EucJpEncode(ptr, q, cp) = <<143>> \o <<x, y>>
    BY <1>9, <2>3 DEF EucJpEncode
  <2>5. <<143>> \o <<x, y>> = <<143, x, y>>
    <3>1. PICK z \in Nat : z = 143
      BY SMT
    <3> QED
      BY <3>1, ThreeOf, SMT
  <2>6. AtPointer(u, Pointer94(x, y), 3) = Decoded(cp, 3)
    BY <2>1, <2>3 DEF AtPointer
  <2>7. IsRead("euc_jp", <<143, x, y>>, cp)
    BY <1>2, <2>3, <2>6, TripleIsRead
  <2>8. Expected("euc_jp", cp) = cp
    BY <1>9, <2>2, ExpectedIs
  <2> QED
    BY <1>1, <2>4, <2>5, <2>7, <2>8 DEF Written, NoBytes
<1>10. CASE cp \notin {165, 8254} \cup Halfwidth /\ ~(ptr >= 0) /\ ~(q >= 0)
  <2>1. /\ \A r \in DOMAIN t : t[r] # cp
        /\ \A r \in DOMAIN u : u[r] # cp
    <3>1. \A r \in DOMAIN t : t[r] # cp
      BY <1>3, <1>10, FoundSays, NoneLeftOut DEF IsIndex
    <3>2. \A r \in DOMAIN u : u[r] # cp
      BY <1>4, <1>10, FoundSays, NoneLeftOut DEF IsIndex
    <3> QED
      BY <3>1, <3>2
  <2>2. ~CanEncode("euc_jp", cp)
    BY <1>2, <1>5, <1>10, <2>1 DEF CanEncode, Has
  <2>3. EucJpEncode(ptr, q, cp) = NoBytes
    BY <1>10 DEF EucJpEncode
  <2>4. Expected("euc_jp", cp) = 63
    BY <1>10, <2>2, ExpectedIs
  <2> QED
    BY <1>1, <1>5, <2>3, <2>4, QuestionMarkIsRead
<1> QED
  BY <1>6, <1>7, <1>8, <1>9, <1>10

LEMMA EncoderOf ==
  ASSUME Readable(job.to), NEW cp
  PROVE  /\ job.to = "utf_8"     => EncodeOne(cp) = Utf8Encode(cp)
         /\ job.to \in SingleByte => EncodeOne(cp) = SingleByteEncode(Find(job.to, cp), cp)
         /\ job.to = "gbk"       => EncodeOne(cp) = GbkEncode(Find("gbk", cp), cp)
         /\ job.to = "big5"      => EncodeOne(cp) = Big5Encode(Table("big5"), Find("big5", cp), cp)
         /\ job.to = "shift_jis" => EncodeOne(cp) = ShiftJisEncode(Find("shift_jis", cp), cp)
         /\ job.to = "euc_jp"    =>
              EncodeOne(cp) = EucJpEncode(Find("jis0208", cp), Find("jis0212", cp), cp)
         /\ job.to = "euc_kr"    => EncodeOne(cp) = EucKrEncode(Find("euc_kr", cp), cp)
         /\ job.to \in NoTable   => EncodeOne(cp) = SingleByteEncode(-1, cp)
<1>1. /\ \A name \in NoTable : name \notin SingleByte
      /\ "utf_8" \notin SingleByte /\ "gbk" \notin SingleByte /\ "big5" \notin SingleByte
      /\ "shift_jis" \notin SingleByte /\ "euc_jp" \notin SingleByte /\ "euc_kr" \notin SingleByte
  BY JobsAssumption DEF Others, Legacy, NoTable
<1>2. CASE job.to = "utf_8"
  BY <1>1, <1>2 DEF EncodeOne, NoTable
<1>3. CASE job.to \in SingleByte
  BY <1>1, <1>3 DEF EncodeOne, NoTable
<1>4. CASE job.to = "gbk"
  BY <1>1, <1>4 DEF EncodeOne, NoTable
<1>5. CASE job.to = "big5"
  BY <1>1, <1>5 DEF EncodeOne, NoTable
<1>6. CASE job.to = "shift_jis"
  BY <1>1, <1>6 DEF EncodeOne, NoTable
<1>7. CASE job.to = "euc_jp"
  BY <1>1, <1>7 DEF EncodeOne, NoTable
<1>8. CASE job.to = "euc_kr"
  BY <1>1, <1>8 DEF EncodeOne, NoTable
<1>9. CASE job.to \in NoTable
  BY <1>1, <1>9 DEF EncodeOne, NoTable
<1> QED
  BY <1>2, <1>3, <1>4, <1>5, <1>6, <1>7, <1>8, <1>9 DEF Readable, Others, Legacy, NoTable

LEMMA EncodesAscii ==
  ASSUME Readable(job.to), NEW cp \in Nat, cp < 128
  PROVE  IsRead(job.to, Written(EncodeOne(cp)), Expected(job.to, cp))
<1>1. EncodeOne(cp) = <<cp>>
  BY EncoderOf DEF Readable, Others, Legacy, NoTable, Utf8Encode, SingleByteEncode, GbkEncode, Big5Encode,
                   ShiftJisEncode, EucJpEncode, EucKrEncode
<1>2. Expected(job.to, cp) = cp
  <2>1. CanEncode(job.to, cp) /\ cp \notin {165, 8254}
    BY DEF CanEncode
  <2> QED
    BY <2>1, ExpectedIs
<1>3. IsRead(job.to, <<cp>>, cp)
  BY AsciiIsRead
<1> QED
  BY <1>1, <1>2, <1>3 DEF Written, NoBytes

\* What is written for a code point is read back as what is expected of it.
LEMMA EncodesAsExpected ==
  ASSUME MadeInv, phase # "build", Readable(job.to), NEW cp, IsScalar(cp),
         job.to # "utf_8" => cp \in CodePoints
  PROVE  IsRead(job.to, Written(EncodeOne(cp)), Expected(job.to, cp))
<1>1. cp \in Nat
  BY DEF IsScalar
<1>2. CASE cp < 128
  BY <1>1, <1>2, EncodesAscii
<1>3. CASE cp >= 128 /\ job.to = "utf_8"
  BY <1>3, EncoderOf, Utf8Writes
<1>4. CASE cp >= 128 /\ job.to # "utf_8"
  <2>1. CASE job.to \in SingleByte
    BY <1>1, <1>4, <2>1, EncoderOf, SingleByteWrites
  <2>2. CASE job.to = "gbk"
    BY <1>1, <1>4, <2>2, EncoderOf, GbkWrites
  <2>3. CASE job.to = "big5"
    BY <1>1, <1>4, <2>3, EncoderOf, Big5Writes
  <2>4. CASE job.to = "shift_jis"
    BY <1>1, <1>4, <2>4, EncoderOf, ShiftJisWrites
  <2>5. CASE job.to = "euc_jp"
    BY <1>1, <1>4, <2>5, EncoderOf, EucJpWrites
  <2>6. CASE job.to = "euc_kr"
    BY <1>1, <1>4, <2>6, EncoderOf, EucKrWrites
  <2>7. CASE job.to \in NoTable
    <3>1. EncodeOne(cp) = NoBytes
      BY <1>1, <1>4, <2>7, EncoderOf DEF SingleByteEncode
    <3>2. job.to \notin SingleByte
      BY <2>7, JobsAssumption DEF NoTable, Others
    <3>3. ~CanEncode(job.to, cp)
      BY <1>1, <1>4, <2>7, <3>2 DEF CanEncode, NoTable
    <3>4. Expected(job.to, cp) = 63
      BY <2>7, <3>3, ExpectedIs DEF NoTable
    <3> QED
      BY <3>1, <3>4, QuestionMarkIsRead
  <2> QED
    BY <1>4, <2>1, <2>2, <2>3, <2>4, <2>5, <2>6, <2>7 DEF Readable, Others, Legacy, NoTable
<1> QED
  BY <1>1, <1>2, <1>3, <1>4

-----------------------------------------------------------------------------
\* The code points of a text that is encoded with an index are among those that
\* the reverse indexes were made for.
KnownInv ==
  phase \in {"decode", "done"} /\ job.to # "utf_8" =>
    pending \in CodePoints /\ \A i \in 1 .. Len(text) : text[i] \in CodePoints

LEMMA SomeAreKnown ==
  /\ 0 \in CodePoints /\ Replacement \in CodePoints
  /\ \A x \in Byte : x \in CodePoints
<1>1. 0 \in 0 .. 255
  OBVIOUS
<1>2. Byte \subseteq CodePoints /\ Replacement \in CodePoints
  BY CodePointsAssumption DEF Byte
<1> QED
  BY <1>1, <1>2 DEF Byte

LEMMA KnownCall ==
  ASSUME job \in Jobs, job.to # "utf_8", NEW n \in Nat, n < Len(job.src),
         NEW r, r = DecodeOne(job.from, Unread(n))
  PROVE  /\ r.code_point \in CodePoints \cup {Error}
         /\ job.from = "big5" => r.code_point2 \in CodePoints
<1>1. Len(job.src) \in Nat
  BY JobIs
<1>2. n \in 0 .. (Len(job.src) - 1)
  BY <1>1
<1>3. \A m \in 0 .. (Len(job.src) - 1) :
        /\ DecodeOne(job.from, SubSeq(job.src, m + 1, Len(job.src))).code_point
             \in CodePoints \cup {Error}
        /\ job.from = "big5" =>
             DecodeOne(job.from, SubSeq(job.src, m + 1, Len(job.src))).code_point2 \in CodePoints
  BY CodePointsAssumption
<1> QED
  BY <1>2, <1>3 DEF Unread

LEMMA KnownYield ==
  ASSUME DecodingInv, KnownInv, phase = "decode", UNCHANGED job,
         NEW cp, NEW n, Yield(cp, n),
         job.to # "utf_8" => cp \in CodePoints \cup {Error} /\ pending' \in CodePoints
  PROVE  KnownInv'
<1> SUFFICES ASSUME job.to # "utf_8"
             PROVE  pending' \in CodePoints /\ \A i \in 1 .. Len(text') : text'[i] \in CodePoints
  BY DEF KnownInv
<1>1. \A i \in 1 .. Len(text) : text[i] \in CodePoints
  BY DEF KnownInv
<1>2. text \in Seq(Nat) /\ CodePoints \subseteq Nat
  BY CodePointsAssumption DEF DecodingInv, WorkTyped
<1>3. text' = Append(text, Shown(cp)) /\ Shown(cp) \in CodePoints
  BY SomeAreKnown DEF Yield, Shown
<1>4. /\ Len(text) \in Nat /\ Len(text') = Len(text) + 1
      /\ text'[Len(text) + 1] = Shown(cp) /\ \A i \in 1 .. Len(text) : text'[i] = text[i]
  BY <1>2, <1>3, AppendIs
<1>5. \A i \in 1 .. Len(text') : i = Len(text) + 1 \/ i \in 1 .. Len(text)
  BY <1>4
<1> QED
  BY <1>1, <1>3, <1>4, <1>5

LEMMA KnownByte ==
  ASSUME job \in Jobs, AtRandom, job.to # "utf_8", NEW n \in Nat, n < Len(job.src),
         NEW x, x = job.src[n + 1]
  PROVE  ByteAt(x) \in CodePoints \cup {Error}
<1>1. job.src \in Seq(Byte) /\ Len(job.src) \in Nat
  BY JobIs
<1>2. PICK b : b = Unread(n)
  OBVIOUS
<1>3. b \in Seq(Byte) /\ Len(b) >= 1 /\ \A k \in 1 .. Len(b) : b[k] = job.src[n + k]
  BY <1>1, <1>2, RestIs DEF Unread
<1>4. b[1] = x /\ x \in Byte
  <2>1. Len(b) \in Nat /\ 1 \in 1 .. Len(b)
    BY <1>3, LenProperties
  <2>2. b[1] = x
    BY <1>3, <2>1
  <2> QED
    BY <1>3, <2>1, <2>2, ElementOfSeq
<1>5. ByteOf(x) # Error
  BY <1>4, ByteOfIs DEF IsScalar, Error
<1>6. DecodeOne(job.from, b).code_point \in CodePoints \cup {Error}
  BY <1>2, KnownCall
<1>7. x \in CodePoints /\ Replacement \in CodePoints
  BY <1>4, SomeAreKnown
<1> SUFFICES ByteOf(x) \in CodePoints
  BY <1>7, ByteAtOf
<1>8. CASE job.from \in SingleByte
  <2>1. ByteOf(x) = DecodeByte(Table(job.from), x)
    BY <1>8 DEF ByteOf
  <2>2. DecodeOne(job.from, b) = SingleByteDecode(Table(job.from), x)
    BY <1>4, <1>8, DecoderOf
  <2>3. PICK y : y = At(Table(job.from), x - 128)
    OBVIOUS
  <2>4. CASE x < 128
    BY <1>7, <2>1, <2>4 DEF DecodeByte
  <2>5. CASE ~(x < 128) /\ y = 0
    BY <1>7, <2>1, <2>3, <2>5 DEF DecodeByte, Replacement
  <2>6. CASE ~(x < 128) /\ y # 0
    <3>1. ByteOf(x) = y
      BY <2>1, <2>3, <2>6 DEF DecodeByte
    <3>2. DecodeOne(job.from, b).code_point = y
      BY <2>2, <2>3, <2>6 DEF SingleByteDecode, AtPointer, Decoded
    <3> QED
      BY <1>5, <1>6, <3>1, <3>2
  <2> QED
    BY <2>4, <2>5, <2>6
<1>9. CASE job.from = "x_user_defined" /\ job.how = "random_access" /\ job.from \notin SingleByte
  <2>1. ByteOf(x) = XUserDefinedByte(x)
    BY <1>9 DEF ByteOf
  <2>2. DecodeOne(job.from, b).code_point = XUserDefinedDecode(x).code_point
    BY <1>4, <1>9, DecoderOf
  <2> QED
    BY <1>5, <1>6, <2>1, <2>2 DEF XUserDefinedByte
<1>10. CASE job.how = "single_byte_view" /\ job.from \notin SingleByte
  <2>1. ByteOf(x) = x
    BY <1>10 DEF ByteOf
  <2> QED
    BY <1>7, <2>1
<1> QED
  BY <1>8, <1>9, <1>10, AtRandomIs

LEMMA KnownFirst ==
  ASSUME DecodingInv, KnownInv, DecodeFirst
  PROVE  KnownInv'
<1>1. /\ phase = "decode" /\ job \in Jobs /\ at = 0 /\ job.from = "utf_8"
      /\ pending = 0 => at < Len(job.src)
  BY Wants DEF DecodeFirst
<1>2. pending = 0
  BY <1>1 DEF DecodingInv, Reached
<1>3. 0 < Len(job.src) /\ job.src \in Seq(Byte)
  BY <1>1, <1>2, JobIs
<1>4. PICK r : r = DecodeOne(job.from, job.src)
  OBVIOUS
<1>5. PICK next : next = DecodeOne(job.from, Unread(r.used))
  OBVIOUS
<1>6. /\ \/ r.code_point # 65279 /\ Yield(r.code_point, r.used)
         \/ /\ r.code_point = 65279 /\ r.used < Len(job.src)
            /\ Yield(next.code_point, r.used + next.used)
         \/ /\ r.code_point = 65279 /\ r.used = Len(job.src)
            /\ at' = r.used
            /\ UNCHANGED <<text, ends>>
      /\ UNCHANGED <<index, made, job, phase, pending, read, out>>
  BY <1>4, <1>5 DEF DecodeFirst
<1>7. pending' \in CodePoints /\ UNCHANGED <<job, phase>>
  BY <1>2, <1>6, SomeAreKnown
<1>8. CASE Yield(r.code_point, r.used)
  <2>1. r = DecodeOne(job.from, Unread(0))
    <3>1. Unread(0) = job.src
      BY <1>3, RestIs DEF Unread
    <3> QED
      BY <1>4, <3>1
  <2>2. job.to # "utf_8" => r.code_point \in CodePoints \cup {Error}
    BY <1>1, <1>3, <2>1, KnownCall
  <2> QED
    BY <1>1, <1>7, <1>8, <2>2, KnownYield
<1>9. CASE r.used < Len(job.src) /\ Yield(next.code_point, r.used + next.used)
  <2>1. r.used \in Nat
    BY <1>1, <1>3, <1>4, SniffsUtf8
  <2>2. job.to # "utf_8" => next.code_point \in CodePoints \cup {Error}
    BY <1>1, <1>5, <1>9, <2>1, KnownCall
  <2> QED
    BY <1>1, <1>7, <1>9, <2>2, KnownYield
<1>10. CASE UNCHANGED <<text, ends>>
  BY <1>7, <1>10 DEF KnownInv
<1> QED
  BY <1>6, <1>8, <1>9, <1>10

LEMMA KnownSteps ==
  ASSUME DecodingInv, KnownInv, [Next]_vars
  PROVE  KnownInv'
<1>1. CASE Build \/ Keep
  <2>1. UNCHANGED <<job, phase, pending, text>>
    BY <1>1 DEF Build, Keep, work
  <2> QED
    BY <2>1 DEF KnownInv
<1>2. CASE Start
  <2>1. phase = "build" /\ UNCHANGED <<pending, text>>
    BY <1>2 DEF Start, work
  <2>2. pending' = 0 /\ Len(text') = 0
    BY <2>1 DEF DecodingInv, JobGiven
  <2>3. 1 .. Len(text') = {}
    BY <2>2
  <2> QED
    BY <2>2, <2>3, SomeAreKnown DEF KnownInv
<1>3. CASE DecodeFirst
  BY <1>3, KnownFirst
<1>4. CASE DecodeNext
  <2>1. phase = "decode" /\ job \in Jobs /\ at \in Nat /\ at < Len(job.src)
    BY <1>4, Wants DEF DecodeNext
  <2>2. PICK r : r = DecodeOne(job.from, Unread(at))
    OBVIOUS
  <2>3. /\ Yield(r.code_point, at + r.used) /\ UNCHANGED <<job, phase>>
        /\ pending' = IF job.from = "big5" THEN r.code_point2 ELSE 0
    BY <1>4, <2>2 DEF DecodeNext
  <2>4. job.to # "utf_8" => r.code_point \in CodePoints \cup {Error} /\ pending' \in CodePoints
    BY <2>1, <2>2, <2>3, KnownCall, SomeAreKnown
  <2> QED
    BY <2>1, <2>3, <2>4, KnownYield
<1>5. CASE DecodePending
  <2>1. phase = "decode" /\ Yield(pending, at) /\ pending' = 0 /\ UNCHANGED <<job, phase>>
    BY <1>5 DEF DecodePending, Wanted
  <2>2. job.to # "utf_8" => pending \in CodePoints \cup {Error} /\ pending' \in CodePoints
    BY <2>1, SomeAreKnown DEF KnownInv
  <2> QED
    BY <2>1, <2>2, KnownYield
<1>6. CASE DecodeAt
  <2>1. phase = "decode" /\ job \in Jobs /\ at \in Nat /\ AtRandom /\ (pending = 0 => at < Len(job.src))
    BY <1>6, Wants DEF DecodeAt
  <2>2. pending = 0
    <3>1. job.from # "big5"
      BY <2>1, ByByteNames DEF Others, Legacy, NoTable
    <3> QED
      BY <3>1 DEF DecodingInv, Reached
  <2>3. PICK cp : cp = ByteAt(job.src[at + 1])
    OBVIOUS
  <2>4. Yield(cp, at + 1) /\ UNCHANGED <<job, phase, pending>>
    BY <1>6, <2>3 DEF DecodeAt
  <2>5. job.to # "utf_8" => cp \in CodePoints \cup {Error}
    BY <2>1, <2>2, <2>3, KnownByte
  <2>6. pending' \in CodePoints
    BY <2>2, <2>4, SomeAreKnown
  <2> QED
    BY <2>1, <2>4, <2>5, <2>6, KnownYield
<1>7. CASE Encode
  BY <1>7 DEF Encode, KnownInv
<1>8. CASE Finish
  BY <1>8 DEF Finish, KnownInv, work
<1>9. CASE UNCHANGED vars
  BY <1>9 DEF KnownInv, vars, work
<1> QED
  BY <1>1, <1>2, <1>3, <1>4, <1>5, <1>6, <1>7, <1>8, <1>9 DEF Next

\* What is read back of the first n elements.
Readings(n) == [i \in 1 .. n |-> Expected(job.to, text[i])]

\* The bytes written are read back as the code points encoded so far, and in
\* front of any others.
EncodingInv ==
  phase \in {"decode", "done"} =>
    /\ out \in Seq(Byte)
    /\ read \in Nat /\ read <= Len(text)
    /\ phase = "done" => read = Len(text)
    /\ \A rest \in Seq(Byte) :
         ReadBack(job.to, out \o rest) = Readings(read) \o ReadBack(job.to, rest)

LEMMA ExpectedTyped ==
  ASSUME NEW to, NEW cp \in Nat, Readable(to)
  PROVE  Expected(to, cp) \in Int
<1>1. CASE to \in {"shift_jis", "euc_jp"} /\ cp \in {165, 8254} /\ CanEncode(to, cp)
  <2>1. to \notin SingleByte /\ ~(cp < 128) /\ cp \notin Halfwidth
    BY <1>1, JobsAssumption DEF Others, Legacy, Halfwidth
  <2>2. /\ \A q \in DOMAIN Table("jis0208") : Table("jis0208")[q] # cp
        /\ \A q \in DOMAIN Table("jis0212") : Table("jis0212")[q] # cp
    BY <1>1, TablesAssumption
  <2> QED
    BY <1>1, <2>1, <2>2 DEF CanEncode, Has
<1>2. CASE CanEncode(to, cp) /\ ~(to \in {"shift_jis", "euc_jp"} /\ cp \in {165, 8254})
  BY <1>2, ExpectedIs, SMT
<1>3. CASE ~CanEncode(to, cp)
  <2>1. Expected(to, cp) = 92 \/ Expected(to, cp) = 126 \/ Expected(to, cp) = 63
    BY <1>3, ExpectedIs, SMT
  <2> QED
    BY <2>1, SMT
<1> QED
  BY <1>1, <1>2, <1>3

LEMMA TargetOf ==
  ASSUME NEW j \in Jobs, HasEncoder(j)
  PROVE  Readable(j.to)
  BY JobsAssumption DEF Readable

LEMMA ReadingsTyped ==
  ASSUME Readable(job.to), text \in Seq(Nat), NEW n \in Nat, n <= Len(text)
  PROVE  /\ Readings(n) \in Seq(Int) /\ Len(Readings(n)) = n
         /\ \A i \in 1 .. n : Readings(n)[i] = Expected(job.to, text[i])
<1>1. \A i \in 1 .. n : i \in 1 .. Len(text)
  BY LenProperties
<1>2. \A i \in 1 .. n : text[i] \in Nat
  BY <1>1, ElementOfSeq
<1>3. \A i \in 1 .. n : Expected(job.to, text[i]) \in Int
  BY <1>2, ExpectedTyped
<1> QED
  BY <1>3 DEF Readings

\* One more is read back.
LEMMA ReadingsGrow ==
  ASSUME Readable(job.to), text \in Seq(Nat), NEW n \in Nat, n + 1 <= Len(text)
  PROVE  Readings(n + 1) = Readings(n) \o <<Expected(job.to, text[n + 1])>>
<1>1. PICK m \in Nat : m = n + 1
  OBVIOUS
<1>2. Len(text) \in Nat /\ n <= Len(text) /\ m <= Len(text)
  BY <1>1, LenProperties
<1>3. /\ Readings(n) \in Seq(Int) /\ Len(Readings(n)) = n
      /\ \A i \in 1 .. n : Readings(n)[i] = Expected(job.to, text[i])
  BY <1>2, ReadingsTyped
<1>4. /\ Readings(m) \in Seq(Int) /\ Len(Readings(m)) = m
      /\ \A i \in 1 .. m : Readings(m)[i] = Expected(job.to, text[i])
  BY <1>2, ReadingsTyped
<1>5. PICK x \in Int : x = Expected(job.to, text[m])
  <2>1. m \in 1 .. m
    BY <1>1
  <2>2. Readings(m)[m] \in Int
    BY <1>4, <2>1, ElementOfSeq
  <2> QED
    BY <1>4, <2>1, <2>2
<1>6. PICK s : s = Append(Readings(n), x)
  OBVIOUS
<1>7. /\ s \in Seq(Int) /\ Len(s) = n + 1 /\ s[n + 1] = x
      /\ \A i \in 1 .. n : s[i] = Readings(n)[i]
  BY <1>3, <1>5, <1>6, AppendIs, SMTT(30)
<1>8. \A i \in 1 .. Len(s) : i \in 1 .. n \/ i = m
  BY <1>1, <1>7
<1>9. \A i \in 1 .. n : i \in 1 .. m
  BY <1>1
<1>10. \A i \in 1 .. Len(s) : s[i] = Readings(m)[i]
  <2>1. m \in 1 .. m
    BY <1>1
  <2> QED
    BY <1>1, <1>3, <1>4, <1>5, <1>7, <1>8, <1>9, <2>1
<1>11. s = Readings(m)
  BY <1>1, <1>4, <1>7, <1>10, SeqEqual
<1>12. s = Readings(n) \o <<x>>
  BY <1>3, <1>5, <1>6, AppendIsConcat
<1> QED
  BY <1>1, <1>5, <1>11, <1>12

\* What both invariants say where there is a job.
LEMMA AtWork ==
  ASSUME DecodingInv, phase \in {"decode", "done"}
  PROVE  /\ Readable(job.to)
         /\ text \in Seq(Nat) /\ Len(text) \in Nat /\ \A i \in 1 .. Len(text) : IsScalar(text[i])
<1>1. job \in Jobs /\ HasEncoder(job)
  BY DEF DecodingInv, JobGiven
<1>2. text \in Seq(Nat) /\ \A i \in 1 .. Len(text) : IsScalar(text[i])
  BY DEF DecodingInv, WorkTyped
<1> QED
  BY <1>1, <1>2, TargetOf, LenProperties

LEMMA EncodingStarts ==
  ASSUME DecodingInv, Start
  PROVE  EncodingInv'
<1>1. phase = "build" /\ UNCHANGED work
  BY DEF Start
<1>2. out' = <<>> /\ read' = 0 /\ text' = <<>>
  BY <1>1 DEF DecodingInv, JobGiven, work
<1>3. PICK j \in Jobs : job' = j /\ phase' = IF HasEncoder(j) THEN "decode" ELSE "refused"
  BY DEF Start
<1> SUFFICES ASSUME HasEncoder(j) PROVE EncodingInv'
  BY <1>3 DEF EncodingInv
<1>4. Readable(j.to)
  BY TargetOf
<1>5. ASSUME NEW rest \in Seq(Byte)
      PROVE  ReadBack(j.to, <<>> \o rest) = <<>> \o ReadBack(j.to, rest)
  <2>1. <<>> \o rest = rest
    BY ConcatEmptySeq
  <2>2. ReadBack(j.to, rest) \in Seq(Int)
    BY <1>4, ReadBackTyped
  <2>3. <<>> \o ReadBack(j.to, rest) = ReadBack(j.to, rest)
    BY <2>2, ConcatEmptySeq
  <2> QED
    BY <2>1, <2>3
<1>6. Readings(read)' = <<>>
  <2>1. 1 .. 0 = {}
    OBVIOUS
  <2> QED
    BY <1>2, <2>1 DEF Readings
<1>7. /\ out' \in Seq(Byte) /\ read' \in Nat /\ read' <= Len(text') /\ phase' = "decode"
  BY <1>2, <1>3
<1>8. \A rest \in Seq(Byte) : ReadBack(job'.to, out' \o rest) = Readings(read)' \o ReadBack(job'.to, rest)
  BY <1>2, <1>3, <1>5, <1>6
<1> QED
  BY <1>7, <1>8 DEF EncodingInv

\* Decoding more changes nothing about what has been encoded.
LEMMA EncodingStays ==
  ASSUME DecodingInv, EncodingInv, phase = "decode", phase' = "decode", UNCHANGED <<job, out, read>>,
         text' = text \/ \E cp \in Nat : text' = Append(text, cp)
  PROVE  EncodingInv'
<1>1. /\ Readable(job.to) /\ text \in Seq(Nat) /\ Len(text) \in Nat
  BY AtWork
<1>2. /\ out \in Seq(Byte) /\ read \in Nat /\ read <= Len(text)
      /\ \A rest \in Seq(Byte) :
           ReadBack(job.to, out \o rest) = Readings(read) \o ReadBack(job.to, rest)
  BY DEF EncodingInv
<1>3. /\ Len(text') \in Nat /\ Len(text) <= Len(text')
      /\ \A i \in 1 .. Len(text) : text'[i] = text[i]
  <2>1. CASE text' = text
    BY <1>1, <2>1
  <2>2. CASE \E cp \in Nat : text' = Append(text, cp)
    <3>1. PICK cp \in Nat : text' = Append(text, cp)
      BY <2>2
    <3>2. /\ Len(text') = Len(text) + 1 /\ \A i \in 1 .. Len(text) : text'[i] = text[i]
      BY <1>1, <3>1, AppendIs
    <3> QED
      BY <1>1, <3>2
  <2> QED
    BY <2>1, <2>2
<1>4. \A i \in 1 .. read : i \in 1 .. Len(text)
  BY <1>1, <1>2
<1>5. Readings(read)' = Readings(read)
  BY <1>3, <1>4 DEF Readings
<1>6. read <= Len(text')
  BY <1>1, <1>2, <1>3
<1> QED
  BY <1>2, <1>5, <1>6 DEF EncodingInv

LEMMA EncodingGoesOn ==
  ASSUME DecodingInv, KnownInv, MadeInv, EncodingInv, Encode
  PROVE  EncodingInv'
<1>1. phase = "decode" /\ phase' = "decode" /\ read < Len(text) /\ UNCHANGED <<job, text>>
  BY DEF Encode
<1>2. PICK n : n = read
  OBVIOUS
<1>3. /\ out \in Seq(Byte) /\ n \in Nat
      /\ \A rest \in Seq(Byte) :
           ReadBack(job.to, out \o rest) = Readings(n) \o ReadBack(job.to, rest)
  BY <1>1, <1>2 DEF EncodingInv
<1>4. /\ Readable(job.to)
      /\ text \in Seq(Nat) /\ Len(text) \in Nat /\ \A i \in 1 .. Len(text) : IsScalar(text[i])
  BY <1>1, AtWork
<1>5. n + 1 \in 1 .. Len(text) /\ n <= Len(text) /\ n + 1 <= Len(text) /\ n + 1 \in Nat
  BY <1>1, <1>2, <1>3, <1>4
<1>6. PICK cp : cp = text[n + 1]
  OBVIOUS
<1>7. PICK w : w = Written(EncodeOne(cp))
  OBVIOUS
<1>8. PICK e : e = Expected(job.to, cp)
  OBVIOUS
<1>9. IsRead(job.to, w, e)
  <2>1. IsScalar(cp) /\ (job.to # "utf_8" => cp \in CodePoints)
    BY <1>1, <1>4, <1>5, <1>6 DEF KnownInv
  <2> QED
    BY <1>1, <1>4, <1>7, <1>8, <2>1, EncodesAsExpected
<1>10. out' = out \o w /\ read' = n + 1
  BY <1>2, <1>6, <1>7 DEF Encode, Written
<1>11. w \in Seq(Byte)
  BY <1>9 DEF IsRead
<1>12. out' \in Seq(Byte)
  BY <1>3, <1>10, <1>11, ConcatProperties
<1>13. Readings(n) \in Seq(Int) /\ Readings(n + 1) = Readings(n) \o <<e>>
  BY <1>4, <1>5, <1>6, <1>8, <1>3, ReadingsTyped, ReadingsGrow
<1>14. e \in Int /\ <<e>> \in Seq(Int)
  <2>1. cp \in Nat
    BY <1>4, <1>5, <1>6, ElementOfSeq
  <2> QED
    BY <1>4, <1>8, <2>1, ExpectedTyped
<1>15. ASSUME NEW rest \in Seq(Byte)
       PROVE  ReadBack(job.to, out' \o rest) = Readings(n + 1) \o ReadBack(job.to, rest)
  <2>1. PICK more : more = w \o rest
    OBVIOUS
  <2>2. more \in Seq(Byte) /\ out' \o rest = out \o more
    BY <1>3, <1>10, <1>11, <2>1, ConcatProperties, ConcatAssociative, SMTT(30)
  <2>3. ReadBack(job.to, out' \o rest) = Readings(n) \o ReadBack(job.to, more)
    BY <1>3, <2>2
  <2>4. ReadBack(job.to, more) = <<e>> \o ReadBack(job.to, rest)
    BY <1>4, <1>9, <2>1, ReadNext
  <2>5. ReadBack(job.to, rest) \in Seq(Int)
    BY <1>4, ReadBackTyped
  <2>6. (Readings(n) \o <<e>>) \o ReadBack(job.to, rest) = Readings(n) \o (<<e>> \o ReadBack(job.to, rest))
    BY <1>13, <1>14, <2>5, ConcatAssociative, SMTT(30)
  <2> QED
    BY <1>13, <2>3, <2>4, <2>6
<1>16. Readings(read)' = Readings(n + 1)
  BY <1>1, <1>10 DEF Readings
<1> QED
  BY <1>1, <1>5, <1>10, <1>12, <1>15, <1>16 DEF EncodingInv

LEMMA EncodingSteps ==
  ASSUME DecodingInv, KnownInv, MadeInv, EncodingInv, [Next]_vars
  PROVE  EncodingInv'
<1>1. CASE Build \/ Keep
  <2>1. phase = "build" /\ phase' = "build"
    BY <1>1 DEF Build, Keep, Building
  <2> QED
    BY <2>1 DEF EncodingInv
<1>2. CASE Start
  BY <1>2, EncodingStarts
<1>3. CASE DecodeFirst \/ DecodeNext \/ DecodePending \/ DecodeAt
  <2>1. phase = "decode" /\ phase' = "decode" /\ UNCHANGED <<job, out, read>>
    BY <1>3 DEF DecodeFirst, DecodeNext, DecodePending, DecodeAt, Wanted
  <2>2. text' = text \/ \E cp, n : Yield(cp, n)
    BY <1>3 DEF DecodeFirst, DecodeNext, DecodePending, DecodeAt
  <2>3. DecodingInv'
    BY DecodingSteps
  <2>4. ASSUME NEW cp, NEW n, Yield(cp, n) PROVE \E c \in Nat : text' = Append(text, c)
    <3>1. text' = Append(text, Shown(cp)) /\ text \in Seq(Nat) /\ text' \in Seq(Nat)
      BY <2>3, <2>4 DEF Yield, Shown, DecodingInv, WorkTyped
    <3>2. PICK c : c = Shown(cp)
      OBVIOUS
    <3>3. c \in Nat
      <4>1. Len(text) \in Nat /\ Len(text') = Len(text) + 1 /\ text'[Len(text) + 1] = c
        BY <3>1, <3>2, SMTT(30)
      <4>2. Len(text) + 1 \in 1 .. Len(text')
        BY <4>1
      <4> QED
        BY <3>1, <4>1, <4>2, ElementOfSeq
    <3> QED
      BY <3>1, <3>2, <3>3
  <2> QED
    BY <2>1, <2>2, <2>4, EncodingStays
<1>4. CASE Encode
  BY <1>4, EncodingGoesOn
<1>5. CASE Finish
  <2>1. phase = "decode" /\ read = Len(text) /\ UNCHANGED <<job, text, read, out>>
    BY <1>5 DEF Finish, work
  <2>2. Readings(read)' = Readings(read)
    BY <2>1 DEF Readings
  <2> QED
    BY <2>1, <2>2 DEF EncodingInv
<1>6. CASE UNCHANGED vars
  <2>1. UNCHANGED <<job, phase, text, read, out>>
    BY <1>6 DEF vars, work
  <2>2. Readings(read)' = Readings(read)
    BY <2>1 DEF Readings
  <2> QED
    BY <2>1, <2>2 DEF EncodingInv
<1> QED
  BY <1>1, <1>2, <1>3, <1>4, <1>5, <1>6 DEF Next

LEMMA ReadsBack == DecodingInv /\ EncodingInv => RoundTrip
<1> SUFFICES ASSUME DecodingInv, EncodingInv, phase = "done"
             PROVE  ReadBack(job.to, out) = [i \in 1 .. Len(text) |-> Expected(job.to, text[i])]
  BY DEF RoundTrip
<1>1. /\ out \in Seq(Byte) /\ read \in Nat /\ read = Len(text)
      /\ \A rest \in Seq(Byte) :
           ReadBack(job.to, out \o rest) = Readings(read) \o ReadBack(job.to, rest)
  BY DEF EncodingInv
<1>2. Readable(job.to) /\ text \in Seq(Nat)
  BY AtWork
<1>3. <<>> \in Seq(Byte) /\ out \o <<>> = out
  BY <1>1, ConcatEmptySeq
<1>4. ReadBack(job.to, <<>>) = <<>>
  BY <1>2, ReadBackNothing
<1>5. ReadBack(job.to, out) = Readings(read) \o <<>>
  BY <1>1, <1>3, <1>4
<1>6. Readings(read) \in Seq(Int)
  BY <1>1, <1>2, ReadingsTyped
<1>7. Readings(read) \o <<>> = Readings(read)
  BY <1>6, ConcatEmptySeq
<1> QED
  BY <1>1, <1>5, <1>7 DEF Readings

\* For every set of tables and every source in any of the encodings here: what
\* transcode_string and the lazy pipeline have written when they are done, the
\* decoder of the encoding they write reads back as the text, code point for
\* code point, but for U+00A5 and U+203E in the Japanese encodings and the
\* question marks of what has no bytes (whatwg::transcode, transcode_string, the
\* encode_one and decode_one functions and the reverse indexes they read).
THEOREM WrittenIsRead == Spec => []RoundTrip
<1>1. Init => DecodingInv /\ BuildingInv /\ MadeInv /\ KnownInv /\ EncodingInv
  <2>1. Init => phase = "build"
    BY DEF Init
  <2> QED
    BY <2>1, DecodingStarts, MadeStarts DEF KnownInv, EncodingInv
<1>2. DecodingInv /\ BuildingInv /\ MadeInv /\ KnownInv /\ EncodingInv /\ [Next]_vars
        => (DecodingInv /\ BuildingInv /\ MadeInv /\ KnownInv /\ EncodingInv)'
  BY DecodingSteps, MadeKept, KnownSteps, EncodingSteps
<1> QED
  BY <1>1, <1>2, ReadsBack, PTL DEF Spec
=============================================================================
