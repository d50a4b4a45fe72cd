------------------------- MODULE Utf16Decoder_proofs -------------------------
(***************************************************************************)
(* Theorems about Utf16Decoder, for both byte orders and every set of      *)
(* inputs: the unit put back is the one just before `current`, and reading *)
(* forwards with it implements Utf16Stream, which looks ahead.             *)
(***************************************************************************)
EXTENDS Utf16Decoder, SequenceTheorems, TLAPS

\* TypeOK without the elements, which no step reads, and PutBackIsBackingUp; that
\* a unit put back is never the first is what says that no unit is taken for a
\* byte order mark by mistake.
IInv ==
  /\ input \in Seq(Byte)
  /\ current \in 0 .. Len(input)
  /\ pending \in Seq(Byte)
  /\ Len(pending) \in {0, 2}
  /\ done \in BOOLEAN
  /\ PutBackIsBackingUp
  /\ Position = 0 => current = 0
  /\ done => Position = Len(input)

LEMMA InitIInv == Init => IInv
<1> SUFFICES ASSUME Init PROVE IInv
  OBVIOUS
<1>1. input \in Seq(Byte) /\ current = 0 /\ pending = <<>> /\ ~done
  BY InputsAssumption DEF Init
<1>2. done \in BOOLEAN
  BY DEF Init
<1> QED
  BY <1>1, <1>2 DEF IInv, PutBackIsBackingUp, Position

\* What a call reads first is the unit at Position.
LEMMA FirstIsNext ==
  ASSUME IInv, HasUnit
  PROVE  /\ Position \in Nat /\ AfterUnit = Position + 2 /\ AfterUnit <= Len(input)
         /\ FirstUnit = Unit(input[Position + 1], input[Position + 2])
         /\ ~done
<1>1. CASE pending = <<>>
  BY <1>1 DEF IInv, HasUnit, Position, AfterUnit, FirstUnit
<1>2. CASE pending # <<>>
  <2>1. Len(pending) = 2
    BY <1>2, EmptySeq DEF IInv
  <2>2. pending[1] = input[Position + 1] /\ pending[2] = input[Position + 2]
    BY <2>1 DEF IInv, PutBackIsBackingUp
  <2>3. current >= 2
    BY <2>1 DEF IInv, PutBackIsBackingUp
  <2> QED
    BY <1>2, <2>1, <2>2, <2>3 DEF IInv, Position, AfterUnit, FirstUnit
<1> QED
  BY <1>1, <1>2

\* A call that puts nothing back leaves nothing put back.
LEMMA NothingPutBack ==
  ASSUME IInv, ~done, input' = input, done' = done, pending' = <<>>,
         current' \in 0 .. Len(input)
  PROVE  IInv' /\ Position' = current'
<1>1. Len(pending') = 0 /\ pending' \in Seq(Byte)
  OBVIOUS
<1>2. Position' = current'
  <2>1. current' \in Int
    BY DEF IInv
  <2>2. \A c \in Int : \A n : n = 0 => c - n = c
    OBVIOUS
  <2> QED
    BY <1>1, <2>1, <2>2 DEF Position
<1>3. PutBackIsBackingUp'
  BY <1>1 DEF PutBackIsBackingUp
<1>4. done' \in BOOLEAN /\ ~done'
  BY DEF IInv
<1> QED
  BY <1>1, <1>2, <1>3, <1>4 DEF IInv

LEMMA NextIInv == IInv /\ [Next]_vars => IInv'
<1> SUFFICES ASSUME IInv, [Next]_vars PROVE IInv'
  OBVIOUS
<1>1. CASE HalfUnit
  BY <1>1, NothingPutBack DEF HalfUnit, IInv, Position
<1>2. CASE LoneUnit \/ DiscardMark
  <2>1. /\ HasUnit /\ current' = AfterUnit /\ pending' = <<>>
        /\ input' = input /\ done' = done
    BY <1>2 DEF LoneUnit, DiscardMark, AtMark
  <2>2. ~done /\ current' \in 0 .. Len(input)
    BY <2>1, FirstIsNext DEF IInv
  <2> QED
    BY <2>1, <2>2, NothingPutBack
<1>3. CASE CutPair
  <2>1. /\ HasUnit /\ current' = Len(input) /\ pending' = <<>>
        /\ input' = input /\ done' = done
    BY <1>3 DEF CutPair
  <2>2. ~done /\ current' \in 0 .. Len(input)
    BY <2>1, FirstIsNext DEF IInv
  <2> QED
    BY <2>1, <2>2, NothingPutBack
<1>4. CASE SurrogatePair
  <2>1. /\ HasUnit /\ HasSecond /\ current' = AfterUnit + 2 /\ pending' = <<>>
        /\ input' = input /\ done' = done
    BY <1>4 DEF SurrogatePair
  <2>2. ~done /\ current' \in 0 .. Len(input)
    BY <2>1, FirstIsNext DEF HasSecond, IInv
  <2> QED
    BY <2>1, <2>2, NothingPutBack
<1>5. CASE UnpairedHigh
  <2> DEFINE b2 == input[AfterUnit + 1]
             b3 == input[AfterUnit + 2]
  <2>1. /\ AfterUnit \in Nat /\ AfterUnit + 2 <= Len(input) /\ ~done
        /\ current' = AfterUnit + 2 /\ pending' = <<b2, b3>>
        /\ input' = input /\ done' = done
    BY <1>5, FirstIsNext DEF UnpairedHigh, HasSecond
  <2>2. b2 \in Byte /\ b3 \in Byte
    BY <2>1 DEF IInv
  <2>3. Len(pending') = 2 /\ pending'[1] = b2 /\ pending'[2] = b3 /\ pending' \in Seq(Byte)
    BY <2>1, <2>2
  <2>4. Position' = AfterUnit /\ current' \in 0 .. Len(input)
    BY <2>1, <2>3 DEF Position, IInv
  <2> HIDE DEF b2, b3
  <2>5. \A k \in 1 .. Len(pending') : pending'[k] = input'[Position' + k]
    BY <2>1, <2>3, <2>4 DEF b2, b3
  <2>6. Position' # 0
    BY <1>5, <2>4, FirstIsNext DEF UnpairedHigh
  <2> QED
    BY <2>1, <2>3, <2>4, <2>5, <2>6 DEF IInv, PutBackIsBackingUp
<1>6. CASE Finish
  BY <1>6 DEF Finish, IInv, PutBackIsBackingUp, Position
<1>7. CASE UNCHANGED vars
  BY <1>7 DEF vars, IInv, PutBackIsBackingUp, Position
<1> QED
  BY <1>1, <1>2, <1>3, <1>4, <1>5, <1>6, <1>7 DEF Next

\* The strengthened invariant holds in every reachable state.
THEOREM Invariance == Spec => []IInv
BY InitIInv, NextIInv, PTL DEF Spec

\* The bytes put back are always the two before `current`.
THEOREM PutBackCorrect == Spec => []PutBackIsBackingUp
<1>1. IInv => PutBackIsBackingUp
  BY DEF IInv
<1> QED
  BY <1>1, Invariance, PTL

-----------------------------------------------------------------------------
\* What the stream sees and does, in terms of the decoder.
LEMMA SameUnits ==
  /\ Stream!Left = Len(input) - Position
  /\ \A k : Stream!UnitAt(k) = Unit(input[Position + k], input[Position + k + 1])
  /\ \A u : (Stream!High(u) <=> High(u)) /\ (Stream!Low(u) <=> Low(u))
  /\ \A u : Stream!UnitResult(u) = UnitResult(u)
  /\ \A h, l : Stream!Supplementary(h, l) = Supplementary(h, l)
  /\ \A n : Stream!Scalar(n) = Scalar(n)
  /\ Stream!Truncated = Truncated /\ Stream!Mark = Mark
  /\ \A k, r : Stream!TakeAs(k, r) <=>
       /\ Position' = Position + k
       /\ Emit(r)
       /\ UNCHANGED <<input, done>>
BY DEF Stream!Left, Stream!UnitAt, Stream!Unit, Unit, Stream!High, High, Stream!Low, Low,
   Stream!UnitResult, UnitResult, Stream!Lone, Lone, Stream!Scalar, Scalar,
   Stream!Supplementary, Supplementary, Stream!Truncated, Truncated, Stream!TakeAs, Emit,
   Stream!Mark, Mark

\* A byte order mark is no half of a pair.
LEMMA MarkIsNotHigh == ~High(Mark)
BY DEF High, Mark

\* The unit a call reads first is the stream's next, and the one in the low
\* surrogate's place the stream's after that.
LEMMA FirstIsTheStreams ==
  ASSUME IInv, HasUnit
  PROVE  /\ Stream!Left >= 2 /\ FirstUnit = Stream!UnitAt(1)
         /\ HasSecond <=> Stream!Left >= 4
         /\ HasSecond => SecondUnit = Stream!UnitAt(3)
         /\ AtMark <=> Stream!AtMark
<1>1. /\ Position \in Nat /\ AfterUnit = Position + 2 /\ AfterUnit <= Len(input)
      /\ FirstUnit = Unit(input[Position + 1], input[Position + 2])
  BY FirstIsNext
<1>2. Len(input) \in Nat
  BY DEF IInv
<1>3. Stream!Left = Len(input) - Position
  BY SameUnits
<1>4. Stream!Left >= 2 /\ (HasSecond <=> Stream!Left >= 4)
  BY <1>1, <1>2, <1>3 DEF HasSecond
<1>5. FirstUnit = Stream!UnitAt(1)
  <2>1. Position + 2 = Position + 1 + 1
    BY <1>1
  <2> QED
    BY <1>1, <2>1, SameUnits
<1>6. SecondUnit = Stream!UnitAt(3)
  <2>1. AfterUnit + 1 = Position + 3 /\ AfterUnit + 2 = Position + 3 + 1
    BY <1>1
  <2> QED
    BY <2>1, SameUnits DEF SecondUnit
<1>7. Position = 0 <=> current = 0
  BY <1>1, <1>2 DEF IInv, Position, PutBackIsBackingUp
<1>8. AtMark <=> Stream!AtMark
  BY <1>4, <1>5, <1>7, SameUnits DEF AtMark, Stream!AtMark
<1> QED
  BY <1>4, <1>5, <1>6, <1>8

LEMMA InitStream == Init => Stream!Init
<1> SUFFICES ASSUME Init PROVE Stream!Init
  OBVIOUS
<1>1. Position = 0
  <2>1. Len(pending) = 0 /\ current = 0
    BY DEF Init
  <2> QED
    BY <2>1 DEF Position
<1> QED
  BY <1>1 DEF Init, Stream!Init

LEMMA NextStream == IInv /\ [Next]_vars => [Stream!Next]_Stream!vars
<1> SUFFICES ASSUME IInv, [Next]_vars PROVE Stream!Next \/ UNCHANGED Stream!vars
  BY DEF Stream!vars
<1>0. Len(input) \in Nat /\ Len(pending) \in Nat /\ Position \in Int
  BY DEF IInv, Position
<1>1. CASE HalfUnit
  <2>1. Stream!Left = 1 /\ Position' = Position + 1
    <3>1. Len(pending) = 0 /\ Len(pending') = 0 /\ current \in Int
      BY <1>1 DEF HalfUnit, IInv
    <3>2. current + 1 = Len(input) /\ current' = current + 1
      BY <1>1, <3>1 DEF HalfUnit
    <3>3. Position = current /\ Position' = current + 1
      BY <3>1, <3>2 DEF Position
    <3> QED
      BY <3>1, <3>2, <3>3, SameUnits
  <2> QED
    BY <1>1, <2>1, SameUnits DEF HalfUnit, Stream!Next, Stream!Cut
<1>2. CASE LoneUnit \/ DiscardMark
  <2>1. /\ HasUnit /\ Stream!Left >= 2 /\ FirstUnit = Stream!UnitAt(1)
        /\ Position' = Position + 2 /\ (AtMark <=> Stream!AtMark)
    <3>1. /\ HasUnit /\ current' = AfterUnit /\ pending' = <<>>
          /\ input' = input /\ done' = done
      BY <1>2 DEF LoneUnit, DiscardMark, AtMark
    <3>2. Position \in Nat /\ AfterUnit = Position + 2 /\ AfterUnit <= Len(input) /\ ~done
      BY <3>1, FirstIsNext
    <3>3. current' \in 0 .. Len(input)
      BY <1>0, <3>1, <3>2
    <3>4. Position' = current'
      BY <3>1, <3>2, <3>3, NothingPutBack
    <3> QED
      BY <3>1, <3>2, <3>4, FirstIsTheStreams
  <2>2. CASE LoneUnit
    BY <2>1, <2>2, SameUnits DEF LoneUnit, Stream!Next, Stream!Single
  <2>3. CASE DiscardMark
    <3>1. Stream!AtMark /\ Position = 0 /\ Position' = 2
      BY <2>1, <2>3 DEF DiscardMark, Stream!AtMark
    <3> QED
      BY <2>3, <3>1 DEF DiscardMark, Stream!Next, Stream!SkipMark
  <2> QED
    BY <1>2, <2>2, <2>3
<1>3. CASE CutPair
  <2>1. /\ HasUnit /\ Stream!Left \in 2 .. 3 /\ FirstUnit = Stream!UnitAt(1)
        /\ Position' = Position + Stream!Left
    <3>1. /\ HasUnit /\ ~HasSecond /\ current' = Len(input) /\ pending' = <<>>
          /\ input' = input /\ done' = done
      BY <1>3 DEF CutPair
    <3>2. Position \in Nat /\ ~done
      BY <3>1, FirstIsNext
    <3>3. current' \in 0 .. Len(input)
      BY <1>0, <3>1
    <3>4. Position' = Len(input)
      BY <3>1, <3>2, <3>3, NothingPutBack
    <3>5. /\ Stream!Left >= 2 /\ ~(Stream!Left >= 4) /\ FirstUnit = Stream!UnitAt(1)
          /\ Stream!Left = Len(input) - Position
      BY <3>1, FirstIsTheStreams, SameUnits
    <3>6. Stream!Left \in 2 .. 3 /\ Position + Stream!Left = Len(input)
      BY <1>0, <3>2, <3>5
    <3> QED
      BY <3>1, <3>4, <3>5, <3>6
  <2> QED
    BY <1>3, <2>1, SameUnits DEF CutPair, Stream!Next, Stream!Cut
<1>4. CASE SurrogatePair
  <2>1. /\ HasUnit /\ Stream!Left >= 4 /\ FirstUnit = Stream!UnitAt(1)
        /\ SecondUnit = Stream!UnitAt(3) /\ Position' = Position + 4
    <3>1. /\ HasUnit /\ HasSecond /\ current' = AfterUnit + 2 /\ pending' = <<>>
          /\ input' = input /\ done' = done
      BY <1>4 DEF SurrogatePair
    <3>2. Position \in Nat /\ AfterUnit = Position + 2 /\ ~done
      BY <3>1, FirstIsNext
    <3>3. current' \in 0 .. Len(input)
      BY <1>0, <3>1, <3>2 DEF HasSecond
    <3>4. Position' = current'
      BY <3>1, <3>2, <3>3, NothingPutBack
    <3> QED
      BY <3>1, <3>2, <3>4, FirstIsTheStreams
  <2> QED
    BY <1>4, <2>1, SameUnits DEF SurrogatePair, Stream!Next, Stream!Pair
<1>5. CASE UnpairedHigh
  <2>1. Len(pending') = 2
    BY <1>5 DEF UnpairedHigh
  <2>2. /\ HasUnit /\ Stream!Left >= 4 /\ FirstUnit = Stream!UnitAt(1)
        /\ SecondUnit = Stream!UnitAt(3) /\ Position' = Position + 2
    <3>1. HasUnit /\ HasSecond /\ current' = AfterUnit + 2
      BY <1>5 DEF UnpairedHigh
    <3>2. Position \in Nat /\ AfterUnit = Position + 2
      BY <3>1, FirstIsNext
    <3>3. Position' = Position + 2
      BY <2>1, <3>1, <3>2 DEF Position
    <3> QED
      BY <3>1, <3>3, FirstIsTheStreams
  <2>3. Stream!UnitResult(Stream!UnitAt(1)) = Lone
    BY <1>5, <2>2, SameUnits DEF UnpairedHigh, UnitResult
  <2>4. ~Stream!AtMark
    BY <1>5, <2>2, SameUnits, MarkIsNotHigh DEF UnpairedHigh, Stream!AtMark
  <2> QED
    BY <1>5, <2>2, <2>3, <2>4, SameUnits DEF UnpairedHigh, Stream!Next, Stream!Single
<1>6. CASE Finish
  <2>1. Stream!Left = 0 /\ Position' = Position
    <3>1. Len(pending) = 0
      BY <1>6 DEF Finish
    <3> QED
      BY <1>0, <1>6, <3>1, SameUnits DEF Finish, Position
  <2> QED
    BY <1>6, <2>1 DEF Finish, Stream!Next, Stream!Finish
<1>7. CASE UNCHANGED vars
  BY <1>7 DEF vars, Stream!vars, Position
<1> QED
  BY <1>1, <1>2, <1>3, <1>4, <1>5, <1>6, <1>7 DEF Next

\* Reading forwards with one unit put back implements looking ahead: units
\* never come out of step with the stream's, whatever surrogates the input has.
THEOREM Refinement == Spec => ImplementsStream
BY InitStream, NextStream, Invariance, PTL DEF Spec, ImplementsStream, Stream!Spec

-----------------------------------------------------------------------------
\* What each element is: the bytes it was read from are those of its character.
Start(bytes, elements, i) ==
  IF i = 1 THEN (IF Len(bytes) >= 2 /\ Unit(bytes[1], bytes[2]) = Mark THEN 2 ELSE 0)
  ELSE elements[i - 1].upto

AsRead(bytes, elements, i) ==
  elements[i].result[1] = "scalar" =>
    SubSeq(bytes, Start(bytes, elements, i) + 1, elements[i].upto) = Encode(elements[i].result[2])

Element == [result : Results, upto : Nat]

ElementsInv ==
  /\ out \in Seq(Element)
  /\ Position = Start(input, out, Len(out) + 1) \/ Stream!AtMark
  /\ Position = 0 => out = <<>>
  /\ \A i \in 1 .. Len(out) : AsRead(input, out, i)

LEMMA TwoDigits ==
  ASSUME NEW x \in Nat, NEW y \in Nat, x < 256, y < 256
  PROVE  /\ x * 256 + y \in Nat /\ x * 256 + y <= 65535
         /\ (x * 256 + y) \div 256 = x
         /\ (x * 256 + y) % 256 = y
OBVIOUS

LEMMA BytesOfUnit ==
  ASSUME NEW a \in Byte, NEW b \in Byte
  PROVE  /\ Unit(a, b) \in Nat /\ Unit(a, b) <= 65535
         /\ Bytes(Unit(a, b)) = <<a, b>>
<1>1. a \in Nat /\ b \in Nat /\ a < 256 /\ b < 256
  BY DEF Byte
<1>2. CASE BigEndian
  <2> DEFINE u == a * 256 + b
  <2>1. u \in Nat /\ u <= 65535 /\ u \div 256 = a /\ u % 256 = b
    BY <1>1, TwoDigits
  <2>2. Unit(a, b) = u
    BY <1>2 DEF Unit
  <2> HIDE DEF u
  <2> QED
    BY <1>2, <2>1, <2>2 DEF Bytes
<1>3. CASE ~BigEndian
  <2> DEFINE u == b * 256 + a
  <2>1. u \in Nat /\ u <= 65535 /\ u \div 256 = b /\ u % 256 = a
    BY <1>1, TwoDigits
  <2>2. Unit(a, b) = u
    BY <1>3 DEF Unit
  <2> HIDE DEF u
  <2> QED
    BY <1>3, <2>1, <2>2 DEF Bytes
<1> QED
  BY <1>2, <1>3

\* A unit that is no surrogate encodes to its own bytes.
LEMMA UnitEncodes ==
  ASSUME NEW a \in Byte, NEW b \in Byte, NEW r, r = UnitResult(Unit(a, b))
  PROVE  r \in Results /\ (r[1] = "scalar" => Encode(r[2]) = <<a, b>>)
<1> DEFINE u == Unit(a, b)
<1>1. u \in Nat /\ u <= 65535 /\ Bytes(u) = <<a, b>>
  BY BytesOfUnit
<1> HIDE DEF u
<1>2. Encode(u) = <<a, b>>
  BY <1>1 DEF Encode
<1>3. r = Lone \/ r = <<"scalar", u>>
  BY DEF UnitResult, Scalar, u
<1>4. CASE r = Lone
  BY <1>4 DEF Lone, Results
<1>5. CASE r = <<"scalar", u>>
  BY <1>1, <1>2, <1>5 DEF Results
<1> QED
  BY <1>3, <1>4, <1>5

LEMMA TwoAndTwo ==
  ASSUME NEW S, NEW a \in S, NEW b \in S, NEW c \in S, NEW d \in S
  PROVE  <<a, b>> \o <<c, d>> = <<a, b, c, d>>
<1> DEFINE s == <<a, b>> \o <<c, d>>
           t == <<a, b, c, d>>
<1>1. s \in Seq(S) /\ Len(s) = 4 /\ t \in Seq(S) /\ Len(t) = 4
  OBVIOUS
<1>2. s[1] = a /\ s[2] = b
  OBVIOUS
<1>3. s[3] = c /\ s[4] = d
  OBVIOUS
<1>4. t[1] = a /\ t[2] = b /\ t[3] = c /\ t[4] = d
  OBVIOUS
<1>5. \A i \in 1 .. 4 : i = 1 \/ i = 2 \/ i = 3 \/ i = 4
  OBVIOUS
<1> HIDE DEF s, t
<1>6. \A i \in 1 .. Len(s) : s[i] = t[i]
  BY <1>1, <1>2, <1>3, <1>4, <1>5
<1>7. s = t
  BY <1>1, <1>6, SeqEqual
<1> QED
  BY <1>7 DEF s, t

\* A pair encodes to the bytes of both.
LEMMA PairEncodes ==
  ASSUME NEW a \in Byte, NEW b \in Byte, NEW c \in Byte, NEW d \in Byte,
         High(Unit(a, b)), Low(Unit(c, d)),
         NEW r, r = Scalar(Supplementary(Unit(a, b), Unit(c, d)))
  PROVE  r \in Results /\ Encode(r[2]) = <<a, b, c, d>>
<1> DEFINE h == Unit(a, b)
           l == Unit(c, d)
           cp == Supplementary(h, l)
<1>1. Bytes(h) = <<a, b>> /\ Bytes(l) = <<c, d>>
  BY BytesOfUnit
<1>2. h \in 55296 .. 56319 /\ l \in 56320 .. 57343
  BY DEF High, Low
<1> HIDE DEF h, l
<1>3. PICK i, j \in Nat : i < 1024 /\ j < 1024 /\ h = 55296 + i /\ l = 56320 + j
  <2>1. h - 55296 \in Nat /\ l - 56320 \in Nat /\ h - 55296 < 1024 /\ l - 56320 < 1024
    BY <1>2
  <2>2. h = 55296 + (h - 55296) /\ l = 56320 + (l - 56320)
    BY <1>2
  <2> QED
    BY <2>1, <2>2
<1>4. cp = 65536 + (i * 1024 + j)
  BY <1>3 DEF Supplementary
<1>5. /\ cp \in Nat /\ ~(cp <= 65535)
      /\ (cp - 65536) \div 1024 = i /\ (cp - 65536) % 1024 = j
  BY <1>3, <1>4
<1> HIDE DEF cp
<1>6. Encode(cp) = <<a, b>> \o <<c, d>>
  <2>1. 55296 + ((cp - 65536) \div 1024) = h /\ 56320 + ((cp - 65536) % 1024) = l
    BY <1>3, <1>5
  <2>2. Encode(cp) = Bytes(h) \o Bytes(l)
    BY <1>5, <2>1 DEF Encode
  <2> QED
    BY <1>1, <2>2
<1>7. <<a, b>> \o <<c, d>> = <<a, b, c, d>>
  BY TwoAndTwo
<1>8. r = <<"scalar", cp>>
  BY DEF Scalar, cp, h, l
<1> QED
  BY <1>5, <1>6, <1>7, <1>8 DEF Results

LEMMA NextBytes ==
  ASSUME NEW bytes \in Seq(Byte), NEW q \in Nat
  PROVE  /\ q + 2 <= Len(bytes) =>
              SubSeq(bytes, q + 1, q + 2) = <<bytes[q + 1], bytes[q + 2]>>
         /\ q + 4 <= Len(bytes) =>
              SubSeq(bytes, q + 1, q + 4)
                = <<bytes[q + 1], bytes[q + 2], bytes[q + 3], bytes[q + 4]>>
<1>1. ASSUME q + 2 <= Len(bytes)
      PROVE  SubSeq(bytes, q + 1, q + 2) = <<bytes[q + 1], bytes[q + 2]>>
  <2> DEFINE s == SubSeq(bytes, q + 1, q + 2)
             t == <<bytes[q + 1], bytes[q + 2]>>
  <2>1. s \in Seq(Byte) /\ Len(s) = 2 /\ \A i \in 1 .. 2 : s[i] = bytes[q + i]
    <3>1. q + 1 \in 1 .. Len(bytes) + 1 /\ q + 2 \in q + 1 - 1 .. Len(bytes) /\ (q + 2) - (q + 1) + 1 = 2
      BY <1>1
    <3>2. s \in Seq(Byte) /\ Len(s) = 2
      BY <1>1
    <3>3. \A i \in 1 .. 2 : s[i] = bytes[q + 1 + i - 1]
      BY <3>1, SubSeqProperties
    <3>4. \A i \in 1 .. 2 : q + 1 + i - 1 = q + i
      OBVIOUS
    <3> QED
      BY <3>2, <3>3, <3>4
  <2>2. t \in Seq(Byte) /\ Len(t) = 2 /\ t[1] = bytes[q + 1] /\ t[2] = bytes[q + 2]
    BY <1>1
  <2>3. \A i \in 1 .. 2 : i = 1 \/ i = 2
    OBVIOUS
  <2> HIDE DEF s, t
  <2>4. \A i \in 1 .. Len(s) : s[i] = t[i]
    BY <2>1, <2>2, <2>3
  <2>5. s = t
    BY <2>1, <2>2, <2>4, SeqEqual
  <2> QED
    BY <2>5 DEF s, t
<1>2. ASSUME q + 4 <= Len(bytes)
      PROVE  SubSeq(bytes, q + 1, q + 4)
               = <<bytes[q + 1], bytes[q + 2], bytes[q + 3], bytes[q + 4]>>
  <2> DEFINE s == SubSeq(bytes, q + 1, q + 4)
             t == <<bytes[q + 1], bytes[q + 2], bytes[q + 3], bytes[q + 4]>>
  <2>1. s \in Seq(Byte) /\ Len(s) = 4 /\ \A i \in 1 .. 4 : s[i] = bytes[q + i]
    <3>1. q + 1 \in 1 .. Len(bytes) + 1 /\ q + 4 \in q + 1 - 1 .. Len(bytes) /\ (q + 4) - (q + 1) + 1 = 4
      BY <1>2
    <3>2. s \in Seq(Byte) /\ Len(s) = 4
      BY <1>2
    <3>3. \A i \in 1 .. 4 : s[i] = bytes[q + 1 + i - 1]
      BY <3>1, SubSeqProperties
    <3>4. \A i \in 1 .. 4 : q + 1 + i - 1 = q + i
      OBVIOUS
    <3> QED
      BY <3>2, <3>3, <3>4
  <2>2. t \in Seq(Byte) /\ Len(t) = 4 /\ t[1] = bytes[q + 1] /\ t[2] = bytes[q + 2] /\ t[3] = bytes[q + 3] /\ t[4] = bytes[q + 4]
    BY <1>2
  <2>3. \A i \in 1 .. 4 : i = 1 \/ i = 2 \/ i = 3 \/ i = 4
    OBVIOUS
  <2> HIDE DEF s, t
  <2>4. \A i \in 1 .. Len(s) : s[i] = t[i]
    BY <2>1, <2>2, <2>3
  <2>5. s = t
    BY <2>1, <2>2, <2>4, SeqEqual
  <2> QED
    BY <2>5 DEF s, t
<1> QED
  BY <1>1, <1>2

\* An element of its own adds to those before it, and disturbs none.
LEMMA OneMore ==
  ASSUME IInv, ElementsInv, ~Stream!AtMark, Position \in Nat, NEW k \in Nat \ {0}, NEW r \in Results,
         Position' = Position + k, input' = input, Emit(r),
         r[1] = "scalar" => SubSeq(input, Position + 1, Position + k) = Encode(r[2])
  PROVE  ElementsInv'
<1> DEFINE e == [result |-> r, upto |-> Position']
           n == Len(out)
<1>1. n \in Nat /\ e \in Element /\ out' = Append(out, e)
  BY DEF ElementsInv, Emit, Element
<1>2. /\ out' \in Seq(Element) /\ Len(out') = n + 1
      /\ out'[n + 1] = e /\ \A i \in 1 .. n : out'[i] = out[i]
  BY <1>1 DEF ElementsInv
<1>3. e.result = r /\ e.upto = Position + k
  OBVIOUS
<1>4. Position = Start(input, out, n + 1)
  BY DEF ElementsInv
<1> HIDE DEF n, e
<1>5. \A i \in 1 .. n + 1 : Start(input', out', i) = Start(input, out, i)
  BY <1>1, <1>2 DEF Start
<1>6. Position' = Start(input', out', Len(out') + 1)
  BY <1>1, <1>2, <1>3 DEF Start
<1>7. ASSUME NEW i \in 1 .. n PROVE AsRead(input', out', i)
  <2>1. AsRead(input, out, i) /\ out'[i] = out[i] /\ Start(input', out', i) = Start(input, out, i)
    BY <1>1, <1>2, <1>5 DEF ElementsInv, n
  <2> QED
    BY <2>1 DEF AsRead
<1>8. AsRead(input', out', n + 1)
  <2>1. Start(input', out', n + 1) = Position
    BY <1>1, <1>4, <1>5
  <2> QED
    BY <1>2, <1>3, <2>1 DEF AsRead
<1>9. \A i \in 1 .. Len(out') : AsRead(input', out', i)
  BY <1>1, <1>2, <1>7, <1>8
<1>10. Position' # 0
  OBVIOUS
<1> QED
  BY <1>2, <1>6, <1>9, <1>10 DEF ElementsInv

LEMMA InitElements == Init => ElementsInv
<1> SUFFICES ASSUME Init PROVE ElementsInv
  OBVIOUS
<1>1. out = <<>> /\ Len(pending) = 0 /\ current = 0 /\ input \in Seq(Byte)
  BY InputsAssumption DEF Init
<1>2. Len(out) = 0 /\ out \in Seq(Element)
  BY <1>1
<1>3. Position = 0 /\ Len(input) \in Nat
  BY <1>1 DEF Position
<1>4. Stream!AtMark <=> Len(input) >= 2 /\ Unit(input[1], input[2]) = Mark
  <2>1. Position + 1 = 1 /\ Position + 1 + 1 = 2
    BY <1>3
  <2>2. Stream!UnitAt(1) = Unit(input[1], input[2])
    BY <2>1, SameUnits
  <2> QED
    BY <1>3, <2>2, SameUnits DEF Stream!AtMark
<1> QED
  BY <1>1, <1>2, <1>3, <1>4 DEF ElementsInv, Start

LEMMA NextElements == IInv /\ ElementsInv /\ [Next]_vars => ElementsInv'
<1> SUFFICES ASSUME IInv, ElementsInv, [Next]_vars PROVE ElementsInv'
  OBVIOUS
<1>0. input \in Seq(Byte) /\ Position \in Nat /\ Stream!Left = Len(input) - Position
  BY SameUnits DEF IInv, Position, PutBackIsBackingUp
<1>1. Stream!Next \/ UNCHANGED Stream!vars
  BY NextStream
<1> DEFINE b1 == input[Position + 1]
           b2 == input[Position + 2]
           b3 == input[Position + 3]
           b4 == input[Position + 4]
<1>2. Stream!UnitAt(1) = Unit(b1, b2) /\ Stream!UnitAt(3) = Unit(b3, b4)
  <2>1. Position + 1 + 1 = Position + 2 /\ Position + 3 + 1 = Position + 4
    BY <1>0
  <2> QED
    BY <2>1, SameUnits
<1>3. CASE Stream!Pair
  <2> DEFINE r == Scalar(Supplementary(Unit(b1, b2), Unit(b3, b4)))
  <2>1. /\ Stream!Left >= 4 /\ High(Unit(b1, b2)) /\ Low(Unit(b3, b4))
        /\ Position' = Position + 4 /\ Emit(r) /\ input' = input
    BY <1>2, <1>3, SameUnits DEF Stream!Pair
  <2>5. 4 \in Nat \ {0}
    OBVIOUS
  <2>6. ~Stream!AtMark
    BY <1>2, <2>1, SameUnits, MarkIsNotHigh DEF Stream!AtMark
  <2>2. b1 \in Byte /\ b2 \in Byte /\ b3 \in Byte /\ b4 \in Byte
    BY <1>0, <2>1
  <2>3. SubSeq(input, Position + 1, Position + 4) = <<b1, b2, b3, b4>>
    BY <1>0, <2>1, NextBytes
  <2> HIDE DEF b1, b2, b3, b4
  <2>4. r \in Results /\ Encode(r[2]) = <<b1, b2, b3, b4>>
    BY <2>1, <2>2, PairEncodes
  <2> HIDE DEF r
  <2> QED
    BY <1>0, <2>1, <2>3, <2>4, <2>5, <2>6, OneMore
<1>4. CASE Stream!Single
  <2> DEFINE r == UnitResult(Unit(b1, b2))
  <2>5. 2 \in Nat \ {0}
    OBVIOUS
  <2>1. /\ Stream!Left >= 2 /\ Position' = Position + 2 /\ Emit(r) /\ input' = input
        /\ ~Stream!AtMark
    BY <1>2, <1>4, SameUnits DEF Stream!Single
  <2>2. b1 \in Byte /\ b2 \in Byte
    BY <1>0, <2>1
  <2>3. SubSeq(input, Position + 1, Position + 2) = <<b1, b2>>
    BY <1>0, <2>1, NextBytes
  <2> HIDE DEF b1, b2
  <2>4. r \in Results /\ (r[1] = "scalar" => Encode(r[2]) = <<b1, b2>>)
    BY <2>2, UnitEncodes
  <2> HIDE DEF r
  <2> QED
    BY <1>0, <2>1, <2>3, <2>4, <2>5, OneMore
<1>5. CASE Stream!Cut
  <2>1. /\ Stream!Left \in Nat \ {0} /\ Position' = Position + Stream!Left
        /\ Emit(Truncated) /\ input' = input
    BY <1>5, SameUnits DEF Stream!Cut
  <2>3. ~Stream!AtMark
    <3>1. CASE Stream!Left = 1
      BY <3>1 DEF Stream!AtMark
    <3>2. CASE Stream!High(Stream!UnitAt(1))
      BY <3>2, SameUnits, MarkIsNotHigh DEF Stream!AtMark
    <3> QED
      BY <1>5, <3>1, <3>2 DEF Stream!Cut
  <2>2. Truncated \in Results /\ Truncated[1] # "scalar"
    BY DEF Truncated, Results
  <2> QED
    BY <1>0, <2>1, <2>2, <2>3, OneMore
<1>6. CASE Stream!Finish \/ UNCHANGED Stream!vars
  <2>1. input' = input /\ Position' = Position /\ out' = out
    BY <1>6 DEF Stream!Finish, Stream!vars
  <2> QED
    BY <2>1 DEF ElementsInv, Stream!AtMark, Stream!Left, Stream!UnitAt
<1>7. CASE Stream!SkipMark
  <2>1. input' = input /\ out' = out /\ Position' = 2 /\ Position = 0 /\ Stream!AtMark
    BY <1>7 DEF Stream!SkipMark, Stream!AtMark
  <2>2. /\ Len(input) >= 2 /\ Unit(input[1], input[2]) = Mark
    <3>1. Position + 1 = 1 /\ Position + 2 = 2
      BY <2>1
    <3> QED
      BY <1>0, <1>2, <2>1, <3>1, SameUnits DEF Stream!AtMark
  <2>3. Len(out) = 0
    BY <2>1 DEF ElementsInv
  <2> QED
    BY <2>1, <2>2, <2>3 DEF ElementsInv, Start
<1> QED
  BY <1>1, <1>3, <1>4, <1>5, <1>6, <1>7 DEF Stream!Next

\* Every variable keeps its type.
THEOREM TypeCorrect == Spec => []TypeOK
<1>1. IInv /\ ElementsInv => TypeOK
  BY DEF IInv, ElementsInv, TypeOK, Element
<1> QED
  BY <1>1, InitElements, NextElements, Invariance, PTL DEF Spec

\* Whatever is decoded without an error is what encoding its characters gives,
\* in both byte orders and for every input.
THEOREM DecodedEncodes == Spec => []DecodedIsEncoded
<1>1. ElementsInv => DecodedIsEncoded
  BY DEF ElementsInv, DecodedIsEncoded, NoError, AsRead, Start, MarkLength
<1> QED
  BY <1>1, InitElements, NextElements, Invariance, PTL DEF Spec
=============================================================================
