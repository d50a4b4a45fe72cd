---------------------- MODULE Iso2022JpDecoder_proofs ----------------------
(***************************************************************************)
(* Theorems about Iso2022JpDecoder, for every index jis0208 and every set  *)
(* of inputs: bytes put back are backing up, elements advance, nothing is  *)
(* owed at the end, the byte-at-a-time machine implements the stream of    *)
(* tokens of Iso2022JpStream, and a text decodes without an error.         *)
(***************************************************************************)
EXTENDS Iso2022JpDecoder, SequenceTheorems, WellFoundedInduction, TLAPS

USE DEF ASCII, Roman, Katakana, LeadByte, TrailByte, EscapeStart, Escape, Modes,
        ESC, Dollar, LeftParen

\* What the machine remembers of a sequence it is in the middle of: the bytes
\* just before Position are those it has read, and while an escape is being
\* read nothing is put back, so that putting its bytes back overwrites nothing.
SequenceInv ==
  /\ state \in {EscapeStart, Escape} => pending = <<>>
  /\ Len(pending) = 2 => state \in Modes /\ pending[1] # ESC
  /\ state = TrailByte => /\ Position >= 1 /\ lead = input[Position]
                          /\ JisByte(lead)
  /\ state = EscapeStart => Position >= 1 /\ input[Position] = ESC
  /\ state = Escape => /\ Position >= 2 /\ input[Position - 1] = ESC
                       /\ lead = input[Position]
                       /\ lead \in {Dollar, LeftParen}

\* How far the elements reach: not into a sequence being read.
Taken == Position - HalfRead

OutInv ==
  /\ \A i, j \in 1 .. Len(out) : i < j => out[i].upto < out[j].upto
  /\ \A i \in 1 .. Len(out) : out[i].upto <= Taken

IInv ==
  /\ TypeOK
  /\ PutBackIsBackingUp
  /\ ModeToReturnTo
  /\ SequenceInv
  /\ OutInv
  /\ DoneMeansAllDecoded

-----------------------------------------------------------------------------
\* What reading takes from the bytes put back.
LEMMA PendingHasHead ==
  ASSUME TypeOK, pending # <<>>
  PROVE  Len(pending) \in 1 .. 2 /\ Head(pending) = pending[1]
<1>1. pending \in Seq(Byte) /\ Len(pending) <= 2
  BY DEF TypeOK
<1>2. Len(pending) \in Nat /\ Len(pending) # 0
  BY <1>1, EmptySeq
<1>3. Len(pending) \in 1 .. 2
  <2>1. \A n \in Nat : n # 0 /\ n <= 2 => n \in 1 .. 2
    OBVIOUS
  <2> QED
    BY <1>1, <1>2, <2>1
<1>4. Head(pending) = pending[1]
  BY <1>1, <1>2
<1> QED
  BY <1>3, <1>4

\* A byte read is the next byte of the input, wherever it is read from.
LEMMA TheByteIsNext ==
  ASSUME TypeOK, PutBackIsBackingUp, HasByte
  PROVE  /\ Position \in Nat
         /\ Position + 1 \in 1 .. Len(input)
         /\ TheByte = input[Position + 1]
         /\ TheByte \in Byte
<1>1. CASE pending = <<>>
  BY <1>1 DEF TypeOK, PutBackIsBackingUp, HasByte, TheByte, Position
<1>2. CASE pending # <<>>
  <2>1. Len(pending) \in 1 .. 2 /\ Head(pending) = pending[1]
    BY <1>2, PendingHasHead
  <2>2. Head(pending) = input[Position + 1]
    BY <2>1 DEF PutBackIsBackingUp
  <2> QED
    BY <1>2, <2>1, <2>2 DEF TypeOK, PutBackIsBackingUp, TheByte, Position
<1> QED
  BY <1>1, <1>2

\* Reading without putting anything back moves on by that byte.
LEMMA ReadMovesOn ==
  ASSUME TypeOK, PutBackIsBackingUp, Read(Unread)
  PROVE  /\ current' \in 0 .. Len(input)
         /\ pending' \in Seq(Byte)
         /\ Len(pending') <= 2 /\ Len(pending') # 2
         /\ Len(pending) <= 1 => pending' = <<>>
         /\ Position' = Position + 1
         /\ PutBackIsBackingUp'
<1>1. CASE pending = <<>>
  BY <1>1 DEF TypeOK, PutBackIsBackingUp, Read, HasByte, Unread, Position
<1>2. CASE pending # <<>>
  <2>1. /\ Len(pending) \in 1 .. 2
        /\ pending' = Tail(pending)
        /\ current' = current
        /\ input' = input
    BY <1>2, PendingHasHead DEF Read, Unread
  <2>2. /\ pending' \in Seq(Byte)
        /\ Len(pending') = Len(pending) - 1
        /\ \A k \in 1 .. Len(pending') : pending'[k] = pending[k + 1]
    BY <1>2, <2>1 DEF TypeOK
  <2>3. Position' = Position + 1
    BY <2>1, <2>2 DEF TypeOK, Position
  <2>4. \A k \in 1 .. Len(pending') : pending'[k] = input'[Position' + k]
    <3> SUFFICES ASSUME NEW k \in 1 .. Len(pending')
                 PROVE  pending'[k] = input'[Position' + k]
      OBVIOUS
    <3>1. pending'[k] = input[Position + (k + 1)]
      BY <2>1, <2>2 DEF PutBackIsBackingUp
    <3>2. Position + (k + 1) = Position' + k
      BY <2>1, <2>2, <2>3 DEF TypeOK, Position
    <3> QED
      BY <2>1, <3>1, <3>2
  <2> QED
    BY <2>1, <2>2, <2>3, <2>4, SMTT(30) DEF TypeOK, PutBackIsBackingUp
<1> QED
  BY <1>1, <1>2

\* One byte put back while nothing is: the decoder stays where it was.
LEMMA ReadAndPutBack ==
  ASSUME TypeOK, PutBackIsBackingUp, pending = <<>>, Read(<<TheByte>>)
  PROVE  /\ current' \in 0 .. Len(input)
         /\ pending' \in Seq(Byte)
         /\ Len(pending') = 1
         /\ Position' = Position
         /\ PutBackIsBackingUp'
<1>1. TheByte = input[Position + 1] /\ TheByte \in Byte
  BY TheByteIsNext DEF Read
<1> QED
  BY <1>1 DEF TypeOK, PutBackIsBackingUp, Read, HasByte, Position

\* Two bytes put back, the one read before this one among them.
LEMMA ReadAndPutBackTwo ==
  ASSUME TypeOK, PutBackIsBackingUp, pending = <<>>, Read(<<lead, TheByte>>),
         Position >= 2, lead = input[Position]
  PROVE  /\ current' \in 0 .. Len(input)
         /\ pending' \in Seq(Byte)
         /\ Len(pending') = 2
         /\ pending'[1] = lead
         /\ Position' = Position - 1
         /\ PutBackIsBackingUp'
<1>1. TheByte = input[Position + 1] /\ TheByte \in Byte
  BY TheByteIsNext DEF Read
<1>2. pending' = <<lead, TheByte>> /\ current' = current + 1 /\ input' = input
  BY DEF Read
<1>3. Len(pending') = 2 /\ pending'[1] = lead /\ pending'[2] = TheByte
  BY <1>2
<1>4. Position' = Position - 1 /\ Position = current
  BY <1>2, <1>3 DEF TypeOK, Position
<1> QED
  BY <1>1, <1>2, <1>3, <1>4 DEF TypeOK, PutBackIsBackingUp, Read, HasByte

LEMMA UptoIsNat ==
  ASSUME out \in Seq(Elements)
  PROVE  \A i \in 1 .. Len(out) : out[i].upto \in Nat
<1> SUFFICES ASSUME NEW i \in 1 .. Len(out)
             PROVE  out[i].upto \in Nat
  OBVIOUS
<1>1. out[i] \in Elements
  BY ElementOfSeq
<1> QED
  BY <1>1 DEF Elements

\* What an element appended at the new position does to the elements.
LEMMA EmitAdvances ==
  ASSUME TypeOK, OutInv, NEW r \in Results, Emit(r),
         Position' \in Nat, Taken \in Int, Taken' = Position',
         Taken < Position'
  PROVE  out' \in Seq(Elements) /\ OutInv'
<1> DEFINE e == [result |-> r, upto |-> Position']
<1>1. out' = Append(out, e) /\ e \in Elements /\ e.upto = Position'
  BY DEF Emit, Elements
<1>2. /\ out' \in Seq(Elements)
      /\ Len(out') = Len(out) + 1
      /\ \A i \in 1 .. Len(out) : out'[i] = out[i]
      /\ out'[Len(out) + 1] = e
  BY <1>1, AppendProperties DEF TypeOK
<1>3. \A i \in 1 .. Len(out) : out[i].upto \in Nat
  BY UptoIsNat DEF TypeOK
<1>4. Len(out) \in Nat /\ \A i \in 1 .. Len(out) : out'[i].upto < Position'
  BY <1>2, <1>3, SMTT(30) DEF OutInv, TypeOK
<1>5. \A i \in 1 .. Len(out') : out'[i].upto <= Taken'
  <2> SUFFICES ASSUME NEW i \in 1 .. Len(out')
               PROVE  out'[i].upto <= Taken'
    OBVIOUS
  <2>1. CASE i \in 1 .. Len(out)
    BY <1>2, <1>3, <1>4, <2>1
  <2>2. CASE i = Len(out) + 1
    BY <1>1, <1>2, <2>2
  <2> QED
    BY <1>2, <1>4, <2>1, <2>2
<1>6. \A i, j \in 1 .. Len(out') : i < j => out'[i].upto < out'[j].upto
  <2> SUFFICES ASSUME NEW i \in 1 .. Len(out'), NEW j \in 1 .. Len(out'), i < j
               PROVE  out'[i].upto < out'[j].upto
    OBVIOUS
  <2>1. i \in 1 .. Len(out)
    BY <1>2, <1>4
  <2>2. CASE j \in 1 .. Len(out)
    BY <1>2, <2>1, <2>2 DEF OutInv
  <2>3. CASE j = Len(out) + 1
    BY <1>1, <1>2, <1>4, <2>1, <2>3
  <2>4. j \in 1 .. Len(out) \/ j = Len(out) + 1
    BY <1>2, <1>4
  <2> QED
    BY <2>2, <2>3, <2>4
<1> QED
  BY <1>2, <1>5, <1>6 DEF OutInv

\* The elements stay as they are while the decoder moves on.
LEMMA SilentAdvances ==
  ASSUME TypeOK, OutInv, out' = out, Taken \in Int, Taken' \in Int, Taken <= Taken'
  PROVE  out' \in Seq(Elements) /\ OutInv'
<1>1. out \in Seq(Elements) /\ \A i \in 1 .. Len(out) : out[i].upto \in Nat
  BY UptoIsNat DEF TypeOK
<1>2. \A i \in 1 .. Len(out) : out[i].upto <= Taken'
  BY <1>1 DEF OutInv
<1> QED
  BY <1>1, <1>2 DEF OutInv

\* What a byte or a pair decodes to is a result.
LEMMA ResultsAreResults ==
  /\ Invalid \in Results
  /\ Truncated \in Results
  /\ \A m \in {ASCII, Roman, Katakana}, b \in Byte : PlainResult(m, b) \in Results
  /\ \A l, t \in Byte : JisByte(l) => PairResult(l, t) \in Results
<1>1. Invalid \in Results /\ Truncated \in Results
  BY DEF Results
<1>2. \A n \in Nat : Scalar(n) \in Results
  BY DEF Results, Scalar
<1>3. ASSUME NEW m \in {ASCII, Roman, Katakana}, NEW b \in Byte
      PROVE  PlainResult(m, b) \in Results
  <2>1. Scalar(b) \in Results /\ Scalar(Yen) \in Results /\ Scalar(Overline) \in Results
    BY <1>2 DEF Byte, Yen, Overline
  <2>2. b \in 33 .. 95 => Scalar(65377 + b - 33) \in Results
    BY <1>2
  <2> QED
    BY <1>1, <2>1, <2>2 DEF PlainResult
<1>4. ASSUME NEW l \in Byte, NEW t \in Byte, JisByte(l)
      PROVE  PairResult(l, t) \in Results
  <2>1. JisByte(t) => PairPointer(l, t) \in Pointers
    BY <1>4, SMTT(30) DEF JisByte, PairPointer, Pointers
  <2>2. JisByte(t) => Jis0208[PairPointer(l, t)] \in Nat
    BY <2>1, Jis0208Assumption
  <2> QED
    BY <1>1, <1>2, <2>2, SMTT(30) DEF PairResult
<1> QED
  BY <1>1, <1>3, <1>4

-----------------------------------------------------------------------------
\* Nothing is read once the end has been reported.
LEMMA ReadMeansNotDone ==
  ASSUME TypeOK, DoneMeansAllDecoded, HasByte
  PROVE  ~done
BY DEF TypeOK, DoneMeansAllDecoded, AtEnd, Position, HasByte

LEMMA InitIInv == Init => IInv
<1> SUFFICES ASSUME Init PROVE IInv
  OBVIOUS
<1>1. input \in Seq(Byte)
  BY InputsAssumption DEF Init
<1>2. Len(pending) = 0 /\ Len(out) = 0 /\ pending \in Seq(Byte) /\ out \in Seq(Elements)
  BY DEF Init
<1>3. TypeOK
  <2>1. output_flag \in BOOLEAN /\ done \in BOOLEAN
    BY DEF Init
  <2> QED
    BY <1>1, <1>2, <2>1 DEF Init, TypeOK, Byte
<1>4. PutBackIsBackingUp /\ OutInv
  BY <1>2 DEF Init, PutBackIsBackingUp, OutInv
<1>5. ModeToReturnTo /\ SequenceInv /\ DoneMeansAllDecoded
  BY <1>2 DEF Init, ModeToReturnTo, SequenceInv, DoneMeansAllDecoded
<1> QED
  BY <1>3, <1>4, <1>5 DEF IInv

\* No step leaves output_flag anything but a flag.
LEMMA FlagIsBoolean ==
  ASSUME TypeOK, [Next]_vars
  PROVE  output_flag' \in BOOLEAN
<1> output_flag \in BOOLEAN
  BY DEF TypeOK
<1> QED
  BY DEF Next, DecodeByte, EscapeStartIntermediate, EscapeStartOther, EscapeSwitch,
     EscapeOther, BeginEscape, ReadLead, ReadTrail, ReadPlain, Finish,
     TruncatedPairOrEscape, TruncatedIntermediate, Fail, vars

LEMMA NextIInv == IInv /\ [Next]_vars => IInv'
<1> SUFFICES ASSUME IInv, [Next]_vars PROVE IInv'
  OBVIOUS
<1> USE DEF IInv
<1>1. CASE EscapeStartIntermediate
  <2>1. /\ state = EscapeStart /\ pending = <<>> /\ Len(pending) = 0
        /\ Read(Unread) /\ HasByte /\ input' = input /\ done' = done
        /\ state' = Escape /\ out' = out /\ lead' = TheByte
        /\ TheByte \in {Dollar, LeftParen}
        /\ output_state' = output_state
    BY <1>1 DEF EscapeStartIntermediate, SequenceInv, Read
  <2>2. /\ Position \in Nat /\ TheByte = input[Position + 1] /\ TheByte \in Byte
        /\ pending' = <<>> /\ Len(pending') = 0
        /\ current' \in 0 .. Len(input) /\ pending' \in Seq(Byte)
        /\ Position' = Position + 1 /\ PutBackIsBackingUp'
    BY <2>1, TheByteIsNext, ReadMovesOn
  <2>3. Taken \in Int /\ Taken' = Taken
    BY <2>1, <2>2 DEF Taken, HalfRead
  <2>4. OutInv' /\ out' \in Seq(Elements)
    BY <2>1, <2>3, SilentAdvances
  <2>5. TypeOK'
    BY FlagIsBoolean, <2>1, <2>2, <2>4 DEF TypeOK
  <2>6. SequenceInv'
    BY <2>1, <2>2 DEF SequenceInv
  <2>7. ModeToReturnTo' /\ DoneMeansAllDecoded'
    BY <2>1, ReadMeansNotDone DEF ModeToReturnTo, DoneMeansAllDecoded
  <2> QED
    BY <2>2, <2>4, <2>5, <2>6, <2>7
<1>2. CASE EscapeStartOther
  <2>1. /\ state = EscapeStart /\ pending = <<>> /\ Len(pending) = 0
        /\ Read(<<TheByte>>) /\ HasByte /\ input' = input /\ done' = done
        /\ state' = output_state /\ Emit(Invalid) /\ lead' = lead
        /\ output_state' = output_state
    BY <1>2 DEF EscapeStartOther, SequenceInv, Read, Fail
  <2>2. /\ Position \in Nat
        /\ Len(pending') = 1
        /\ current' \in 0 .. Len(input) /\ pending' \in Seq(Byte)
        /\ Position' = Position /\ PutBackIsBackingUp'
    BY <2>1, TheByteIsNext, ReadAndPutBack
  <2>3. state' \in {0, 1, 2, 3}
    BY <2>1 DEF TypeOK
  <2>4. Taken \in Int /\ Taken = Position - 1 /\ Taken' = Position'
    BY <2>1, <2>2, <2>3, SMTT(30) DEF Taken, HalfRead
  <2>5. OutInv' /\ out' \in Seq(Elements)
    BY <2>1, <2>2, <2>4, EmitAdvances, ResultsAreResults
  <2>6. TypeOK'
    BY FlagIsBoolean, <2>1, <2>2, <2>3, <2>5 DEF TypeOK
  <2>7. SequenceInv'
    BY <2>2, <2>3 DEF SequenceInv
  <2>8. ModeToReturnTo' /\ DoneMeansAllDecoded'
    BY <2>1, <2>3, ReadMeansNotDone DEF ModeToReturnTo, DoneMeansAllDecoded
  <2> QED
    BY <2>2, <2>5, <2>6, <2>7, <2>8
<1>3. ASSUME NEW m \in Modes, EscapeSwitch(m)
      PROVE  IInv'
  <2>1. /\ state = Escape /\ pending = <<>> /\ Len(pending) = 0
        /\ Read(Unread) /\ HasByte /\ input' = input /\ done' = done
        /\ state' = m /\ lead' = 0 /\ output_state' = m
        /\ Emit(Invalid) \/ out' = out
    BY <1>3 DEF EscapeSwitch, SequenceInv, Read
  <2>2. /\ Position \in Nat
        /\ pending' = <<>> /\ Len(pending') = 0
        /\ current' \in 0 .. Len(input) /\ pending' \in Seq(Byte)
        /\ Position' = Position + 1 /\ PutBackIsBackingUp'
    BY <2>1, TheByteIsNext, ReadMovesOn
  <2>3. Taken \in Int /\ Taken = Position - 2 /\ Taken' = Position'
    BY <2>1, <2>2, SMTT(30) DEF Taken, HalfRead
  <2>4. OutInv' /\ out' \in Seq(Elements)
    BY <2>1, <2>2, <2>3, EmitAdvances, SilentAdvances, ResultsAreResults
  <2>5. TypeOK'
    BY FlagIsBoolean, <2>1, <2>2, <2>4 DEF TypeOK, Byte
  <2>6. SequenceInv'
    BY <2>1, <2>2 DEF SequenceInv
  <2>7. ModeToReturnTo' /\ DoneMeansAllDecoded'
    BY <2>1, ReadMeansNotDone DEF ModeToReturnTo, DoneMeansAllDecoded
  <2> QED
    BY <2>2, <2>4, <2>5, <2>6, <2>7
<1>4. CASE EscapeOther
  <2>1. /\ state = Escape /\ pending = <<>> /\ Len(pending) = 0
        /\ Position >= 2 /\ lead = input[Position] /\ lead \in {Dollar, LeftParen}
        /\ Read(<<lead, TheByte>>) /\ HasByte /\ input' = input /\ done' = done
        /\ state' = output_state /\ Emit(Invalid) /\ lead' = 0
        /\ output_state' = output_state
    BY <1>4 DEF EscapeOther, SequenceInv, Read, Fail
  <2>2. /\ Position \in Nat /\ Position' \in Nat
        /\ Len(pending') = 2 /\ pending'[1] = lead
        /\ current' \in 0 .. Len(input) /\ pending' \in Seq(Byte)
        /\ Position' = Position - 1 /\ PutBackIsBackingUp'
    BY <2>1, TheByteIsNext, ReadAndPutBackTwo, SMTT(30)
  <2>3. state' \in {0, 1, 2, 3}
    BY <2>1 DEF TypeOK
  <2>4. Taken \in Int /\ Taken = Position - 2 /\ Taken' = Position'
    <3>1. HalfRead = 2
      BY <2>1 DEF HalfRead
    <3>2. HalfRead' = 0
      BY <2>3 DEF HalfRead
    <3> QED
      BY <2>2, <3>1, <3>2 DEF Taken
  <2>5. OutInv' /\ out' \in Seq(Elements)
    BY <2>1, <2>2, <2>4, EmitAdvances, ResultsAreResults
  <2>6. TypeOK'
    BY FlagIsBoolean, <2>1, <2>2, <2>3, <2>5 DEF TypeOK, Byte
  <2>7. SequenceInv'
    BY <2>1, <2>2, <2>3 DEF SequenceInv
  <2>8. ModeToReturnTo' /\ DoneMeansAllDecoded'
    BY <2>1, <2>3, ReadMeansNotDone DEF ModeToReturnTo, DoneMeansAllDecoded
  <2> QED
    BY <2>2, <2>5, <2>6, <2>7, <2>8
<1>5. CASE BeginEscape
  <2>1. /\ state \in Modes \cup {TrailByte}
        /\ Read(Unread) /\ HasByte /\ TheByte = ESC
        /\ input' = input /\ done' = done /\ state' = EscapeStart
        /\ out' = out /\ lead' = lead
        /\ output_state' = output_state
    BY <1>5 DEF BeginEscape, Read
  <2>2. Len(pending) <= 1
    <3>1. CASE pending = <<>>
      BY <3>1
    <3>2. CASE pending # <<>>
      <4>1. Len(pending) \in 1 .. 2 /\ pending[1] = ESC
        BY <3>2, <2>1, PendingHasHead DEF TheByte
      <4>2. Len(pending) # 2
        BY <4>1 DEF SequenceInv
      <4> QED
        BY <4>1, <4>2
    <3> QED
      BY <3>1, <3>2
  <2>3. /\ Position \in Nat /\ TheByte = input[Position + 1]
        /\ pending' = <<>> /\ Len(pending') = 0
        /\ current' \in 0 .. Len(input) /\ pending' \in Seq(Byte)
        /\ Position' = Position + 1 /\ PutBackIsBackingUp'
    BY <2>1, <2>2, TheByteIsNext, ReadMovesOn
  <2>4. Taken \in Int /\ Taken <= Position /\ Taken' = Position
    BY <2>1, <2>3, SMTT(30) DEF Taken, HalfRead
  <2>5. OutInv' /\ out' \in Seq(Elements)
    BY <2>1, <2>3, <2>4, SilentAdvances
  <2>6. TypeOK'
    BY FlagIsBoolean, <2>1, <2>3, <2>5 DEF TypeOK
  <2>7. SequenceInv'
    BY <2>1, <2>3 DEF SequenceInv
  <2>8. ModeToReturnTo' /\ DoneMeansAllDecoded'
    BY <2>1, ReadMeansNotDone DEF ModeToReturnTo, DoneMeansAllDecoded
  <2> QED
    BY <2>3, <2>5, <2>6, <2>7, <2>8
<1>6. CASE ReadLead
  <2>1. /\ state = LeadByte /\ output_state = LeadByte
        /\ Read(Unread) /\ HasByte /\ input' = input /\ done' = done
        /\ output_state' = output_state
        /\ \/ /\ JisByte(TheByte) /\ lead' = TheByte /\ state' = TrailByte
              /\ out' = out
           \/ /\ Emit(Invalid) /\ lead' = lead /\ state' = LeadByte
             
    BY <1>6 DEF ReadLead, Read, Fail, ModeToReturnTo
  <2>2. /\ Position \in Nat /\ TheByte = input[Position + 1] /\ TheByte \in Byte
        /\ Len(pending') <= 2 /\ Len(pending') # 2
        /\ current' \in 0 .. Len(input) /\ pending' \in Seq(Byte)
        /\ Position' = Position + 1 /\ PutBackIsBackingUp'
    BY <2>1, TheByteIsNext, ReadMovesOn
  <2>3. Taken \in Int /\ Taken = Position
        /\ (state' = TrailByte => Taken' = Position)
        /\ (state' = LeadByte => Taken' = Position')
    <3>1. HalfRead = 0
      BY <2>1 DEF HalfRead
    <3>2. (state' = TrailByte => HalfRead' = 1) /\ (state' = LeadByte => HalfRead' = 0)
      BY DEF HalfRead
    <3> QED
      BY <2>2, <3>1, <3>2 DEF Taken
  <2>4. OutInv' /\ out' \in Seq(Elements)
    BY <2>1, <2>2, <2>3, EmitAdvances, SilentAdvances, ResultsAreResults
  <2>5. TypeOK'
    BY FlagIsBoolean, <2>1, <2>2, <2>4, SMTT(30) DEF TypeOK
  <2>6. SequenceInv'
    BY <2>1, <2>2 DEF SequenceInv
  <2>7. ModeToReturnTo' /\ DoneMeansAllDecoded'
    BY <2>1, ReadMeansNotDone DEF ModeToReturnTo, DoneMeansAllDecoded
  <2> QED
    BY <2>2, <2>4, <2>5, <2>6, <2>7
<1>7. CASE ReadTrail
  <2>1. /\ state = TrailByte /\ output_state = LeadByte /\ lead \in Byte
        /\ JisByte(lead) /\ Read(Unread) /\ HasByte /\ input' = input
        /\ done' = done /\ state' = LeadByte /\ lead' = lead
        /\ output_state' = output_state
        /\ Emit(PairResult(lead, TheByte))
    BY <1>7 DEF ReadTrail, Read, Fail, ModeToReturnTo, SequenceInv, TypeOK
  <2>2. /\ Position \in Nat /\ TheByte \in Byte
        /\ Len(pending') <= 2 /\ Len(pending') # 2
        /\ current' \in 0 .. Len(input) /\ pending' \in Seq(Byte)
        /\ Position' = Position + 1 /\ PutBackIsBackingUp'
    BY <2>1, TheByteIsNext, ReadMovesOn
  <2>3. Taken \in Int /\ Taken = Position - 1 /\ Taken' = Position'
    BY <2>1, <2>2 DEF Taken, HalfRead
  <2>4. PairResult(lead, TheByte) \in Results
    BY <2>1, <2>2, ResultsAreResults
  <2>5. OutInv' /\ out' \in Seq(Elements)
    BY <2>1, <2>2, <2>3, <2>4, EmitAdvances
  <2>6. TypeOK'
    BY FlagIsBoolean, <2>1, <2>2, <2>5 DEF TypeOK
  <2>7. SequenceInv'
    BY <2>1, <2>2 DEF SequenceInv
  <2>8. ModeToReturnTo' /\ DoneMeansAllDecoded'
    BY <2>1, ReadMeansNotDone DEF ModeToReturnTo, DoneMeansAllDecoded
  <2> QED
    BY <2>2, <2>5, <2>6, <2>7, <2>8
<1>8. CASE ReadPlain
  <2>1. /\ state \in {ASCII, Roman, Katakana} /\ output_state = state
        /\ Read(Unread) /\ HasByte /\ input' = input
        /\ done' = done /\ state' = state /\ lead' = lead
        /\ output_state' = output_state
        /\ Emit(PlainResult(state, TheByte))
    BY <1>8 DEF ReadPlain, Read, ModeToReturnTo
  <2>2. /\ Position \in Nat /\ TheByte \in Byte
        /\ Len(pending') <= 2 /\ Len(pending') # 2
        /\ current' \in 0 .. Len(input) /\ pending' \in Seq(Byte)
        /\ Position' = Position + 1 /\ PutBackIsBackingUp'
    BY <2>1, TheByteIsNext, ReadMovesOn
  <2>3. Taken \in Int /\ Taken = Position /\ Taken' = Position'
    BY <2>1, <2>2 DEF Taken, HalfRead
  <2>4. PlainResult(state, TheByte) \in Results
    BY <2>1, <2>2, ResultsAreResults
  <2>5. OutInv' /\ out' \in Seq(Elements)
    BY <2>1, <2>2, <2>3, <2>4, EmitAdvances
  <2>6. TypeOK'
    BY FlagIsBoolean, <2>1, <2>2, <2>5 DEF TypeOK
  <2>7. SequenceInv'
    BY <2>1, <2>2 DEF SequenceInv
  <2>8. ModeToReturnTo' /\ DoneMeansAllDecoded'
    BY <2>1, ReadMeansNotDone DEF ModeToReturnTo, DoneMeansAllDecoded
  <2> QED
    BY <2>2, <2>5, <2>6, <2>7, <2>8
<1>9. CASE Finish
  <2>1. /\ pending = <<>> /\ Len(pending) = 0 /\ current = Len(input)
        /\ AtEnd /\ done' = TRUE
        /\ UNCHANGED <<input, current, state, output_state, output_flag, lead,
                       pending, out>>
    BY <1>9 DEF Finish, EndOfInput, AtEnd, HasByte, TypeOK
  <2>2. TypeOK' /\ PutBackIsBackingUp' /\ ModeToReturnTo' /\ SequenceInv' /\ OutInv'
    BY <2>1 DEF TypeOK, PutBackIsBackingUp, ModeToReturnTo, SequenceInv, OutInv,
       Taken, HalfRead, Position
  <2>3. DoneMeansAllDecoded'
    BY <2>1 DEF DoneMeansAllDecoded, AtEnd, Position, TypeOK
  <2> QED
    BY <2>2, <2>3
<1>10. CASE TruncatedPairOrEscape
  <2>1. /\ state \in {TrailByte, EscapeStart} /\ pending = <<>> /\ Len(pending) = 0
        /\ current = Len(input) /\ ~done /\ done' = done
        /\ state' = output_state /\ Emit(Truncated)
        /\ UNCHANGED <<input, current, output_state, lead, pending>>
    BY <1>10 DEF TruncatedPairOrEscape, EndOfInput, HasByte, Fail, TypeOK
  <2>2. state' \in {0, 1, 2, 3}
    BY <2>1 DEF TypeOK
  <2>3. /\ Position \in Nat /\ Position' = Position
        /\ Taken \in Int /\ Taken = Position - 1 /\ Taken' = Position'
    BY <2>1, <2>2 DEF Taken, HalfRead, Position, TypeOK
  <2>4. OutInv' /\ out' \in Seq(Elements)
    BY <2>1, <2>3, EmitAdvances, ResultsAreResults
  <2>5. TypeOK' /\ PutBackIsBackingUp'
    BY FlagIsBoolean, <2>1, <2>2, <2>4 DEF TypeOK, PutBackIsBackingUp, Position
  <2>6. ModeToReturnTo' /\ SequenceInv' /\ DoneMeansAllDecoded'
    BY <2>1, <2>2 DEF ModeToReturnTo, SequenceInv, DoneMeansAllDecoded
  <2> QED
    BY <2>4, <2>5, <2>6
<1>11. CASE TruncatedIntermediate
  <2>1. /\ state = Escape /\ pending = <<>> /\ Len(pending) = 0
        /\ current = Len(input) /\ current >= 2 /\ ~done /\ done' = done
        /\ lead = input[current] /\ lead \in Byte
        /\ state' = output_state /\ Emit(Truncated)
        /\ pending' = <<lead>> /\ lead' = 0
        /\ UNCHANGED <<input, current, output_state>>
    BY <1>11 DEF TruncatedIntermediate, EndOfInput, HasByte, Fail, TypeOK,
       SequenceInv, Position
  <2>2. state' \in {0, 1, 2, 3}
    BY <2>1 DEF TypeOK
  <2>3. /\ Len(pending') = 1 /\ pending' \in Seq(Byte)
        /\ Position = current /\ Position' = current - 1 /\ Position' \in Nat
        /\ Taken \in Int /\ Taken = Position - 2 /\ Taken' = Position'
    BY <2>1, <2>2 DEF Taken, HalfRead, Position, TypeOK
  <2>4. OutInv' /\ out' \in Seq(Elements)
    BY <2>1, <2>3, EmitAdvances, ResultsAreResults, SMTT(30)
  <2>5. TypeOK' /\ PutBackIsBackingUp'
    BY FlagIsBoolean, <2>1, <2>2, <2>3, <2>4 DEF TypeOK, PutBackIsBackingUp, Byte
  <2>6. ModeToReturnTo' /\ SequenceInv' /\ DoneMeansAllDecoded'
    BY <2>1, <2>2, <2>3 DEF ModeToReturnTo, SequenceInv, DoneMeansAllDecoded
  <2> QED
    BY <2>4, <2>5, <2>6
<1>12. CASE UNCHANGED vars
  BY <1>12 DEF vars, TypeOK, PutBackIsBackingUp, ModeToReturnTo, SequenceInv,
     OutInv, DoneMeansAllDecoded, AtEnd, Taken, HalfRead, Position
<1> QED
  BY <1>1, <1>2, <1>3, <1>4, <1>5, <1>6, <1>7, <1>8, <1>9, <1>10, <1>11, <1>12
     DEF Next, DecodeByte

\* The strengthened invariant holds in every reachable state.
THEOREM Invariance == Spec => []IInv
BY InitIInv, NextIInv, PTL DEF Spec

\* Every variable of the decoder keeps the values its declaration allows.
THEOREM TypeCorrect == Spec => []TypeOK
<1>1. IInv => TypeOK
  BY DEF IInv
<1> QED
  BY <1>1, Invariance, PTL

\* What `pending` holds is the end of what the iterator has passed: reading it
\* again is the backing up an input iterator cannot do.
THEOREM PutBackCorrect == Spec => []PutBackIsBackingUp
<1>1. IInv => PutBackIsBackingUp
  BY DEF IInv
<1> QED
  BY <1>1, Invariance, PTL

\* The mode an error returns the machine to is the mode it is in.
THEOREM ModeCorrect == Spec => []ModeToReturnTo
<1>1. IInv => ModeToReturnTo
  BY DEF IInv
<1> QED
  BY <1>1, Invariance, PTL

\* The view ends only when every byte has been decoded and nothing is owed.
THEOREM DoneCorrect == Spec => []DoneMeansAllDecoded
<1>1. IInv => DoneMeansAllDecoded
  BY DEF IInv
<1> QED
  BY <1>1, Invariance, PTL

\* Each element ends further into the input than the one before it.
THEOREM Progress == Spec => []ElementsAdvance
<1>1. ASSUME IInv PROVE ElementsAdvance
  <2>1. Len(pending) \in Nat /\ Position \in Int /\ Taken <= Position /\ Taken \in Int
    BY <1>1 DEF IInv, TypeOK, Position, Taken, HalfRead
  <2>2. \A i \in 1 .. Len(out) : out[i].upto \in Nat
    BY <1>1, UptoIsNat DEF IInv, TypeOK
  <2> QED
    BY <1>1, <2>1, <2>2 DEF IInv, OutInv, ElementsAdvance
<1> QED
  BY <1>1, Invariance, PTL

-----------------------------------------------------------------------------
(***************************************************************************)
(* The decoder that reads an input iterator one byte at a time implements  *)
(* the stream of tokens of Iso2022JpStream: each of its steps is a step of *)
(* the stream, or one the stream does not see, under the mapping of        *)
(* Iso2022JpDecoder (pos <- Taken).                                        *)
(***************************************************************************)
\* The two specifications read the same codes.
LEMMA SameCodes ==
  /\ Stream!Invalid = Invalid /\ Stream!Truncated = Truncated
  /\ Stream!ESC = 27 /\ Stream!Dollar = 36 /\ Stream!LeftParen = 40
  /\ Stream!LeadByte = 3 /\ Stream!ASCII = 0 /\ Stream!Modes = Modes
  /\ \A i, f, m : Stream!Designates(i, f, m) <=> Designates(i, f, m)
  /\ \A b : Stream!JisByte(b) <=> JisByte(b)
  /\ \A m \in 0 .. 2 : \A b : Stream!PlainResult(m, b) = PlainResult(m, b)
  /\ \A l, t : Stream!PairResult(l, t) = PairResult(l, t)
<1>1. /\ Stream!Invalid = Invalid /\ Stream!Truncated = Truncated
      /\ Stream!ESC = 27 /\ Stream!Dollar = 36 /\ Stream!LeftParen = 40
      /\ Stream!LeadByte = 3 /\ Stream!ASCII = 0 /\ Stream!Modes = Modes
  BY DEF Stream!Invalid, Invalid, Stream!Truncated, Truncated, Stream!ESC,
     Stream!Dollar, Stream!LeftParen, Stream!LeadByte, Stream!ASCII, Stream!Modes
<1>2. \A i, f, m : Stream!Designates(i, f, m) <=> Designates(i, f, m)
  BY DEF Stream!Designates, Designates, Stream!LeftParen, Stream!Dollar, Stream!ASCII,
     Stream!Roman, Stream!Katakana, Stream!LeadByte, Stream!LetterB, Stream!LetterI,
     Stream!LetterJ, Stream!CommercialAt, LetterB, LetterI, LetterJ, CommercialAt
<1>3. \A b : Stream!JisByte(b) <=> JisByte(b)
  BY DEF Stream!JisByte, JisByte
<1>4. \A n : Stream!Scalar(n) = Scalar(n)
  BY DEF Stream!Scalar, Scalar
<1>5. \A m \in 0 .. 2 : \A b : Stream!PlainResult(m, b) = PlainResult(m, b)
  BY <1>1, <1>4 DEF Stream!PlainResult, PlainResult, Stream!SO, SO, Stream!SI, SI,
     Stream!Backslash, Backslash, Stream!Tilde, Tilde, Stream!Yen, Yen,
     Stream!Overline, Overline, Stream!ASCII, Stream!Roman, Stream!Katakana
<1>6. \A l, t : Stream!PairPointer(l, t) = PairPointer(l, t)
  BY DEF Stream!PairPointer, PairPointer
<1>7. \A l, t : Stream!PairResult(l, t) = PairResult(l, t)
  BY <1>1, <1>3, <1>4, <1>6 DEF Stream!PairResult, PairResult
<1> QED
  BY <1>1, <1>2, <1>3, <1>5, <1>7

LEMMA InitStream == Init => Stream!Init
<1> SUFFICES ASSUME Init PROVE Stream!Init
  OBVIOUS
<1>1. Position - HalfRead = 0
  <2>1. Len(pending) = 0 /\ current = 0 /\ state = 0
    BY DEF Init
  <2> QED
    BY <2>1 DEF Position, HalfRead
<1> QED
  BY <1>1 DEF Init, Stream!Init, Stream!ASCII

\* What the stream looks at and does, in terms of the decoder.
LEMMA StreamReads ==
  /\ \A k : Stream!Ahead(k) = input[Taken + k]
  /\ \A k : Stream!Has(k) <=> Taken + k <= Len(input)
  /\ \A k : Stream!Take(k) <=> Taken' = Taken + k
  /\ \A r : Stream!Emit(r) <=> out' = Append(out, [result |-> r, upto |-> Taken'])
BY DEF Stream!Ahead, Stream!Has, Stream!Take, Stream!Emit, Taken

\* Giving an escape sequence up leaves its ESC behind as one malformed byte.
LEMMA GiveUp ==
  ASSUME Taken \in Nat, Taken + 1 <= Len(input), input[Taken + 1] = ESC,
         \A m \in Modes : ~Stream!EscapeTo(m),
         \/ Stream!CutEscape /\ Emit(Truncated)
         \/ ~Stream!CutEscape /\ Emit(Invalid),
         Taken' = Taken + 1, Position' = Taken', output_flag' = FALSE,
         UNCHANGED <<input, output_state, done>>
  PROVE  Stream!StrayEscape
<1>1. Stream!Has(1) /\ Stream!Ahead(1) = Stream!ESC /\ Stream!Take(1)
  BY StreamReads, SameCodes
<1>2. \/ Stream!CutEscape /\ Stream!Emit(Stream!Truncated)
      \/ ~Stream!CutEscape /\ Stream!Emit(Stream!Invalid)
  BY StreamReads, SameCodes DEF Emit
<1>3. Stream!Emit(IF Stream!CutEscape THEN Stream!Truncated ELSE Stream!Invalid)
  BY <1>2
<1>4. \A m \in Stream!Modes : ~Stream!EscapeTo(m)
  BY SameCodes
<1> QED
  BY <1>1, <1>3, <1>4 DEF Stream!StrayEscape

LEMMA EscapeStartIntermediateStutters ==
  ASSUME IInv, EscapeStartIntermediate
  PROVE  UNCHANGED Stream!vars
<1>1. /\ state = EscapeStart /\ pending = <<>> /\ state' = Escape /\ Read(Unread)
      /\ UNCHANGED <<input, output_state, output_flag, out, done>>
  BY DEF IInv, SequenceInv, EscapeStartIntermediate, Read
<1>2. Position' = Position + 1 /\ Position \in Nat
  BY <1>1, ReadMovesOn, TheByteIsNext DEF IInv, Read
<1>3. Taken' = Taken
  BY <1>1, <1>2 DEF Taken, HalfRead
<1> QED
  BY <1>1, <1>3 DEF Stream!vars, Taken

LEMMA EscapeStartOtherGivesUp ==
  ASSUME IInv, EscapeStartOther
  PROVE  Stream!StrayEscape
<1>1. /\ state = EscapeStart /\ pending = <<>> /\ state' = output_state
      /\ Read(<<TheByte>>) /\ HasByte /\ TheByte \notin {Dollar, LeftParen}
      /\ output_flag' = FALSE /\ Emit(Invalid)
      /\ UNCHANGED <<input, output_state, done>>
  BY DEF IInv, SequenceInv, EscapeStartOther, Read, Fail
<1>2. /\ Position \in Nat /\ Position >= 1 /\ input[Position] = ESC
      /\ Position + 1 \in 1 .. Len(input) /\ TheByte = input[Position + 1]
      /\ Position' = Position
  BY <1>1, TheByteIsNext, ReadAndPutBack DEF IInv, SequenceInv
<1>3. state' \in {0, 1, 2, 3}
  BY <1>1 DEF IInv, TypeOK
<1>4. Taken = Position - 1 /\ Taken \in Nat /\ Taken' = Position' /\ Taken' = Taken + 1
  <2>1. HalfRead = 1
    BY <1>1 DEF HalfRead
  <2>2. HalfRead' = 0
    BY <1>3 DEF HalfRead
  <2> QED
    BY <1>2, <2>1, <2>2 DEF Taken
<1>5. /\ Stream!Has(2) /\ Stream!Ahead(2) = TheByte
      /\ input[Taken + 1] = ESC /\ Taken + 1 <= Len(input)
  BY <1>2, <1>4, StreamReads
<1>6. \A m \in Modes : ~Stream!EscapeTo(m)
  <2>1. \A f, m : ~Designates(TheByte, f, m)
    BY <1>1 DEF Designates
  <2> QED
    BY <1>5, <2>1, SameCodes DEF Stream!EscapeTo
<1>7. ~Stream!CutEscape
  BY <1>1, <1>5, SameCodes DEF Stream!CutEscape
<1> QED
  BY <1>1, <1>2, <1>4, <1>5, <1>6, <1>7, GiveUp

LEMMA EscapeToIs ==
  ASSUME NEW m
  PROVE  Stream!EscapeTo(m) <=>
           /\ Stream!Has(3) /\ Stream!Ahead(1) = 27
           /\ Designates(Stream!Ahead(2), Stream!Ahead(3), m)
<1>1. /\ Stream!ESC = 27
      /\ \A i, f : Stream!Designates(i, f, m) <=> Designates(i, f, m)
  BY SameCodes
<1> QED
  BY <1>1, Zenon DEF Stream!EscapeTo

LEMMA EscapeSwitchSwitches ==
  ASSUME IInv, NEW m \in Modes, EscapeSwitch(m)
  PROVE  Stream!Switch(m)
<1>1. /\ state = Escape /\ pending = <<>> /\ state' = m
      /\ Read(Unread) /\ HasByte /\ Designates(lead, TheByte, m)
      /\ output_state' = m /\ output_flag' = ~output_flag
      /\ IF output_flag THEN Emit(Invalid) ELSE UNCHANGED out
      /\ UNCHANGED <<input, done>>
  BY DEF IInv, SequenceInv, EscapeSwitch, Read
<1>2. /\ Position \in Nat /\ Position >= 2 /\ input[Position - 1] = ESC
      /\ Position + 1 \in 1 .. Len(input) /\ TheByte = input[Position + 1]
      /\ lead = input[Position] /\ Position' = Position + 1
  BY <1>1, TheByteIsNext, ReadMovesOn DEF IInv, SequenceInv
<1>3. Taken = Position - 2 /\ Taken \in Nat /\ Taken' = Position' /\ Taken' = Taken + 3
  <2>1. HalfRead = 2
    BY <1>1 DEF HalfRead
  <2>2. HalfRead' = 0
    BY <1>1 DEF HalfRead
  <2> QED
    BY <1>2, <2>1, <2>2 DEF Taken
<1>4. Stream!Has(3) /\ Stream!Ahead(1) = ESC /\ Stream!Ahead(2) = lead
      /\ Stream!Ahead(3) = TheByte /\ Stream!Take(3)
  BY <1>2, <1>3, StreamReads, SMTT(30)
<1>5. Stream!EscapeTo(m)
  <2>1. Designates(Stream!Ahead(2), Stream!Ahead(3), m)
    BY <1>1, <1>4
  <2>2. Stream!Ahead(1) = 27
    BY <1>4 DEF ESC
  <2> QED
    BY <1>4, <2>1, <2>2, EscapeToIs
<1>6. IF output_flag THEN Stream!Emit(Invalid) ELSE UNCHANGED out
  BY <1>1, <1>3, StreamReads DEF Emit
<1> QED
  BY <1>1, <1>4, <1>5, <1>6, SameCodes DEF Stream!Switch

LEMMA EscapeOtherGivesUp ==
  ASSUME IInv, EscapeOther
  PROVE  Stream!StrayEscape
<1>1. /\ state = Escape /\ pending = <<>> /\ state' = output_state
      /\ Read(<<lead, TheByte>>) /\ HasByte
      /\ \A m \in Modes : ~Designates(lead, TheByte, m)
      /\ output_flag' = FALSE /\ Emit(Invalid)
      /\ UNCHANGED <<input, output_state, done>>
  BY DEF IInv, SequenceInv, EscapeOther, Read, Fail
<1>2. /\ Position \in Nat /\ Position >= 2 /\ input[Position - 1] = ESC
      /\ Position + 1 \in 1 .. Len(input) /\ TheByte = input[Position + 1]
      /\ lead = input[Position] /\ Position' = Position - 1
  BY <1>1, TheByteIsNext, ReadAndPutBackTwo DEF IInv, SequenceInv
<1>3. state' \in {0, 1, 2, 3}
  BY <1>1 DEF IInv, TypeOK
<1>4. Taken = Position - 2 /\ Taken \in Nat /\ Taken' = Position' /\ Taken' = Taken + 1
  <2>1. HalfRead = 2
    BY <1>1 DEF HalfRead
  <2>2. HalfRead' = 0
    BY <1>3 DEF HalfRead
  <2> QED
    BY <1>2, <2>1, <2>2 DEF Taken
<1>5. /\ Stream!Has(2) /\ Stream!Has(3) /\ Stream!Ahead(2) = lead
      /\ Stream!Ahead(3) = TheByte
      /\ input[Taken + 1] = ESC /\ Taken + 1 <= Len(input)
  BY <1>2, <1>4, StreamReads
<1>6. \A m \in Modes : ~Stream!EscapeTo(m)
  <2> SUFFICES ASSUME NEW m \in Modes
               PROVE  ~Designates(Stream!Ahead(2), Stream!Ahead(3), m)
    BY EscapeToIs
  <2> QED
    BY <1>1, <1>5
<1>7. ~Stream!CutEscape
  BY <1>5 DEF Stream!CutEscape
<1> QED
  BY <1>1, <1>2, <1>4, <1>5, <1>6, <1>7, GiveUp

\* In a pair, ESC drops the lead byte; between characters it is just read.
LEMMA BeginEscapeDropsLead ==
  ASSUME IInv, BeginEscape
  PROVE  Stream!DanglingLead \/ UNCHANGED Stream!vars
<1>1. /\ Read(Unread) /\ HasByte /\ TheByte = ESC /\ state' = EscapeStart
      /\ state \in Modes \cup {TrailByte}
      /\ UNCHANGED <<input, output_state, output_flag, out, done>>
  BY DEF BeginEscape, Read
<1>2. /\ Position \in Nat /\ Position + 1 \in 1 .. Len(input)
      /\ input[Position + 1] = ESC /\ Position' = Position + 1
  BY <1>1, TheByteIsNext, ReadMovesOn DEF IInv
<1>3. Taken' = Position
  BY <1>1, <1>2 DEF Taken, HalfRead
<1>4. CASE state \in Modes
  <2>1. Taken = Position
    BY <1>2, <1>4, SMTT(30) DEF Taken, HalfRead
  <2> QED
    BY <1>1, <1>3, <2>1 DEF Stream!vars, Taken
<1>5. CASE state = TrailByte
  <2>1. output_state = LeadByte /\ Position >= 1 /\ JisByte(input[Position])
    BY <1>5 DEF IInv, ModeToReturnTo, SequenceInv
  <2>2. Taken = Position - 1 /\ Taken \in Nat
    BY <1>2, <1>5, <2>1 DEF Taken, HalfRead
  <2>3. /\ Stream!Has(2) /\ Stream!Ahead(1) = input[Position] /\ Stream!Ahead(2) = ESC
        /\ Stream!Take(1)
    BY <1>2, <1>3, <2>2, StreamReads
  <2> QED
    BY <1>1, <2>1, <2>3, SameCodes DEF Stream!DanglingLead
<1> QED
  BY <1>1, <1>4, <1>5

LEMMA ReadLeadStarts ==
  ASSUME IInv, ReadLead
  PROVE  Stream!BadLead \/ UNCHANGED Stream!vars
<1>1. /\ state = LeadByte /\ output_state = LeadByte /\ Read(Unread) /\ HasByte
      /\ TheByte # ESC /\ UNCHANGED <<input, output_state, done>>
  BY DEF IInv, ModeToReturnTo, ReadLead, Read, Fail
<1>2. /\ Position \in Nat /\ Position + 1 \in 1 .. Len(input)
      /\ TheByte = input[Position + 1] /\ Position' = Position + 1
  BY <1>1, TheByteIsNext, ReadMovesOn DEF IInv
<1>3. Taken = Position
  BY <1>1, <1>2 DEF Taken, HalfRead
<1>4. CASE JisByte(TheByte) /\ state' = TrailByte /\ UNCHANGED <<output_flag, out>>
  <2>1. Taken' = Position
    BY <1>2, <1>4 DEF Taken, HalfRead
  <2> QED
    BY <1>1, <1>3, <1>4, <2>1 DEF Stream!vars, Taken
<1>5. CASE /\ ~JisByte(TheByte) /\ state' = LeadByte /\ Emit(Invalid)
           /\ output_flag' = FALSE
  <2>1. Taken' = Position' /\ Taken' = Taken + 1
    BY <1>2, <1>3, <1>5 DEF Taken, HalfRead
  <2>2. Stream!Has(1) /\ Stream!Ahead(1) = TheByte /\ Stream!Take(1) /\ Stream!Emit(Invalid)
    BY <1>2, <1>3, <1>5, <2>1, StreamReads DEF Emit
  <2> QED
    BY <1>1, <1>5, <2>2, SameCodes DEF Stream!BadLead
<1> QED
  BY <1>1, <1>4, <1>5 DEF ReadLead, Fail

LEMMA ReadTrailPairs ==
  ASSUME IInv, ReadTrail
  PROVE  Stream!Pair
<1>1. /\ state = TrailByte /\ output_state = LeadByte /\ Read(Unread) /\ HasByte
      /\ TheByte # ESC /\ state' = LeadByte /\ output_flag' = FALSE
      /\ Emit(PairResult(lead, TheByte)) /\ UNCHANGED <<input, output_state, done>>
  BY DEF IInv, ModeToReturnTo, ReadTrail, Read, Fail
<1>2. /\ Position \in Nat /\ Position >= 1 /\ lead = input[Position] /\ JisByte(lead)
      /\ Position + 1 \in 1 .. Len(input) /\ TheByte = input[Position + 1]
      /\ Position' = Position + 1
  BY <1>1, TheByteIsNext, ReadMovesOn DEF IInv, SequenceInv
<1>3. Taken = Position - 1 /\ Taken' = Position' /\ Taken' = Taken + 2
  BY <1>1, <1>2 DEF Taken, HalfRead
<1>4. /\ Stream!Has(2) /\ Stream!Ahead(1) = lead /\ Stream!Ahead(2) = TheByte
      /\ Stream!Take(2) /\ Stream!Emit(PairResult(lead, TheByte))
  BY <1>1, <1>2, <1>3, StreamReads, SMTT(30) DEF Emit
<1> QED
  BY <1>1, <1>2, <1>4, SameCodes DEF Stream!Pair

LEMMA ReadPlainIsPlain ==
  ASSUME IInv, ReadPlain
  PROVE  Stream!Plain
<1>1. /\ state \in 0 .. 2 /\ output_state = state /\ Read(Unread) /\ HasByte
      /\ TheByte # ESC /\ state' = state /\ output_flag' = FALSE
      /\ Emit(PlainResult(state, TheByte)) /\ UNCHANGED <<input, output_state, done>>
  BY DEF IInv, ModeToReturnTo, ReadPlain, Read
<1>2. /\ Position \in Nat /\ Position + 1 \in 1 .. Len(input)
      /\ TheByte = input[Position + 1] /\ Position' = Position + 1
  BY <1>1, TheByteIsNext, ReadMovesOn DEF IInv
<1>3. Taken = Position /\ Taken' = Position' /\ Taken' = Taken + 1
  BY <1>1, <1>2, SMTT(30) DEF Taken, HalfRead
<1>4. /\ Stream!Has(1) /\ Stream!Ahead(1) = TheByte /\ Stream!Take(1)
      /\ Stream!Emit(PlainResult(state, TheByte))
  BY <1>1, <1>2, <1>3, StreamReads DEF Emit
<1>5. Stream!PlainResult(output_state, TheByte) = PlainResult(state, TheByte)
  BY <1>1, SameCodes
<1>6. output_state # Stream!LeadByte
  BY <1>1, SameCodes
<1> QED
  BY <1>1, <1>4, <1>5, <1>6, SameCodes DEF Stream!Plain

LEMMA FinishFinishes ==
  ASSUME IInv, Finish
  PROVE  Stream!Finish
<1>1. /\ pending = <<>> /\ current = Len(input) /\ state \in Modes /\ ~done /\ done' = TRUE
      /\ UNCHANGED <<input, current, state, output_state, output_flag, pending, out>>
  BY DEF IInv, TypeOK, Finish, EndOfInput, HasByte, AtEnd
<1>2. Taken = Len(input) /\ Taken' = Taken
  <2>1. Len(pending) = 0 /\ Len(pending') = 0
    BY <1>1
  <2> QED
    BY <1>1, <2>1 DEF IInv, TypeOK, Taken, HalfRead, Position
<1>3. ~Stream!Has(1)
  <2>1. Len(input) \in Nat
    BY DEF IInv, TypeOK
  <2> QED
    BY <1>2, <2>1, StreamReads
<1> QED
  BY <1>1, <1>2, <1>3 DEF Stream!Finish, Taken

LEMMA TruncatedPairOrEscapeCuts ==
  ASSUME IInv, TruncatedPairOrEscape
  PROVE  Stream!BadLead \/ Stream!StrayEscape
<1>1. /\ state \in {TrailByte, EscapeStart} /\ pending = <<>> /\ Len(pending) = 0
      /\ current = Len(input) /\ state' = output_state /\ output_flag' = FALSE
      /\ Emit(Truncated) /\ Len(input) \in Nat /\ pending' = pending
      /\ UNCHANGED <<input, current, output_state, done>>
  BY DEF IInv, TypeOK, TruncatedPairOrEscape, EndOfInput, HasByte, Fail
<1>2. /\ Position = Len(input) /\ Position' = Position /\ Position >= 1
  BY <1>1 DEF Position, IInv, SequenceInv
<1>3. state' \in {0, 1, 2, 3}
  BY <1>1 DEF IInv, TypeOK
<1>4. /\ Taken = Position - 1 /\ Taken \in Nat /\ Taken' = Position'
      /\ Taken' = Taken + 1
  BY <1>1, <1>2, <1>3 DEF Taken, HalfRead
<1>5. /\ Stream!Has(1) /\ ~Stream!Has(2) /\ ~Stream!Has(3)
      /\ Stream!Ahead(1) = input[Position] /\ Stream!Take(1) /\ Stream!Emit(Truncated)
  BY <1>1, <1>2, <1>4, StreamReads DEF Emit
<1>6. CASE state = TrailByte
  <2>1. output_state = LeadByte /\ JisByte(input[Position])
    BY <1>6 DEF IInv, ModeToReturnTo, SequenceInv
  <2>2. input[Position] # ESC
    BY <2>1 DEF JisByte
  <2> QED
    BY <1>1, <1>5, <2>1, <2>2, SameCodes DEF Stream!BadLead
<1>7. CASE state = EscapeStart
  <2>1. input[Position] = ESC
    BY <1>7 DEF IInv, SequenceInv
  <2>2. Stream!CutEscape /\ \A m \in Modes : ~Stream!EscapeTo(m)
    BY <1>5 DEF Stream!CutEscape, Stream!EscapeTo
  <2>3. Taken + 1 <= Len(input) /\ input[Taken + 1] = ESC
    BY <1>1, <1>2, <1>4, <2>1
  <2> QED
    BY <1>1, <1>4, <2>2, <2>3, GiveUp
<1> QED
  BY <1>1, <1>6, <1>7

LEMMA TruncatedIntermediateCuts ==
  ASSUME IInv, TruncatedIntermediate
  PROVE  Stream!StrayEscape
<1>1. /\ state = Escape /\ pending = <<>> /\ Len(pending) = 0
      /\ current = Len(input) /\ state' = output_state /\ output_flag' = FALSE
      /\ Emit(Truncated) /\ Len(input) \in Nat /\ Len(pending') = 1
      /\ UNCHANGED <<input, current, output_state, done>>
  BY DEF IInv, TypeOK, SequenceInv, TruncatedIntermediate, EndOfInput, HasByte, Fail
<1>2. /\ Position = Len(input) /\ Position' = Position - 1 /\ Position >= 2
      /\ input[Position - 1] = ESC /\ lead = input[Position]
      /\ lead \in {Dollar, LeftParen}
  BY <1>1 DEF Position, IInv, SequenceInv
<1>3. state' \in {0, 1, 2, 3}
  BY <1>1 DEF IInv, TypeOK
<1>4. /\ Taken = Position - 2 /\ Taken \in Nat /\ Taken' = Position'
      /\ Taken' = Taken + 1
  BY <1>1, <1>2, <1>3 DEF Taken, HalfRead
<1>5. ~Stream!Has(3) /\ Stream!Ahead(2) = lead
  BY <1>1, <1>2, <1>4, StreamReads
<1>6. Stream!CutEscape /\ \A m \in Modes : ~Stream!EscapeTo(m)
  BY <1>2, <1>5, SameCodes DEF Stream!CutEscape, Stream!EscapeTo
<1>7. Taken + 1 <= Len(input) /\ input[Taken + 1] = ESC
  BY <1>1, <1>2, <1>4
<1> QED
  BY <1>1, <1>4, <1>6, <1>7, GiveUp

LEMMA NextStream == IInv /\ [Next]_vars => [Stream!Next]_Stream!vars
<1> SUFFICES ASSUME IInv, [Next]_vars PROVE Stream!Next \/ UNCHANGED Stream!vars
  BY DEF Stream!vars
<1>1. ASSUME NEW m \in Modes, EscapeSwitch(m) PROVE Stream!Next
  BY <1>1, EscapeSwitchSwitches, SameCodes DEF Stream!Next
<1>2. CASE UNCHANGED vars
  BY <1>2 DEF vars, Stream!vars, Position, HalfRead
<1> QED
  BY <1>1, <1>2, EscapeStartIntermediateStutters, EscapeStartOtherGivesUp,
     EscapeOtherGivesUp, BeginEscapeDropsLead, ReadLeadStarts, ReadTrailPairs,
     ReadPlainIsPlain, FinishFinishes, TruncatedPairOrEscapeCuts,
     TruncatedIntermediateCuts
     DEF Next, DecodeByte, Stream!Next

\* The decoder implements the stream of tokens: for every input, every byte it
\* puts back is read again as what it is, and its elements are the stream's.
THEOREM Refinement == Spec => ImplementsStream
BY InitStream, NextStream, Invariance, PTL DEF Spec, ImplementsStream, Stream!Spec

-----------------------------------------------------------------------------
\* What WellFormed's function is, from m on.
IsOk(s, ok, m) ==
  /\ ok = [k \in 0 .. Len(s) |-> ok[k]]
  /\ \A k \in 0 .. Len(s) : m <= k =>
       ok[k] = {w \in Modes \X BOOLEAN : TextFollows(s, ok, k, w[1], w[2])}

\* What follows n bytes is asked of ok further on only.
LEMMA FollowsFromLater ==
  ASSUME NEW s \in Seq(Byte), NEW n \in 0 .. Len(s), NEW f, NEW g,
         \A k \in 0 .. Len(s) : n < k => f[k] = g[k], NEW m, NEW fresh
  PROVE  TextFollows(s, f, n, m, fresh) <=> TextFollows(s, g, n, m, fresh)
<1>1. Len(s) \in Nat
  BY LenProperties
<1>2. n + 1 <= Len(s) => f[n + 1] = g[n + 1]
  BY <1>1
<1>3. n + 2 <= Len(s) => f[n + 2] = g[n + 2]
  BY <1>1
<1>4. n + 3 <= Len(s) => f[n + 3] = g[n + 3]
  BY <1>1
<1> QED
  BY <1>2, <1>3, <1>4, SMTT(30) DEF TextFollows

LEMMA OkEarlier ==
  ASSUME NEW s \in Seq(Byte), NEW m \in Nat, m < Len(s), NEW g, IsOk(s, g, m + 1)
  PROVE  \E f : IsOk(s, f, m)
<1> DEFINE x == {w \in Modes \X BOOLEAN : TextFollows(s, g, m, w[1], w[2])}
           f == [k \in 0 .. Len(s) |-> IF k = m THEN x ELSE g[k]]
<1>1. Len(s) \in Nat /\ m \in 0 .. Len(s)
  BY LenProperties
<1>2. \A k \in 0 .. Len(s) : f[k] = IF k = m THEN x ELSE g[k]
  OBVIOUS
<1>3. f = [k \in 0 .. Len(s) |-> f[k]]
  BY <1>2
<1>4. ASSUME NEW k \in 0 .. Len(s), m <= k
      PROVE  f[k] = {w \in Modes \X BOOLEAN : TextFollows(s, f, k, w[1], w[2])}
  <2>1. \A i \in 0 .. Len(s) : k < i => f[i] = g[i]
    <3>1. \A i \in 0 .. Len(s) : k < i => i # m
      BY <1>1, <1>4
    <3> HIDE DEF f
    <3> QED
      BY <1>2, <3>1
  <2>2. \A w \in Modes \X BOOLEAN :
          TextFollows(s, f, k, w[1], w[2]) <=> TextFollows(s, g, k, w[1], w[2])
    <3> HIDE DEF f
    <3> QED
      BY <2>1, FollowsFromLater
  <2>3. f[k] = {w \in Modes \X BOOLEAN : TextFollows(s, g, k, w[1], w[2])}
    <3>1. CASE k = m
      BY <1>2, <3>1
    <3>2. CASE k # m
      <4>1. m + 1 <= k
        BY <1>1, <1>4, <3>2
      <4> HIDE DEF f
      <4> QED
        BY <1>2, <3>2, <4>1 DEF IsOk
    <3> QED
      BY <3>1, <3>2
  <2> HIDE DEF f
  <2> QED
    BY <2>2, <2>3
<1> HIDE DEF f
<1> QED
  BY <1>3, <1>4 DEF IsOk

\* The last number of a set of numbers.
LEMMA LastOne ==
  ASSUME NEW n \in Nat, NEW S, S \subseteq 0 .. n, S # {}
  PROVE  \E m \in S : \A q \in S : q <= m
<1> DEFINE R == OpToRel(<, Nat)
           U == {n - q : q \in S}
<1>1. IsWellFoundedOn(R, Nat)
  BY NatLessThanWellFounded
<1>2. U \subseteq Nat /\ U # {}
  <2>1. \A q \in S : n - q \in Nat
    OBVIOUS
  <2> QED
    BY <2>1
<1>3. \A x, y \in Nat : y < x => <<y, x>> \in R
  BY DEF OpToRel
<1> HIDE DEF R
<1>4. PICK x \in U : \A y \in U : ~(<<y, x>> \in R)
  <2> HIDE DEF U
  <2> QED
    BY <1>1, <1>2, WFMin
<1>5. PICK m \in S : x = n - m
  OBVIOUS
<1>6. ASSUME NEW q \in S PROVE q <= m
  <2>1. ~(n - q < n - m)
    BY <1>2, <1>3, <1>4, <1>5
  <2>2. m \in Int /\ q \in Int
    OBVIOUS
  <2> QED
    BY <2>1, <2>2
<1> QED
  BY <1>6

LEMMA OkExists ==
  ASSUME NEW s \in Seq(Byte)
  PROVE  \E f : IsOk(s, f, 0)
<1> DEFINE Bad == {m \in 0 .. Len(s) : ~ \E f : IsOk(s, f, m)}
<1>1. Len(s) \in Nat /\ 0 \in 0 .. Len(s)
  BY LenProperties
<1>2. SUFFICES ASSUME Bad # {} PROVE FALSE
  BY <1>1
<1>3. PICK m \in Bad : \A q \in Bad : q <= m
  <2>1. Bad \subseteq 0 .. Len(s)
    OBVIOUS
  <2> HIDE DEF Bad
  <2> QED
    BY <1>1, <1>2, <2>1, LastOne
<1>4. m \in Nat /\ m <= Len(s) /\ ~ \E f : IsOk(s, f, m)
  BY <1>1
<1>5. m # Len(s)
  <2> DEFINE f == [k \in 0 .. Len(s) |-> Modes \X BOOLEAN]
  <2>1. f = [k \in 0 .. Len(s) |-> f[k]]
    OBVIOUS
  <2>2. \A k \in 0 .. Len(s) : Len(s) <= k => k = Len(s) /\ f[k] = Modes \X BOOLEAN
    BY <1>1
  <2>3. \A w : TextFollows(s, f, Len(s), w[1], w[2])
    BY DEF TextFollows
  <2>4. IsOk(s, f, Len(s))
    <3> HIDE DEF f
    <3> QED
      BY <2>1, <2>2, <2>3 DEF IsOk
  <2> QED
    BY <1>4, <2>4
<1>6. m + 1 \in 0 .. Len(s) /\ ~(m + 1 <= m) /\ m < Len(s)
  BY <1>1, <1>4, <1>5
<1>7. m + 1 \notin Bad
  BY <1>3, <1>6
<1>8. PICK g : IsOk(s, g, m + 1)
  BY <1>6, <1>7
<1> QED
  BY <1>4, <1>6, <1>8, OkEarlier

LEMMA WellFormedIs ==
  ASSUME NEW s \in Seq(Byte), WellFormed(s)
  PROVE  \E ok : IsOk(s, ok, 0) /\ <<ASCII, FALSE>> \in ok[0]
<1> DEFINE Equation(g) ==
      g = [n \in 0 .. Len(s) |-> {w \in Modes \X BOOLEAN : TextFollows(s, g, n, w[1], w[2])}]
<1>1. PICK f : f = CHOOSE g : Equation(g)
  OBVIOUS
<1>2. PICK h : IsOk(s, h, 0)
  BY OkExists
<1>3. Equation(h)
  <2>1. \A n \in 0 .. Len(s) : 0 <= n
    OBVIOUS
  <2> QED
    BY <1>2, <2>1 DEF IsOk
<1>4. Equation(f)
  <2> HIDE DEF Equation
  <2> QED
    BY <1>1, <1>3
<1>5. IsOk(s, f, 0)
  <2>1. \A n \in 0 .. Len(s) : f[n] = {w \in Modes \X BOOLEAN : TextFollows(s, f, n, w[1], w[2])}
    BY <1>4
  <2>2. f = [n \in 0 .. Len(s) |-> f[n]]
    BY <1>4
  <2> HIDE DEF Equation
  <2> QED
    BY <2>1, <2>2 DEF IsOk
<1>6. <<ASCII, FALSE>> \in f[0]
  BY <1>1 DEF WellFormed
<1> QED
  BY <1>5, <1>6

LEMMA OkSays ==
  ASSUME NEW s \in Seq(Byte), NEW ok, IsOk(s, ok, 0), NEW n \in 0 .. Len(s),
         NEW m, NEW fresh, <<m, fresh>> \in ok[n]
  PROVE  m \in Modes /\ fresh \in BOOLEAN /\ TextFollows(s, ok, n, m, fresh)
<1>1. ok[n] = {w \in Modes \X BOOLEAN : TextFollows(s, ok, n, w[1], w[2])}
  BY DEF IsOk
<1>2. <<m, fresh>> \in Modes \X BOOLEAN /\ TextFollows(s, ok, n, <<m, fresh>>[1], <<m, fresh>>[2])
  BY <1>1, Zenon
<1> QED
  BY <1>2

\* What decoding a text comes to: nothing is put back, no element is an error, and
\* what follows the bytes read is a text in the mode the machine is in, or ends the
\* sequence that it is inside of and is a text behind it.
Follows(ok) ==
  /\ pending = <<>>
  /\ \A i \in 1 .. Len(out) : IsScalar(out[i].result)
  /\ state \in Modes => <<state, output_flag>> \in ok[current]
  /\ state = TrailByte =>
       /\ current + 1 <= Len(input) /\ IsScalar(PairResult(lead, input[current + 1]))
       /\ <<LeadByte, FALSE>> \in ok[current + 1]
  /\ state = EscapeStart =>
       /\ current + 2 <= Len(input) /\ ~output_flag
       /\ \E to \in Modes : /\ Designates(input[current + 1], input[current + 2], to)
                            /\ <<to, TRUE>> \in ok[current + 2]
  /\ state = Escape =>
       /\ current + 1 <= Len(input) /\ ~output_flag
       /\ \E to \in Modes : /\ Designates(lead, input[current + 1], to)
                            /\ <<to, TRUE>> \in ok[current + 1]

TextInv == \A ok : IsOk(input, ok, 0) /\ <<ASCII, FALSE>> \in ok[0] => Follows(ok)

LEMMA ReadsOneByte ==
  ASSUME TypeOK, pending = <<>>, HasByte
  PROVE  /\ current \in Nat /\ Len(input) \in Nat /\ current + 1 <= Len(input)
         /\ current \in 0 .. Len(input)
         /\ TheByte = input[current + 1] /\ TheByte \in Byte /\ Unread = <<>>
<1>1. current < Len(input) /\ current \in 0 .. Len(input) /\ Len(input) \in Nat
  BY LenProperties DEF TypeOK, HasByte
<1>2. TheByte = input[current + 1] /\ Unread = <<>>
  BY DEF TheByte, Unread
<1>3. input[current + 1] \in Byte
  BY <1>1 DEF TypeOK
<1> QED
  BY <1>1, <1>2, <1>3

LEMMA ScalarEmitted ==
  ASSUME TypeOK, \A i \in 1 .. Len(out) : IsScalar(out[i].result), NEW r, Emit(r), IsScalar(r)
  PROVE  \A i \in 1 .. Len(out') : IsScalar(out'[i].result)
<1> DEFINE e == [result |-> r, upto |-> Position']
<1>1. out' = Append(out, e) /\ e.result = r
  BY DEF Emit
<1> HIDE DEF e
<1>2. /\ Len(out') = Len(out) + 1 /\ Len(out) \in Nat
      /\ \A i \in 1 .. Len(out) : out'[i] = out[i]
      /\ out'[Len(out) + 1] = e
  BY <1>1 DEF TypeOK
<1>3. \A i \in 1 .. Len(out') : i \in 1 .. Len(out) \/ i = Len(out) + 1
  BY <1>2
<1> QED
  BY <1>1, <1>2, <1>3

\* An escape sequence selects one mode.
LEMMA OneDesignated ==
  ASSUME NEW i, NEW f, NEW m, NEW to, Designates(i, f, m), Designates(i, f, to)
  PROVE  m = to /\ i \in {Dollar, LeftParen}
  BY DEF Designates, LetterB, LetterJ, LetterI, CommercialAt

LEMMA TextReadOn ==
  ASSUME IInv, NEW ok, IsOk(input, ok, 0), Follows(ok), DecodeByte
  PROVE  Follows(ok)'
<1> USE DEF IInv
<1>1. /\ pending = <<>> /\ TypeOK /\ HasByte /\ input' = input
  BY DEF Follows, DecodeByte, EscapeStartIntermediate, EscapeStartOther, EscapeSwitch,
     EscapeOther, BeginEscape, ReadLead, ReadTrail, ReadPlain, Read
<1>2. /\ current \in Nat /\ Len(input) \in Nat /\ current + 1 <= Len(input)
      /\ current \in 0 .. Len(input) /\ input \in Seq(Byte)
      /\ TheByte = input[current + 1] /\ TheByte \in Byte /\ Unread = <<>>
  BY <1>1, ReadsOneByte DEF TypeOK
<1>3. Read(Unread) => current' = current + 1 /\ pending' = <<>>
  BY <1>1, <1>2 DEF Read
<1>4. out' = out => \A i \in 1 .. Len(out') : IsScalar(out'[i].result)
  BY SMTT(30) DEF Follows
<1>5. ASSUME NEW r, Emit(r), IsScalar(r)
      PROVE  \A i \in 1 .. Len(out') : IsScalar(out'[i].result)
  BY <1>5, ScalarEmitted DEF Follows
<1>6. state \in Modes => TextFollows(input, ok, current, state, output_flag)
  BY <1>2, OkSays DEF Follows
<1>7. CASE EscapeStartIntermediate
  BY <1>1, <1>2, <1>3, <1>4, <1>7, SMTT(30) DEF EscapeStartIntermediate, Follows
<1>8. CASE EscapeStartOther
  BY <1>1, <1>2, <1>8, OneDesignated DEF EscapeStartOther, Follows
<1>9. ASSUME NEW m \in Modes, EscapeSwitch(m)
      PROVE  Follows(ok)'
  <2>1. PICK to \in Modes : Designates(lead, TheByte, to) /\ <<to, TRUE>> \in ok[current + 1]
    <3>1. state = Escape
      BY <1>9 DEF EscapeSwitch
    <3>2. \E to \in Modes : Designates(lead, input[current + 1], to) /\ <<to, TRUE>> \in ok[current + 1]
      BY <3>1 DEF Follows
    <3> QED
      BY <1>2, <3>2
  <2>2. m = to
    BY <1>9, <2>1, OneDesignated DEF EscapeSwitch
  <2>3. state' = to /\ output_flag' = TRUE /\ out' = out
    <3>1. state = Escape /\ state' = to /\ output_flag' = ~output_flag
          /\ IF output_flag THEN Emit(Invalid) ELSE out' = out
      BY <1>9, <2>2, Zenon DEF EscapeSwitch
    <3>2. ~output_flag
      BY <3>1 DEF Follows
    <3> QED
      BY <3>1, <3>2, Zenon
  <2>4. current' = current + 1 /\ pending' = <<>>
    BY <1>3, <1>9 DEF EscapeSwitch
  <2>5. <<state', output_flag'>> \in ok[current']
    BY <2>1, <2>3, <2>4, Zenon
  <2> QED
    BY <1>1, <1>4, <2>1, <2>3, <2>4, <2>5 DEF Follows
<1>10. CASE EscapeOther
  BY <1>2, <1>10 DEF EscapeOther, Follows
<1>11. CASE BeginEscape
  <2>1. state # TrailByte
    BY <1>2, <1>11 DEF BeginEscape, Follows, PairResult, JisByte, IsScalar, Invalid
  <2>2. state \in Modes
    BY <1>11, <2>1 DEF BeginEscape
  <2>3. ~JisByte(input[current + 1])
    BY <1>2, <1>11 DEF BeginEscape, JisByte
  <2>4. /\ current + 3 <= Len(input) /\ ~output_flag
        /\ \E to \in Modes : /\ Designates(input[current + 2], input[current + 3], to)
                             /\ <<to, TRUE>> \in ok[current + 3]
    BY <1>2, <1>6, <1>11, <2>2, <2>3 DEF BeginEscape, TextFollows
  <2>5. /\ current' = current + 1 /\ state' = EscapeStart /\ output_flag' = output_flag
        /\ pending' = <<>> /\ out' = out
    BY <1>3, <1>11 DEF BeginEscape
  <2> QED
    <3>1. current' + 1 = current + 2 /\ current' + 2 = current + 3
      BY <1>2, <2>5
    <3>2. \E to \in Modes : /\ Designates(input'[current' + 1], input'[current' + 2], to)
                          /\ <<to, TRUE>> \in ok[current' + 2]
      BY <1>1, <2>4, <3>1
    <3>3. ~output_flag'
      BY <2>4, <2>5, Zenon
    <3>4. \A i \in 1 .. Len(out') : IsScalar(out'[i].result)
      BY <1>4, <2>5
    <3>5. current' + 2 <= Len(input')
      BY <1>1, <2>4, <3>1
    <3>6. state' \notin Modes /\ state' # TrailByte /\ state' # Escape /\ pending' = <<>>
      BY <2>5
    <3> QED
      BY <3>2, <3>3, <3>4, <3>5, <3>6, Zenon DEF Follows
<1>12. CASE ReadLead
  <2>1. /\ current + 2 <= Len(input) /\ JisByte(TheByte)
        /\ IsScalar(PairResult(TheByte, input[current + 2])) /\ <<LeadByte, FALSE>> \in ok[current + 2]
    BY <1>2, <1>6, <1>12 DEF ReadLead, TextFollows
  <2>2. current' = current + 1 /\ state' = TrailByte /\ lead' = TheByte /\ pending' = <<>> /\ out' = out
    BY <1>3, <1>12, <2>1 DEF ReadLead
  <2> QED
    <3>1. current' + 1 = current + 2
      BY <1>2, <2>2
    <3> QED
      BY <1>1, <1>2, <1>4, <2>1, <2>2, <3>1, SMTT(30) DEF Follows
<1>13. CASE ReadTrail
  <2>1. IsScalar(PairResult(lead, TheByte)) /\ <<LeadByte, FALSE>> \in ok[current + 1]
    BY <1>2, <1>13 DEF ReadTrail, Follows
  <2>2. current' = current + 1 /\ state' = LeadByte /\ output_flag' = FALSE /\ pending' = <<>>
    BY <1>3, <1>13 DEF ReadTrail, Fail, ModeToReturnTo
  <2>3. Emit(PairResult(lead, TheByte))
    BY <1>13 DEF ReadTrail, Fail
  <2>4. <<state', output_flag'>> \in ok[current']
    BY <2>1, <2>2, Zenon
  <2>5. \A i \in 1 .. Len(out') : IsScalar(out'[i].result)
    BY <1>5, <2>1, <2>3
  <2> QED
    BY <1>1, <2>2, <2>4, <2>5 DEF Follows
<1>14. CASE ReadPlain
  <2>1. IsScalar(PlainResult(state, TheByte)) /\ <<state, FALSE>> \in ok[current + 1]
    BY <1>2, <1>6, <1>14 DEF ReadPlain, TextFollows
  <2>2. current' = current + 1 /\ state' = state /\ output_flag' = FALSE /\ pending' = <<>>
    BY <1>3, <1>14 DEF ReadPlain
  <2>3. Emit(PlainResult(state, TheByte)) /\ state \in Modes
    BY <1>14 DEF ReadPlain
  <2>4. <<state', output_flag'>> \in ok[current']
    BY <2>1, <2>2, Zenon
  <2>5. \A i \in 1 .. Len(out') : IsScalar(out'[i].result)
    BY <1>5, <2>1, <2>3
  <2> QED
    BY <1>1, <2>2, <2>3, <2>4, <2>5 DEF Follows
<1> QED
  BY <1>7, <1>8, <1>9, <1>10, <1>11, <1>12, <1>13, <1>14 DEF DecodeByte

\* At the end of a text the machine is not inside a sequence.
LEMMA TextEnds ==
  ASSUME IInv, NEW ok, Follows(ok), EndOfInput
  PROVE  state \in Modes
<1>1. state \in ASCII .. Escape /\ current = Len(input) /\ Len(input) \in Nat
  BY LenProperties DEF IInv, TypeOK, Follows, EndOfInput, HasByte
<1> QED
  BY <1>1 DEF Follows

LEMMA NextText == IInv /\ TextInv /\ [Next]_vars => TextInv'
<1> SUFFICES ASSUME IInv, TextInv, [Next]_vars PROVE TextInv'
  OBVIOUS
<1>1. input' = input
  BY DEF Next, DecodeByte, EscapeStartIntermediate, EscapeStartOther, EscapeSwitch,
     EscapeOther, BeginEscape, ReadLead, ReadTrail, ReadPlain, Read, Finish,
     TruncatedPairOrEscape, TruncatedIntermediate, EndOfInput, vars
<1>2. SUFFICES ASSUME NEW ok, IsOk(input, ok, 0), <<ASCII, FALSE>> \in ok[0]
               PROVE  Follows(ok)'
  BY <1>1 DEF TextInv
<1>3. Follows(ok)
  BY <1>2 DEF TextInv
<1>4. CASE DecodeByte
  BY <1>2, <1>3, <1>4, TextReadOn
<1>5. CASE Finish
  BY <1>3, <1>5 DEF Finish, EndOfInput, Follows
<1>6. CASE TruncatedPairOrEscape
  BY <1>3, <1>6, TextEnds DEF TruncatedPairOrEscape
<1>7. CASE TruncatedIntermediate
  BY <1>3, <1>7, TextEnds DEF TruncatedIntermediate
<1>8. CASE UNCHANGED vars
  BY <1>3, <1>8 DEF vars, Follows
<1> QED
  BY <1>4, <1>5, <1>6, <1>7, <1>8 DEF Next

LEMMA InitText == Init => TextInv
<1> SUFFICES ASSUME Init, NEW ok, <<ASCII, FALSE>> \in ok[0]
             PROVE  Follows(ok)
  BY DEF TextInv
<1>1. Len(out) = 0
  BY DEF Init
<1>2. <<state, output_flag>> \in ok[current]
  BY Zenon DEF Init
<1> QED
  BY <1>1, <1>2 DEF Init, Follows

\* A text, which is characters with at most one escape sequence at a time between
\* them, decodes without an error, wherever its escape sequences fall
\* (iso2022jp_decode_one: what sets and clears output_flag).
THEOREM TextDecodes == Spec => []WellFormedHasNoError
<1>1. IInv /\ TextInv => WellFormedHasNoError
  <2> SUFFICES ASSUME IInv, TextInv, WellFormed(input)
               PROVE  \A i \in 1 .. Len(out) : IsScalar(out[i].result)
    BY DEF WellFormedHasNoError
  <2>1. PICK ok : IsOk(input, ok, 0) /\ <<ASCII, FALSE>> \in ok[0]
    BY WellFormedIs DEF IInv, TypeOK
  <2> QED
    BY <2>1 DEF TextInv, Follows
<1>2. Init /\ [][Next]_vars /\ []IInv => []TextInv
  BY InitText, NextText, PTL
<1> QED
  BY <1>1, <1>2, Invariance, PTL DEF Spec
=============================================================================
