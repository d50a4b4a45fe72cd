--------------------- MODULE Iso2022JpRoundTrip_proofs ---------------------
(***************************************************************************)
(* What the ISO-2022-JP encoder writes the decoder reads back, for every   *)
(* index and every set of texts: whatever the encoder does next, the bytes *)
(* the decoder has yet to read are at most one escape sequence and one     *)
(* character, in the mode that both will be in when it has been read.      *)
(***************************************************************************)
EXTENDS Iso2022JpRoundTrip, SequenceTheorems, WellFoundedInduction, TLAPS

USE DEF ASCII, Roman, Katakana, LeadByte, TrailByte, EscapeStart, Escape, Modes

\* The texts the encoding can carry: ESC, SO and SI are scalar values that it
\* writes as they are, and that mean something else to whoever reads them.
PlainTexts == \A t \in Texts : \A i \in 1 .. Len(t) : t[i] \notin {ESC, SO, SI}

-----------------------------------------------------------------------------
\* The three modules use the same codes.
LEMMA SameCodes ==
  /\ Enc!ESC = 27 /\ Enc!ASCII = 0 /\ Enc!Roman = 1 /\ Enc!Jis = 2
  /\ Enc!Yen = Yen /\ Enc!Overline = Overline
  /\ Enc!Pointers = Pointers
  /\ Enc!Dollar = 36 /\ Enc!LeftParen = 40 /\ Enc!LetterB = 66 /\ Enc!LetterJ = 74
  /\ Enc!Backslash = 92 /\ Enc!Tilde = 126 /\ Enc!QuestionMark = 63
BY DEF Enc!ESC, Enc!ASCII, Enc!Roman, Enc!Jis, Enc!Yen, Enc!Overline, Yen, Overline,
   Enc!Pointers, Pointers, Enc!Dollar, Enc!LeftParen, Enc!LetterB, Enc!LetterJ,
   Enc!Backslash, Enc!Tilde, Enc!QuestionMark

LEMMA SameReading ==
  /\ Dec!ESC = 27 /\ Dec!Dollar = 36 /\ Dec!LeftParen = 40
  /\ Dec!ASCII = 0 /\ Dec!Roman = 1 /\ Dec!Katakana = 2 /\ Dec!LeadByte = 3
  /\ Dec!TrailByte = 4 /\ Dec!EscapeStart = 5 /\ Dec!Escape = 6 /\ Dec!Modes = Modes
  /\ \A i, f, m : Dec!Designates(i, f, m) <=> Designates(i, f, m)
  /\ \A b : Dec!JisByte(b) <=> JisByte(b)
  /\ \A m \in 0 .. 2 : \A b : Dec!PlainResult(m, b) = PlainResult(m, b)
  /\ \A l, t : Dec!PairResult(l, t) = PairResult(l, t)
<1>1. /\ Dec!ESC = 27 /\ Dec!Dollar = 36 /\ Dec!LeftParen = 40
      /\ Dec!ASCII = 0 /\ Dec!Roman = 1 /\ Dec!Katakana = 2 /\ Dec!LeadByte = 3
      /\ Dec!TrailByte = 4 /\ Dec!EscapeStart = 5 /\ Dec!Escape = 6 /\ Dec!Modes = Modes
  BY DEF Dec!ESC, Dec!Dollar, Dec!LeftParen, Dec!ASCII, Dec!Roman, Dec!Katakana,
     Dec!LeadByte, Dec!TrailByte, Dec!EscapeStart, Dec!Escape, Dec!Modes
<1>2. \A i, f, m : Dec!Designates(i, f, m) <=> Designates(i, f, m)
  BY <1>1 DEF Dec!Designates, Designates, LeftParen, Dollar,
     Dec!LetterB, Dec!LetterI, Dec!LetterJ, Dec!CommercialAt,
     LetterB, LetterI, LetterJ, CommercialAt
<1>3. \A b : Dec!JisByte(b) <=> JisByte(b)
  BY DEF Dec!JisByte, JisByte
<1>4. /\ \A n : Dec!Scalar(n) = Scalar(n)
      /\ Dec!Invalid = Invalid
  BY DEF Dec!Scalar, Scalar, Dec!Invalid, Invalid
<1>5. \A m \in 0 .. 2 : \A b : Dec!PlainResult(m, b) = PlainResult(m, b)
  BY <1>1, <1>4 DEF Dec!PlainResult, PlainResult, Dec!SO, SO, Dec!SI, SI,
     Dec!Backslash, Backslash, Dec!Tilde, Tilde, Dec!Yen, Yen, Dec!Overline, Overline
<1>6. \A l, t : Dec!PairPointer(l, t) = PairPointer(l, t)
  BY DEF Dec!PairPointer, PairPointer
<1>7. \A l, t : Dec!PairResult(l, t) = PairResult(l, t)
  BY <1>3, <1>4, <1>6 DEF Dec!PairResult, PairResult
<1> QED
  BY <1>1, <1>2, <1>3, <1>5, <1>7
-----------------------------------------------------------------------------
\* The first pointer of a code point, and the pair of bytes for it.
LEMMA FirstPointerHas ==
  ASSUME NEW cp, Enc!InJis(cp)
  PROVE  Enc!FirstPointer(cp) \in Pointers /\ Jis0208[Enc!FirstPointer(cp)] = cp
<1> DEFINE Having == {p \in Nat : p \in Pointers /\ Jis0208[p] = cp}
<1>1. PICK least \in Having : \A q \in Having : ~(q < least)
  <2>1. Having # {} /\ Having \subseteq Nat
    <3>1. PICK p \in Pointers : Jis0208[p] = cp
      BY SameCodes DEF Enc!InJis
    <3>2. p \in Nat
      BY DEF Pointers
    <3> QED
      BY <3>1, <3>2
  <2>2. PICK least \in Having : \A q \in Having : <<q, least>> \notin OpToRel(<, Nat)
    BY <2>1, NatLessThanWellFounded, WFMin
  <2> QED
    <3> SUFFICES ASSUME NEW q \in Having PROVE ~(q < least)
      OBVIOUS
    <3>1. <<q, least>> \notin OpToRel(<, Nat) /\ q \in Nat /\ least \in Nat
      BY <2>2
    <3> HIDE DEF Having
    <3> QED
      BY <3>1, Zenon DEF OpToRel
<1>2. least \in Nat /\ least \in Pointers /\ Jis0208[least] = cp
  OBVIOUS
<1>3. ASSUME NEW q \in 0 .. least - 1 PROVE Jis0208[q] # cp
  <2>1. q \in Nat /\ q < least
    BY <1>2
  <2> DEFINE top == 94 * 94 - 1
  <2>2. top \in Nat /\ Pointers = 0 .. top
    BY DEF Pointers
  <2> HIDE DEF top
  <2>3. q \in Pointers
    BY <1>2, <2>1, <2>2
  <2> QED
    BY <1>1, <2>1, <2>3
<1> HIDE DEF Having
<1>4. Enc!FirstPointer(cp) \in Enc!Pointers /\ Jis0208[Enc!FirstPointer(cp)] = cp
  BY <1>2, <1>3, SameCodes DEF Enc!FirstPointer
<1> QED
  BY <1>4, SameCodes

LEMMA PairOfPointer ==
  ASSUME NEW p \in Pointers, Jis0208[p] # 0
  PROVE  \E l, t \in Nat : /\ l = (p \div 94) + 33 /\ t = (p % 94) + 33
                          /\ JisByte(l) /\ t # ESC /\ PairResult(l, t) = Scalar(Jis0208[p])
<1> DEFINE l == (p \div 94) + 33
           t == (p % 94) + 33
<1>1. l \in 33 .. 126 /\ t \in 33 .. 126 /\ (l - 33) * 94 + (t - 33) = p
  BY DEF Pointers
<1> HIDE DEF l, t
<1>2. l \in Nat /\ t \in Nat /\ JisByte(l) /\ JisByte(t) /\ t # ESC /\ PairPointer(l, t) = p
  BY <1>1 DEF JisByte, ESC, PairPointer
<1>3. PairResult(l, t) = Scalar(Jis0208[p])
  BY <1>2 DEF PairResult
<1> QED
  BY <1>2, <1>3 DEF l, t

\* Bytes b, read in the encoder's mode m, say the result r.
Says(m, b, r) ==
  \/ /\ m \in {0, 1}
     /\ \E x \in Nat : b = <<x>> /\ x # 27 /\ PlainResult(m, x) = r
  \/ /\ m = 2
     /\ \E x, y \in Nat : b = <<x, y>> /\ JisByte(x) /\ y # 27 /\ PairResult(x, y) = r

\* The bytes the encoder puts before b when it changes from one mode to another.
Escaped(from, to) ==
  IF from = to THEN <<>>
  ELSE <<27, IF to = 2 THEN 36 ELSE 40, IF to = 1 THEN 74 ELSE 66>>

Writes(m, b) ==
  /\ mode' = m
  /\ wire' = (wire \o Escaped(mode, m)) \o b

LEMMA WriteWrites ==
  ASSUME NEW m \in {0, 1, 2}, NEW b, Enc!Write(m, b)
  PROVE  Writes(m, b)
<1>1. Enc!EscapeInto(m) = <<27, IF m = 2 THEN 36 ELSE 40, IF m = 1 THEN 74 ELSE 66>>
  BY SameCodes DEF Enc!EscapeInto
<1> QED
  BY <1>1 DEF Enc!Write, Writes, Escaped

\* What a step of the encoder does to the text, and to its mode and bytes.
Encodes(m, b) ==
  /\ read < Len(text)
  /\ read' = read + 1
  /\ UNCHANGED <<text, written>>
  /\ Writes(m, b)
  /\ Says(m, b, ReadBackAs(text[read + 1]))

LEMMA EncodeRomanSays ==
  ASSUME Enc!EncodeRoman
  PROVE  \E b \in Seq(Nat) : Encodes(1, b)
<1>1. PICK x \in Nat : /\ (x = 92 /\ text[read + 1] = 165) \/ (x = 126 /\ text[read + 1] = 8254)
                       /\ Enc!Write(1, <<x>>)
  BY SameCodes DEF Enc!EncodeRoman, Enc!Here, Yen, Overline
<1>2. PlainResult(1, x) = ReadBackAs(text[read + 1]) /\ x # 27
  BY <1>1 DEF PlainResult, ReadBackAs, HasBytes, Yen, Overline, Backslash, Tilde, SO, SI
<1>3. Writes(1, <<x>>)
  BY <1>1, WriteWrites
<1>4. Says(1, <<x>>, ReadBackAs(text[read + 1]))
  BY <1>2 DEF Says
<1>5. <<x>> \in Seq(Nat)
  OBVIOUS
<1> QED
  BY <1>3, <1>4, <1>5 DEF Enc!EncodeRoman, Enc!Read, Encodes

LEMMA EncodeAsciiSays ==
  ASSUME Enc!EncodeAscii, text[read + 1] \in Nat, text[read + 1] \notin {ESC, SO, SI}
  PROVE  \E b \in Seq(Nat) : Encodes(0, b)
<1>1. PICK x \in Nat : x = text[read + 1] /\ x < 128 /\ Enc!Write(0, <<x>>)
  BY SameCodes DEF Enc!EncodeAscii, Enc!Here
<1>2. PlainResult(0, x) = ReadBackAs(x) /\ x # 27
  BY <1>1 DEF PlainResult, ReadBackAs, HasBytes, ESC
<1>3. Writes(0, <<x>>)
  BY <1>1, WriteWrites
<1>4. Says(0, <<x>>, ReadBackAs(text[read + 1]))
  BY <1>1, <1>2 DEF Says
<1>5. <<x>> \in Seq(Nat)
  OBVIOUS
<1> QED
  BY <1>3, <1>4, <1>5 DEF Enc!EncodeAscii, Enc!Read, Encodes

LEMMA EncodeJisSays ==
  ASSUME Enc!EncodeJis, text[read + 1] \in Nat
  PROVE  \E b \in Seq(Nat) : Encodes(2, b)
<1>1. PICK cp, p : /\ cp = text[read + 1] /\ cp >= 128 /\ Enc!InJis(cp)
                  /\ p = Enc!FirstPointer(cp)
                  /\ Enc!Write(2, <<(p \div 94) + 33, (p % 94) + 33>>)
  BY SameCodes DEF Enc!EncodeJis, Enc!Multibyte, Enc!Here
<1>2. p \in Pointers /\ Jis0208[p] = cp /\ cp # 0
  BY <1>1, FirstPointerHas
<1>3. PICK x, y \in Nat : /\ x = (p \div 94) + 33 /\ y = (p % 94) + 33
                          /\ JisByte(x) /\ y # ESC /\ PairResult(x, y) = Scalar(cp)
  BY <1>2, PairOfPointer
<1>4. ReadBackAs(cp) = Scalar(cp)
  BY <1>1 DEF ReadBackAs, HasBytes
<1>5. Writes(2, <<x, y>>)
  BY <1>1, <1>3, WriteWrites
<1>6. Says(2, <<x, y>>, ReadBackAs(text[read + 1]))
  BY <1>1, <1>3, <1>4 DEF Says, ESC
<1>7. <<x, y>> \in Seq(Nat)
  OBVIOUS
<1> QED
  BY <1>5, <1>6, <1>7 DEF Enc!EncodeJis, Enc!Read, Encodes

LEMMA EncodeUnmappedSays ==
  ASSUME Enc!EncodeUnmapped, ~Report, text[read + 1] \in Nat
  PROVE  \E b \in Seq(Nat) : Encodes(0, b)
<1>1. Enc!Write(0, <<63>>) /\ ~HasBytes(text[read + 1])
  BY SameCodes DEF Enc!EncodeUnmapped, Enc!Multibyte, Enc!Here, HasBytes
<1>2. PlainResult(0, 63) = ReadBackAs(text[read + 1])
  BY <1>1, SameCodes DEF PlainResult, ReadBackAs, SO, SI
<1>3. Writes(0, <<63>>)
  BY <1>1, WriteWrites
<1>4. Says(0, <<63>>, ReadBackAs(text[read + 1]))
  BY <1>2 DEF Says
<1>5. <<63>> \in Seq(Nat)
  OBVIOUS
<1> QED
  BY <1>3, <1>4, <1>5 DEF Enc!EncodeUnmapped, Enc!Read, Encodes

Flushes ==
  /\ read = Len(text)
  /\ mode # 0
  /\ Writes(0, <<>>)
  /\ UNCHANGED <<text, read, written>>

EndsText ==
  /\ ~written
  /\ read = Len(text)
  /\ mode = 0
  /\ written'
  /\ UNCHANGED <<text, read, mode, wire>>

LEMMA EncoderSteps ==
  ASSUME Enc!Next, ~Report, PlainTexts, EncoderAssumption, text \in Texts, read \in Nat
  PROVE  \/ \E m \in {0, 1, 2} : \E b \in Seq(Nat) : Encodes(m, b)
         \/ Flushes
         \/ EndsText
<1>1. CASE Enc!EncodeRoman
  BY <1>1, EncodeRomanSays
<1>2. CASE read < Len(text)
  <2>1. text \in Seq(Nat) /\ read + 1 \in 1 .. Len(text)
    BY <1>2 DEF EncoderAssumption
  <2>2. text[read + 1] \in Nat /\ text[read + 1] \notin {ESC, SO, SI}
    BY <2>1 DEF PlainTexts
  <2> QED
    BY <1>2, <2>1, <2>2, EncodeRomanSays, EncodeAsciiSays, EncodeJisSays, EncodeUnmappedSays
       DEF Enc!Next, Enc!Flush, Enc!Finish
<1>3. CASE ~(read < Len(text))
  <2>1. Enc!Flush \/ Enc!Finish
    BY <1>3 DEF Enc!Next, Enc!EncodeRoman, Enc!EncodeAscii, Enc!EncodeJis,
       Enc!EncodeUnmapped, Enc!Read
  <2>2. CASE Enc!Flush
    <3>1. Enc!Write(0, <<>>)
      BY <2>2, SameCodes DEF Enc!Flush
    <3> QED
      BY <2>2, <3>1, WriteWrites, SameCodes DEF Enc!Flush, Flushes
  <2>3. CASE Enc!Finish
    BY <2>3, SameCodes DEF Enc!Finish, EndsText
  <2> QED
    BY <2>1, <2>2, <2>3
<1> QED
  BY <1>2, <1>3
-----------------------------------------------------------------------------
\* The inductive invariant.

\* From byte c + 1 to its end, w holds the bytes of one character, read as r.
HoldsCharacter(w, m, r, c) ==
  \/ /\ m \in {0, 1}
     /\ c + 1 = Len(w)
     /\ w[c + 1] # 27
     /\ PlainResult(m, w[c + 1]) = r
  \/ /\ m = 2
     /\ c + 2 = Len(w)
     /\ JisByte(w[c + 1]) /\ w[c + 2] # 27
     /\ PairResult(w[c + 1], w[c + 2]) = r

\* The decoder's mode for a mode of the encoder.
ModeOf(m) == IF m = 2 THEN LeadByte ELSE m

\* Beyond byte c there is what the encoder wrote last and nothing else.
Owed(c) ==
  \/ Len(out) = read /\ c = Len(wire)
  \/ Len(out) + 1 = read /\ HoldsCharacter(wire, mode, ReadBackAs(text[read]), c)

\* An escape sequence with nothing behind it is the one the text ends with.
LastEscape == Len(out) = read => read = Len(text) /\ mode = 0

Ready ==
  /\ state = ModeOf(mode) /\ output_state = ModeOf(mode)
  /\ Owed(current)
  /\ output_flag = TRUE => LastEscape

BeforeEscape ==
  /\ state \in Modes /\ output_state = state /\ output_flag = FALSE
  /\ wire[current + 1] = 27
  /\ wire[current + 2] \in {36, 40}
  /\ Designates(wire[current + 2], wire[current + 3], ModeOf(mode))
  /\ current + 3 <= Len(wire) /\ Owed(current + 3) /\ LastEscape

AfterEsc ==
  /\ state = EscapeStart /\ output_flag = FALSE
  /\ wire[current + 1] \in {36, 40}
  /\ Designates(wire[current + 1], wire[current + 2], ModeOf(mode))
  /\ current + 2 <= Len(wire) /\ Owed(current + 2) /\ LastEscape

AfterIntermediate ==
  /\ state = Escape /\ output_flag = FALSE
  /\ Designates(lead, wire[current + 1], ModeOf(mode))
  /\ current + 1 <= Len(wire) /\ Owed(current + 1) /\ LastEscape

InPair ==
  /\ state = TrailByte /\ output_state = LeadByte /\ mode = 2
  /\ current + 1 = Len(wire) /\ Len(out) + 1 = read
  /\ wire[current + 1] # 27
  /\ PairResult(lead, wire[current + 1]) = ReadBackAs(text[read])

Elements == [result : {ReadBackAs(cp) : cp \in Nat}, upto : Int]

ReadSoFar(o, t) == \A i \in 1 .. Len(o) : o[i].result = ReadBackAs(t[i])

Types ==
  /\ text \in Texts /\ text \in Seq(Nat)
  /\ read \in Nat /\ read <= Len(text)
  /\ mode \in {0, 1, 2}
  /\ wire \in Seq(Nat)
  /\ written \in BOOLEAN
  /\ current \in Nat /\ current <= Len(wire)
  /\ output_state \in Modes
  /\ output_flag \in BOOLEAN
  /\ pending = <<>>
  /\ out \in Seq(Elements)
  /\ done \in BOOLEAN

Ends ==
  /\ written = TRUE => read = Len(text) /\ mode = 0
  /\ done = TRUE => written = TRUE /\ current = Len(wire) /\ Ready

IInv ==
  /\ Types
  /\ Ends
  /\ ReadSoFar(out, text)
  /\ Ready \/ BeforeEscape \/ AfterEsc \/ AfterIntermediate \/ InPair

LEMMA ReadyLength ==
  ASSUME IInv
  PROVE  /\ Len(out) \in Nat /\ Len(wire) \in Nat /\ Len(text) \in Nat
         /\ current = Len(wire) => Ready /\ Len(out) = read
         /\ current # Len(wire) => current + 1 \in 1 .. Len(wire)
<1>1. Len(out) \in Nat /\ Len(wire) \in Nat /\ Len(text) \in Nat
  BY LenProperties DEF IInv, Types
<1> QED
  BY <1>1 DEF IInv, Types, Ready, BeforeEscape, AfterEsc, AfterIntermediate, InPair,
     Owed, HoldsCharacter

LEMMA Initially == Init /\ EncoderAssumption => IInv
<1> SUFFICES ASSUME Init, EncoderAssumption PROVE IInv
  OBVIOUS
<1>1. /\ text \in Texts /\ read = 0 /\ mode = 0 /\ wire = <<>> /\ written = FALSE
      /\ current = 0 /\ state = 0 /\ output_state = 0 /\ output_flag = FALSE
      /\ lead = 0 /\ pending = <<>> /\ out = <<>> /\ done = FALSE
  BY SameCodes, SameReading DEF Init, Enc!Init, Dec!Init
<1>2. text \in Seq(Nat) /\ Len(text) \in Nat
  BY <1>1, LenProperties DEF EncoderAssumption
<1>3. /\ wire \in Seq(Nat) /\ Len(wire) = 0 /\ Len(out) = 0
      /\ out \in Seq(Elements)
  BY <1>1, EmptySeq
<1>4. Types
  <2>1. written \in BOOLEAN /\ output_flag \in BOOLEAN /\ done \in BOOLEAN
    BY <1>1
  <2>2. mode \in {0, 1, 2} /\ output_state \in Modes
    BY <1>1
  <2>3. read \in Nat /\ read <= Len(text) /\ current \in Nat /\ current <= Len(wire)
    BY <1>1, <1>2, <1>3
  <2> QED
    BY <1>1, <1>2, <1>3, <2>1, <2>2, <2>3, Zenon DEF Types
<1>5. Ready /\ Ends /\ ReadSoFar(out, text)
  BY <1>1, <1>3 DEF Ready, ModeOf, Owed, Ends, ReadSoFar
<1> QED
  BY <1>4, <1>5 DEF IInv
-----------------------------------------------------------------------------
\* The encoder: what it puts on the wire is what the decoder then has left.

Joins(u, s, t, m, n) ==
  /\ u \in Seq(Nat) /\ Len(u) = m + n
  /\ \A i \in 1 .. m : u[i] = s[i]
  /\ \A i \in 1 .. n : u[m + i] = t[i]

LEMMA Joined ==
  ASSUME NEW s \in Seq(Nat), NEW t \in Seq(Nat)
  PROVE  Joins(s \o t, s, t, Len(s), Len(t))
<1>1. PICK m, n \in Nat : m = Len(s) /\ n = Len(t)
  BY LenProperties
<1> DEFINE u == s \o t
<1>2. /\ u \in Seq(Nat) /\ Len(u) = m + n
      /\ \A i \in 1 .. m + n : u[i] = IF i <= m THEN s[i] ELSE t[i - m]
  <2>1. /\ u \in Seq(Nat) /\ Len(u) = Len(s) + Len(t)
        /\ \A i \in 1 .. Len(s) + Len(t) : u[i] = IF i <= Len(s) THEN s[i] ELSE t[i - Len(s)]
    BY ConcatProperties, Zenon
  <2> HIDE DEF u
  <2> QED
    BY <1>1, <2>1
<1> HIDE DEF u
<1>3. ASSUME NEW i \in 1 .. n PROVE u[m + i] = t[i]
  <2>1. m + i \in 1 .. m + n /\ ~(m + i <= m) /\ (m + i) - m = i
    OBVIOUS
  <2> QED
    BY <1>2, <2>1
<1>4. Joins(u, s, t, Len(s), Len(t))
  BY <1>1, <1>2, <1>3 DEF Joins
<1> QED
  BY <1>4 DEF u

\* The wire after Writes(m, b) behind its first w bytes: k of an escape sequence.
Grown(new, w, k, m, b) ==
  /\ new \in Seq(Nat)
  /\ Len(new) = w + k + Len(b)
  /\ \A i \in 1 .. Len(b) : new[w + k + i] = b[i]
  /\ mode # m => /\ new[w + 1] = 27
                 /\ new[w + 2] \in {36, 40}
                 /\ Designates(new[w + 2], new[w + 3], ModeOf(m))

LEMMA WireGrows ==
  ASSUME NEW w \in Nat, w = Len(wire), wire \in Seq(Nat), mode \in {0, 1, 2},
         NEW m \in {0, 1, 2}, NEW b \in Seq(Nat), Writes(m, b),
         NEW k \in Nat, k = IF mode = m THEN 0 ELSE 3
  PROVE  Grown(wire', w, k, m, b)
<1> DEFINE e == Escaped(mode, m)
           we == wire \o e
<1>1. e \in Seq(Nat) /\ Len(e) = k
  BY DEF Escaped
<1>2. mode # m => /\ e[1] = 27 /\ e[2] \in {36, 40}
                  /\ Designates(e[2], e[3], ModeOf(m))
  BY DEF Escaped, Designates, ModeOf, LeftParen, Dollar, LetterB, LetterJ
<1>3. PICK n \in Nat : n = Len(b)
  BY LenProperties
<1>4. wire' = we \o b
  BY DEF Writes
<1> HIDE DEF e
<1>5. Joins(we, wire, e, w, k)
  <2>1. Joins(we, wire, e, Len(wire), Len(e))
    BY <1>1, Joined
  <2> QED
    BY <1>1, <2>1
<1> HIDE DEF we
<1>6. Joins(wire', we, b, w + k, n)
  <2>1. we \in Seq(Nat) /\ Len(we) = w + k
    BY <1>5 DEF Joins
  <2>2. Joins(we \o b, we, b, Len(we), Len(b))
    BY <2>1, Joined
  <2> QED
    BY <1>3, <1>4, <2>1, <2>2
<1>7. ASSUME mode # m
      PROVE  /\ wire'[w + 1] = 27
             /\ wire'[w + 2] \in {36, 40}
             /\ Designates(wire'[w + 2], wire'[w + 3], ModeOf(m))
  <2>1. k = 3
    BY <1>7
  <2>2. \A i \in 1 .. 3 : w + i \in 1 .. w + 3
    OBVIOUS
  <2>3. \A i \in 1 .. 3 : wire'[w + i] = e[i]
    BY <1>5, <1>6, <2>1, <2>2 DEF Joins
  <2>4. wire'[w + 1] = e[1] /\ wire'[w + 2] = e[2] /\ wire'[w + 3] = e[3]
    BY <2>3
  <2> QED
    BY <1>2, <1>7, <2>4
<1> QED
  BY <1>3, <1>6, <1>7 DEF Joins, Grown

\* The decoder has read everything, and the encoder goes on.
LEMMA EncodeKeeps ==
  ASSUME IInv, ~Dec!HasByte, UNCHANGED decoder,
         NEW m \in {0, 1, 2}, NEW b \in Seq(Nat), Encodes(m, b)
  PROVE  IInv'
<1>1. /\ pending = <<>> /\ current = Len(wire) /\ current \in Nat
      /\ Ready /\ Len(out) = read /\ read \in Nat /\ Len(text) \in Nat
  BY ReadyLength DEF Dec!HasByte, IInv, Types
<1>2. /\ read < Len(text) /\ read' = read + 1 /\ mode' = m
      /\ UNCHANGED <<text, written, current, state, output_state, output_flag, lead,
                     pending, out, done>>
      /\ Writes(m, b) /\ Says(m, b, ReadBackAs(text[read + 1]))
  BY DEF Encodes, Writes, decoder
<1> DEFINE k == IF mode = m THEN 0 ELSE 3
<1>k. k \in Nat /\ k = IF mode = m THEN 0 ELSE 3
  OBVIOUS
<1> HIDE DEF k
<1>3. /\ wire' \in Seq(Nat)
      /\ Len(wire') = current + k + Len(b)
      /\ \A i \in 1 .. Len(b) : wire'[current + k + i] = b[i]
      /\ mode # m => /\ wire'[current + 1] = 27
                     /\ wire'[current + 2] \in {36, 40}
                     /\ Designates(wire'[current + 2], wire'[current + 3], ModeOf(m))
  <2>1. wire \in Seq(Nat) /\ mode \in {0, 1, 2}
    BY DEF IInv, Types
  <2>2. Grown(wire', current, k, m, b)
    BY <1>1, <1>2, <1>k, <2>1, WireGrows
  <2> QED
    BY <2>2 DEF Grown
<1>4. HoldsCharacter(wire', m, ReadBackAs(text[read + 1]), current + k)
  <2>1. CASE m \in {0, 1}
    <3>1. PICK x \in Nat : b = <<x>> /\ x # 27 /\ PlainResult(m, x) = ReadBackAs(text[read + 1])
      BY <1>2, <2>1 DEF Says
    <3>2. Len(b) = 1 /\ b[1] = x
      BY <3>1
    <3>3. Len(wire') = current + k + 1 /\ wire'[current + k + 1] = x
      BY <1>3, <3>2
    <3> QED
      BY <2>1, <3>1, <3>3 DEF HoldsCharacter
  <2>2. CASE m = 2
    <3>1. PICK x, y \in Nat : /\ b = <<x, y>> /\ JisByte(x) /\ y # 27
                              /\ PairResult(x, y) = ReadBackAs(text[read + 1])
      BY <1>2, <2>2 DEF Says
    <3>2. Len(b) = 2 /\ b[1] = x /\ b[2] = y
      BY <3>1
    <3>3. /\ Len(wire') = current + k + 2
          /\ wire'[current + k + 1] = x /\ wire'[current + k + 2] = y
      BY <1>3, <3>2
    <3> QED
      BY <2>2, <3>1, <3>3 DEF HoldsCharacter
  <2> QED
    BY <2>1, <2>2
<1>5. Len(wire') \in Nat /\ current + k <= Len(wire')
  <2>1. PICK n \in Nat : n = Len(b)
    BY LenProperties
  <2> QED
    BY <1>1, <1>3, <1>k, <2>1
<1>6. Types'
  <2>1. read' \in Nat /\ read' <= Len(text') /\ current' \in Nat /\ current' <= Len(wire')
    BY <1>1, <1>2, <1>5, <1>k
  <2> QED
    BY <1>2, <1>3, <2>1 DEF IInv, Types
<1>7. written = FALSE /\ done = FALSE
  BY <1>1, <1>2 DEF IInv, Types, Ends
<1>8. Ends'
  BY <1>2, <1>7 DEF Ends
<1>9. ReadSoFar(out, text)'
  BY <1>2 DEF IInv, ReadSoFar
<1>10. Len(out') + 1 = read' /\ text'[read'] = text[read + 1]
  BY <1>1, <1>2
<1> USE DEF k
<1>11. CASE mode = m
  <2>1. HoldsCharacter(wire', mode', ReadBackAs(text'[read']), current')
    BY <1>1, <1>2, <1>4, <1>10, <1>11
  <2>2. Ready'
    BY <1>1, <1>2, <1>10, <1>11, <2>1 DEF Ready, Owed, LastEscape
  <2> QED
    BY <1>6, <1>8, <1>9, <2>2 DEF IInv
<1>12. CASE mode # m
  <2>1. HoldsCharacter(wire', mode', ReadBackAs(text'[read']), current' + 3)
    BY <1>1, <1>2, <1>4, <1>10, <1>12
  <2>2. output_flag = FALSE
    BY <1>1, <1>2 DEF IInv, Types, Ready, LastEscape
  <2>3. state \in Modes /\ output_state = state
    BY <1>1 DEF Ready, ModeOf, IInv, Types
  <2>4. BeforeEscape'
    BY <1>1, <1>2, <1>3, <1>5, <1>10, <1>12, <2>1, <2>2, <2>3 DEF BeforeEscape, Owed, LastEscape
  <2> QED
    BY <1>6, <1>8, <1>9, <2>4 DEF IInv
<1> QED
  BY <1>11, <1>12

LEMMA FlushKeeps ==
  ASSUME IInv, ~Dec!HasByte, UNCHANGED decoder, Flushes
  PROVE  IInv'
<1>1. /\ pending = <<>> /\ current = Len(wire) /\ current \in Nat
      /\ Ready /\ Len(out) = read /\ read \in Nat
  BY ReadyLength DEF Dec!HasByte, IInv, Types
<1>2. /\ read = Len(text) /\ mode # 0 /\ mode' = 0 /\ Writes(0, <<>>)
      /\ UNCHANGED <<text, read, written, current, state, output_state, output_flag, lead,
                     pending, out, done>>
  BY DEF Flushes, Writes, decoder
<1>3. /\ wire' \in Seq(Nat)
      /\ Len(wire') = current + 3
      /\ wire'[current + 1] = 27
      /\ wire'[current + 2] \in {36, 40}
      /\ Designates(wire'[current + 2], wire'[current + 3], ModeOf(0))
  <2>1. PICK none \in Seq(Nat) : none = <<>> /\ Len(none) = 0
    BY EmptySeq
  <2>2. PICK k \in Nat : k = 3 /\ k = IF mode = 0 THEN 0 ELSE 3
    BY <1>2
  <2>3. wire \in Seq(Nat) /\ mode \in {0, 1, 2} /\ Writes(0, none)
    BY <1>2, <2>1 DEF IInv, Types
  <2>4. Grown(wire', current, k, 0, none)
    BY <1>1, <2>2, <2>3, WireGrows
  <2> QED
    BY <1>1, <1>2, <2>1, <2>2, <2>4 DEF Grown
<1>4. Types'
  BY <1>1, <1>2, <1>3 DEF IInv, Types
<1>5. written = FALSE /\ done = FALSE
  BY <1>2 DEF IInv, Types, Ends
<1>6. Ends' /\ ReadSoFar(out, text)'
  BY <1>2, <1>5 DEF IInv, Ends, ReadSoFar
<1>7. output_flag = FALSE
  BY <1>1, <1>2 DEF IInv, Types, Ready, LastEscape
<1>8. state \in Modes /\ output_state = state
  BY <1>1 DEF Ready, ModeOf, IInv, Types
<1>9. BeforeEscape'
  BY <1>1, <1>2, <1>3, <1>7, <1>8 DEF BeforeEscape, Owed, LastEscape
<1> QED
  BY <1>4, <1>6, <1>9 DEF IInv

LEMMA EndKeeps ==
  ASSUME IInv, ~Dec!HasByte, UNCHANGED decoder, EndsText
  PROVE  IInv'
<1>1. /\ pending = <<>> /\ current = Len(wire) /\ Ready
  BY ReadyLength DEF Dec!HasByte, IInv, Types
<1>2. /\ read = Len(text) /\ mode = 0 /\ written' = TRUE /\ written = FALSE
      /\ UNCHANGED <<text, read, mode, wire, current, state, output_state, output_flag, lead,
                     pending, out, done>>
  BY DEF EndsText, decoder, IInv, Types
<1>3. Types'
  BY <1>2 DEF IInv, Types
<1>4. Ready'
  BY <1>1, <1>2 DEF Ready, Owed, LastEscape
<1>5. Ends' /\ ReadSoFar(out, text)'
  BY <1>2 DEF IInv, Ends, ReadSoFar
<1> QED
  BY <1>3, <1>4, <1>5 DEF IInv
-----------------------------------------------------------------------------
\* The decoder: one lemma for each of the places it can be in.

\* What a step of the decoder does when no byte has been put back.
Consumed ==
  /\ current < Len(wire)
  /\ current' = current + 1
  /\ UNCHANGED <<text, read, mode, wire, written, done>>

Yields(r) ==
  /\ \E n \in Int : out' = Append(out, [result |-> r, upto |-> n])
  /\ pending' = <<>>

Byte1 == wire[current + 1]

LEMMA DecoderReads ==
  ASSUME Decode, pending = <<>>, current \in Nat, Len(wire) \in Nat
  PROVE  Consumed
<1>1. Dec!HasByte /\ current' = current + 1 /\ UNCHANGED <<wire, done>>
  BY Zenon DEF Decode, Dec!DecodeByte, Dec!EscapeStartIntermediate, Dec!EscapeStartOther,
     Dec!EscapeSwitch, Dec!EscapeOther, Dec!BeginEscape, Dec!ReadLead, Dec!ReadTrail,
     Dec!ReadPlain, Dec!Read
<1>2. current < Len(wire)
  BY <1>1 DEF Dec!HasByte
<1> QED
  BY <1>1, <1>2 DEF Decode, encoder, Consumed

\* The steps of a decoder that reads what it expects to.
LEMMA DecoderDoes ==
  ASSUME Decode, pending = <<>>, current \in Nat, Len(wire) \in Nat
  PROVE  /\ state \in Modes /\ Byte1 = 27 =>
              /\ state' = EscapeStart
              /\ UNCHANGED <<output_state, output_flag, lead, out, pending>>
         /\ state = EscapeStart /\ Byte1 \in {36, 40} =>
              /\ lead' = Byte1 /\ state' = Escape
              /\ UNCHANGED <<output_state, output_flag, out, pending>>
         /\ \A to \in Modes : state = Escape /\ Designates(lead, Byte1, to) =>
              /\ output_state' = to /\ state' = to /\ pending' = <<>>
              /\ output_flag' = ~output_flag
              /\ output_flag = FALSE => UNCHANGED out
         /\ state = LeadByte /\ Byte1 # 27 /\ JisByte(Byte1) =>
              /\ lead' = Byte1 /\ state' = TrailByte
              /\ UNCHANGED <<output_state, output_flag, out, pending>>
         /\ state = TrailByte /\ Byte1 # 27 =>
              /\ state' = output_state /\ output_state' = output_state
              /\ output_flag' = FALSE /\ Yields(PairResult(lead, Byte1))
         /\ state \in {0, 1, 2} /\ Byte1 # 27 =>
              /\ output_flag' = FALSE /\ Yields(PlainResult(state, Byte1))
              /\ UNCHANGED <<state, output_state>>
<1> USE SameReading
<1>1. Dec!TheByte = Byte1 /\ Dec!Unread = pending
  BY DEF Dec!TheByte, Dec!Unread, Byte1
<1>2. current' = current + 1
  BY DecoderReads DEF Consumed
<1>3. \A r : Dec!Emit(r) /\ pending' = <<>> => Yields(r)
  <2>1. pending' = <<>> => Dec!Position' = current + 1
    BY <1>2 DEF Dec!Position
  <2> QED
    BY <2>1 DEF Dec!Emit, Yields
<1>4. ASSUME state \in Modes, Byte1 = 27
      PROVE  /\ state' = EscapeStart
             /\ UNCHANGED <<output_state, output_flag, lead, out, pending>>
  <2>1. state \in {0, 1, 2, 3}
    BY <1>4
  <2>2. Dec!BeginEscape
    BY <1>1, <1>4, <2>1 DEF Decode, Dec!DecodeByte, Dec!EscapeStartIntermediate, Dec!EscapeStartOther,
     Dec!EscapeSwitch, Dec!EscapeOther, Dec!BeginEscape, Dec!ReadLead, Dec!ReadTrail,
     Dec!ReadPlain
  <2> QED
    BY <1>1, <2>2 DEF Dec!BeginEscape, Dec!Read
<1>5. ASSUME state = EscapeStart, Byte1 \in {36, 40}
      PROVE  /\ lead' = Byte1 /\ state' = Escape
             /\ UNCHANGED <<output_state, output_flag, out, pending>>
  <2>1. Dec!EscapeStartIntermediate
    BY <1>1, <1>5 DEF Decode, Dec!DecodeByte, Dec!EscapeStartIntermediate, Dec!EscapeStartOther,
     Dec!EscapeSwitch, Dec!EscapeOther, Dec!BeginEscape, Dec!ReadLead, Dec!ReadTrail,
     Dec!ReadPlain
  <2> QED
    BY <1>1, <2>1 DEF Dec!EscapeStartIntermediate, Dec!Read
<1>6. ASSUME NEW to \in Modes, state = Escape, Designates(lead, Byte1, to)
      PROVE  /\ output_state' = to /\ state' = to /\ pending' = <<>>
             /\ output_flag' = ~output_flag
             /\ output_flag = FALSE => UNCHANGED out
  <2>1. PICK m \in Modes : Dec!EscapeSwitch(m)
    BY <1>1, <1>6 DEF Decode, Dec!DecodeByte, Dec!EscapeStartIntermediate, Dec!EscapeStartOther,
     Dec!EscapeSwitch, Dec!EscapeOther, Dec!BeginEscape, Dec!ReadLead, Dec!ReadTrail,
     Dec!ReadPlain
  <2>2. m = to
    BY <1>1, <1>6, <2>1 DEF Dec!EscapeSwitch, Designates, LeftParen, Dollar, LetterB,
       LetterI, LetterJ, CommercialAt
  <2> QED
    BY <1>1, <2>1, <2>2 DEF Dec!EscapeSwitch, Dec!Read
<1>7. ASSUME state = LeadByte, Byte1 # 27, JisByte(Byte1)
      PROVE  /\ lead' = Byte1 /\ state' = TrailByte
             /\ UNCHANGED <<output_state, output_flag, out, pending>>
  <2>1. Dec!ReadLead
    BY <1>1, <1>7 DEF Decode, Dec!DecodeByte, Dec!EscapeStartIntermediate, Dec!EscapeStartOther,
     Dec!EscapeSwitch, Dec!EscapeOther, Dec!BeginEscape, Dec!ReadLead, Dec!ReadTrail,
     Dec!ReadPlain
  <2> QED
    BY <1>1, <1>7, <2>1 DEF Dec!ReadLead, Dec!Read
<1>8. ASSUME state = TrailByte, Byte1 # 27
      PROVE  /\ state' = output_state /\ output_state' = output_state
             /\ output_flag' = FALSE /\ Yields(PairResult(lead, Byte1))
  <2>1. Dec!ReadTrail
    BY <1>1, <1>8 DEF Decode, Dec!DecodeByte, Dec!EscapeStartIntermediate, Dec!EscapeStartOther,
     Dec!EscapeSwitch, Dec!EscapeOther, Dec!BeginEscape, Dec!ReadLead, Dec!ReadTrail,
     Dec!ReadPlain
  <2> QED
    BY <1>1, <1>3, <2>1 DEF Dec!ReadTrail, Dec!Read, Dec!Fail
<1>9. ASSUME state \in {0, 1, 2}, Byte1 # 27
      PROVE  /\ output_flag' = FALSE /\ Yields(PlainResult(state, Byte1))
             /\ UNCHANGED <<state, output_state>>
  <2>1. Dec!ReadPlain
    BY <1>1, <1>9 DEF Decode, Dec!DecodeByte, Dec!EscapeStartIntermediate, Dec!EscapeStartOther,
     Dec!EscapeSwitch, Dec!EscapeOther, Dec!BeginEscape, Dec!ReadLead, Dec!ReadTrail,
     Dec!ReadPlain
  <2> QED
    BY <1>1, <1>3, <1>9, <2>1 DEF Dec!ReadPlain, Dec!Read
<1> QED
  BY <1>4, <1>5, <1>6, <1>7, <1>8, <1>9, Zenon

LEMMA OutGrows ==
  ASSUME IInv, Len(out) + 1 = read, NEW r, Yields(r), r = ReadBackAs(text[read])
  PROVE  /\ out' \in Seq(Elements)
         /\ Len(out') = read
         /\ ReadSoFar(out', text)
         /\ pending' = <<>>
<1>1. PICK n \in Int : out' = Append(out, [result |-> r, upto |-> n])
  BY DEF Yields
<1>2. out \in Seq(Elements) /\ Len(out) \in Nat /\ read \in 1 .. Len(text) /\ text \in Seq(Nat)
  BY ReadyLength DEF IInv, Types
<1>3. text[read] \in Nat
  BY <1>2
<1>4. [result |-> r, upto |-> n] \in Elements
  BY <1>3 DEF Elements
<1> DEFINE e == [result |-> r, upto |-> n]
<1>5. e.result = ReadBackAs(text[read])
  OBVIOUS
<1> HIDE DEF e
<1>6. /\ out' \in Seq(Elements) /\ Len(out') = read
      /\ \A i \in 1 .. Len(out) : out'[i] = out[i]
      /\ out'[read] = e
  BY <1>1, <1>2, <1>4 DEF e
<1>7. ASSUME NEW i \in 1 .. Len(out')
      PROVE  out'[i].result = ReadBackAs(text[i])
  <2>1. CASE i = read
    BY <1>5, <1>6, <2>1
  <2>2. CASE i # read
    <3>1. i \in 1 .. Len(out)
      BY <1>2, <1>6, <2>2
    <3> QED
      BY <1>6, <3>1 DEF IInv, ReadSoFar
  <2> QED
    BY <2>1, <2>2
<1> QED
  BY <1>6, <1>7 DEF Yields, ReadSoFar

\* What holds after a step of the decoder whatever the step is.
LEMMA StillTyped ==
  ASSUME IInv, Consumed, out' \in Seq(Elements), ReadSoFar(out', text),
         output_state' \in Modes, output_flag' \in BOOLEAN, pending' = <<>>
  PROVE  Types' /\ Ends' /\ ReadSoFar(out, text)'
<1>1. /\ current \in Nat /\ Len(wire) \in Nat /\ current < Len(wire) /\ current' = current + 1
      /\ UNCHANGED <<text, read, mode, wire, written, done>>
  BY ReadyLength DEF IInv, Types, Consumed
<1>2. done = FALSE
  BY <1>1 DEF IInv, Types, Ends
<1>3. Types'
  <2>1. current' \in Nat /\ current' <= Len(wire')
    BY <1>1
  <2> QED
    BY <1>1, <2>1 DEF IInv, Types
<1> QED
  BY <1>1, <1>2, <1>3 DEF IInv, Ends

\* A single-byte character, or the first byte of a pair.
LEMMA ReadyDecodes ==
  ASSUME IInv, Ready, Decode
  PROVE  IInv'
<1>1. /\ pending = <<>> /\ current \in Nat /\ Len(wire) \in Nat /\ Len(out) \in Nat
      /\ read \in Nat /\ mode \in {0, 1, 2}
  BY ReadyLength DEF IInv, Types
<1>2. Consumed
  BY <1>1, DecoderReads
<1>3. Len(out) + 1 = read /\ HoldsCharacter(wire, mode, ReadBackAs(text[read]), current)
  BY <1>1, <1>2 DEF Ready, Owed, Consumed
<1>4. CASE mode # 2
  <2>1. /\ mode \in {0, 1} /\ current + 1 = Len(wire)
        /\ Byte1 # 27 /\ PlainResult(mode, Byte1) = ReadBackAs(text[read])
        /\ state = mode /\ output_state = mode
    BY <1>1, <1>3, <1>4 DEF HoldsCharacter, Byte1, Ready, ModeOf
  <2>2. /\ output_flag' = FALSE /\ Yields(PlainResult(mode, Byte1))
        /\ UNCHANGED <<state, output_state>>
    BY <1>1, <2>1, DecoderDoes
  <2>3. /\ out' \in Seq(Elements) /\ Len(out') = read /\ ReadSoFar(out', text)
        /\ pending' = <<>>
    BY <1>3, <2>1, <2>2, OutGrows
  <2>4. Ready'
    BY <1>2, <2>1, <2>2, <2>3 DEF Ready, ModeOf, Owed, Consumed
  <2>5. output_state' \in Modes /\ output_flag' \in BOOLEAN
    <3>1. output_state' \in Modes
      BY <2>1, <2>2
    <3> QED
      BY <2>2, <3>1, Zenon
  <2> QED
    BY <1>2, <2>3, <2>4, <2>5, StillTyped DEF IInv
<1>5. CASE mode = 2
  <2>1. /\ current + 2 = Len(wire)
        /\ JisByte(Byte1) /\ wire[current + 2] # 27 /\ Byte1 # 27
        /\ PairResult(Byte1, wire[current + 2]) = ReadBackAs(text[read])
        /\ state = LeadByte /\ output_state = LeadByte
    <3>1. /\ current + 2 = Len(wire)
          /\ JisByte(Byte1) /\ wire[current + 2] # 27
          /\ PairResult(Byte1, wire[current + 2]) = ReadBackAs(text[read])
      BY <1>3, <1>5 DEF HoldsCharacter, Byte1
    <3>2. Byte1 # 27
      BY <3>1 DEF JisByte
    <3> QED
      BY <1>5, <3>1, <3>2 DEF Ready, ModeOf
  <2>2. /\ lead' = Byte1 /\ state' = TrailByte
        /\ UNCHANGED <<output_state, output_flag, out, pending>>
    BY <1>1, <2>1, DecoderDoes
  <2>3. (current + 1) + 1 = current + 2
    BY <1>1
  <2>4. InPair'
    BY <1>2, <1>3, <1>5, <2>1, <2>2, <2>3 DEF InPair, Consumed
  <2>5. /\ out' \in Seq(Elements) /\ ReadSoFar(out', text) /\ pending' = <<>>
        /\ output_state' \in Modes /\ output_flag' \in BOOLEAN
    BY <2>2 DEF IInv, Types
  <2> QED
    BY <1>2, <2>4, <2>5, StillTyped DEF IInv
<1> QED
  BY <1>4, <1>5

LEMMA PairDecodes ==
  ASSUME IInv, InPair, Decode
  PROVE  IInv'
<1>1. /\ pending = <<>> /\ current \in Nat /\ Len(wire) \in Nat
  BY ReadyLength DEF IInv, Types
<1>2. Consumed
  BY <1>1, DecoderReads
<1>3. /\ Byte1 # 27 /\ PairResult(lead, Byte1) = ReadBackAs(text[read])
      /\ Len(out) + 1 = read /\ state = TrailByte /\ output_state = LeadByte
      /\ mode = 2 /\ current + 1 = Len(wire)
  BY DEF InPair, Byte1
<1>4. /\ state' = LeadByte /\ output_state' = LeadByte
      /\ output_flag' = FALSE /\ Yields(PairResult(lead, Byte1))
  BY <1>1, <1>3, DecoderDoes
<1>5. /\ out' \in Seq(Elements) /\ Len(out') = read /\ ReadSoFar(out', text)
      /\ pending' = <<>>
  BY <1>3, <1>4, OutGrows
<1>6. Ready'
  BY <1>2, <1>3, <1>4, <1>5 DEF Ready, ModeOf, Owed, Consumed
<1>7. output_state' \in Modes /\ output_flag' \in BOOLEAN
  <2>1. output_state' \in Modes
    BY <1>4
  <2> QED
    BY <1>4, <2>1, Zenon
<1> QED
  BY <1>2, <1>5, <1>6, <1>7, StillTyped DEF IInv

\* The three bytes of an escape sequence.
LEMMA EscapeDecodes ==
  ASSUME IInv, BeforeEscape \/ AfterEsc \/ AfterIntermediate, Decode
  PROVE  IInv'
<1>1. /\ pending = <<>> /\ current \in Nat /\ Len(wire) \in Nat /\ mode \in {0, 1, 2}
      /\ output_state \in Modes
  BY ReadyLength DEF IInv, Types
<1>2. /\ current' = current + 1 /\ Consumed
      /\ UNCHANGED <<text, read, mode, wire, written, done>>
  BY <1>1, DecoderReads DEF Consumed
<1>3. /\ current' + 1 = current + 2 /\ current' + 2 = current + 3
      /\ current' \in Nat
  BY <1>1, <1>2
<1>4. CASE BeforeEscape
  <2>1. /\ state \in Modes /\ Byte1 = 27 /\ output_flag = FALSE
    BY <1>4 DEF BeforeEscape, Byte1
  <2>2. state' = EscapeStart /\ UNCHANGED <<output_state, output_flag, lead, out, pending>>
    BY <1>1, <2>1, DecoderDoes
  <2>3. AfterEsc'
    BY <1>2, <1>3, <1>4, <2>2 DEF BeforeEscape, AfterEsc, Owed, LastEscape
  <2>4. /\ out' \in Seq(Elements) /\ ReadSoFar(out', text) /\ pending' = <<>>
        /\ output_state' \in Modes /\ output_flag' \in BOOLEAN
    BY <2>2 DEF IInv, Types
  <2> QED
    BY <1>2, <2>3, <2>4, StillTyped DEF IInv
<1>5. CASE AfterEsc
  <2>1. state = EscapeStart /\ Byte1 \in {36, 40} /\ output_flag = FALSE
    BY <1>5 DEF AfterEsc, Byte1
  <2>2. /\ lead' = Byte1 /\ state' = Escape
        /\ UNCHANGED <<output_state, output_flag, out, pending>>
    BY <1>1, <2>1, DecoderDoes
  <2>3. AfterIntermediate'
    BY <1>2, <1>3, <1>5, <2>2 DEF AfterEsc, AfterIntermediate, Owed, LastEscape, Byte1
  <2>4. /\ out' \in Seq(Elements) /\ ReadSoFar(out', text) /\ pending' = <<>>
        /\ output_state' \in Modes /\ output_flag' \in BOOLEAN
    BY <2>2 DEF IInv, Types
  <2> QED
    BY <1>2, <2>3, <2>4, StillTyped DEF IInv
<1>6. CASE AfterIntermediate
  <2>1. /\ state = Escape /\ Designates(lead, Byte1, ModeOf(mode)) /\ output_flag = FALSE
        /\ ModeOf(mode) \in Modes
    BY <1>1, <1>6 DEF AfterIntermediate, Byte1, ModeOf
  <2>2. PICK m \in Modes : m = ModeOf(mode)
    BY <2>1
  <2>3. /\ output_state' = m /\ state' = m /\ pending' = <<>>
        /\ output_flag' = ~output_flag /\ UNCHANGED out
    BY <1>1, <2>1, <2>2, DecoderDoes
  <2>4. Ready'
    BY <1>2, <1>6, <2>2, <2>3 DEF AfterIntermediate, Ready, Owed, LastEscape, ModeOf
  <2>5. output_flag' \in BOOLEAN
    BY <2>3, Zenon
  <2>6. /\ out' \in Seq(Elements) /\ ReadSoFar(out', text) /\ pending' = <<>>
        /\ output_state' \in Modes
    BY <2>3 DEF IInv, Types
  <2> QED
    BY <1>2, <2>4, <2>5, <2>6, StillTyped DEF IInv
<1> QED
  BY <1>4, <1>5, <1>6

\* There is never half a sequence at the end of the input.
LEMMA EndDecodes ==
  ASSUME IInv, AtEnd
  PROVE  IInv'
<1>1. /\ pending = <<>> /\ current \in Nat /\ Len(wire) \in Nat /\ mode \in {0, 1, 2}
      /\ current <= Len(wire)
  BY ReadyLength DEF IInv, Types
<1>2. current = Len(wire)
  BY <1>1 DEF AtEnd, Dec!Finish, Dec!TruncatedPairOrEscape, Dec!TruncatedIntermediate,
     Dec!EndOfInput, Dec!HasByte
<1>3. Ready /\ state \in Modes
  <2>1. Ready
    BY <1>2, ReadyLength
  <2> QED
    BY <1>1, <2>1 DEF Ready, ModeOf
<1>4. /\ written /\ done' = TRUE
      /\ UNCHANGED <<text, read, mode, wire, written, current, state, output_state,
                     output_flag, lead, pending, out>>
  BY <1>3, SameReading DEF AtEnd, Dec!Finish, Dec!TruncatedPairOrEscape,
     Dec!TruncatedIntermediate, Dec!EndOfInput, encoder
<1>5. Ready' /\ Types'
  BY <1>3, <1>4 DEF IInv, Types, Ready, Owed, LastEscape
<1>6. Ends' /\ ReadSoFar(out, text)'
  BY <1>2, <1>4, <1>5 DEF IInv, Types, Ends, ReadSoFar
<1> QED
  BY <1>5, <1>6 DEF IInv

LEMMA Inductive ==
  ASSUME ~Report, PlainTexts, EncoderAssumption, IInv, [Next]_vars
  PROVE  IInv'
<1>1. CASE Encode
  <2>1. text \in Texts /\ read \in Nat
    BY DEF IInv, Types
  <2>2. ~Dec!HasByte /\ Enc!Next /\ UNCHANGED decoder
    BY <1>1 DEF Encode
  <2> QED
    BY <2>1, <2>2, EncoderSteps, EncodeKeeps, FlushKeeps, EndKeeps
<1>2. CASE Decode
  BY <1>2, ReadyDecodes, PairDecodes, EscapeDecodes DEF IInv
<1>3. CASE AtEnd
  BY <1>3, EndDecodes
<1>4. CASE UNCHANGED vars
  BY <1>4 DEF vars, encoder, decoder, IInv, Types, Ends, ReadSoFar, Ready, BeforeEscape,
     AfterEsc, AfterIntermediate, InPair, Owed, LastEscape
<1> QED
  BY <1>1, <1>2, <1>3, <1>4 DEF Next

-----------------------------------------------------------------------------
\* What the invariant says of a text that has been read to its end, or so far.
\* A text read back is followed letter for letter: what has not been read yet is
\* at most the escape sequence and the character the encoder wrote last.
THEOREM Invariance == ASSUME ~Report, PlainTexts PROVE Spec => []IInv
<1>1. Init => IInv
  BY Initially, EncoderAssumption
<1>2. IInv /\ [Next]_vars => IInv'
  BY Inductive, EncoderAssumption
<1> QED
  BY <1>1, <1>2, PTL DEF Spec

LEMMA CaughtUp ==
  ASSUME IInv, ~Dec!HasByte
  PROVE  Ready /\ Len(out) = read
BY ReadyLength DEF Dec!HasByte, IInv, Types

\* encode_one's state is the mode that decode_one is in, whenever the decoder
\* has read all that was written: no escape sequence is missing or doubled.
THEOREM StaysInStep == ASSUME ~Report, PlainTexts PROVE Spec => []InStep
<1>1. IInv => InStep
  BY CaughtUp, SameCodes DEF InStep, Ready, ModeOf
<1> QED
  BY <1>1, Invariance, PTL

\* The decoder holds no character back, and makes none up.
THEOREM DecoderKeepsUp == ASSUME ~Report, PlainTexts PROVE Spec => []KeepsUp
<1>1. IInv => KeepsUp
  BY CaughtUp DEF KeepsUp
<1> QED
  BY <1>1, Invariance, PTL

\* iso2022jp_encode_flush leaves the stream in ASCII.
THEOREM LeftInAscii == ASSUME ~Report, PlainTexts PROVE Spec => []EndsInAscii
<1>1. IInv => EndsInAscii
  BY DEF IInv, Types, Ends, Ready, ModeOf, EndsInAscii
<1> QED
  BY <1>1, Invariance, PTL

\* `decode(encode(codepoints)) == codepoints`, with '?' for what has no bytes.
THEOREM RoundTrips == ASSUME ~Report, PlainTexts PROVE Spec => []RoundTrip
<1>1. ASSUME IInv, done
      PROVE  [i \in 1 .. Len(out) |-> out[i].result] = [i \in 1 .. Len(text) |-> ReadBackAs(text[i])]
  <2>1. done = TRUE /\ pending = <<>> /\ current = Len(wire) /\ Len(out) = read
    BY <1>1, ReadyLength DEF IInv, Types, Ends
  <2>2. Len(out) = Len(text)
    BY <1>1, <2>1 DEF IInv, Ends
  <2> QED
    BY <1>1, <2>2 DEF IInv, ReadSoFar
<1>2. IInv => RoundTrip
  BY <1>1 DEF RoundTrip
<1> QED
  BY <1>2, Invariance, PTL
=============================================================================
