----------------------- MODULE Gb18030Decoder_proofs -----------------------
(***************************************************************************)
(* Theorems about Gb18030Decoder, for every set of inputs: whatever breaks *)
(* off and is handed back, and however handed-back bytes break off again,  *)
(* no byte is decoded twice, and the array of three that keeps them is     *)
(* never too small.                                                        *)
(***************************************************************************)
EXTENDS Gb18030Decoder, SequenceTheorems, TLAPS

\* What a call reads and hands back, of the bytes in front of it.
LEMMA TokenReads ==
  ASSUME NEW s \in Seq(Byte), NEW n \in Nat, n = Len(s), n >= 1
  PROVE  /\ Token(s).result \in Results
         /\ Token(s).read \in Nat /\ Token(s).back \in Nat
         /\ Token(s).read <= n /\ Token(s).read <= 4
         /\ Token(s).back <= 2 /\ Token(s).back < Token(s).read
<1> DEFINE OK(t) == /\ t.result \in Results
                    /\ t.read \in Nat /\ t.back \in Nat
                    /\ t.read <= n /\ t.read <= 4
                    /\ t.back <= 2 /\ t.back < t.read
<1>1. PICK b \in Nat : b = s[1] /\ b <= 255
  BY DEF Byte
<1>2. n >= 2 => OK(TwoByteToken(s))
  BY DEF TwoByteToken, Outcome, Results
<1>3. n >= 2 => OK(FourByteToken(s))
  <2>1. CASE n = 2
    BY <2>1 DEF FourByteToken, Outcome, Results
  <2>2. CASE n > 2 /\ ~LeadByte(s[3])
    BY <2>2 DEF FourByteToken, Outcome, Results
  <2>3. CASE n = 3 /\ LeadByte(s[3])
    BY <2>3 DEF FourByteToken, Outcome, Results
  <2>4. CASE n > 3 /\ LeadByte(s[3])
    BY <2>4 DEF FourByteToken, Outcome, Results
  <2> QED
    BY <2>1, <2>2, <2>3, <2>4
<1> HIDE DEF OK
<1>4. OK(Token(s))
  <2>1. OK(Outcome("character", 1, 0)) /\ OK(Outcome("invalid_byte", 1, 0))
        /\ OK(Outcome("truncated_sequence", 1, 0))
    BY DEF OK, Outcome, Results
  <2>2. CASE b <= 128
    <3>1. ~LeadByte(b) /\ b # 255
      BY <2>2 DEF LeadByte
    <3> QED
      BY <1>1, <2>1, <2>2, <3>1 DEF Token
  <2>3. CASE b = 255
    <3>1. ~LeadByte(b) /\ ~(b <= 128)
      BY <2>3 DEF LeadByte
    <3> QED
      BY <1>1, <2>1, <2>3, <3>1 DEF Token
  <2>4. CASE LeadByte(b)
    <3>1. ~(b <= 128) /\ b # 255
      BY <2>4 DEF LeadByte
    <3>2. CASE n = 1
      BY <1>1, <2>1, <2>4, <3>1, <3>2 DEF Token
    <3>3. CASE n > 1
      BY <1>1, <1>2, <1>3, <2>4, <3>1, <3>3 DEF Token
    <3> QED
      BY <3>2, <3>3
  <2>5. b \in Nat /\ b <= 255
    BY <1>1
  <2>6. b <= 128 \/ b = 255 \/ LeadByte(b)
    BY <2>5 DEF LeadByte
  <2> QED
    BY <2>2, <2>3, <2>4, <2>6
<1> QED
  BY <1>4 DEF OK

-----------------------------------------------------------------------------
Distinct(s) == \A i, j \in 1 .. Len(s) : s[i] = s[j] => i = j

\* NoByteTwice says nothing of the bytes that have not been met: what is in an
\* element or handed back has been passed by `current`, and is handed back once.
IInv ==
  /\ TypeOK
  /\ \A k \in Places : Within(k, replay) => k <= current
  /\ \A i \in 1 .. Len(out) : \A k \in Places : Within(k, out[i].bytes) => k <= current
  /\ Distinct(replay)
  /\ NoByteTwice

\* A place that a step decodes or hands back: newly passed, or handed back before.
Available(k) == k <= current' /\ (k > current \/ Within(k, replay))

\* What every call comes to: it makes an element of some places and hands back
\* others, all of them places it could take.
LEMMA Call ==
  ASSUME IInv, NEW r \in Results, NEW b \in Seq(Places), Emit(r, b),
         UNCHANGED <<input, done>>,
         current' \in Nat, current <= current', current' <= Len(input),
         replay' \in Seq(Places), Len(replay') <= 3,
         Distinct(replay'),
         \A k \in Places : Within(k, b) => Available(k),
         \A k \in Places : Within(k, replay') => Available(k) /\ ~Within(k, b)
  PROVE  IInv'
<1>1. /\ input' = input /\ done' = done /\ done \in BOOLEAN
      /\ input \in Seq(Byte) /\ Len(input) \in Nat /\ current \in Nat
      /\ out \in Seq([result : Results, bytes : Seq(Places)]) /\ Len(out) \in Nat
      /\ Places' = Places /\ Places \subseteq Nat
  BY DEF IInv, TypeOK, Places
<1> DEFINE e == [result |-> r, bytes |-> b]
<1>2. e \in [result : Results, bytes : Seq(Places)] /\ e.bytes = b /\ out' = Append(out, e)
  BY DEF Emit
<1> HIDE DEF e
<1>3. PICK n \in Nat : n = Len(out)
  BY <1>1
<1>4. /\ out' \in Seq([result : Results, bytes : Seq(Places)])
      /\ Len(out') = n + 1
      /\ \A i \in 1 .. n : out'[i] = out[i]
      /\ out'[n + 1].bytes = b
  BY <1>1, <1>2, <1>3
<1>5. TypeOK'
  BY <1>1, <1>4 DEF TypeOK
<1>6. \A i \in 1 .. n + 1 : i \in 1 .. n \/ i = n + 1
  OBVIOUS
<1>7. ASSUME NEW i \in 1 .. n, NEW k \in Places, Within(k, out[i].bytes)
      PROVE  k <= current /\ ~Within(k, replay)
  BY <1>3, <1>7 DEF IInv, NoByteTwice
<1>8. ASSUME NEW i \in 1 .. n, NEW k \in Places, Within(k, out[i].bytes)
      PROVE  ~Available(k)
  <2>1. k <= current /\ ~Within(k, replay) /\ k \in Nat
    BY <1>1, <1>7, <1>8
  <2> QED
    BY <1>1, <2>1 DEF Available
<1>9. \A i \in 1 .. Len(out') : \A k \in Places : Within(k, out'[i].bytes) => k <= current'
  <2> SUFFICES ASSUME NEW i \in 1 .. n + 1, NEW k \in Places, Within(k, out'[i].bytes)
               PROVE  k <= current'
    BY <1>4
  <2>1. CASE i \in 1 .. n
    <3>1. k <= current /\ k \in Nat
      BY <1>1, <1>4, <1>7, <2>1
    <3> QED
      BY <1>1, <3>1
  <2>2. CASE i = n + 1
    BY <1>4, <2>2 DEF Available
  <2> QED
    BY <1>6, <2>1, <2>2
<1>10. \A k \in Places : Within(k, replay') => k <= current'
  BY DEF Available
<1>11. ASSUME NEW i \in 1 .. n + 1, NEW j \in 1 .. n + 1, NEW k \in Places,
              Within(k, out'[i].bytes), Within(k, out'[j].bytes)
       PROVE  i = j
  <2>1. CASE i \in 1 .. n /\ j \in 1 .. n
    BY <1>3, <1>4, <1>11, <2>1 DEF IInv, NoByteTwice
  <2>2. CASE i = n + 1 /\ j \in 1 .. n
    BY <1>4, <1>8, <1>11, <2>2
  <2>3. CASE i \in 1 .. n /\ j = n + 1
    BY <1>4, <1>8, <1>11, <2>3
  <2> QED
    BY <1>6, <2>1, <2>2, <2>3
<1>12. ASSUME NEW i \in 1 .. n + 1, NEW k \in Places, Within(k, replay')
       PROVE  ~Within(k, out'[i].bytes)
  <2>1. CASE i \in 1 .. n
    BY <1>4, <1>8, <1>12, <2>1
  <2>2. CASE i = n + 1
    BY <1>4, <1>12, <2>2
  <2> QED
    BY <1>6, <2>1, <2>2
<1>13. NoByteTwice'
  BY <1>1, <1>4, <1>11, <1>12 DEF NoByteTwice, Within
<1> QED
  BY <1>1, <1>5, <1>9, <1>10, <1>13 DEF IInv, Within, Distinct
-----------------------------------------------------------------------------
\* The places that are read next.
LEMMA NextPlacesAre ==
  ASSUME IInv, NEW n \in Nat
  PROVE  /\ NextPlaces(n) \in Seq(Places)
         /\ Len(NextPlaces(n)) = Least(n, Len(input) - current)
         /\ Least(n, Len(input) - current) \in Nat
         /\ Least(n, Len(input) - current) <= n
         /\ current + Least(n, Len(input) - current) <= Len(input)
         /\ \A k \in 1 .. Least(n, Len(input) - current) : NextPlaces(n)[k] = current + k
<1> DEFINE c == current
           l == Len(input)
<1>1. c \in Nat /\ l \in Nat /\ c <= l
  <2>1. l \in Nat
    BY LenProperties DEF IInv, TypeOK
  <2>2. c \in 0 .. l
    BY DEF IInv, TypeOK
  <2> QED
    BY <2>1, <2>2
<1> HIDE DEF c, l
<1>2. PICK m \in Nat : m = Least(n, l - c) /\ m <= n /\ c + m <= l
  BY <1>1 DEF Least
<1>3. \A k \in 1 .. m : c + k \in 1 .. l
  BY <1>1, <1>2
<1>4. NextPlaces(n) = [k \in 1 .. m |-> c + k]
  BY <1>1, <1>2 DEF NextPlaces, c, l
<1>5. NextPlaces(n) \in Seq(Places)
  BY <1>1, <1>3, <1>4 DEF Places, l
<1> QED
  BY <1>1, <1>2, <1>4, <1>5 DEF c, l

\* The bytes at places.
LEMMA AtPlaces ==
  ASSUME IInv, NEW s \in Seq(Places)
  PROVE  At(s) \in Seq(Byte) /\ Len(At(s)) = Len(s)
<1>1. PICK n \in Nat : n = Len(s)
  BY LenProperties
<1>2. \A k \in 1 .. n : s[k] \in 1 .. Len(input)
  BY <1>1 DEF Places
<1>3. \A k \in 1 .. n : input[s[k]] \in Byte
  BY <1>2 DEF IInv, TypeOK
<1> QED
  BY <1>1, <1>3 DEF At

\* A piece of a sequence of places.
LEMMA Piece ==
  ASSUME NEW s \in Seq(Places), NEW l \in Nat, l = Len(s),
         NEW m \in Nat, NEW n \in Nat, m <= n + 1, 1 <= m, n <= l
  PROVE  /\ SubSeq(s, m, n) \in Seq(Places)
         /\ Len(SubSeq(s, m, n)) = n - m + 1
         /\ \A i \in 1 .. n - m + 1 : SubSeq(s, m, n)[i] = s[m + i - 1]
<1>1. \A i \in m .. n : i \in 1 .. l
  OBVIOUS
<1>2. \A i \in m .. n : s[i] \in Places
  BY <1>1
<1>3. m \in Int /\ n \in Int
  OBVIOUS
<1>4. SubSeq(s, m, n) \in Seq(Places)
  BY <1>2, <1>3, SubSeqProperties, SMT
<1>5. Len(SubSeq(s, m, n)) = n - m + 1
  BY SMT
<1>6. \A i \in 1 .. n - m + 1 : SubSeq(s, m, n)[i] = s[m + i - 1]
  BY SMT
<1> QED
  BY <1>4, <1>5, <1>6

\* An element a, the first e places of x, and a piece b of x that begins later
\* share no place, when none is in x twice.
Apart(x, a, b, e, f, g) ==
  /\ a \in Seq(Places) /\ b \in Seq(Places) /\ Len(b) = g - f + 1
  /\ Distinct(b)
  /\ \A k \in Places : Within(k, a) => \E i \in 1 .. e : x[i] = k
  /\ \A k \in Places : Within(k, b) => ~Within(k, a) /\ \E i \in f .. g : x[i] = k

LEMMA Parts ==
  ASSUME NEW x \in Seq(Places), Distinct(x), NEW l \in Nat, l = Len(x),
         NEW e \in Nat, NEW f \in Nat, NEW g \in Nat,
         e < f, f <= g + 1, g <= l
  PROVE  Apart(x, SubSeq(x, 1, e), SubSeq(x, f, g), e, f, g)
<1> DEFINE a == SubSeq(x, 1, e)
           b == SubSeq(x, f, g)
<1>1. /\ a \in Seq(Places) /\ Len(a) = e
      /\ \A i \in 1 .. e : a[i] = x[i]
  <2>1. /\ a \in Seq(Places) /\ Len(a) = e - 1 + 1
        /\ \A i \in 1 .. e - 1 + 1 : a[i] = x[1 + i - 1]
    BY Piece
  <2> HIDE DEF a
  <2> QED
    BY <2>1
<1>2. /\ b \in Seq(Places) /\ Len(b) = g - f + 1
      /\ \A i \in 1 .. g - f + 1 : b[i] = x[f + i - 1]
  BY Piece
<1> HIDE DEF a, b
<1>3. \A i, j \in 1 .. l : x[i] = x[j] => i = j
  BY DEF Distinct
<1>4. \A i \in 1 .. e : i \in 1 .. l
  OBVIOUS
<1>5. \A i \in 1 .. g - f + 1 : f + i - 1 \in 1 .. l
  OBVIOUS
<1>6. Distinct(b)
  <2> SUFFICES ASSUME NEW i \in 1 .. g - f + 1, NEW j \in 1 .. g - f + 1, b[i] = b[j]
               PROVE  i = j
    BY <1>2 DEF Distinct
  <2>1. f + i - 1 = f + j - 1
    BY <1>2, <1>3, <1>5, SMTT(30)
  <2> QED
    BY <2>1
<1>7. \A k \in Places : Within(k, a) => \E i \in 1 .. e : x[i] = k
  BY <1>1 DEF Within
<1>8. ASSUME NEW k \in Places, Within(k, b)
      PROVE  \E i \in f .. g : x[i] = k
  <2>1. PICK i \in 1 .. g - f + 1 : b[i] = k
    BY <1>2, <1>8 DEF Within
  <2>2. x[f + i - 1] = k /\ f + i - 1 \in f .. g
    BY <1>2, <2>1
  <2> QED
    BY <2>2
<1>9. ASSUME NEW k \in Places, Within(k, a), Within(k, b)
      PROVE  FALSE
  <2>1. PICK i \in 1 .. e : a[i] = k
    BY <1>1, <1>9 DEF Within
  <2>2. PICK j \in 1 .. g - f + 1 : b[j] = k
    BY <1>2, <1>9 DEF Within
  <2>3. i = f + j - 1
    BY <1>1, <1>2, <1>3, <1>4, <1>5, <2>1, <2>2, SMTT(30)
  <2> QED
    BY <2>3
<1> QED
  BY <1>1, <1>2, <1>6, <1>7, <1>8, <1>9 DEF a, b, Apart
-----------------------------------------------------------------------------
\* DecodeInput passes what it reads, which is not all that NextPlaces(4) has, so
\* its piece of it is looked at place by place.
LEMMA DecodeInputStep ==
  ASSUME IInv, DecodeInput
  PROVE  IInv'
<1> DEFINE x == NextPlaces(4)
           m == Least(4, Len(input) - current)
           t == Token(At(x))
           a == SubSeq(x, 1, t.read - t.back)
           b == SubSeq(x, t.read - t.back + 1, t.read)
<1>1. /\ x \in Seq(Places) /\ Len(x) = m /\ m \in Nat /\ m <= 4
      /\ current + m <= Len(input)
      /\ \A k \in 1 .. m : x[k] = current + k
  BY NextPlacesAre
<1>2. m >= 1 /\ current \in Nat /\ Len(input) \in Nat
  <2>1. Len(input) \in Nat /\ current \in 0 .. Len(input)
    BY LenProperties DEF IInv, TypeOK
  <2>2. current < Len(input)
    BY DEF DecodeInput
  <2> QED
    BY <2>1, <2>2 DEF Least
<1>3. At(x) \in Seq(Byte) /\ Len(At(x)) = m
  BY <1>1, AtPlaces
<1>4. /\ t.result \in Results /\ t.read \in Nat /\ t.back \in Nat
      /\ t.read <= m /\ t.read <= 4 /\ t.back <= 2 /\ t.back < t.read
  <2> HIDE DEF x, m
  <2> QED
    BY <1>1, <1>2, <1>3, TokenReads
<1>5. /\ current' = current + t.read /\ replay' = b /\ Emit(t.result, a)
      /\ UNCHANGED <<input, done>>
  BY DEF DecodeInput
<1>6. PICK r \in Nat, q \in Nat : r = t.read /\ q = t.read - t.back /\ q <= r /\ r <= q + 2 /\ r <= m
  BY <1>4
<1>7. a = SubSeq(x, 1, q) /\ b = SubSeq(x, q + 1, r) /\ current' = current + r
  BY <1>5, <1>6
<1> HIDE DEF x, m, t, a, b
<1>8. Distinct(x)
  BY <1>1, <1>2 DEF Distinct
<1>9. Apart(x, a, b, q, q + 1, r)
  <2>1. q + 1 \in Nat /\ q < q + 1 /\ q + 1 <= r + 1
    BY <1>6
  <2> QED
    BY <1>1, <1>6, <1>7, <1>8, <2>1, Parts, SMTT(30)
<1>10. \A i \in 1 .. r : x[i] > current /\ x[i] <= current'
  <2> SUFFICES ASSUME NEW i \in 1 .. r
               PROVE  x[i] > current /\ x[i] <= current'
    OBVIOUS
  <2>1. i \in 1 .. m
    BY <1>1, <1>6
  <2>2. x[i] = current + i
    BY <1>1, <2>1
  <2> QED
    BY <1>2, <1>7, <2>2
<1>11. \A i \in 1 .. q : i \in 1 .. r
  BY <1>6
<1>12. \A i \in q + 1 .. r : i \in 1 .. r
  BY <1>6
<1>13. \A k \in Places : Within(k, a) \/ Within(k, b) => Available(k)
  BY <1>9, <1>10, <1>11, <1>12 DEF Available, Apart
<1>14. current' \in Nat /\ current <= current' /\ current' <= Len(input)
  <2>1. r \in Nat /\ m \in Nat /\ r <= m /\ current + m <= Len(input)
    BY <1>1, <1>6
  <2> QED
    BY <1>2, <1>7, <2>1
<1>15. /\ Len(b) <= 3 /\ a \in Seq(Places) /\ b \in Seq(Places) /\ Distinct(b)
       /\ \A k \in Places : Within(k, b) => ~Within(k, a)
  BY <1>6, <1>9, SMTT(30) DEF Apart
<1> QED
  BY <1>4, <1>5, <1>13, <1>14, <1>15, Call

\* A place handed back is available, and the first of them is in no other.
LEMMA HandedBack ==
  ASSUME IInv, replay # <<>>, current' \in Nat, current <= current', UNCHANGED input
  PROVE  /\ Head(replay) \in Places /\ Tail(replay) \in Seq(Places)
         /\ Len(Tail(replay)) <= 2 /\ Distinct(Tail(replay))
         /\ \A k \in Places : Within(k, replay) => Available(k) /\ k <= current
         /\ Within(Head(replay), replay)
         /\ \A k \in Places : Within(k, Tail(replay)) => Within(k, replay) /\ k # Head(replay)
<1>1. PICK n \in Nat : n = Len(replay) /\ n <= 3
  BY LenProperties DEF IInv, TypeOK
<1>2. replay \in Seq(Places) /\ current \in Nat /\ Places \subseteq Nat
  BY DEF IInv, TypeOK, Places
<1>3. n >= 1
  BY <1>1, <1>2
<1> DEFINE z == Tail(replay)
<1>4. /\ Head(replay) \in Places /\ z \in Seq(Places) /\ Len(z) = n - 1
      /\ Head(replay) = replay[1]
      /\ \A i \in 1 .. n - 1 : z[i] = replay[i + 1]
  BY <1>1, <1>2, <1>3, HeadTailProperties
<1> HIDE DEF z
<1>5. \A i, j \in 1 .. n : replay[i] = replay[j] => i = j
  BY <1>1 DEF IInv, Distinct
<1>6. \A i \in 1 .. n - 1 : i + 1 \in 1 .. n /\ i + 1 # 1
  OBVIOUS
<1>7. Distinct(z)
  <2> SUFFICES ASSUME NEW i \in 1 .. n - 1, NEW j \in 1 .. n - 1, z[i] = z[j]
               PROVE  i = j
    BY <1>4 DEF Distinct
  <2>1. i + 1 = j + 1
    BY <1>4, <1>5, <1>6
  <2> QED
    BY <2>1
<1>8. ASSUME NEW k \in Places, Within(k, z)
      PROVE  Within(k, replay) /\ k # Head(replay)
  <2>1. PICK i \in 1 .. n - 1 : z[i] = k
    BY <1>4, <1>8 DEF Within
  <2>2. replay[i + 1] = k /\ i + 1 \in 1 .. n /\ i + 1 # 1 /\ 1 \in 1 .. n
    BY <1>3, <1>4, <1>6, <2>1
  <2> QED
    BY <1>1, <1>4, <1>5, <2>2 DEF Within
<1>9. ASSUME NEW k \in Places, Within(k, replay)
      PROVE  Available(k) /\ k <= current
  <2>1. k <= current /\ k \in Nat
    BY <1>2, <1>9 DEF IInv
  <2> QED
    BY <1>2, <1>9, <2>1 DEF Available
<1>10. Within(Head(replay), replay)
  BY <1>1, <1>3, <1>4 DEF Within
<1>11. Len(z) <= 2
  BY <1>1, <1>4
<1> QED
  BY <1>4, <1>7, <1>8, <1>9, <1>10, <1>11 DEF z

\* A handed-back character below 0x80 leaves the rest handed back.
LEMMA ReplayAsciiStep ==
  ASSUME IInv, ReplayAscii
  PROVE  IInv'
<1>1. /\ replay # <<>> /\ replay' = Tail(replay) /\ Emit("character", <<Head(replay)>>)
      /\ UNCHANGED <<input, done>> /\ current' = current
  BY DEF ReplayAscii
<1>2. current \in Nat /\ current <= Len(input)
  BY DEF IInv, TypeOK
<1> DEFINE h == Head(replay)
           a == <<h>>
<1>3. /\ h \in Places /\ Tail(replay) \in Seq(Places)
      /\ Len(Tail(replay)) <= 2 /\ Distinct(Tail(replay))
      /\ \A k \in Places : Within(k, replay) => Available(k) /\ k <= current
      /\ Within(h, replay)
      /\ \A k \in Places : Within(k, Tail(replay)) => Within(k, replay) /\ k # h
  BY <1>1, <1>2, HandedBack
<1> HIDE DEF h
<1>4. a \in Seq(Places) /\ Len(a) = 1 /\ a[1] = h
  BY <1>3
<1> HIDE DEF a
<1>5. \A k : Within(k, a) => k = h
  BY <1>4 DEF Within
<1>6. "character" \in Results
  BY DEF Results
<1>7. Emit("character", a)
  BY <1>1 DEF a, h
<1>8. current' \in Nat /\ current <= current' /\ current' <= Len(input)
  BY <1>1, <1>2
<1>9. Len(replay') <= 3
  <2>1. Len(Tail(replay)) \in Nat
    BY <1>3, LenProperties
  <2> QED
    BY <1>1, <1>3, <2>1
<1>10. /\ replay' \in Seq(Places) /\ Distinct(replay')
       /\ \A k \in Places : Within(k, a) => Available(k)
       /\ \A k \in Places : Within(k, replay') => Available(k) /\ ~Within(k, a)
  BY <1>1, <1>3, <1>5
<1> QED
  BY <1>1, <1>4, <1>6, <1>7, <1>8, <1>9, <1>10, Call

\* x is y, of length n, with h put in front.
Longer(x, h, y, n, S) ==
  /\ x \in Seq(S) /\ Len(x) = n + 1 /\ x[1] = h
  /\ \A i \in 1 .. n : x[i + 1] = y[i]

\* A sequence with an element put in front is one longer and moved by one.
LEMMA InFront ==
  ASSUME NEW S, NEW h \in S, NEW y \in Seq(S), NEW n \in Nat, n = Len(y),
         NEW x, x = <<h>> \o y
  PROVE  Longer(x, h, y, n, S)
<1>1. <<h>> \in Seq(S) /\ Len(<<h>>) = 1 /\ <<h>>[1] = h
  OBVIOUS
<1> DEFINE u == <<h>>
<1> HIDE DEF u
<1>2. /\ u \o y \in Seq(S)
      /\ Len(u \o y) = Len(u) + Len(y)
      /\ \A i \in 1 .. Len(u) + Len(y) :
           (u \o y)[i] = IF i <= Len(u) THEN u[i] ELSE y[i - Len(u)]
  BY <1>1, ConcatProperties, Zenon DEF u
<1>3. x = u \o y /\ Len(u) = 1 /\ u[1] = h
  BY <1>1 DEF u
<1>4. Len(x) = n + 1 /\ \A i \in 1 .. n + 1 : x[i] = IF i <= 1 THEN u[i] ELSE y[i - 1]
  BY <1>2, <1>3
<1>5. \A i \in 1 .. n : i + 1 \in 1 .. n + 1 /\ ~(i + 1 <= 1) /\ i + 1 - 1 = i
  OBVIOUS
<1>6. 1 \in 1 .. n + 1
  OBVIOUS
<1> QED
  BY <1>2, <1>3, <1>4, <1>5, <1>6 DEF Longer

\* The bytes read ahead of a handed-back one, with it in front.
LEMMA Buffer ==
  ASSUME IInv, replay # <<>>, NEW x, x = <<Head(replay)>> \o NextPlaces(3),
         current' = current + Len(x) - 1, UNCHANGED input
  PROVE  /\ x \in Seq(Places) /\ Len(x) \in 1 .. 4 /\ Distinct(x)
         /\ current' \in Nat /\ current <= current' /\ current' <= Len(input)
         /\ \A i \in 1 .. Len(x) : Available(x[i])
         /\ \A i \in 1 .. Len(x) : x[i] = Head(replay) \/ ~(x[i] <= current)
<1> DEFINE y == NextPlaces(3)
           h == Head(replay)
           m == Least(3, Len(input) - current)
<1>1. /\ y \in Seq(Places) /\ Len(y) = m /\ m \in Nat /\ m <= 3
      /\ current + m <= Len(input)
      /\ \A k \in 1 .. m : y[k] = current + k
  BY NextPlacesAre
<1>2. current \in Nat /\ Len(input) \in Nat
  BY LenProperties DEF IInv, TypeOK
<1>3. h \in Places /\ Within(h, replay)
  <2>1. PICK n \in Nat : n = Len(replay)
    BY LenProperties DEF IInv, TypeOK
  <2>2. replay \in Seq(Places) /\ n >= 1
    BY <2>1 DEF IInv, TypeOK
  <2>3. h = replay[1] /\ h \in Places
    BY <2>1, <2>2
  <2> QED
    BY <2>1, <2>2, <2>3 DEF Within
<1>4. h \in Nat /\ h <= current
  BY <1>3 DEF IInv, Places
<1>5. PICK c, n \in Nat : c = current /\ n = m
  BY <1>1, <1>2
<1>6. x = <<h>> \o y
  OBVIOUS
<1> HIDE DEF y, h, m
<1>7. Longer(x, h, y, n, Places)
  <2>1. h \in Places /\ y \in Seq(Places) /\ n \in Nat /\ n = Len(y) /\ x = <<h>> \o y
    BY <1>1, <1>3, <1>5, <1>6
  <2> QED
    BY <2>1, InFront, Zenon
<1>8. \A i \in 1 .. n : x[i + 1] = c + i
  BY <1>1, <1>5, <1>7 DEF Longer
<1>9. \A j \in 1 .. n + 1 : j = 1 \/ \E i \in 1 .. n : j = i + 1
  <2> SUFFICES ASSUME NEW j \in 1 .. n + 1, j # 1
               PROVE  \E i \in 1 .. n : j = i + 1
    OBVIOUS
  <2>1. j - 1 \in 1 .. n /\ j = (j - 1) + 1
    OBVIOUS
  <2> QED
    BY <2>1
<1>10. \A i \in 1 .. n : c + i > c /\ c + i <= c + n /\ ~(c + i <= c)
  OBVIOUS
<1>11. current' = c + n
  BY <1>5, <1>7 DEF Longer
<1>12. Distinct(x)
  <2> SUFFICES ASSUME NEW i \in 1 .. n + 1, NEW j \in 1 .. n + 1, x[i] = x[j]
               PROVE  i = j
    BY <1>7, SMTT(30) DEF Distinct, Longer
  <2>1. CASE i = 1 /\ j = 1
    BY <2>1
  <2>2. CASE \E k \in 1 .. n : i = k + 1 /\ j = 1
    BY <1>4, <1>5, <1>7, <1>8, <1>10, <2>2 DEF Longer
  <2>3. CASE \E k \in 1 .. n : i = 1 /\ j = k + 1
    BY <1>4, <1>5, <1>7, <1>8, <1>10, <2>3 DEF Longer
  <2>4. CASE \E k, l \in 1 .. n : i = k + 1 /\ j = l + 1
    <3>1. PICK k \in 1 .. n, l \in 1 .. n : i = k + 1 /\ j = l + 1
      BY <2>4
    <3>2. c + k = c + l
      BY <1>8, <3>1
    <3> QED
      BY <3>1, <3>2
  <2> QED
    BY <1>9, <2>1, <2>2, <2>3, <2>4
<1>13. \A i \in 1 .. n : Available(x[i + 1]) /\ ~(x[i + 1] <= current)
  BY <1>5, <1>8, <1>10, <1>11, SMTT(30) DEF Available
<1>14. Available(x[1])
  <2>1. h <= c + n
    BY <1>4, <1>5
  <2> QED
    BY <1>3, <1>7, <1>11, <2>1 DEF Available, Longer
<1>15. \A i \in 1 .. n + 1 : Available(x[i]) /\ (x[i] = h \/ ~(x[i] <= current))
  BY <1>7, <1>9, <1>13, <1>14 DEF Longer
<1>16. Len(x) \in 1 .. 4 /\ current' \in Nat /\ current <= current' /\ current' <= Len(input)
  BY <1>1, <1>2, <1>5, <1>7, <1>11, SMTT(30) DEF Longer
<1> QED
  BY <1>7, <1>12, <1>15, <1>16 DEF h, Longer

\* ReplayRefill passes all it has read ahead, so that what it does not decode
\* is handed back in its turn; if it decodes all of it, what was handed back
\* before still is.
LEMMA ReplayRefillStep ==
  ASSUME IInv, ReplayRefill
  PROVE  IInv'
<1> DEFINE x == <<Head(replay)>> \o NextPlaces(3)
           t == Token(At(x))
           a == SubSeq(x, 1, t.read - t.back)
           b == SubSeq(x, t.read + 1, Len(x))
<1>1. /\ replay # <<>> /\ current' = current + Len(x) - 1 /\ replay' = Leftover(b)
      /\ Emit(t.result, a) /\ UNCHANGED <<input, done>>
  BY DEF ReplayRefill
<1>2. /\ x \in Seq(Places) /\ Len(x) \in 1 .. 4 /\ Distinct(x)
      /\ current' \in Nat /\ current <= current' /\ current' <= Len(input)
      /\ \A i \in 1 .. Len(x) : Available(x[i])
      /\ \A i \in 1 .. Len(x) : x[i] = Head(replay) \/ ~(x[i] <= current)
  <2> HIDE DEF x
  <2>1. x = <<Head(replay)>> \o NextPlaces(3)
    BY DEF x
  <2> QED
    BY <1>1, <2>1, Buffer
<1>3. At(x) \in Seq(Byte) /\ Len(At(x)) = Len(x)
  BY <1>2, AtPlaces
<1>4. PICK l \in Nat : l = Len(x) /\ l >= 1 /\ l <= 4
  BY <1>2
<1>5. /\ t.result \in Results /\ t.read \in Nat /\ t.back \in Nat
      /\ t.read <= l /\ t.back < t.read
  <2> HIDE DEF x
  <2> QED
    BY <1>3, <1>4, TokenReads
<1>6. PICK r \in Nat, q \in Nat : r = t.read /\ q = t.read - t.back /\ 1 <= q /\ q <= r /\ r <= l
  BY <1>5
<1>7. a = SubSeq(x, 1, q) /\ b = SubSeq(x, r + 1, l)
  BY <1>4, <1>6
<1> HIDE DEF x, t, a, b
<1>8. Apart(x, a, b, q, r + 1, l)
  <2>1. r + 1 \in Nat /\ q < r + 1 /\ r + 1 <= l + 1 /\ l <= l
    BY <1>6
  <2> QED
    BY <1>2, <1>4, <1>7, <2>1, Parts
<1>9. \A i \in 1 .. q : i \in 1 .. l
  BY <1>6
<1>10. \A i \in r + 1 .. l : i \in 1 .. l
  BY <1>6
<1>11. \A k \in Places : Within(k, a) \/ Within(k, b) => Available(k)
  BY <1>2, <1>4, <1>8, <1>9, <1>10 DEF Apart
<1>12. /\ a \in Seq(Places) /\ b \in Seq(Places) /\ Distinct(b)
       /\ \A k \in Places : Within(k, b) => ~Within(k, a)
       /\ \A k \in Places : Within(k, a) => \E i \in 1 .. q : x[i] = k
  BY <1>8 DEF Apart
<1>13. Len(b) <= 3
  BY <1>4, <1>6, <1>8, SMTT(30) DEF Apart
<1>14. CASE b # <<>>
  <2>1. replay' = b
    BY <1>1, <1>14 DEF Leftover
  <2> QED
    BY <1>1, <1>2, <1>5, <1>11, <1>12, <1>13, <2>1, Call
<1>15. CASE b = <<>>
  <2>1. replay' = Tail(replay)
    BY <1>1, <1>15 DEF Leftover
  <2>2. /\ Head(replay) \in Places /\ Tail(replay) \in Seq(Places)
        /\ Len(Tail(replay)) <= 2 /\ Distinct(Tail(replay))
        /\ \A k \in Places : Within(k, replay) => Available(k) /\ k <= current
        /\ \A k \in Places : Within(k, Tail(replay)) => Within(k, replay) /\ k # Head(replay)
    BY <1>1, <1>2, HandedBack
  <2>3. Len(Tail(replay)) <= 3
    <3>1. Len(Tail(replay)) \in Nat
      BY <2>2, LenProperties
    <3> QED
      BY <2>2, <3>1
  <2>4. ASSUME NEW k \in Places, Within(k, Tail(replay))
        PROVE  Available(k) /\ ~Within(k, a)
    <3>1. k <= current /\ k # Head(replay) /\ Available(k)
      BY <2>2, <2>4
    <3>2. \A i \in 1 .. q : x[i] = Head(replay) \/ ~(x[i] <= current)
      BY <1>2, <1>4, <1>9
    <3> QED
      BY <1>12, <3>1, <3>2
  <2> QED
    BY <1>1, <1>2, <1>5, <1>11, <1>12, <2>1, <2>2, <2>3, <2>4, Call
<1> QED
  BY <1>14, <1>15
-----------------------------------------------------------------------------
\* Nothing is decoded or handed back to begin with.
LEMMA InitIInv == Init => IInv
<1> SUFFICES ASSUME Init PROVE IInv
  OBVIOUS
<1>1. input \in Seq(Byte) /\ Len(input) \in Nat
  BY InputsAssumption, LenProperties DEF Init
<1>2. /\ current = 0 /\ replay = <<>> /\ out = <<>> /\ done = FALSE
      /\ Len(replay) = 0 /\ Len(out) = 0
  BY DEF Init
<1>3. TypeOK
  <2>1. current \in 0 .. Len(input)
    BY <1>1, <1>2
  <2>2. replay \in Seq(Places) /\ Len(replay) <= 3
    BY <1>2
  <2>3. out \in Seq([result : Results, bytes : Seq(Places)])
    BY <1>2
  <2>4. done \in BOOLEAN
    BY <1>2, Zenon
  <2> QED
    BY <1>1, <2>1, <2>2, <2>3, <2>4 DEF TypeOK
<1>4. Distinct(replay) /\ NoByteTwice /\ \A k : ~Within(k, replay)
  BY <1>2 DEF Distinct, NoByteTwice, Within
<1> QED
  BY <1>2, <1>3, <1>4 DEF IInv

\* A step that moves no byte.
LEMMA Unmoved ==
  ASSUME IInv, input' = input, current' = current, replay' = replay, out' = out,
         done' \in BOOLEAN
  PROVE  IInv'
<1>1. Places' = Places
  BY DEF Places
<1>2. TypeOK'
  BY <1>1 DEF IInv, TypeOK
<1>3. Distinct(replay')
  BY DEF IInv
<1>4. (Distinct(replay))'
  BY <1>3 DEF Distinct
<1>6. \A k \in Places' : (Within(k, replay))' => k <= current'
  BY <1>1, SMTT(30) DEF IInv, Within
<1>7. \A i \in 1 .. Len(out') : \A k \in Places' : (Within(k, out[i].bytes))' => k <= current'
  BY <1>1, SMTT(30) DEF IInv, Within
<1>8. NoByteTwice'
  BY <1>1, SMTT(30) DEF IInv, NoByteTwice, Within
<1> QED
  BY <1>2, <1>4, <1>6, <1>7, <1>8 DEF IInv

\* The end of the input moves no byte.
LEMMA FinishStep ==
  ASSUME IInv, Finish
  PROVE  IInv'
<1>1. input' = input /\ current' = current /\ replay' = replay /\ out' = out /\ done' = TRUE
  BY DEF Finish
<1>2. done' \in BOOLEAN
  BY <1>1, Zenon
<1> QED
  BY <1>1, <1>2, Unmoved

\* Nor does a stuttering step.
LEMMA StutterStep ==
  ASSUME IInv, UNCHANGED vars
  PROVE  IInv'
<1>1. input' = input /\ current' = current /\ replay' = replay /\ out' = out /\ done' = done
  BY DEF vars
<1>2. done \in BOOLEAN
  BY DEF IInv, TypeOK
<1>3. done' \in BOOLEAN
  BY <1>1, <1>2, Zenon
<1> QED
  BY <1>1, <1>3, Unmoved

\* What has been passed, what has been decoded and what is handed back stay in
\* step through every call.
THEOREM Invariance == Spec => []IInv
<1>1. Init => IInv
  BY InitIInv
<1>2. IInv /\ [Next]_vars => IInv'
  <2> SUFFICES ASSUME IInv, [Next]_vars PROVE IInv'
    OBVIOUS
  <2>1. CASE DecodeInput
    BY <2>1, DecodeInputStep
  <2>2. CASE ReplayAscii
    BY <2>2, ReplayAsciiStep
  <2>3. CASE ReplayRefill
    BY <2>3, ReplayRefillStep
  <2>4. CASE Finish
    BY <2>4, FinishStep
  <2>5. CASE UNCHANGED vars
    BY <2>5, StutterStep
  <2> QED
    BY <2>1, <2>2, <2>3, <2>4, <2>5 DEF Next
<1> QED
  BY <1>1, <1>2, PTL DEF Spec

\* The array of three that keeps the bytes handed back is never too small, and
\* the iterator never passes the end of the input.
THEOREM TypeCorrect == Spec => []TypeOK
<1>1. IInv => TypeOK
  BY DEF IInv
<1> QED
  BY <1>1, Invariance, PTL

\* A byte is decoded once: it is in one element, or is still handed back, and
\* never both, however often a sequence breaks where bytes are handed back.
THEOREM NoneTwice == Spec => []NoByteTwice
<1>1. IInv => NoByteTwice
  BY DEF IInv
<1> QED
  BY <1>1, Invariance, PTL
=============================================================================
