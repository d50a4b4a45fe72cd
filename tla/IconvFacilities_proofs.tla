----------------------- MODULE IconvFacilities_proofs -----------------------
(***************************************************************************)
(* Theorems about IconvFacilities, for every input, every size of buffer   *)
(* and of staging, every order of contiguous and copied batches, and every *)
(* way in which the converter may reset: the two views yield what the      *)
(* whole input converts to, and the three functions return it.             *)
(*                                                                         *)
(* From the bottom up: what a span of places is, and what the converter    *)
(* makes of the front of one; that Conversion's and Convert's recursive    *)
(* functions are what their equations say; that a call of convert(),       *)
(* wherever it stops, splits what is to come into what it has written and  *)
(* what is to come from where it stopped (ConvertSays), that each way of   *)
(* stopping says what comes next (StopSays), and that a flush does the     *)
(* same with what the converter owes (FlushSays).  Then, one facility      *)
(* after another, the invariant and one lemma for each of its actions.     *)
(*                                                                         *)
(* The strengthening, IInv: what has been read, what is in the buffer or   *)
(* is the error to be read, and what the converter would make, in one go,  *)
(* of the input behind what has been taken and not staged, together are    *)
(* the whole conversion (OrErrorPromise, ViewPromise, BulkGoesOn).         *)
(***************************************************************************)
EXTENDS IconvFacilities, SequenceTheorems, WellFoundedInduction, TLAPS

-----------------------------------------------------------------------------
\* What is written for an input, and what a program reads.
OutByte(s) == {Converted(p, n) : p \in 0 .. Len(s), n \in 1 .. ResetSize}
Elem(s)    == OutByte(s) \cup {Failed(e) : e \in Errors}

\* The places behind the first p, up to the q-th.
Span(p, q) == [k \in 1 .. q - p |-> p + k]

\* What a span is: so many places, in order.
LEMMA SpanIs ==
  ASSUME NEW p \in Nat, NEW q \in Nat, p <= q
  PROVE  /\ Span(p, q) \in Seq(Nat)
         /\ Len(Span(p, q)) = q - p
         /\ \A k \in 1 .. q - p : Span(p, q)[k] = p + k
<1>1. q - p \in Nat /\ \A k \in 1 .. q - p : p + k \in Nat
  OBVIOUS
<1>2. Span(p, q) \in [1 .. q - p -> Nat]
  BY <1>1 DEF Span
<1> QED
  BY <1>1, <1>2 DEF Span

\* A span without its first n places.
LEMMA SpanOfSpan ==
  ASSUME NEW p \in Nat, NEW q \in Nat, p <= q, NEW n \in Nat, n <= q - p
  PROVE  SubSeq(Span(p, q), n + 1, q - p) = Span(p + n, q)
<1>1. Span(p, q) \in Seq(Nat) /\ Len(Span(p, q)) = q - p
      /\ \A k \in 1 .. q - p : Span(p, q)[k] = p + k
  BY SpanIs
<1>2. p + n \in Nat /\ p + n <= q /\ q - (p + n) = (q - p) - n
  OBVIOUS
<1>3. /\ Span(p + n, q) \in Seq(Nat) /\ Len(Span(p + n, q)) = q - (p + n)
      /\ \A k \in 1 .. q - (p + n) : Span(p + n, q)[k] = p + n + k
  BY <1>2, SpanIs
<1>4. PICK s : s = SubSeq(Span(p, q), n + 1, q - p)
  OBVIOUS
<1>5. /\ s \in Seq(Nat)
      /\ Len(s) = (q - p) - n
      /\ \A k \in 1 .. (q - p) - n : s[k] = Span(p, q)[n + k]
  <2>1. \A i \in n + 1 .. q - p : Span(p, q)[i] \in Nat
    BY <1>1, SMTT(30)
  <2>2. n + 1 \in Int /\ q - p \in Int /\ (q - p) - (n + 1) + 1 = (q - p) - n
    OBVIOUS
  <2>3. /\ s \in Seq(Nat)
        /\ Len(s) = IF n + 1 <= q - p THEN (q - p) - (n + 1) + 1 ELSE 0
        /\ \A i \in 1 .. (q - p) - (n + 1) + 1 : s[i] = Span(p, q)[n + 1 + i - 1]
    BY <1>4, <2>1, <2>2, SubSeqProperties
  <2>4. \A i \in 1 .. (q - p) - n : n + 1 + i - 1 = n + i
    OBVIOUS
  <2> QED
    BY <2>2, <2>3, <2>4
<1>6. \A k \in 1 .. (q - p) - n : s[k] = Span(p + n, q)[k]
  <2>1. \A k \in 1 .. (q - p) - n : n + k \in 1 .. q - p /\ p + (n + k) = p + n + k
    OBVIOUS
  <2> QED
    BY <1>1, <1>2, <1>3, <1>5, <2>1, SMTT(30)
<1> QED
  BY <1>2, <1>3, <1>4, <1>5, <1>6, SeqEqual

-----------------------------------------------------------------------------
\* What the converter makes of the front of a span, byte by byte.
LeadingGives(s, p, q, o, u) ==
  /\ s[p + 1] = "one" => u = Unit("ok", 1, <<Converted(p + 1, 1)>>, o)
  /\ s[p + 1] = "shift" => u = Unit("ok", 1, <<>>, ResetSize)
  /\ s[p + 1] = "unshift" => u = Unit("ok", 1, <<>>, 0)
  /\ s[p + 1] = "trail" => u = Unit("EILSEQ", 0, <<>>, o)
  /\ s[p + 1] = "fault" => u = Unit("other", 0, <<>>, o)
  /\ s[p + 1] = "lead" /\ q = p + 1 => u = Unit("EINVAL", 0, <<>>, o)
  /\ s[p + 1] = "lead" /\ q # p + 1 /\ s[p + 2] # "trail" => u = Unit("EILSEQ", 0, <<>>, o)
  /\ s[p + 1] = "lead" /\ q # p + 1 /\ s[p + 2] = "trail" =>
       u = Unit("ok", 2, <<Converted(p + 1, 1), Converted(p + 1, 2)>>, o)

LEMMA LeadingOf ==
  ASSUME NEW s \in Seq(Byte), NEW p \in Nat, NEW q \in Nat, p < q, q <= Len(s), NEW o,
         NEW u, u = Leading(s, Span(p, q), o)
  PROVE  LeadingGives(s, p, q, o, u)
<1>1. PICK b : b = Span(p, q)
  OBVIOUS
<1>2. Len(b) = q - p /\ b[1] = p + 1 /\ (q # p + 1 => b[2] = p + 2)
  <2>1. p <= q
    OBVIOUS
  <2>2. Len(b) = q - p /\ \A k \in 1 .. q - p : b[k] = p + k
    BY <1>1, <2>1, SpanIs
  <2>3. 1 \in 1 .. q - p /\ (q # p + 1 => 2 \in 1 .. q - p)
    OBVIOUS
  <2> QED
    BY <2>2, <2>3
<1>3. Len(b) = 1 <=> q = p + 1
  BY <1>2
<1>4. u = Leading(s, b, o)
  BY <1>1
<1> QED
  BY <1>2, <1>3, <1>4 DEF Leading, LeadingGives

\* A byte of the input.
LEMMA ByteIs ==
  ASSUME NEW s \in Seq(Byte), NEW p \in Nat, p < Len(s)
  PROVE  s[p + 1] \in {"one", "lead", "trail", "shift", "unshift", "fault"}
<1>1. p + 1 \in 1 .. Len(s)
  BY LenProperties
<1> QED
  BY <1>1 DEF Byte

\* What a character is written as, typed.
LEMMA WrittenIs ==
  ASSUME NEW s \in Seq(Byte), NEW p \in Nat, p < Len(s)
  PROVE  /\ <<>> \in Seq(OutByte(s)) /\ Len(<<>>) = 0
         /\ <<Converted(p + 1, 1)>> \in Seq(OutByte(s))
         /\ Len(<<Converted(p + 1, 1)>>) = 1
         /\ <<Converted(p + 1, 1), Converted(p + 1, 2)>> \in Seq(OutByte(s))
         /\ Len(<<Converted(p + 1, 1), Converted(p + 1, 2)>>) = 2
<1>1. p + 1 \in 0 .. Len(s) /\ 1 \in 1 .. ResetSize /\ 2 \in 1 .. ResetSize
  BY LenProperties DEF ResetSize
<1>2. Converted(p + 1, 1) \in OutByte(s) /\ Converted(p + 1, 2) \in OutByte(s)
  BY <1>1 DEF OutByte
<1> QED
  BY <1>2

\* The same without the bytes: what there is to know of it at any place.
LeadingSays(s, p, q, u) ==
  /\ u.errno \in {"ok", "EILSEQ", "EINVAL", "other"}
  /\ u.written \in Seq(OutByte(s)) /\ Len(u.written) \in 0 .. 2
  /\ u.owed \in 0 .. ResetSize
  /\ u.errno = "ok" => u.used \in 1 .. 2 /\ p + u.used <= q
  /\ u.errno = "EINVAL" => q = p + 1 /\ s[p + 1] = "lead"
  /\ u.errno = "ok" /\ u.written = <<>> =>
       u.used = 1 /\ s[p + 1] \in {"shift", "unshift"}

LEMMA LeadingIs ==
  ASSUME NEW s \in Seq(Byte), NEW p \in Nat, NEW q \in Nat, p < q, q <= Len(s),
         NEW o \in 0 .. ResetSize, NEW u, u = Leading(s, Span(p, q), o)
  PROVE  LeadingSays(s, p, q, u)
<1>1. s[p + 1] \in {"one", "lead", "trail", "shift", "unshift", "fault"}
  BY ByteIs, LenProperties
<1>2. ResetSize \in 0 .. ResetSize /\ 0 \in 0 .. ResetSize
  BY DEF ResetSize
<1>9. p < Len(s)
  BY LenProperties
<1>3. <<>> # <<Converted(p + 1, 1)>> /\ <<>> # <<Converted(p + 1, 1), Converted(p + 1, 2)>>
  BY <1>9, WrittenIs
<1>4. CASE s[p + 1] = "one"
  <2>1. u = Unit("ok", 1, <<Converted(p + 1, 1)>>, o)
    <3>1. LeadingGives(s, p, q, o, u)
      BY <1>4, LeadingOf
    <3> QED
      BY <1>4, <3>1 DEF LeadingGives
  <2> QED
    BY <1>3, <1>9, <2>1, WrittenIs DEF Unit, LeadingSays
<1>5. CASE s[p + 1] \in {"shift", "unshift"}
  <2>1. \E k \in 0 .. ResetSize : u = Unit("ok", 1, <<>>, k)
    <3>1. LeadingGives(s, p, q, o, u)
      BY <1>2, <1>5, LeadingOf
    <3> QED
      BY <1>2, <1>5, <3>1 DEF LeadingGives
  <2> QED
    BY <1>5, <1>9, <2>1, WrittenIs DEF Unit, LeadingSays
<1>6. CASE s[p + 1] \in {"trail", "fault"}
  <2>1. \E e \in {"EILSEQ", "other"} : u = Unit(e, 0, <<>>, o)
    <3>1. LeadingGives(s, p, q, o, u)
      BY <1>6, LeadingOf
    <3> QED
      BY <1>6, <3>1 DEF LeadingGives
  <2> QED
    BY <1>9, <2>1, WrittenIs DEF Unit, LeadingSays
<1>7. CASE s[p + 1] = "lead"
  <2>1. CASE q = p + 1
    <3>1. u = Unit("EINVAL", 0, <<>>, o)
      <4>1. LeadingGives(s, p, q, o, u)
        BY <1>7, <2>1, LeadingOf
      <4> QED
        BY <1>7, <2>1, <4>1 DEF LeadingGives
    <3>2. u.errno = "EINVAL" /\ u.written = <<>> /\ u.owed = o
      BY <3>1 DEF Unit
    <3>3. u.written \in Seq(OutByte(s)) /\ Len(u.written) = 0 /\ 0 \in 0 .. 2
      BY <1>9, <3>2, WrittenIs
    <3> QED
      BY <1>7, <2>1, <3>2, <3>3 DEF LeadingSays
  <2>2. CASE q # p + 1 /\ s[p + 2] # "trail"
    <3>1. u = Unit("EILSEQ", 0, <<>>, o)
      <4>1. LeadingGives(s, p, q, o, u)
        BY <1>7, <2>2, LeadingOf
      <4> QED
        BY <1>7, <2>2, <4>1 DEF LeadingGives
    <3> QED
      BY <1>9, <3>1, WrittenIs DEF Unit, LeadingSays
  <2>3. CASE q # p + 1 /\ s[p + 2] = "trail"
    <3>1. u = Unit("ok", 2, <<Converted(p + 1, 1), Converted(p + 1, 2)>>, o)
      <4>1. LeadingGives(s, p, q, o, u)
        BY <1>7, <2>3, LeadingOf
      <4> QED
        BY <1>7, <2>3, <4>1 DEF LeadingGives
    <3>2. u.errno = "ok" /\ u.used = 2 /\ u.owed = o
          /\ u.written = <<Converted(p + 1, 1), Converted(p + 1, 2)>>
      BY <3>1 DEF Unit
    <3>3. p + 2 <= q /\ 2 \in 1 .. 2 /\ 2 \in 0 .. 2
      BY <2>3
    <3>4. /\ u.written \in Seq(OutByte(s)) /\ Len(u.written) = 2 /\ u.written # <<>>
      BY <1>3, <1>9, <3>2, WrittenIs
    <3> QED
      BY <3>2, <3>3, <3>4 DEF LeadingSays
  <2> QED
    BY <2>1, <2>2, <2>3
<1> QED
  BY <1>1, <1>4, <1>5, <1>6, <1>7

\* A batch tells the converter what the whole input does, unless it ends in the
\* middle of a character.
LEMMA LeadingInBatch ==
  ASSUME NEW s \in Seq(Byte), NEW p \in Nat, NEW q \in Nat, p < q, q <= Len(s), NEW o,
         Leading(s, Span(p, q), o).errno # "EINVAL"
  PROVE  Leading(s, Span(p, Len(s)), o) = Leading(s, Span(p, q), o)
<1>1. s[p + 1] \in {"one", "lead", "trail", "shift", "unshift", "fault"}
  BY ByteIs, LenProperties
<1>2. Len(s) \in Nat /\ p < Len(s)
  BY LenProperties
<1>3. PICK u : u = Leading(s, Span(p, q), o)
  OBVIOUS
<1>4. PICK v : v = Leading(s, Span(p, Len(s)), o)
  OBVIOUS
<1>5. CASE s[p + 1] # "lead"
  <2>1. Len(s) \in Nat /\ p < Len(s) /\ Len(s) <= Len(s)
    BY <1>2
  <2>2. /\ s[p + 1] = "one" => u = Unit("ok", 1, <<Converted(p + 1, 1)>>, o)
        /\ s[p + 1] = "shift" => u = Unit("ok", 1, <<>>, ResetSize)
        /\ s[p + 1] = "unshift" => u = Unit("ok", 1, <<>>, 0)
        /\ s[p + 1] = "trail" => u = Unit("EILSEQ", 0, <<>>, o)
        /\ s[p + 1] = "fault" => u = Unit("other", 0, <<>>, o)
    <3>1. LeadingGives(s, p, q, o, u)
      BY <1>3, LeadingOf
    <3> QED
      BY <1>3, <3>1 DEF LeadingGives
  <2>3. /\ s[p + 1] = "one" => v = Unit("ok", 1, <<Converted(p + 1, 1)>>, o)
        /\ s[p + 1] = "shift" => v = Unit("ok", 1, <<>>, ResetSize)
        /\ s[p + 1] = "unshift" => v = Unit("ok", 1, <<>>, 0)
        /\ s[p + 1] = "trail" => v = Unit("EILSEQ", 0, <<>>, o)
        /\ s[p + 1] = "fault" => v = Unit("other", 0, <<>>, o)
    <3>1. LeadingGives(s, p, Len(s), o, v)
      BY <1>4, <2>1, LeadingOf
    <3> QED
      BY <1>4, <2>1, <3>1 DEF LeadingGives
  <2> QED
    BY <1>1, <1>3, <1>4, <1>5, <2>2, <2>3
<1>6. CASE s[p + 1] = "lead"
  <2>1. q # p + 1
    <3>1. u.errno # "EINVAL"
      BY <1>3
    <3>2. q = p + 1 => u = Unit("EINVAL", 0, <<>>, o)
      <4>1. LeadingGives(s, p, q, o, u)
        BY <1>3, <1>6, LeadingOf
      <4> QED
        BY <1>3, <1>6, <4>1 DEF LeadingGives
    <3> QED
      BY <3>1, <3>2 DEF Unit
  <2>2. Len(s) # p + 1
    BY <1>2, <2>1
  <2>3. Len(s) <= Len(s)
    BY <1>2
  <2>4. CASE s[p + 2] = "trail"
    <3>1. u = Unit("ok", 2, <<Converted(p + 1, 1), Converted(p + 1, 2)>>, o)
      <4>1. LeadingGives(s, p, q, o, u)
        BY <1>3, <1>6, <2>1, <2>4, LeadingOf
      <4> QED
        BY <1>3, <1>6, <2>1, <2>4, <4>1 DEF LeadingGives
    <3>2. v = Unit("ok", 2, <<Converted(p + 1, 1), Converted(p + 1, 2)>>, o)
      <4>1. LeadingGives(s, p, Len(s), o, v)
        BY <1>2, <1>4, <1>6, <2>2, <2>3, <2>4, LeadingOf
      <4> QED
        BY <1>2, <1>4, <1>6, <2>2, <2>3, <2>4, <4>1 DEF LeadingGives
    <3> QED
      BY <1>3, <1>4, <3>1, <3>2
  <2>5. CASE s[p + 2] # "trail"
    <3>1. u = Unit("EILSEQ", 0, <<>>, o)
      <4>1. LeadingGives(s, p, q, o, u)
        BY <1>3, <1>6, <2>1, <2>5, LeadingOf
      <4> QED
        BY <1>3, <1>6, <2>1, <2>5, <4>1 DEF LeadingGives
    <3>2. v = Unit("EILSEQ", 0, <<>>, o)
      <4>1. LeadingGives(s, p, Len(s), o, v)
        BY <1>2, <1>4, <1>6, <2>2, <2>3, <2>5, LeadingOf
      <4> QED
        BY <1>2, <1>4, <1>6, <2>2, <2>3, <2>5, <4>1 DEF LeadingGives
    <3> QED
      BY <1>3, <1>4, <3>1, <3>2
  <2> QED
    BY <2>4, <2>5
<1> QED
  BY <1>3, <1>4, <1>5, <1>6

-----------------------------------------------------------------------------
\* How a converter may reset (GivenAssumption).
Resetting == [answer : Errno \ {"E2BIG"}, whole : BOOLEAN]

\* What IconvStream's function is, from m on: what follows each number of bytes.
IsFrom(f, s, big, r, rep, m) ==
  /\ f = [n \in 0 .. Len(s) |-> f[n]]
  /\ \A n \in 0 .. Len(s) :
       m <= n => f[n] = [o \in 0 .. ResetSize |-> Following(s, big, r, rep, f, n, o)]

\* What x says of what follows n bytes, of which the first are converted to u.
Follows(x, u, big, r, rep, f, n, o) ==
  /\ u.errno = "EILSEQ" => x = Reported("invalid_sequence", rep) \o f[n + 1][o]
  /\ u.errno = "EINVAL" => x = Reported("incomplete_sequence", rep) \o Ending(big, r, rep, o)
  /\ u.errno = "other" => x = Reported("system_error", rep)
  /\ u.errno = "ok" /\ Len(u.written) > big => x = Reported("output_full", rep)
  /\ u.errno = "ok" /\ Len(u.written) <= big => x = u.written \o f[n + u.used][u.owed]

\* Following's cases, one by one.
LEMMA FollowingIs ==
  ASSUME NEW s \in Seq(Byte), NEW n \in Nat, n < Len(s), NEW o \in 0 .. ResetSize,
         NEW big \in Nat, NEW r, NEW rep, NEW f
  PROVE  Follows(Following(s, big, r, rep, f, n, o), Leading(s, Span(n, Len(s)), o),
                 big, r, rep, f, n, o)
<1> DEFINE x == Following(s, big, r, rep, f, n, o)
<1>0. PICK u : u = Leading(s, Span(n, Len(s)), o)
  OBVIOUS
<1>1. n # Len(s)
  BY LenProperties
<1>2. u = Leading(s, [k \in 1 .. Len(s) - n |-> n + k], o)
  BY <1>0 DEF Span
<1>3. x = CASE u.errno = "EILSEQ" -> Reported("invalid_sequence", rep) \o f[n + 1][o]
            [] u.errno = "EINVAL" -> Reported("incomplete_sequence", rep)
                                     \o Ending(big, r, rep, o)
            [] u.errno = "other"  -> Reported("system_error", rep)
            [] u.errno = "ok" /\ Len(u.written) > big -> Reported("output_full", rep)
            [] u.errno = "ok" /\ Len(u.written) <= big -> u.written \o f[n + u.used][u.owed]
  BY <1>1, <1>2, Zenon DEF Following
<1> HIDE DEF x
<1>4. u.errno = "EILSEQ" => x = Reported("invalid_sequence", rep) \o f[n + 1][o]
  BY <1>3
<1>5. u.errno = "EINVAL" => x = Reported("incomplete_sequence", rep) \o Ending(big, r, rep, o)
  BY <1>3
<1>6. u.errno = "other" => x = Reported("system_error", rep)
  BY <1>3
<1>7. Len(u.written) \in Nat
  <2>1. Len(s) \in Nat /\ Len(s) <= Len(s)
    BY LenProperties
  <2>2. Len(u.written) \in 0 .. 2
    <3>1. LeadingSays(s, n, Len(s), u)
      BY <1>0, <2>1, LeadingIs
    <3> QED
      BY <1>0, <2>1, <3>1 DEF LeadingSays
  <2> QED
    BY <2>2
<1>8. (Len(u.written) > big) <=> ~(Len(u.written) <= big)
  BY <1>7
<1>9. u.errno = "ok" /\ Len(u.written) > big => x = Reported("output_full", rep)
  BY <1>3, <1>8, Zenon
<1>10. u.errno = "ok" /\ Len(u.written) <= big => x = u.written \o f[n + u.used][u.owed]
  BY <1>3, <1>8, Zenon
<1>11. Follows(x, u, big, r, rep, f, n, o)
  BY <1>4, <1>5, <1>6, <1>9, <1>10, Zenon DEF Follows
<1> QED
  BY <1>0, <1>11 DEF x

\* What follows n bytes is asked of f further on only.
LEMMA FollowingFromLater ==
  ASSUME NEW s \in Seq(Byte), NEW n \in 0 .. Len(s), NEW o \in 0 .. ResetSize,
         NEW big \in Nat, NEW r, NEW rep, NEW f, NEW g,
         \A k \in 0 .. Len(s) : n < k => f[k] = g[k]
  PROVE  Following(s, big, r, rep, f, n, o) = Following(s, big, r, rep, g, n, o)
<1>1. Len(s) \in Nat /\ n \in Nat /\ n <= Len(s) /\ Len(s) <= Len(s)
  BY LenProperties
<1>2. CASE n = Len(s)
  BY <1>2 DEF Following
<1>3. CASE n < Len(s)
  <2>1. PICK u : u = Leading(s, Span(n, Len(s)), o)
    OBVIOUS
  <2>2. /\ u.errno \in {"ok", "EILSEQ", "EINVAL", "other"}
        /\ Len(u.written) \in 0 .. 2
        /\ u.errno = "ok" => u.used \in 1 .. 2 /\ n + u.used <= Len(s)
    <3>1. LeadingSays(s, n, Len(s), u)
      BY <1>1, <1>3, <2>1, LeadingIs
    <3> QED
      BY <1>1, <1>3, <2>1, <3>1 DEF LeadingSays
  <2> DEFINE x == Following(s, big, r, rep, f, n, o)
             y == Following(s, big, r, rep, g, n, o)
  <2>3. Follows(x, u, big, r, rep, f, n, o)
    BY <1>1, <1>3, <2>1, FollowingIs
  <2>4. Follows(y, u, big, r, rep, g, n, o)
    BY <1>1, <1>3, <2>1, FollowingIs
  <2> HIDE DEF x, y
  <2>7. f[n + 1] = g[n + 1]
    <3>1. n + 1 \in 0 .. Len(s) /\ n < n + 1
      BY <1>1, <1>3
    <3> QED
      BY <3>1
  <2>8. u.errno = "ok" => f[n + u.used] = g[n + u.used]
    <3>1. u.errno = "ok" => n + u.used \in 0 .. Len(s) /\ n < n + u.used
      BY <1>1, <2>2
    <3> QED
      BY <3>1
  <2>9. Len(u.written) > big \/ Len(u.written) <= big
    BY <2>2
  <2>10. x = y
    <3>1. CASE u.errno = "EILSEQ"
      BY <2>3, <2>4, <2>7, <3>1, Zenon DEF Follows
    <3>2. CASE u.errno = "EINVAL"
      BY <2>3, <2>4, <3>2, Zenon DEF Follows
    <3>3. CASE u.errno = "other"
      BY <2>3, <2>4, <3>3, Zenon DEF Follows
    <3>4. CASE u.errno = "ok"
      BY <2>3, <2>4, <2>8, <2>9, <3>4, Zenon DEF Follows
    <3> QED
      BY <2>2, <3>1, <3>2, <3>3, <3>4, Zenon
  <2> QED
    BY <2>10 DEF x, y
<1> QED
  BY <1>1, <1>2, <1>3

\* What is so from m + 1 on can be had from m on: the step back through the input.
LEMMA FromEarlier ==
  ASSUME NEW s \in Seq(Byte), NEW m \in Nat, m < Len(s), NEW big \in Nat, NEW r, NEW rep,
         NEW g, IsFrom(g, s, big, r, rep, m + 1)
  PROVE  \E f : IsFrom(f, s, big, r, rep, m)
<1> DEFINE x == [o \in 0 .. ResetSize |-> Following(s, big, r, rep, g, m, o)]
           f == [k \in 0 .. Len(s) |-> IF k = m THEN x ELSE g[k]]
<1>1. Len(s) \in Nat /\ m \in 0 .. Len(s)
  BY LenProperties
<1>2. \A k \in 0 .. Len(s) : f[k] = IF k = m THEN x ELSE g[k]
  OBVIOUS
<1>3. f = [k \in 0 .. Len(s) |-> f[k]]
  BY <1>2
<1>4. ASSUME NEW k \in 0 .. Len(s), m <= k
      PROVE  f[k] = [o \in 0 .. ResetSize |-> Following(s, big, r, rep, f, k, o)]
  <2>1. \A i \in 0 .. Len(s) : k < i => f[i] = g[i]
    <3>1. \A i \in 0 .. Len(s) : k < i => i # m
      BY <1>1, <1>4
    <3> HIDE DEF f
    <3> QED
      BY <1>2, <3>1
  <2>2. \A o \in 0 .. ResetSize :
          Following(s, big, r, rep, f, k, o) = Following(s, big, r, rep, g, k, o)
    <3> HIDE DEF f
    <3> QED
      BY <2>1, FollowingFromLater
  <2>3. f[k] = [o \in 0 .. ResetSize |-> Following(s, big, r, rep, g, k, o)]
    <3>1. CASE k = m
      BY <1>2, <3>1
    <3>2. CASE k # m
      <4>1. m + 1 <= k
        BY <1>1, <1>4, <3>2
      <4> HIDE DEF f
      <4> QED
        BY <1>2, <3>2, <4>1 DEF IsFrom
    <3> QED
      BY <3>1, <3>2
  <2> HIDE DEF f
  <2> QED
    BY <2>2, <2>3
<1> HIDE DEF f
<1> QED
  BY <1>3, <1>4 DEF IsFrom

\* The last number of a set of numbers.
LEMMA LastOne ==
  ASSUME NEW n \in Nat, NEW S, S \subseteq 0 .. n, S # {}
  PROVE  \E m \in S : \A q \in S : q <= m
<1> DEFINE R == OpToRel(<, Nat)
           U == {n - q : q \in S}
<1>1. IsWellFoundedOn(R, Nat)
  BY NatLessThanWellFounded
<1>2. U \subseteq Nat /\ U # {}
  <2>1. \A q \in S : n - q \in Nat
    OBVIOUS
  <2> QED
    BY <2>1
<1>3. \A x, y \in Nat : y < x => <<y, x>> \in R
  BY DEF OpToRel
<1> HIDE DEF R
<1>4. PICK x \in U : \A y \in U : ~(<<y, x>> \in R)
  <2> HIDE DEF U
  <2> QED
    BY <1>1, <1>2, WFMin
<1>5. PICK m \in S : x = n - m
  OBVIOUS
<1>6. ASSUME NEW q \in S PROVE q <= m
  <2>1. ~(n - q < n - m)
    BY <1>2, <1>3, <1>4, <1>5
  <2>2. m \in Int /\ q \in Int
    OBVIOUS
  <2> QED
    BY <2>1, <2>2
<1> QED
  BY <1>6

\* There is such a function: IconvStream's recursion defines one.
LEMMA FromExists ==
  ASSUME NEW s \in Seq(Byte), NEW big \in Nat, NEW r, NEW rep
  PROVE  \E f : IsFrom(f, s, big, r, rep, 0)
<1> DEFINE Bad == {m \in 0 .. Len(s) : ~ \E f : IsFrom(f, s, big, r, rep, m)}
<1>1. Len(s) \in Nat /\ 0 \in 0 .. Len(s)
  BY LenProperties
<1>2. SUFFICES ASSUME Bad # {} PROVE FALSE
  BY <1>1
<1>3. PICK m \in Bad : \A q \in Bad : q <= m
  <2>1. Bad \subseteq 0 .. Len(s)
    OBVIOUS
  <2> HIDE DEF Bad
  <2> QED
    BY <1>1, <1>2, <2>1, LastOne
<1>4. m \in Nat /\ m <= Len(s) /\ ~ \E f : IsFrom(f, s, big, r, rep, m)
  BY <1>1
<1>5. m # Len(s)
  <2> DEFINE x == [o \in 0 .. ResetSize |-> Ending(big, r, rep, o)]
             f == [k \in 0 .. Len(s) |-> x]
  <2>1. f = [k \in 0 .. Len(s) |-> f[k]]
    OBVIOUS
  <2>2. \A k \in 0 .. Len(s) : Len(s) <= k => k = Len(s) /\ f[k] = x
    BY <1>1
  <2>3. \A o : Following(s, big, r, rep, f, Len(s), o) = Ending(big, r, rep, o)
    BY DEF Following
  <2>4. x = [o \in 0 .. ResetSize |-> Following(s, big, r, rep, f, Len(s), o)]
    <3> HIDE DEF f
    <3> QED
      BY <2>3
  <2>5. IsFrom(f, s, big, r, rep, Len(s))
    <3> HIDE DEF f, x
    <3> QED
      BY <2>1, <2>2, <2>4 DEF IsFrom
  <2> QED
    BY <1>4, <2>5
<1>6. m + 1 \in 0 .. Len(s) /\ ~(m + 1 <= m) /\ m < Len(s)
  BY <1>1, <1>4, <1>5
<1>7. m + 1 \notin Bad
  BY <1>3, <1>6
<1>8. PICK g : IsFrom(g, s, big, r, rep, m + 1)
  BY <1>6, <1>7
<1> QED
  BY <1>4, <1>6, <1>8, FromEarlier

\* IconvStream's function: what follows the first n bytes, with o bytes owed there.
From(s, big, r, rep) ==
  CHOOSE f : f = [n \in 0 .. Len(s) |->
                    [o \in 0 .. ResetSize |-> Following(s, big, r, rep, f, n, o)]]

\* Conversion, without its LET.
LEMMA ConversionIs ==
  ASSUME NEW s, NEW opened, NEW big, NEW r, NEW rep
  PROVE  Conversion(s, opened, big, r, rep)
           = IF opened THEN From(s, big, r, rep)[0][0] ELSE Reported("open_failed", rep)
BY DEF Conversion, From

\* Its equation, at every place and whatever is owed there.
LEMMA FromIs ==
  ASSUME NEW s \in Seq(Byte), NEW big \in Nat, NEW r, NEW rep,
         NEW n \in 0 .. Len(s), NEW o \in 0 .. ResetSize,
         NEW f, f = From(s, big, r, rep)
  PROVE  f[n][o] = Following(s, big, r, rep, f, n, o)
<1> DEFINE Equation(g) ==
      g = [k \in 0 .. Len(s) |-> [i \in 0 .. ResetSize |-> Following(s, big, r, rep, g, k, i)]]
<1>1. f = CHOOSE g : Equation(g)
  BY DEF From
<1>2. PICK h : IsFrom(h, s, big, r, rep, 0)
  BY FromExists
<1>3. Equation(h)
  <2>1. \A k \in 0 .. Len(s) : 0 <= k
    OBVIOUS
  <2> QED
    BY <1>2, <2>1 DEF IsFrom
<1>4. Equation(f)
  <2> HIDE DEF Equation
  <2> QED
    BY <1>1, <1>3
<1>5. f[n] = [i \in 0 .. ResetSize |-> Following(s, big, r, rep, f, n, i)]
  BY <1>4
<1> QED
  BY <1>5

-----------------------------------------------------------------------------
\* What is read of a facility that reports errors, and of one that does not.
Elements(s, rep) == IF rep THEN Elem(s) ELSE OutByte(s)

\* Bytes are among the elements.
LEMMA BytesAreElements ==
  ASSUME NEW s, NEW rep \in BOOLEAN
  PROVE  /\ Seq(OutByte(s)) \subseteq Seq(Elements(s, rep))
         /\ Seq(OutByte(s)) \subseteq Seq([byte : Nat \X Nat])
         /\ Seq(OutByte(s)) \subseteq Seq(Elem(s))
         /\ Seq(Elements(s, rep)) \subseteq Seq(Elem(s))
<1>1. OutByte(s) \subseteq Elements(s, rep) /\ OutByte(s) \subseteq Elem(s)
      /\ Elements(s, rep) \subseteq Elem(s)
  BY DEF Elements, Elem
<1>2. OutByte(s) \subseteq [byte : Nat \X Nat]
  <2>1. \A p \in 0 .. Len(s), n \in 1 .. ResetSize : p \in Nat /\ n \in Nat
    BY DEF ResetSize
  <2> QED
    BY <2>1 DEF OutByte, Converted
<1>3. \A S, T : S \subseteq T => Seq(S) \subseteq Seq(T)
  OBVIOUS
<1> QED
  BY <1>1, <1>2, <1>3

\* An error that is reported is among the elements.
LEMMA ReportedIs ==
  ASSUME NEW s, NEW rep \in BOOLEAN, NEW e \in Errors
  PROVE  Reported(e, rep) \in Seq(Elements(s, rep))
<1>1. CASE rep
  <2>1. Failed(e) \in Elements(s, rep)
    BY <1>1 DEF Elements, Elem
  <2>2. Reported(e, rep) = <<Failed(e)>>
    BY <1>1, Zenon DEF Reported
  <2> QED
    BY <2>1, <2>2
<1>2. CASE ~rep
  <2>1. Reported(e, rep) = <<>>
    BY <1>2, Zenon DEF Reported
  <2> QED
    BY <2>1
<1> QED
  BY <1>1, <1>2

\* The bytes that are owed.
LEMMA ResetsIs ==
  ASSUME NEW s \in Seq(Byte), NEW o \in 0 .. ResetSize
  PROVE  /\ Resets(o) \in Seq(OutByte(s)) /\ Len(Resets(o)) = o
         /\ \A n \in 1 .. o : Resets(o)[n] = Converted(0, ResetSize - o + n)
<1>1. o \in Nat
  BY DEF ResetSize
<1>2. 0 \in 0 .. Len(s)
  BY LenProperties
<1>3. \A n \in 1 .. o : ResetSize - o + n \in 1 .. ResetSize
  BY DEF ResetSize
<1>4. Resets(o) = [n \in 1 .. o |-> Converted(0, ResetSize - o + n)]
  BY DEF Resets, Converted
<1>5. \A n \in 1 .. o : Converted(0, ResetSize - o + n) \in OutByte(s)
  BY <1>2, <1>3 DEF OutByte
<1>6. Resets(o) \in [1 .. o -> OutByte(s)]
  BY <1>4, <1>5
<1>7. Resets(o) \in Seq(OutByte(s)) /\ Len(Resets(o)) = o
  BY <1>1, <1>6
<1> QED
  BY <1>4, <1>7

\* What the end of the input converts to is among the elements.
LEMMA EndingIs ==
  ASSUME NEW s \in Seq(Byte), NEW big \in Nat, NEW r \in Resetting, NEW rep \in BOOLEAN,
         NEW o \in 0 .. ResetSize
  PROVE  Ending(big, r, rep, o) \in Seq(Elements(s, rep))
<1>1. "output_full" \in Errors /\ ResetError(r.answer) \in Errors
  BY DEF Errors, ResetError
<1>2. Reported("output_full", rep) \in Seq(Elements(s, rep))
      /\ Reported(ResetError(r.answer), rep) \in Seq(Elements(s, rep))
  BY <1>1, ReportedIs
<1>3. Resets(o) \in Seq(Elements(s, rep)) /\ <<>> \in Seq(Elements(s, rep))
  BY ResetsIs, BytesAreElements
<1>4. \A x, y \in Seq(Elements(s, rep)) : x \o y \in Seq(Elements(s, rep))
  OBVIOUS
<1>5. (IF r.answer = "ok" THEN <<>> ELSE Reported(ResetError(r.answer), rep))
        \in Seq(Elements(s, rep))
  BY <1>2, <1>3
<1> QED
  BY <1>2, <1>3, <1>4, <1>5 DEF Ending

\* All that follows is what can be read of the facility.
LEMMA FromTyped ==
  ASSUME NEW s \in Seq(Byte), NEW big \in Nat, NEW r \in Resetting, NEW rep \in BOOLEAN,
         NEW f, f = From(s, big, r, rep)
  PROVE  \A n \in 0 .. Len(s), o \in 0 .. ResetSize : f[n][o] \in Seq(Elements(s, rep))
<1> DEFINE Bad == {n \in 0 .. Len(s) : \E o \in 0 .. ResetSize : f[n][o] \notin Seq(Elements(s, rep))}
<1>1. Len(s) \in Nat /\ Len(s) <= Len(s)
  BY LenProperties
<1>2. SUFFICES ASSUME Bad # {} PROVE FALSE
  OBVIOUS
<1>3. PICK m \in Bad : \A q \in Bad : q <= m
  <2>1. Bad \subseteq 0 .. Len(s)
    OBVIOUS
  <2> HIDE DEF Bad
  <2> QED
    BY <1>1, <1>2, <2>1, LastOne
<1>4. m \in Nat /\ m <= Len(s)
  BY <1>1
<1>5. PICK o \in 0 .. ResetSize : f[m][o] \notin Seq(Elements(s, rep))
  OBVIOUS
<1>6. f[m][o] = Following(s, big, r, rep, f, m, o)
  BY <1>4, FromIs
<1>7. Ending(big, r, rep, o) \in Seq(Elements(s, rep))
  BY EndingIs
<1>8. m # Len(s)
  BY <1>5, <1>6, <1>7 DEF Following
<1>9. PICK u : u = Leading(s, Span(m, Len(s)), o)
  OBVIOUS
<1>10. m < Len(s)
  BY <1>1, <1>4, <1>8
<1>11. Follows(f[m][o], u, big, r, rep, f, m, o)
  BY <1>4, <1>6, <1>9, <1>10, FollowingIs
<1>12. /\ u.errno \in {"ok", "EILSEQ", "EINVAL", "other"}
       /\ u.written \in Seq(OutByte(s)) /\ Len(u.written) \in 0 .. 2
       /\ u.owed \in 0 .. ResetSize
       /\ u.errno = "ok" => u.used \in 1 .. 2 /\ m + u.used <= Len(s)
  <2>1. LeadingSays(s, m, Len(s), u)
    BY <1>1, <1>4, <1>9, <1>10, LeadingIs
  <2> QED
    BY <1>1, <1>4, <1>9, <1>10, <2>1 DEF LeadingSays
<1>13. \A k \in 0 .. Len(s) : k > m => \A i \in 0 .. ResetSize : f[k][i] \in Seq(Elements(s, rep))
  <2>1. \A k \in 0 .. Len(s) : k > m => k \notin Bad
    <3>1. \A k \in 0 .. Len(s) : k > m => ~(k <= m)
      BY <1>4
    <3> HIDE DEF Bad
    <3> QED
      BY <1>3, <3>1
  <2> QED
    BY <2>1
<1>14. f[m + 1][o] \in Seq(Elements(s, rep))
  <2>1. m + 1 \in 0 .. Len(s) /\ m + 1 > m
    BY <1>1, <1>4, <1>10
  <2> QED
    BY <1>13, <2>1
<1>15. u.errno = "ok" => f[m + u.used][u.owed] \in Seq(Elements(s, rep))
  <2>1. u.errno = "ok" => m + u.used \in 0 .. Len(s) /\ m + u.used > m
    BY <1>1, <1>4, <1>12, SMTT(30)
  <2> QED
    BY <1>12, <1>13, <2>1
<1>16. u.written \in Seq(Elements(s, rep))
  BY <1>12, BytesAreElements
<1>17. \A x, y \in Seq(Elements(s, rep)) : x \o y \in Seq(Elements(s, rep))
  OBVIOUS
<1>18. \A e \in Errors : Reported(e, rep) \in Seq(Elements(s, rep))
  BY ReportedIs
<1>19. {"invalid_sequence", "incomplete_sequence", "system_error", "output_full"} \subseteq Errors
  BY DEF Errors
<1>20. CASE u.errno = "ok"
  <2>1. Len(u.written) > big \/ Len(u.written) <= big
    BY <1>12
  <2> HIDE DEF Bad
  <2> QED
    BY <1>5, <1>11, <1>15, <1>16, <1>17, <1>18, <1>19, <1>20, <2>1, Zenon DEF Follows
<1>21. CASE u.errno = "EILSEQ"
  <2>1. f[m][o] = Reported("invalid_sequence", rep) \o f[m + 1][o]
    BY <1>11, <1>21, Zenon DEF Follows
  <2> HIDE DEF Bad
  <2> QED
    BY <1>5, <1>14, <1>17, <1>18, <1>19, <2>1
<1>22. CASE u.errno = "EINVAL"
  <2>1. f[m][o] = Reported("incomplete_sequence", rep) \o Ending(big, r, rep, o)
    BY <1>11, <1>22, Zenon DEF Follows
  <2> HIDE DEF Bad
  <2> QED
    BY <1>5, <1>7, <1>17, <1>18, <1>19, <2>1
<1>23. CASE u.errno = "other"
  <2>1. f[m][o] = Reported("system_error", rep)
    BY <1>11, <1>23, Zenon DEF Follows
  <2> HIDE DEF Bad
  <2> QED
    BY <1>5, <1>18, <1>19, <2>1
<1> QED
  BY <1>12, <1>20, <1>21, <1>22, <1>23

-----------------------------------------------------------------------------
\* What going on from u comes to when the next character or escape gives `next`.
GoesOn(v, u, next, room) ==
  /\ next.errno # "ok" => v = Unit(next.errno, u.used, u.written, u.owed)
  /\ next.errno = "ok" /\ Len(u.written) + Len(next.written) > room =>
       v = Unit("E2BIG", u.used, u.written, u.owed)
  /\ next.errno = "ok" /\ Len(u.written) + Len(next.written) <= room =>
       v = Unit("ok", u.used + next.used, u.written \o next.written, next.owed)

\* Going on from u, what is left of the batch is a span.
LEMMA OnwardIs ==
  ASSUME NEW s \in Seq(Byte), NEW p \in Nat, NEW q \in Nat, p <= q, q <= Len(s),
         NEW room \in Nat, NEW u \in Units(Span(p, q)), u.used # Len(Span(p, q)),
         NEW next, next = Leading(s, Span(p + u.used, q), u.owed)
  PROVE  /\ u.used \in Nat /\ p + u.used < q
         /\ GoesOn(Onward(s, Span(p, q), room, u), u, next, room)
<1>1. PICK b : b = Span(p, q)
  OBVIOUS
<1>2. Len(b) = q - p
  BY <1>1, SpanIs
<1>3. u \in Units(b) /\ u.used # Len(b)
  BY <1>1
<1>4. u.used \in 0 .. Len(b) /\ u.owed \in 0 .. ResetSize
      /\ u.written \in Seq([byte : Nat \X Nat])
  BY <1>3 DEF Units
<1>5. u.used \in Nat /\ u.used <= q - p /\ p + u.used < q /\ p + u.used \in Nat
  <2>1. \A k \in 0 .. q - p : k # q - p => k \in Nat /\ k <= q - p /\ p + k < q /\ p + k \in Nat
    OBVIOUS
  <2>2. u.used \in 0 .. q - p /\ u.used # q - p
    BY <1>2, <1>3, <1>4, Zenon
  <2> QED
    BY <2>1, <2>2, Zenon
<1>6. SubSeq(b, u.used + 1, Len(b)) = Span(p + u.used, q)
  <2>1. \A k \in Nat : k <= q - p => SubSeq(Span(p, q), k + 1, q - p) = Span(p + k, q)
    BY SpanOfSpan
  <2> QED
    BY <1>1, <1>2, <1>5, <2>1, Zenon
<1>7. Len(next.written) \in Int
  <2>1. Len(next.written) \in 0 .. 2
    <3>1. LeadingSays(s, p + u.used, q, next)
      BY <1>4, <1>5, LeadingIs
    <3> QED
      BY <1>4, <1>5, <3>1 DEF LeadingSays
  <2> QED
    BY <2>1
<1>8. Len(u.written) \in Int
  BY <1>4, LenProperties
<1>9. (Len(u.written) + Len(next.written) > room)
        <=> ~(Len(u.written) + Len(next.written) <= room)
  <2>1. \A i, j \in Int : (i + j > room) <=> ~(i + j <= room)
    OBVIOUS
  <2> QED
    BY <1>7, <1>8, <2>1, Zenon
<1> DEFINE v == Onward(s, Span(p, q), room, u)
<1>10. v = IF next.errno # "ok" THEN Unit(next.errno, u.used, u.written, u.owed)
           ELSE IF Len(u.written) + Len(next.written) > room
                THEN Unit("E2BIG", u.used, u.written, u.owed)
           ELSE Unit("ok", u.used + next.used, u.written \o next.written, next.owed)
  <2>1. v = Onward(s, b, room, u)
    BY <1>1
  <2> QED
    BY <1>6, <2>1, Zenon DEF Onward
<1> HIDE DEF v
<1>11. next.errno # "ok" => v = Unit(next.errno, u.used, u.written, u.owed)
  BY <1>10, Zenon
<1>12. next.errno = "ok" /\ Len(u.written) + Len(next.written) > room =>
         v = Unit("E2BIG", u.used, u.written, u.owed)
  BY <1>10, Zenon
<1>13. next.errno = "ok" /\ Len(u.written) + Len(next.written) <= room =>
         v = Unit("ok", u.used + next.used, u.written \o next.written, next.owed)
  BY <1>9, <1>10, Zenon
<1>14. GoesOn(v, u, next, room)
  BY <1>11, <1>12, <1>13, Zenon DEF GoesOn
<1> QED
  BY <1>5, <1>14 DEF v

\* Going on uses up more of the batch, so that it comes to an end.
LEMMA OnwardGoesOn ==
  ASSUME NEW s \in Seq(Byte), NEW p \in Nat, NEW q \in Nat, p <= q, q <= Len(s),
         NEW room \in Nat, NEW u \in Units(Span(p, q)), u.used # Len(Span(p, q)),
         NEW v, v = Onward(s, Span(p, q), room, u), v.errno = "ok"
  PROVE  v \in Units(Span(p, q)) /\ u.used < v.used
<1>1. PICK next : next = Leading(s, Span(p + u.used, q), u.owed)
  OBVIOUS
<1>2. u.used \in Nat /\ p + u.used < q /\ GoesOn(v, u, next, room)
  BY <1>1, OnwardIs
<1>3. next.errno = "ok" /\ Len(u.written) + Len(next.written) <= room
  <2>1. next.errno = "ok"
    <3>1. Unit(next.errno, u.used, u.written, u.owed).errno = next.errno
      BY DEF Unit
    <3> QED
      BY <1>2, <3>1, Zenon DEF GoesOn
  <2>2. ~(Len(u.written) + Len(next.written) > room)
    <3>1. Unit("E2BIG", u.used, u.written, u.owed).errno # "ok"
      BY DEF Unit
    <3> QED
      BY <1>2, <2>1, <3>1, Zenon DEF GoesOn
  <2>3. u.written \in Seq([byte : Nat \X Nat])
    BY DEF Units
  <2>4. u.owed \in 0 .. ResetSize
    BY DEF Units
  <2>5. Len(next.written) \in 0 .. 2
    <3>1. LeadingSays(s, p + u.used, q, next)
      BY <1>1, <1>2, <2>4, LeadingIs
    <3> QED
      BY <1>1, <1>2, <2>4, <3>1 DEF LeadingSays
  <2>6. Len(u.written) \in Nat
    BY <2>3, LenProperties
  <2>7. \A i \in Nat, j \in 0 .. 2 : i + j > room \/ i + j <= room
    OBVIOUS
  <2> QED
    BY <2>1, <2>2, <2>5, <2>6, <2>7, Zenon
<1>4. v = Unit("ok", u.used + next.used, u.written \o next.written, next.owed)
  BY <1>2, <1>3, Zenon DEF GoesOn
<1>5. u.owed \in 0 .. ResetSize /\ u.written \in Seq([byte : Nat \X Nat])
  BY DEF Units
<1>6. /\ next.written \in Seq(OutByte(s)) /\ next.owed \in 0 .. ResetSize
      /\ next.used \in 1 .. 2 /\ p + u.used + next.used <= q
  <2>1. LeadingSays(s, p + u.used, q, next)
    BY <1>1, <1>2, <1>3, <1>5, LeadingIs
  <2> QED
    BY <1>1, <1>2, <1>3, <1>5, <2>1 DEF LeadingSays
<1>7. next.written \in Seq([byte : Nat \X Nat])
  BY <1>6, BytesAreElements
<1>8. u.written \o next.written \in Seq([byte : Nat \X Nat])
  BY <1>5, <1>7
<1>9. u.used + next.used \in 0 .. q - p /\ u.used < u.used + next.used
  <2>1. \A i \in Nat, j \in 1 .. 2 :
          p + i + j <= q => i + j \in 0 .. q - p /\ i < i + j
    OBVIOUS
  <2> QED
    BY <1>2, <1>6, <2>1, Zenon
<1>10. Len(Span(p, q)) = q - p
  BY SpanIs
<1> QED
  BY <1>4, <1>6, <1>8, <1>9, <1>10 DEF Unit, Units

-----------------------------------------------------------------------------
\* What convert() over b comes to from u on, if h has it for what is behind.
Finished(h, s, b, room, u) ==
  IF u.used = Len(b) THEN u
  ELSE LET v == Onward(s, b, room, u) IN IF v.errno = "ok" THEN h[v] ELSE v

\* What Convert's function is, where m bytes or more have been used.
IsFinish(h, s, b, room, m) ==
  /\ h = [u \in Units(b) |-> h[u]]
  /\ \A u \in Units(b) : m <= u.used => h[u] = Finished(h, s, b, room, u)

\* A batch is a span of the input.
IsBatch(s, b) == \E p, q \in Nat : p <= q /\ q <= Len(s) /\ b = Span(p, q)

\* What has been used of a batch is a number up to its length.
LEMMA UsedIs ==
  ASSUME NEW s, NEW b, IsBatch(s, b)
  PROVE  Len(b) \in Nat /\ \A u \in Units(b) : u.used \in 0 .. Len(b)
<1>1. PICK p, q \in Nat : p <= q /\ b = Span(p, q)
  BY DEF IsBatch
<1>2. Len(b) = q - p
  BY <1>1, SpanIs
<1> QED
  BY <1>1, <1>2 DEF Units

\* OnwardGoesOn, of a batch.
LEMMA BatchGoesOn ==
  ASSUME NEW s \in Seq(Byte), NEW b, IsBatch(s, b), NEW room \in Nat,
         NEW u \in Units(b), u.used # Len(b),
         NEW v, v = Onward(s, b, room, u), v.errno = "ok"
  PROVE  v \in Units(b) /\ u.used < v.used
<1>1. PICK p, q \in Nat : p <= q /\ q <= Len(s) /\ b = Span(p, q)
  BY DEF IsBatch
<1>2. u \in Units(Span(p, q)) /\ u.used # Len(Span(p, q)) /\ v = Onward(s, Span(p, q), room, u)
  BY <1>1
<1>3. v \in Units(Span(p, q)) /\ u.used < v.used
  BY <1>1, <1>2, OnwardGoesOn
<1> QED
  BY <1>1, <1>3

\* What u comes to is asked of h further on only.
LEMMA FinishedFromLater ==
  ASSUME NEW s \in Seq(Byte), NEW b, IsBatch(s, b), NEW room \in Nat, NEW u \in Units(b), NEW h, NEW g,
         \A v \in Units(b) : u.used < v.used => h[v] = g[v]
  PROVE  Finished(h, s, b, room, u) = Finished(g, s, b, room, u)
<1>1. CASE u.used = Len(b)
  BY <1>1 DEF Finished
<1>2. CASE u.used # Len(b)
  <2>1. PICK v : v = Onward(s, b, room, u)
    OBVIOUS
  <2>2. v.errno = "ok" => v \in Units(b) /\ u.used < v.used
    BY <1>2, <2>1, BatchGoesOn
  <2>3. v.errno = "ok" => h[v] = g[v]
    BY <2>2
  <2> QED
    BY <1>2, <2>1, <2>3, Zenon DEF Finished
<1> QED
  BY <1>1, <1>2

\* What is so from m + 1 on can be had from m on.
LEMMA FinishEarlier ==
  ASSUME NEW s \in Seq(Byte), NEW b, IsBatch(s, b), NEW room \in Nat, NEW m \in Nat,
         NEW g, IsFinish(g, s, b, room, m + 1)
  PROVE  \E h : IsFinish(h, s, b, room, m)
<1> DEFINE h == [u \in Units(b) |-> IF u.used = m THEN Finished(g, s, b, room, u) ELSE g[u]]
<1>1. Len(b) \in Nat /\ \A u \in Units(b) : u.used \in 0 .. Len(b)
  BY UsedIs
<1>2. \A u \in Units(b) : h[u] = IF u.used = m THEN Finished(g, s, b, room, u) ELSE g[u]
  OBVIOUS
<1>3. h = [u \in Units(b) |-> h[u]]
  BY <1>2
<1>4. ASSUME NEW u \in Units(b), m <= u.used
      PROVE  h[u] = Finished(h, s, b, room, u)
  <2>1. u.used \in Nat
    BY <1>1
  <2>2. \A v \in Units(b) : u.used < v.used => h[v] = g[v]
    <3>1. \A v \in Units(b) : u.used < v.used => v.used # m
      <4>1. \A i, j \in Nat : m <= i /\ i < j => j # m
        OBVIOUS
      <4>2. \A v \in Units(b) : v.used \in Nat
        BY <1>1
      <4> QED
        BY <1>4, <2>1, <4>1, <4>2, Zenon
    <3> HIDE DEF h
    <3> QED
      BY <1>2, <3>1, Zenon
  <2>3. Finished(h, s, b, room, u) = Finished(g, s, b, room, u)
    <3> HIDE DEF h
    <3> QED
      BY <2>2, FinishedFromLater
  <2>4. h[u] = Finished(g, s, b, room, u)
    <3>1. CASE u.used = m
      <4> HIDE DEF h
      <4> QED
        BY <1>2, <3>1, Zenon
    <3>2. CASE u.used # m
      <4>1. m + 1 <= u.used
        BY <1>4, <2>1, <3>2
      <4> HIDE DEF h
      <4> QED
        BY <1>2, <3>2, <4>1, Zenon DEF IsFinish
    <3> QED
      BY <3>1, <3>2
  <2> HIDE DEF h
  <2> QED
    BY <2>3, <2>4
<1> HIDE DEF h
<1> QED
  BY <1>3, <1>4 DEF IsFinish

\* There is such a function: Convert's recursion defines one.
LEMMA FinishExists ==
  ASSUME NEW s \in Seq(Byte), NEW b, IsBatch(s, b), NEW room \in Nat
  PROVE  \E h : IsFinish(h, s, b, room, 0)
<1> DEFINE Bad == {m \in 0 .. Len(b) : ~ \E h : IsFinish(h, s, b, room, m)}
<1>1. Len(b) \in Nat /\ 0 \in 0 .. Len(b) /\ \A u \in Units(b) : u.used \in 0 .. Len(b)
  BY UsedIs
<1>2. SUFFICES ASSUME Bad # {} PROVE FALSE
  BY <1>1
<1>3. PICK m \in Bad : \A k \in Bad : k <= m
  <2>1. Bad \subseteq 0 .. Len(b)
    OBVIOUS
  <2> HIDE DEF Bad
  <2> QED
    BY <1>1, <1>2, <2>1, LastOne
<1>4. m \in Nat /\ m <= Len(b) /\ ~ \E h : IsFinish(h, s, b, room, m)
  BY <1>1
<1>5. m # Len(b)
  <2> DEFINE h == [u \in Units(b) |-> u]
  <2>1. h = [u \in Units(b) |-> h[u]] /\ \A u \in Units(b) : h[u] = u
    OBVIOUS
  <2>2. \A u \in Units(b) : Len(b) <= u.used => u.used = Len(b)
    BY <1>1
  <2>3. IsFinish(h, s, b, room, Len(b))
    <3> HIDE DEF h
    <3> QED
      BY <2>1, <2>2 DEF IsFinish, Finished
  <2> QED
    BY <1>4, <2>3
<1>6. m + 1 \in 0 .. Len(b) /\ ~(m + 1 <= m)
  BY <1>1, <1>4, <1>5
<1>7. m + 1 \notin Bad
  BY <1>3, <1>6
<1>8. PICK g : IsFinish(g, s, b, room, m + 1)
  BY <1>6, <1>7
<1> QED
  BY <1>4, <1>8, FinishEarlier

\* Convert is a function that obeys its equation everywhere.
LEMMA ConvertIs ==
  ASSUME NEW s \in Seq(Byte), NEW b, IsBatch(s, b), NEW o, NEW room \in Nat
  PROVE  \E h : /\ Convert(s, b, o, room) = h[Unit("ok", 0, <<>>, o)]
                /\ \A u \in Units(b) : h[u] = Finished(h, s, b, room, u)
<1> DEFINE Equation(g) == g = [u \in Units(b) |-> Finished(g, s, b, room, u)]
<1>1. PICK f : f = CHOOSE g : Equation(g)
  OBVIOUS
<1>2. PICK h : IsFinish(h, s, b, room, 0)
  BY FinishExists
<1>3. Equation(h)
  <2>1. \A u \in Units(b) : 0 <= u.used
    BY UsedIs
  <2> QED
    BY <1>2, <2>1 DEF IsFinish
<1>4. Equation(f)
  <2> HIDE DEF Equation
  <2> QED
    BY <1>1, <1>3
<1>5. Convert(s, b, o, room) = f[Unit("ok", 0, <<>>, o)]
  BY <1>1 DEF Convert, Finished
<1>6. \A u \in Units(b) : f[u] = Finished(f, s, b, room, u)
  BY <1>4
<1> QED
  BY <1>5, <1>6

-----------------------------------------------------------------------------
\* Joining sequences.
LEMMA Joined ==
  ASSUME NEW S, NEW a \in Seq(S), NEW b \in Seq(S)
  PROVE  a \o b \in Seq(S) /\ Len(a \o b) = Len(a) + Len(b)
BY ConcatProperties

InTurn(a, b, c) == (a \o b) \o c = a \o (b \o c)

LEMMA JoinedInTurn ==
  ASSUME NEW S, NEW a \in Seq(S), NEW b \in Seq(S), NEW c \in Seq(S)
  PROVE  InTurn(a, b, c)
BY ConcatAssociative, SMTT(30) DEF InTurn

LEMMA JoinedWithNothing ==
  ASSUME NEW S, NEW a \in Seq(S)
  PROVE  <<>> \o a = a /\ a \o <<>> = a
BY ConcatEmptySeq

LEMMA JoinedNothing ==
  ASSUME NEW S, NEW a \in Seq(S), NEW b \in Seq(S), a \o b = <<>>
  PROVE  a = <<>> /\ b = <<>>
<1>1. Len(a) + Len(b) = 0 /\ Len(a) \in Nat /\ Len(b) \in Nat
  BY ConcatProperties, LenProperties
<1>2. Len(a) = 0 /\ Len(b) = 0
  BY <1>1
<1> QED
  BY <1>2, EmptySeq

-----------------------------------------------------------------------------
\* The bytes that write nothing.
Escapes == {"shift", "unshift"}

\* What convert() has come to at u says of what it was given behind p: what
\* has been written and what follows is what followed.
Good(f, s, p, q, o, room, u) ==
  /\ u.written \in Seq(OutByte(s)) /\ Len(u.written) <= room
  /\ u.owed \in 0 .. ResetSize
  /\ u.used \in Nat /\ p + u.used <= q
  /\ f[p][o] = u.written \o f[p + u.used][u.owed]
  /\ u.written = <<>> => \A k \in p + 1 .. p + u.used : s[k] \in Escapes

\* Why it stops at c.
Stops(s, p, q, room, c) ==
  LET u == Leading(s, Span(p + c.used, q), c.owed) IN
  /\ c.errno \in Errno
  /\ c.errno = "ok" => p + c.used = q
  /\ c.errno # "ok" => p + c.used < q
  /\ c.errno = "E2BIG" => u.errno = "ok" /\ Len(c.written) + Len(u.written) > room
  /\ c.errno \in {"EILSEQ", "EINVAL", "other"} => u.errno = c.errno

\* convert() stops at v: what it has come to is still good, and says why.
LEMMA OnwardStops ==
  ASSUME NEW s \in Seq(Byte), NEW p \in Nat, NEW q \in Nat, p <= q, q <= Len(s), NEW o,
         NEW room \in Nat, NEW f, NEW u \in Units(Span(p, q)), u.used # Len(Span(p, q)),
         Good(f, s, p, q, o, room, u),
         NEW v, v = Onward(s, Span(p, q), room, u), v.errno # "ok"
  PROVE  Good(f, s, p, q, o, room, v) /\ Stops(s, p, q, room, v)
<1>1. PICK next : next = Leading(s, Span(p + u.used, q), u.owed)
  OBVIOUS
<1>2. u.used \in Nat /\ p + u.used < q /\ GoesOn(v, u, next, room)
  BY <1>1, OnwardIs
<1>3. u.written \in Seq(OutByte(s)) /\ u.owed \in 0 .. ResetSize
  BY DEF Good
<1>4. next.errno \in {"ok", "EILSEQ", "EINVAL", "other"} /\ Len(next.written) \in Nat
  <2>1. next.errno \in {"ok", "EILSEQ", "EINVAL", "other"} /\ Len(next.written) \in 0 .. 2
    <3>1. LeadingSays(s, p + u.used, q, next)
      BY <1>1, <1>2, <1>3, LeadingIs
    <3> QED
      BY <1>1, <1>2, <1>3, <3>1 DEF LeadingSays
  <2> QED
    BY <2>1
<1>5. Len(u.written) \in Nat
  BY <1>3, LenProperties
<1>6. Len(u.written) + Len(next.written) > room \/ Len(u.written) + Len(next.written) <= room
  <2>1. \A i, j \in Nat : i + j > room \/ i + j <= room
    OBVIOUS
  <2> QED
    BY <1>4, <1>5, <2>1, Zenon
<1>7. \/ /\ next.errno # "ok" /\ v = Unit(next.errno, u.used, u.written, u.owed)
      \/ /\ next.errno = "ok" /\ Len(u.written) + Len(next.written) > room
         /\ v = Unit("E2BIG", u.used, u.written, u.owed)
  <2>1. Unit("ok", u.used + next.used, u.written \o next.written, next.owed).errno = "ok"
    BY DEF Unit
  <2> QED
    BY <1>2, <1>6, <2>1, Zenon DEF GoesOn
<1>8. v.used = u.used /\ v.written = u.written /\ v.owed = u.owed
  <2>1. \A e : LET x == Unit(e, u.used, u.written, u.owed) IN
          x.used = u.used /\ x.written = u.written /\ x.owed = u.owed
    BY DEF Unit
  <2> QED
    BY <1>7, <2>1, Zenon
<1>9. Good(f, s, p, q, o, room, v)
  BY <1>8, Zenon DEF Good
<1>10. Leading(s, Span(p + v.used, q), v.owed) = next
  BY <1>1, <1>8, Zenon
<1>11. \/ next.errno # "ok" /\ v.errno = next.errno
       \/ /\ next.errno = "ok" /\ Len(v.written) + Len(next.written) > room
          /\ v.errno = "E2BIG"
  <2>1. \A e : Unit(e, u.used, u.written, u.owed).errno = e
    BY DEF Unit
  <2> QED
    BY <1>7, <1>8, <2>1, Zenon
<1>12. p + v.used < q
  BY <1>2, <1>8
<1>13. v.errno \in Errno /\ (v.errno = "E2BIG" => next.errno = "ok")
       /\ (v.errno \in {"EILSEQ", "EINVAL", "other"} => next.errno = v.errno)
       /\ (v.errno = "E2BIG" => Len(v.written) + Len(next.written) > room)
  <2>1. CASE next.errno # "ok" /\ v.errno = next.errno
    BY <1>4, <2>1 DEF Errno
  <2>2. CASE next.errno = "ok" /\ Len(v.written) + Len(next.written) > room /\ v.errno = "E2BIG"
    BY <2>2 DEF Errno
  <2> QED
    BY <1>11, <2>1, <2>2
<1>14. Stops(s, p, q, room, v)
  BY <1>10, <1>12, <1>13, Zenon DEF Stops
<1> QED
  BY <1>9, <1>14

\* convert() goes on to v: what it has come to is good again.
LEMMA OnwardGood ==
  ASSUME NEW s \in Seq(Byte), NEW p \in Nat, NEW q \in Nat, p <= q, q <= Len(s),
         NEW o \in 0 .. ResetSize, NEW room \in Nat,
         NEW big \in Nat, room <= big \/ 2 <= big, NEW r \in Resetting, NEW rep \in BOOLEAN,
         NEW f, f = From(s, big, r, rep),
         NEW u \in Units(Span(p, q)), u.used # Len(Span(p, q)),
         Good(f, s, p, q, o, room, u),
         NEW v, v = Onward(s, Span(p, q), room, u), v.errno = "ok"
  PROVE  Good(f, s, p, q, o, room, v)
<1>1. PICK next : next = Leading(s, Span(p + u.used, q), u.owed)
  OBVIOUS
<1>2. u.used \in Nat /\ p + u.used < q /\ GoesOn(v, u, next, room)
  BY <1>1, OnwardIs
<1>3. u.written \in Seq(OutByte(s)) /\ u.owed \in 0 .. ResetSize
  BY DEF Good
<1>8. PICK n : n = p + u.used
  OBVIOUS
<1>9. n \in Nat /\ n < q /\ n < Len(s) /\ Len(s) \in Nat
  BY <1>2, <1>8, LenProperties, SMTT(30)
<1>4. /\ next.written \in Seq(OutByte(s)) /\ Len(next.written) \in 0 .. 2
      /\ next.owed \in 0 .. ResetSize
      /\ next.errno = "ok" => next.used \in 1 .. 2 /\ n + next.used <= q
      /\ next.errno = "ok" /\ next.written = <<>> =>
           next.used = 1 /\ s[n + 1] \in {"shift", "unshift"}
  <2>1. next = Leading(s, Span(n, q), u.owed)
    BY <1>1, <1>8
  <2> QED
    <3>1. LeadingSays(s, n, q, next)
      BY <1>3, <1>9, <2>1, LeadingIs
    <3> QED
      BY <1>3, <1>9, <2>1, <3>1 DEF LeadingSays
<1>5. Len(u.written) \in Nat /\ Len(next.written) \in Nat
  BY <1>3, <1>4, LenProperties, SMTT(30)
<1>6. next.errno = "ok" /\ Len(u.written) + Len(next.written) <= room
      /\ v = Unit("ok", u.used + next.used, u.written \o next.written, next.owed)
  <2>1. \A e : Unit(e, u.used, u.written, u.owed).errno = e
    BY DEF Unit
  <2>2. next.errno = "ok"
    BY <1>2, <2>1, Zenon DEF GoesOn
  <2>3. ~(Len(u.written) + Len(next.written) > room)
    <3>1. "E2BIG" # "ok"
      OBVIOUS
    <3> QED
      BY <1>2, <2>1, <2>2, <3>1, Zenon DEF GoesOn
  <2>4. Len(u.written) + Len(next.written) <= room
    <3>1. \A i, j \in Nat : i + j > room \/ i + j <= room
      OBVIOUS
    <3> QED
      BY <1>5, <2>3, <3>1, Zenon
  <2> QED
    BY <1>2, <2>2, <2>4, Zenon DEF GoesOn
<1>7. /\ v.used = u.used + next.used /\ v.written = u.written \o next.written
      /\ v.owed = next.owed
  <2>1. PICK i, w : i = u.used + next.used /\ w = u.written \o next.written
    OBVIOUS
  <2>2. v = Unit("ok", i, w, next.owed)
    BY <1>6, <2>1
  <2>3. v.used = i /\ v.written = w /\ v.owed = next.owed
    BY <2>2 DEF Unit
  <2> QED
    BY <2>1, <2>3
<1>10. next = Leading(s, Span(n, Len(s)), u.owed)
  <2>1. next = Leading(s, Span(n, q), u.owed)
    BY <1>1, <1>8
  <2>2. next.errno # "EINVAL"
    BY <1>6
  <2> QED
    BY <1>9, <2>1, <2>2, LeadingInBatch
<1>11. f[n][u.owed] = next.written \o f[n + next.used][next.owed]
  <2>1. f[n][u.owed] = Following(s, big, r, rep, f, n, u.owed)
    <3>1. n \in 0 .. Len(s)
      BY <1>9
    <3> QED
      BY <1>3, <3>1, FromIs
  <2>2. Follows(f[n][u.owed], next, big, r, rep, f, n, u.owed)
    BY <1>3, <1>9, <1>10, <2>1, FollowingIs
  <2>3. Len(next.written) <= big
    <3>1. \A i \in Nat, j \in 0 .. 2 : i + j <= room => j <= big
      OBVIOUS
    <3> QED
      BY <1>4, <1>5, <1>6, <3>1, Zenon
  <2> QED
    BY <1>6, <2>2, <2>3, Zenon DEF Follows
<1>12. n + next.used = p + v.used /\ v.used \in Nat /\ p + v.used <= q
  <2>1. \A i \in Nat, j \in 1 .. 2 :
          p + i + j <= q => p + i + j = p + (i + j) /\ i + j \in Nat /\ p + (i + j) <= q
    OBVIOUS
  <2> QED
    BY <1>2, <1>4, <1>6, <1>7, <1>8, <2>1, ZenonT(40)
<1>13. f[p][o] = v.written \o f[p + v.used][v.owed]
  <2>1. PICK z : z = f[p + v.used][v.owed]
    OBVIOUS
  <2> DEFINE S == Elements(s, rep)
  <2>2. z \in Seq(S)
    <3>1. p + v.used \in 0 .. Len(s) /\ v.owed \in 0 .. ResetSize
      <4>1. v.owed \in 0 .. ResetSize
        BY <1>4, <1>7, Zenon
      <4>2. \A i \in Nat, l \in Nat : q <= l /\ p + i <= q => p + i \in 0 .. l
        OBVIOUS
      <4>3. p + v.used \in 0 .. Len(s)
        BY <1>9, <1>12, <4>2, ZenonT(40)
      <4> QED
        BY <4>1, <4>3
    <3> QED
      BY <2>1, <3>1, FromTyped
  <2>3. f[p][o] = u.written \o (next.written \o z)
    <3>1. f[p][o] = u.written \o f[n][u.owed]
      BY <1>8 DEF Good
    <3> QED
      BY <1>7, <1>11, <1>12, <2>1, <3>1
  <2>4. u.written \in Seq(S) /\ next.written \in Seq(S)
    BY <1>3, <1>4, BytesAreElements
  <2> HIDE DEF S
  <2>5. (u.written \o next.written) \o z = u.written \o (next.written \o z)
    <3>1. InTurn(u.written, next.written, z)
      BY <2>2, <2>4, JoinedInTurn
    <3> QED
      BY <3>1, Zenon DEF InTurn
  <2> QED
    BY <1>7, <2>1, <2>3, <2>5, Zenon
<1>14. v.written \in Seq(OutByte(s)) /\ Len(v.written) <= room
  <2>1. u.written \o next.written \in Seq(OutByte(s))
        /\ Len(u.written \o next.written) = Len(u.written) + Len(next.written)
    BY <1>3, <1>4, Joined
  <2> QED
    BY <1>6, <1>7, <2>1, Zenon
<1>15. ASSUME v.written = <<>>, NEW k \in p + 1 .. p + v.used PROVE s[k] \in Escapes
  <2>1. u.written = <<>> /\ next.written = <<>>
    BY <1>3, <1>4, <1>7, <1>15, JoinedNothing
  <2>2. next.used = 1 /\ s[n + 1] \in Escapes
    BY <1>4, <1>6, <2>1 DEF Escapes
  <2>3. \A i \in p + 1 .. n : s[i] \in Escapes
    BY <1>8, <2>1 DEF Good
  <2>4. k = n + 1 \/ k \in p + 1 .. n
    BY <1>9, <1>12, <1>15, <2>2, SMTT(30)
  <2> QED
    BY <2>2, <2>3, <2>4
<1> QED
  BY <1>4, <1>7, <1>12, <1>13, <1>14, <1>15, Zenon DEF Good

-----------------------------------------------------------------------------
\* A call of convert(), from any place and whatever is owed there: what it has
\* written, and what follows the place it has come to, is what followed.
LEMMA ConvertSays ==
  ASSUME NEW s \in Seq(Byte), NEW p \in Nat, NEW q \in Nat, p <= q, q <= Len(s),
         NEW o \in 0 .. ResetSize, NEW room \in Nat,
         NEW big \in Nat, room <= big \/ 2 <= big, NEW r \in Resetting, NEW rep \in BOOLEAN,
         NEW f, f = From(s, big, r, rep), NEW c, c = Convert(s, Span(p, q), o, room)
  PROVE  Good(f, s, p, q, o, room, c) /\ Stops(s, p, q, room, c)
<1> DEFINE b == Span(p, q)
           Fine(u) == Good(f, s, p, q, o, room, u) /\ Stops(s, p, q, room, u)
           first == Unit("ok", 0, <<>>, o)
<1>1. IsBatch(s, b) /\ Len(b) = q - p /\ Len(b) \in Nat /\ \A u \in Units(b) : u.used \in 0 .. Len(b)
  <2>1. IsBatch(s, b)
    BY DEF IsBatch
  <2>2. Len(b) = q - p
    BY SpanIs
  <2> HIDE DEF b
  <2> QED
    BY <2>1, <2>2, UsedIs
<1>2. PICK h : /\ c = h[first]
               /\ \A u \in Units(b) : h[u] = Finished(h, s, b, room, u)
  <2>1. c = Convert(s, b, o, room)
    OBVIOUS
  <2> HIDE DEF b
  <2>2. \E h : /\ Convert(s, b, o, room) = h[Unit("ok", 0, <<>>, o)]
               /\ \A u \in Units(b) : h[u] = Finished(h, s, b, room, u)
    BY <1>1, ConvertIs
  <2> QED
    BY <2>1, <2>2, Zenon
<1> DEFINE Bad == {n \in 0 .. Len(b) :
                     \E u \in Units(b) : u.used = n /\ Good(f, s, p, q, o, room, u) /\ ~Fine(h[u])}
<1>3. Bad = {}
  <2>1. SUFFICES ASSUME Bad # {} PROVE FALSE
    OBVIOUS
  <2>2. PICK n \in Bad : \A k \in Bad : k <= n
    <3>1. Bad \subseteq 0 .. Len(b)
      OBVIOUS
    <3> HIDE DEF Bad, b
    <3> QED
      BY <1>1, <2>1, <3>1, LastOne
  <2>3. PICK u \in Units(b) : u.used = n /\ Good(f, s, p, q, o, room, u) /\ ~Fine(h[u])
    OBVIOUS
  <2>4. h[u] = Finished(h, s, b, room, u)
    BY <1>2
  <2>5. u.used # Len(b)
    <3>1. SUFFICES ASSUME u.used = Len(b) PROVE FALSE
      OBVIOUS
    <3>2. h[u] = u
      BY <2>4, <3>1 DEF Finished
    <3>3. u.errno = "ok" /\ p + u.used = q
      <4>1. u.errno = "ok"
        BY DEF Units
      <4>2. p + (q - p) = q
        OBVIOUS
      <4> QED
        BY <1>1, <3>1, <4>1, <4>2
    <3>4. Stops(s, p, q, room, u)
      BY <3>3 DEF Stops, Errno
    <3> HIDE DEF b
    <3> QED
      BY <2>3, <3>2, <3>4
  <2>6. PICK v : v = Onward(s, b, room, u)
    OBVIOUS
  <2>7. CASE v.errno = "ok"
    <3>1. h[u] = h[v]
      BY <2>4, <2>5, <2>6, <2>7, Zenon DEF Finished
    <3>2. v \in Units(b) /\ u.used < v.used
      BY <2>5, <2>6, <2>7, OnwardGoesOn
    <3>3. Good(f, s, p, q, o, room, v)
      BY <2>3, <2>5, <2>6, <2>7, OnwardGood
    <3>4. v.used \in Bad
      BY <1>1, <2>3, <3>1, <3>2, <3>3, SMTT(30)
    <3>5. v.used <= n /\ n < v.used /\ n \in Int /\ v.used \in Int
      BY <1>1, <2>2, <2>3, <3>2, <3>4, SMTT(30)
    <3> QED
      BY <3>5
  <2>8. CASE v.errno # "ok"
    <3>1. h[u] = v
      BY <2>4, <2>5, <2>6, <2>8, Zenon DEF Finished
    <3>2. Fine(v)
      BY <2>3, <2>5, <2>6, <2>8, OnwardStops
    <3> QED
      BY <2>3, <3>1, <3>2
  <2> QED
    BY <2>7, <2>8
<1>4. first \in Units(b)
  BY <1>1 DEF Unit, Units
<1>5. Good(f, s, p, q, o, room, first)
  <2>1. first.used = 0 /\ first.written = <<>> /\ first.owed = o
    BY DEF Unit
  <2>2. p \in 0 .. Len(s)
    BY LenProperties
  <2>3. f[p][o] \in Seq(Elements(s, rep))
    BY <2>2, FromTyped
  <2>4. f[p][o] = <<>> \o f[p][o]
    BY <2>3, JoinedWithNothing
  <2>5. p + 0 = p /\ p + 0 <= q /\ 0 \in Nat /\ ~ \E k \in p + 1 .. p + 0 : TRUE
    OBVIOUS
  <2>6. <<>> \in Seq(OutByte(s)) /\ Len(<<>>) <= room
    OBVIOUS
  <2> HIDE DEF first
  <2> QED
    BY <2>1, <2>4, <2>5, <2>6, Zenon DEF Good
<1>6. first.used = 0 /\ 0 \in 0 .. Len(b)
  BY <1>1 DEF Unit
<1>7. Fine(h[first])
  BY <1>3, <1>4, <1>5, <1>6
<1> QED
  BY <1>2, <1>7

\* A character that the batch cuts short.
LEMMA CutShortAtTheEnd ==
  ASSUME NEW s \in Seq(Byte), NEW n \in Nat, NEW q \in Nat, q = n + 1, q <= Len(s), s[q] = "lead",
         NEW o
  PROVE  Leading(s, Span(n, q), o).errno = "EINVAL"
<1>1. PICK u : u = Leading(s, Span(n, q), o)
  OBVIOUS
<1>2. n < q /\ s[n + 1] = "lead"
  OBVIOUS
<1>3. u = Unit("EINVAL", 0, <<>>, o)
  <2>1. LeadingGives(s, n, q, o, u)
    BY <1>1, <1>2, LeadingOf
  <2> QED
    BY <1>1, <1>2, <2>1 DEF LeadingGives
<1>4. u.errno = "EINVAL"
  BY <1>3 DEF Unit
<1> QED
  BY <1>1, <1>4

\* What convert() answers, read as what follows the n bytes before it stopped.
Says(f, s, big, r, rep, q, room, n, c) ==
  /\ c.errno = "ok" => n = q
  /\ c.errno # "ok" => n < q
  /\ c.errno = "EILSEQ" =>
       f[n][c.owed] = Reported("invalid_sequence", rep) \o f[n + 1][c.owed]
  /\ c.errno = "other" => f[n][c.owed] = Reported("system_error", rep)
  /\ c.errno = "EINVAL" => n + 1 = q /\ s[q] = "lead"
  /\ c.errno = "EINVAL" /\ q = Len(s) =>
       \A i \in 0 .. ResetSize :
         f[n][i] = Reported("incomplete_sequence", rep) \o Ending(big, r, rep, i)
  /\ c.errno = "E2BIG" => room < Len(c.written) + 2
  /\ c.errno = "E2BIG" /\ c.written = <<>> /\ room = big =>
       f[n][c.owed] = Reported("output_full", rep)

\* What the way in which a call stops says of what follows.
LEMMA StopSays ==
  ASSUME NEW s \in Seq(Byte), NEW p \in Nat, NEW q \in Nat, p <= q, q <= Len(s),
         NEW room \in Nat, NEW big \in Nat, NEW r \in Resetting, NEW rep \in BOOLEAN,
         NEW f, f = From(s, big, r, rep), NEW o,
         NEW c, Good(f, s, p, q, o, room, c), Stops(s, p, q, room, c),
         NEW n, n = p + c.used
  PROVE  Says(f, s, big, r, rep, q, room, n, c)
<1>1. PICK u : u = Leading(s, Span(n, q), c.owed)
  OBVIOUS
<1>2. /\ c.written \in Seq(OutByte(s)) /\ c.owed \in 0 .. ResetSize
      /\ c.used \in Nat /\ p + c.used <= q
  BY DEF Good
<1>3. n \in Nat /\ n <= q /\ Len(s) \in Nat /\ n \in 0 .. Len(s) /\ Len(c.written) \in Nat
  <2>1. Len(s) \in Nat /\ Len(c.written) \in Nat
    BY <1>2, LenProperties
  <2> QED
    BY <1>2, <2>1, SMTT(30)
<1>4. /\ c.errno \in Errno
      /\ c.errno = "ok" => n = q
      /\ c.errno # "ok" => n < q
      /\ c.errno = "E2BIG" => u.errno = "ok" /\ Len(c.written) + Len(u.written) > room
      /\ c.errno \in {"EILSEQ", "EINVAL", "other"} => u.errno = c.errno
  BY <1>1, Zenon DEF Stops
<1>5. CASE c.errno = "ok"
  BY <1>4, <1>5 DEF Says
<1> SUFFICES ASSUME c.errno # "ok" PROVE Says(f, s, big, r, rep, q, room, n, c)
  BY <1>5
<1>6. n < q /\ n < Len(s)
  BY <1>3, <1>4
<1>7. /\ Len(u.written) \in 0 .. 2
      /\ u.errno = "EINVAL" => q = n + 1 /\ s[n + 1] = "lead"
  <2>1. LeadingSays(s, n, q, u)
    BY <1>1, <1>2, <1>3, <1>6, LeadingIs
  <2> QED
    BY <1>1, <1>2, <1>3, <1>6, <2>1 DEF LeadingSays
<1>8. f[n][c.owed] = Following(s, big, r, rep, f, n, c.owed)
  BY <1>2, <1>3, FromIs, SMTT(30)
<1>9. u.errno # "EINVAL" => Follows(f[n][c.owed], u, big, r, rep, f, n, c.owed)
  <2> SUFFICES ASSUME u.errno # "EINVAL" PROVE Follows(f[n][c.owed], u, big, r, rep, f, n, c.owed)
    OBVIOUS
  <2>1. u = Leading(s, Span(n, Len(s)), c.owed)
    BY <1>1, <1>3, <1>6, LeadingInBatch, SMTT(30)
  <2> QED
    BY <1>2, <1>3, <1>6, <1>8, <2>1, FollowingIs, SMTT(30)
<1>10. CASE c.errno = "EILSEQ"
  <2>1. f[n][c.owed] = Reported("invalid_sequence", rep) \o f[n + 1][c.owed]
    BY <1>4, <1>9, <1>10, Zenon DEF Follows
  <2> QED
    BY <1>6, <1>10, <2>1 DEF Says
<1>11. CASE c.errno = "other"
  <2>1. f[n][c.owed] = Reported("system_error", rep)
    BY <1>4, <1>9, <1>11, Zenon DEF Follows
  <2> QED
    BY <1>6, <1>11, <2>1 DEF Says
<1>12. CASE c.errno = "EINVAL"
  <2>1. n + 1 = q /\ s[q] = "lead" /\ s[n + 1] = "lead"
    BY <1>4, <1>7, <1>12
  <2>2. ASSUME q = Len(s), NEW i \in 0 .. ResetSize
        PROVE  f[n][i] = Reported("incomplete_sequence", rep) \o Ending(big, r, rep, i)
    <3>1. PICK v : v = Leading(s, Span(n, Len(s)), i)
      OBVIOUS
    <3>2. Leading(s, Span(n, q), i).errno = "EINVAL"
      BY <1>3, <2>1, CutShortAtTheEnd, SMTT(30)
    <3>4. v.errno = "EINVAL"
      BY <2>2, <3>1, <3>2
    <3>5. f[n][i] = Following(s, big, r, rep, f, n, i)
      BY <1>3, FromIs
    <3>6. Follows(f[n][i], v, big, r, rep, f, n, i)
      BY <1>3, <1>6, <3>1, <3>5, FollowingIs
    <3> QED
      BY <3>4, <3>6, Zenon DEF Follows
  <2> QED
    BY <1>6, <1>12, <2>1, <2>2 DEF Says
<1>13. CASE c.errno = "E2BIG"
  <2>1. u.errno = "ok" /\ Len(c.written) + Len(u.written) > room
    BY <1>4, <1>13
  <2>2. room < Len(c.written) + 2
    <3>1. \A i \in Nat, j \in 0 .. 2 : i + j > room => room < i + 2
      OBVIOUS
    <3> QED
      BY <1>3, <1>7, <2>1, <3>1, Zenon
  <2>3. c.written = <<>> /\ room = big => f[n][c.owed] = Reported("output_full", rep)
    <3>1. c.written = <<>> => Len(c.written) = 0
      OBVIOUS
    <3>2. \A i \in Nat, j \in 0 .. 2 : i = 0 /\ i + j > room => j > room
      OBVIOUS
    <3>3. c.written = <<>> => Len(u.written) > room
      BY <1>3, <1>7, <2>1, <3>1, <3>2, Zenon
    <3> QED
      BY <1>9, <2>1, <3>3, Zenon DEF Follows
  <2> QED
    BY <1>6, <1>13, <2>2, <2>3 DEF Says
<1> QED
  BY <1>4, <1>10, <1>11, <1>12, <1>13 DEF Errno

\* What follows the whole input.
LEMMA FromEnds ==
  ASSUME NEW s \in Seq(Byte), NEW big \in Nat, NEW r, NEW rep,
         NEW f, f = From(s, big, r, rep), NEW o \in 0 .. ResetSize
  PROVE  f[Len(s)][o] = Ending(big, r, rep, o)
<1>1. Len(s) \in 0 .. Len(s)
  BY LenProperties
<1>2. f[Len(s)][o] = Following(s, big, r, rep, f, Len(s), o)
  BY <1>1, FromIs
<1> QED
  BY <1>2, Zenon DEF Following

-----------------------------------------------------------------------------
\* The bytes owed fall into those that are written and those still owed.
LEMMA ResetsFallApart ==
  ASSUME NEW s \in Seq(Byte), NEW o \in 0 .. ResetSize, NEW k \in 0 .. o
  PROVE  /\ SubSeq(Resets(o), 1, k) \in Seq(OutByte(s))
         /\ Len(SubSeq(Resets(o), 1, k)) = k
         /\ Resets(o) = SubSeq(Resets(o), 1, k) \o Resets(o - k)
<1>1. o \in Nat /\ k \in Nat /\ k <= o /\ o - k \in 0 .. ResetSize
  BY DEF ResetSize
<1>2. PICK a : a = Resets(o)
  OBVIOUS
<1>3. a \in Seq(OutByte(s)) /\ Len(a) = o /\ \A n \in 1 .. o : a[n] = Converted(0, ResetSize - o + n)
  BY <1>2, ResetsIs
<1>4. PICK c : c = Resets(o - k)
  OBVIOUS
<1>5. c \in Seq(OutByte(s)) /\ Len(c) = o - k
      /\ \A n \in 1 .. o - k : c[n] = Converted(0, ResetSize - (o - k) + n)
  BY <1>1, <1>4, ResetsIs
<1>6. PICK b : b = SubSeq(a, 1, k)
  OBVIOUS
<1>7. b \in Seq(OutByte(s)) /\ Len(b) = k /\ \A n \in 1 .. k : b[n] = a[n]
  <2>1. \A i \in 1 .. k : a[i] \in OutByte(s)
    <3>1. \A i \in 1 .. k : i \in 1 .. Len(a)
      BY <1>1, <1>3
    <3> QED
      BY <1>3, <3>1
  <2>2. 1 \in Int /\ k \in Int /\ (IF 1 <= k THEN k - 1 + 1 ELSE 0) = k /\ k - 1 + 1 = k
    BY <1>1
  <2>3. /\ b \in Seq(OutByte(s))
        /\ Len(b) = IF 1 <= k THEN k - 1 + 1 ELSE 0
        /\ \A i \in 1 .. k - 1 + 1 : b[i] = a[1 + i - 1]
    BY <1>6, <2>1, <2>2, SubSeqProperties
  <2>4. \A n \in 1 .. k : 1 + n - 1 = n
    BY <1>1
  <2> QED
    BY <2>2, <2>3, <2>4
<1>8. PICK d : d = b \o c
  OBVIOUS
<1>9. /\ d \in Seq(OutByte(s)) /\ Len(d) = Len(b) + Len(c)
      /\ \A i \in 1 .. Len(b) + Len(c) : d[i] = IF i <= Len(b) THEN b[i] ELSE c[i - Len(b)]
  BY <1>5, <1>7, <1>8, ConcatProperties, ZenonT(40)
<1>10. Len(d) = Len(a)
  BY <1>1, <1>3, <1>5, <1>7, <1>9
<1>11. ASSUME NEW i \in 1 .. Len(a) PROVE a[i] = d[i]
  <2>1. i \in 1 .. o /\ i \in 1 .. Len(b) + Len(c) /\ i \in Nat
    BY <1>1, <1>3, <1>5, <1>7
  <2>2. CASE i <= k
    BY <1>7, <1>9, <2>1, <2>2, SMTT(30)
  <2>3. CASE ~(i <= k)
    <3>1. i - k \in 1 .. o - k /\ ResetSize - (o - k) + (i - k) = ResetSize - o + i
      BY <1>1, <2>1, <2>3 DEF ResetSize
    <3>2. d[i] = c[i - k]
      BY <1>7, <1>9, <2>1, <2>3
    <3>3. c[i - k] = Converted(0, ResetSize - o + i)
      BY <1>5, <3>1
    <3> QED
      BY <1>3, <2>1, <3>2, <3>3
  <2> QED
    BY <2>2, <2>3
<1>12. a = d
  BY <1>3, <1>9, <1>10, <1>11, SeqEqual
<1> QED
  BY <1>2, <1>4, <1>6, <1>7, <1>8, <1>12

\* What convert() without input comes to.
Flushes(s, r, o, room, u) ==
  /\ u.errno \in Errno /\ u.owed \in 0 .. ResetSize
  /\ u.written \in Seq(OutByte(s)) /\ Len(u.written) <= room
  /\ Resets(o) = u.written \o Resets(u.owed)
  /\ u.errno = "E2BIG" => o > room /\ (u.written = <<>> <=> (r.whole \/ room = 0))
  /\ u.errno # "E2BIG" => o <= room /\ u.errno = r.answer /\ u.written = Resets(o)

\* What convert() without input gives.
LEMMA ResetSays ==
  ASSUME NEW s \in Seq(Byte), NEW o \in 0 .. ResetSize, NEW room \in Nat, NEW r \in Resetting,
         NEW u, u = Reset(o, room, r.whole, r.answer)
  PROVE  Flushes(s, r, o, room, u)
<1>1. r.answer \in Errno /\ r.answer # "E2BIG" /\ r.whole \in BOOLEAN
  BY DEF Resetting
<1>2. CASE o > room
  <2>1. PICK k : k = IF r.whole THEN 0 ELSE room
    OBVIOUS
  <2>2. k \in 0 .. o /\ k \in Nat /\ k <= room
    BY <1>2, <2>1 DEF ResetSize
  <2>3. PICK w : w = SubSeq(Resets(o), 1, k)
    OBVIOUS
  <2>4. /\ u.errno = "E2BIG" /\ u.written = SubSeq(Resets(o), 1, k) /\ u.owed = o - k
    <3>1. u = Unit("E2BIG", 0, w, o - k)
      BY <1>2, <2>1, <2>3, Zenon DEF Reset
    <3>2. u.errno = "E2BIG" /\ u.written = w /\ u.owed = o - k
      BY <3>1 DEF Unit
    <3> QED
      BY <2>3, <3>2
  <2>5. /\ u.written \in Seq(OutByte(s)) /\ Len(u.written) = k
        /\ Resets(o) = u.written \o Resets(u.owed)
    BY <2>2, <2>4, ResetsFallApart
  <2>6. u.written = <<>> <=> k = 0
    BY <2>5, EmptySeq
  <2>7. k = 0 <=> (r.whole \/ room = 0)
    <3>1. CASE r.whole
      BY <2>1, <3>1, Zenon
    <3>2. CASE ~r.whole
      BY <2>1, <3>2, Zenon
    <3> QED
      BY <3>1, <3>2
  <2>8. u.owed \in 0 .. ResetSize
    BY <2>2, <2>4 DEF ResetSize
  <2>9. u.errno \in Errno
    BY <2>4 DEF Errno
  <2> QED
    BY <1>2, <2>2, <2>4, <2>5, <2>6, <2>7, <2>8, <2>9 DEF Flushes
<1>3. CASE ~(o > room)
  <2>1. u = Unit(r.answer, 0, Resets(o), 0)
    BY <1>3, Zenon DEF Reset
  <2>2. u.errno = r.answer /\ u.written = Resets(o) /\ u.owed = 0
    BY <2>1 DEF Unit
  <2>3. o <= room /\ 0 \in 0 .. ResetSize
    BY <1>3 DEF ResetSize
  <2>4. Resets(o) \in Seq(OutByte(s)) /\ Len(Resets(o)) = o
    BY ResetsIs
  <2>5. Resets(0) = <<>>
    BY DEF Resets
  <2>6. Resets(o) \o <<>> = Resets(o)
    BY <2>4, JoinedWithNothing
  <2> QED
    BY <1>1, <2>2, <2>3, <2>4, <2>5, <2>6 DEF Flushes
<1> QED
  BY <1>2, <1>3

\* Read as what the end of the input converts to.
EndSays(big, r, rep, o, room, u) ==
  /\ u.errno = "E2BIG" /\ u.written = <<>> /\ room = big =>
       Ending(big, r, rep, o) = Reported("output_full", rep)
  /\ u.errno = "E2BIG" /\ (u.written # <<>> \/ big = ResetSize) =>
       Ending(big, r, rep, o) = u.written \o Ending(big, r, rep, u.owed)
  /\ u.errno = "ok" => Ending(big, r, rep, o) = u.written
  /\ u.errno \notin {"ok", "E2BIG"} =>
       Ending(big, r, rep, o) = u.written \o Reported(ResetError(u.errno), rep)

\* A flush, read as what the end of the input converts to.
LEMMA FlushSays ==
  ASSUME NEW s \in Seq(Byte), NEW o \in 0 .. ResetSize, NEW room \in Nat, NEW r \in Resetting,
         NEW big, big = room \/ big = ResetSize, NEW rep \in BOOLEAN,
         NEW u, Flushes(s, r, o, room, u)
  PROVE  EndSays(big, r, rep, o, room, u)
<1> DEFINE tail == IF r.answer = "ok" THEN <<>> ELSE Reported(ResetError(r.answer), rep)
           full == o > big /\ (r.whole \/ big = 0)
<1>1. r.answer \in Errno /\ r.answer # "E2BIG" /\ r.whole \in BOOLEAN /\ big \in Nat
  BY DEF Resetting, ResetSize
<1>2. Ending(big, r, rep, o) = IF full THEN Reported("output_full", rep) ELSE Resets(o) \o tail
  BY Zenon DEF Ending
<1>3. /\ u.errno \in Errno /\ u.owed \in 0 .. ResetSize
      /\ u.written \in Seq(OutByte(s)) /\ Len(u.written) <= room
      /\ Resets(o) = u.written \o Resets(u.owed)
      /\ u.errno = "E2BIG" => o > room /\ (u.written = <<>> <=> (r.whole \/ room = 0))
      /\ u.errno # "E2BIG" => o <= room /\ u.errno = r.answer /\ u.written = Resets(o)
  BY DEF Flushes
<1>4. tail \in Seq(Elements(s, rep))
  <2>1. ResetError(r.answer) \in Errors
    BY DEF ResetError, Errors
  <2>2. Reported(ResetError(r.answer), rep) \in Seq(Elements(s, rep)) /\ <<>> \in Seq(Elements(s, rep))
    BY <2>1, ReportedIs
  <2> QED
    BY <2>2, Zenon
<1>5. /\ u.written \in Seq(Elements(s, rep)) /\ Resets(o) \in Seq(Elements(s, rep))
      /\ Resets(u.owed) \in Seq(Elements(s, rep))
  BY <1>3, ResetsIs, BytesAreElements
<1>6. ResetSize # 0 /\ o \in Nat /\ o <= ResetSize /\ u.owed \in Nat /\ u.owed <= ResetSize
  BY <1>3 DEF ResetSize
<1>7. CASE u.errno = "E2BIG"
  <2>1. CASE u.written = <<>> /\ room = big
    <3>1. full
      BY <1>3, <1>7, <2>1, Zenon
    <3>2. Ending(big, r, rep, o) = Reported("output_full", rep)
      BY <1>2, <3>1, Zenon
    <3>3. big # ResetSize
      BY <1>6, <1>3, <1>7, <2>1
    <3> QED
      BY <1>7, <2>1, <3>2, <3>3, Zenon DEF EndSays
  <2>2. CASE u.written # <<>> \/ (big = ResetSize /\ room # big)
    <3>1. ~full /\ ~(u.owed > big /\ (r.whole \/ big = 0))
      <4>1. CASE big = ResetSize
        <5>1. ~(o > big) /\ ~(u.owed > big)
          <6>1. \A i, j \in Nat : i <= j => ~(i > j)
            OBVIOUS
          <6> QED
            BY <1>1, <1>6, <4>1, <6>1, Zenon
        <5> QED
          BY <5>1, Zenon
      <4>2. CASE big # ResetSize
        <5>1. room = big /\ u.written # <<>>
          BY <2>2, <4>2, Zenon
        <5>2. ~(r.whole \/ big = 0)
          BY <1>3, <1>7, <5>1, Zenon
        <5> QED
          BY <5>2, Zenon
      <4> QED
        BY <4>1, <4>2
    <3>2. Ending(big, r, rep, o) = Resets(o) \o tail
      BY <1>2, <3>1, Zenon
    <3>3. Ending(big, r, rep, u.owed) = Resets(u.owed) \o tail
      BY <3>1, Zenon DEF Ending
    <3>4. InTurn(u.written, Resets(u.owed), tail)
      <4> HIDE DEF tail
      <4> QED
        BY <1>4, <1>5, JoinedInTurn
    <3>5. Ending(big, r, rep, o) = u.written \o Ending(big, r, rep, u.owed)
      <4> HIDE DEF tail
      <4> QED
        BY <1>3, <3>2, <3>3, <3>4, Zenon DEF InTurn
    <3>6. ~(u.written = <<>> /\ room = big)
      BY <2>2
    <3> QED
      BY <1>7, <3>5, <3>6, Zenon DEF EndSays
  <2>3. CASE u.written = <<>> /\ room # big /\ big # ResetSize
    BY <2>3
  <2> QED
    BY <2>1, <2>2, <2>3
<1>8. CASE u.errno # "E2BIG"
  <2>1. ~full
    <3>1. o <= room
      BY <1>3, <1>8
    <3>2. ~(o > big)
      BY <1>1, <1>6, <3>1
    <3> QED
      BY <3>2
  <2>2. Ending(big, r, rep, o) = u.written \o tail /\ u.errno = r.answer
    BY <1>2, <1>3, <1>8, <2>1, Zenon
  <2>3. u.errno = "ok" => Ending(big, r, rep, o) = u.written
    <3>1. u.errno = "ok" => tail = <<>>
      BY <2>2, Zenon
    <3>2. u.written \o <<>> = u.written
      BY <1>5, JoinedWithNothing
    <3> QED
      BY <2>2, <3>1, <3>2, Zenon
  <2>4. u.errno # "ok" => tail = Reported(ResetError(u.errno), rep)
    BY <2>2, Zenon
  <2> QED
    BY <1>8, <2>2, <2>3, <2>4, Zenon DEF EndSays
<1> QED
  BY <1>7, <1>8

-----------------------------------------------------------------------------
\* The first m places of a span.
Fronts(p, q, t, m) == SubSeq(Span(p, q), 1, m) = Span(p, t)

LEMMA SpanFront ==
  ASSUME NEW p \in Nat, NEW q \in Nat, p <= q, NEW t \in Nat, p <= t, t <= q, NEW m, m = t - p
  PROVE  Fronts(p, q, t, m)
<1>1. m \in Nat /\ m <= q - p
  OBVIOUS
<1>2. PICK a : a = Span(p, q)
  OBVIOUS
<1>3. a \in Seq(Nat) /\ Len(a) = q - p /\ \A k \in 1 .. q - p : a[k] = p + k
  BY <1>2, SpanIs
<1>4. PICK c : c = Span(p, t)
  OBVIOUS
<1>5. c \in Seq(Nat) /\ Len(c) = m /\ \A k \in 1 .. m : c[k] = p + k
  BY <1>4, SpanIs
<1>6. PICK b : b = SubSeq(a, 1, m)
  OBVIOUS
<1>7. \A i \in 1 .. m : i \in 1 .. q - p /\ a[i] \in Nat
  <2>1. \A i \in 1 .. m : i \in 1 .. q - p /\ p + i \in Nat
    BY <1>1
  <2> QED
    BY <1>3, <2>1
<1>8. 1 \in Int /\ m \in Int /\ (IF 1 <= m THEN m - 1 + 1 ELSE 0) = m /\ m - 1 + 1 = m
  BY <1>1
<1>9. /\ b \in Seq(Nat) /\ Len(b) = IF 1 <= m THEN m - 1 + 1 ELSE 0
      /\ \A i \in 1 .. m - 1 + 1 : b[i] = a[1 + i - 1]
  BY <1>6, <1>7, <1>8, SubSeqProperties
<1>10. \A i \in 1 .. m : 1 + i - 1 = i
  BY <1>1
<1>11. Len(b) = Len(c) /\ \A i \in 1 .. Len(b) : b[i] = c[i]
  BY <1>3, <1>5, <1>7, <1>8, <1>9, <1>10
<1>12. b = c
  BY <1>5, <1>9, <1>11, SeqEqual
<1> QED
  BY <1>2, <1>4, <1>6, <1>12 DEF Fronts

\* Spans that meet.
LEMMA SpanJoined ==
  ASSUME NEW p \in Nat, NEW q \in Nat, p <= q, NEW t \in Nat, q <= t
  PROVE  Span(p, q) \o Span(q, t) = Span(p, t)
<1>1. PICK a : a = Span(p, q)
  OBVIOUS
<1>2. a \in Seq(Nat) /\ Len(a) = q - p /\ \A k \in 1 .. q - p : a[k] = p + k
  BY <1>1, SpanIs
<1>3. PICK b : b = Span(q, t)
  OBVIOUS
<1>4. b \in Seq(Nat) /\ Len(b) = t - q /\ \A k \in 1 .. t - q : b[k] = q + k
  BY <1>3, SpanIs
<1>5. PICK c : c = Span(p, t)
  OBVIOUS
<1>6. p <= t
  OBVIOUS
<1>7. c \in Seq(Nat) /\ Len(c) = t - p /\ \A k \in 1 .. t - p : c[k] = p + k
  BY <1>5, <1>6, SpanIs
<1>8. PICK d : d = a \o b
  OBVIOUS
<1>9. /\ d \in Seq(Nat) /\ Len(d) = Len(a) + Len(b)
      /\ \A i \in 1 .. Len(a) + Len(b) : d[i] = IF i <= Len(a) THEN a[i] ELSE b[i - Len(a)]
  BY <1>2, <1>4, <1>8, ConcatProperties, ZenonT(40)
<1>10. Len(d) = Len(c)
  BY <1>2, <1>4, <1>7, <1>9
<1>11. ASSUME NEW i \in 1 .. Len(c) PROVE d[i] = c[i]
  <2>1. i \in Nat /\ i \in 1 .. Len(a) + Len(b) /\ c[i] = p + i
    BY <1>2, <1>4, <1>7
  <2>2. CASE i <= Len(a)
    <3>1. i \in 1 .. q - p
      BY <1>2, <2>1, <2>2
    <3> QED
      BY <1>2, <1>9, <2>1, <2>2, <3>1
  <2>3. CASE ~(i <= Len(a))
    <3>1. i - Len(a) \in 1 .. t - q /\ q + (i - Len(a)) = p + i
      BY <1>2, <1>4, <2>1, <2>3
    <3>2. d[i] = b[i - Len(a)]
      BY <1>9, <2>1, <2>3
    <3> QED
      BY <1>4, <2>1, <3>1, <3>2
  <2> QED
    BY <2>2, <2>3
<1>12. d = c
  BY <1>7, <1>9, <1>10, <1>11, SeqEqual
<1> QED
  BY <1>1, <1>3, <1>5, <1>8, <1>12

\* A span of nothing.
LEMMA SpanEmpty ==
  ASSUME NEW p \in Nat
  PROVE  Span(p, p) = <<>>
<1>1. p - p = 0
  OBVIOUS
<1> QED
  BY <1>1 DEF Span

\* A span without its first place.
LEMMA SpanTail ==
  ASSUME NEW p \in Nat, NEW q \in Nat, p < q
  PROVE  Tail(Span(p, q)) = Span(p + 1, q)
<1>1. 1 \in Nat /\ 1 <= q - p /\ p <= q
  OBVIOUS
<1>2. Span(p, q) \in Seq(Nat) /\ Len(Span(p, q)) = q - p
  BY <1>1, SpanIs
<1>3. SubSeq(Span(p, q), 2, q - p) = Span(p + 1, q)
  <2>1. SubSeq(Span(p, q), 1 + 1, q - p) = Span(p + 1, q)
    BY <1>1, SpanOfSpan
  <2>2. 1 + 1 = 2
    OBVIOUS
  <2> QED
    BY <2>1, <2>2
<1>4. Tail(Span(p, q)) = SubSeq(Span(p, q), 2, Len(Span(p, q)))
  <2>1. Span(p, q) # <<>>
    BY <1>1, <1>2, EmptySeq
  <2> QED
    BY <1>2, <2>1, TailIsSubSeq
<1> QED
  BY <1>2, <1>3, <1>4

\* Staged places, and as many of those behind them as there is room for.
JoinsOn(n, c, q, t, m) == Span(n, c) \o SubSeq(Span(c, q), 1, m) = Span(n, t)

\* SpanJoined, of what is staged and the front of what comes behind.
LEMMA SpanBatch ==
  ASSUME NEW n \in Nat, NEW c \in Nat, n <= c, NEW q \in Nat, c <= q,
         NEW t \in Nat, c <= t, t <= q, NEW m, m = t - c
  PROVE  JoinsOn(n, c, q, t, m)
<1>1. Fronts(c, q, t, m)
  BY SpanFront
<1>2. Span(n, c) \o Span(c, t) = Span(n, t)
  BY SpanJoined
<1> QED
  BY <1>1, <1>2 DEF Fronts, JoinsOn

-----------------------------------------------------------------------------
\* Where the iterator is in the input: before what is staged.
Place == current - Len(staging)

\* staging has the places just before current, no more than it has room for.
Staged ==
  /\ input \in Seq(Byte) /\ current \in 0 .. Len(input) /\ owed \in 0 .. ResetSize
  /\ Len(staging) <= StagingSize
  /\ Place \in Nat /\ staging = Span(Place, current)

\* The same for where a call of convert() leaves it.
MovedTo(n) ==
  /\ current' \in 0 .. Len(input)
  /\ Len(staging') <= StagingSize
  /\ current' - Len(staging') = n /\ staging' = Span(n, current')

\* The numbers in Staged, for the lemmas that need them.
LEMMA StagedIs ==
  ASSUME Staged
  PROVE  /\ Len(input) \in Nat /\ current \in Nat /\ current <= Len(input)
         /\ Place \in Nat /\ Place <= current /\ Len(staging) = current - Place
         /\ Len(staging) \in Nat
         /\ Rest = Span(current, Len(input))
         /\ staging = <<>> <=> Place = current
<1>1. Len(input) \in Nat
  BY LenProperties DEF Staged
<1>2. current \in Nat /\ current <= Len(input)
  BY <1>1 DEF Staged
<1>3. PICK n : n = Place
  OBVIOUS
<1>4. n \in Nat /\ staging = Span(n, current) /\ n = current - Len(staging)
  BY <1>3 DEF Staged, Place
<1>5. n <= current
  <2>1. SUFFICES ASSUME n > current PROVE FALSE
    BY <1>2, <1>4
  <2>2. 1 .. current - n = {}
    BY <1>2, <1>4, <2>1
  <2>3. Span(n, current) = <<>>
    BY <2>2 DEF Span
  <2> QED
    BY <1>2, <1>4, <2>1, <2>3
<1>6. Len(staging) = current - n /\ staging \in Seq(Nat)
  BY <1>2, <1>4, <1>5, SpanIs
<1>7. staging = <<>> <=> n = current
  <2>1. staging = <<>> <=> Len(staging) = 0
    BY <1>6, EmptySeq
  <2> QED
    BY <1>2, <1>4, <1>6, <2>1
<1>8. Rest = Span(current, Len(input))
  BY DEF Rest, Span
<1> QED
  BY <1>1, <1>2, <1>3, <1>4, <1>5, <1>6, <1>7, <1>8

\* The batch is what comes next of the input.
LEMMA BatchIs ==
  ASSUME Staged
  PROVE  /\ Taken \in Nat /\ current <= Taken /\ Taken <= Len(input)
         /\ Batch = Span(Place, Taken) /\ Len(Batch) = Taken - Place
         /\ Straight => staging = <<>> /\ Taken = Len(input)
         /\ ~Straight => Len(Batch) <= StagingSize
         /\ ~Straight /\ Taken # Len(input) => Len(Batch) = StagingSize
         /\ Batch = <<>> <=> Place = Len(input)
<1>1. /\ Len(input) \in Nat /\ current \in Nat /\ current <= Len(input)
      /\ Place \in Nat /\ Place <= current /\ Len(staging) = current - Place
      /\ Len(staging) \in Nat
      /\ Rest = Span(current, Len(input))
      /\ staging = <<>> <=> Place = current
  BY StagedIs
<1>2. StagingSize \in Nat /\ StagingSize # 0 /\ Len(staging) <= StagingSize
  BY StagingAssumption DEF Staged
<1>3. Len(Rest) = Len(input) - current
  BY <1>1, SpanIs
<1>4. CASE Straight
  <2>1. staging = <<>> /\ current < Len(input) /\ Place = current
    BY <1>1, <1>4, Zenon DEF Straight
  <2>2. Batch = Span(Place, Len(input))
    BY <1>1, <1>4, <2>1, Zenon DEF Batch
  <2>3. Len(Batch) = Len(input) - Place
    BY <1>1, <2>1, <2>2, SpanIs
  <2>4. Len(staging) = 0
    BY <1>1, <2>1
  <2>5. Taken = Len(input)
    <3>1. Taken = current + (Len(input) - Place) - 0
      BY <2>3, <2>4 DEF Taken
    <3> QED
      BY <1>1, <2>1, <3>1
  <2>6. Batch # <<>>
    <3>1. Len(Batch) # 0
      BY <1>1, <2>1, <2>3
    <3> QED
      BY <3>1
  <2> QED
    BY <1>1, <1>4, <2>1, <2>2, <2>3, <2>5, <2>6
<1>5. CASE ~Straight
  <2>1. PICK m : m = IF Room < Len(Rest) THEN Room ELSE Len(Rest)
    OBVIOUS
  <2>2. Room = StagingSize - Len(staging)
    BY DEF Room
  <2>3. m \in Nat /\ m <= Len(input) - current /\ m <= StagingSize - Len(staging)
        /\ (m # Len(input) - current => m = StagingSize - Len(staging))
    BY <1>1, <1>2, <1>3, <2>1, <2>2
  <2>4. PICK t : t = current + m
    OBVIOUS
  <2>5. t \in Nat /\ current <= t /\ t <= Len(input) /\ m = t - current
    BY <1>1, <2>3, <2>4
  <2>6. Batch = staging \o SubSeq(Rest, 1, m)
    BY <1>5, <2>1, Zenon DEF Batch
  <2>7. staging = Span(Place, current)
    BY DEF Staged
  <2>8. Span(Place, current) \o SubSeq(Span(current, Len(input)), 1, m) = Span(Place, t)
    <3>1. PICK n, c, q : n = Place /\ c = current /\ q = Len(input)
      OBVIOUS
    <3>2. n \in Nat /\ c \in Nat /\ q \in Nat /\ n <= c /\ c <= q
      BY <1>1, <3>1
    <3>3. t \in Nat /\ c <= t /\ t <= q /\ m = t - c
      BY <2>5, <3>1
    <3>4. JoinsOn(n, c, q, t, m)
      BY <3>2, <3>3, SpanBatch
    <3> QED
      BY <3>1, <3>4 DEF JoinsOn
  <2>9. Batch = Span(Place, t)
    BY <1>1, <2>6, <2>7, <2>8, Zenon
  <2>10. Len(Batch) = t - Place
    <3>1. Place \in Nat /\ Place <= t
      BY <1>1, <2>5
    <3> QED
      BY <2>5, <2>9, <3>1, SpanIs
  <2>11. Taken = t
    <3>1. Taken = current + (t - Place) - (current - Place)
      BY <1>1, <2>10 DEF Taken
    <3> QED
      BY <1>1, <2>5, <3>1
  <2>12. Len(Batch) <= StagingSize /\ (t # Len(input) => Len(Batch) = StagingSize)
    BY <1>1, <1>2, <2>3, <2>4, <2>5, <2>10
  <2>13. Batch = <<>> <=> Place = Len(input)
    <3>1. Batch = <<>> => Len(Batch) = 0
      OBVIOUS
    <3>2. Len(Batch) = 0 => Place = Len(input)
      BY <1>1, <1>2, <2>5, <2>10, <2>12
    <3>3. Place = Len(input) => Place = t
      BY <1>1, <2>5
    <3>4. Place = t => Batch = <<>>
      BY <1>1, <2>9, SpanEmpty
    <3> QED
      BY <3>1, <3>2, <3>3, <3>4
  <2> QED
    BY <1>5, <2>5, <2>9, <2>10, <2>11, <2>12, <2>13
<1> QED
  BY <1>4, <1>5

\* What is kept of the batch is what comes next of the input.
LEMMA StageMoves ==
  ASSUME Staged, NEW n \in Nat, Place <= n, n <= Taken, Taken - n <= StagingSize,
         Stage(Span(n, Taken))
  PROVE  MovedTo(n)
<1>1. Taken \in Nat /\ Taken <= Len(input) /\ Len(input) \in Nat
  BY BatchIs, StagedIs
<1>2. current' = Taken /\ staging' = Span(n, Taken)
  BY DEF Stage
<1>3. Len(staging') = Taken - n
  BY <1>1, <1>2, SpanIs
<1>4. current' \in 0 .. Len(input) /\ Len(staging') <= StagingSize /\ current' - Len(staging') = n
  BY <1>1, <1>2, <1>3
<1> QED
  BY <1>2, <1>4 DEF MovedTo

\* What is kept in the range or in staging, the same.
LEMMA KeepMoves ==
  ASSUME Staged, NEW n \in Nat, Place <= n, n <= Taken, Keep(Span(n, Taken))
  PROVE  MovedTo(n)
<1>1. /\ Taken \in Nat /\ Taken <= Len(input) /\ Len(input) \in Nat /\ Place \in Nat
      /\ Len(Batch) = Taken - Place
      /\ Straight => staging = <<>>
      /\ ~Straight => Len(Batch) <= StagingSize
  BY BatchIs, StagedIs
<1>2. StagingSize \in Nat
  BY StagingAssumption
<1>3. CASE Straight
  <2>1. current' = Taken - Len(Span(n, Taken)) /\ staging' = staging
    BY <1>3, Zenon DEF Keep
  <2>2. current' = n
    BY <1>1, <2>1, SpanIs
  <2>3. staging' = <<>> /\ Len(staging') = 0
    BY <1>1, <1>3, <2>1
  <2>4. Span(n, n) = <<>>
    BY SpanEmpty
  <2>5. current' \in 0 .. Len(input) /\ Len(staging') <= StagingSize /\ current' - Len(staging') = n
    BY <1>1, <1>2, <2>2, <2>3
  <2> QED
    BY <2>2, <2>3, <2>4, <2>5 DEF MovedTo
<1>4. CASE ~Straight
  <2>1. Stage(Span(n, Taken))
    BY <1>4, Zenon DEF Keep, Stage
  <2>2. Taken - n <= StagingSize
    BY <1>1, <1>2, <1>4
  <2> QED
    BY <2>1, <2>2, StageMoves
<1> QED
  BY <1>3, <1>4

\* Such a move leaves it staged.
LEMMA MovedStaged ==
  ASSUME Staged, NEW n \in Nat, MovedTo(n), owed' \in 0 .. ResetSize, input' = input
  PROVE  Staged' /\ Place' = n
BY DEF Staged, MovedTo, Place

-----------------------------------------------------------------------------
\* A call of convert() by a view, at place n when it stops.
Stepped(f, rep, n) ==
  /\ n \in Nat /\ Place <= n /\ n <= Taken
  /\ Written \in Seq(OutByte(input)) /\ Len(Written) <= size - Len(buffer)
  /\ Step.owed \in 0 .. ResetSize
  /\ f[Place][owed] = Written \o f[n][Step.owed]
  /\ f[n][Step.owed] \in Seq(Elements(input, rep))
  /\ Left = Span(n, Taken)
  /\ n < Taken => Tail(Left) = Span(n + 1, Taken)
  /\ Written = <<>> => \A k \in Place + 1 .. n : input[k] \in Escapes
  /\ Says(f, input, size, reset, rep, Taken, size - Len(buffer), n, Step)

\* A call of convert() by a view is one, whatever batch it converts.
LEMMA StepSays ==
  ASSUME Staged, reset \in Resetting, size \in Nat,
         buffer \in Seq(OutByte(input)), Len(buffer) <= size, NEW rep \in BOOLEAN,
         NEW f, f = From(input, size, reset, rep)
  PROVE  \E n : Stepped(f, rep, n)
<1>1. /\ Len(input) \in Nat /\ Place \in Nat /\ Taken \in Nat /\ Place <= Taken
      /\ Taken <= Len(input) /\ Batch = Span(Place, Taken) /\ Len(Batch) = Taken - Place
  <2>1. /\ Len(input) \in Nat /\ current \in Nat /\ Place \in Nat /\ Place <= current
    BY StagedIs
  <2>2. Taken \in Nat /\ current <= Taken /\ Taken <= Len(input) /\ Batch = Span(Place, Taken)
        /\ Len(Batch) = Taken - Place
    BY BatchIs
  <2> QED
    BY <2>1, <2>2
<1>2. input \in Seq(Byte) /\ owed \in 0 .. ResetSize
  BY DEF Staged
<1>3. size - Len(buffer) \in Nat /\ size - Len(buffer) <= size
  <2>1. Len(buffer) \in Nat
    BY LenProperties
  <2> QED
    BY <2>1
<1>4. PICK p, q, room : p = Place /\ q = Taken /\ room = size - Len(buffer)
  OBVIOUS
<1>5. PICK c : c = Step
  OBVIOUS
<1>6. c = Convert(input, Span(p, q), owed, room)
  BY <1>1, <1>4, <1>5 DEF Step
<1>7. /\ p \in Nat /\ q \in Nat /\ p <= q /\ q <= Len(input)
      /\ room \in Nat /\ room <= size
  BY <1>1, <1>3, <1>4
<1>8. Good(f, input, p, q, owed, room, c) /\ Stops(input, p, q, room, c)
  BY <1>2, <1>6, <1>7, ConvertSays
<1>9. PICK n : n = p + c.used
  OBVIOUS
<1>10. Says(f, input, size, reset, rep, q, room, n, c)
  BY <1>2, <1>7, <1>8, <1>9, StopSays
<1>11. /\ c.written \in Seq(OutByte(input)) /\ Len(c.written) <= room
       /\ c.owed \in 0 .. ResetSize
       /\ c.used \in Nat /\ n <= q
       /\ f[p][owed] = c.written \o f[n][c.owed]
       /\ c.written = <<>> => \A k \in p + 1 .. n : input[k] \in Escapes
  BY <1>8, <1>9 DEF Good
<1>12. n \in Nat /\ p <= n /\ c.used <= q - p /\ n \in 0 .. Len(input)
  <2>1. Len(input) \in Nat
    BY <1>2, LenProperties
  <2>2. \A i \in Nat : p + i <= q =>
          p + i \in Nat /\ p <= p + i /\ i <= q - p /\ p + i \in 0 .. Len(input)
    BY <1>7, <2>1
  <2> QED
    BY <1>9, <1>11, <2>2, Zenon
<1>13. Left = Span(n, q)
  <2>1. Left = SubSeq(Span(p, q), c.used + 1, q - p)
    BY <1>1, <1>4, <1>5 DEF Left
  <2>2. SubSeq(Span(p, q), c.used + 1, q - p) = Span(p + c.used, q)
    BY <1>7, <1>11, <1>12, SpanOfSpan
  <2> QED
    BY <1>9, <2>1, <2>2
<1>14. n < q => Tail(Left) = Span(n + 1, q)
  BY <1>7, <1>12, <1>13, SpanTail
<1>15. f[n][c.owed] \in Seq(Elements(input, rep))
  BY <1>2, <1>11, <1>12, FromTyped
<1>16. Stepped(f, rep, n)
  BY <1>4, <1>5, <1>10, <1>11, <1>12, <1>13, <1>14, <1>15, Zenon DEF Stepped, Written
<1> QED
  BY <1>16

\* The flush of a view.
LEMMA ViewFlushSays ==
  ASSUME Staged, reset \in Resetting, size \in Nat, NEW rep \in BOOLEAN
  PROVE  /\ Flushes(input, reset, owed, size, Flush)
         /\ EndSays(size, reset, rep, owed, size, Flush)
<1>1. input \in Seq(Byte) /\ owed \in 0 .. ResetSize
  BY DEF Staged
<1>2. PICK u : u = Flush
  OBVIOUS
<1>3. u = Reset(owed, size, reset.whole, reset.answer)
  BY <1>2 DEF Flush
<1>4. Flushes(input, reset, owed, size, u)
  BY <1>1, <1>3, ResetSays
<1>5. EndSays(size, reset, rep, owed, size, u)
  BY <1>1, <1>4, FlushSays
<1> QED
  BY <1>2, <1>4, <1>5

-----------------------------------------------------------------------------
\* iconv_transcode_or_error has the converter, the batch and the flush of IconvBatch.
LEMMA SameBatchOrError ==
  /\ OrError!Batch = Batch /\ OrError!Taken = Taken /\ OrError!Step = Step
  /\ OrError!Written = Written /\ OrError!Left = Left /\ OrError!Flush = Flush
  /\ \A left : OrError!Keep(left) <=> Keep(left)
  /\ \A left : OrError!Stage(left) <=> Stage(left)
  /\ \A e : OrError!Failed(e) = Failed(e) /\ OrError!ResetError(e) = ResetError(e)
<1>1. OrError!Straight = Straight /\ OrError!Rest = Rest /\ OrError!Room = Room
  BY DEF OrError!Straight, OrError!Rest, OrError!Room, Straight, Rest, Room
<1>2. OrError!Batch = Batch
  BY <1>1 DEF OrError!Batch, Batch
<1>3. OrError!Taken = Taken
  BY <1>2 DEF OrError!Taken, Taken
<1>4. ASSUME NEW a, NEW b, NEW c, NEW d
      PROVE  OrError!Convert(a, b, c, d) = Convert(a, b, c, d)
  BY DEF OrError!Convert, Convert, OrError!Units, Units, OrError!Onward, Onward,
         OrError!Leading, Leading, OrError!Unit, Unit, OrError!Converted, Converted,
         OrError!ResetSize, ResetSize
<1>5. OrError!Step = Step
  BY <1>2, <1>4 DEF OrError!Step, Step
<1>6. OrError!Written = Written /\ OrError!Left = Left
  BY <1>2, <1>5 DEF OrError!Written, Written, OrError!Left, Left
<1>7. ASSUME NEW a, NEW b, NEW c, NEW d
      PROVE  OrError!Reset(a, b, c, d) = Reset(a, b, c, d)
  BY DEF OrError!Reset, Reset, OrError!Unit, Unit, OrError!Resets, Resets,
         OrError!ResetSize, ResetSize
<1>8. OrError!Flush = Flush
  BY <1>7 DEF OrError!Flush, Flush
<1>9. ASSUME NEW left PROVE OrError!Keep(left) <=> Keep(left)
  BY <1>1, <1>3 DEF OrError!Keep, Keep
<1>10. ASSUME NEW left PROVE OrError!Stage(left) <=> Stage(left)
  BY <1>3 DEF OrError!Stage, Stage
<1>11. ASSUME NEW e PROVE OrError!Failed(e) = Failed(e) /\ OrError!ResetError(e) = ResetError(e)
  BY DEF OrError!Failed, Failed, OrError!ResetError, ResetError
<1> QED
  BY <1>2, <1>3, <1>5, <1>6, <1>8, <1>9, <1>10, <1>11

-----------------------------------------------------------------------------
\* Fewer escapes in a row than staging_ holds, and one byte less.
FewEscapes ==
  \A k \in 0 .. Len(input) :
    k + StagingSize <= Len(input) + 1 =>
      \E j \in k + 1 .. k + StagingSize - 1 : input[j] \notin Escapes

\* What an iterator of iconv_transcode_or_error has to read, and what is to
\* come of the conversion behind it.
Shown == IF error # OrError!None THEN <<Failed(error)>> ELSE buffer

\* What is behind it: nothing after the end, the error put off, nothing after
\* the flush, or what follows the place it is at.
ToCome(f) ==
  IF done \/ terminal THEN <<>>
  ELSE IF pending # OrError!None THEN <<Failed(pending)>>
  ELSE IF flush_state = "done" THEN <<>> ELSE f[Place][owed]

\* The conversion it reads.
OrErrorFrom == From(input, size, reset, TRUE)

\* The invariant of iconv_transcode_or_error, in four parts.
OrErrorTypes ==
  /\ Staged /\ reset \in Resetting /\ size \in Nat
  /\ buffer \in Seq(OutByte(input)) /\ Len(buffer) <= size
  /\ out \in Seq(Elem(input))
  /\ error \in {OrError!None} \cup Errors
  /\ pending \in {OrError!None} \cup Errors
  /\ flush_state \in {"not_started", "in_progress", "done"}
  /\ loading \in BOOLEAN /\ terminal \in BOOLEAN /\ done \in BOOLEAN

OrErrorShape ==
  /\ loading => error = OrError!None /\ ~terminal /\ ~done /\ buffer = <<>>
  /\ error # OrError!None => buffer = <<>>
  /\ done => buffer = <<>> /\ error = OrError!None
  /\ terminal => done \/ error # OrError!None
  /\ flush_state # "not_started" => Place = Len(input)

\* What has been read, what is shown and what is to come are the conversion.
OrErrorPromise == out \o (Shown \o ToCome(OrErrorFrom)) = Converts(size, TRUE)

\* There is something to read, if no batch can be all escapes.
OrErrorReads == FewEscapes /\ ~loading /\ ~done => error # OrError!None \/ buffer # <<>>

OrErrorInv == OrErrorTypes /\ OrErrorShape /\ OrErrorPromise /\ OrErrorReads

\* What is to come is among the elements.
LEMMA ToComeTyped ==
  ASSUME OrErrorTypes, NEW f, f = OrErrorFrom
  PROVE  f[Place][owed] \in Seq(Elem(input)) /\ ToCome(f) \in Seq(Elem(input))
<1>1. f[Place][owed] \in Seq(Elem(input))
  <2>1. input \in Seq(Byte) /\ owed \in 0 .. ResetSize /\ Place \in 0 .. Len(input)
    <3>1. Staged
      BY DEF OrErrorTypes
    <3>2. Len(input) \in Nat /\ current <= Len(input) /\ Place <= current /\ Place \in Nat
          /\ current \in Nat
      BY <3>1, StagedIs
    <3> QED
      BY <3>1, <3>2 DEF Staged
  <2>2. size \in Nat /\ reset \in Resetting
    BY DEF OrErrorTypes
  <2>3. f[Place][owed] \in Seq(Elements(input, TRUE))
    BY <2>1, <2>2, FromTyped DEF OrErrorFrom
  <2> QED
    BY <2>3, Zenon DEF Elements
<1>2. CASE done \/ terminal
  <2>1. ToCome(f) = <<>>
    BY <1>2, Zenon DEF ToCome
  <2> QED
    BY <1>1, <2>1
<1>3. CASE ~(done \/ terminal) /\ pending # OrError!None
  <2>1. pending \in Errors
    BY <1>3 DEF OrErrorTypes
  <2>2. Failed(pending) \in Elem(input)
    BY <2>1, Zenon DEF Elem
  <2>3. PICK w : w = Failed(pending)
    OBVIOUS
  <2>4. ToCome(f) = <<w>>
    BY <1>3, <2>3, Zenon DEF ToCome
  <2>5. <<w>> \in Seq(Elem(input))
    BY <2>2, <2>3
  <2> QED
    BY <1>1, <2>4, <2>5
<1>4. CASE ~(done \/ terminal) /\ pending = OrError!None
  <2>1. ToCome(f) = <<>> \/ ToCome(f) = f[Place][owed]
    BY <1>4, Zenon DEF ToCome
  <2>2. <<>> \in Seq(Elem(input))
    OBVIOUS
  <2> QED
    BY <1>1, <2>1, <2>2, Zenon
<1> QED
  BY <1>2, <1>3, <1>4

\* What an iterator in load() is to make is all that is to come.
LEMMA LoadingIs ==
  ASSUME OrErrorInv, loading, NEW f, f = OrErrorFrom
  PROVE  /\ error = OrError!None /\ ~terminal /\ ~done /\ buffer = <<>>
         /\ size - Len(buffer) = size
         /\ f[Place][owed] \in Seq(Elem(input))
         /\ ToCome(f) \in Seq(Elem(input))
         /\ Shown \o ToCome(f) = ToCome(f)
         /\ pending # OrError!None => ToCome(f) = <<Failed(pending)>>
         /\ pending = OrError!None /\ flush_state = "done" => ToCome(f) = <<>>
         /\ pending = OrError!None /\ flush_state # "done" => ToCome(f) = f[Place][owed]
<1>1. error = OrError!None /\ ~terminal /\ ~done /\ buffer = <<>>
  BY DEF OrErrorInv, OrErrorShape
<1>2. /\ pending # OrError!None => ToCome(f) = <<Failed(pending)>>
      /\ pending = OrError!None /\ flush_state = "done" => ToCome(f) = <<>>
      /\ pending = OrError!None /\ flush_state # "done" => ToCome(f) = f[Place][owed]
  BY <1>1, Zenon DEF ToCome
<1>3. f[Place][owed] \in Seq(Elem(input)) /\ ToCome(f) \in Seq(Elem(input))
  BY ToComeTyped DEF OrErrorInv
<1>4. Shown \o ToCome(f) = ToCome(f)
  <2>1. Shown = <<>>
    BY <1>1, Zenon DEF Shown
  <2> QED
    BY <1>3, <2>1
<1>5. size - Len(buffer) = size
  BY <1>1 DEF OrErrorInv, OrErrorTypes
<1> QED
  BY <1>1, <1>2, <1>3, <1>4, <1>5

\* A load() that keeps what is to come keeps the invariant.
LEMMA OrErrorReturns ==
  ASSUME OrErrorInv, loading, UNCHANGED OrError!given, out' = out, Staged',
         buffer' \in Seq(OutByte(input)), Len(buffer') <= size,
         error' \in {OrError!None} \cup Errors,
         pending' \in {OrError!None} \cup Errors,
         flush_state' \in {"not_started", "in_progress", "done"},
         loading' \in BOOLEAN, terminal' \in BOOLEAN, done' \in BOOLEAN,
         OrErrorShape', OrErrorReads',
         NEW f, f = OrErrorFrom, Shown' \o ToCome(f)' = ToCome(f)
  PROVE  OrErrorInv'
<1>1. input' = input /\ size' = size /\ opens' = opens /\ reset' = reset
  BY DEF OrError!given
<1>2. OrErrorTypes'
  BY <1>1, Zenon DEF OrErrorInv, OrErrorTypes
<1>3. OrErrorPromise'
  <2>1. OrErrorFrom' = f
    BY <1>1 DEF OrErrorFrom
  <2>2. Converts(size, TRUE)' = Converts(size, TRUE)
    BY <1>1 DEF Converts
  <2>3. Shown' \o ToCome(f)' = Shown \o ToCome(f)
    BY LoadingIs
  <2>4. out \o (Shown \o ToCome(f)) = Converts(size, TRUE)
    BY DEF OrErrorInv, OrErrorPromise
  <2>5. ToCome(OrErrorFrom)' = ToCome(f)'
    BY <2>1 DEF ToCome
  <2>6. (out \o (Shown \o ToCome(OrErrorFrom)))' = out \o (Shown \o ToCome(f))
    BY <2>3, <2>5, Zenon
  <2> QED
    BY <2>2, <2>4, <2>6, Zenon DEF OrErrorPromise
<1> QED
  BY <1>2, <1>3 DEF OrErrorInv

\* load() returns with output.
LEMMA OrErrorYields ==
  ASSUME OrErrorInv, loading, UNCHANGED OrError!given, out' = out, Staged',
         NEW bytes \in Seq(OutByte(input)), Len(bytes) <= size, OrError!Yield(bytes),
         pending' \in {OrError!None} \cup Errors,
         flush_state' \in {"not_started", "in_progress", "done"},
         flush_state' # "not_started" => Place' = Len(input),
         FewEscapes => bytes # <<>>,
         NEW f, f = OrErrorFrom, NEW x, ToCome(f) = bytes \o x,
         pending' # OrError!None => x = <<Failed(pending')>>,
         pending' = OrError!None /\ flush_state' = "done" => x = <<>>,
         pending' = OrError!None /\ flush_state' # "done" => x = f[Place'][owed']
  PROVE  OrErrorInv'
<1>1. input' = input /\ size' = size /\ opens' = opens /\ reset' = reset
  BY DEF OrError!given
<1>2. buffer' = bytes /\ ~loading' /\ error' = error /\ terminal' = terminal /\ done' = done
      /\ loading' = FALSE
  BY DEF OrError!Yield
<1>3. error = OrError!None /\ ~terminal /\ ~done
  BY LoadingIs
<1>4. OrErrorShape'
  BY <1>1, <1>2, <1>3, Zenon DEF OrErrorShape
<1>5. FewEscapes' = FewEscapes
  BY <1>1, Zenon DEF FewEscapes
<1>6. OrErrorReads'
  BY <1>2, <1>5, Zenon DEF OrErrorReads
<1>7. Shown' = bytes
  BY <1>2, <1>3, Zenon DEF Shown
<1>8. ToCome(f)' = x
  BY <1>2, <1>3, Zenon DEF ToCome
<1>9. loading' \in BOOLEAN /\ terminal' \in BOOLEAN /\ done' \in BOOLEAN
      /\ error' \in {OrError!None} \cup Errors
  BY <1>2, Zenon DEF OrErrorInv, OrErrorTypes
<1> QED
  BY <1>2, <1>4, <1>6, <1>7, <1>8, <1>9, OrErrorReturns

\* load() returns with an error.
LEMMA OrErrorReports ==
  ASSUME OrErrorInv, loading, UNCHANGED OrError!given, out' = out, Staged',
         NEW e \in Errors, NEW last \in BOOLEAN, OrError!Report(e, last),
         pending' \in {OrError!None} \cup Errors,
         flush_state' \in {"not_started", "in_progress", "done"},
         flush_state' # "not_started" => Place' = Len(input),
         NEW f, f = OrErrorFrom, NEW x, ToCome(f) = <<Failed(e)>> \o x,
         last => x = <<>>,
         ~last => pending' = OrError!None /\ flush_state' # "done" /\ x = f[Place'][owed']
  PROVE  OrErrorInv'
<1>1. input' = input /\ size' = size /\ opens' = opens /\ reset' = reset
  BY DEF OrError!given
<1>2. error' = e /\ terminal' = last /\ buffer' = <<>> /\ ~loading' /\ done' = done
      /\ loading' = FALSE
  BY DEF OrError!Report
<1>3. error = OrError!None /\ ~terminal /\ ~done
  BY LoadingIs
<1>4. e # OrError!None
  BY DEF OrError!None, Errors
<1>5. OrErrorShape'
  BY <1>1, <1>2, <1>3, <1>4, Zenon DEF OrErrorShape
<1>6. OrErrorReads'
  BY <1>2, <1>4, Zenon DEF OrErrorReads
<1>7. Shown' = <<Failed(e)>>
  BY <1>2, <1>4, Zenon DEF Shown
<1>8. ToCome(f)' = x
  BY <1>2, <1>3, Zenon DEF ToCome
<1>9. loading' \in BOOLEAN /\ terminal' \in BOOLEAN /\ done' \in BOOLEAN
      /\ error' \in {OrError!None} \cup Errors
  BY <1>2, Zenon DEF OrErrorInv, OrErrorTypes
<1>10. buffer' \in Seq(OutByte(input)) /\ Len(buffer') <= size
  BY <1>2 DEF OrErrorInv, OrErrorTypes
<1> QED
  BY <1>2, <1>5, <1>6, <1>7, <1>8, <1>9, <1>10, OrErrorReturns

\* load() ends the range.
LEMMA OrErrorEnds ==
  ASSUME OrErrorInv, loading, UNCHANGED OrError!given, out' = out, Staged',
         OrError!End, buffer' = <<>>,
         pending' \in {OrError!None} \cup Errors,
         flush_state' \in {"not_started", "in_progress", "done"},
         flush_state' # "not_started" => Place' = Len(input),
         NEW f, f = OrErrorFrom, ToCome(f) = <<>>
  PROVE  OrErrorInv'
<1>1. input' = input /\ size' = size /\ opens' = opens /\ reset' = reset
  BY DEF OrError!given
<1>2. done' = TRUE /\ loading' = FALSE /\ error' = error /\ terminal' = terminal
  BY DEF OrError!End
<1>3. error = OrError!None /\ ~terminal /\ ~done
  BY LoadingIs
<1>4. OrErrorShape'
  BY <1>1, <1>2, <1>3, Zenon DEF OrErrorShape
<1>5. OrErrorReads'
  BY <1>2, Zenon DEF OrErrorReads
<1>6. Shown' = <<>>
  BY <1>2, <1>3, Zenon DEF Shown
<1>7. ToCome(f)' = <<>>
  BY <1>2, Zenon DEF ToCome
<1>8. Shown' \o ToCome(f)' = ToCome(f)
  BY <1>6, <1>7
<1>9. loading' \in BOOLEAN /\ terminal' \in BOOLEAN /\ done' \in BOOLEAN
      /\ error' \in {OrError!None} \cup Errors
  BY <1>2, Zenon DEF OrErrorInv, OrErrorTypes
<1>10. buffer' \in Seq(OutByte(input)) /\ Len(buffer') <= size
  BY DEF OrErrorInv, OrErrorTypes
<1> QED
  BY <1>2, <1>4, <1>5, <1>8, <1>9, <1>10, OrErrorReturns

-----------------------------------------------------------------------------
\* A load() of iconv_transcode_or_error that converts a batch, up to n.
Turned(f, n) ==
  /\ loading /\ pending = OrError!None /\ flush_state = "not_started"
  /\ flush_state' = flush_state
  /\ UNCHANGED OrError!given /\ out' = out /\ input' = input
  /\ owed' = Step.owed /\ owed' \in 0 .. ResetSize
  /\ Stepped(f, TRUE, n)
  /\ Written \in Seq(OutByte(input)) /\ Len(Written) <= size
  /\ f[n][owed'] \in Seq(Elem(input))
  /\ ToCome(f) = Written \o f[n][owed']
  /\ Says(f, input, size, reset, TRUE, Taken, size, n, Step)
  /\ Staged /\ n \in Nat /\ Place <= n /\ n <= Taken

\* A load() that converts is Turned, up to some place.
LEMMA OrErrorConverts ==
  ASSUME OrErrorInv, NEW errno, OrError!Converting(errno), NEW f, f = OrErrorFrom
  PROVE  Step.errno = errno /\ \E n : Turned(f, n)
<1>1. /\ loading /\ pending = OrError!None /\ flush_state = "not_started"
      /\ flush_state' = flush_state
      /\ UNCHANGED OrError!given /\ out' = out
      /\ owed' = Step.owed /\ Step.errno = errno
  BY SameBatchOrError DEF OrError!Converting
<1>2. input' = input
  BY <1>1 DEF OrError!given
<1>3. Staged /\ reset \in Resetting /\ size \in Nat /\ buffer \in Seq(OutByte(input))
      /\ Len(buffer) <= size
  BY DEF OrErrorInv, OrErrorTypes
<1>4. /\ size - Len(buffer) = size
      /\ ToCome(f) = f[Place][owed]
  BY <1>1, LoadingIs
<1>5. PICK n : Stepped(f, TRUE, n)
  BY <1>3, StepSays DEF OrErrorFrom
<1>6. /\ owed' \in 0 .. ResetSize
      /\ Written \in Seq(OutByte(input)) /\ Len(Written) <= size
      /\ ToCome(f) = Written \o f[n][owed']
      /\ Says(f, input, size, reset, TRUE, Taken, size, n, Step)
      /\ n \in Nat /\ Place <= n /\ n <= Taken
      /\ f[n][owed'] \in Seq(Elements(input, TRUE))
  BY <1>1, <1>4, <1>5, Zenon DEF Stepped
<1>7. f[n][owed'] \in Seq(Elem(input))
  BY <1>6, Zenon DEF Elements
<1>8. Turned(f, n)
  BY <1>1, <1>2, <1>3, <1>5, <1>6, <1>7, Zenon DEF Turned
<1> QED
  BY <1>1, <1>8

\* Where few bytes in a row convert to nothing, a batch that is not the last
\* of the input converts to something.
LEMMA SomethingConverted ==
  ASSUME Staged, NEW f, NEW n, Stepped(f, TRUE, n), Taken <= n + 1, Taken # Len(input),
         FewEscapes
  PROVE  Written # <<>>
<1>1. SUFFICES ASSUME Written = <<>> PROVE FALSE
  OBVIOUS
<1>2. /\ Taken \in Nat /\ Taken <= Len(input) /\ Len(Batch) = Taken - Place
      /\ Len(Batch) = StagingSize
  BY BatchIs
<1>3. Place \in Nat /\ Len(input) \in Nat /\ StagingSize \in Nat
  BY StagedIs, StagingAssumption
<1>4. n \in Nat /\ \A k \in Place + 1 .. n : input[k] \in Escapes
  BY <1>1 DEF Stepped
<1>5. PICK p : p = Place
  OBVIOUS
<1>6. p \in Nat /\ p + StagingSize = Taken
  BY <1>2, <1>3, <1>5
<1>7. p \in 0 .. Len(input) /\ p + StagingSize <= Len(input) + 1
  BY <1>2, <1>3, <1>6
<1>8. PICK j \in p + 1 .. p + StagingSize - 1 : input[j] \notin Escapes
  BY <1>7 DEF FewEscapes
<1>9. j \in Place + 1 .. n
  BY <1>2, <1>3, <1>4, <1>5, <1>6
<1> QED
  BY <1>4, <1>8, <1>9

\* What is kept puts the iterator at m.
LEMMA OrErrorKeeps ==
  ASSUME NEW f, NEW n, Turned(f, n), NEW m \in Nat, Place <= m, m <= Taken,
         Keep(Span(m, Taken))
  PROVE  Staged' /\ Place' = m
BY KeepMoves, MovedStaged DEF Turned

\* What it stages or keeps leaves it at that place.
LEMMA OrErrorStages ==
  ASSUME NEW f, NEW n, Turned(f, n), NEW m \in Nat, Place <= m, m <= Taken, Taken <= m + 1,
         Stage(Span(m, Taken))
  PROVE  Staged' /\ Place' = m
<1>1. Taken - m <= StagingSize
  <2>1. Taken \in Nat
    BY BatchIs DEF Turned
  <2> QED
    BY <2>1, StagingAssumption
<1> QED
  BY <1>1, StageMoves, MovedStaged DEF Turned

\* The actions of a load() that converts a batch, one lemma each.
LEMMA OrErrorConvertAll ==
  ASSUME OrErrorInv, OrError!ConvertAll
  PROVE  OrErrorInv'
<1>1. PICK f : f = OrErrorFrom
  OBVIOUS
<1>2. OrError!Converting("ok") /\ Keep(<<>>) /\ pending' = pending
  BY SameBatchOrError DEF OrError!ConvertAll
<1>3. PICK n : Turned(f, n)
  BY <1>1, <1>2, OrErrorConverts
<1>4. Step.errno = "ok"
  BY <1>1, <1>2, OrErrorConverts
<1>5. n = Taken
  BY <1>3, <1>4 DEF Turned, Says
<1>6. n \in Nat /\ Place <= n /\ Taken \in Nat /\ Staged
  BY <1>3, <1>5 DEF Turned
<1>7. Span(Taken, Taken) = <<>>
  BY <1>6, SpanEmpty
<1>8. Staged' /\ Place' = n
  BY <1>2, <1>3, <1>5, <1>6, <1>7, OrErrorKeeps
<1>9. /\ loading /\ pending = OrError!None /\ flush_state = "not_started"
      /\ flush_state' = flush_state
      /\ UNCHANGED OrError!given /\ out' = out
      /\ Written \in Seq(OutByte(input)) /\ Len(Written) <= size
      /\ f[n][owed'] \in Seq(Elem(input))
      /\ ToCome(f) = Written \o f[n][owed']
  BY <1>3 DEF Turned
<1>10. CASE Written = <<>> /\ Taken = Len(input)
  <2>1. UNCHANGED <<loading, error, terminal, done>> /\ buffer' = <<>>
    BY <1>10, SameBatchOrError DEF OrError!ConvertAll
  <2>2. error = OrError!None /\ ~terminal /\ ~done
    BY <1>1, <1>9, LoadingIs
  <2>3. OrErrorShape'
    BY <1>9, <2>1, <2>2, Zenon DEF OrErrorShape
  <2>4. OrErrorReads'
    BY <1>9, <2>1, Zenon DEF OrErrorReads
  <2>5. Shown' = <<>>
    BY <2>1, <2>2, Zenon DEF Shown
  <2>6. ToCome(f)' = f[n][owed']
    BY <1>2, <1>8, <1>9, <2>1, <2>2, Zenon DEF ToCome
  <2>7. ToCome(f) = Shown' \o ToCome(f)'
    BY <1>9, <1>10, <2>5, <2>6, Zenon
  <2>8. buffer' \in Seq(OutByte(input)) /\ Len(buffer') <= size
    BY <2>1 DEF OrErrorInv, OrErrorTypes
  <2>9. /\ error' \in {OrError!None} \cup Errors
        /\ pending' \in {OrError!None} \cup Errors
        /\ flush_state' \in {"not_started", "in_progress", "done"}
        /\ loading' \in BOOLEAN /\ terminal' \in BOOLEAN /\ done' \in BOOLEAN
    BY <1>2, <1>9, <2>1, Zenon DEF OrErrorInv, OrErrorTypes
  <2> QED
    BY <1>1, <1>8, <1>9, <2>3, <2>4, <2>7, <2>8, <2>9, OrErrorReturns
<1>11. CASE ~(Written = <<>> /\ Taken = Len(input))
  <2>1. OrError!Yield(Written)
    BY <1>11, SameBatchOrError DEF OrError!ConvertAll
  <2>2. FewEscapes => Written # <<>>
    <3>1. Stepped(f, TRUE, n)
      BY <1>3 DEF Turned
    <3>2. Taken <= n + 1
      BY <1>5, <1>6
    <3> QED
      BY <1>6, <1>11, <3>1, <3>2, SomethingConverted
  <2> QED
    BY <1>1, <1>2, <1>8, <1>9, <2>1, <2>2, OrErrorYields
<1> QED
  BY <1>10, <1>11

-----------------------------------------------------------------------------
\* What a Turned load() has at hand, for the lemmas on how it returns.
LEMMA TurnedIs ==
  ASSUME OrErrorInv, NEW f, f = OrErrorFrom, NEW n, Turned(f, n)
  PROVE  /\ loading /\ pending = OrError!None /\ flush_state = "not_started"
         /\ flush_state' = flush_state
         /\ UNCHANGED OrError!given /\ out' = out
         /\ Written \in Seq(OutByte(input)) /\ Len(Written) <= size
         /\ f[n][owed'] \in Seq(Elem(input))
         /\ ToCome(f) = Written \o f[n][owed']
         /\ Written = <<>> => ToCome(f) = f[n][owed']
         /\ n \in Nat /\ Place <= n /\ Taken \in Nat /\ n <= Taken /\ Taken <= Len(input)
         /\ Len(input) \in Nat /\ owed' \in 0 .. ResetSize /\ owed' = Step.owed
         /\ n < Taken => Left = Span(n, Taken) /\ Tail(Left) = Span(n + 1, Taken)
<1>1. /\ loading /\ pending = OrError!None /\ flush_state = "not_started"
      /\ flush_state' = flush_state
      /\ UNCHANGED OrError!given /\ out' = out
      /\ Written \in Seq(OutByte(input)) /\ Len(Written) <= size
      /\ f[n][owed'] \in Seq(Elem(input))
      /\ ToCome(f) = Written \o f[n][owed']
      /\ n \in Nat /\ Place <= n /\ n <= Taken /\ Staged
      /\ owed' \in 0 .. ResetSize /\ owed' = Step.owed
      /\ Stepped(f, TRUE, n)
  BY Zenon DEF Turned
<1>2. Taken \in Nat /\ Taken <= Len(input) /\ Len(input) \in Nat
  BY <1>1, BatchIs, StagedIs
<1>3. Written = <<>> => ToCome(f) = f[n][owed']
  BY <1>1
<1>4. n < Taken => Left = Span(n, Taken) /\ Tail(Left) = Span(n + 1, Taken)
  BY <1>1, Zenon DEF Stepped
<1> QED
  BY <1>1, <1>2, <1>3, <1>4, Zenon

\* A facility that reports errors reports this one.
LEMMA ReportedWhole ==
  ASSUME NEW e, NEW S, NEW x \in Seq(S), x = Reported(e, TRUE)
  PROVE  x = <<Failed(e)>> \o <<>>
BY DEF Reported

LEMMA OrErrorOutputFull ==
  ASSUME OrErrorInv, OrError!OutputFull
  PROVE  OrErrorInv'
<1>1. PICK f : f = OrErrorFrom
  OBVIOUS
<1>2. OrError!Converting("E2BIG") /\ Keep(Left) /\ pending' = pending
  BY SameBatchOrError DEF OrError!OutputFull
<1>3. PICK n : Turned(f, n)
  BY <1>1, <1>2, OrErrorConverts
<1>4. Step.errno = "E2BIG"
  BY <1>1, <1>2, OrErrorConverts
<1>5. /\ n < Taken
      /\ Written = <<>> => f[n][owed'] = Reported("output_full", TRUE)
  BY <1>3, <1>4, Zenon DEF Turned, Says, Written
<1>6. /\ loading /\ pending = OrError!None /\ flush_state = "not_started"
      /\ flush_state' = flush_state
      /\ UNCHANGED OrError!given /\ out' = out
      /\ Written \in Seq(OutByte(input)) /\ Len(Written) <= size
      /\ f[n][owed'] \in Seq(Elem(input))
      /\ ToCome(f) = Written \o f[n][owed']
      /\ Written = <<>> => ToCome(f) = f[n][owed']
      /\ n \in Nat /\ Place <= n /\ n <= Taken
      /\ Left = Span(n, Taken)
  BY <1>1, <1>3, <1>5, TurnedIs
<1>7. Staged' /\ Place' = n
  BY <1>2, <1>3, <1>6, OrErrorKeeps
<1>8. CASE Written # <<>>
  <2>1. OrError!Yield(Written)
    BY <1>8, SameBatchOrError DEF OrError!OutputFull
  <2> QED
    BY <1>1, <1>2, <1>6, <1>7, <1>8, <2>1, OrErrorYields
<1>9. CASE Written = <<>>
  <2>1. OrError!Report("output_full", TRUE)
    BY <1>9, SameBatchOrError DEF OrError!OutputFull
  <2>2. ToCome(f) = <<Failed("output_full")>> \o <<>>
    BY <1>5, <1>6, <1>9, ReportedWhole
  <2>3. "output_full" \in Errors
    BY DEF Errors
  <2> QED
    BY <1>1, <1>2, <1>6, <1>7, <2>1, <2>2, <2>3, OrErrorReports
<1> QED
  BY <1>8, <1>9

LEMMA OrErrorCutShort ==
  ASSUME OrErrorInv, OrError!CutShort
  PROVE  OrErrorInv'
<1>1. PICK f : f = OrErrorFrom
  OBVIOUS
<1>2. OrError!Converting("EINVAL") /\ pending' = pending
  BY DEF OrError!CutShort
<1>3. PICK n : Turned(f, n)
  BY <1>1, <1>2, OrErrorConverts
<1>4. Step.errno = "EINVAL"
  BY <1>1, <1>2, OrErrorConverts
<1>5. /\ n < Taken /\ n + 1 = Taken
      /\ Taken = Len(input) => \A i \in 0 .. ResetSize :
           f[n][i] = Reported("incomplete_sequence", TRUE) \o Ending(size, reset, TRUE, i)
  BY <1>3, <1>4, Zenon DEF Turned, Says
<1>6. /\ loading /\ pending = OrError!None /\ flush_state = "not_started"
      /\ flush_state' = flush_state
      /\ UNCHANGED OrError!given /\ out' = out
      /\ Written \in Seq(OutByte(input)) /\ Len(Written) <= size
      /\ f[n][owed'] \in Seq(Elem(input))
      /\ ToCome(f) = Written \o f[n][owed']
      /\ Written = <<>> => ToCome(f) = f[n][owed']
      /\ n \in Nat /\ Place <= n /\ n <= Taken /\ Taken \in Nat /\ owed' \in 0 .. ResetSize
      /\ Left = Span(n, Taken)
  BY <1>1, <1>3, <1>5, TurnedIs
<1>7. Taken <= n + 1
  BY <1>5, <1>6
<1>8. CASE Written = <<>> /\ Taken = Len(input)
  <2>1. Stage(<<>>) /\ OrError!Report("incomplete_sequence", FALSE)
    BY <1>8, SameBatchOrError DEF OrError!CutShort
  <2>2. PICK m : m = Taken
    OBVIOUS
  <2>3. m \in Nat /\ Place <= m /\ m <= Taken /\ Taken <= m + 1
    <3>1. Place \in Nat
      BY <1>3, StagedIs DEF Turned
    <3> QED
      BY <1>6, <2>2, <3>1
  <2>4. Span(m, Taken) = <<>>
    BY <1>6, <2>2, SpanEmpty
  <2>5. Staged' /\ Place' = m
    BY <1>3, <2>1, <2>3, <2>4, OrErrorStages
  <2>6. ToCome(f) = Reported("incomplete_sequence", TRUE) \o Ending(size, reset, TRUE, owed')
    BY <1>5, <1>6, <1>8
  <2>7. f[Place'][owed'] = Ending(size, reset, TRUE, owed')
    <3>1. input \in Seq(Byte) /\ size \in Nat
      BY DEF OrErrorInv, OrErrorTypes, Staged
    <3>2. PICK o : o = owed'
      OBVIOUS
    <3>3. o \in 0 .. ResetSize
      BY <1>6, <3>2
    <3>4. PICK rep : rep = TRUE
      OBVIOUS
    <3>5. f = From(input, size, reset, rep)
      BY <1>1, <3>4, Zenon DEF OrErrorFrom
    <3>6. f[Len(input)][o] = Ending(size, reset, rep, o)
      BY <3>1, <3>3, <3>5, FromEnds
    <3>7. Place' = Len(input)
      BY <1>8, <2>2, <2>5
    <3> QED
      BY <3>2, <3>4, <3>6, <3>7, Zenon
  <2>8. ToCome(f) = <<Failed("incomplete_sequence")>> \o f[Place'][owed']
    BY <2>6, <2>7 DEF Reported
  <2>9. "incomplete_sequence" \in Errors
    BY DEF Errors
  <2> QED
    BY <1>1, <1>2, <1>6, <2>1, <2>5, <2>8, <2>9, OrErrorReports
<1>9. CASE ~(Written = <<>> /\ Taken = Len(input))
  <2>1. Stage(Left) /\ OrError!Yield(Written)
    BY <1>9, SameBatchOrError DEF OrError!CutShort
  <2>2. Staged' /\ Place' = n
    BY <1>3, <1>6, <1>7, <2>1, OrErrorStages
  <2>3. FewEscapes => Written # <<>>
    <3>1. Stepped(f, TRUE, n) /\ Staged
      BY <1>3 DEF Turned
    <3> QED
      BY <1>7, <1>9, <3>1, SomethingConverted
  <2> QED
    BY <1>1, <1>2, <1>6, <2>1, <2>2, <2>3, OrErrorYields
<1> QED
  BY <1>8, <1>9

LEMMA OrErrorInvalid ==
  ASSUME OrErrorInv, OrError!Invalid
  PROVE  OrErrorInv'
<1>1. PICK f : f = OrErrorFrom
  OBVIOUS
<1>2. OrError!Converting("EILSEQ") /\ pending' = pending
  BY DEF OrError!Invalid
<1>3. PICK n : Turned(f, n)
  BY <1>1, <1>2, OrErrorConverts
<1>4. Step.errno = "EILSEQ"
  BY <1>1, <1>2, OrErrorConverts
<1>5. /\ n < Taken
      /\ f[n][owed'] = Reported("invalid_sequence", TRUE) \o f[n + 1][owed']
  BY <1>3, <1>4, Zenon DEF Turned, Says
<1>6. /\ loading /\ pending = OrError!None /\ flush_state = "not_started"
      /\ flush_state' = flush_state
      /\ UNCHANGED OrError!given /\ out' = out
      /\ Written \in Seq(OutByte(input)) /\ Len(Written) <= size
      /\ f[n][owed'] \in Seq(Elem(input))
      /\ ToCome(f) = Written \o f[n][owed']
      /\ Written = <<>> => ToCome(f) = f[n][owed']
      /\ n \in Nat /\ Place <= n /\ n <= Taken /\ Taken \in Nat
      /\ Left = Span(n, Taken) /\ Tail(Left) = Span(n + 1, Taken)
  BY <1>1, <1>3, <1>5, TurnedIs
<1>7. CASE Written # <<>>
  <2>1. Keep(Left) /\ OrError!Yield(Written)
    BY <1>7, SameBatchOrError DEF OrError!Invalid
  <2>2. Staged' /\ Place' = n
    BY <1>3, <1>6, <2>1, OrErrorKeeps
  <2> QED
    BY <1>1, <1>2, <1>6, <1>7, <2>1, <2>2, OrErrorYields
<1>8. CASE Written = <<>>
  <2>1. Keep(Tail(Left)) /\ OrError!Report("invalid_sequence", FALSE)
    BY <1>8, SameBatchOrError DEF OrError!Invalid
  <2>2. PICK m : m = n + 1
    OBVIOUS
  <2>3. m \in Nat /\ Place <= m /\ m <= Taken /\ Tail(Left) = Span(m, Taken)
    <3>1. Place \in Nat
      BY <1>3, StagedIs DEF Turned
    <3> QED
      BY <1>5, <1>6, <2>2, <3>1
  <2>4. Staged' /\ Place' = m
    BY <1>3, <2>1, <2>3, OrErrorKeeps
  <2>5. ToCome(f) = <<Failed("invalid_sequence")>> \o f[Place'][owed']
    <3>1. Reported("invalid_sequence", TRUE) = <<Failed("invalid_sequence")>>
      BY DEF Reported
    <3> QED
      BY <1>5, <1>6, <1>8, <2>2, <2>4, <3>1, Zenon
  <2>6. "invalid_sequence" \in Errors
    BY DEF Errors
  <2> QED
    BY <1>1, <1>2, <1>6, <2>1, <2>4, <2>5, <2>6, OrErrorReports
<1> QED
  BY <1>7, <1>8

LEMMA OrErrorConverterFails ==
  ASSUME OrErrorInv, OrError!ConverterFails
  PROVE  OrErrorInv'
<1>1. PICK f : f = OrErrorFrom
  OBVIOUS
<1>2. OrError!Converting("other") /\ Keep(Left) /\ OrError!EndWith("system_error", Written)
  BY SameBatchOrError DEF OrError!ConverterFails
<1>3. PICK n : Turned(f, n)
  BY <1>1, <1>2, OrErrorConverts
<1>4. Step.errno = "other"
  BY <1>1, <1>2, OrErrorConverts
<1>5. n < Taken /\ f[n][owed'] = Reported("system_error", TRUE)
  BY <1>3, <1>4, Zenon DEF Turned, Says
<1>6. /\ loading /\ pending = OrError!None /\ flush_state = "not_started"
      /\ flush_state' = flush_state
      /\ UNCHANGED OrError!given /\ out' = out
      /\ Written \in Seq(OutByte(input)) /\ Len(Written) <= size
      /\ f[n][owed'] \in Seq(Elem(input))
      /\ ToCome(f) = Written \o f[n][owed']
      /\ Written = <<>> => ToCome(f) = f[n][owed']
      /\ n \in Nat /\ Place <= n /\ n <= Taken
      /\ Left = Span(n, Taken)
  BY <1>1, <1>3, <1>5, TurnedIs
<1>7. Staged' /\ Place' = n
  BY <1>2, <1>3, <1>6, OrErrorKeeps
<1>8. "system_error" \in Errors /\ "system_error" # OrError!None
  BY DEF Errors, OrError!None
<1>9. CASE Written # <<>>
  <2>1. OrError!Yield(Written) /\ pending' = "system_error"
    BY <1>2, <1>9 DEF OrError!EndWith
  <2>2. f[n][owed'] = <<Failed("system_error")>>
    BY <1>5 DEF Reported
  <2> QED
    BY <1>1, <1>6, <1>7, <1>8, <1>9, <2>1, <2>2, OrErrorYields
<1>10. CASE Written = <<>>
  <2>1. OrError!Report("system_error", TRUE) /\ pending' = pending
    BY <1>2, <1>10 DEF OrError!EndWith
  <2>2. ToCome(f) = <<Failed("system_error")>> \o <<>>
    BY <1>5, <1>6, <1>10, ReportedWhole
  <2> QED
    BY <1>1, <1>6, <1>7, <1>8, <2>1, <2>2, OrErrorReports
<1> QED
  BY <1>9, <1>10

-----------------------------------------------------------------------------
\* A load() of iconv_transcode_or_error that flushes.
Flushed(f) ==
  /\ loading /\ pending = OrError!None /\ Place = Len(input)
  /\ UNCHANGED OrError!given /\ out' = out /\ input' = input
  /\ owed' = Flush.owed /\ Staged' /\ Place' = Len(input)
  /\ Flush.written \in Seq(OutByte(input)) /\ Len(Flush.written) <= size
  /\ ToCome(f) \in Seq(Elem(input))
  /\ EndSays(size, reset, TRUE, owed, size, Flush)
  /\ ToCome(f) = Ending(size, reset, TRUE, owed)
  /\ f[Place'][owed'] = Ending(size, reset, TRUE, owed')
  /\ Flush.errno = "E2BIG" \/ Flush.errno = reset.answer

\* A load() that flushes is Flushed.
LEMMA OrErrorFlushes ==
  ASSUME OrErrorInv, NEW errno, OrError!Flushing(errno), NEW f, f = OrErrorFrom
  PROVE  Flush.errno = errno /\ Flushed(f)
<1>1. /\ loading /\ pending = OrError!None /\ Batch = <<>> /\ flush_state # "done"
      /\ Flush.errno = errno /\ owed' = Flush.owed
      /\ UNCHANGED OrError!given /\ out' = out /\ current' = current /\ staging' = staging
  BY SameBatchOrError DEF OrError!Flushing
<1>2. input' = input
  BY <1>1 DEF OrError!given
<1>3. Staged /\ reset \in Resetting /\ size \in Nat
  BY DEF OrErrorInv, OrErrorTypes
<1>4. Place = Len(input) /\ input \in Seq(Byte) /\ owed \in 0 .. ResetSize
  BY <1>1, <1>3, BatchIs DEF Staged
<1>5. /\ Flushes(input, reset, owed, size, Flush)
      /\ EndSays(size, reset, TRUE, owed, size, Flush)
  BY <1>3, ViewFlushSays
<1>6. /\ Flush.owed \in 0 .. ResetSize
      /\ Flush.written \in Seq(OutByte(input)) /\ Len(Flush.written) <= size
      /\ Flush.errno = "E2BIG" \/ Flush.errno = reset.answer
  BY <1>5, Zenon DEF Flushes
<1>7. Staged' /\ Place' = Len(input)
  <2>1. Place' = Place
    BY <1>1 DEF Place
  <2> QED
    BY <1>1, <1>2, <1>3, <1>4, <1>6, <2>1 DEF Staged
<1>8. f = From(input, size, reset, TRUE)
  BY DEF OrErrorFrom
<1>9. /\ f[Len(input)][owed] = Ending(size, reset, TRUE, owed)
      /\ f[Len(input)][owed'] = Ending(size, reset, TRUE, owed')
  <2>1. PICK o : o = owed'
    OBVIOUS
  <2>2. o \in 0 .. ResetSize
    BY <1>1, <1>6, <2>1
  <2>3. PICK rep : rep = TRUE
    OBVIOUS
  <2>4. f = From(input, size, reset, rep)
    BY <1>8, <2>3, Zenon
  <2>5. f[Len(input)][owed] = Ending(size, reset, rep, owed)
    BY <1>3, <1>4, <2>4, FromEnds
  <2>6. f[Len(input)][o] = Ending(size, reset, rep, o)
    BY <1>3, <1>4, <2>2, <2>4, FromEnds
  <2> QED
    BY <2>1, <2>3, <2>5, <2>6, Zenon
<1>10. ToCome(f) = f[Place][owed] /\ ToCome(f) \in Seq(Elem(input))
  BY <1>1, LoadingIs
<1>11. ToCome(f) = Ending(size, reset, TRUE, owed)
       /\ f[Place'][owed'] = Ending(size, reset, TRUE, owed')
  BY <1>4, <1>7, <1>9, <1>10, Zenon
<1> QED
  BY <1>1, <1>2, <1>4, <1>5, <1>6, <1>7, <1>10, <1>11, Zenon DEF Flushed

\* The actions of a load() that flushes, one lemma each.
LEMMA OrErrorFlushMore ==
  ASSUME OrErrorInv, OrError!FlushMore
  PROVE  OrErrorInv'
<1>1. PICK f : f = OrErrorFrom
  OBVIOUS
<1>2. OrError!Flushing("E2BIG") /\ pending' = pending
  BY DEF OrError!FlushMore
<1>3. Flushed(f) /\ Flush.errno = "E2BIG"
  BY <1>1, <1>2, OrErrorFlushes
<1>4. /\ loading /\ pending = OrError!None
      /\ UNCHANGED OrError!given /\ out' = out
      /\ Staged' /\ Place' = Len(input)
      /\ Flush.written \in Seq(OutByte(input)) /\ Len(Flush.written) <= size
      /\ ToCome(f) \in Seq(Elem(input))
      /\ Flush.written = <<>> => ToCome(f) = Reported("output_full", TRUE)
      /\ Flush.written # <<>> => ToCome(f) = Flush.written \o f[Place'][owed']
  <2>1. /\ Flush.written = <<>> =>
             Ending(size, reset, TRUE, owed) = Reported("output_full", TRUE)
        /\ Flush.written # <<>> =>
             Ending(size, reset, TRUE, owed)
               = Flush.written \o Ending(size, reset, TRUE, Flush.owed)
    BY <1>3, Zenon DEF Flushed, EndSays
  <2> QED
    BY <1>3, <2>1, Zenon DEF Flushed
<1>5. CASE Flush.written # <<>>
  <2>1. flush_state' = "in_progress" /\ OrError!Yield(Flush.written)
    BY <1>5, SameBatchOrError DEF OrError!FlushMore
  <2> QED
    BY <1>1, <1>2, <1>4, <1>5, <2>1, OrErrorYields
<1>6. CASE Flush.written = <<>>
  <2>1. flush_state' = "done" /\ OrError!Report("output_full", TRUE)
    BY <1>6, SameBatchOrError DEF OrError!FlushMore
  <2>2. ToCome(f) = <<Failed("output_full")>> \o <<>>
    BY <1>4, <1>6, ReportedWhole
  <2>3. "output_full" \in Errors
    BY DEF Errors
  <2> QED
    BY <1>1, <1>2, <1>4, <2>1, <2>2, <2>3, OrErrorReports
<1> QED
  BY <1>5, <1>6

LEMMA OrErrorFlushAll ==
  ASSUME OrErrorInv, OrError!FlushAll
  PROVE  OrErrorInv'
<1>1. PICK f : f = OrErrorFrom
  OBVIOUS
<1>2. OrError!Flushing("ok") /\ pending' = pending /\ flush_state' = "done"
  BY DEF OrError!FlushAll
<1>3. Flushed(f) /\ Flush.errno = "ok"
  BY <1>1, <1>2, OrErrorFlushes
<1>4. /\ loading /\ pending = OrError!None
      /\ UNCHANGED OrError!given /\ out' = out
      /\ Staged' /\ Place' = Len(input)
      /\ Flush.written \in Seq(OutByte(input)) /\ Len(Flush.written) <= size
      /\ ToCome(f) = Flush.written
  <2>1. Ending(size, reset, TRUE, owed) = Flush.written
    BY <1>3, Zenon DEF Flushed, EndSays
  <2> QED
    BY <1>3, <2>1, Zenon DEF Flushed
<1>5. CASE Flush.written = <<>>
  <2>1. OrError!End /\ buffer' = <<>>
    BY <1>5, SameBatchOrError DEF OrError!FlushAll
  <2> QED
    BY <1>1, <1>2, <1>4, <1>5, <2>1, OrErrorEnds
<1>6. CASE Flush.written # <<>>
  <2>1. OrError!Yield(Flush.written)
    BY <1>6, SameBatchOrError DEF OrError!FlushAll
  <2>2. ToCome(f) = Flush.written \o <<>>
    BY <1>4
  <2> QED
    BY <1>1, <1>2, <1>4, <1>6, <2>1, <2>2, OrErrorYields
<1> QED
  BY <1>5, <1>6

LEMMA OrErrorFlushFails ==
  ASSUME OrErrorInv, OrError!FlushFails
  PROVE  OrErrorInv'
<1>1. PICK f : f = OrErrorFrom
  OBVIOUS
<1>2. PICK errno \in Errno \ {"ok", "E2BIG"} : OrError!Flushing(errno)
  BY DEF OrError!FlushFails, OrError!Errno, Errno
<1>3. Flushed(f) /\ Flush.errno = errno
  BY <1>1, <1>2, OrErrorFlushes
<1>4. PICK e : e = ResetError(Flush.errno)
  OBVIOUS
<1>5. e \in Errors /\ e # OrError!None
  BY <1>4 DEF ResetError, Errors, OrError!None
<1>6. flush_state' = "done" /\ OrError!EndWith(e, Flush.written)
  BY <1>4, SameBatchOrError DEF OrError!FlushFails
<1>7. /\ loading /\ pending = OrError!None
      /\ UNCHANGED OrError!given /\ out' = out
      /\ Staged' /\ Place' = Len(input)
      /\ Flush.written \in Seq(OutByte(input)) /\ Len(Flush.written) <= size
      /\ ToCome(f) \in Seq(Elem(input))
      /\ ToCome(f) = Flush.written \o Reported(e, TRUE)
  <2>1. Ending(size, reset, TRUE, owed) = Flush.written \o Reported(e, TRUE)
    BY <1>2, <1>3, <1>4, Zenon DEF Flushed, EndSays
  <2> QED
    BY <1>3, <2>1, Zenon DEF Flushed
<1>8. Reported(e, TRUE) = <<Failed(e)>>
  BY DEF Reported
<1>9. CASE Flush.written # <<>>
  <2>1. OrError!Yield(Flush.written) /\ pending' = e
    BY <1>6, <1>9 DEF OrError!EndWith
  <2> QED
    BY <1>1, <1>5, <1>6, <1>7, <1>8, <1>9, <2>1, OrErrorYields
<1>10. CASE Flush.written = <<>>
  <2>1. OrError!Report(e, TRUE) /\ pending' = pending
    BY <1>6, <1>10 DEF OrError!EndWith
  <2>2. ToCome(f) = <<Failed(e)>> \o <<>>
    <3>1. <<>> \o <<Failed(e)>> = <<Failed(e)>> \o <<>>
      OBVIOUS
    <3> QED
      BY <1>7, <1>8, <1>10, <3>1, Zenon
  <2> QED
    BY <1>1, <1>5, <1>6, <1>7, <2>1, <2>2, OrErrorReports
<1> QED
  BY <1>9, <1>10

LEMMA OrErrorAfterFlush ==
  ASSUME OrErrorInv, OrError!AfterFlush
  PROVE  OrErrorInv'
<1>1. PICK f : f = OrErrorFrom
  OBVIOUS
<1>2. /\ loading /\ pending = OrError!None /\ flush_state = "done" /\ OrError!End
      /\ UNCHANGED OrError!given /\ out' = out /\ owed' = owed
      /\ current' = current /\ staging' = staging /\ buffer' = buffer
      /\ flush_state' = flush_state /\ pending' = pending
  BY DEF OrError!AfterFlush
<1>3. input' = input
  BY <1>2 DEF OrError!given
<1>4. ToCome(f) = <<>> /\ buffer = <<>>
  BY <1>1, <1>2, LoadingIs
<1>5. Staged' /\ Place' = Place
  BY <1>2, <1>3 DEF OrErrorInv, OrErrorTypes, Staged, Place
<1>6. Place = Len(input)
  BY <1>2 DEF OrErrorInv, OrErrorShape
<1> QED
  BY <1>1, <1>2, <1>4, <1>5, <1>6, OrErrorEnds

LEMMA OrErrorLoadPending ==
  ASSUME OrErrorInv, OrError!LoadPending
  PROVE  OrErrorInv'
<1>1. PICK f : f = OrErrorFrom
  OBVIOUS
<1>2. /\ loading /\ pending # OrError!None /\ pending' = OrError!None
      /\ OrError!Report(pending, TRUE)
      /\ UNCHANGED OrError!given /\ out' = out /\ owed' = owed
      /\ current' = current /\ staging' = staging /\ flush_state' = flush_state
  BY DEF OrError!LoadPending
<1>3. input' = input
  BY <1>2 DEF OrError!given
<1>4. ToCome(f) = <<Failed(pending)>>
  BY <1>1, <1>2, LoadingIs
<1>5. pending \in Errors /\ flush_state \in {"not_started", "in_progress", "done"}
  BY <1>2 DEF OrErrorInv, OrErrorTypes
<1>6. Staged' /\ Place' = Place
  BY <1>2, <1>3 DEF OrErrorInv, OrErrorTypes, Staged, Place
<1>7. flush_state # "not_started" => Place = Len(input)
  BY DEF OrErrorInv, OrErrorShape
<1>8. ToCome(f) = <<Failed(pending)>> \o <<>>
  BY <1>4
<1> QED
  BY <1>1, <1>2, <1>5, <1>6, <1>7, <1>8, OrErrorReports

-----------------------------------------------------------------------------
\* Reading the next element moves it from what is shown to what has been read.
ReadsOn(a, e, x) == Append(a, e) \o x = a \o (<<e>> \o x)

LEMMA AppendJoins ==
  ASSUME NEW S, NEW a \in Seq(S), NEW e \in S, NEW x \in Seq(S)
  PROVE  ReadsOn(a, e, x) /\ Append(a, e) \in Seq(S)
<1>1. <<e>> \in Seq(S)
  OBVIOUS
<1>2. Append(a, e) = a \o <<e>> /\ Append(a, e) \in Seq(S)
  OBVIOUS
<1>3. (a \o <<e>>) \o x = a \o (<<e>> \o x)
  BY <1>1, JoinedInTurn, SMTT(30) DEF InTurn
<1> QED
  BY <1>2, <1>3 DEF ReadsOn

\* The increment: what is read was shown.
LEMMA OrErrorIncrement ==
  ASSUME OrErrorInv, OrError!Increment
  PROVE  OrErrorInv'
<1>1. PICK f : f = OrErrorFrom
  OBVIOUS
<1>2. PICK e : e = OrError!Element
  OBVIOUS
<1>3. PICK x : x = ToCome(f)
  OBVIOUS
<1>4. /\ ~loading /\ ~done /\ e # OrError!Stale /\ out' = Append(out, e)
      /\ UNCHANGED OrError!given /\ owed' = owed /\ current' = current /\ staging' = staging
      /\ flush_state' = flush_state /\ terminal' = terminal /\ pending' = pending
  BY <1>2 DEF OrError!Increment
<1>5. input' = input /\ size' = size /\ opens' = opens /\ reset' = reset
  BY <1>4 DEF OrError!given
<1>6. x \in Seq(Elem(input))
  BY <1>1, <1>3, ToComeTyped DEF OrErrorInv
<1>7. Staged' /\ Place' = Place /\ reset' \in Resetting /\ size' \in Nat
  <2>1. Staged /\ reset \in Resetting /\ size \in Nat
    BY DEF OrErrorInv, OrErrorTypes
  <2> QED
    BY <1>4, <1>5, <2>1 DEF Staged, Place
<1>8. OrErrorFrom' = f /\ Converts(size, TRUE)' = Converts(size, TRUE)
  BY <1>1, <1>5 DEF OrErrorFrom, Converts
<1>9. out \in Seq(Elem(input)) /\ out \o (Shown \o x) = Converts(size, TRUE)
  BY <1>1, <1>3 DEF OrErrorInv, OrErrorPromise, OrErrorTypes
<1>10. /\ terminal \in BOOLEAN /\ done \in BOOLEAN
       /\ pending' \in {OrError!None} \cup Errors
       /\ flush_state' \in {"not_started", "in_progress", "done"}
       /\ flush_state' # "not_started" => Place' = Len(input')
  BY <1>4, <1>5, <1>7 DEF OrErrorInv, OrErrorTypes, OrErrorShape
<1>11. CASE error # OrError!None
  <2>1. error' = OrError!None /\ done' = terminal /\ loading' = ~terminal /\ buffer' = buffer
    BY <1>11 DEF OrError!Increment
  <2>2. e = Failed(error)
    <3>1. e = OrError!Failed(error)
      BY <1>2, <1>11 DEF OrError!Element
    <3> QED
      BY <3>1, SameBatchOrError
  <2>3. buffer = <<>> /\ error \in Errors
    BY <1>11 DEF OrErrorInv, OrErrorShape, OrErrorTypes
  <2>4. e \in Elem(input)
    BY <2>2, <2>3, Zenon DEF Elem
  <2>5. Shown = <<e>>
    BY <1>11, <2>2, Zenon DEF Shown
  <2>6. Shown' = <<>>
    BY <2>1, <2>3, Zenon DEF Shown
  <2>7. ToCome(f)' = x
    BY <1>3, <1>4, <1>7, <2>1, Zenon DEF ToCome
  <2>8. out' \o (Shown' \o ToCome(f)') = out \o (<<e>> \o x) /\ out' \in Seq(Elem(input))
    <3>1. ReadsOn(out, e, x) /\ Append(out, e) \in Seq(Elem(input))
      BY <1>6, <1>9, <2>4, AppendJoins
    <3>2. <<>> \o x = x
      BY <1>6
    <3> QED
      BY <1>4, <2>6, <2>7, <3>1, <3>2, Zenon DEF ReadsOn
  <2>9. OrErrorPromise'
    <3>1. ToCome(OrErrorFrom)' = ToCome(f)'
      BY <1>8 DEF ToCome
    <3> QED
      BY <1>8, <1>9, <2>5, <2>8, <3>1, Zenon DEF OrErrorPromise
  <2>10. OrErrorShape'
    BY <1>4, <1>10, <2>1, <2>3, Zenon DEF OrErrorShape
  <2>11. OrErrorReads'
    BY <2>1, Zenon DEF OrErrorReads
  <2>12. buffer' \in Seq(OutByte(input')) /\ Len(buffer') <= size'
    BY <1>5, <2>1 DEF OrErrorInv, OrErrorTypes
  <2>13. loading' \in BOOLEAN /\ terminal' \in BOOLEAN /\ done' \in BOOLEAN
         /\ error' \in {OrError!None} \cup Errors
    BY <1>4, <1>10, <2>1, Zenon
  <2>14. OrErrorTypes'
    BY <1>5, <1>7, <1>10, <2>8, <2>12, <2>13, Zenon DEF OrErrorTypes
  <2> QED
    BY <2>9, <2>10, <2>11, <2>14 DEF OrErrorInv
<1>12. CASE error = OrError!None
  <2>1. buffer' = Tail(buffer) /\ loading' = (Tail(buffer) = <<>>) /\ error' = error
        /\ done' = done
    BY <1>12 DEF OrError!Increment
  <2>2. buffer # <<>> /\ e = Head(buffer)
    BY <1>2, <1>4, <1>12 DEF OrError!Element
  <2>3. buffer \in Seq(OutByte(input)) /\ Len(buffer) <= size /\ size \in Nat
    BY DEF OrErrorInv, OrErrorTypes
  <2>4. e \in OutByte(input) /\ buffer' \in Seq(OutByte(input)) /\ Len(buffer') <= size
        /\ buffer = <<e>> \o buffer'
    BY <2>1, <2>2, <2>3
  <2>5. e \in Elem(input) /\ buffer' \in Seq(Elem(input))
    <3>1. OutByte(input) \subseteq Elem(input)
      BY DEF Elem
    <3> QED
      BY <2>4, <3>1, BytesAreElements
  <2>6. Shown = <<e>> \o buffer' /\ Shown' = buffer'
    BY <1>12, <2>1, <2>4, Zenon DEF Shown
  <2>7. ToCome(f)' = x
    BY <1>3, <1>4, <1>7, <2>1, Zenon DEF ToCome
  <2>8. out' \o (Shown' \o x) = out \o (Shown \o x) /\ out' \in Seq(Elem(input))
    <3>1. PICK y : y = buffer' \o x
      OBVIOUS
    <3>2. y \in Seq(Elem(input))
      BY <1>6, <2>5, <3>1
    <3>3. ReadsOn(out, e, y) /\ Append(out, e) \in Seq(Elem(input))
      BY <1>9, <2>5, <3>2, AppendJoins
    <3>4. (<<e>> \o buffer') \o x = <<e>> \o y
      <4>1. <<e>> \in Seq(Elem(input))
        BY <2>5
      <4>2. InTurn(<<e>>, buffer', x)
        BY <1>6, <2>5, <4>1, JoinedInTurn
      <4> QED
        BY <3>1, <4>2 DEF InTurn
    <3> QED
      BY <1>4, <2>6, <3>1, <3>3, <3>4, Zenon DEF ReadsOn
  <2>9. OrErrorPromise'
    <3>1. ToCome(OrErrorFrom)' = ToCome(f)'
      BY <1>8 DEF ToCome
    <3> QED
      BY <1>8, <1>9, <2>7, <2>8, <3>1, Zenon DEF OrErrorPromise
  <2>10. ~terminal
    BY <1>4, <1>12 DEF OrErrorInv, OrErrorShape
  <2>11. OrErrorShape'
    BY <1>4, <1>10, <1>12, <2>1, <2>10, Zenon DEF OrErrorShape
  <2>12. OrErrorReads'
    BY <2>1, Zenon DEF OrErrorReads
  <2>13. loading' \in BOOLEAN /\ terminal' \in BOOLEAN /\ done' \in BOOLEAN
         /\ error' \in {OrError!None} \cup Errors
    BY <1>4, <1>10, <1>12, <2>1, Zenon
  <2>14. OrErrorTypes'
    BY <1>5, <1>7, <1>10, <2>4, <2>8, <2>13, Zenon DEF OrErrorTypes
  <2> QED
    BY <2>9, <2>11, <2>12, <2>14 DEF OrErrorInv
<1> QED
  BY <1>11, <1>12

\* It holds at begin().
LEMMA OrErrorStarts ==
  ASSUME OrError!Init, input \in Seq(Byte), reset \in Resetting, size \in Nat, opens \in BOOLEAN
  PROVE  OrErrorInv
<1>1. /\ owed = 0 /\ loading = opens /\ current = 0 /\ staging = <<>> /\ buffer = <<>>
      /\ flush_state = "not_started" /\ terminal = ~opens /\ pending = OrError!None
      /\ error = (IF opens THEN OrError!None ELSE "open_failed")
      /\ done = FALSE /\ out = <<>>
  BY DEF OrError!Init
<1>2. PICK f : f = OrErrorFrom
  OBVIOUS
<1>3. Place = 0 /\ Staged
  <2>1. Len(input) \in Nat /\ Len(staging) = 0 /\ StagingSize \in Nat
    BY <1>1, LenProperties, StagingAssumption
  <2>2. Place = 0
    <3>1. current = 0 /\ Len(staging) = 0
      BY <1>1, <2>1, Zenon
    <3> QED
      BY <3>1 DEF Place
  <2>3. staging = Span(Place, current)
    BY <1>1, <2>2, SpanEmpty
  <2>4. current \in 0 .. Len(input) /\ owed \in 0 .. ResetSize /\ Len(staging) <= StagingSize
    BY <1>1, <2>1 DEF ResetSize
  <2> QED
    BY <2>2, <2>3, <2>4 DEF Staged
<1>4. error \in {OrError!None} \cup Errors /\ "open_failed" # OrError!None
  BY <1>1 DEF Errors, OrError!None
<1>5. OrErrorTypes
  <2>1. buffer \in Seq(OutByte(input)) /\ Len(buffer) <= size /\ out \in Seq(Elem(input))
    BY <1>1
  <2> QED
    BY <1>1, <1>3, <1>4, <2>1, Zenon DEF OrErrorTypes
<1>6. OrErrorShape
  BY <1>1, <1>4, Zenon DEF OrErrorShape
<1>7. OrErrorReads
  BY <1>1, <1>4, Zenon DEF OrErrorReads
<1>8. CASE opens
  <2>1. Shown = <<>> /\ ToCome(f) = f[0][0]
    BY <1>1, <1>3, <1>8, Zenon DEF Shown, ToCome
  <2>2. ToCome(f) \in Seq(Elem(input))
    BY <1>2, <1>5, ToComeTyped
  <2>3. <<>> \o (<<>> \o ToCome(f)) = ToCome(f)
    BY <2>2
  <2>4. Converts(size, TRUE) = f[0][0]
    BY <1>2, <1>8, ConversionIs, Zenon DEF Converts, OrErrorFrom
  <2>5. OrErrorPromise
    BY <1>1, <1>2, <2>1, <2>3, <2>4, Zenon DEF OrErrorPromise
  <2> QED
    BY <1>5, <1>6, <1>7, <2>5 DEF OrErrorInv
<1>9. CASE ~opens
  <2>1. PICK w : w = Failed("open_failed")
    OBVIOUS
  <2>2. Shown = <<w>> /\ ToCome(f) = <<>>
    BY <1>1, <1>4, <1>9, <2>1, Zenon DEF Shown, ToCome
  <2>3. <<>> \o (<<w>> \o <<>>) = <<w>>
    OBVIOUS
  <2>4. Converts(size, TRUE) = <<w>>
    BY <1>9, <2>1, ConversionIs, Zenon DEF Converts, Reported
  <2>5. OrErrorPromise
    BY <1>1, <1>2, <2>2, <2>3, <2>4, Zenon DEF OrErrorPromise
  <2> QED
    BY <1>5, <1>6, <1>7, <2>5 DEF OrErrorInv
<1> QED
  BY <1>8, <1>9

\* Every action preserves it.
LEMMA OrErrorSteps ==
  ASSUME OrErrorInv, OrError!Next
  PROVE  OrErrorInv'
BY OrErrorLoadPending, OrErrorConvertAll, OrErrorOutputFull, OrErrorCutShort, OrErrorInvalid,
   OrErrorConverterFails, OrErrorFlushMore, OrErrorFlushAll, OrErrorFlushFails,
   OrErrorAfterFlush, OrErrorIncrement DEF OrError!Next

-----------------------------------------------------------------------------
\* iconv_transcode has the converter, the batch and the flush of IconvBatch.
LEMMA SameBatchView ==
  /\ View!Batch = Batch /\ View!Taken = Taken /\ View!Step = Step /\ View!Straight = Straight
  /\ View!Written = Written /\ View!Left = Left /\ View!Flush = Flush
  /\ \A left : View!Keep(left) <=> Keep(left)
  /\ \A left : View!Stage(left) <=> Stage(left)
<1>1. View!Straight = Straight /\ View!Rest = Rest /\ View!Room = Room
  BY DEF View!Straight, View!Rest, View!Room, Straight, Rest, Room
<1>2. View!Batch = Batch
  BY <1>1 DEF View!Batch, Batch
<1>3. View!Taken = Taken
  BY <1>2 DEF View!Taken, Taken
<1>4. ASSUME NEW a, NEW b, NEW c, NEW d
      PROVE  View!Convert(a, b, c, d) = Convert(a, b, c, d)
  BY DEF View!Convert, Convert, View!Units, Units, View!Onward, Onward,
         View!Leading, Leading, View!Unit, Unit, View!Converted, Converted,
         View!ResetSize, ResetSize
<1>5. View!Step = Step
  BY <1>2, <1>4 DEF View!Step, Step
<1>6. View!Written = Written /\ View!Left = Left
  BY <1>2, <1>5 DEF View!Written, Written, View!Left, Left
<1>7. ASSUME NEW a, NEW b, NEW c, NEW d
      PROVE  View!Reset(a, b, c, d) = Reset(a, b, c, d)
  BY DEF View!Reset, Reset, View!Unit, Unit, View!Resets, Resets, View!ResetSize, ResetSize
<1>8. View!Flush = Flush
  BY <1>7 DEF View!Flush, Flush
<1>9. ASSUME NEW left PROVE View!Keep(left) <=> Keep(left)
  BY <1>1, <1>3 DEF View!Keep, Keep
<1>10. ASSUME NEW left PROVE View!Stage(left) <=> Stage(left)
  BY <1>3 DEF View!Stage, Stage
<1> QED
  BY <1>1, <1>2, <1>3, <1>5, <1>6, <1>8, <1>9, <1>10, SMTT(30)

-----------------------------------------------------------------------------
\* What is to come of the conversion behind the output that iconv_transcode has.
ViewToCome(f) ==
  IF stop_after_output \/ done \/ flush_state = "done" THEN <<>> ELSE f[Place][owed]

\* The conversion that iconv_transcode yields, without errors.
ViewFrom == From(input, size, reset, FALSE)

\* Nothing but the flush is to come.
AtEnd(f) == \A o \in 0 .. ResetSize : f[Place][o] = Ending(size, reset, FALSE, o)

\* The invariant of iconv_transcode.
ViewTypes ==
  /\ Staged /\ reset \in Resetting /\ size \in Nat /\ size >= 2
  /\ buffer \in Seq(OutByte(input)) /\ Len(buffer) <= size
  /\ out \in Seq(OutByte(input))
  /\ flush_state \in {"not_started", "in_progress", "done"}
  /\ loading \in BOOLEAN /\ done \in BOOLEAN
  /\ flushing \in BOOLEAN /\ stop_after_output \in BOOLEAN

ViewShape(f) ==
  /\ flushing \/ flush_state # "not_started" => AtEnd(f)
  /\ flushing => loading /\ buffer = <<>> /\ ~stop_after_output
  /\ loading => ~done
  /\ loading /\ stop_after_output => buffer = <<>>
  /\ done => buffer = <<>>
  /\ ~loading /\ ~done => buffer # <<>>

\* What has been read, what is in the buffer and what is to come are the conversion.
ViewPromise(f) == out \o (buffer \o ViewToCome(f)) = Converts(size, FALSE)

ViewInv == ViewTypes /\ ViewShape(ViewFrom) /\ ViewPromise(ViewFrom)

\* What is to come is bytes.
LEMMA ViewToComeTyped ==
  ASSUME ViewTypes, NEW f, f = ViewFrom
  PROVE  /\ f[Place][owed] \in Seq(OutByte(input))
         /\ ViewToCome(f) \in Seq(OutByte(input))
<1>1. f[Place][owed] \in Seq(OutByte(input))
  <2>1. input \in Seq(Byte) /\ owed \in 0 .. ResetSize /\ Place \in 0 .. Len(input)
    <3>1. Staged
      BY DEF ViewTypes
    <3>2. Len(input) \in Nat /\ current <= Len(input) /\ Place <= current /\ Place \in Nat
          /\ current \in Nat
      BY <3>1, StagedIs
    <3> QED
      BY <3>1, <3>2 DEF Staged
  <2>2. size \in Nat /\ reset \in Resetting
    BY DEF ViewTypes
  <2>3. f[Place][owed] \in Seq(Elements(input, FALSE))
    BY <2>1, <2>2, FromTyped DEF ViewFrom
  <2> QED
    BY <2>3, Zenon DEF Elements
<1>2. ViewToCome(f) = <<>> \/ ViewToCome(f) = f[Place][owed]
  BY Zenon DEF ViewToCome
<1>3. <<>> \in Seq(OutByte(input))
  OBVIOUS
<1> QED
  BY <1>1, <1>2, <1>3, Zenon

\* A step that keeps what is to come keeps the invariant.
LEMMA ViewReturns ==
  ASSUME ViewInv, UNCHANGED View!given, out' = out, Staged',
         buffer' \in Seq(OutByte(input)), Len(buffer') <= size,
         flush_state' \in {"not_started", "in_progress", "done"},
         loading' \in BOOLEAN, done' \in BOOLEAN,
         flushing' \in BOOLEAN, stop_after_output' \in BOOLEAN,
         NEW f, f = ViewFrom, ViewShape(f)',
         buffer' \o ViewToCome(f)' = buffer \o ViewToCome(f)
  PROVE  ViewInv'
<1>1. input' = input /\ size' = size /\ opens' = opens /\ reset' = reset
  BY DEF View!given
<1>2. ViewTypes'
  BY <1>1, Zenon DEF ViewInv, ViewTypes
<1>3. ViewFrom' = f
  BY <1>1 DEF ViewFrom
<1>4. ViewPromise(f)'
  <2>1. Converts(size, FALSE)' = Converts(size, FALSE)
    BY <1>1 DEF Converts
  <2>2. out \o (buffer \o ViewToCome(f)) = Converts(size, FALSE)
    BY DEF ViewInv, ViewPromise
  <2> QED
    BY <2>1, <2>2, Zenon DEF ViewPromise
<1>5. ViewPromise(ViewFrom)' /\ ViewShape(ViewFrom)'
  <2>1. ViewPromise(ViewFrom)' = ViewPromise(f)'
    BY <1>3 DEF ViewPromise, ViewToCome
  <2>2. ViewShape(ViewFrom)' = ViewShape(f)'
    BY <1>3 DEF ViewShape, AtEnd
  <2> QED
    BY <1>4, <2>1, <2>2
<1> QED
  BY <1>2, <1>5 DEF ViewInv

\* The loop goes on.
LEMMA ViewContinues ==
  ASSUME ViewInv, View!InLoop, UNCHANGED View!given, out' = out, Staged',
         NEW bytes \in Seq(OutByte(input)), Len(bytes) <= size, View!Continue(bytes),
         flush_state = "not_started", flush_state' = flush_state,
         NEW f, f = ViewFrom, NEW x, buffer \o ViewToCome(f) = bytes \o x,
         x = f[Place'][owed']
  PROVE  ViewInv'
<1>1. /\ buffer' = bytes /\ loading' = loading /\ flushing' = flushing /\ done' = done
      /\ stop_after_output' = stop_after_output
      /\ loading /\ ~flushing /\ ~stop_after_output
  BY DEF View!Continue, View!InLoop
<1>2. ~done
  BY <1>1 DEF ViewInv, ViewShape
<1>3. ViewShape(f)'
  BY <1>1, <1>2, Zenon DEF ViewShape
<1>4. ViewToCome(f)' = x
  BY <1>1, <1>2, Zenon DEF ViewToCome
<1>5. loading' \in BOOLEAN /\ done' \in BOOLEAN
      /\ flushing' \in BOOLEAN /\ stop_after_output' \in BOOLEAN
  BY <1>1, Zenon DEF ViewInv, ViewTypes
<1>6. flush_state' \in {"not_started", "in_progress", "done"}
  BY Zenon DEF ViewInv, ViewTypes
<1> QED
  BY <1>1, <1>3, <1>4, <1>5, <1>6, ViewReturns

\* The loop ends.
LEMMA ViewBreaks ==
  ASSUME ViewInv, View!InLoop, UNCHANGED View!given, out' = out, Staged',
         NEW bytes \in Seq(OutByte(input)), Len(bytes) <= size, View!Break(bytes),
         flush_state' = flush_state,
         NEW f, f = ViewFrom, NEW x, buffer \o ViewToCome(f) = bytes \o x,
         flush_state = "done" => x = <<>>,
         flush_state # "done" => x = f[Place'][owed'],
         bytes = <<>> \/ flush_state # "not_started" => AtEnd(f)'
  PROVE  ViewInv'
<1>1. /\ buffer' = bytes /\ loading' = (bytes = <<>>) /\ flushing' = (bytes = <<>>)
      /\ done' = done /\ stop_after_output' = stop_after_output
      /\ loading /\ ~flushing /\ ~stop_after_output
  BY DEF View!Break, View!InLoop
<1>2. ~done
  BY <1>1 DEF ViewInv, ViewShape
<1>3. ViewShape(f)'
  BY <1>1, <1>2, Zenon DEF ViewShape
<1>4. ViewToCome(f)' = x
  BY <1>1, <1>2, Zenon DEF ViewToCome
<1>5. loading' \in BOOLEAN /\ done' \in BOOLEAN
      /\ flushing' \in BOOLEAN /\ stop_after_output' \in BOOLEAN
  BY <1>1, Zenon DEF ViewInv, ViewTypes
<1>6. flush_state' \in {"not_started", "in_progress", "done"}
  BY Zenon DEF ViewInv, ViewTypes
<1> QED
  BY <1>1, <1>3, <1>4, <1>5, <1>6, ViewReturns

\* load() ends the range.
LEMMA ViewEnds ==
  ASSUME ViewInv, loading, UNCHANGED View!given, out' = out, Staged', View!End,
         buffer = <<>>, flush_state' \in {"not_started", "in_progress", "done"},
         NEW f, f = ViewFrom, buffer \o ViewToCome(f) = <<>>,
         flush_state' # "not_started" => AtEnd(f)'
  PROVE  ViewInv'
<1>1. /\ done' = TRUE /\ loading' = FALSE /\ flushing' = FALSE
      /\ buffer' = buffer /\ stop_after_output' = stop_after_output
  BY DEF View!End
<1>2. ViewShape(f)'
  BY <1>1, Zenon DEF ViewShape
<1>3. ViewToCome(f)' = <<>>
  BY <1>1, Zenon DEF ViewToCome
<1>4. loading' \in BOOLEAN /\ done' \in BOOLEAN
      /\ flushing' \in BOOLEAN /\ stop_after_output' \in BOOLEAN
  BY <1>1, Zenon DEF ViewInv, ViewTypes
<1>5. buffer' \in Seq(OutByte(input)) /\ Len(buffer') <= size
  BY <1>1 DEF ViewInv, ViewTypes
<1>6. buffer' \o ViewToCome(f)' = buffer \o ViewToCome(f)
  BY <1>1, <1>3
<1> QED
  BY <1>2, <1>4, <1>5, <1>6, ViewReturns

\* load() returns with the last output, or ends the range.
LEMMA ViewEndsWith ==
  ASSUME ViewInv, loading, UNCHANGED View!given, out' = out, Staged',
         NEW bytes \in Seq(OutByte(input)), Len(bytes) <= size, View!EndWith(bytes),
         bytes = <<>> => buffer = <<>>,
         flush_state' \in {"not_started", "in_progress", "done"},
         NEW f, f = ViewFrom, buffer \o ViewToCome(f) = bytes,
         flush_state' # "not_started" => AtEnd(f)'
  PROVE  ViewInv'
<1>1. CASE bytes = <<>>
  <2>1. View!End
    BY <1>1 DEF View!EndWith
  <2> QED
    BY <1>1, <2>1, ViewEnds
<1>2. CASE bytes # <<>>
  <2>1. /\ buffer' = bytes /\ loading' = FALSE /\ flushing' = FALSE
        /\ stop_after_output' = TRUE /\ done' = done
    BY <1>2 DEF View!EndWith
  <2>2. ~done
    BY DEF ViewInv, ViewShape
  <2>3. ViewShape(f)'
    BY <1>2, <2>1, <2>2, Zenon DEF ViewShape
  <2>4. ViewToCome(f)' = <<>>
    BY <2>1, Zenon DEF ViewToCome
  <2>5. buffer' \o ViewToCome(f)' = buffer \o ViewToCome(f)
    BY <2>1, <2>4
  <2>6. loading' \in BOOLEAN /\ done' \in BOOLEAN
        /\ flushing' \in BOOLEAN /\ stop_after_output' \in BOOLEAN
    BY <2>1, Zenon DEF ViewInv, ViewTypes
  <2> QED
    BY <2>1, <2>3, <2>5, <2>6, ViewReturns
<1> QED
  BY <1>1, <1>2

-----------------------------------------------------------------------------
\* What is in the buffer behind a call of convert().
Output == buffer \o Written

\* A turn of the loop of iconv_transcode that converts a batch, up to n.
ViewTurned(f, n) ==
  /\ View!InLoop /\ loading /\ flush_state = "not_started" /\ flush_state' = flush_state
  /\ UNCHANGED View!given /\ out' = out
  /\ input' = input /\ size' = size /\ reset' = reset
  /\ owed' \in 0 .. ResetSize
  /\ Output \in Seq(OutByte(input)) /\ Len(Output) <= size
  /\ Output = <<>> => buffer = <<>> /\ Written = <<>>
  /\ f[n][owed'] \in Seq(OutByte(input))
  /\ buffer \o ViewToCome(f) = Output \o f[n][owed']
  /\ n \in Nat /\ Place <= n /\ n <= Taken /\ Taken \in Nat /\ Taken <= Len(input)
  /\ Place \in Nat /\ Len(input) \in Nat
  /\ n < Taken => Left = Span(n, Taken) /\ Tail(Left) = Span(n + 1, Taken)

\* A turn that converts is ViewTurned, up to some place.
LEMMA ViewConverts ==
  ASSUME ViewInv, NEW errno, View!Converting(errno), NEW f, f = ViewFrom
  PROVE  /\ Step.errno = errno
         /\ \E n : /\ ViewTurned(f, n)
                   /\ owed' = Step.owed
                   /\ Says(f, input, size, reset, FALSE, Taken, size - Len(buffer), n, Step)
<1>1. /\ View!InLoop /\ loading /\ ~stop_after_output
      /\ flush_state = "not_started" /\ flush_state' = flush_state
      /\ UNCHANGED View!given /\ out' = out
      /\ owed' = Step.owed /\ Step.errno = errno
  BY SameBatchView DEF View!Converting, View!InLoop
<1>2. input' = input /\ size' = size /\ reset' = reset
  BY <1>1 DEF View!given
<1>3. Staged /\ reset \in Resetting /\ size \in Nat /\ buffer \in Seq(OutByte(input))
      /\ Len(buffer) <= size
  BY DEF ViewInv, ViewTypes
<1>4. ~done
  BY <1>1 DEF ViewInv, ViewShape
<1>5. PICK n : Stepped(f, FALSE, n)
  BY <1>3, StepSays DEF ViewFrom
<1>6. /\ owed' \in 0 .. ResetSize
      /\ Written \in Seq(OutByte(input)) /\ Len(Written) <= size - Len(buffer)
      /\ f[Place][owed] = Written \o f[n][owed']
      /\ Says(f, input, size, reset, FALSE, Taken, size - Len(buffer), n, Step)
      /\ n \in Nat /\ Place <= n /\ n <= Taken
      /\ n < Taken => Left = Span(n, Taken) /\ Tail(Left) = Span(n + 1, Taken)
      /\ f[n][owed'] \in Seq(Elements(input, FALSE))
  BY <1>1, <1>5, Zenon DEF Stepped
<1>7. f[n][owed'] \in Seq(OutByte(input))
  BY <1>6, Zenon DEF Elements
<1>8. ViewToCome(f) = f[Place][owed]
  BY <1>1, <1>4, Zenon DEF ViewToCome
<1>9. Output \in Seq(OutByte(input)) /\ Len(Output) <= size
  <2>1. Output \in Seq(OutByte(input)) /\ Len(Output) = Len(buffer) + Len(Written)
    BY <1>3, <1>6, Joined DEF Output
  <2>2. Len(buffer) \in Nat /\ Len(Written) \in Nat
    BY <1>3, <1>6, LenProperties
  <2> QED
    BY <1>3, <1>6, <2>1, <2>2
<1>10. Output = <<>> => buffer = <<>> /\ Written = <<>>
  BY <1>3, <1>6, JoinedNothing DEF Output
<1>11. buffer \o ViewToCome(f) = Output \o f[n][owed']
  <2>1. PICK x : x = f[n][owed']
    OBVIOUS
  <2>2. InTurn(buffer, Written, x)
    BY <1>3, <1>6, <1>7, <2>1, JoinedInTurn
  <2> QED
    BY <1>6, <1>8, <2>1, <2>2, Zenon DEF InTurn, Output
<1>12. Taken \in Nat /\ Taken <= Len(input) /\ Place \in Nat /\ Len(input) \in Nat
  BY <1>3, BatchIs, StagedIs
<1>13. ViewTurned(f, n)
  BY <1>1, <1>2, <1>6, <1>7, <1>9, <1>10, <1>11, <1>12, Zenon DEF ViewTurned
<1> QED
  BY <1>1, <1>6, <1>13, Zenon

\* What is kept puts the iterator at m.
LEMMA ViewKeeps ==
  ASSUME ViewInv, NEW f, NEW n, ViewTurned(f, n),
         NEW m \in Nat, Place <= m, m <= Taken, Keep(Span(m, Taken))
  PROVE  Staged' /\ Place' = m
<1>1. Staged
  BY DEF ViewInv, ViewTypes
<1> QED
  BY <1>1, KeepMoves, MovedStaged DEF ViewTurned

\* What it stages leaves it at that place.
LEMMA ViewStages ==
  ASSUME ViewInv, NEW f, NEW n, ViewTurned(f, n),
         NEW m \in Nat, Place <= m, m <= Taken, Taken <= m + 1, Stage(Span(m, Taken))
  PROVE  Staged' /\ Place' = m
<1>1. Staged
  BY DEF ViewInv, ViewTypes
<1>2. Taken - m <= StagingSize
  <2>1. Taken \in Nat
    BY DEF ViewTurned
  <2> QED
    BY <2>1, StagingAssumption
<1> QED
  BY <1>1, <1>2, StageMoves, MovedStaged DEF ViewTurned

\* At the end of the input nothing but the flush is to come.
LEMMA ViewAtEnd ==
  ASSUME ViewTypes, Place = Len(input), NEW f, f = ViewFrom
  PROVE  AtEnd(f)
<1>1. input \in Seq(Byte) /\ size \in Nat
  BY DEF ViewTypes, Staged
<1>2. PICK rep : rep = FALSE
  OBVIOUS
<1>3. f = From(input, size, reset, rep)
  BY <1>2, Zenon DEF ViewFrom
<1>4. ASSUME NEW o \in 0 .. ResetSize PROVE f[Place][o] = Ending(size, reset, FALSE, o)
  <2>1. f[Len(input)][o] = Ending(size, reset, rep, o)
    BY <1>1, <1>3, FromEnds
  <2> QED
    BY <1>2, <2>1, Zenon
<1> QED
  BY <1>4 DEF AtEnd

\* At the end, what follows is what is owed.
LEMMA ViewAtEndThen ==
  ASSUME ViewInv, NEW f, f = ViewFrom, NEW n, ViewTurned(f, n), Place' = Len(input)
  PROVE  AtEnd(f)'
<1>1. input \in Seq(Byte) /\ size \in Nat
  BY DEF ViewInv, ViewTypes, Staged
<1>2. PICK rep : rep = FALSE
  OBVIOUS
<1>3. f = From(input, size, reset, rep)
  BY <1>2, Zenon DEF ViewFrom
<1>4. size' = size /\ reset' = reset
  BY DEF ViewTurned
<1>5. ASSUME NEW o \in 0 .. ResetSize PROVE f[Place'][o] = Ending(size', reset', FALSE, o)
  <2>1. f[Len(input)][o] = Ending(size, reset, rep, o)
    BY <1>1, <1>3, FromEnds
  <2> QED
    BY <1>2, <1>4, <2>1, Zenon
<1> QED
  BY <1>5 DEF AtEnd

\* Errors are not reported.
LEMMA NotReported ==
  ASSUME NEW e, NEW S, NEW x \in Seq(S)
  PROVE  Reported(e, FALSE) = <<>> /\ Reported(e, FALSE) \o x = x
BY DEF Reported

\* The turns that convert a batch, one lemma each.
LEMMA ViewConvertAll ==
  ASSUME ViewInv, View!ConvertAll
  PROVE  ViewInv'
<1>1. PICK f : f = ViewFrom
  OBVIOUS
<1>2. /\ View!Converting("ok") /\ Keep(<<>>)
      /\ Taken = Len(input) => View!Break(Output)
      /\ Taken # Len(input) => View!Continue(Output)
  BY SameBatchView DEF View!ConvertAll, View!Output, Output
<1>3. PICK n : /\ ViewTurned(f, n) /\ Step.errno = "ok"
               /\ Says(f, input, size, reset, FALSE, Taken, size - Len(buffer), n, Step)
  BY <1>1, <1>2, ViewConverts
<1>4. n = Taken
  BY <1>3, Zenon DEF Says
<1>5. /\ View!InLoop /\ loading /\ flush_state = "not_started" /\ flush_state' = flush_state
      /\ UNCHANGED View!given /\ out' = out
      /\ Output \in Seq(OutByte(input)) /\ Len(Output) <= size
      /\ buffer \o ViewToCome(f) = Output \o f[n][owed']
      /\ n \in Nat /\ Place <= n /\ Place \in Nat
  BY <1>3, Zenon DEF ViewTurned
<1>6. Span(n, n) = <<>> /\ n <= n
  BY <1>5, SpanEmpty
<1>7. Staged' /\ Place' = n
  BY <1>2, <1>3, <1>4, <1>5, <1>6, ViewKeeps
<1>8. CASE Taken = Len(input)
  <2>1. AtEnd(f)'
    BY <1>1, <1>3, <1>4, <1>7, <1>8, ViewAtEndThen
  <2> QED
    BY <1>1, <1>2, <1>5, <1>7, <1>8, <2>1, ViewBreaks
<1>9. CASE Taken # Len(input)
  BY <1>1, <1>2, <1>5, <1>7, <1>9, ViewContinues
<1> QED
  BY <1>8, <1>9

LEMMA ViewOutputFull ==
  ASSUME ViewInv, View!OutputFull
  PROVE  ViewInv'
<1>1. PICK f : f = ViewFrom
  OBVIOUS
<1>2. /\ View!Converting("E2BIG") /\ Keep(Left)
      /\ Output = <<>> => View!End
      /\ Output # <<>> => View!Break(Output)
  BY SameBatchView DEF View!OutputFull, View!Output, Output
<1>3. PICK n : /\ ViewTurned(f, n) /\ Step.errno = "E2BIG"
               /\ Says(f, input, size, reset, FALSE, Taken, size - Len(buffer), n, Step)
  BY <1>1, <1>2, ViewConverts
<1>4. n < Taken /\ size - Len(buffer) < Len(Written) + 2
  BY <1>3, Zenon DEF Says, Written
<1>5. /\ View!InLoop /\ loading /\ flush_state = "not_started" /\ flush_state' = flush_state
      /\ UNCHANGED View!given /\ out' = out
      /\ Output \in Seq(OutByte(input)) /\ Len(Output) <= size
      /\ Output = <<>> => buffer = <<>> /\ Written = <<>>
      /\ buffer \o ViewToCome(f) = Output \o f[n][owed']
      /\ n \in Nat /\ Place <= n /\ n <= Taken
      /\ Left = Span(n, Taken)
  BY <1>3, <1>4, Zenon DEF ViewTurned
<1>6. Staged' /\ Place' = n
  BY <1>2, <1>3, <1>5, ViewKeeps
<1>7. CASE Output = <<>>
  <2>1. buffer = <<>> /\ Written = <<>> /\ size \in Nat /\ size >= 2
    BY <1>5, <1>7 DEF ViewInv, ViewTypes
  <2>2. Len(buffer) = 0 /\ Len(Written) = 0
    BY <2>1
  <2> QED
    BY <1>4, <2>1, <2>2
<1>8. CASE Output # <<>>
  BY <1>1, <1>2, <1>5, <1>6, <1>8, ViewBreaks
<1> QED
  BY <1>7, <1>8

LEMMA ViewCutShort ==
  ASSUME ViewInv, View!CutShort
  PROVE  ViewInv'
<1>1. PICK f : f = ViewFrom
  OBVIOUS
<1>2. /\ View!Converting("EINVAL")
      /\ Straight => Stage(Left) /\ View!Break(Output)
      /\ ~Straight /\ Taken = Len(input) => Stage(<<>>) /\ View!Break(Output)
      /\ ~Straight /\ Taken # Len(input) => Stage(Left) /\ View!Continue(Output)
  BY SameBatchView DEF View!CutShort, View!Output, Output
<1>3. PICK n : /\ ViewTurned(f, n) /\ Step.errno = "EINVAL"
               /\ Says(f, input, size, reset, FALSE, Taken, size - Len(buffer), n, Step)
  BY <1>1, <1>2, ViewConverts
<1>4. /\ n < Taken /\ n + 1 = Taken
      /\ Taken = Len(input) => \A i \in 0 .. ResetSize :
           f[n][i] = Reported("incomplete_sequence", FALSE) \o Ending(size, reset, FALSE, i)
  BY <1>3, Zenon DEF Says
<1>5. /\ View!InLoop /\ loading /\ flush_state = "not_started" /\ flush_state' = flush_state
      /\ UNCHANGED View!given /\ out' = out
      /\ Output \in Seq(OutByte(input)) /\ Len(Output) <= size
      /\ buffer \o ViewToCome(f) = Output \o f[n][owed']
      /\ n \in Nat /\ Place <= n /\ n <= Taken /\ Place \in Nat /\ Taken \in Nat
      /\ Left = Span(n, Taken) /\ owed' \in 0 .. ResetSize
      /\ input' = input /\ size' = size /\ reset' = reset
  BY <1>3, <1>4, Zenon DEF ViewTurned
<1>6. ASSUME Taken = Len(input), NEW i \in 0 .. ResetSize
      PROVE  f[n][i] = Ending(size, reset, FALSE, i)
  <2>1. Ending(size, reset, FALSE, i) \in Seq(Elements(input, FALSE))
    BY EndingIs DEF ViewInv, ViewTypes, Staged
  <2>2. Reported("incomplete_sequence", FALSE) \o Ending(size, reset, FALSE, i)
          = Ending(size, reset, FALSE, i)
    BY <2>1, NotReported
  <2> QED
    BY <1>4, <1>6, <2>2
<1>7. Taken <= n + 1
  BY <1>4, <1>5
<1>8. CASE Straight
  <2>1. Staged
    BY DEF ViewInv, ViewTypes
  <2>2. Taken = Len(input)
    BY <1>8, <2>1, BatchIs
  <2>3. Staged' /\ Place' = n
    BY <1>2, <1>3, <1>5, <1>7, <1>8, ViewStages
  <2>4. AtEnd(f)'
    BY <1>5, <1>6, <2>2, <2>3 DEF AtEnd
  <2> QED
    BY <1>1, <1>2, <1>5, <1>8, <2>3, <2>4, ViewBreaks
<1>9. CASE ~Straight /\ Taken = Len(input)
  <2>1. PICK m : m = Taken
    OBVIOUS
  <2>2. m \in Nat /\ Place <= m /\ m <= Taken /\ Taken <= m + 1
    BY <1>5, <2>1
  <2>3. Span(m, Taken) = <<>>
    BY <2>1, <2>2, SpanEmpty
  <2>4. Staged' /\ Place' = m
    BY <1>2, <1>3, <1>9, <2>2, <2>3, ViewStages
  <2>5. AtEnd(f)'
    BY <1>1, <1>3, <1>9, <2>1, <2>4, ViewAtEndThen
  <2>6. f[n][owed'] = Ending(size, reset, FALSE, owed')
    BY <1>5, <1>6, <1>9
  <2>7. f[Place'][owed'] = Ending(size, reset, FALSE, owed')
    BY <1>5, <2>5, Zenon DEF AtEnd
  <2> QED
    BY <1>1, <1>2, <1>5, <1>9, <2>4, <2>5, <2>6, <2>7, ViewBreaks
<1>10. CASE ~Straight /\ Taken # Len(input)
  <2>1. Staged' /\ Place' = n
    BY <1>2, <1>3, <1>5, <1>7, <1>10, ViewStages
  <2> QED
    BY <1>1, <1>2, <1>5, <1>10, <2>1, ViewContinues
<1> QED
  BY <1>8, <1>9, <1>10

LEMMA ViewInvalid ==
  ASSUME ViewInv, View!Invalid
  PROVE  ViewInv'
<1>1. PICK f : f = ViewFrom
  OBVIOUS
<1>2. /\ View!Converting("EILSEQ") /\ Keep(Tail(Left))
      /\ Taken = Len(input) /\ Tail(Left) = <<>> => View!Break(Output)
      /\ ~(Taken = Len(input) /\ Tail(Left) = <<>>) => View!Continue(Output)
  BY SameBatchView DEF View!Invalid, View!Output, Output
<1>3. PICK n : /\ ViewTurned(f, n) /\ Step.errno = "EILSEQ" /\ owed' = Step.owed
               /\ Says(f, input, size, reset, FALSE, Taken, size - Len(buffer), n, Step)
  BY <1>1, <1>2, ViewConverts
<1>4. n < Taken
      /\ f[n][owed'] = Reported("invalid_sequence", FALSE) \o f[n + 1][owed']
  BY <1>3, Zenon DEF Says
<1>5. /\ View!InLoop /\ loading /\ flush_state = "not_started" /\ flush_state' = flush_state
      /\ UNCHANGED View!given /\ out' = out
      /\ Output \in Seq(OutByte(input)) /\ Len(Output) <= size
      /\ buffer \o ViewToCome(f) = Output \o f[n][owed']
      /\ f[n][owed'] \in Seq(OutByte(input))
      /\ n \in Nat /\ Place <= n /\ n <= Taken /\ Place \in Nat /\ Taken \in Nat
      /\ Tail(Left) = Span(n + 1, Taken) /\ owed' \in 0 .. ResetSize
      /\ Taken <= Len(input) /\ Len(input) \in Nat
  BY <1>3, <1>4, Zenon DEF ViewTurned
<1>6. PICK m : m = n + 1
  OBVIOUS
<1>7. m \in Nat /\ Place <= m /\ m <= Taken /\ m \in 0 .. Len(input)
  BY <1>4, <1>5, <1>6
<1>8. Staged' /\ Place' = m
  BY <1>2, <1>3, <1>5, <1>6, <1>7, ViewKeeps
<1>9. f[n][owed'] = f[m][owed']
  <2>1. f[m][owed'] \in Seq(Elements(input, FALSE))
    <3>1. PICK o : o = owed'
      OBVIOUS
    <3>2. o \in 0 .. ResetSize
      BY <1>5, <3>1
    <3>3. f[m][o] \in Seq(Elements(input, FALSE))
      BY <1>1, <1>7, <3>2, FromTyped DEF ViewInv, ViewTypes, Staged, ViewFrom
    <3> QED
      BY <3>1, <3>3
  <2>2. Reported("invalid_sequence", FALSE) \o f[m][owed'] = f[m][owed']
    BY <2>1, NotReported
  <2> QED
    BY <1>4, <1>6, <2>2, Zenon
<1>10. CASE Taken = Len(input) /\ Tail(Left) = <<>>
  <2>1. m = Taken
    <3>1. Len(Span(m, Taken)) = Taken - m
      BY <1>5, <1>7, SpanIs
    <3>2. Span(m, Taken) = <<>>
      BY <1>5, <1>6, <1>10, Zenon
    <3>3. Len(Span(m, Taken)) = 0
      BY <3>2
    <3> QED
      BY <1>5, <1>7, <3>1, <3>3
  <2>2. AtEnd(f)'
    BY <1>1, <1>3, <1>8, <1>10, <2>1, ViewAtEndThen
  <2> QED
    BY <1>1, <1>2, <1>5, <1>8, <1>9, <1>10, <2>2, ViewBreaks
<1>11. CASE ~(Taken = Len(input) /\ Tail(Left) = <<>>)
  BY <1>1, <1>2, <1>5, <1>8, <1>9, <1>11, ViewContinues
<1> QED
  BY <1>10, <1>11

LEMMA ViewConverterFails ==
  ASSUME ViewInv, View!ConverterFails
  PROVE  ViewInv'
<1>1. PICK f : f = ViewFrom
  OBVIOUS
<1>2. View!Converting("other") /\ Keep(Left) /\ View!EndWith(Output)
  BY SameBatchView DEF View!ConverterFails, View!Output, Output
<1>3. PICK n : /\ ViewTurned(f, n) /\ Step.errno = "other" /\ owed' = Step.owed
               /\ Says(f, input, size, reset, FALSE, Taken, size - Len(buffer), n, Step)
  BY <1>1, <1>2, ViewConverts
<1>4. n < Taken /\ f[n][owed'] = Reported("system_error", FALSE)
  BY <1>3, Zenon DEF Says
<1>5. /\ View!InLoop /\ loading /\ flush_state = "not_started" /\ flush_state' = flush_state
      /\ UNCHANGED View!given /\ out' = out
      /\ Output \in Seq(OutByte(input)) /\ Len(Output) <= size
      /\ Output = <<>> => buffer = <<>>
      /\ buffer \o ViewToCome(f) = Output \o f[n][owed']
      /\ n \in Nat /\ Place <= n /\ n <= Taken
      /\ Left = Span(n, Taken)
  BY <1>3, <1>4, Zenon DEF ViewTurned
<1>6. Staged' /\ Place' = n
  BY <1>2, <1>3, <1>5, ViewKeeps
<1>7. buffer \o ViewToCome(f) = Output
  <2>1. f[n][owed'] = <<>>
    BY <1>4 DEF Reported
  <2>2. Output \o <<>> = Output
    BY <1>5
  <2> QED
    BY <1>5, <2>1, <2>2, Zenon
<1>8. flush_state' \in {"not_started", "in_progress", "done"}
  BY <1>5, Zenon
<1> QED
  BY <1>1, <1>2, <1>5, <1>6, <1>7, <1>8, ViewEndsWith, SMTT(30)

-----------------------------------------------------------------------------
\* A flush of iconv_transcode.
ViewFlushed(f) ==
  /\ loading /\ buffer = <<>> /\ UNCHANGED View!given /\ out' = out /\ Staged'
  /\ Flush.written \in Seq(OutByte(input)) /\ Len(Flush.written) <= size
  /\ EndSays(size, reset, FALSE, owed, size, Flush)
  /\ buffer \o ViewToCome(f) = Ending(size, reset, FALSE, owed)
  /\ f[Place'][owed'] = Ending(size, reset, FALSE, owed')
  /\ owed' = Flush.owed
  /\ AtEnd(f)'

\* A turn that flushes is ViewFlushed.
LEMMA ViewFlushes ==
  ASSUME ViewInv, NEW errno, View!Flushing(errno), NEW f, f = ViewFrom
  PROVE  Flush.errno = errno /\ ViewFlushed(f)
<1>1. /\ loading /\ flushing /\ flush_state # "done" /\ Flush.errno = errno /\ owed' = Flush.owed
      /\ UNCHANGED View!given /\ out' = out /\ current' = current /\ staging' = staging
  BY SameBatchView DEF View!Flushing
<1>2. input' = input /\ size' = size /\ reset' = reset
  BY <1>1 DEF View!given
<1>3. Staged /\ reset \in Resetting /\ size \in Nat
  BY DEF ViewInv, ViewTypes
<1>4. buffer = <<>> /\ ~done /\ AtEnd(f)
  BY <1>1 DEF ViewInv, ViewShape
<1>5. /\ Flushes(input, reset, owed, size, Flush)
      /\ EndSays(size, reset, FALSE, owed, size, Flush)
  BY <1>3, ViewFlushSays
<1>6. /\ Flush.owed \in 0 .. ResetSize
      /\ Flush.written \in Seq(OutByte(input)) /\ Len(Flush.written) <= size
  BY <1>5, Zenon DEF Flushes
<1>7. Staged' /\ Place' = Place
  BY <1>1, <1>2, <1>3, <1>6 DEF Staged, Place
<1>8. AtEnd(f)'
  BY <1>2, <1>4, <1>7 DEF AtEnd
<1>9. f[Place][owed] = Ending(size, reset, FALSE, owed)
  BY <1>3, <1>4 DEF AtEnd, Staged
<1>10. f[Place'][owed'] = Ending(size, reset, FALSE, owed')
  BY <1>1, <1>2, <1>6, <1>8, Zenon DEF AtEnd
<1>11. ~stop_after_output
  BY <1>1 DEF ViewInv, ViewShape
<1>12. buffer \o ViewToCome(f) = Ending(size, reset, FALSE, owed)
  <2>1. ViewToCome(f) = f[Place][owed]
    BY <1>1, <1>4, <1>11, Zenon DEF ViewToCome
  <2>2. ViewToCome(f) \in Seq(OutByte(input))
    BY ViewToComeTyped DEF ViewInv
  <2>3. <<>> \o ViewToCome(f) = ViewToCome(f)
    BY <2>2
  <2> QED
    BY <1>4, <1>9, <2>1, <2>3, Zenon
<1> QED
  BY <1>1, <1>4, <1>5, <1>6, <1>7, <1>8, <1>10, <1>12, Zenon DEF ViewFlushed

\* load() returns with what the flush has written.
LEMMA ViewYields ==
  ASSUME ViewInv, NEW f, f = ViewFrom, ViewFlushed(f), View!Yield, Flush.written # <<>>,
         flush_state' \in {"in_progress", "done"}, ~stop_after_output,
         NEW x, buffer \o ViewToCome(f) = Flush.written \o x,
         flush_state' = "done" => x = <<>>,
         flush_state' # "done" => x = f[Place'][owed']
  PROVE  ViewInv'
<1>1. /\ buffer' = Flush.written /\ loading' = FALSE /\ flushing' = FALSE
      /\ done' = done /\ stop_after_output' = stop_after_output
  BY SameBatchView DEF View!Yield
<1>2. /\ loading /\ UNCHANGED View!given /\ out' = out /\ Staged'
      /\ Flush.written \in Seq(OutByte(input)) /\ Len(Flush.written) <= size
      /\ AtEnd(f)'
  BY DEF ViewFlushed
<1>3. ~done
  BY <1>2 DEF ViewInv, ViewShape
<1>4. ViewShape(f)'
  BY <1>1, <1>2, <1>3, Zenon DEF ViewShape
<1>5. ViewToCome(f)' = x
  BY <1>1, <1>3, Zenon DEF ViewToCome
<1>6. loading' \in BOOLEAN /\ done' \in BOOLEAN
      /\ flushing' \in BOOLEAN /\ stop_after_output' \in BOOLEAN
      /\ flush_state' \in {"not_started", "in_progress", "done"}
  BY <1>1, Zenon DEF ViewInv, ViewTypes
<1> QED
  BY <1>1, <1>2, <1>4, <1>5, <1>6, ViewReturns

\* The turns that flush, one lemma each, and those that leave the loop.
LEMMA ViewFlushMore ==
  ASSUME ViewInv, View!FlushMore
  PROVE  ViewInv'
<1>1. PICK f : f = ViewFrom
  OBVIOUS
<1>2. /\ View!Flushing("E2BIG")
      /\ Flush.written = <<>> => flush_state' = "done" /\ View!End
      /\ Flush.written # <<>> => flush_state' = "in_progress" /\ View!Yield
  BY SameBatchView DEF View!FlushMore
<1>3. ViewFlushed(f) /\ Flush.errno = "E2BIG"
  BY <1>1, <1>2, ViewFlushes
<1>4. ~stop_after_output
  BY <1>2 DEF ViewInv, ViewShape, View!Flushing
<1>5. /\ Flush.written = <<>> => buffer \o ViewToCome(f) = Reported("output_full", FALSE)
      /\ Flush.written # <<>> => buffer \o ViewToCome(f) = Flush.written \o f[Place'][owed']
  BY <1>3, Zenon DEF ViewFlushed, EndSays
<1>6. CASE Flush.written = <<>>
  <2>1. buffer \o ViewToCome(f) = <<>>
    BY <1>5, <1>6 DEF Reported
  <2> QED
    BY <1>1, <1>2, <1>3, <1>6, <2>1, ViewEnds DEF ViewFlushed
<1>7. CASE Flush.written # <<>>
  BY <1>1, <1>2, <1>3, <1>4, <1>5, <1>7, ViewYields
<1> QED
  BY <1>6, <1>7

LEMMA ViewFlushAll ==
  ASSUME ViewInv, View!FlushAll
  PROVE  ViewInv'
<1>1. PICK f : f = ViewFrom
  OBVIOUS
<1>2. /\ View!Flushing("ok") /\ flush_state' = "done"
      /\ Flush.written = <<>> => View!End
      /\ Flush.written # <<>> => View!Yield
  BY SameBatchView DEF View!FlushAll
<1>3. ViewFlushed(f) /\ Flush.errno = "ok"
  BY <1>1, <1>2, ViewFlushes
<1>4. ~stop_after_output
  BY <1>2 DEF ViewInv, ViewShape, View!Flushing
<1>5. buffer \o ViewToCome(f) = Flush.written /\ Flush.written \in Seq(OutByte(input))
  BY <1>3, Zenon DEF ViewFlushed, EndSays
<1>6. CASE Flush.written = <<>>
  BY <1>1, <1>2, <1>3, <1>5, <1>6, ViewEnds DEF ViewFlushed
<1>7. CASE Flush.written # <<>>
  <2>1. buffer \o ViewToCome(f) = Flush.written \o <<>>
    BY <1>5
  <2> QED
    BY <1>1, <1>2, <1>3, <1>4, <1>7, <2>1, ViewYields
<1> QED
  BY <1>6, <1>7

LEMMA ViewFlushFails ==
  ASSUME ViewInv, View!FlushFails
  PROVE  ViewInv'
<1>1. PICK f : f = ViewFrom
  OBVIOUS
<1>2. PICK errno \in Errno \ {"ok", "E2BIG"} : View!Flushing(errno)
  BY DEF View!FlushFails, View!Errno, Errno
<1>3. flush_state' = "done" /\ View!EndWith(Flush.written)
  BY SameBatchView DEF View!FlushFails
<1>4. ViewFlushed(f) /\ Flush.errno = errno
  BY <1>1, <1>2, ViewFlushes
<1>5. buffer \o ViewToCome(f) = Flush.written \o Reported(ResetError(Flush.errno), FALSE)
      /\ Flush.written \in Seq(OutByte(input))
  BY <1>2, <1>4, Zenon DEF ViewFlushed, EndSays
<1>6. buffer \o ViewToCome(f) = Flush.written
  <2>1. Reported(ResetError(Flush.errno), FALSE) = <<>>
    BY DEF Reported
  <2>2. Flush.written \o <<>> = Flush.written
    BY <1>5
  <2> QED
    BY <1>5, <2>1, <2>2, Zenon
<1> QED
  BY <1>1, <1>3, <1>4, <1>6, ViewEndsWith DEF ViewFlushed

LEMMA ViewAfterFlush ==
  ASSUME ViewInv, View!AfterFlush
  PROVE  ViewInv'
<1>1. PICK f : f = ViewFrom
  OBVIOUS
<1>2. /\ loading /\ flushing /\ flush_state = "done" /\ View!End
      /\ UNCHANGED View!given /\ out' = out /\ owed' = owed
      /\ current' = current /\ staging' = staging /\ flush_state' = flush_state
  BY DEF View!AfterFlush
<1>3. input' = input /\ size' = size /\ reset' = reset
  BY <1>2 DEF View!given
<1>4. buffer = <<>> /\ AtEnd(f)
  BY <1>1, <1>2 DEF ViewInv, ViewShape
<1>5. Staged' /\ Place' = Place
  BY <1>2, <1>3 DEF ViewInv, ViewTypes, Staged, Place
<1>6. AtEnd(f)'
  BY <1>3, <1>4, <1>5 DEF AtEnd
<1>7. buffer \o ViewToCome(f) = <<>>
  <2>1. ViewToCome(f) = <<>>
    BY <1>2, Zenon DEF ViewToCome
  <2> QED
    BY <1>4, <2>1
<1> QED
  BY <1>1, <1>2, <1>4, <1>5, <1>6, <1>7, ViewEnds

LEMMA ViewStopAfterOutput ==
  ASSUME ViewInv, View!StopAfterOutput
  PROVE  ViewInv'
<1>1. PICK f : f = ViewFrom
  OBVIOUS
<1>2. /\ loading /\ stop_after_output /\ View!End
      /\ UNCHANGED View!given /\ out' = out /\ owed' = owed
      /\ current' = current /\ staging' = staging /\ flush_state' = flush_state
  BY DEF View!StopAfterOutput
<1>3. input' = input /\ size' = size /\ reset' = reset
  BY <1>2 DEF View!given
<1>4. buffer = <<>> /\ (flush_state # "not_started" => AtEnd(f))
      /\ flush_state \in {"not_started", "in_progress", "done"}
  BY <1>1, <1>2 DEF ViewInv, ViewShape, ViewTypes
<1>5. Staged' /\ Place' = Place
  BY <1>2, <1>3 DEF ViewInv, ViewTypes, Staged, Place
<1>6. flush_state' # "not_started" => AtEnd(f)'
  BY <1>2, <1>3, <1>4, <1>5 DEF AtEnd
<1>7. buffer \o ViewToCome(f) = <<>>
  <2>1. ViewToCome(f) = <<>>
    BY <1>2, Zenon DEF ViewToCome
  <2> QED
    BY <1>4, <2>1
<1> QED
  BY <1>1, <1>2, <1>4, <1>5, <1>6, <1>7, ViewEnds

LEMMA ViewLoopEnds ==
  ASSUME ViewInv, View!LoopEnds
  PROVE  ViewInv'
<1>1. PICK f : f = ViewFrom
  OBVIOUS
<1>2. /\ View!InLoop /\ loading /\ ~stop_after_output /\ View!Break(buffer)
      /\ flush_state # "not_started" \/ Len(buffer) = size \/ Batch = <<>>
      /\ UNCHANGED View!given /\ out' = out /\ owed' = owed
      /\ current' = current /\ staging' = staging /\ flush_state' = flush_state
  BY SameBatchView DEF View!LoopEnds, View!InLoop
<1>3. input' = input /\ size' = size /\ reset' = reset
  BY <1>2 DEF View!given
<1>4. ViewTypes /\ Staged /\ size \in Nat /\ size >= 2 /\ buffer \in Seq(OutByte(input))
      /\ Len(buffer) <= size /\ ~done /\ (flush_state # "not_started" => AtEnd(f))
  BY <1>1, <1>2 DEF ViewInv, ViewTypes, ViewShape
<1>5. Staged' /\ Place' = Place
  BY <1>2, <1>3 DEF ViewInv, ViewTypes, Staged, Place
<1>6. buffer = <<>> \/ flush_state # "not_started" => AtEnd(f)
  <2>1. CASE flush_state # "not_started"
    BY <1>4, <2>1
  <2>2. CASE buffer = <<>> /\ flush_state = "not_started"
    <3>1. Len(buffer) = 0
      BY <2>2
    <3>2. Batch = <<>>
      BY <1>2, <1>4, <2>2, <3>1
    <3>3. Place = Len(input)
      BY <1>4, <3>2, BatchIs
    <3> QED
      BY <1>1, <1>4, <3>3, ViewAtEnd
  <2> QED
    BY <2>1, <2>2
<1>7. AtEnd(f) => AtEnd(f)'
  BY <1>3, <1>5 DEF AtEnd
<1>8. /\ flush_state = "done" => ViewToCome(f) = <<>>
      /\ flush_state # "done" => ViewToCome(f) = f[Place'][owed']
  BY <1>2, <1>4, <1>5, Zenon DEF ViewToCome
<1>9. PICK x : x = ViewToCome(f)
  OBVIOUS
<1> QED
  BY <1>1, <1>2, <1>4, <1>5, <1>6, <1>7, <1>8, <1>9, ViewBreaks

\* The increment: what is read was at the front of the buffer.
LEMMA ViewIncrement ==
  ASSUME ViewInv, View!Increment
  PROVE  ViewInv'
<1>1. PICK f : f = ViewFrom
  OBVIOUS
<1>2. PICK e, x : e = Head(buffer) /\ x = ViewToCome(f)
  OBVIOUS
<1>3. /\ ~loading /\ ~done /\ buffer # <<>> /\ out' = Append(out, e)
      /\ buffer' = Tail(buffer) /\ loading' = (Tail(buffer) = <<>>)
      /\ UNCHANGED View!given /\ owed' = owed /\ current' = current /\ staging' = staging
      /\ flush_state' = flush_state /\ done' = done /\ flushing' = flushing
      /\ stop_after_output' = stop_after_output
  BY <1>2 DEF View!Increment
<1>4. input' = input /\ size' = size /\ opens' = opens /\ reset' = reset
  BY <1>3 DEF View!given
<1>5. x \in Seq(OutByte(input))
  BY <1>1, <1>2, ViewToComeTyped DEF ViewInv
<1>6. Staged' /\ Place' = Place /\ reset' \in Resetting /\ size' \in Nat /\ size' >= 2
  <2>1. Staged /\ reset \in Resetting /\ size \in Nat /\ size >= 2
    BY DEF ViewInv, ViewTypes
  <2> QED
    BY <1>3, <1>4, <2>1 DEF Staged, Place
<1>7. ViewFrom' = f /\ Converts(size, FALSE)' = Converts(size, FALSE)
  BY <1>1, <1>4 DEF ViewFrom, Converts
<1>8. /\ out \in Seq(OutByte(input)) /\ out \o (buffer \o x) = Converts(size, FALSE)
      /\ buffer \in Seq(OutByte(input)) /\ Len(buffer) <= size /\ size \in Nat
  BY <1>1, <1>2 DEF ViewInv, ViewPromise, ViewTypes
<1>9. e \in OutByte(input) /\ buffer' \in Seq(OutByte(input)) /\ Len(buffer') <= size
      /\ buffer = <<e>> \o buffer' /\ <<e>> \in Seq(OutByte(input))
  BY <1>2, <1>3, <1>8
<1>10. ViewToCome(f)' = x
  BY <1>2, <1>3, <1>6, Zenon DEF ViewToCome
<1>11. out' \o (buffer' \o x) = out \o (buffer \o x) /\ out' \in Seq(OutByte(input))
  <2>1. PICK y : y = buffer' \o x
    OBVIOUS
  <2>2. y \in Seq(OutByte(input))
    BY <1>5, <1>9, <2>1
  <2>3. ReadsOn(out, e, y) /\ Append(out, e) \in Seq(OutByte(input))
    BY <1>8, <1>9, <2>2, AppendJoins
  <2>4. InTurn(<<e>>, buffer', x)
    BY <1>5, <1>9, JoinedInTurn
  <2> QED
    BY <1>3, <1>9, <2>1, <2>3, <2>4, Zenon DEF ReadsOn, InTurn
<1>12. ViewPromise(f)'
  BY <1>7, <1>8, <1>10, <1>11, Zenon DEF ViewPromise
<1>13. AtEnd(f) => AtEnd(f)'
  BY <1>4, <1>6 DEF AtEnd
<1>14. ViewShape(f)
  BY <1>1 DEF ViewInv
<1>15. ViewShape(f)'
  BY <1>3, <1>13, <1>14, Zenon DEF ViewShape
<1>16. ViewPromise(ViewFrom)' /\ ViewShape(ViewFrom)'
  <2>1. ViewPromise(ViewFrom)' = ViewPromise(f)'
    BY <1>7 DEF ViewPromise, ViewToCome
  <2>2. ViewShape(ViewFrom)' = ViewShape(f)'
    BY <1>7 DEF ViewShape, AtEnd
  <2> QED
    BY <1>12, <1>15, <2>1, <2>2
<1>17. /\ loading' \in BOOLEAN /\ done' \in BOOLEAN
       /\ flushing' \in BOOLEAN /\ stop_after_output' \in BOOLEAN
       /\ flush_state' \in {"not_started", "in_progress", "done"}
  BY <1>3, Zenon DEF ViewInv, ViewTypes
<1>18. ViewTypes'
  BY <1>4, <1>6, <1>9, <1>11, <1>17, Zenon DEF ViewTypes
<1> QED
  BY <1>16, <1>18 DEF ViewInv

\* It holds at begin().
LEMMA ViewStarts ==
  ASSUME View!Init, input \in Seq(Byte), reset \in Resetting, size \in Nat, size >= 2,
         opens \in BOOLEAN
  PROVE  ViewInv
<1>1. /\ owed = 0 /\ loading = opens /\ current = 0 /\ staging = <<>> /\ buffer = <<>>
      /\ flush_state = "not_started" /\ done = ~opens /\ flushing = FALSE
      /\ stop_after_output = FALSE /\ out = <<>>
  BY DEF View!Init
<1>2. PICK f : f = ViewFrom
  OBVIOUS
<1>3. Place = 0 /\ Staged
  <2>1. Len(input) \in Nat /\ Len(staging) = 0 /\ StagingSize \in Nat /\ current = 0 /\ owed = 0
    BY <1>1, LenProperties, StagingAssumption
  <2>2. Place = 0
    BY <2>1 DEF Place
  <2>3. staging = Span(Place, current)
    BY <1>1, <2>2, SpanEmpty
  <2>4. current \in 0 .. Len(input) /\ owed \in 0 .. ResetSize /\ Len(staging) <= StagingSize
    BY <2>1 DEF ResetSize
  <2> QED
    BY <2>2, <2>3, <2>4 DEF Staged
<1>4. ViewTypes
  <2>1. buffer \in Seq(OutByte(input)) /\ Len(buffer) <= size /\ out \in Seq(OutByte(input))
    BY <1>1
  <2> QED
    BY <1>1, <1>3, <2>1, Zenon DEF ViewTypes
<1>5. ViewShape(f)
  BY <1>1, Zenon DEF ViewShape
<1>6. ViewPromise(f)
  <2>1. ViewToCome(f) \in Seq(OutByte(input))
    BY <1>2, <1>4, ViewToComeTyped
  <2>2. <<>> \o (<<>> \o ViewToCome(f)) = ViewToCome(f)
    BY <2>1
  <2>3. CASE opens
    <3>1. ViewToCome(f) = f[0][0]
      BY <1>1, <1>3, <2>3, Zenon DEF ViewToCome
    <3>2. Converts(size, FALSE) = f[0][0]
      BY <1>2, <2>3, ConversionIs, Zenon DEF Converts, ViewFrom
    <3> QED
      BY <1>1, <2>2, <3>1, <3>2, Zenon DEF ViewPromise
  <2>4. CASE ~opens
    <3>1. ViewToCome(f) = <<>>
      BY <1>1, <2>4, Zenon DEF ViewToCome
    <3>2. Converts(size, FALSE) = <<>>
      BY <2>4, ConversionIs, Zenon DEF Converts, Reported
    <3> QED
      BY <1>1, <2>2, <3>1, <3>2, Zenon DEF ViewPromise
  <2> QED
    BY <2>3, <2>4
<1> QED
  BY <1>2, <1>4, <1>5, <1>6, Zenon DEF ViewInv

\* Every action preserves it.
LEMMA ViewSteps ==
  ASSUME ViewInv, View!Next
  PROVE  ViewInv'
BY ViewStopAfterOutput, ViewLoopEnds, ViewConvertAll, ViewOutputFull, ViewCutShort, ViewInvalid,
   ViewConverterFails, ViewFlushMore, ViewFlushAll, ViewFlushFails, ViewAfterFlush, ViewIncrement
   DEF View!Next

-----------------------------------------------------------------------------
\* The functions have the converter of IconvConverter.
BulkStep == Convert(input, Span(current, Len(input)), owed, Bulk!Room)

\* convert() without input, by a function.
BulkFlush == Reset(owed, Bulk!Room, reset.whole, reset.answer)

LEMMA SameConverterBulk ==
  /\ Bulk!Step = BulkStep /\ Bulk!Flush = BulkFlush
  /\ \A e : Bulk!Failed(e) = Failed(e) /\ Bulk!ResetError(e) = ResetError(e)
<1>1. Bulk!Rest = Span(current, Len(input))
  BY DEF Bulk!Rest, Span
<1>2. ASSUME NEW a, NEW b, NEW c, NEW d
      PROVE  Bulk!Convert(a, b, c, d) = Convert(a, b, c, d)
  BY DEF Bulk!Convert, Convert, Bulk!Units, Units, Bulk!Onward, Onward,
         Bulk!Leading, Leading, Bulk!Unit, Unit, Bulk!Converted, Converted,
         Bulk!ResetSize, ResetSize
<1>3. Bulk!Step = BulkStep
  BY <1>1, <1>2 DEF Bulk!Step, BulkStep
<1>4. ASSUME NEW a, NEW b, NEW c, NEW d
      PROVE  Bulk!Reset(a, b, c, d) = Reset(a, b, c, d)
  BY DEF Bulk!Reset, Reset, Bulk!Unit, Unit, Bulk!Resets, Resets, Bulk!ResetSize, ResetSize
<1>5. Bulk!Flush = BulkFlush
  BY <1>4 DEF Bulk!Flush, BulkFlush
<1>6. ASSUME NEW e PROVE Bulk!Failed(e) = Failed(e) /\ Bulk!ResetError(e) = ResetError(e)
  BY DEF Bulk!Failed, Failed, Bulk!ResetError, ResetError
<1> QED
  BY <1>3, <1>5, <1>6

-----------------------------------------------------------------------------
\* What a function returns of all that its view would yield.
Returned(all, result) ==
  LET errors == {k \in 1 .. Len(all) : IsError(all[k])}
  IN  IF errors = {} THEN result = all
      ELSE \E k \in errors : (\A j \in errors : k <= j) /\ result = <<all[k]>>

\* Bytes and errors are not the same.
LEMMA BytesAreBytes ==
  ASSUME NEW s, NEW e \in OutByte(s)
  PROVE  IsByte(e) /\ ~IsError(e)
<1>1. PICK p \in 0 .. Len(s), n \in 1 .. ResetSize : e = Converted(p, n)
  BY DEF OutByte
<1>2. DOMAIN e = {"byte"}
  BY <1>1 DEF Converted
<1> QED
  BY <1>2 DEF IsByte, IsError

LEMMA ErrorsAreErrors ==
  ASSUME NEW e
  PROVE  IsError(Failed(e))
<1>1. DOMAIN Failed(e) = {"error"}
  BY DEF Failed
<1> QED
  BY <1>1 DEF IsByte, IsError

\* Bytes alone are returned as they are, and an error behind bytes alone.
LEMMA AllReturned ==
  ASSUME NEW s, NEW all \in Seq(OutByte(s))
  PROVE  Returned(all, all)
<1>1. ASSUME NEW k \in 1 .. Len(all) PROVE ~IsError(all[k])
  <2>1. all[k] \in OutByte(s)
    OBVIOUS
  <2> QED
    BY <2>1, BytesAreBytes
<1>2. {k \in 1 .. Len(all) : IsError(all[k])} = {}
  BY <1>1
<1> QED
  BY <1>2 DEF Returned

LEMMA FirstReturned ==
  ASSUME NEW s, NEW a \in Seq(OutByte(s)), NEW e \in Errors, NEW x \in Seq(Elem(s)),
         NEW all, all = a \o (<<Failed(e)>> \o x)
  PROVE  Returned(all, <<Failed(e)>>)
<1>1. PICK w : w = Failed(e)
  OBVIOUS
<1>2. w \in Elem(s) /\ IsError(w)
  BY <1>1, ErrorsAreErrors DEF Elem
<1>3. a \in Seq(Elem(s))
  BY BytesAreElements
<1>4. PICK k : k = Len(a) + 1
  OBVIOUS
<1>5. Len(a) \in Nat
  BY LenProperties
<1>6. k \in 1 .. Len(all) /\ all[k] = w /\ \A j \in 1 .. Len(a) : all[j] = a[j]
  BY <1>1, <1>2, <1>3, <1>4, <1>5
<1>7. ASSUME NEW j \in 1 .. Len(all), IsError(all[j]) PROVE k <= j
  <2>1. SUFFICES ASSUME ~(k <= j) PROVE FALSE
    OBVIOUS
  <2>2. j \in 1 .. Len(a)
    BY <1>4, <1>5, <2>1
  <2>3. a[j] \in OutByte(s)
    BY <2>2
  <2> QED
    BY <1>6, <1>7, <2>2, <2>3, BytesAreBytes
<1>8. k \in {j \in 1 .. Len(all) : IsError(all[j])}
  BY <1>2, <1>6
<1>9. \A j \in {j \in 1 .. Len(all) : IsError(all[j])} : k <= j
  BY <1>7
<1> QED
  BY <1>1, <1>6, <1>8, <1>9, Zenon DEF Returned

-----------------------------------------------------------------------------
\* Which function reports errors, and the conversion that is returned.
Reports == facility = "iconv_transcode_to_or_error"

BulkFrom == From(input, ResetSize, reset, Reports)

BulkAll == Converts(ResetSize, Reports)

\* The invariant of the functions: until they return, what has been written and
\* what follows the place they are at are the conversion; then they have
\* returned it, or the first of its errors.
BulkTypes ==
  /\ facility \in Functions /\ input \in Seq(Byte) /\ reset \in Resetting
  /\ current \in 0 .. Len(input) /\ owed \in 0 .. ResetSize /\ capacity \in Nat
  /\ done \in BOOLEAN

\* What has been written, and what is to come of the conversion behind it.
BulkGoesOn(f) ==
  /\ out \in Seq(OutByte(input))
  /\ facility # "iconv_transcode_into" => Len(out) <= capacity
  /\ out \o f[current][owed] = BulkAll

BulkReturned == out \in Seq(Elem(input)) /\ Returned(BulkAll, out)

BulkInv == BulkTypes /\ (~done => BulkGoesOn(BulkFrom)) /\ (done => BulkReturned)

\* What goes on.
LEMMA BulkContinues ==
  ASSUME BulkInv, ~done, UNCHANGED Bulk!given, done' = done,
         current' \in 0 .. Len(input), owed' \in 0 .. ResetSize, capacity' \in Nat,
         out' \in Seq(OutByte(input)),
         facility # "iconv_transcode_into" => Len(out') <= capacity',
         NEW f, f = BulkFrom, out' \o f[current'][owed'] = out \o f[current][owed]
  PROVE  BulkInv'
<1>1. facility' = facility /\ input' = input /\ opens' = opens /\ reset' = reset
  BY DEF Bulk!given
<1>2. BulkTypes'
  BY <1>1, Zenon DEF BulkInv, BulkTypes
<1>3. BulkFrom' = f /\ BulkAll' = BulkAll
  BY <1>1 DEF BulkFrom, BulkAll, Converts, Reports
<1>4. BulkGoesOn(BulkFrom)'
  <2>1. out \o f[current][owed] = BulkAll
    BY DEF BulkInv, BulkGoesOn
  <2> QED
    BY <1>1, <1>3, <2>1, Zenon DEF BulkGoesOn
<1> QED
  BY <1>2, <1>4 DEF BulkInv

\* What returns.
LEMMA BulkReturns ==
  ASSUME BulkInv, UNCHANGED Bulk!given, done' = TRUE,
         current' \in 0 .. Len(input), owed' \in 0 .. ResetSize, capacity' = capacity,
         out' \in Seq(Elem(input)), Returned(BulkAll, out')
  PROVE  BulkInv'
<1>1. facility' = facility /\ input' = input /\ opens' = opens /\ reset' = reset
  BY DEF Bulk!given
<1>2. BulkTypes'
  BY <1>1, Zenon DEF BulkInv, BulkTypes
<1>3. BulkAll' = BulkAll
  BY <1>1 DEF BulkAll, Converts, Reports
<1>4. BulkReturned'
  BY <1>1, <1>3, Zenon DEF BulkReturned
<1> QED
  BY <1>2, <1>4 DEF BulkInv

\* A function returns the bytes there are, of all there is.
LEMMA BulkReturnsAll ==
  ASSUME BulkInv, UNCHANGED Bulk!given, current' \in 0 .. Len(input), owed' \in 0 .. ResetSize,
         capacity' = capacity, NEW all \in Seq(OutByte(input)), all = BulkAll, Bulk!Return(all)
  PROVE  BulkInv'
<1>1. out' = all /\ done' = TRUE
  BY DEF Bulk!Return
<1>2. Returned(BulkAll, out') /\ out' \in Seq(Elem(input))
  BY <1>1, AllReturned, BytesAreElements
<1> QED
  BY <1>1, <1>2, BulkReturns

\* A function returns the first error.
LEMMA BulkReturnsError ==
  ASSUME BulkInv, UNCHANGED Bulk!given, current' \in 0 .. Len(input), owed' \in 0 .. ResetSize,
         capacity' = capacity, NEW e \in Errors, Bulk!ReturnError(e),
         NEW a \in Seq(OutByte(input)), NEW x \in Seq(Elem(input)),
         BulkAll = a \o (<<Failed(e)>> \o x)
  PROVE  BulkInv'
<1>1. PICK w : w = Failed(e)
  OBVIOUS
<1>2. out' = <<w>> /\ done' = TRUE
  <2>1. w = Bulk!Failed(e)
    BY <1>1, SameConverterBulk
  <2> QED
    BY <2>1 DEF Bulk!ReturnError, Bulk!Return
<1>3. w \in Elem(input)
  BY <1>1 DEF Elem
<1>4. out' \in Seq(Elem(input))
  BY <1>2, <1>3
<1>5. Returned(BulkAll, out')
  BY <1>1, <1>2, FirstReturned
<1> QED
  BY <1>2, <1>4, <1>5, BulkReturns

-----------------------------------------------------------------------------
\* What has been written after a call of convert().
BulkOutput == out \o BulkStep.written

\* A call of convert() by a function, up to n.
BulkTurned(f, n) ==
  /\ ~done /\ UNCHANGED Bulk!given /\ input \in Seq(Byte) /\ reset \in Resetting
  /\ n \in 0 .. Len(input) /\ Len(input) \in Nat /\ n = current + BulkStep.used
  /\ owed' = BulkStep.owed /\ owed' \in 0 .. ResetSize /\ capacity \in Nat
  /\ BulkOutput \in Seq(OutByte(input))
  /\ facility # "iconv_transcode_into" => Len(BulkOutput) <= capacity
  /\ out \o f[current][owed] = BulkOutput \o f[n][owed']
  /\ BulkAll = BulkOutput \o f[n][owed']
  /\ Says(f, input, ResetSize, reset, Reports, Len(input), Bulk!Room, n, BulkStep)
  /\ \A m \in 0 .. Len(input), o \in 0 .. ResetSize : f[m][o] \in Seq(Elem(input))

\* The room there is.
LEMMA RoomIs ==
  ASSUME BulkInv, ~done
  PROVE  /\ Bulk!Room \in Nat /\ Len(out) \in Nat /\ capacity \in Nat
         /\ facility # "iconv_transcode_into" => Bulk!Room = capacity - Len(out)
<1>1. /\ out \in Seq(OutByte(input)) /\ capacity \in Nat
      /\ facility # "iconv_transcode_into" => Len(out) <= capacity
  BY DEF BulkInv, BulkGoesOn, BulkTypes
<1>2. Len(out) \in Nat
  BY <1>1, LenProperties
<1>3. /\ facility = "iconv_transcode_into" => Bulk!Room = capacity
      /\ facility # "iconv_transcode_into" => Bulk!Room = capacity - Len(out)
  BY DEF Bulk!Room
<1> QED
  BY <1>1, <1>2, <1>3

\* A call of convert() is BulkTurned, up to some place.
LEMMA BulkConverts ==
  ASSUME BulkInv, NEW errno, Bulk!Converting(errno), NEW f, f = BulkFrom
  PROVE  BulkStep.errno = errno /\ \E n : BulkTurned(f, n)
<1>1. /\ ~done /\ current < Len(input) /\ BulkStep.errno = errno /\ owed' = BulkStep.owed
      /\ UNCHANGED Bulk!given
  BY SameConverterBulk DEF Bulk!Converting
<1>2. /\ input \in Seq(Byte) /\ reset \in Resetting /\ current \in 0 .. Len(input)
      /\ owed \in 0 .. ResetSize /\ capacity \in Nat /\ Len(input) \in Nat
  BY LenProperties DEF BulkInv, BulkTypes
<1>3. /\ out \in Seq(OutByte(input)) /\ out \o f[current][owed] = BulkAll
      /\ facility # "iconv_transcode_into" => Len(out) <= capacity
  BY <1>1 DEF BulkInv, BulkGoesOn
<1>4. PICK p, q, room, c : p = current /\ q = Len(input) /\ room = Bulk!Room /\ c = BulkStep
  OBVIOUS
<1>5. PICK rep \in BOOLEAN : rep = Reports
  BY DEF Reports
<1>6. room \in Nat
  BY <1>1, <1>4, RoomIs
<1>7. f = From(input, ResetSize, reset, rep) /\ c = Convert(input, Span(p, q), owed, room)
  BY <1>4, <1>5, Zenon DEF BulkFrom, BulkStep
<1>8. p \in Nat /\ q \in Nat /\ p <= q /\ q <= Len(input) /\ ResetSize \in Nat /\ 2 <= ResetSize
  BY <1>1, <1>2, <1>4 DEF ResetSize
<1>9. Good(f, input, p, q, owed, room, c) /\ Stops(input, p, q, room, c)
  <2>1. PICK big : big = ResetSize
    OBVIOUS
  <2>2. big \in Nat /\ 2 <= big /\ f = From(input, big, reset, rep)
    BY <1>7, <1>8, <2>1
  <2> QED
    BY <1>2, <1>6, <1>7, <1>8, <2>2, ConvertSays
<1>10. PICK n : n = p + c.used
  OBVIOUS
<1>11. /\ c.written \in Seq(OutByte(input)) /\ Len(c.written) <= room
       /\ c.owed \in 0 .. ResetSize
       /\ c.used \in Nat /\ n <= q
       /\ f[p][owed] = c.written \o f[n][c.owed]
  BY <1>9, <1>10 DEF Good
<1>12. n \in 0 .. Len(input)
  BY <1>2, <1>4, <1>8, <1>10, <1>11, SMTT(30)
<1>13. Says(f, input, ResetSize, reset, rep, q, room, n, c)
  <2>1. PICK big : big = ResetSize
    OBVIOUS
  <2>2. big \in Nat /\ f = From(input, big, reset, rep)
    BY <1>7, <1>8, <2>1
  <2>3. Says(f, input, big, reset, rep, q, room, n, c)
    BY <1>2, <1>6, <1>8, <1>9, <1>10, <2>2, StopSays
  <2> QED
    BY <2>1, <2>3
<1>14. \A m \in 0 .. Len(input), o \in 0 .. ResetSize : f[m][o] \in Seq(Elem(input))
  <2>1. \A m \in 0 .. Len(input), o \in 0 .. ResetSize : f[m][o] \in Seq(Elements(input, rep))
    BY <1>2, <1>7, <1>8, FromTyped
  <2>2. Seq(Elements(input, rep)) \subseteq Seq(Elem(input))
    BY BytesAreElements
  <2> QED
    BY <2>1, <2>2
<1>15. /\ BulkOutput \in Seq(OutByte(input))
       /\ facility # "iconv_transcode_into" => Len(BulkOutput) <= capacity
  <2>1. BulkOutput \in Seq(OutByte(input)) /\ Len(BulkOutput) = Len(out) + Len(c.written)
    BY <1>3, <1>4, <1>11, Joined DEF BulkOutput
  <2>2. Len(out) \in Nat /\ Len(c.written) \in Nat
    BY <1>3, <1>11, LenProperties
  <2>3. facility # "iconv_transcode_into" => room = capacity - Len(out)
    BY <1>1, <1>4, RoomIs
  <2> QED
    BY <1>2, <1>11, <2>1, <2>2, <2>3, SMTT(30)
<1>16. out \o f[current][owed] = BulkOutput \o f[n][owed']
  <2>1. PICK x : x = f[n][c.owed]
    OBVIOUS
  <2>2. x \in Seq(Elem(input)) /\ out \in Seq(Elem(input)) /\ c.written \in Seq(Elem(input))
    BY <1>3, <1>11, <1>12, <1>14, <2>1, BytesAreElements
  <2>3. InTurn(out, c.written, x)
    BY <2>2, JoinedInTurn
  <2> QED
    BY <1>1, <1>4, <1>11, <2>1, <2>3, Zenon DEF InTurn, BulkOutput
<1>17. BulkTurned(f, n)
  BY <1>1, <1>2, <1>3, <1>4, <1>5, <1>10, <1>11, <1>12, <1>13, <1>14, <1>15, <1>16, Zenon
     DEF BulkTurned
<1> QED
  BY <1>1, <1>17

\* Without reports, an error is nothing.
LEMMA BulkIgnores ==
  ASSUME NEW e, NEW S, NEW x \in Seq(S), ~Reports
  PROVE  Reported(e, Reports) = <<>> /\ Reported(e, Reports) \o x = x
<1>1. Reported(e, Reports) = <<>>
  BY ZenonT(40) DEF Reported
<1> QED
  BY <1>1

\* The actions, one lemma each: a batch is converted.
LEMMA BulkConvertAll ==
  ASSUME BulkInv, Bulk!ConvertAll
  PROVE  BulkInv'
<1>1. PICK f : f = BulkFrom
  OBVIOUS
<1>2. /\ Bulk!Converting("ok") /\ current' = current + BulkStep.used + 0 /\ out' = BulkOutput
      /\ capacity' = capacity /\ done' = done
  BY SameConverterBulk DEF Bulk!ConvertAll, Bulk!Pass, Bulk!Output, BulkOutput
<1>3. PICK n : BulkTurned(f, n)
  BY <1>1, <1>2, BulkConverts
<1>4. current' = n
  BY <1>2, <1>3 DEF BulkTurned
<1> QED
  BY <1>1, <1>2, <1>3, <1>4, BulkContinues DEF BulkTurned

\* A buffer made larger holds what it held.
LEMMA MakeRoomIs ==
  ASSUME Bulk!MakeRoom, capacity \in Nat
  PROVE  capacity' \in Nat /\ \A k \in Int : k <= capacity => k <= capacity'
BY SMTT(30) DEF Bulk!MakeRoom

LEMMA BulkOutputFull ==
  ASSUME BulkInv, Bulk!OutputFull
  PROVE  BulkInv'
<1>1. PICK f : f = BulkFrom
  OBVIOUS
<1>2. /\ Bulk!Converting("E2BIG") /\ current' = current + BulkStep.used + 0 /\ out' = BulkOutput
      /\ Bulk!MakeRoom /\ done' = done
  BY SameConverterBulk DEF Bulk!OutputFull, Bulk!Pass, Bulk!Output, BulkOutput
<1>3. PICK n : BulkTurned(f, n)
  BY <1>1, <1>2, BulkConverts
<1>4. current' = n
  BY <1>2, <1>3, SMTT(30) DEF BulkTurned
<1>5. BulkOutput \in Seq(OutByte(input)) /\ capacity \in Nat
      /\ (facility # "iconv_transcode_into" => Len(BulkOutput) <= capacity)
  BY <1>3 DEF BulkTurned
<1>6. capacity' \in Nat /\ (facility # "iconv_transcode_into" => Len(out') <= capacity')
  BY <1>2, <1>5, MakeRoomIs
<1> QED
  BY <1>1, <1>2, <1>3, <1>4, <1>5, <1>6, BulkContinues DEF BulkTurned

LEMMA BulkInvalid ==
  ASSUME BulkInv, Bulk!Invalid
  PROVE  BulkInv'
<1>1. PICK f : f = BulkFrom
  OBVIOUS
<1>2. /\ Bulk!Converting("EILSEQ") /\ current' = current + BulkStep.used + 1
      /\ Reports => Bulk!ReturnError("invalid_sequence")
      /\ ~Reports => out' = BulkOutput /\ done' = done
      /\ capacity' = capacity
  BY SameConverterBulk DEF Bulk!Invalid, Bulk!Pass, Bulk!Output, BulkOutput, Reports
<1>3. PICK n : BulkTurned(f, n)
  BY <1>1, <1>2, BulkConverts
<1>4. BulkStep.errno = "EILSEQ"
  BY <1>1, <1>2, BulkConverts
<1>5. /\ n < Len(input)
      /\ f[n][owed'] = Reported("invalid_sequence", Reports) \o f[n + 1][owed']
  BY <1>3, <1>4, ZenonT(40) DEF BulkTurned, Says
<1>6. current' = n + 1 /\ current' \in 0 .. Len(input)
  BY <1>2, <1>3, <1>5, SMTT(30) DEF BulkTurned
<1>7. PICK x : x = f[current'][owed']
  OBVIOUS
<1>8. x \in Seq(Elem(input))
  BY <1>3, <1>6, <1>7, SMTT(30) DEF BulkTurned
<1>9. f[n][owed'] = Reported("invalid_sequence", Reports) \o x
  BY <1>5, <1>6, <1>7, Zenon
<1>10. CASE Reports
  <2>1. Reported("invalid_sequence", Reports) = <<Failed("invalid_sequence")>>
    BY <1>10, Zenon DEF Reported
  <2>2. BulkAll = BulkOutput \o (<<Failed("invalid_sequence")>> \o x)
    BY <1>3, <1>9, <2>1, Zenon DEF BulkTurned
  <2>3. "invalid_sequence" \in Errors
    BY DEF Errors
  <2> QED
    BY <1>2, <1>3, <1>6, <1>8, <1>10, <2>2, <2>3, BulkReturnsError DEF BulkTurned
<1>11. CASE ~Reports
  <2>1. f[n][owed'] = x
    BY <1>8, <1>9, <1>11, BulkIgnores
  <2> QED
    BY <1>1, <1>2, <1>3, <1>6, <1>7, <1>11, <2>1, BulkContinues DEF BulkTurned
<1> QED
  BY <1>10, <1>11

LEMMA BulkEnds ==
  ASSUME BulkInv, NEW f, f = BulkFrom, NEW o \in 0 .. ResetSize
  PROVE  /\ f[Len(input)][o] = Ending(ResetSize, reset, Reports, o)
         /\ f[Len(input)][o] \in Seq(Elem(input))
<1>1. input \in Seq(Byte) /\ ResetSize \in Nat /\ reset \in Resetting
      /\ Len(input) \in 0 .. Len(input)
  BY LenProperties DEF BulkInv, BulkTypes, ResetSize
<1>2. PICK rep \in BOOLEAN : rep = Reports
  BY DEF Reports
<1>3. f = From(input, ResetSize, reset, rep)
  BY <1>2, Zenon DEF BulkFrom
<1>4. f[Len(input)][o] = Ending(ResetSize, reset, rep, o)
  BY <1>1, <1>3, FromEnds
<1>5. f[Len(input)][o] \in Seq(Elements(input, rep))
  BY <1>1, <1>3, FromTyped
<1>6. f[Len(input)][o] \in Seq(Elem(input))
  BY <1>5, BytesAreElements
<1> QED
  BY <1>2, <1>4, <1>6, Zenon

LEMMA BulkCutShort ==
  ASSUME BulkInv, Bulk!CutShort
  PROVE  BulkInv'
<1>1. PICK f : f = BulkFrom
  OBVIOUS
<1>2. /\ Bulk!Converting("EINVAL") /\ current' = Len(input)
      /\ Reports => Bulk!ReturnError("incomplete_sequence")
      /\ ~Reports => out' = BulkOutput /\ done' = done
      /\ capacity' = capacity
  BY SameConverterBulk DEF Bulk!CutShort, Bulk!Output, BulkOutput, Reports
<1>3. PICK n : BulkTurned(f, n)
  BY <1>1, <1>2, BulkConverts
<1>4. BulkStep.errno = "EINVAL"
  BY <1>1, <1>2, BulkConverts
<1>5. \A i \in 0 .. ResetSize :
        f[n][i] = Reported("incomplete_sequence", Reports) \o Ending(ResetSize, reset, Reports, i)
  BY <1>3, <1>4, ZenonT(40) DEF BulkTurned, Says
<1>6. owed' \in 0 .. ResetSize /\ Len(input) \in Nat /\ current' \in 0 .. Len(input)
  BY <1>2, <1>3 DEF BulkTurned
<1>7. PICK x : x = f[current'][owed']
  OBVIOUS
<1>8. x = Ending(ResetSize, reset, Reports, owed') /\ x \in Seq(Elem(input))
  <2>1. PICK o : o = owed'
    OBVIOUS
  <2>2. /\ f[Len(input)][o] = Ending(ResetSize, reset, Reports, o)
        /\ f[Len(input)][o] \in Seq(Elem(input))
    BY <1>1, <1>6, <2>1, BulkEnds
  <2> QED
    BY <1>2, <1>7, <2>1, <2>2, Zenon
<1>9. f[n][owed'] = Reported("incomplete_sequence", Reports) \o x
  BY <1>5, <1>6, <1>8, ZenonT(40)
<1>10. CASE Reports
  <2>1. Reported("incomplete_sequence", Reports) = <<Failed("incomplete_sequence")>>
    BY <1>10, Zenon DEF Reported
  <2>2. BulkAll = BulkOutput \o (<<Failed("incomplete_sequence")>> \o x)
    BY <1>3, <1>9, <2>1, Zenon DEF BulkTurned
  <2>3. "incomplete_sequence" \in Errors
    BY DEF Errors
  <2> QED
    BY <1>2, <1>3, <1>6, <1>8, <1>10, <2>2, <2>3, BulkReturnsError DEF BulkTurned
<1>11. CASE ~Reports
  <2>1. f[n][owed'] = x
    BY <1>8, <1>9, <1>11, BulkIgnores
  <2> QED
    BY <1>1, <1>2, <1>3, <1>6, <1>7, <1>11, <2>1, BulkContinues DEF BulkTurned
<1> QED
  BY <1>10, <1>11

LEMMA BulkConverterFails ==
  ASSUME BulkInv, Bulk!ConverterFails
  PROVE  BulkInv'
<1>1. PICK f : f = BulkFrom
  OBVIOUS
<1>2. /\ Bulk!Converting("other") /\ current' = current + BulkStep.used + 0
      /\ Reports => Bulk!ReturnError("system_error")
      /\ ~Reports => Bulk!Return(BulkOutput)
      /\ capacity' = capacity
  BY SameConverterBulk DEF Bulk!ConverterFails, Bulk!Pass, Bulk!Output, BulkOutput, Reports
<1>3. PICK n : BulkTurned(f, n)
  BY <1>1, <1>2, BulkConverts
<1>4. BulkStep.errno = "other"
  BY <1>1, <1>2, BulkConverts
<1>5. f[n][owed'] = Reported("system_error", Reports)
  BY <1>3, <1>4, ZenonT(40) DEF BulkTurned, Says
<1>6. current' \in 0 .. Len(input) /\ owed' \in 0 .. ResetSize /\ UNCHANGED Bulk!given
      /\ BulkOutput \in Seq(OutByte(input)) /\ BulkAll = BulkOutput \o f[n][owed']
  BY <1>2, <1>3 DEF BulkTurned
<1>7. <<>> \in Seq(Elem(input))
  OBVIOUS
<1>8. CASE Reports
  <2>1. Reported("system_error", Reports) = <<Failed("system_error")>>
    BY <1>8, Zenon DEF Reported
  <2>2. <<Failed("system_error")>> = <<Failed("system_error")>> \o <<>>
    OBVIOUS
  <2>3. BulkAll = BulkOutput \o (<<Failed("system_error")>> \o <<>>)
    BY <1>5, <1>6, <2>1, <2>2, Zenon
  <2>4. "system_error" \in Errors
    BY DEF Errors
  <2> QED
    BY <1>2, <1>6, <1>7, <1>8, <2>3, <2>4, BulkReturnsError
<1>9. CASE ~Reports
  <2>1. f[n][owed'] = <<>>
    BY <1>5, <1>7, <1>9, BulkIgnores
  <2>2. BulkAll = BulkOutput
    BY <1>6, <2>1
  <2> QED
    BY <1>2, <1>6, <1>9, <2>2, BulkReturnsAll
<1> QED
  BY <1>8, <1>9

-----------------------------------------------------------------------------
\* What has been written after a flush.
BulkFlushed == out \o BulkFlush.written

\* The flush of a function.
BulkEnding(f) ==
  /\ ~done /\ UNCHANGED Bulk!given /\ current' = current
  /\ current' \in 0 .. Len(input)
  /\ owed' = BulkFlush.owed /\ owed' \in 0 .. ResetSize /\ capacity \in Nat
  /\ BulkFlushed \in Seq(OutByte(input))
  /\ facility # "iconv_transcode_into" => Len(BulkFlushed) <= capacity
  /\ BulkFlush.errno = "E2BIG" =>
       /\ BulkFlushed \o f[current'][owed'] = out \o f[current][owed]
  /\ BulkFlush.errno = "ok" => BulkAll = BulkFlushed
  /\ BulkFlush.errno \notin {"ok", "E2BIG"} =>
       BulkAll = BulkFlushed \o Reported(ResetError(BulkFlush.errno), Reports)

\* A flush is BulkEnding.
LEMMA BulkFlushes ==
  ASSUME BulkInv, NEW errno, Bulk!Flushing(errno), NEW f, f = BulkFrom
  PROVE  BulkFlush.errno = errno /\ BulkEnding(f)
<1>1. /\ ~done /\ current = Len(input) /\ BulkFlush.errno = errno /\ owed' = BulkFlush.owed
      /\ UNCHANGED Bulk!given /\ current' = current
  BY SameConverterBulk DEF Bulk!Flushing
<1>2. /\ input \in Seq(Byte) /\ reset \in Resetting /\ current \in 0 .. Len(input)
      /\ owed \in 0 .. ResetSize /\ capacity \in Nat
  BY DEF BulkInv, BulkTypes
<1>3. /\ out \in Seq(OutByte(input)) /\ out \o f[current][owed] = BulkAll
      /\ facility # "iconv_transcode_into" => Len(out) <= capacity
  BY <1>1 DEF BulkInv, BulkGoesOn
<1>4. PICK room, u : room = Bulk!Room /\ u = BulkFlush
  OBVIOUS
<1>5. PICK rep \in BOOLEAN : rep = Reports
  BY DEF Reports
<1>6. room \in Nat /\ (facility # "iconv_transcode_into" => room = capacity - Len(out))
  BY <1>1, <1>4, RoomIs
<1>7. u = Reset(owed, room, reset.whole, reset.answer)
  BY <1>4, Zenon DEF BulkFlush
<1>8. Flushes(input, reset, owed, room, u)
  BY <1>2, <1>6, <1>7, ResetSays
<1>9. EndSays(ResetSize, reset, Reports, owed, room, u)
  <2>1. PICK big : big = ResetSize
    OBVIOUS
  <2>2. EndSays(big, reset, rep, owed, room, u)
    BY <1>2, <1>6, <1>8, <2>1, FlushSays
  <2> QED
    BY <1>5, <2>1, <2>2, Zenon
<1>10. /\ u.owed \in 0 .. ResetSize
       /\ u.written \in Seq(OutByte(input)) /\ Len(u.written) <= room
  BY <1>8, Zenon DEF Flushes
<1>11. /\ BulkFlushed \in Seq(OutByte(input))
       /\ facility # "iconv_transcode_into" => Len(BulkFlushed) <= capacity
  <2>1. BulkFlushed \in Seq(OutByte(input)) /\ Len(BulkFlushed) = Len(out) + Len(u.written)
    BY <1>3, <1>4, <1>10, Joined DEF BulkFlushed
  <2>2. Len(out) \in Nat /\ Len(u.written) \in Nat
    BY <1>3, <1>10, LenProperties
  <2> QED
    BY <1>2, <1>6, <1>10, <2>1, <2>2
<1>12. PICK x : x = f[current][owed]
  OBVIOUS
<1>13. x = Ending(ResetSize, reset, Reports, owed)
  BY <1>1, <1>2, <1>12, BulkEnds
<1>14. /\ f[current'][owed'] = Ending(ResetSize, reset, Reports, u.owed)
       /\ f[current'][owed'] \in Seq(Elem(input))
  <2>1. PICK o : o = u.owed
    OBVIOUS
  <2>2. /\ f[Len(input)][o] = Ending(ResetSize, reset, Reports, o)
        /\ f[Len(input)][o] \in Seq(Elem(input))
    BY <1>10, <2>1, BulkEnds
  <2> QED
    BY <1>1, <1>4, <2>1, <2>2, Zenon
<1>15. out \in Seq(Elem(input)) /\ u.written \in Seq(Elem(input))
  BY <1>3, <1>10, BytesAreElements
<1>16. ASSUME u.errno = "E2BIG" PROVE BulkFlushed \o f[current'][owed'] = out \o f[current][owed]
  <2>1. PICK y : y = f[current'][owed']
    OBVIOUS
  <2>2. x = u.written \o y
    BY <1>9, <1>13, <1>14, <1>16, <2>1, Zenon DEF EndSays
  <2>3. InTurn(out, u.written, y)
    BY <1>14, <1>15, <2>1, JoinedInTurn
  <2> QED
    BY <1>4, <1>12, <2>1, <2>2, <2>3, Zenon DEF InTurn, BulkFlushed
<1>17. ASSUME u.errno = "ok" PROVE BulkAll = BulkFlushed
  <2>1. x = u.written
    BY <1>9, <1>13, <1>17, Zenon DEF EndSays
  <2> QED
    BY <1>3, <1>4, <1>12, <2>1, Zenon DEF BulkFlushed
<1>18. ASSUME u.errno \notin {"ok", "E2BIG"}
       PROVE  BulkAll = BulkFlushed \o Reported(ResetError(u.errno), Reports)
  <2>1. PICK y : y = Reported(ResetError(u.errno), Reports)
    OBVIOUS
  <2>2. x = u.written \o y
    BY <1>9, <1>13, <1>18, <2>1, Zenon DEF EndSays
  <2>3. y \in Seq(Elem(input))
    <3>1. ResetError(u.errno) \in Errors
      BY DEF ResetError, Errors
    <3>2. Reported(ResetError(u.errno), rep) \in Seq(Elements(input, rep))
      BY <3>1, ReportedIs
    <3> QED
      BY <1>5, <2>1, <3>2, BytesAreElements
  <2>4. InTurn(out, u.written, y)
    BY <1>15, <2>3, JoinedInTurn
  <2> QED
    BY <1>3, <1>4, <1>12, <2>1, <2>2, <2>4, Zenon DEF InTurn, BulkFlushed
<1>19. /\ current' \in 0 .. Len(input) /\ owed' \in 0 .. ResetSize
  BY <1>1, <1>2, <1>4, <1>10
<1>20. BulkEnding(f)
  BY <1>1, <1>2, <1>4, <1>11, <1>16, <1>17, <1>18, <1>19, ZenonT(40) DEF BulkEnding
<1> QED
  BY <1>1, <1>20

\* The actions that flush, one lemma each.
LEMMA BulkFlushMore ==
  ASSUME BulkInv, Bulk!FlushMore
  PROVE  BulkInv'
<1>1. PICK f : f = BulkFrom
  OBVIOUS
<1>2. /\ Bulk!Flushing("E2BIG") /\ out' = BulkFlushed /\ Bulk!MakeRoom /\ done' = done
  BY SameConverterBulk DEF Bulk!FlushMore, BulkFlushed
<1>3. BulkEnding(f) /\ BulkFlush.errno = "E2BIG"
  BY <1>1, <1>2, BulkFlushes
<1>4. BulkFlushed \in Seq(OutByte(input)) /\ capacity \in Nat
      /\ (facility # "iconv_transcode_into" => Len(BulkFlushed) <= capacity)
      /\ ~done /\ UNCHANGED Bulk!given /\ current' \in 0 .. Len(input)
      /\ owed' \in 0 .. ResetSize
      /\ BulkFlushed \o f[current'][owed'] = out \o f[current][owed]
  BY <1>3, Zenon DEF BulkEnding
<1>5. capacity' \in Nat /\ (facility # "iconv_transcode_into" => Len(out') <= capacity')
  BY <1>2, <1>4, MakeRoomIs
<1> QED
  BY <1>1, <1>2, <1>4, <1>5, BulkContinues

LEMMA BulkFlushAll ==
  ASSUME BulkInv, Bulk!FlushAll
  PROVE  BulkInv'
<1>1. PICK f : f = BulkFrom
  OBVIOUS
<1>2. Bulk!Flushing("ok") /\ Bulk!Return(BulkFlushed) /\ capacity' = capacity
  BY SameConverterBulk DEF Bulk!FlushAll, BulkFlushed
<1>3. BulkEnding(f) /\ BulkFlush.errno = "ok"
  BY <1>1, <1>2, BulkFlushes
<1>4. BulkFlushed \in Seq(OutByte(input)) /\ BulkAll = BulkFlushed
      /\ UNCHANGED Bulk!given /\ current' \in 0 .. Len(input) /\ owed' \in 0 .. ResetSize
  BY <1>3, Zenon DEF BulkEnding
<1> QED
  BY <1>2, <1>4, BulkReturnsAll

LEMMA BulkFlushFails ==
  ASSUME BulkInv, Bulk!FlushFails
  PROVE  BulkInv'
<1>1. PICK f : f = BulkFrom
  OBVIOUS
<1>2. PICK errno \in Errno \ {"ok", "E2BIG"} : Bulk!Flushing(errno)
  BY DEF Bulk!FlushFails, Bulk!Errno, Errno
<1>3. PICK e : e = ResetError(BulkFlush.errno)
  OBVIOUS
<1>4. e \in Errors
  BY <1>3 DEF ResetError, Errors
<1>5. /\ Reports => Bulk!ReturnError(e)
      /\ ~Reports => Bulk!Return(BulkFlushed)
      /\ capacity' = capacity
  BY <1>3, SameConverterBulk DEF Bulk!FlushFails, BulkFlushed, Reports
<1>6. BulkEnding(f) /\ BulkFlush.errno = errno
  BY <1>1, <1>2, BulkFlushes
<1>7. BulkFlushed \in Seq(OutByte(input)) /\ BulkAll = BulkFlushed \o Reported(e, Reports)
      /\ UNCHANGED Bulk!given /\ current' \in 0 .. Len(input) /\ owed' \in 0 .. ResetSize
  BY <1>2, <1>3, <1>6, Zenon DEF BulkEnding
<1>8. <<>> \in Seq(Elem(input))
  OBVIOUS
<1>9. CASE Reports
  <2>1. Reported(e, Reports) = <<Failed(e)>>
    BY <1>9, Zenon DEF Reported
  <2>2. <<Failed(e)>> = <<Failed(e)>> \o <<>>
    OBVIOUS
  <2>3. BulkAll = BulkFlushed \o (<<Failed(e)>> \o <<>>)
    BY <1>7, <2>1, <2>2, Zenon
  <2> QED
    BY <1>4, <1>5, <1>7, <1>8, <1>9, <2>3, BulkReturnsError
<1>10. CASE ~Reports
  <2>1. Reported(e, Reports) = <<>>
    BY <1>8, <1>10, BulkIgnores
  <2>2. BulkAll = BulkFlushed
    BY <1>7, <2>1
  <2> QED
    BY <1>5, <1>7, <1>10, <2>2, BulkReturnsAll
<1> QED
  BY <1>9, <1>10

\* It holds at the call.
LEMMA BulkStarts ==
  ASSUME Bulk!Init, facility \in Functions, input \in Seq(Byte), reset \in Resetting,
         capacity \in Nat, opens \in BOOLEAN
  PROVE  BulkInv
<1>1. /\ owed = 0 /\ current = 0 /\ done = ~opens
      /\ ~opens /\ Reports => out = <<Bulk!Failed("open_failed")>>
      /\ ~(~opens /\ Reports) => out = <<>>
  BY DEF Bulk!Init, Reports
<1>2. BulkTypes
  <2>1. Len(input) \in Nat
    BY LenProperties
  <2>2. current \in 0 .. Len(input) /\ owed \in 0 .. ResetSize
    BY <1>1, <2>1 DEF ResetSize
  <2> QED
    BY <1>1, <2>2, Zenon DEF BulkTypes
<1>3. PICK rep \in BOOLEAN : rep = Reports
  BY DEF Reports
<1>4. PICK f : f = BulkFrom
  OBVIOUS
<1>5. CASE opens
  <2>1. BulkAll = f[0][0]
    BY <1>4, <1>5, ConversionIs, Zenon DEF BulkAll, Converts, BulkFrom
  <2>2. f[0][0] \in Seq(Elem(input))
    <3>1. f = From(input, ResetSize, reset, rep)
      BY <1>3, <1>4, Zenon DEF BulkFrom
    <3>2. ResetSize \in Nat /\ 0 \in 0 .. ResetSize /\ 0 \in 0 .. Len(input)
      BY LenProperties DEF ResetSize
    <3>3. f[0][0] \in Seq(Elements(input, rep))
      BY <3>1, <3>2, FromTyped
    <3> QED
      BY <3>3, BytesAreElements
  <2>3. out = <<>> /\ ~done
    BY <1>1, <1>5
  <2>4. out \o f[current][owed] = BulkAll
    <3>1. <<>> \o f[0][0] = f[0][0]
      BY <2>2
    <3> QED
      BY <1>1, <2>1, <2>3, <3>1, Zenon
  <2>5. out \in Seq(OutByte(input)) /\ Len(out) <= capacity
    BY <2>3
  <2> QED
    BY <1>2, <1>4, <2>3, <2>4, <2>5 DEF BulkInv, BulkGoesOn
<1>6. CASE ~opens
  <2>1. BulkAll = Reported("open_failed", Reports) /\ done
    BY <1>1, <1>6, ConversionIs, Zenon DEF BulkAll, Converts
  <2>2. CASE Reports
    <3>1. PICK w : w = Failed("open_failed")
      OBVIOUS
    <3>2. out = <<w>>
      BY <1>1, <1>6, <2>2, <3>1, SameConverterBulk
    <3>3. BulkAll = <<w>>
      BY <2>1, <2>2, <3>1, Zenon DEF Reported
    <3>4. "open_failed" \in Errors
      BY DEF Errors
    <3>5. w \in Elem(input)
      BY <3>1, <3>4, Zenon DEF Elem
    <3>6. out \in Seq(Elem(input)) /\ <<>> \in Seq(OutByte(input)) /\ <<>> \in Seq(Elem(input))
      BY <3>2, <3>5
    <3>7. BulkAll = <<>> \o (<<w>> \o <<>>)
      BY <3>3
    <3>8. Returned(BulkAll, <<w>>)
      BY <3>1, <3>4, <3>6, <3>7, FirstReturned
    <3> QED
      BY <1>2, <2>1, <3>2, <3>6, <3>8, Zenon DEF BulkInv, BulkReturned
  <2>3. CASE ~Reports
    <3>1. out = <<>>
      BY <1>1, <2>3
    <3>2. BulkAll = <<>>
      BY <2>1, <2>3, Zenon DEF Reported
    <3>3. out \in Seq(OutByte(input)) /\ out \in Seq(Elem(input))
      BY <3>1
    <3>4. Returned(BulkAll, out)
      BY <3>1, <3>2, <3>3, AllReturned
    <3> QED
      BY <1>2, <2>1, <3>3, <3>4, Zenon DEF BulkInv, BulkReturned
  <2> QED
    BY <2>2, <2>3
<1> QED
  BY <1>5, <1>6

\* Every action preserves it.
LEMMA BulkSteps ==
  ASSUME BulkInv, Bulk!Next
  PROVE  BulkInv'
BY BulkConvertAll, BulkOutputFull, BulkInvalid, BulkCutShort, BulkConverterFails,
   BulkFlushMore, BulkFlushAll, BulkFlushFails DEF Bulk!Next

-----------------------------------------------------------------------------
\* a has been read of all there is.
Yields(a, all) == Len(a) <= Len(all) /\ a = SubSeq(all, 1, Len(a))

\* What is in front has been read, and is all when nothing is behind.
LEMMA FrontYields ==
  ASSUME NEW S, NEW a \in Seq(S), NEW b \in Seq(S), NEW all, all = a \o b
  PROVE  Yields(a, all) /\ (b = <<>> => a = all)
<1>1. all \in Seq(S) /\ Len(all) = Len(a) + Len(b) /\ Len(a) \in Nat /\ Len(b) \in Nat
  OBVIOUS
<1>2. Len(a) <= Len(all)
  BY <1>1
<1>3. a = SubSeq(all, 1, Len(a))
  <2>1. SubSeq(all, 1, Len(a)) \in Seq(S) /\ Len(SubSeq(all, 1, Len(a))) = Len(a)
    BY <1>1, <1>2
  <2>2. \A k \in 1 .. Len(a) : SubSeq(all, 1, Len(a))[k] = a[k]
    BY <1>1, <1>2
  <2> QED
    BY <2>1, <2>2, SeqEqual
<1>4. b = <<>> => a = all
  OBVIOUS
<1> QED
  BY <1>2, <1>3, <1>4, Zenon DEF Yields

\* The invariants' elements are the property's.
LEMMA ElementsAre ==
  ASSUME NEW e \in Elem(input)
  PROVE  IsElement(e)
BY DEF Elem, OutByte, IsElement

-----------------------------------------------------------------------------
\* What the invariant of each facility says of the properties.
LEMMA OrErrorYieldsAll ==
  ASSUME OrErrorInv
  PROVE  Yields(out, Converts(size, TRUE)) /\ (done => out = Converts(size, TRUE))
<1>1. PICK f : f = OrErrorFrom
  OBVIOUS
<1>2. PICK b : b = Shown \o ToCome(f)
  OBVIOUS
<1>3. out \in Seq(Elem(input)) /\ Converts(size, TRUE) = out \o b
  BY <1>1, <1>2 DEF OrErrorInv, OrErrorTypes, OrErrorPromise
<1>4. Shown \in Seq(Elem(input))
  <2>1. CASE error # OrError!None
    <3>1. PICK w : w = Failed(error)
      OBVIOUS
    <3>2. w \in Elem(input)
      BY <2>1, <3>1 DEF Elem, OrErrorInv, OrErrorTypes
    <3>3. Shown = <<w>>
      BY <2>1, <3>1, Zenon DEF Shown
    <3> QED
      BY <3>2, <3>3
  <2>2. CASE error = OrError!None
    <3>1. Shown = buffer
      BY <2>2, Zenon DEF Shown
    <3> QED
      BY <3>1, BytesAreElements DEF OrErrorInv, OrErrorTypes
  <2> QED
    BY <2>1, <2>2
<1>5. b \in Seq(Elem(input))
  <2>1. ToCome(f) \in Seq(Elem(input))
    BY <1>1, ToComeTyped DEF OrErrorInv
  <2> QED
    BY <1>2, <1>4, <2>1
<1>6. done => b = <<>>
  <2>1. SUFFICES ASSUME done PROVE b = <<>>
    OBVIOUS
  <2>2. buffer = <<>> /\ error = OrError!None
    BY <2>1 DEF OrErrorInv, OrErrorShape
  <2>3. Shown = <<>> /\ ToCome(f) = <<>>
    BY <2>1, <2>2, Zenon DEF Shown, ToCome
  <2> QED
    BY <1>2, <2>3
<1> QED
  BY <1>3, <1>5, <1>6, FrontYields

LEMMA ViewYieldsAll ==
  ASSUME ViewInv
  PROVE  Yields(out, Converts(size, FALSE)) /\ (done => out = Converts(size, FALSE))
<1>1. PICK f : f = ViewFrom
  OBVIOUS
<1>2. PICK b : b = buffer \o ViewToCome(f)
  OBVIOUS
<1>3. out \in Seq(OutByte(input)) /\ Converts(size, FALSE) = out \o b
  BY <1>1, <1>2 DEF ViewInv, ViewTypes, ViewPromise
<1>4. b \in Seq(OutByte(input))
  <2>1. ViewToCome(f) \in Seq(OutByte(input)) /\ buffer \in Seq(OutByte(input))
    BY <1>1, ViewToComeTyped DEF ViewInv, ViewTypes
  <2> QED
    BY <1>2, <2>1
<1>5. done => b = <<>>
  <2>1. SUFFICES ASSUME done PROVE b = <<>>
    OBVIOUS
  <2>2. buffer = <<>>
    BY <2>1 DEF ViewInv, ViewShape
  <2>3. ViewToCome(f) = <<>>
    BY <2>1, Zenon DEF ViewToCome
  <2> QED
    BY <1>2, <2>2, <2>3
<1> QED
  BY <1>3, <1>4, <1>5, FrontYields

-----------------------------------------------------------------------------
\* The invariant of the five facilities.
IInv ==
  /\ facility \in Views \cup Functions /\ size \in Nat
  /\ facility = "iconv_transcode_or_error" => OrErrorInv /\ ViewAtRest
  /\ facility = "iconv_transcode" => ViewInv /\ OrErrorAtRest
  /\ facility \in Functions => BulkInv /\ OrErrorAtRest /\ ViewAtRest /\ ViewsAtRest

\* Each facility starts as its invariant says.
LEMMA Starts == Init => IInv
<1>1. SUFFICES ASSUME Init PROVE IInv
  OBVIOUS
<1>2. /\ facility \in Views \cup Functions /\ input \in Inputs[facility]
      /\ opens \in BOOLEAN /\ reset \in ResetBehaviours
  BY <1>1 DEF Init
<1>3. input \in Seq(Byte) /\ reset \in Resetting
  BY <1>2, GivenAssumption DEF Resetting
<1>4. PICK s \in BufferSizes[facility] :
        IF facility \in Views THEN size = s /\ capacity = 0 ELSE size = 0 /\ capacity = s
  BY <1>1 DEF Init
<1>5. s \in Nat /\ s >= MinSize(facility)
  BY <1>2, <1>4, GivenAssumption
<1>6. size \in Nat /\ capacity \in Nat
  BY <1>4, <1>5
<1>7. CASE facility = "iconv_transcode_or_error"
  <2>1. OrError!Init /\ ViewAtRest
    BY <1>1, <1>7 DEF Init
  <2>2. OrErrorInv
    BY <1>2, <1>3, <1>6, <2>1, OrErrorStarts
  <2> QED
    BY <1>2, <1>6, <1>7, <2>1, <2>2 DEF IInv, Functions
<1>8. CASE facility = "iconv_transcode"
  <2>1. View!Init /\ OrErrorAtRest
    BY <1>1, <1>8 DEF Init
  <2>2. size >= 2
    BY <1>4, <1>5, <1>8 DEF Views, MinSize
  <2>3. ViewInv
    BY <1>2, <1>3, <1>6, <2>1, <2>2, ViewStarts
  <2> QED
    BY <1>2, <1>6, <1>8, <2>1, <2>3 DEF IInv, Functions
<1>9. CASE facility \in Functions
  <2>1. Bulk!Init /\ OrErrorAtRest /\ ViewAtRest /\ ViewsAtRest
    BY <1>1, <1>9 DEF Init, Functions
  <2>2. BulkInv
    BY <1>2, <1>3, <1>6, <1>9, <2>1, BulkStarts
  <2> QED
    BY <1>2, <1>6, <1>9, <2>1, <2>2 DEF IInv, Functions
<1> QED
  BY <1>2, <1>7, <1>8, <1>9 DEF Views, Functions

\* A stuttering step.
LEMMA StaysPut ==
  ASSUME UNCHANGED vars, IInv
  PROVE  IInv'
<1>1. /\ input' = input /\ size' = size /\ opens' = opens /\ reset' = reset
      /\ owed' = owed /\ loading' = loading /\ current' = current /\ staging' = staging
      /\ buffer' = buffer /\ flush_state' = flush_state /\ done' = done /\ out' = out
      /\ facility' = facility /\ error' = error /\ terminal' = terminal
      /\ pending' = pending /\ flushing' = flushing
      /\ stop_after_output' = stop_after_output /\ capacity' = capacity
  BY DEF vars, given, ownOrError, ownView, ownViews
<1>2. Staged' <=> Staged
  BY <1>1 DEF Staged, Place
<1>3. Place' = Place
  BY <1>1 DEF Place
<1>4. OrErrorInv => OrErrorInv'
  <2>1. OrErrorTypes => OrErrorTypes'
    BY <1>1, <1>2, Zenon DEF OrErrorTypes
  <2>2. OrErrorShape => OrErrorShape'
    BY <1>1, <1>3, Zenon DEF OrErrorShape
  <2>3. OrErrorPromise => OrErrorPromise'
    BY <1>1, <1>3 DEF OrErrorPromise, Shown, ToCome, OrErrorFrom, Converts
  <2>4. OrErrorReads => OrErrorReads'
    BY <1>1, Zenon DEF OrErrorReads, FewEscapes
  <2> QED
    BY <2>1, <2>2, <2>3, <2>4 DEF OrErrorInv
<1>5. ViewInv => ViewInv'
  <2>1. ViewTypes => ViewTypes'
    BY <1>1, <1>2, Zenon DEF ViewTypes
  <2>2. ViewFrom' = ViewFrom
    BY <1>1 DEF ViewFrom
  <2>3. ViewShape(ViewFrom) => ViewShape(ViewFrom)'
    BY <1>1, <1>3, <2>2 DEF ViewShape, AtEnd
  <2>4. ViewPromise(ViewFrom) => ViewPromise(ViewFrom)'
    BY <1>1, <1>3, <2>2 DEF ViewPromise, ViewToCome, Converts
  <2> QED
    BY <2>1, <2>3, <2>4 DEF ViewInv
<1>6. BulkInv => BulkInv'
  <2>1. BulkTypes => BulkTypes'
    BY <1>1, Zenon DEF BulkTypes
  <2>2. BulkFrom' = BulkFrom /\ BulkAll' = BulkAll
    BY <1>1 DEF BulkFrom, BulkAll, Converts, Reports
  <2>3. BulkGoesOn(BulkFrom) => BulkGoesOn(BulkFrom)'
    BY <1>1, <2>2 DEF BulkGoesOn
  <2>4. BulkReturned => BulkReturned'
    BY <1>1, <2>2, Zenon DEF BulkReturned
  <2> QED
    BY <1>1, <2>1, <2>3, <2>4 DEF BulkInv
<1>7. ViewAtRest => ViewAtRest'
  BY <1>1 DEF ViewAtRest
<1>8. OrErrorAtRest => OrErrorAtRest'
  BY <1>1 DEF OrErrorAtRest
<1>9. ViewsAtRest => ViewsAtRest'
  BY <1>1 DEF ViewsAtRest
<1>10. facility \in Views \cup Functions /\ size \in Nat
  BY DEF IInv
<1>11. CASE facility = "iconv_transcode_or_error"
  <2>1. OrErrorInv /\ ViewAtRest
    BY <1>11 DEF IInv
  <2>2. OrErrorInv' /\ ViewAtRest'
    BY <1>4, <1>7, <2>1, Zenon
  <2> QED
    BY <1>1, <1>10, <1>11, <2>2 DEF IInv, Views, Functions
<1>12. CASE facility = "iconv_transcode"
  <2>1. ViewInv /\ OrErrorAtRest
    BY <1>12 DEF IInv
  <2>2. ViewInv' /\ OrErrorAtRest'
    BY <1>5, <1>8, <2>1, Zenon
  <2> QED
    BY <1>1, <1>10, <1>12, <2>2 DEF IInv, Views, Functions
<1>13. CASE facility \in Functions
  <2>1. BulkInv /\ OrErrorAtRest /\ ViewAtRest /\ ViewsAtRest
    BY <1>13 DEF IInv
  <2>2. BulkInv' /\ OrErrorAtRest' /\ ViewAtRest' /\ ViewsAtRest'
    BY <1>6, <1>7, <1>8, <1>9, <2>1, Zenon
  <2> QED
    BY <1>1, <1>10, <1>13, <2>2 DEF IInv, Views, Functions
<1> QED
  BY <1>10, <1>11, <1>12, <1>13 DEF Views

\* Each facility takes its own steps and leaves the rest alone.
LEMMA Steps == IInv /\ [Next]_vars => IInv'
<1>1. SUFFICES ASSUME IInv, [Next]_vars PROVE IInv'
  OBVIOUS
<1>2. CASE UNCHANGED vars
  BY <1>1, <1>2, StaysPut
<1>3. CASE /\ facility = "iconv_transcode_or_error"
           /\ OrError!Next
           /\ UNCHANGED <<facility, ownView, capacity>>
  <2>1. OrErrorInv /\ ViewAtRest
    BY <1>1, <1>3 DEF IInv
  <2>2. OrErrorInv'
    BY <1>3, <2>1, OrErrorSteps
  <2>3. facility' = facility /\ ViewAtRest'
    BY <1>3, <2>1 DEF ViewAtRest, ownView
  <2>4. size' \in Nat
    BY <2>2 DEF OrErrorInv, OrErrorTypes
  <2> QED
    BY <1>3, <2>2, <2>3, <2>4 DEF IInv, Views, Functions
<1>4. CASE /\ facility = "iconv_transcode"
           /\ View!Next
           /\ UNCHANGED <<facility, ownOrError, capacity>>
  <2>1. ViewInv /\ OrErrorAtRest
    BY <1>1, <1>4 DEF IInv
  <2>2. ViewInv'
    BY <1>4, <2>1, ViewSteps
  <2>3. facility' = facility /\ OrErrorAtRest'
    BY <1>4, <2>1 DEF OrErrorAtRest, ownOrError
  <2>4. size' \in Nat
    BY <2>2 DEF ViewInv, ViewTypes
  <2> QED
    BY <1>4, <2>2, <2>3, <2>4 DEF IInv, Views, Functions
<1>5. CASE /\ facility \in Functions
           /\ Bulk!Next
           /\ UNCHANGED <<contiguous, size, ownOrError, ownView, ownViews>>
  <2>1. BulkInv /\ OrErrorAtRest /\ ViewAtRest /\ ViewsAtRest /\ size \in Nat
    BY <1>1, <1>5 DEF IInv
  <2>2. BulkInv'
    BY <1>5, <2>1, BulkSteps
  <2>3. OrErrorAtRest' /\ ViewAtRest' /\ ViewsAtRest' /\ size' = size
    BY <1>5, <2>1 DEF OrErrorAtRest, ViewAtRest, ViewsAtRest, ownOrError, ownView, ownViews
  <2>4. facility' \in Functions
    BY <2>2 DEF BulkInv, BulkTypes
  <2> QED
    BY <2>1, <2>2, <2>3, <2>4 DEF IInv, Views, Functions
<1> QED
  BY <1>1, <1>2, <1>3, <1>4, <1>5 DEF Next

\* The invariant holds of every facility, whatever it is given.
THEOREM Invariance == Spec => []IInv
BY Starts, Steps, PTL DEF Spec

-----------------------------------------------------------------------------
\* What TypeOK says, of each kind of facility.
LEMMA StagedPlaces ==
  ASSUME Staged
  PROVE  \A k \in DOMAIN staging : staging[k] \in 1 .. current
<1>1. /\ current \in Nat /\ Place \in Nat /\ Place <= current
      /\ staging = Span(Place, current)
  BY StagedIs DEF Staged
<1>2. PICK q \in Nat : q = current
  BY <1>1
<1>3. PICK p \in Nat : p = Place
  BY <1>1
<1>4. p <= q /\ staging = Span(p, q)
  BY <1>1, <1>2, <1>3
<1>5. staging \in Seq(Nat) /\ Len(staging) = q - p
      /\ \A k \in 1 .. q - p : staging[k] = p + k
  BY <1>4, SpanIs
<1>6. DOMAIN staging = 1 .. q - p
  BY <1>4, <1>5
<1> QED
  BY <1>2, <1>4, <1>5, <1>6, SMTT(30)

LEMMA OutputIsBytes ==
  ASSUME NEW a \in Seq(OutByte(input))
  PROVE  \A k \in DOMAIN a : IsByte(a[k])
<1>1. \A k \in DOMAIN a : a[k] \in OutByte(input)
  OBVIOUS
<1> QED
  BY <1>1, BytesAreBytes

LEMMA OutputIsElements ==
  ASSUME NEW a \in Seq(Elem(input))
  PROVE  \A k \in DOMAIN a : IsElement(a[k])
<1>1. \A k \in DOMAIN a : a[k] \in Elem(input)
  OBVIOUS
<1> QED
  BY <1>1, ElementsAre

LEMMA OutputIsElementsToo ==
  ASSUME NEW a \in Seq(OutByte(input))
  PROVE  \A k \in DOMAIN a : IsElement(a[k])
<1>1. PICK s : s = input
  OBVIOUS
<1>2. a \in Seq(Elem(s))
  BY <1>1, BytesAreElements
<1> QED
  BY <1>1, <1>2, OutputIsElements

LEMMA TypesOfOrError ==
  ASSUME facility = "iconv_transcode_or_error", OrErrorInv, ViewAtRest
  PROVE  TypeOK
<1>1. /\ current \in 0 .. Len(input) /\ owed \in 0 .. ResetSize /\ Len(staging) <= StagingSize
      /\ Staged
  BY DEF OrErrorInv, OrErrorTypes, Staged
<1>2. \A k \in DOMAIN staging : staging[k] \in 1 .. current
  BY <1>1, StagedPlaces
<1>3. Len(buffer) <= size /\ \A k \in DOMAIN buffer : IsByte(buffer[k])
  BY OutputIsBytes DEF OrErrorInv, OrErrorTypes
<1>4. \A k \in DOMAIN out : IsElement(out[k])
  BY OutputIsElements DEF OrErrorInv, OrErrorTypes
<1>5. /\ flush_state \in {"not_started", "in_progress", "done"}
      /\ error \in {OrError!None} \cup Errors
      /\ pending \in {OrError!None} \cup Errors
      /\ loading \in BOOLEAN /\ terminal \in BOOLEAN /\ done \in BOOLEAN
  BY DEF OrErrorInv, OrErrorTypes
<1>6. flushing \in BOOLEAN /\ stop_after_output \in BOOLEAN
  BY DEF ViewAtRest
<1>7. facility \notin {"iconv_transcode_to", "iconv_transcode_to_or_error"}
  OBVIOUS
<1> QED
  BY <1>1, <1>2, <1>3, <1>4, <1>5, <1>6, <1>7, Zenon DEF TypeOK

LEMMA TypesOfView ==
  ASSUME facility = "iconv_transcode", ViewInv, OrErrorAtRest
  PROVE  TypeOK
<1>1. /\ current \in 0 .. Len(input) /\ owed \in 0 .. ResetSize /\ Len(staging) <= StagingSize
      /\ Staged
  BY DEF ViewInv, ViewTypes, Staged
<1>2. \A k \in DOMAIN staging : staging[k] \in 1 .. current
  BY <1>1, StagedPlaces
<1>3. Len(buffer) <= size /\ \A k \in DOMAIN buffer : IsByte(buffer[k])
  BY OutputIsBytes DEF ViewInv, ViewTypes
<1>4. \A k \in DOMAIN out : IsElement(out[k])
  BY OutputIsElementsToo DEF ViewInv, ViewTypes
<1>5. /\ flush_state \in {"not_started", "in_progress", "done"}
      /\ loading \in BOOLEAN /\ done \in BOOLEAN
      /\ flushing \in BOOLEAN /\ stop_after_output \in BOOLEAN
  BY DEF ViewInv, ViewTypes
<1>6. /\ error \in {OrError!None} \cup Errors
      /\ pending \in {OrError!None} \cup Errors
      /\ terminal \in BOOLEAN
  BY DEF OrErrorAtRest
<1>7. facility \notin {"iconv_transcode_to", "iconv_transcode_to_or_error"}
  OBVIOUS
<1> QED
  BY <1>1, <1>2, <1>3, <1>4, <1>5, <1>6, <1>7, Zenon DEF TypeOK

LEMMA TypesOfFunctions ==
  ASSUME facility \in Functions, size \in Nat, BulkInv, OrErrorAtRest, ViewAtRest, ViewsAtRest
  PROVE  TypeOK
<1>1. current \in 0 .. Len(input) /\ owed \in 0 .. ResetSize
  BY DEF BulkInv, BulkTypes
<1>2. /\ Len(staging) <= StagingSize
      /\ \A k \in DOMAIN staging : staging[k] \in 1 .. current
  BY StagingAssumption DEF ViewsAtRest
<1>3. Len(buffer) <= size /\ \A k \in DOMAIN buffer : IsByte(buffer[k])
  BY DEF ViewsAtRest
<1>4. \A k \in DOMAIN out : IsElement(out[k])
  <2>1. CASE done
    BY <2>1, OutputIsElements DEF BulkInv, BulkReturned
  <2>2. CASE ~done
    BY <2>2, OutputIsElementsToo DEF BulkInv, BulkGoesOn
  <2> QED
    BY <2>1, <2>2
<1>5. /\ flush_state \in {"not_started", "in_progress", "done"}
      /\ error \in {OrError!None} \cup Errors
      /\ pending \in {OrError!None} \cup Errors
      /\ loading \in BOOLEAN /\ terminal \in BOOLEAN
      /\ flushing \in BOOLEAN /\ stop_after_output \in BOOLEAN
  BY DEF OrErrorAtRest, ViewAtRest, ViewsAtRest
<1>6. done \in BOOLEAN
  BY DEF BulkInv, BulkTypes
<1>7. facility \in {"iconv_transcode_to", "iconv_transcode_to_or_error"} /\ ~done
        => Len(out) <= capacity
  BY DEF BulkInv, BulkGoesOn
<1> QED
  BY <1>1, <1>2, <1>3, <1>4, <1>5, <1>6, <1>7, Zenon DEF TypeOK

\* The types of all state, and what must fit where it is put: the output in
\* the buffer, the staged bytes in staging_, the place in the range, for every
\* input, buffer and size of staging (load() and convert() of both views, and
\* the functions of iconv_bulk.hpp).
THEOREM TypeCorrect == Spec => []TypeOK
<1>1. IInv => TypeOK
  <2>1. SUFFICES ASSUME IInv PROVE TypeOK
    OBVIOUS
  <2>2. CASE facility = "iconv_transcode_or_error"
    BY <2>1, <2>2, TypesOfOrError DEF IInv
  <2>3. CASE facility = "iconv_transcode"
    BY <2>1, <2>3, TypesOfView DEF IInv
  <2>4. CASE facility \in Functions
    BY <2>1, <2>4, TypesOfFunctions DEF IInv
  <2> QED
    BY <2>1, <2>2, <2>3, <2>4 DEF IInv, Views
<1> QED
  BY Invariance, <1>1, PTL

\* Whatever the sizes of buffer and staging, a view yields what the whole input
\* converts to, in order and to the end: no byte or error is lost, repeated or
\* invented between two calls of load().
THEOREM ViewsYield == Spec => []ViewsYieldTheConversion
<1>1. IInv => ViewsYieldTheConversion
  <2>1. SUFFICES ASSUME IInv PROVE ViewsYieldTheConversion
    OBVIOUS
  <2>2. CASE facility = "iconv_transcode_or_error"
    <3>1. OrErrorInv
      BY <2>1, <2>2 DEF IInv
    <3>2. (facility = "iconv_transcode_or_error") = TRUE
      BY <2>2
    <3> QED
      BY <2>2, <3>1, <3>2, OrErrorYieldsAll, Zenon DEF ViewsYieldTheConversion, Yields
  <2>3. CASE facility = "iconv_transcode"
    <3>1. ViewInv
      BY <2>1, <2>3 DEF IInv
    <3>2. (facility = "iconv_transcode_or_error") = FALSE
      BY <2>3
    <3> QED
      BY <2>3, <3>1, <3>2, ViewYieldsAll, Zenon DEF ViewsYieldTheConversion, Yields
  <2>4. CASE facility \in Functions
    <3>1. facility \notin Views
      BY <2>4 DEF Views, Functions
    <3> QED
      BY <3>1, ZenonT(40) DEF ViewsYieldTheConversion
  <2> QED
    BY <2>1, <2>2, <2>3, <2>4 DEF IInv, Views
<1> QED
  BY Invariance, <1>1, PTL

\* An eager function returns the whole conversion, or the first error there is,
\* whatever its buffer was when it started.
THEOREM FunctionsReturn == Spec => []FunctionsReturnTheConversion
<1>1. IInv => FunctionsReturnTheConversion
  <2>1. SUFFICES ASSUME IInv, facility \in Functions, done
                 PROVE  Returned(BulkAll, out)
    BY Zenon DEF FunctionsReturnTheConversion, Returned, BulkAll, Reports
  <2> QED
    BY <2>1 DEF IInv, BulkInv, BulkReturned
<1> QED
  BY Invariance, <1>1, PTL

\* Where load() leaves an iterator before the end there is something to read.
\* For iconv_transcode_or_error this takes that no batch it stages is all
\* escapes (FewEscapes): the run IconvNothingToRead shows that it must.
THEOREM ReadsSomething ==
  Spec => []((facility = "iconv_transcode_or_error" => FewEscapes) => SomethingToRead)
<1>1. IInv => ((facility = "iconv_transcode_or_error" => FewEscapes) => SomethingToRead)
  <2>1. SUFFICES ASSUME IInv, ~loading, ~done,
                        facility = "iconv_transcode_or_error" => FewEscapes
                 PROVE  SomethingToRead
    BY Zenon DEF SomethingToRead
  <2>2. CASE facility = "iconv_transcode_or_error"
    <3>1. OrErrorInv /\ FewEscapes
      BY <2>1, <2>2 DEF IInv
    <3>2. error # OrError!None \/ buffer # <<>>
      BY <2>1, <3>1 DEF OrErrorInv, OrErrorReads
    <3>3. CASE error # OrError!None
      <4>1. error \in Errors
        BY <3>1, <3>3 DEF OrErrorInv, OrErrorTypes
      <4>2. error # "nothing"
        BY <4>1 DEF Errors
      <4>3. OrError!Element = Failed(error)
        BY <3>3 DEF OrError!Element, OrError!Failed, Failed
      <4>4. Failed(error) # Failed("nothing")
        BY <4>2 DEF Failed
      <4>5. OrError!Element # OrError!Stale
        BY <4>3, <4>4 DEF OrError!Stale, OrError!Failed, Failed
      <4> QED
        BY <2>2, <4>5 DEF SomethingToRead
    <3>4. CASE error = OrError!None
      <4>1. buffer \in Seq(OutByte(input)) /\ buffer # <<>>
        BY <3>1, <3>2, <3>4 DEF OrErrorInv, OrErrorTypes
      <4>2. Head(buffer) \in OutByte(input)
        BY <4>1
      <4>3. OrError!Element = Head(buffer)
        BY <3>4, <4>1, Zenon DEF OrError!Element
      <4>4. IsByte(Head(buffer))
        BY <4>2, BytesAreBytes
      <4>5. ~IsByte(Failed("nothing"))
        BY ErrorsAreErrors, Zenon DEF IsError
      <4>6. OrError!Failed("nothing") = Failed("nothing")
        BY DEF OrError!Failed, Failed
      <4>7. OrError!Element # OrError!Stale
        BY <4>3, <4>4, <4>5, <4>6, Zenon DEF OrError!Stale
      <4> QED
        BY <2>2, <4>7 DEF SomethingToRead
    <3> QED
      BY <3>3, <3>4
  <2>3. CASE facility = "iconv_transcode"
    <3>1. ViewInv
      BY <2>1, <2>3 DEF IInv
    <3>2. buffer # <<>>
      BY <2>1, <3>1 DEF ViewInv, ViewShape
    <3> QED
      BY <2>3, <3>2 DEF SomethingToRead
  <2>4. CASE facility \in Functions
    BY <2>4 DEF SomethingToRead, Functions
  <2> QED
    BY <2>1, <2>2, <2>3, <2>4 DEF IInv, Views
<1> QED
  BY Invariance, <1>1, PTL
=============================================================================
