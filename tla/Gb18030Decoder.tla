--------------------------- MODULE Gb18030Decoder ---------------------------
(***************************************************************************)
(* detail::gb18030_decode_one(st, current, end), driven to the end of its  *)
(* input as decode_view does.  One action is one call: it decodes the      *)
(* bytes a broken four-byte sequence handed back, if there are any, and    *)
(* the base range otherwise.  A handed-back byte can begin a sequence of   *)
(* its own, and that call reads on from the base range.                    *)
(*                                                                         *)
(* A byte of the model is its place in the input, so that an element tells *)
(* which bytes it was decoded from; At gives the bytes themselves.         *)
(***************************************************************************)
EXTENDS Gb18030Token, FiniteSets

CONSTANT Inputs    \* the byte sequences the decoder is run over

ASSUME InputsAssumption == Inputs \subseteq Seq(Byte)

VARIABLES
  input,     \* the bytes of the base range
  current,   \* how many of them the iterator `current` has passed
  replay,    \* gb18030_decode_state: replay[replay_pos .. replay_count - 1]
  out,       \* the elements so far, each with the places of its bytes
  done       \* decode_view::iterator::done_

vars == <<input, current, replay, out, done>>

Init ==
  /\ input \in Inputs
  /\ current = 0
  /\ replay = <<>>
  /\ out = <<>>
  /\ done = FALSE

Least(a, b) == IF a < b THEN a ELSE b

\* The places of the next n bytes of the base range, and the bytes at places.
NextPlaces(n) == [k \in 1 .. Least(n, Len(input) - current) |-> current + k]
At(places)    == [k \in 1 .. Len(places) |-> input[places[k]]]

Emit(r, places) == out' = Append(out, [result |-> r, bytes |-> places])

\* Mutant: one byte too many is handed back.
DecodeInputBackTooFar ==
  /\ replay = <<>>
  /\ current < Len(input)
  /\ LET next == NextPlaces(4)
         t    == Token(At(next))
     IN  /\ current' = current + t.read
         /\ replay' = SubSeq(next, t.read - (IF t.back > 0 THEN t.back + 1 ELSE 0) + 1, t.read)
         /\ Emit(t.result, SubSeq(next, 1, t.read - t.back))
  /\ UNCHANGED <<input, done>>

\* No byte handed back: the base range is decoded where it stands.
DecodeInput ==
  /\ replay = <<>>
  /\ current < Len(input)
  /\ LET next == NextPlaces(4)
         t    == Token(At(next))
     IN  /\ current' = current + t.read
         /\ replay' = SubSeq(next, t.read - t.back + 1, t.read)
         /\ Emit(t.result, SubSeq(next, 1, t.read - t.back))
  /\ UNCHANGED <<input, done>>

\* A handed-back byte below 0x80 is a character whatever comes after it.
ReplayAscii ==
  /\ replay # <<>>
  /\ input[Head(replay)] < 128
  /\ replay' = Tail(replay)
  /\ Emit("character", <<Head(replay)>>)
  /\ UNCHANGED <<input, current, done>>

\* Mutant: what was read ahead of the character is forgotten.
LeftoverDropped(left) == Tail(replay)

\* Any other is decoded with up to three bytes of the base range after it, and
\* what is left of those is handed back in its turn.  What an error hands back
\* of its own (Token's `back`) is not, nor is what was handed back before.
Leftover(left) == IF left # <<>> THEN left ELSE Tail(replay)

\* Mutants: the range is passed by three bytes that may not be there, or there
\* has to be something to refill from.
ReplayRefillPastEnd ==
  /\ replay # <<>>
  /\ input[Head(replay)] >= 128
  /\ LET buf == <<Head(replay)>> \o NextPlaces(3)
         t   == Token(At(buf))
     IN  /\ current' = current + 3
         /\ replay' = Leftover(SubSeq(buf, t.read + 1, Len(buf)))
         /\ Emit(t.result, SubSeq(buf, 1, t.read - t.back))
  /\ UNCHANGED <<input, done>>

ReplayRefillIfAny ==
  /\ replay # <<>>
  /\ input[Head(replay)] >= 128
  /\ current < Len(input)
  /\ LET buf == <<Head(replay)>> \o NextPlaces(3)
         t   == Token(At(buf))
     IN  /\ current' = current + Len(buf) - 1
         /\ replay' = Leftover(SubSeq(buf, t.read + 1, Len(buf)))
         /\ Emit(t.result, SubSeq(buf, 1, t.read - t.back))
  /\ UNCHANGED <<input, done>>

ReplayRefill ==
  /\ replay # <<>>
  /\ input[Head(replay)] >= 128
  /\ LET buf == <<Head(replay)>> \o NextPlaces(3)
         t   == Token(At(buf))
     IN  /\ current' = current + Len(buf) - 1
         /\ replay' = Leftover(SubSeq(buf, t.read + 1, Len(buf)))
         /\ Emit(t.result, SubSeq(buf, 1, t.read - t.back))
  /\ UNCHANGED <<input, done>>

\* The base range is exhausted and gb18030_decode_state::at_end().
Finish ==
  /\ ~done
  /\ replay = <<>>
  /\ current = Len(input)
  /\ done' = TRUE
  /\ UNCHANGED <<input, current, replay, out>>

Next ==
  \/ DecodeInput
  \/ ReplayAscii
  \/ ReplayRefill
  \/ Finish

Spec == Init /\ [][Next]_vars

\* The caller iterates to the end: begin() and ++ until the sentinel.
FairSpec == Spec /\ WF_vars(Next)
-----------------------------------------------------------------------------
Places == 1 .. Len(input)

\* Every variable has the values its declaration in the code allows; `replay`
\* is an array of three.
TypeOK ==
  /\ input \in Seq(Byte)
  /\ current \in 0 .. Len(input)
  /\ replay \in Seq(Places)
  /\ Len(replay) <= 3
  /\ out \in Seq([result : Results, bytes : Seq(Places)])
  /\ done \in BOOLEAN

Ordered(s) == \A i, j \in 1 .. Len(s) : i < j => s[i] < s[j]
Before(s, t) == \A i \in 1 .. Len(s), j \in 1 .. Len(t) : s[i] < t[j]
Within(k, s) == \E i \in 1 .. Len(s) : s[i] = k

\* A byte is decoded once: it is in one element or is handed back, never both.
NoByteTwice ==
  /\ \A i, j \in 1 .. Len(out) : \A k \in Places :
       Within(k, out[i].bytes) /\ Within(k, out[j].bytes) => i = j
  /\ \A i \in 1 .. Len(out) : \A k \in Places :
       Within(k, replay) => ~Within(k, out[i].bytes)

\* A byte handed back is decoded before any byte read after it: "they are
\* decoded before any byte of the input is read again".
HandedBackFirst ==
  /\ \A i \in 1 .. Len(out) : Ordered(out[i].bytes) /\ Before(out[i].bytes, replay)
  /\ \A i, j \in 1 .. Len(out) : i < j => Before(out[i].bytes, out[j].bytes)

\* Iteration reaches the sentinel: bytes are not handed back for ever.
Terminates == <>done

\* The bytes that can begin or break a sequence are the ones from 0x80 up.
High(s) == Cardinality({k \in 1 .. Len(s) : s[k] >= 128})

Stream == INSTANCE Gb18030Stream WITH pos <- current - Len(replay)

\* Decoded with the bytes handed back, an input is the stream of tokens it is.
\* That is so as long as no sequence breaks where the bytes of another one are
\* still handed back, which takes three bytes from 0x80 up; what happens then,
\* HandedBackFirst shows.
ImplementsStream ==
  /\ Stream!Init
  /\ [][High(input) <= 2 => Stream!Next]_(Stream!vars)
=============================================================================
