-------------------------- MODULE Iso2022JpStream --------------------------
(***************************************************************************)
(* What decoding ISO-2022-JP promises, said over the whole input: a reader *)
(* that can look ahead and stands at position `pos` takes one token at a   *)
(* time: an escape sequence, a character or a malformed byte.  A stray ESC *)
(* is one malformed byte, and the bytes after it are read again as what    *)
(* they are.  There is no buffer, no lead byte and no half-read sequence   *)
(* here; Iso2022JpDecoder, which reads an input iterator forwards one byte *)
(* at a time, implements this specification.                               *)
(***************************************************************************)
EXTENDS Iso2022JpCodes

CONSTANT Inputs    \* the byte sequences the decoder is run over

VARIABLES
  input,   \* the bytes of the base range
  pos,     \* how many of them have been taken
  mode,    \* the mode the last escape sequence selected
  flag,    \* that escape sequence has had no output after it yet
  out,     \* the elements so far, each with the position it ended at
  done     \* the input is exhausted and nothing is owed

vars == <<input, pos, mode, flag, out, done>>

\* The k-th byte not yet taken, and whether there is one.
Ahead(k)    == input[pos + k]
Has(k)      == pos + k <= Len(input)

EscapeTo(m) == Has(3) /\ Ahead(1) = ESC /\ Designates(Ahead(2), Ahead(3), m)

\* The input ends inside what could have become an escape sequence.
CutEscape   == ~Has(2) \/ (~Has(3) /\ Ahead(2) \in {Dollar, LeftParen})

Take(k) == pos' = pos + k
Emit(r) == out' = Append(out, [result |-> r, upto |-> pos'])

Init ==
  /\ input \in Inputs
  /\ pos = 0
  /\ mode = ASCII
  /\ flag = FALSE
  /\ out = <<>>
  /\ done = FALSE

Switch(m) ==
  /\ EscapeTo(m)
  /\ Take(3)
  /\ mode' = m
  /\ flag' = ~flag
  /\ IF flag THEN Emit(Invalid) ELSE UNCHANGED out
  /\ UNCHANGED <<input, done>>

StrayEscape ==
  /\ Has(1) /\ Ahead(1) = ESC
  /\ \A m \in Modes : ~EscapeTo(m)
  /\ Take(1)
  /\ flag' = FALSE
  /\ Emit(IF CutEscape THEN Truncated ELSE Invalid)
  /\ UNCHANGED <<input, mode, done>>

Plain ==
  /\ mode # LeadByte
  /\ Has(1) /\ Ahead(1) # ESC
  /\ Take(1)
  /\ flag' = FALSE
  /\ Emit(PlainResult(mode, Ahead(1)))
  /\ UNCHANGED <<input, mode, done>>

Pair ==
  /\ mode = LeadByte
  /\ Has(2) /\ JisByte(Ahead(1)) /\ Ahead(2) # ESC
  /\ Take(2)
  /\ flag' = FALSE
  /\ Emit(PairResult(Ahead(1), Ahead(2)))
  /\ UNCHANGED <<input, mode, done>>

BadLead ==
  /\ mode = LeadByte
  /\ Has(1) /\ Ahead(1) # ESC
  /\ \/ ~JisByte(Ahead(1)) /\ Emit(Invalid)
     \/ JisByte(Ahead(1)) /\ ~Has(2) /\ Emit(Truncated)
  /\ Take(1)
  /\ flag' = FALSE
  /\ UNCHANGED <<input, mode, done>>

\* A lead byte with an escape sequence where its trail byte should be.  The
\* code passes over the lead byte without an element.
DanglingLead ==
  /\ mode = LeadByte
  /\ Has(2) /\ JisByte(Ahead(1)) /\ Ahead(2) = ESC
  /\ Take(1)
  /\ UNCHANGED <<input, mode, flag, out, done>>

Finish ==
  /\ ~done
  /\ ~Has(1)
  /\ done' = TRUE
  /\ UNCHANGED <<input, pos, mode, flag, out>>

Next ==
  \/ \E m \in Modes : Switch(m)
  \/ StrayEscape
  \/ Plain
  \/ Pair
  \/ BadLead
  \/ DanglingLead
  \/ Finish

Spec == Init /\ [][Next]_vars
=============================================================================
