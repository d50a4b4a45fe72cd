---------------------------- MODULE Utf16Decoder ----------------------------
(***************************************************************************)
(* detail::utf16_decode_one, driven to the end of its input as decode_view *)
(* does, by way of whatwg::decoder.  A call reads a code unit, from the    *)
(* two bytes the call before it put back or from the base range, and after *)
(* a high surrogate one more; one action is one call, and decode_first is  *)
(* one call or two.                                                        *)
(***************************************************************************)
EXTENDS Utf16Units

CONSTANT Inputs    \* the byte sequences the decoder is run over

ASSUME InputsAssumption == Inputs \subseteq Seq(Byte)

VARIABLES
  input,     \* the bytes of the base range
  current,   \* how many of them the iterator `current` has passed
  pending,   \* utf16_decode_state: the unit put back, as its bytes
  out,       \* the elements so far, each with the position it ended at
  done       \* decode_view::iterator::done_

vars == <<input, current, pending, out, done>>

Init ==
  /\ input \in Inputs
  /\ current = 0
  /\ pending = <<>>
  /\ out = <<>>
  /\ done = FALSE

Position == current - Len(pending)

Emit(r) == out' = Append(out, [result |-> r, upto |-> Position'])

\* The first unit of a call: its value, and where the base range is read next.
HasUnit == pending # <<>> \/ current + 2 <= Len(input)
FirstUnit ==
  IF pending # <<>> THEN Unit(pending[1], pending[2])
  ELSE Unit(input[current + 1], input[current + 2])
AfterUnit == IF pending # <<>> THEN current ELSE current + 2

\* The unit in the low surrogate's place.
HasSecond  == AfterUnit + 2 <= Len(input)
SecondUnit == Unit(input[AfterUnit + 1], input[AfterUnit + 2])

\* Mutant: the missing byte is passed as well.
HalfUnitAsUnit ==
  /\ pending = <<>>
  /\ current + 1 = Len(input)
  /\ current' = current + 2
  /\ UNCHANGED <<input, pending, done>>
  /\ Emit(Truncated)

\* One byte is left where a unit should be.
HalfUnit ==
  /\ pending = <<>>
  /\ current + 1 = Len(input)
  /\ current' = Len(input)
  /\ UNCHANGED <<input, pending, done>>
  /\ Emit(Truncated)

\* Mutant: any U+FEFF is taken for a byte order mark.
AtMarkAnywhere == HasUnit /\ FirstUnit = Mark

\* Only decode_first, which is called once and first, looks for the mark.
AtMark == HasUnit /\ FirstUnit = Mark /\ current = 0

\* The rest of decode_first is a call like any other, or the end of the input.
DiscardMark ==
  /\ AtMark
  /\ current' = AfterUnit
  /\ pending' = <<>>
  /\ UNCHANGED <<input, out, done>>

LoneUnit ==
  /\ HasUnit
  /\ ~High(FirstUnit)
  /\ ~AtMark
  /\ current' = AfterUnit
  /\ pending' = <<>>
  /\ Emit(UnitResult(FirstUnit))
  /\ UNCHANGED <<input, done>>

\* Mutant: half a unit after a high surrogate is overlooked.
CutPairAtOnce ==
  /\ HasUnit
  /\ High(FirstUnit)
  /\ AfterUnit = Len(input)
  /\ current' = Len(input)
  /\ pending' = <<>>
  /\ Emit(Truncated)
  /\ UNCHANGED <<input, done>>

\* The input ends, after a byte or at once, where the low surrogate should be.
CutPair ==
  /\ HasUnit
  /\ High(FirstUnit)
  /\ ~HasSecond
  /\ current' = Len(input)
  /\ pending' = <<>>
  /\ Emit(Truncated)
  /\ UNCHANGED <<input, done>>

SurrogatePair ==
  /\ HasUnit
  /\ High(FirstUnit)
  /\ HasSecond
  /\ Low(SecondUnit)
  /\ current' = AfterUnit + 2
  /\ pending' = <<>>
  /\ Emit(Scalar(Supplementary(FirstUnit, SecondUnit)))
  /\ UNCHANGED <<input, done>>

\* Mutants: the unit is put back with its bytes swapped, or not at all.
UnpairedHighSwapped ==
  /\ HasUnit
  /\ High(FirstUnit)
  /\ HasSecond
  /\ ~Low(SecondUnit)
  /\ current' = AfterUnit + 2
  /\ pending' = <<input[AfterUnit + 2], input[AfterUnit + 1]>>
  /\ Emit(Lone)
  /\ UNCHANGED <<input, done>>

UnpairedHighTakesBoth ==
  /\ HasUnit
  /\ High(FirstUnit)
  /\ HasSecond
  /\ ~Low(SecondUnit)
  /\ current' = AfterUnit + 2
  /\ pending' = <<>>
  /\ Emit(Lone)
  /\ UNCHANGED <<input, done>>

\* The unit after a high surrogate is put back to be read as what it is.
UnpairedHigh ==
  /\ HasUnit
  /\ High(FirstUnit)
  /\ HasSecond
  /\ ~Low(SecondUnit)
  /\ current' = AfterUnit + 2
  /\ pending' = <<input[AfterUnit + 1], input[AfterUnit + 2]>>
  /\ Emit(Lone)
  /\ UNCHANGED <<input, done>>

\* The base range is exhausted and utf16_decode_state::at_end().
Finish ==
  /\ ~done
  /\ pending = <<>>
  /\ current = Len(input)
  /\ done' = TRUE
  /\ UNCHANGED <<input, current, pending, out>>

Next ==
  \/ HalfUnit
  \/ DiscardMark
  \/ LoneUnit
  \/ CutPair
  \/ SurrogatePair
  \/ UnpairedHigh
  \/ Finish

Spec == Init /\ [][Next]_vars

\* The caller iterates to the end: begin() and ++ until the sentinel.
FairSpec == Spec /\ WF_vars(Next)
-----------------------------------------------------------------------------
\* Every variable has the values its declaration in the code allows.
TypeOK ==
  /\ input \in Seq(Byte)
  /\ current \in 0 .. Len(input)
  /\ pending \in Seq(Byte)
  /\ Len(pending) \in {0, 2}
  /\ out \in Seq([result : Results, upto : Nat])
  /\ done \in BOOLEAN

\* The bytes put back are the two before `current`.
PutBackIsBackingUp ==
  /\ Len(pending) <= current
  /\ \A k \in 1 .. Len(pending) : pending[k] = input[Position + k]

NoError == \A i \in 1 .. Len(out) : out[i].result[1] = "scalar"

\* The byte order mark an input begins with, of whatever follows it.
MarkLength == IF Len(input) >= 2 /\ Unit(input[1], input[2]) = Mark THEN 2 ELSE 0

\* A text that decodes without an error is, byte for byte, what encoding its
\* characters gives: nothing is skipped but a byte order mark in front, which
\* U+FEFF is nowhere else, and nothing is read twice or paired off its place.
DecodedIsEncoded ==
  NoError =>
    LET start(i) == IF i = 1 THEN MarkLength ELSE out[i - 1].upto IN
    \A i \in 1 .. Len(out) :
      SubSeq(input, start(i) + 1, out[i].upto) = Encode(out[i].result[2])

\* Iteration reaches the sentinel: a unit is not put back for ever.
Terminates == <>done

Stream == INSTANCE Utf16Stream WITH pos <- Position

\* Reading forwards, the decoder makes of every input what looking ahead would.
ImplementsStream == Stream!Spec
=============================================================================
