---------------------------- MODULE Utf16Stream ----------------------------
(***************************************************************************)
(* What decoding UTF-16 promises, said over the whole input: two bytes at  *)
(* a time are a code unit, a high unit and the low unit after it are one   *)
(* character, any other surrogate is an error of two bytes, and what the   *)
(* end of the input cuts short is one error.  A byte order mark the input  *)
(* begins with is no part of the text.  Utf16Decoder implements this       *)
(* specification, reading forwards only.                                   *)
(***************************************************************************)
EXTENDS Utf16Units

CONSTANT Inputs    \* the byte sequences the decoder is run over

VARIABLES
  input,   \* the bytes of the base range
  pos,     \* how many of them have been taken
  out,     \* the elements so far, each with the position it ended at
  done     \* the input is exhausted

vars == <<input, pos, out, done>>

Left       == Len(input) - pos
UnitAt(k)  == Unit(input[pos + k], input[pos + k + 1])

TakeAs(k, r) ==
  /\ pos' = pos + k
  /\ out' = Append(out, [result |-> r, upto |-> pos'])
  /\ UNCHANGED <<input, done>>

Init ==
  /\ input \in Inputs
  /\ pos = 0
  /\ out = <<>>
  /\ done = FALSE

AtMark == pos = 0 /\ Left >= 2 /\ UnitAt(1) = Mark

SkipMark ==
  /\ AtMark
  /\ pos' = 2
  /\ UNCHANGED <<input, out, done>>

Pair ==
  /\ Left >= 4 /\ High(UnitAt(1)) /\ Low(UnitAt(3))
  /\ TakeAs(4, Scalar(Supplementary(UnitAt(1), UnitAt(3))))

Single ==
  /\ Left >= 2
  /\ ~AtMark
  /\ High(UnitAt(1)) => Left >= 4 /\ ~Low(UnitAt(3))
  /\ TakeAs(2, UnitResult(UnitAt(1)))

\* Half a unit, or a high unit and nothing or half a unit after it.
Cut ==
  /\ Left \in 1 .. 3
  /\ Left = 1 \/ High(UnitAt(1))
  /\ TakeAs(Left, Truncated)

Finish ==
  /\ ~done
  /\ Left = 0
  /\ done' = TRUE
  /\ UNCHANGED <<input, pos, out>>

Next == SkipMark \/ Pair \/ Single \/ Cut \/ Finish

Spec == Init /\ [][Next]_vars
=============================================================================
