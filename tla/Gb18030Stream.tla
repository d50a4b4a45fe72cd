---------------------------- MODULE Gb18030Stream ----------------------------
(***************************************************************************)
(* What decoding gb18030 (and GBK, whose decoder it is) promises, said     *)
(* over the whole input: one token after another, each starting where the  *)
(* one before it ended, the bytes it hands back counted as not taken.      *)
(* Gb18030Decoder, which has handed-back bytes to keep, is meant to        *)
(* implement this specification.                                           *)
(***************************************************************************)
EXTENDS Gb18030Token

CONSTANT Inputs    \* the byte sequences the decoder is run over

VARIABLES
  input,   \* the bytes of the base range
  pos,     \* how many of them have been taken
  out,     \* the elements so far, each with the places of its bytes
  done     \* the input is exhausted

vars == <<input, pos, out, done>>

Init ==
  /\ input \in Inputs
  /\ pos = 0
  /\ out = <<>>
  /\ done = FALSE

Take ==
  /\ pos < Len(input)
  /\ LET t == Token(SubSeq(input, pos + 1, Len(input)))
         n == t.read - t.back
     IN  /\ pos' = pos + n
         /\ out' = Append(out, [result |-> t.result,
                                bytes  |-> [k \in 1 .. n |-> pos + k]])
  /\ UNCHANGED <<input, done>>

Finish ==
  /\ ~done
  /\ pos = Len(input)
  /\ done' = TRUE
  /\ UNCHANGED <<input, pos, out>>

Next == Take \/ Finish

Spec == Init /\ [][Next]_vars
=============================================================================
