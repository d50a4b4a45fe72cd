--------------------------- MODULE MCUtf16Decoder ---------------------------
(* Every input of up to MaxLen bytes of MCBytes, which are taken so that     *)
(* units of every kind occur at both alignments; and U+FEFF in front of some *)
(* of them, once or twice, after a character, and where a low surrogate      *)
(* should be, as itself and with its bytes swapped.                          *)
EXTENDS Utf16Decoder, SequencesExt

CONSTANTS MCBytes, MaxLen

Marks == {<<254, 255>>, <<255, 254>>}
Fronts == {<<>>, <<254, 255>>, <<0, 65>>, <<216, 0>>}

MCInputs ==
  BoundedSeq(MCBytes, MaxLen)
    \cup {front \o mark \o s : front \in Fronts, mark \in Marks, s \in BoundedSeq(MCBytes, MaxLen - 2)}
=============================================================================
