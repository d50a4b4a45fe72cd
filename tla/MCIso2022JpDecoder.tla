------------------------ MODULE MCIso2022JpDecoder ------------------------
(***************************************************************************)
(* Every input of up to MaxLen bytes of MCBytes, from the start of a text  *)
(* and after an escape sequence into each mode.  Index jis0208 keeps one   *)
(* pointer in three empty, so that pairs with and without an entry occur.  *)
(***************************************************************************)
EXTENDS Iso2022JpDecoder, SequencesExt

CONSTANTS MCBytes, MaxLen

Openings == { <<>>,
              <<ESC, LeftParen, LetterJ>>,
              <<ESC, LeftParen, LetterI>>,
              <<ESC, Dollar, LetterB>> }

MCInputs  == {p \o s : p \in Openings, s \in BoundedSeq(MCBytes, MaxLen)}
MCJis0208 == [p \in Pointers |-> IF p % 3 = 0 THEN 0 ELSE 65536 + p]
=============================================================================
