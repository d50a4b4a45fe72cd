---------------------- MODULE MCIso2022JpRoundTrip ----------------------
(***************************************************************************)
(* Every text of up to MaxLen of the code points in MCText.  In index      *)
(* jis0208 every code point here has two pointers, and some have none.     *)
(***************************************************************************)
EXTENDS Iso2022JpRoundTrip, SequencesExt

CONSTANTS MCText, MaxLen

MCTexts   == BoundedSeq(MCText, MaxLen)
MCJis0208 == [p \in Pointers |-> IF p < 188 THEN 12288 + p \div 2 ELSE 0]
=============================================================================
