-------------------------- MODULE MCGb18030Decoder --------------------------
(***************************************************************************)
(* Inputs of up to MaxLen bytes of MCBytes: those with at most two bytes   *)
(* from 0x80 up, from the start of a text, and all of them after a         *)
(* four-byte sequence that is about to break or to end.                    *)
(***************************************************************************)
EXTENDS Gb18030Decoder, SequencesExt

CONSTANTS MCBytes, MaxLen

FromTheStart == {s \in BoundedSeq(MCBytes, MaxLen) : High(s) <= 2}
AfterThree   == {<<129, 48, 129>> \o s : s \in BoundedSeq(MCBytes, MaxLen)}
MCInputs     == FromTheStart \cup AfterThree
=============================================================================
