------------------------- MODULE MCIconvFacilities -------------------------
(***************************************************************************)
(* Every input of up to MaxLen bytes; for iconv_transcode_or_error, those  *)
(* of them in which fewer bytes in a row than staging holds convert to     *)
(* nothing.  The functions, which have no staging, get shorter ones.       *)
(***************************************************************************)
EXTENDS IconvFacilities, SequencesExt

CONSTANTS MCBytes, MaxLen, MaxLenOfFunctions

Escape(b)     == b \in {"shift", "unshift"}
Productive(s) == \A k \in 1 .. Len(s) - 1 : ~(Escape(s[k]) /\ Escape(s[k + 1]))

AllInputs == BoundedSeq(MCBytes, MaxLen)

MCInputs ==
  [f \in Views \cup Functions |->
     CASE f = "iconv_transcode_or_error" -> {s \in AllInputs : Productive(s)}
       [] f = "iconv_transcode" -> AllInputs
       [] OTHER -> BoundedSeq(MCBytes, MaxLenOfFunctions)]

MCSizes ==
  [f \in Views \cup Functions |->
     CASE f = "iconv_transcode_or_error" -> {0, 1, 2}
       [] f = "iconv_transcode" -> {2}
       [] f = "iconv_transcode_into" -> {2, 3}
       [] OTHER -> {1, 2}]

\* Of iconv_transcode_or_error alone, the inputs with escapes in a row as well.
NothingToRead ==
  [f \in Views \cup Functions |-> IF f = "iconv_transcode_or_error" THEN AllInputs ELSE {}]

\* A converter that resets and one that fails to when all is written, and one
\* that writes all it owes or nothing.
MCResets == {[answer |-> "ok",     whole |-> FALSE],
             [answer |-> "ok",     whole |-> TRUE],
             [answer |-> "EINVAL", whole |-> FALSE]}

OneReset == {[answer |-> "ok", whole |-> TRUE]}
=============================================================================
