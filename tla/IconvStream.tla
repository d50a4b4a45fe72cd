---------------------------- MODULE IconvStream ----------------------------
(***************************************************************************)
(* What converting an input by iconv promises, said of the whole input:    *)
(* what the two views and the eager functions yield, each after its own    *)
(* fashion, whatever buffers and batches they convert it in.               *)
(***************************************************************************)
EXTENDS IconvConverter

Errors == {"open_failed", "output_full", "incomplete_sequence", "invalid_sequence",
           "system_error"}

Failed(e) == [error |-> e]

\* The iconv_error the views report for what convert() without input answers.
ResetError(answer) ==
  CASE answer = "EILSEQ" -> "invalid_sequence"
    [] answer = "EINVAL" -> "incomplete_sequence"
    [] OTHER -> "system_error"

\* An error, of a facility that reports errors.
Reported(e, reports) == IF reports THEN <<Failed(e)>> ELSE <<>>

\* What the end of the input converts to, with `o` bytes owed: an empty buffer
\* of `room` bytes can be too small for any of them.
Ending(room, reset, reports, o) ==
  IF o > room /\ (reset.whole \/ room = 0) THEN Reported("output_full", reports)
  ELSE Resets(o) \o (IF reset.answer = "ok" THEN <<>>
                     ELSE Reported(ResetError(reset.answer), reports))

\* What follows the first n bytes converts to, with `o` bytes owed there; later[k]
\* has it for what follows the first k.  An invalid byte is skipped, and so is
\* what is left of a character cut short; other errors end it, and one of them
\* is a character for which an empty buffer is too small.
Following(input, room, reset, reports, later, n, o) ==
  IF n = Len(input) THEN Ending(room, reset, reports, o)
  ELSE LET u == Leading(input, [k \in 1 .. Len(input) - n |-> n + k], o) IN
       CASE u.errno = "EILSEQ" -> Reported("invalid_sequence", reports) \o later[n + 1][o]
         [] u.errno = "EINVAL" -> Reported("incomplete_sequence", reports)
                                  \o Ending(room, reset, reports, o)
         [] u.errno = "other"  -> Reported("system_error", reports)
         [] u.errno = "ok" /\ Len(u.written) > room -> Reported("output_full", reports)
         [] u.errno = "ok" /\ Len(u.written) <= room -> u.written \o later[n + u.used][u.owed]

\* What a whole input converts to, in one go and with nothing between: the
\* bytes and, if they are reported, the errors in their places.
Conversion(input, opens, room, reset, reports) ==
  LET from[n \in 0 .. Len(input)] ==
        [o \in 0 .. ResetSize |-> Following(input, room, reset, reports, from, n, o)]
  IN  IF opens THEN from[0][0] ELSE Reported("open_failed", reports)
=============================================================================
